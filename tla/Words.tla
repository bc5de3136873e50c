------------------------------- MODULE Words --------------------------------
(***************************************************************************)
(* Unsigned machine words as functions from bit positions to bits, least   *)
(* significant first, with C's operators on them, and the two ways the     *)
(* code packs values that are narrower than a word: into an array of words *)
(* (pack_a and its kin) and into an array of bytes that is accessed        *)
(* through unaligned words (writeToPackedArr, readFromPackedArr).          *)
(***************************************************************************)
EXTENDS Bits

Word(w) == [0..(w - 1) -> Bit]
ZeroWord(w) == [i \in 0..(w - 1) |-> 0]

XorWord(a, b) == [i \in DOMAIN a |-> Xor(a[i], b[i])]
Shl(a, k) == [i \in DOMAIN a |-> IF i - k \in DOMAIN a THEN a[i - k] ELSE 0]
Shr(a, k) == [i \in DOMAIN a |-> IF i + k \in DOMAIN a THEN a[i + k] ELSE 0]

\* a + b modulo 2^w.
AddWord(w, a, b) ==
  LET carry[i \in 0..w] ==
        IF i = 0 THEN 0 ELSE (a[i - 1] + b[i - 1] + carry[i - 1]) \div 2
  IN  [i \in 0..(w - 1) |-> (a[i] + b[i] + carry[i]) % 2]

\* a - b modulo 2^w.
SubWord(w, a, b) ==
  LET borrow[i \in 0..w] ==
        IF i = 0 THEN 0 ELSE BitOf(a[i - 1] - b[i - 1] - borrow[i - 1] < 0)
  IN  [i \in 0..(w - 1) |-> Xor(Xor(a[i], b[i]), borrow[i])]

\* a & ((1 << n) - 1), the mask of all ones included.
Low(a, n) == [i \in DOMAIN a |-> IF i < n THEN a[i] ELSE 0]

------------------------------------------------------------------------------
(* An array y of words of w bits.  A value of at most w bits that starts at *)
(* bit position pos touches the words start_block and end_block.           *)

StartBlock(w, pos) == pos \div w
EndBlock(w, pos, n) == (pos + n - 1) \div w

\* y[start_block] ^= v << off; y[end_block] ^= v >> (w - off).
PutBitsNoSpill(w, y, pos, n, v) ==
  [y EXCEPT ![StartBlock(w, pos)] = XorWord(@, Shl(Low(v, n), pos % w))]
PutBits(w, y, pos, n, v) ==
  LET s == StartBlock(w, pos)
      e == EndBlock(w, pos, n)
      first == [y EXCEPT ![s] = XorWord(@, Shl(Low(v, n), pos % w))]
  IN  IF s = e THEN first
      ELSE [first EXCEPT ![e] = XorWord(@, Shr(Low(v, n), w - (pos % w)))]

\* The word whose low n bits are the value at pos; what lies above depends
\* on whether the value straddles two words.
RawBits(w, y, pos, n) ==
  LET s == StartBlock(w, pos)
      e == EndBlock(w, pos, n)
      low == Shr(y[s], pos % w)
  IN  IF s = e THEN low ELSE XorWord(low, Shl(y[e], w - (pos % w)))

GetBits(w, y, pos, n) == Low(RawBits(w, y, pos, n), n)

------------------------------------------------------------------------------
(* An array of bytes of bw bits, read and written through words of wb       *)
(* bytes at any byte offset (little endian).                               *)

LoadWord(bw, wb, arr, at) ==
  [i \in 0..(bw * wb - 1) |-> arr[at + (i \div bw)][i % bw]]

ReadPacked(bw, wb, arr, pos, n) ==
  LET w == bw * wb
      first == pos \div bw
      reject == pos % bw
      ans == Shr(LoadWord(bw, wb, arr, first), reject)
      next == [i \in 0..(w - 1) |-> IF i < reject THEN arr[first + wb][i] ELSE 0]
  IN  Low(IF n > w - reject THEN XorWord(ans, Shl(next, w - reject)) ELSE ans, n)

\* writeInAByte keeps the bits below pos; the rest of the byte and the whole
\* word after it are overwritten.
WritePacked(bw, wb, arr, pos, v) ==
  LET first == pos \div bw
      shifted == Shr(v, bw - (pos % bw))
  IN  [b \in DOMAIN arr |->
         IF b = first
         THEN [i \in 0..(bw - 1) |-> IF i < pos % bw THEN arr[b][i] ELSE v[i - (pos % bw)]]
         ELSE IF b \in (first + 1)..(first + wb)
         THEN [i \in 0..(bw - 1) |-> shifted[(b - first - 1) * bw + i]]
         ELSE arr[b]]
=============================================================================
