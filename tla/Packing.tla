------------------------------ MODULE Packing -------------------------------
(***************************************************************************)
(* The pack and unpack loops that put OT messages, corrections and choices *)
(* on the wire: pack_a, pack_messages (split-utils.h), pack_ot_messages,   *)
(* pack_cot_messages (ot-utils.h) and writeToPackedArr (utils.hpp).  Each  *)
(* step is an iteration of a loop; a behaviour packs a batch and then      *)
(* unpacks what a receiver with some choices would.                        *)
(***************************************************************************)
EXTENDS Words, FiniteSets

CONSTANTS
  W,        \* bits of a carrier word; a whole number of bytes
  ByteW,    \* bits of a byte
  MaxBatch, \* the largest bsize
  Tapes     \* what a batch of messages or of pads may be

PackingAssumption ==
  /\ ByteW \in Nat \ {0}
  /\ W \in Nat \ {0}
  /\ W % ByteW = 0
  /\ Tapes \subseteq [0..(2 * MaxBatch - 1) -> Word(W)]

\* How many messages an OT of the kind carries, and whether they are masked
\* while they are packed.
Kinds == {"a", "messages", "ot", "cot", "bytes"}
PerOT(kind) == IF kind \in {"messages", "ot"} THEN 2 ELSE 1

VARIABLES
  kind,    \* which pair of functions
  n,       \* bitsize
  bsize,   \* the number of OTs of the batch
  msg,     \* the messages (a_unpacked, data, maskeddata, corr_data)
  pad,     \* the pads of the OTs
  r,       \* the choices
  y,       \* the packed array
  i,       \* the loop variable
  out,     \* the unpacked values
  stage    \* "zero", "pack", "unpack" or "done"

vars == <<kind, n, bsize, msg, pad, r, y, i, out, stage>>

WordBytes == W \div ByteW

\* The elements of the packed array: corrected_y_size words, or as many
\* bytes with room for one more word.
Cells ==
  IF kind = "bytes" THEN 0..(CeilDiv(bsize * n, ByteW) + WordBytes - 1)
  ELSE 0..(CeilDiv(bsize * PerOT(kind) * n, W) - 1)
CellWidth == IF kind = "bytes" THEN ByteW ELSE W

\* What the array holds before: nothing in particular.
Junk(w) == [b \in 0..(w - 1) |-> 1]

Init ==
  /\ kind \in Kinds
  /\ n \in 1..W
  /\ bsize \in 1..MaxBatch
  /\ msg \in Tapes
  /\ pad \in IF kind \in {"messages", "ot"} THEN Tapes
             ELSE {[q \in 0..(2 * MaxBatch - 1) |-> ZeroWord(W)]}
  /\ r \in [0..(bsize - 1) -> 0..(PerOT(kind) - 1)]
  /\ y = [c \in Cells |-> Junk(CellWidth)]
  /\ i = 0
  /\ out = [j \in 0..(bsize - 1) |-> Junk(W)]
  /\ stage = "zero"

\* for (i < ysize) y[i] = 0.  writeToPackedArr has no such loop.
Zero ==
  /\ stage = "zero"
  /\ y' = IF kind = "bytes" THEN y ELSE [c \in DOMAIN y |-> ZeroWord(W)]
  /\ stage' = "pack"
  /\ UNCHANGED <<kind, n, bsize, msg, pad, r, i, out>>

\* start_pos of message k of OT j.
Pos(j, k) == j * PerOT(kind) * n + k * n

\* What is put there: the message masked by its pad.
Masked(j, k) == XorWord(msg[j * PerOT(kind) + k], pad[j * PerOT(kind) + k])

Put(array, j, k) ==
  IF kind = "bytes" THEN WritePacked(ByteW, WordBytes, array, Pos(j, k), Low(Masked(j, k), n))
  ELSE PutBits(W, array, Pos(j, k), n, Masked(j, k))

Pack ==
  /\ stage = "pack"
  /\ y' = IF PerOT(kind) = 1 THEN Put(y, i, 0) ELSE Put(Put(y, i, 0), i, 1)
  /\ i' = IF i = bsize - 1 THEN 0 ELSE i + 1
  /\ stage' = IF i = bsize - 1 THEN "unpack" ELSE "pack"
  /\ UNCHANGED <<kind, n, bsize, msg, pad, r, out>>

\* unpack_cot_messages masks a value only if it lies in one word.
Take(j) ==
  LET pos == Pos(j, r[j])
  IN  CASE kind = "bytes" -> ReadPacked(ByteW, WordBytes, y, pos, n)
        [] kind = "cot" /\ StartBlock(W, pos) # EndBlock(W, pos, n) -> RawBits(W, y, pos, n)
        [] OTHER -> GetBits(W, y, pos, n)

Unmask(j) == IF kind \in {"messages", "ot"} THEN Low(XorWord(Take(j), pad[j * PerOT(kind) + r[j]]), n)
             ELSE Take(j)

Unpack ==
  /\ stage = "unpack"
  /\ out' = [out EXCEPT ![i] = Unmask(i)]
  /\ i' = IF i = bsize - 1 THEN 0 ELSE i + 1
  /\ stage' = IF i = bsize - 1 THEN "done" ELSE "unpack"
  /\ UNCHANGED <<kind, n, bsize, msg, pad, r, y>>

Next == Zero \/ Pack \/ Unpack
Spec == Init /\ [][Next]_vars

------------------------------------------------------------------------------
\* The element of the array and the bit of it at a position of the stream.
BitOfStream(p) == y[p \div CellWidth][p % CellWidth]

\* At every point of the packing loop the array is the concatenation of the
\* masked n-bit values so far: a value that straddles two words is neither
\* cut off nor written over by its neighbours, and in the arrays of words
\* every bit after the last value is zero.
Concatenation ==
  LET packed == i * PerOT(kind) * n
  IN  stage = "pack" =>
        /\ \A p \in 0..(packed - 1) :
             BitOfStream(p) = Masked((p \div n) \div PerOT(kind), (p \div n) % PerOT(kind))[p % n]
        /\ kind # "bytes" =>
             \A p \in packed..(W * Cardinality(Cells) - 1) : BitOfStream(p) = 0

\* A receiver unpacks the low n bits of exactly the message it chose.  The
\* values of unpack_cot_messages are right modulo 2^n only.
RoundTrip ==
  \A j \in 0..(bsize - 1) :
    stage = "done" \/ (stage = "unpack" /\ j < i) =>
      LET chosen == Low(msg[j * PerOT(kind) + r[j]], n)
      IN  IF kind = "cot" THEN Low(out[j], n) = chosen ELSE out[j] = chosen

\* No iteration touches an element outside the size that the callers compute
\* with one rounding for the whole batch; the byte arrays need their extra
\* word for that.
InBounds ==
  \A j \in 0..(bsize - 1), k \in 0..(PerOT(kind) - 1) :
    IF kind = "bytes"
    THEN Pos(j, k) \div ByteW + WordBytes \in DOMAIN y
    ELSE EndBlock(W, Pos(j, k), n) \in DOMAIN y
=============================================================================
