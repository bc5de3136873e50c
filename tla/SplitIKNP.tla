----------------------------- MODULE SplitIKNP ------------------------------
(***************************************************************************)
(* The calls of SplitIKNP (split-iknp.h) that do not use the pool of       *)
(* precomputed OTs: an extension whose block shrinks with the call, then   *)
(* OTs of blocks or of packed l-bit values, additive correlated OTs, and   *)
(* the batched forms in which an OT carries several values under one       *)
(* choice.  The pool is module SplitOT, the base OTs are NetSetup.         *)
(*                                                                         *)
(* Rows are as in IKNP: a position in the streams of the PRGs, and the     *)
(* columns flipped by s.  What goes to the sender is counted in rows of a  *)
(* column message, what goes to the receiver in bits; the loops of module  *)
(* Packing appear as the streams of bits they produce.                     *)
(***************************************************************************)
EXTENDS Words, Sequences

CONSTANTS
  ByteW,          \* bits of a byte
  W,              \* bits of a word; a block is two words
  Columns,        \* 0..(lambda - 1)
  BlockSize,      \* block_size between calls
  Granule,        \* 256 in the code: the least block
  AES_BATCH_SIZE,
  Programs,       \* the calls of both parties: sequences of records of Call
  Choices,        \* the receiver's choices, by call
  Secrets,        \* what s may be
  Fillers,        \* what extended_r may be
  Hash(_, _, _),  \* the hash of a row ^ toBlock(h): position, flips, h
  Msg(_, _, _)    \* word k of OT j of call c

Plain == {"block", "words", "bytes", "cot"}
Batched == {"batched_got", "batched_cot"}

\* lens: the widths of the OTs, which have msgs values each.  Only batched_cot
\* has more than one, of equally many OTs each, as a comment of it says.
CallOK(call) ==
  /\ call.op \in Plain \cup Batched
  /\ call.length \in Nat \ {0} /\ call.msgs \in Nat \ {0}
  /\ call.lens \in Seq(1..W) /\ call.lens # <<>> /\ call.length % Len(call.lens) = 0
  /\ call.op \in Plain => call.msgs = 1
  /\ call.op # "batched_cot" => Len(call.lens) = 1
  /\ call.op = "bytes" => call.lens[1] <= ByteW

\* Half a batch of any width fills whole words.
SplitIKNPAssumption ==
  /\ ByteW \in Nat \ {0} /\ W % ByteW = 0
  /\ Granule \in Nat \ {0} /\ BlockSize \in Nat \ {0} /\ BlockSize % Granule = 0
  /\ AES_BATCH_SIZE \in Nat \ {0} /\ AES_BATCH_SIZE % (2 * W) = 0
  /\ \A prog \in Programs : \A c \in DOMAIN prog : CallOK(prog[c])

ALICE == "ALICE"  \* the sender
BOB == "BOB"      \* the receiver
Party == {ALICE, BOB}

VARIABLES
  program, choice, s,
  at,     \* the call each party is in
  pc,     \* "call", "extend" or "post"
  prg,    \* how many rows each party's PRGs have produced
  rows,   \* qT and tT
  i,      \* how many OTs of the call are done
  kept,   \* the sender's data0, by call and OT
  data,   \* the receiver's data, by call and OT
  toAlice, \* the column messages under way, a row of them at a time
  toBob    \* the bits under way

inputs == <<program, choice, s>>
vars == <<inputs, at, pc, prg, rows, i, kept, data, toAlice, toBob>>

Smaller(m, n) == IF m < n THEN m ELSE n
Call(p) == program[at[p]]
Length(p) == Call(p).length

Init ==
  /\ program \in Programs
  /\ choice \in Choices
  /\ s \in Secrets
  /\ at = [p \in Party |-> 1]
  /\ pc = [p \in Party |-> "call"]
  /\ prg = [p \in Party |-> 0]
  /\ rows = [p \in Party |-> <<>>]
  /\ i = [p \in Party |-> 0]
  /\ kept = [c \in DOMAIN program |-> <<>>]
  /\ data = [c \in DOMAIN program |-> <<>>]
  /\ toAlice = <<>>
  /\ toBob = <<>>

Enter(p, place) == pc' = [pc EXCEPT ![p] = place]

\* this->l = l, and into send_pre or recv_pre.
Begin(p) ==
  /\ at[p] \in DOMAIN program /\ pc[p] = "call"
  /\ Enter(p, "extend")
  /\ UNCHANGED <<inputs, at, prg, rows, i, kept, data, toAlice, toBob>>

------------------------------------------------------------------------------
\* block_size during the call: as few granules as hold it.
BlockOfPlain(p) == IF p = BOB THEN Smaller(BlockSize, CeilDiv(Length(p), Granule) * Granule)
                   ELSE BlockSize
BlockOf(p) == Smaller(BlockSize, CeilDiv(Length(p), Granule) * Granule)
PaddedLength(p) == CeilDiv(Length(p), BlockOf(p)) * BlockOf(p)

\* r2: the choices, then extended_r.
Extended(filler, j) ==
  IF j < Length(BOB) THEN choice[at[BOB]][j] ELSE filler[j - Length(BOB)]

\* A block of recv_pre: the message of every column, G0 ^ G1 ^ r.
RecvPre ==
  LET bs == BlockOf(BOB)
  IN  /\ pc[BOB] = "extend" /\ Len(rows[BOB]) < PaddedLength(BOB)
      /\ \E filler \in Fillers :
           toAlice' = toAlice \o [j \in 1..bs |->
             [pos |-> prg[BOB] + j, r |-> Extended(filler, Len(rows[BOB]) + j - 1)]]
      /\ rows' = [rows EXCEPT ![BOB] = @ \o [j \in 1..bs |->
           [pos |-> prg[BOB] + j, flip |-> [c \in Columns |-> 0]]]]
      /\ prg' = [prg EXCEPT ![BOB] = @ + bs]
      /\ UNCHANGED <<inputs, at, pc, i, kept, data, toBob>>

\* A row of q where the sender's streams are at pos: the message cancels G0
\* to leave G1 only if both parties drew at the same position.
Lost == 0
QRow(pos, u) ==
  [pos |-> IF u.pos = pos THEN pos ELSE Lost, flip |-> [c \in Columns |-> And(s[c], u.r)]]

SendPre ==
  LET bs == BlockOf(ALICE)
  IN  /\ pc[ALICE] = "extend" /\ Len(rows[ALICE]) < PaddedLength(ALICE)
      /\ Len(toAlice) >= bs
      /\ rows' = [rows EXCEPT ![ALICE] = @ \o [j \in 1..bs |-> QRow(prg[ALICE] + j, toAlice[j])]]
      /\ toAlice' = SubSeq(toAlice, bs + 1, Len(toAlice))
      /\ prg' = [prg EXCEPT ![ALICE] = @ + bs]
      /\ UNCHANGED <<inputs, at, pc, i, kept, data, toBob>>

\* The transposed rows are complete; block_size = old_block_size.
StartPost(p) ==
  /\ pc[p] = "extend" /\ Len(rows[p]) >= PaddedLength(p)
  /\ Enter(p, "post")
  /\ UNCHANGED <<inputs, at, prg, rows, i, kept, data, toAlice, toBob>>

------------------------------------------------------------------------------
\* Hash block h of OT j: the sender's two pads and the receiver's.
FlipS(flip) == [c \in Columns |-> Xor(flip[c], s[c])]
Pad(j, k, h) ==
  LET row == rows[ALICE][j + 1]
  IN  Hash(row.pos, IF k = 0 THEN row.flip ELSE FlipS(row.flip), h)
RecvPad(j, h) == Hash(rows[BOB][j + 1].pos, rows[BOB][j + 1].flip, h)

\* Bit b of all hash blocks of OT j of a batched call.
PadBit(j, k, b) == Pad(j, k, b \div (2 * W))[b % (2 * W)]
RecvPadBit(j, b) == RecvPad(j, b \div (2 * W))[b % (2 * W)]

WordOf(block) == [b \in 0..(W - 1) |-> block[b]]

\* The batched loops go through the widths and, within one, dim OTs.
dim(call) == call.length \div Len(call.lens)
Width(call, j) == call.lens[(j \div dim(call)) + 1]
NumHashes(call, j) == CeilDiv(Width(call, j) * call.msgs, 2 * W)
YSize(call, j) == CeilDiv(call.msgs * Width(call, j), ByteW)

\* How many OTs the batch that starts at OT j has: of a plain call the
\* sender's are half as long as the receiver's.
BatchOfShort(p) ==
  LET call == Call(p)
      j == i[p]
  IN  IF call.op \in Plain
      THEN Smaller(IF p = ALICE THEN (AES_BATCH_SIZE \div 2) - 1 ELSE AES_BATCH_SIZE, call.length - j)
      ELSE Smaller(Smaller(CeilDiv(AES_BATCH_SIZE, NumHashes(call, j)), dim(call)),
                   IF p = ALICE THEN dim(call) ELSE dim(call) - (j % dim(call)))
BatchOf(p) ==
  LET call == Call(p)
      j == i[p]
  IN  IF call.op \in Plain
      THEN Smaller(IF p = ALICE THEN AES_BATCH_SIZE \div 2 ELSE AES_BATCH_SIZE, call.length - j)
      ELSE Smaller(Smaller(CeilDiv(AES_BATCH_SIZE, NumHashes(call, j)), dim(call)),
                   dim(call) - (j % dim(call)))

\* How many bits a batch of n OTs from OT j on is.
WireBits(call, j, n) ==
  CASE call.op = "block" -> 4 * W * n
    [] call.op = "words" -> CeilDiv(2 * n * call.lens[1], W) * W
    [] call.op = "bytes" -> CeilDiv(2 * n * call.lens[1], ByteW) * ByteW
    [] call.op = "cot" -> CeilDiv(n * call.lens[1], W) * W
    [] call.op = "batched_got" -> 2 * n * YSize(call, j) * ByteW
    [] OTHER -> n * YSize(call, j) * ByteW

\* The sender's value k of OT j and, for the correlated kinds, data0.
Message(j, k) == Msg(at[ALICE], j, k)
RandBatched(call, j, h) ==
  [b \in 0..(W - 1) |-> IF b < Width(call, j) THEN PadBit(j, 0, h * Width(call, j) + b) ELSE 0]
Rand(call, j, h) ==
  IF call.op = "cot" THEN Low(WordOf(Pad(j, 0, 0)), call.lens[1]) ELSE RandBatched(call, j, h)

\* corr_data of a plain call is masked by adding the second pad.
CorrData(call, j, h) ==
  LET sum == AddWord(W, Message(j, h), Rand(call, j, h))
  IN  Low(IF call.op = "cot" THEN AddWord(W, sum, WordOf(Pad(j, 1, 0))) ELSE sum, Width(call, j))

\* Bit b of what a batch that starts at OT j sends.  Blocks: two per OT.
BlockBit(j, b) ==
  LET o == j + (b \div (4 * W))
  IN  Xor(Message(o, (b \div W) % 4)[b % W], Pad(o, (b \div (2 * W)) % 2, 0)[b % (2 * W)])

\* pack_ot_messages of n OTs, zero behind them.
PackedBit(call, j, n, b) ==
  LET l == call.lens[1]
      o == j + (b \div (2 * l))
      k == (b \div l) % 2
  IN  IF b < 2 * n * l THEN Xor(Message(o, k)[b % l], Pad(o, k, 0)[b % l]) ELSE 0

\* pack_cot_messages of n corrections.
CorrectionBit(call, j, n, b) ==
  LET l == call.lens[1]
  IN  IF b < n * l THEN CorrData(call, j + (b \div l), 0)[b % l] ELSE 0

\* Bit b of the bytes y_per_ot of OT j of a batched call.  Behind the last
\* value are bits that nobody reads.
Unread == 1
ValueBit(l, msgs, value(_), b) == IF b < l * msgs THEN value(b \div l)[b % l] ELSE Unread
BatchedGotBit(call, j, k, b) ==
  LET value(h) == Message(j, 2 * h + k)
  IN  Xor(ValueBit(call.lens[1], call.msgs, value, b), PadBit(j, k, b))
BatchedCotBit(call, j, b) ==
  LET value(h) == CorrData(call, j, h)
  IN  Xor(ValueBit(Width(call, j), call.msgs, value, b), PadBit(j, 1, b))

OutgoingBit(call, j, n, b) ==
  LET y == YSize(call, j) * ByteW
  IN  CASE call.op = "block" -> BlockBit(j, b)
        [] call.op \in {"words", "bytes"} -> PackedBit(call, j, n, b)
        [] call.op = "cot" -> CorrectionBit(call, j, n, b)
        [] call.op = "batched_got" -> BatchedGotBit(call, j + ((b \div y) % n), b \div (y * n), b % y)
        [] OTHER -> BatchedCotBit(call, j + (b \div y), b % y)

\* got_send_post, cot_send_post, send_batched_got, send_batched_cot.
SendPost ==
  LET call == Call(ALICE)
      j == i[ALICE]
      n == BatchOf(ALICE)
  IN  /\ pc[ALICE] = "post" /\ j < call.length
      /\ toBob' = toBob \o [b \in 1..WireBits(call, j, n) |-> OutgoingBit(call, j, n, b - 1)]
      /\ kept' = IF call.op \in {"cot", "batched_cot"}
                 THEN [kept EXCEPT ![at[ALICE]] = @ \o
                        [o \in 1..n |-> [h \in 0..(call.msgs - 1) |-> Rand(call, j + o - 1, h)]]]
                 ELSE kept
      /\ i' = [i EXCEPT ![ALICE] = @ + n]
      /\ UNCHANGED <<inputs, at, pc, prg, rows, data, toAlice>>

\* What the receiver makes of the bits y of its batch, for OT j, which is OT
\* o of it.
chosen(j) == choice[at[BOB]][j]
BitAt(y, b) == IF b + 1 \in DOMAIN y THEN y[b + 1] ELSE Unread
ValueAt(y, from, l) == [b \in 0..(W - 1) |-> IF b < l THEN BitAt(y, from + b) ELSE 0]

BlockValue(y, j, o) ==
  [b \in 0..(2 * W - 1) |-> Xor(BitAt(y, (2 * o + chosen(j)) * 2 * W + b), RecvPad(j, 0)[b])]
UnpackedValue(y, j, o, l) ==
  XorWord(ValueAt(y, (2 * o + chosen(j)) * l, l), Low(WordOf(RecvPad(j, 0)), l))
CorrectedValue(y, j, o, l) ==
  LET pad == WordOf(RecvPad(j, 0))
  IN  Low(IF chosen(j) = 1 THEN SubWord(W, ValueAt(y, o * l, l), pad) ELSE pad, l)

\* Value h of an OT of a batched call: its part of the pads, opened with the
\* bytes y0 or y1, or y, of size bits for each of the n OTs.
PadValue(j, h, l) == [b \in 0..(W - 1) |-> IF b < l THEN RecvPadBit(j, h * l + b) ELSE 0]
BatchedGotValue(y, n, size, j, o, h, l) ==
  XorWord(ValueAt(y, (chosen(j) * n + o) * size + h * l, l), PadValue(j, h, l))
BatchedCotValue(y, size, j, o, h, l) ==
  IF chosen(j) = 1 THEN XorWord(ValueAt(y, o * size + h * l, l), PadValue(j, h, l))
  ELSE PadValue(j, h, l)

Incoming(call, n, y, o, h) ==
  LET j == i[BOB] + o
      l == Width(call, j)
      size == YSize(call, j) * ByteW
  IN  CASE call.op = "block" -> BlockValue(y, j, o)
        [] call.op \in {"words", "bytes"} -> UnpackedValue(y, j, o, l)
        [] call.op = "cot" -> CorrectedValue(y, j, o, l)
        [] call.op = "batched_got" -> BatchedGotValue(y, n, size, j, o, h, l)
        [] OTHER -> BatchedCotValue(y, size, j, o, h, l)

\* got_recv_post, cot_recv_post, recv_batched_got, recv_batched_cot.
RecvPost ==
  LET call == Call(BOB)
      n == BatchOf(BOB)
      bits == WireBits(call, i[BOB], n)
  IN  /\ pc[BOB] = "post" /\ i[BOB] < call.length
      /\ Len(toBob) >= bits
      /\ data' = [data EXCEPT ![at[BOB]] = @ \o [o \in 1..n |->
           [h \in 0..(call.msgs - 1) |-> Incoming(call, n, SubSeq(toBob, 1, bits), o - 1, h)]]]
      /\ toBob' = SubSeq(toBob, bits + 1, Len(toBob))
      /\ i' = [i EXCEPT ![BOB] = @ + n]
      /\ UNCHANGED <<inputs, at, pc, prg, rows, kept, toAlice>>

\* delete[] qT, delete[] tT.
Return(p) ==
  /\ pc[p] = "post" /\ i[p] >= Length(p)
  /\ Enter(p, "call")
  /\ at' = [at EXCEPT ![p] = @ + 1]
  /\ i' = [i EXCEPT ![p] = 0]
  /\ rows' = [rows EXCEPT ![p] = <<>>]
  /\ UNCHANGED <<inputs, prg, kept, data, toAlice, toBob>>

Sender == Begin(ALICE) \/ SendPre \/ StartPost(ALICE) \/ SendPost \/ Return(ALICE)
Receiver == Begin(BOB) \/ RecvPre \/ StartPost(BOB) \/ RecvPost \/ Return(BOB)
Next == Sender \/ Receiver
Spec == Init /\ [][Next]_vars
FairSpec == Spec /\ WF_vars(Sender) /\ WF_vars(Receiver)

------------------------------------------------------------------------------
Ended(p) == at[p] \notin DOMAIN program

\* Both ends of an extension hold the same rows, up to s where the receiver
\* chose 1, although the block shrinks with every call: a party that drew
\* another number of rows in an earlier call, or put the filling before the
\* choices, would be at another place of its streams.
RowsAgree ==
  (pc = [p \in Party |-> "post"] /\ at[ALICE] = at[BOB]) =>
    \A j \in 1..Length(ALICE) :
      /\ rows[ALICE][j].pos = rows[BOB][j].pos
      /\ rows[ALICE][j].flip = [c \in Columns |-> And(s[c], choice[at[BOB]][j - 1])]

\* Every value the receiver has is the one its kind of call promises: the
\* chosen message, or the sender's data0, plus the correlation if it chose 1,
\* modulo 2^l; OT after OT however the two sides cut the call into batches.
Promised(c, j, h) ==
  LET call == program[c]
      r == choice[c][j]
      l == Width(call, j)
  IN  CASE call.op = "block" -> [b \in 0..(2 * W - 1) |-> Msg(c, j, 2 * r + (b \div W))[b % W]]
        [] call.op \in {"words", "bytes", "batched_got"} -> Low(Msg(c, j, 2 * h + r), l)
        [] OTHER -> IF r = 0 THEN kept[c][j + 1][h]
                    ELSE Low(AddWord(W, kept[c][j + 1][h], Msg(c, j, h)), l)
Transferred ==
  \A c \in DOMAIN program : \A o \in DOMAIN data[c] : \A h \in DOMAIN data[c][o] :
    program[c].op \notin {"cot", "batched_cot"} \/ o \in DOMAIN kept[c] =>
      data[c][o][h] = Promised(c, o - 1, h)

\* The two ends count the same bytes: when both have returned from the same
\* calls nothing is left under way, and a party that has returned from more
\* calls than the other left it exactly what those calls will read.
InStep ==
  /\ (at[ALICE] = at[BOB] /\ pc[BOB] = "call") => toBob = <<>>
  /\ (at[ALICE] = at[BOB] /\ pc[ALICE] = "post") => toAlice = <<>>
  /\ (at[ALICE] > at[BOB] /\ pc[BOB] = "post" /\ i[BOB] < Length(BOB)) =>
       Len(toBob) >= WireBits(Call(BOB), i[BOB], BatchOf(BOB))

\* Both parties come to the end of the session.
Termination == <>(Ended(ALICE) /\ Ended(BOB))
=============================================================================
