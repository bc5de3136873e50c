-------------------------------- MODULE IKNP --------------------------------
(***************************************************************************)
(* IKNP (iknp.h): OT extension with two messages per OT, and the ways its  *)
(* calls use the extended rows: OTs of blocks, of l-bit values packed into *)
(* words, correlated OTs under xor and under addition, and random OTs.     *)
(* The packed correlation of matrix products is module MatmulCOT.          *)
(*                                                                         *)
(* A row of the receiver's t is the position in the streams of its PRGs;   *)
(* the sender's row differs from it by s in the columns of G1, which the   *)
(* model keeps as flips of columns.  Hashes and messages are real words.   *)
(* A party sends bytes without boundaries, cut differently on both sides;  *)
(* a unit of the wire is a block or a word of packed values.               *)
(***************************************************************************)
EXTENDS Words, Sequences

CONSTANTS
  W,             \* bits of a word, and of a block
  Columns,       \* 0..(lambda - 1)
  BlockSize,     \* block_size, rows of one block of an extension
  AES_BATCH_SIZE,
  Programs,      \* the calls both parties make: sequences of [op, length, l]
  Choices,       \* the receiver's choices, by call
  Secrets,       \* what s may be, by set-up
  Fillers,       \* what extended_r may be
  Hash(_, _),    \* the pad of a row: its position and its flips
  Msg(_, _, _),  \* message k of OT i of call c; delta and delta[i]
  MaxEpoch       \* set-ups of one session

Ops == {"setup", "block", "got", "cot", "rot", "add"}

\* The sender's batches are half as long as the receiver's; a full one fills
\* whole words, as 2048 messages of any width do in words of 64 bits.
IKNPAssumption ==
  /\ BlockSize \in Nat \ {0}
  /\ AES_BATCH_SIZE \in Nat \ {0} /\ AES_BATCH_SIZE % W = 0 /\ AES_BATCH_SIZE % 2 = 0
  /\ \A prog \in Programs : prog \in Seq([op : Ops, length : Nat, l : 1..W])
  /\ Secrets \subseteq [1..MaxEpoch -> [Columns -> Bit]]
  /\ Fillers \subseteq [0..(BlockSize - 1) -> Bit]

ALICE == "ALICE"  \* the sender
BOB == "BOB"      \* the receiver
Party == {ALICE, BOB}

VARIABLES
  program, choice, secret,
  at,     \* the call each party is in
  pc,     \* "call", "seed", "extend" or "post"
  epoch,  \* how often the PRGs have been seeded; 0 is setup = false
  prg,    \* how many rows each party's PRGs have produced since
  rows,   \* qT and tT
  i,      \* the loop variable of the post functions
  kept,   \* the sender's data0, data1 and rdata, by call
  data,   \* the receiver's data, by call
  wire    \* wire[p]: what is under way to p

inputs == <<program, choice, secret>>
vars == <<inputs, at, pc, epoch, prg, rows, i, kept, data, wire>>

Smaller(m, n) == IF m < n THEN m ELSE n
Now(p) == program[at[p]]
Length(p) == Now(p).length

Init ==
  /\ program \in Programs
  /\ choice \in Choices
  /\ secret \in Secrets
  /\ at = [p \in Party |-> 1]
  /\ pc = [p \in Party |-> "call"]
  /\ epoch = [p \in Party |-> 0]
  /\ prg = [p \in Party |-> 0]
  /\ rows = [p \in Party |-> <<>>]
  /\ i = [p \in Party |-> 0]
  /\ kept = [c \in DOMAIN program |-> <<>>]
  /\ data = [c \in DOMAIN program |-> <<>>]
  /\ wire = [p \in Party |-> <<>>]

Peer(p) == IF p = ALICE THEN BOB ELSE ALICE
Send(p, units) == wire' = [wire EXCEPT ![Peer(p)] = @ \o units]
Receive(p, n) == wire' = [wire EXCEPT ![p] = SubSeq(@, n + 1, Len(@))]

\* Party p can read n units of this kind.  Its reads ask for bytes; that
\* those it gets are of this kind is InStep.
Arrived(p, kind, n) ==
  Len(wire[p]) >= n /\ \A j \in 1..n : wire[p][j].kind = kind

Enter(p, place) == pc' = [pc EXCEPT ![p] = place]

\* A call of length 0 returns at once, but for the additive one, which sets up
\* where needed and has no row to extend or send.
Begin(p) ==
  /\ at[p] \in DOMAIN program /\ pc[p] = "call"
  /\ IF Now(p).op \notin {"setup", "add"} /\ Length(p) < 1
     THEN at' = [at EXCEPT ![p] = @ + 1] /\ UNCHANGED pc
     ELSE /\ Enter(p, IF Now(p).op = "setup" \/ epoch[p] = 0 THEN "seed" ELSE "extend")
          /\ UNCHANGED at
  /\ UNCHANGED <<inputs, epoch, prg, rows, i, kept, data, wire>>

------------------------------------------------------------------------------
\* setup_recv and setup_send: a base OT of the seeds; reseed starts the
\* streams again.
Seeded(p) ==
  /\ epoch' = [epoch EXCEPT ![p] = @ + 1]
  /\ prg' = [prg EXCEPT ![p] = 0]
  /\ IF Now(p).op = "setup" THEN Enter(p, "call") /\ at' = [at EXCEPT ![p] = @ + 1]
     ELSE Enter(p, "extend") /\ UNCHANGED at
  /\ UNCHANGED <<inputs, rows, i, kept, data>>

SetupRecv ==
  /\ pc[BOB] = "seed"
  /\ Send(BOB, <<[kind |-> "seed", val |-> epoch[BOB] + 1]>>)
  /\ Seeded(BOB)

SetupSend ==
  /\ pc[ALICE] = "seed" /\ Arrived(ALICE, "seed", 1)
  /\ Receive(ALICE, 1)
  /\ Seeded(ALICE)

------------------------------------------------------------------------------
\* padded_length: whole blocks.
PaddedLength(n) == CeilDiv(n, BlockSize) * BlockSize

Position(p, j) == <<epoch[p], prg[p] + j>>

\* r2: the choices, then extended_r.
ExtendedWhole(filler, j) == filler[j % BlockSize]
Extended(filler, j) ==
  IF j < Length(BOB) THEN choice[at[BOB]][j] ELSE filler[j - Length(BOB)]

\* One block of recv_pre: the receiver sends G0 ^ G1 ^ r of every column.
RecvPre ==
  /\ pc[BOB] = "extend" /\ Len(rows[BOB]) < PaddedLength(Length(BOB))
  /\ \E filler \in Fillers :
       Send(BOB, <<[kind |-> "U", val |-> [j \in 0..(BlockSize - 1) |->
                     [pos |-> Position(BOB, j), r |-> Extended(filler, Len(rows[BOB]) + j)]]]>>)
  /\ rows' = [rows EXCEPT ![BOB] = @ \o [j \in 1..BlockSize |->
       [pos |-> Position(BOB, j - 1), flip |-> [c \in Columns |-> 0]]]]
  /\ prg' = [prg EXCEPT ![BOB] = @ + BlockSize]
  /\ UNCHANGED <<inputs, at, pc, epoch, i, kept, data>>

\* A row of q: G0 drawn at this party's own position, xored where s is set
\* with the receiver's message, which leaves G1 only if both drew at the same
\* position.
Lost == <<0, 0>>
QRow(pos, u) ==
  [pos |-> IF u.pos = pos THEN pos ELSE Lost,
   flip |-> [c \in Columns |-> And(secret[epoch[ALICE]][c], u.r)]]

SendPre ==
  /\ pc[ALICE] = "extend" /\ Len(rows[ALICE]) < PaddedLength(Length(ALICE))
  /\ Arrived(ALICE, "U", 1)
  /\ rows' = [rows EXCEPT ![ALICE] = @ \o [j \in 1..BlockSize |->
       QRow(Position(ALICE, j - 1), Head(wire[ALICE]).val[j - 1])]]
  /\ prg' = [prg EXCEPT ![ALICE] = @ + BlockSize]
  /\ Receive(ALICE, 1)
  /\ UNCHANGED <<inputs, at, pc, epoch, i, kept, data>>

StartPost(p) ==
  /\ pc[p] = "extend" /\ Len(rows[p]) >= PaddedLength(Length(p))
  /\ Enter(p, "post")
  /\ UNCHANGED <<inputs, at, epoch, prg, rows, i, kept, data, wire>>

------------------------------------------------------------------------------
\* The two pads of OT j for the sender, and the one the receiver has.
FlipS(flip) == [c \in Columns |-> Xor(flip[c], secret[epoch[ALICE]][c])]
Pad(j, k) ==
  LET row == rows[ALICE][j + 1]
  IN  Hash(row.pos, IF k = 0 THEN row.flip ELSE FlipS(row.flip))
RecvPad(j) == Hash(rows[BOB][j + 1].pos, rows[BOB][j + 1].flip)

\* bsize of the sender's and of the receiver's loops.
BatchOf(p) == IF p = ALICE THEN AES_BATCH_SIZE \div 2 ELSE AES_BATCH_SIZE
Batch(p) == Smaller(BatchOf(p), Length(p) - i[p])

\* How many units a batch of n OTs is.
Units(call, n) ==
  CASE call.op = "block" -> 2 * n
    [] call.op = "got" -> CeilDiv(2 * n * call.l, W)
    [] call.op \in {"cot", "add"} -> n
    [] OTHER -> 0

MaskedAt(j, k) == XorWord(Msg(at[ALICE], j, k), Pad(j, k))

\* Bit p of the packed messages of a got batch that starts at OT from: the
\* stream that module Packing's loops produce.
PackedBit(from, n, l, p) ==
  IF p >= 2 * n * l THEN 0
  ELSE MaskedAt(from + (p \div (2 * l)), (p \div l) % 2)[p % l]

Delta(j) == Msg(at[ALICE], j, 0)

\* The block correlation has one delta, the additive one a delta per OT.
Correlated(op, j) ==
  IF op = "cot" THEN XorWord(Pad(j, 0), Delta(0)) ELSE AddWord(W, Pad(j, 0), Delta(j))

Outgoing(call, from, n) ==
  [u \in 1..Units(call, n) |->
     [kind |-> call.op,
      val |-> CASE call.op = "block" -> MaskedAt(from + ((u - 1) \div 2), (u - 1) % 2)
                [] call.op = "got" -> [b \in 0..(W - 1) |->
                                         PackedBit(from, n, call.l, (u - 1) * W + b)]
                [] OTHER -> XorWord(Correlated(call.op, from + u - 1), Pad(from + u - 1, 1))]]

\* data0, data1 and rdata, which a got does not have.
KeptOf(call, from, n) ==
  IF call.op \in {"block", "got"} THEN <<>>
  ELSE [j \in 1..n |-> <<Pad(from + j - 1, 0), Pad(from + j - 1, 1)>>]

\* got_send_post, cot_send_post, rot_send_post, cot_send_post_moduloAdd.
SendPost ==
  /\ pc[ALICE] = "post" /\ i[ALICE] < Length(ALICE)
  /\ Send(ALICE, Outgoing(Now(ALICE), i[ALICE], Batch(ALICE)))
  /\ kept' = [kept EXCEPT ![at[ALICE]] = @ \o KeptOf(Now(ALICE), i[ALICE], Batch(ALICE))]
  /\ i' = [i EXCEPT ![ALICE] = @ + Batch(ALICE)]
  /\ UNCHANGED <<inputs, at, pc, epoch, prg, rows, data>>

\* What the receiver makes of the units res of its batch for OT j of it.
Incoming(call, res, j) ==
  LET r == choice[at[BOB]][i[BOB] + j]
      pad == RecvPad(i[BOB] + j)
      words == [u \in 0..(Len(res) - 1) |-> res[u + 1].val]
  IN  CASE call.op = "block" -> XorWord(words[2 * j + r], pad)
        [] call.op = "got" ->
             Low(XorWord(GetBits(W, words, 2 * j * call.l + r * call.l, call.l), pad), call.l)
        [] call.op \in {"cot", "add"} /\ r = 1 -> XorWord(words[j], pad)
        [] OTHER -> pad

\* got_recv_post, cot_recv_post, rot_recv_post, cot_recv_post_moduloAdd.
RecvPost ==
  LET n == Units(Now(BOB), Batch(BOB))
  IN  /\ pc[BOB] = "post" /\ i[BOB] < Length(BOB)
      /\ Arrived(BOB, Now(BOB).op, n)
      /\ data' = [data EXCEPT ![at[BOB]] = @ \o [j \in 1..Batch(BOB) |->
           Incoming(Now(BOB), SubSeq(wire[BOB], 1, n), j - 1)]]
      /\ Receive(BOB, n)
      /\ i' = [i EXCEPT ![BOB] = @ + Batch(BOB)]
      /\ UNCHANGED <<inputs, at, pc, epoch, prg, rows, kept>>

\* The loop ends; qT or tT is deleted.
Return(p) ==
  /\ pc[p] = "post" /\ i[p] >= Length(p)
  /\ Enter(p, "call")
  /\ at' = [at EXCEPT ![p] = @ + 1]
  /\ i' = [i EXCEPT ![p] = 0]
  /\ rows' = [rows EXCEPT ![p] = <<>>]
  /\ UNCHANGED <<inputs, epoch, prg, kept, data, wire>>

Sender == Begin(ALICE) \/ SetupSend \/ SendPre \/ StartPost(ALICE) \/ SendPost \/ Return(ALICE)
Receiver == Begin(BOB) \/ SetupRecv \/ RecvPre \/ StartPost(BOB) \/ RecvPost \/ Return(BOB)
Next == Sender \/ Receiver
Spec == Init /\ [][Next]_vars
FairSpec == Spec /\ WF_vars(Sender) /\ WF_vars(Receiver)

------------------------------------------------------------------------------
Ended(p) == at[p] \notin DOMAIN program

TypeOK ==
  /\ at \in [Party -> 1..(Len(program) + 1)]
  /\ pc \in [Party -> {"call", "seed", "extend", "post"}]
  /\ epoch \in [Party -> 0..MaxEpoch]
  /\ \A p \in Party :
       /\ prg[p] % BlockSize = 0 /\ Len(rows[p]) % BlockSize = 0
       /\ at[p] \in DOMAIN program => i[p] \in 0..Length(p)
  /\ \A c \in DOMAIN program :
       /\ kept[c] \in Seq(Seq(Word(W)))
       /\ data[c] \in Seq(Word(W))

\* Both ends of an extension hold the same rows, up to s where the receiver
\* chose 1, however many calls and set-ups came before: the streams of the
\* two parties are at the same place although each advances its own, and the
\* choices precede the random filling.
RowsAgree ==
  (pc = [p \in Party |-> "post"] /\ at[ALICE] = at[BOB]) =>
    \A j \in 1..Length(ALICE) :
      LET r == choice[at[BOB]][j - 1]
      IN  /\ rows[ALICE][j].pos = rows[BOB][j].pos
          /\ rows[ALICE][j].flip =
               [c \in Columns |-> And(secret[epoch[ALICE]][c], r)]

\* Every call gives the receiver what its kind promises: the chosen message,
\* the sender's data0 or data0 ^ delta, the chosen random value, or rdata or
\* rdata + delta; also after a set-up between calls, and although the two
\* sides cut their loops at different places.
Obtained(c, j) ==
  LET r == choice[c][j - 1]
      call == program[c]
  IN  CASE call.op = "block" -> Msg(c, j - 1, r)
        [] call.op = "got" -> Low(Msg(c, j - 1, r), call.l)
        [] call.op = "rot" -> kept[c][j][r + 1]
        [] r = 0 -> kept[c][j][1]
        [] call.op = "cot" -> XorWord(kept[c][j][1], Msg(c, 0, 0))
        [] OTHER -> AddWord(W, kept[c][j][1], Msg(c, j - 1, 0))
Transferred ==
  \A c \in DOMAIN program : \A j \in DOMAIN data[c] :
    j \in DOMAIN kept[c] \/ program[c].op \in {"block", "got"} =>
      data[c][j] = Obtained(c, j)

\* The first unit under way to a party that reads is of the kind it reads.
InStep ==
  /\ pc[ALICE] = "seed" /\ wire[ALICE] # <<>> => Head(wire[ALICE]).kind = "seed"
  /\ pc[ALICE] = "extend" /\ Len(rows[ALICE]) < PaddedLength(Length(ALICE))
       /\ wire[ALICE] # <<>> => Head(wire[ALICE]).kind = "U"
  /\ pc[BOB] = "post" /\ i[BOB] < Length(BOB) =>
       \A u \in DOMAIN wire[BOB] :
         u <= Units(Now(BOB), Batch(BOB)) => wire[BOB][u].kind = Now(BOB).op
  /\ Ended(ALICE) /\ Ended(BOB) => wire = [p \in Party |-> <<>>]

\* Both parties come to the end of the session.
Termination == <>(Ended(ALICE) /\ Ended(BOB))
=============================================================================
