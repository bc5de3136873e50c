------------------------------ MODULE SplitOT -------------------------------
(***************************************************************************)
(* SplitKKOT and SplitIKNP: 1-out-of-N OTs by OT extension, with a pool of *)
(* precomp_batch_size random OTs that preprocess refills and the online    *)
(* calls consume, and the direct path of the calls the pool cannot serve.  *)
(*                                                                         *)
(* Both classes are this module: KKOT corrects all of a call's choices in  *)
(* one message (OnlineChunk no smaller than any call), IKNP has N = 2,     *)
(* where subtraction modulo 2 is the source's xor, and takes direct        *)
(* messages in chunks twice as long as it sends them.                      *)
(*                                                                         *)
(* Cryptography is symbolic.  The two ends of an extension draw their      *)
(* PRGs; row g of the joint stream gives the sender N pads <<g, k>> and    *)
(* the receiver the pad of its choice only, if both drew at the same g.    *)
(* The base OT that seeds the PRGs is one message, and code words          *)
(* (precompute_masks) are part of the pads.                                *)
(***************************************************************************)
EXTENDS Bits, Sequences, FiniteSets

CONSTANTS
  N,            \* messages of an OT
  Programs,     \* the sequences of calls the two parties may make
  Choices,      \* the receiver's choices, by call: choice[c][i]
  BlockSize,    \* block_size, rows of one block of an extension
  RowUnit,      \* 256, what a shorter block is rounded up to
  OnlineChunk,  \* OTs corrected by one message of an online call
  SendChunk,    \* OTs of one message of a direct call, as sent
  RecvChunk     \* and as received

ALICE == "ALICE"  \* the sender
BOB == "BOB"      \* the receiver
Party == {ALICE, BOB}

\* A call: send_impl and recv_impl of n OTs through the pool ("got"), or
\* always direct ("block": blocks and correlated OTs), or
\* set_precomp_batch_size(n) ("batch").
IsCall(c) ==
  /\ c \in [op : {"got", "block", "batch"}, n : Nat]
  /\ c.op = "block" => c.n > 0

ASSUME OTAssumption ==
  /\ N \in Nat \ {0}
  /\ \A prog \in Programs : /\ prog \in Seq([op : {"got", "block", "batch"}, n : Nat])
                             /\ \A i \in DOMAIN prog : IsCall(prog[i])
  /\ \A c \in Choices : c \in Seq(Seq(0..(N - 1)))
  /\ RowUnit \in Nat \ {0}
  /\ BlockSize \in Nat \ {0} /\ BlockSize % RowUnit = 0
  /\ {OnlineChunk, SendChunk, RecvChunk} \subseteq Nat \ {0}

\* "N is a power of 2": the code masks sums and differences of choices with the
\* bits of N - 1, which then is % N.
ASSUME PowerOfTwo == \E b \in 1..8 : N = 2^b

NoRow == -1
Choice == 0..(N - 1)
Row == Nat \cup {NoRow}
\* What a buffer of the receiver holds before it is written.
NoPad == <<NoRow, 0>>

VARIABLES
  program, choice,  \* the calls of this session and their choices
  at,       \* the call each party is in
  pc,       \* where in the call
  batch,    \* precomp_batch_size
  counter,  \* the pool's counter
  setup,    \* whether the PRGs are seeded
  prg,      \* how many rows each party's PRGs have produced
  rows,     \* qT and tT: the rows of the current extension
  q,        \* the sender's h: the row of each slot, which gives N pads
  t, r_off, \* the receiver's h: its pad of each slot; its random choice
  ctr,      \* how many OTs of the call are done: ctr, or i
  data,     \* what the receiver has obtained in this call
  results,  \* and in the calls before
  wire,     \* wire[p]: what is under way to p
  spent     \* history: which row hid which OT, for each party

callVars == <<program, choice>>
poolVars == <<batch, counter, q, t, r_off>>
vars == <<callVars, at, pc, poolVars, setup, prg, rows, ctr, data, results,
          wire, spent>>

------------------------------------------------------------------------------
Smaller(m, n) == IF m < n THEN m ELSE n

Now(p) == program[at[p]]
Length(p) == Now(p).n

\* send_impl, recv_impl: which path a call takes.
Pooled(p) == Now(p).op = "got" /\ Length(p) <= batch[p]
NeedsRefillEarly(p) == Length(p) >= batch[p] - counter[p]
NeedsRefill(p) == Length(p) > batch[p] - counter[p]

\* The rows an extension is asked for: preprocess(counter), or the call.
Wanted(p) == IF Pooled(p) THEN counter[p] ELSE Length(p)

\* send_pre, recv_pre: the block size of an extension and its padded length.
BlockOf(n) == Smaller(BlockSize, CeilDiv(n, RowUnit) * RowUnit)
PaddedLength(n) == CeilDiv(n, BlockOf(n)) * BlockOf(n)

\* The OTs of one message of a loop over the call.
Chunk(p, size) == Smaller(size, Length(p) - ctr[p])

\* Party p can read n messages of this kind.  Its reads ask for bytes; that
\* those it gets are of this kind is InStep.
Arrived(p, kind, n) ==
  Len(wire[p]) >= n /\ \A i \in 1..n : wire[p][i].kind = kind
Dropped(p, n) == SubSeq(wire[p], n + 1, Len(wire[p]))

\* The receiver's correction of its random choice, neg_mod, and which pad
\* hides message k after it, under the mask of N's bits.
CorrectionSwapped(off, r) == (r - off) % N
Correction(off, r) == (off - r) % N
PadIndex(k, a) == (k + a) % N

Message(c, i, k) == <<c, i, k>>

\* An OT as sent: message k under pad <<g, PadIndex(k, a)>>.
Masked(g, a, i) ==
  [kind |-> "Y", pad |-> [k \in Choice |-> <<g, PadIndex(k, a)>>],
   msg |-> [k \in Choice |-> Message(at[ALICE], i, k)]]

\* What the receiver reads of it with its own pad.
Garbage == <<>>
Unmasked(y, pad, r) ==
  IF y.pad[r] = pad /\ pad # NoPad THEN y.msg[r] ELSE Garbage

Use(p, gs) == {[by |-> p, row |-> gs[j], ot |-> <<at[p], ctr[p] + j>>] :
                 j \in DOMAIN gs}

Init ==
  /\ program \in Programs
  /\ choice \in {c \in Choices :
       /\ Len(c) = Len(program)
       /\ \A i \in DOMAIN program :
            Len(c[i]) = (IF program[i].op = "batch" THEN 0 ELSE program[i].n)}
  /\ at = [p \in Party |-> 1]
  /\ pc = [p \in Party |-> "call"]
  /\ batch = [p \in Party |-> 0]
  /\ counter = [p \in Party |-> 0]
  /\ setup = [p \in Party |-> FALSE]
  /\ prg = [p \in Party |-> 0]
  /\ rows = [p \in Party |-> <<>>]
  /\ q = <<>> /\ t = <<>> /\ r_off = <<>>
  /\ ctr = [p \in Party |-> 0]
  /\ data = <<>> /\ results = <<>>
  /\ wire = [p \in Party |-> <<>>]
  /\ spent = {}

Pending(p) == at[p] <= Len(program) /\ pc[p] = "call"
Enter(p, place) == pc' = [pc EXCEPT ![p] = place]

\* set_precomp_batch_size: new, unwritten buffers and a pool that counts as
\* used up.
SetBatch(p) ==
  /\ Pending(p) /\ Now(p).op = "batch"
  /\ at' = [at EXCEPT ![p] = @ + 1]
  /\ batch' = [batch EXCEPT ![p] = Length(p)]
  /\ counter' = [counter EXCEPT ![p] = Length(p)]
  /\ IF p = ALICE
     THEN /\ q' = [j \in 0..(Length(p) - 1) |-> NoRow]
          /\ UNCHANGED <<t, r_off, results>>
     ELSE /\ t' = [j \in 0..(Length(p) - 1) |-> NoPad]
          /\ r_off' = [j \in 0..(Length(p) - 1) |-> 0]
          /\ results' = Append(results, <<>>)
          /\ UNCHANGED q
  /\ UNCHANGED <<callVars, pc, setup, prg, rows, ctr, data, wire, spent>>

\* preprocess, the receiver: random choices for the slots to refill, the
\* used ones.
Redrawn(off) ==
  {f \in [DOMAIN off -> Choice] :
     \A j \in DOMAIN off : j >= counter[BOB] => f[j] = off[j]}

Begin(p) ==
  /\ Pending(p) /\ Now(p).op # "batch"
  /\ Enter(p, IF Pooled(p) /\ ~NeedsRefill(p) THEN "online" ELSE "extend")
  /\ IF p = BOB /\ Pooled(p) /\ NeedsRefill(p)
     THEN r_off' \in Redrawn(r_off)
     ELSE UNCHANGED r_off
  /\ UNCHANGED <<callVars, at, batch, counter, q, t, setup, prg, rows, ctr,
                 data, results, wire, spent>>

\* setup_recv and setup_send, at the first extension.
SeedReceiver ==
  /\ pc[BOB] = "extend" /\ ~setup[BOB]
  /\ setup' = [setup EXCEPT ![BOB] = TRUE]
  /\ wire' = [wire EXCEPT ![ALICE] = Append(@, [kind |-> "seed"])]
  /\ UNCHANGED <<callVars, at, pc, poolVars, prg, rows, ctr, data, results,
                 spent>>

SeedSender ==
  /\ pc[ALICE] = "extend" /\ ~setup[ALICE]
  /\ Arrived(ALICE, "seed", 1)
  /\ setup' = [setup EXCEPT ![ALICE] = TRUE]
  /\ wire' = [wire EXCEPT ![ALICE] = Dropped(ALICE, 1)]
  /\ UNCHANGED <<callVars, at, pc, poolVars, prg, rows, ctr, data, results,
                 spent>>

\* One block of recv_pre and of send_pre.
Extending(p) ==
  /\ pc[p] = "extend" /\ setup[p]
  /\ Len(rows[p]) < PaddedLength(Wanted(p))

Drawn(p) == [j \in 1..BlockOf(Wanted(p)) |-> prg[p] + j - 1]
PrgReseeded(p) ==
  IF Len(rows[p]) = 0 THEN BlockOf(Wanted(p)) ELSE prg[p] + BlockOf(Wanted(p))
PrgAfter(p) == prg[p] + BlockOf(Wanted(p))

ExtendReceiver ==
  /\ Extending(BOB)
  /\ rows' = [rows EXCEPT ![BOB] = @ \o Drawn(BOB)]
  /\ prg' = [prg EXCEPT ![BOB] = PrgAfter(BOB)]
  /\ wire' = [wire EXCEPT ![ALICE] =
       Append(@, [kind |-> "U", size |-> BlockOf(Wanted(BOB)),
                  from |-> prg[BOB]])]
  /\ UNCHANGED <<callVars, at, pc, poolVars, setup, ctr, data, results, spent>>

ExtendSender ==
  /\ Extending(ALICE)
  /\ Arrived(ALICE, "U", 1)
  /\ rows' = [rows EXCEPT ![ALICE] = @ \o
       (IF wire[ALICE][1].from = prg[ALICE] THEN Drawn(ALICE)
        ELSE [j \in 1..BlockOf(Wanted(ALICE)) |-> NoRow])]
  /\ prg' = [prg EXCEPT ![ALICE] = PrgAfter(ALICE)]
  /\ wire' = [wire EXCEPT ![ALICE] = Dropped(ALICE, 1)]
  /\ UNCHANGED <<callVars, at, pc, poolVars, setup, ctr, data, results, spent>>

\* got_send_offline, got_recv_offline and the reset of the counter; a direct
\* call keeps its rows for the messages.
RefilledCall(p, j) == j < Length(p)
Refilled(p, j) == j < counter[p]

Store(p) ==
  /\ pc[p] = "extend" /\ setup[p]
  /\ Len(rows[p]) = PaddedLength(Wanted(p))
  /\ IF Pooled(p)
     THEN /\ Enter(p, "online")
          /\ counter' = [counter EXCEPT ![p] = 0]
          /\ rows' = [rows EXCEPT ![p] = <<>>]
          /\ IF p = ALICE
             THEN /\ q' = [j \in DOMAIN q |->
                             IF Refilled(p, j) THEN rows[p][j + 1] ELSE q[j]]
                  /\ UNCHANGED t
             ELSE /\ t' = [j \in DOMAIN t |->
                             IF Refilled(p, j) THEN <<rows[p][j + 1], r_off[j]>>
                             ELSE t[j]]
                  /\ UNCHANGED q
     ELSE Enter(p, "post") /\ UNCHANGED <<counter, rows, q, t>>
  /\ UNCHANGED <<callVars, at, batch, r_off, setup, prg, ctr, data, results,
                 wire, spent>>

\* got_recv_online: the receiver's corrections.  Its counter runs over the
\* slots and is put back.
Ask ==
  LET m == Chunk(BOB, OnlineChunk)
      slot(j) == counter[BOB] + j - 1
  IN  /\ pc[BOB] = "online" /\ ctr[BOB] < Length(BOB)
      /\ Enter(BOB, "asked")
      /\ wire' = [wire EXCEPT ![ALICE] = @ \o [j \in 1..m |->
           [kind |-> "A", a |-> Correction(r_off[slot(j)],
                                           choice[at[BOB]][ctr[BOB] + j])]]]
      /\ spent' = spent \cup Use(BOB, [j \in 1..m |-> t[slot(j)][1]])
      /\ UNCHANGED <<callVars, at, poolVars, setup, prg, rows, ctr, data,
                     results>>

\* got_send_online.
Answer ==
  LET m == Chunk(ALICE, OnlineChunk)
      slot(j) == counter[ALICE] + j - 1
  IN  /\ pc[ALICE] = "online" /\ ctr[ALICE] < Length(ALICE)
      /\ Arrived(ALICE, "A", m)
      /\ counter' = [counter EXCEPT ![ALICE] = @ + m]
      /\ ctr' = [ctr EXCEPT ![ALICE] = @ + m]
      /\ wire' = [wire EXCEPT ![ALICE] = Dropped(ALICE, m),
                              ![BOB] = @ \o [j \in 1..m |->
           Masked(q[slot(j)], wire[ALICE][j].a, ctr[ALICE] + j)]]
      /\ spent' = spent \cup Use(ALICE, [j \in 1..m |-> q[slot(j)]])
      /\ UNCHANGED <<callVars, at, pc, batch, q, t, r_off, setup, prg, rows,
                     data, results>>

\* The rest of got_recv_online; unpack_messages advances the counter.
LearntNone(c, m) == c
LearntTo(c, m) == c + m

Learn ==
  LET m == Chunk(BOB, OnlineChunk)
  IN  /\ pc[BOB] = "asked"
      /\ Arrived(BOB, "Y", m)
      /\ Enter(BOB, "online")
      /\ data' = data \o [j \in 1..m |->
           Unmasked(wire[BOB][j], t[counter[BOB] + j - 1],
                    choice[at[BOB]][ctr[BOB] + j])]
      /\ counter' = [counter EXCEPT ![BOB] = LearntTo(@, m)]
      /\ ctr' = [ctr EXCEPT ![BOB] = @ + m]
      /\ wire' = [wire EXCEPT ![BOB] = Dropped(BOB, m)]
      /\ UNCHANGED <<callVars, at, batch, q, t, r_off, setup, prg, rows,
                     results, spent>>

\* got_send_post, cot_send_post: no correction, the rows were drawn for
\* these choices.
SendPost ==
  LET m == Chunk(ALICE, SendChunk)
  IN  /\ pc[ALICE] = "post" /\ ctr[ALICE] < Length(ALICE)
      /\ ctr' = [ctr EXCEPT ![ALICE] = @ + m]
      /\ wire' = [wire EXCEPT ![BOB] = @ \o [j \in 1..m |->
           Masked(rows[ALICE][ctr[ALICE] + j], 0, ctr[ALICE] + j)]]
      /\ spent' = spent \cup
           Use(ALICE, [j \in 1..m |-> rows[ALICE][ctr[ALICE] + j]])
      /\ UNCHANGED <<callVars, at, pc, poolVars, setup, prg, rows, data,
                     results>>

RecvPost ==
  LET m == Chunk(BOB, RecvChunk)
      r(j) == choice[at[BOB]][ctr[BOB] + j]
  IN  /\ pc[BOB] = "post" /\ ctr[BOB] < Length(BOB)
      /\ Arrived(BOB, "Y", m)
      /\ data' = data \o [j \in 1..m |->
           Unmasked(wire[BOB][j], <<rows[BOB][ctr[BOB] + j], r(j)>>, r(j))]
      /\ ctr' = [ctr EXCEPT ![BOB] = @ + m]
      /\ wire' = [wire EXCEPT ![BOB] = Dropped(BOB, m)]
      /\ UNCHANGED <<callVars, at, pc, poolVars, setup, prg, rows, results,
                     spent>>

\* The loop over the call is over and send_impl or recv_impl returns.
Finish(p) ==
  /\ pc[p] \in {"online", "post"} /\ ctr[p] = Length(p)
  /\ Enter(p, "call")
  /\ at' = [at EXCEPT ![p] = @ + 1]
  /\ ctr' = [ctr EXCEPT ![p] = 0]
  /\ rows' = [rows EXCEPT ![p] = <<>>]
  /\ IF p = BOB
     THEN results' = Append(results, data) /\ data' = <<>>
     ELSE UNCHANGED <<results, data>>
  /\ UNCHANGED <<callVars, poolVars, setup, prg, wire, spent>>

Sender ==
  SetBatch(ALICE) \/ Begin(ALICE) \/ SeedSender \/ ExtendSender
  \/ Store(ALICE) \/ Answer \/ SendPost \/ Finish(ALICE)

Receiver ==
  SetBatch(BOB) \/ Begin(BOB) \/ SeedReceiver \/ ExtendReceiver
  \/ Store(BOB) \/ Ask \/ Learn \/ RecvPost \/ Finish(BOB)

Next == Sender \/ Receiver

Spec == Init /\ [][Next]_vars
\* Each party is a process that runs unless it waits for the other.
FairSpec == Spec /\ WF_vars(Sender) /\ WF_vars(Receiver)

------------------------------------------------------------------------------
(* Properties.                                                             *)

Place == {"call", "extend", "online", "asked", "post"}
Ended(p) == at[p] > Len(program)

\* Every variable has the type of the field or local that it models; the
\* counter stays within the pool and ctr within the call.
TypeOK ==
  /\ at \in [Party -> Nat \ {0}] /\ pc \in [Party -> Place]
  /\ batch \in [Party -> Nat] /\ counter \in [Party -> Nat]
  /\ setup \in [Party -> BOOLEAN] /\ prg \in [Party -> Nat]
  /\ \A p \in Party :
       /\ counter[p] <= batch[p]
       /\ pc[p] # "call" => ~Ended(p) /\ ctr[p] \in 0..Length(p)
       /\ rows[p] \in Seq(Row)
  /\ q \in [0..(batch[ALICE] - 1) -> Row]
  /\ t \in [0..(batch[BOB] - 1) -> Row \X Choice]
  /\ r_off \in [0..(batch[BOB] - 1) -> Choice]

\* A row is spent on one OT: no pad of the sender hides two messages' sets
\* and no random choice of the receiver hides two choices, over any sequence
\* of calls, refills of part of the pool and direct calls (got_send_online,
\* got_recv_online, preprocess).
OneTime ==
  \A x, y \in spent : x.by = y.by /\ x.row = y.row => x.ot = y.ot

\* Party p will read only slots of its pool that a refill has written: the
\* slots from the counter on are written unless the pool counts as used up,
\* and there are enough for the rest of an online call.
SlotsHeld ==
  \A p \in Party :
    /\ pc[p] \in {"online", "asked"} =>
         counter[p] + Length(p) - ctr[p] <= batch[p]
    /\ \A j \in counter[p]..(batch[p] - 1) :
         IF p = ALICE THEN q[j] # NoRow ELSE t[j] # NoPad

\* Between calls, when both parties stand before the same call, their pools
\* agree: the same size, the same counter, the same row in every unused slot,
\* PRGs at the same place.  Neither side ever sends its counter.
PoolsAgree ==
  at[ALICE] = at[BOB] /\ pc[ALICE] = "call" /\ pc[BOB] = "call" =>
    /\ batch[ALICE] = batch[BOB] /\ counter[ALICE] = counter[BOB]
    /\ prg[ALICE] = prg[BOB] /\ setup[ALICE] = setup[BOB]
    /\ \A j \in counter[BOB]..(batch[BOB] - 1) :
         q[j] = t[j][1] /\ r_off[j] = t[j][2]

\* The kind of message that party p reads where it stands, if it reads.
Awaited(p) ==
  IF p = ALICE
  THEN {k \in {"seed", "U", "A"} :
          \/ k = "seed" /\ pc[p] = "extend" /\ ~setup[p]
          \/ k = "U" /\ Extending(p)
          \/ k = "A" /\ pc[p] = "online" /\ ctr[p] < Length(p)}
  ELSE {k \in {"Y"} :
          \/ pc[p] = "asked"
          \/ pc[p] = "post" /\ ctr[p] < Length(p)}

\* The byte stream is read as it was written: what is next on the wire of a
\* party that reads is what it expects, a block of an extension has the size
\* it expects, which is never that of no rows (padded_length would divide by
\* zero), and nothing is left over after the last call.
InStep ==
  \A p \in Party :
    /\ pc[p] = "extend" => Wanted(p) >= 1
    /\ wire[p] # <<>> /\ Awaited(p) # {} =>
         /\ wire[p][1].kind \in Awaited(p)
         /\ wire[p][1].kind = "U" => wire[p][1].size = BlockOf(Wanted(p))
    /\ Ended(ALICE) /\ Ended(BOB) => wire[p] = <<>>

\* The receiver gets, call after call, the messages its choices name, as if
\* OTIdeal had delivered them.
Ideal == INSTANCE IdealOT
ImplementsIdeal == Ideal!Spec

\* Every session that is a legal sequence of calls ends for both parties.
Termination == <>(Ended(ALICE) /\ Ended(BOB))

\* What split-kkot.h says of the counter: "counter denotes the number of
\* unused pre-generated OTs."
UnusedCount ==
  \A p \in Party : pc[p] = "call" =>
    counter[p] = Cardinality({j \in DOMAIN (IF p = ALICE THEN q ELSE t) :
      LET row == IF p = ALICE THEN q[j] ELSE t[j][1]
      IN  row # NoRow /\ ~\E x \in spent : x.by = p /\ x.row = row})
=============================================================================
