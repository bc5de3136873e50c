----------------------------- MODULE SetupProofs ----------------------------
(***************************************************************************)
(* Theorems about NetSetup, for any number of instances and of base OTs,   *)
(* any group, exponents and size of the buffer; and about Pool, for any    *)
(* set of workers, any tasks, whatever a task enqueues, and any number of  *)
(* spurious wake-ups.                                                      *)
(***************************************************************************)
EXTENDS NetSetup, Powers, TLAPS

Wire == {"io", "io_rev"}
BaseSteps == {"C", "pk", "gr", "m"}
SyncSteps == {"sync", "synced1", "synced"}

\* The set-ups in the order of SetupBaseOTs, and all messages of all of them,
\* numbered: "Span" for each.
J == KKOT_TYPES + 2
Span == 3 * Lambda + 1
End == J * Span

OtAt(j) == IF j = 1 THEN Kkot(0) ELSE IF j = 2 THEN Straight
           ELSE IF j = 3 THEN Reversed ELSE Kkot(j - 3)

\* Where in its set-up a message is, and back.
Offset(ph, n) == IF ph = "pk" THEN n ELSE IF ph = "gr" THEN Lambda + n
                 ELSE IF ph = "m" THEN 2 * Lambda + n ELSE 0
PhaseAt(o) == IF o = 0 THEN "C" ELSE IF o <= Lambda THEN "pk"
              ELSE IF o <= 2 * Lambda THEN "gr" ELSE "m"
IndexAt(o) == IF o = 0 THEN 1 ELSE IF o <= Lambda THEN o
              ELSE IF o <= 2 * Lambda THEN o - Lambda ELSE o - 2 * Lambda

Where(j, ph, n) == (j - 1) * Span + Offset(ph, n)
Pos(p) == Where(job[p], phase[p], i[p])
SetUpOf(x) == x \div Span + 1
OffsetOf(x) == x % Span

\* Who sends message x, and on which channel.
SentBy(ot, o) == IF o \in 1..Lambda THEN SenderOf(ot) ELSE Peer(SenderOf(ot))
By(x) == SentBy(OtAt(SetUpOf(x)), OffsetOf(x))
ChanAt(x) == ChannelOf(OtAt(SetUpOf(x)))

\* All that the two parties draw in one base OT, and what follows from it: the
\* public keys, the pairs of masked keys, every message, and what a party has
\* when it is at offset o.
Secrets == [d : Exponents, r : [Index -> Exponents],
            k : [Index -> Exponents], s : [Index -> {0, 1}]]
Pk(t, n) == PublicKey(t.d, t.k[n], t.s[n])
Mask0(t, n) == (Pk(t, n) * t.r[n]) % Order
Masked(t, ot, n) ==
  <<[kdf |-> Mask0(t, n), block |-> Key(ot, n, 0)],
    [kdf |-> (t.r[n] * t.d - Mask0(t, n)) % Order, block |-> Key(ot, n, 1)]>>
Value(t, ot, o) == IF o = 0 THEN t.d ELSE IF o <= Lambda THEN Pk(t, o)
                   ELSE IF o <= 2 * Lambda THEN t.r[o - Lambda]
                   ELSE Masked(t, ot, o - 2 * Lambda)
Said(t, ot, o) == [at |-> <<ot, PhaseAt(o), IndexAt(o)>>, v |-> Value(t, ot, o)]
Message(sec, x) == Said(sec[SetUpOf(x)], OtAt(SetUpOf(x)), OffsetOf(x))

SenderHas(t, o) ==
  [role |-> "send", d |-> t.d, r |-> t.r,
   pk |-> [n \in Index |-> IF n < o THEN Pk(t, n) ELSE 0]]
ReceiverHas(t, ot, o) ==
  [role |-> "recv", C |-> t.d, k |-> t.k, s |-> t.s,
   gr |-> [n \in Index |-> IF Lambda + n < o THEN (t.r[n] * t.k[n]) % Order ELSE 0],
   data |-> [n \in Index |-> IF 2 * Lambda + n < o THEN Key(ot, n, t.s[n]) ELSE Garbage]]
Has(t, p, ot, o, mine) ==
  o > 0 => mine = IF p = SenderOf(ot) THEN ReceiverHas(t, ot, o) ELSE SenderHas(t, o)

\* A party at x that is ahead of one at y has sent all between, on one channel,
\* and that is what is under way.
Ahead(p, x, y) == \A z \in y..(x - 1) : By(z) = p /\ ChanAt(z) = ChanAt(y)
InFlight(x, y, c) == IF y < x /\ ChanAt(y) = c THEN x - y ELSE 0
Carries(sec, x, y, c, w) ==
  /\ IsList(w, InFlight(x, y, c))
  /\ \A z \in 1..InFlight(x, y, c) : w[z] = Message(sec, y + z - 1)

\* What the keys of an instance are once it is seeded.
SeedOK(p, ot, v) ==
  IF p = SenderOf(ot)
  THEN \E s \in [Index -> {0, 1}] : v = [k0 |-> [n \in Index |-> Key(ot, n, s[n])], s |-> s]
  ELSE v = [k0 |-> [n \in Index |-> Key(ot, n, 0)], k1 |-> [n \in Index |-> Key(ot, n, 1)]]
Origin(k, ot) == IF k = 1 THEN ot ELSE BaseOf(ALICE, ot)

------------------------------------------------------------------------------
(* The invariant.                                                          *)

\* A port is open only while the server lacks a channel.
ConnInv ==
  /\ listening \in Channel \cup {"none"} /\ backlog \in {"none", listening}
  /\ opened \in [Party -> 0..3]
  /\ listening # "none" => opened[ALICE] # 3

ValidPlace(j, ph, n) ==
  /\ j \in 1..(J + 1) /\ n \in Index
  /\ ph \in BaseSteps \cup SyncSteps
  /\ j <= J => ph \in BaseSteps
  /\ j = J + 1 => ph \in {"C"} \cup SyncSteps
  /\ ph \notin {"pk", "gr", "m"} => n = 1

PlaceInv ==
  /\ job = [p \in Party |-> job[p]] /\ phase = [p \in Party |-> phase[p]]
  /\ i = [p \in Party |-> i[p]] /\ own = [p \in Party |-> own[p]]
  /\ reading \in [Party -> BOOLEAN]
  /\ \A p \in Party : ValidPlace(job[p], phase[p], i[p])
  /\ \A p \in Party : reading[p] => Receives(p) \/ SyncReceives(p)

\* Nothing waits in a buffer of io and io_rev.
BufferInv ==
  /\ stream = [p \in Party |-> [c \in Channel |-> stream[p][c]]]
  /\ inbox = [p \in Party |-> [c \in Channel |-> inbox[p][c]]]
  /\ \A p \in Party : \A c \in Channel :
       /\ stream[p][c].has_sent \in BOOLEAN
       /\ c \in Wire => stream[p][c].out = <<>>
       /\ \E n \in Nat : IsList(inbox[p][c], n)

\* Where the one message of each party is while they synchronise: a is where
\* ALICE is, ra whether she reads, b where BOB is.
Begun(ph) == ph \in {"synced1", "synced"}
Handshake(a, ra, b, outA, outB, sent, inA, inB) ==
  /\ IsList(outA, IF a = "synced1" /\ ~ra THEN 1 ELSE 0)
  /\ IsList(inB, IF a = "synced1" /\ ra /\ ~Begun(b) THEN 1 ELSE 0)
  /\ IsList(inA, IF a = "synced1" /\ b = "synced" THEN 1 ELSE 0)
  /\ outB = <<>>
  /\ a = "synced1" /\ ~ra => sent
  /\ Begun(b) => a = "synced" \/ (a = "synced1" /\ ra)
  /\ a = "synced" => b = "synced"
SyncInv ==
  Handshake(phase[ALICE], reading[ALICE], phase[BOB],
            stream[ALICE]["io_GC"].out, stream[BOB]["io_GC"].out,
            stream[ALICE]["io_GC"].has_sent, inbox[ALICE]["io_GC"], inbox[BOB]["io_GC"])

SeedInv ==
  /\ seeds = [p \in Party |-> [k \in 1..2 |-> [ot \in Instance |-> seeds[p][k][ot]]]]
  /\ \A p \in Party : \A k \in 1..2 : \A ot \in Instance :
       seeds[p][k][ot] # None => SeedOK(p, Origin(k, ot), seeds[p][k][ot])
  /\ \A p \in Party : \A j \in 1..J : j < job[p] => seeds[p][1][OtAt(j)] # None
  /\ \A p \in Party : phase[p] \in SyncSteps => \A ot \in Instance : seeds[p][2][ot] # None

DataOK(sec) ==
  \A p \in Party :
    /\ Ahead(p, Pos(p), Pos(Peer(p)))
    /\ \A c \in Wire : Carries(sec, Pos(p), Pos(Peer(p)), c, inbox[Peer(p)][c])
    /\ job[p] <= J => Has(sec[job[p]], p, OtAt(job[p]), Offset(phase[p], i[p]), own[p])
DataInv == \E sec \in [1..J -> Secrets] : DataOK(sec)

IInv == ConnInv /\ PlaceInv /\ BufferInv /\ SyncInv /\ SeedInv /\ DataInv

------------------------------------------------------------------------------
(* The order of the set-ups.                                               *)

LEMMA Sizes ==
  ASSUME SetupAssumption
  PROVE  /\ J \in Nat /\ J >= 3 /\ Lambda \in Nat /\ Lambda > 0
         /\ Span \in Nat /\ Span > 0 /\ End \in Nat
         /\ Order \in Nat /\ Order > 0
  <1>1. J \in Nat /\ J >= 3 /\ Lambda \in Nat /\ Lambda > 0 /\ Order \in Nat /\ Order > 0
    BY DEF SetupAssumption, J
  <1>2. Span \in Nat /\ Span > 0
    BY <1>1 DEF Span
  <1>3. End \in Nat
    BY <1>1, <1>2 DEF End
  <1> QED
    BY <1>1, <1>2, <1>3

LEMMA PartyFacts ==
  /\ Party = {ALICE, BOB} /\ ALICE # BOB
  /\ Peer(ALICE) = BOB /\ Peer(BOB) = ALICE
  /\ \A p \in Party : Peer(p) \in Party /\ Peer(p) # p /\ Peer(Peer(p)) = p
  /\ \A p, q \in Party : q # p <=> q = Peer(p)
  BY DEF Party, Peer, ALICE, BOB

\* The instances are set up one after the other, in the same order on both sides,
\* each of them once.
LEMMA SetUpOrder ==
  ASSUME SetupAssumption, NEW p \in Party
  PROVE  /\ Len(SetUps(p)) = J
         /\ \A j \in 1..J : SetUps(p)[j] = OtAt(j)
  <1>1. KKOT_TYPES \in Nat /\ KKOT_TYPES > 0
    BY DEF SetupAssumption
  <1> DEFINE s == <<Kkot(0), Straight, Reversed>>
             t == KkotsFrom(1)
             T == {Kkot(0), Straight, Reversed} \cup {Kkot(1 + j - 1) : j \in 1..(KKOT_TYPES - 1)}
  <1>2. s \in Seq(T) /\ Len(s) = 3 /\ s[1] = Kkot(0) /\ s[2] = Straight /\ s[3] = Reversed
    OBVIOUS
  <1>3. t \in [1..(KKOT_TYPES - 1) -> T] /\ \A j \in 1..(KKOT_TYPES - 1) : t[j] = Kkot(1 + j - 1)
    BY DEF KkotsFrom
  <1>4. t \in Seq(T) /\ Len(t) = KKOT_TYPES - 1
    <2> HIDE DEF t, T
    <2>1. KKOT_TYPES - 1 \in Nat
      BY <1>1
    <2> QED
      BY <1>3, <2>1
  <1>5. SetUps(p) = s \o t
    BY DEF SetUps
  <1> HIDE DEF s, t, T
  <1>6. /\ Len(s \o t) = Len(s) + Len(t)
        /\ \A j \in 1..(Len(s) + Len(t)) : (s \o t)[j] = IF j <= Len(s) THEN s[j] ELSE t[j - Len(s)]
    BY <1>2, <1>4, ConcatProperties
  <1>7. Len(s) + Len(t) = J
    BY <1>1, <1>2, <1>4 DEF J
  <1>8. ASSUME NEW j \in 1..J
        PROVE  SetUps(p)[j] = OtAt(j)
    <2>1. (s \o t)[j] = IF j <= 3 THEN s[j] ELSE t[j - 3]
      BY <1>2, <1>6, <1>7
    <2>2. CASE j <= 3
      <3>1. j = 1 \/ j = 2 \/ j = 3
        BY <2>2, Sizes
      <3> QED
        BY <1>2, <1>5, <2>1, <2>2, <3>1 DEF OtAt
    <2>3. CASE ~(j <= 3)
      <3>1. j - 3 \in 1..(KKOT_TYPES - 1) /\ 1 + (j - 3) - 1 = j - 3 /\ j # 1 /\ j # 2 /\ j # 3
        BY <1>1, <2>3 DEF J
      <3>2. t[j - 3] = Kkot(j - 3)
        BY <1>3, <3>1
      <3> QED
        BY <1>5, <2>1, <2>3, <3>1, <3>2 DEF OtAt
    <2> QED
      BY <2>2, <2>3
  <1> QED
    BY <1>5, <1>6, <1>7, <1>8

LEMMA Instances ==
  ASSUME SetupAssumption
  PROVE  /\ \A j \in 1..J : OtAt(j) \in Instance
         /\ \A ot \in Instance : \E j \in 1..J : OtAt(j) = ot
         /\ \A ot \in Instance : SenderOf(ot) \in Party /\ ChannelOf(ot) \in Wire
         /\ \A ot \in Instance : BaseOf(ALICE, ot) \in Instance /\ BaseOf(BOB, ot) = BaseOf(ALICE, ot)
                                 /\ SenderOf(BaseOf(ALICE, ot)) = SenderOf(ot)
  <1>1. KKOT_TYPES \in Nat /\ KKOT_TYPES > 0
    BY DEF SetupAssumption
  <1>2. ASSUME NEW j \in 1..J
        PROVE  OtAt(j) \in Instance
    <2>1. CASE j <= 3
      BY <1>1, <2>1 DEF OtAt, Instance
    <2>2. CASE ~(j <= 3)
      <3>1. j - 3 \in 0..(KKOT_TYPES - 1)
        BY <1>1, <2>2 DEF J
      <3> QED
        BY <2>2, <3>1 DEF OtAt, Instance
    <2> QED
      BY <2>1, <2>2
  <1>3. ASSUME NEW ot \in Instance
        PROVE  \E j \in 1..J : OtAt(j) = ot
    <2>1. CASE ot = Straight
      BY <1>1, <2>1 DEF OtAt, J
    <2>2. CASE ot = Reversed
      BY <1>1, <2>2 DEF OtAt, J
    <2>3. CASE ot \notin {Straight, Reversed}
      <3>1. PICK n \in 0..(KKOT_TYPES - 1) : ot = Kkot(n)
        BY <2>3 DEF Instance
      <3>2. CASE n = 0
        <4>1. 1 \in 1..J /\ OtAt(1) = Kkot(0)
          BY <1>1 DEF OtAt, J
        <4> QED
          BY <3>1, <3>2, <4>1
      <3>3. CASE n # 0
        <4>1. n + 3 \in 1..J /\ n + 3 # 1 /\ n + 3 # 2 /\ n + 3 # 3 /\ n + 3 - 3 = n
          BY <1>1, <3>3 DEF J
        <4>2. OtAt(n + 3) = Kkot(n)
          BY <4>1 DEF OtAt
        <4> QED
          BY <3>1, <4>1, <4>2
      <3> QED
        BY <3>2, <3>3
    <2> QED
      BY <2>1, <2>2, <2>3
  <1>4. ASSUME NEW ot \in Instance
        PROVE  /\ SenderOf(ot) \in Party /\ ChannelOf(ot) \in Wire
               /\ BaseOf(ALICE, ot) \in Instance /\ BaseOf(BOB, ot) = BaseOf(ALICE, ot)
               /\ SenderOf(BaseOf(ALICE, ot)) = SenderOf(ot)
    <2>1. SenderOf(ot) \in Party /\ ChannelOf(ot) \in Wire /\ BaseOf(BOB, ot) = BaseOf(ALICE, ot)
      BY DEF SenderOf, ChannelOf, Party, Wire, BaseOf
    <2>2. CASE ot = Straight \/ ot = Reversed
      <3>1. ot[1] # "kkot"
        BY <2>2 DEF Straight, Reversed
      <3>2. BaseOf(ALICE, ot) = ot
        BY <3>1 DEF BaseOf
      <3> QED
        BY <2>1, <3>2
    <2>3. CASE ot \notin {Straight, Reversed}
      <3>1. PICK n \in 0..(KKOT_TYPES - 1) : ot = Kkot(n)
        BY <2>3 DEF Instance
      <3>2. BaseOf(ALICE, ot) = Kkot(0)
        BY <3>1 DEF BaseOf, Kkot
      <3>3. Kkot(0) # Reversed /\ Kkot(n) # Reversed
        BY DEF Kkot, Reversed
      <3>4. Kkot(0) \in Instance
        BY <1>1 DEF Instance
      <3> QED
        BY <2>1, <3>1, <3>2, <3>3, <3>4 DEF SenderOf
    <2> QED
      BY <2>1, <2>2, <2>3
  <1> QED
    BY <1>2, <1>3, <1>4

------------------------------------------------------------------------------
(* The numbers of the messages.                                            *)

LEMMA Decode ==
  ASSUME SetupAssumption, NEW j \in Nat, j > 0, NEW o \in 0..(3 * Lambda)
  PROVE  /\ (j - 1) * Span + o \in Nat
         /\ SetUpOf((j - 1) * Span + o) = j
         /\ OffsetOf((j - 1) * Span + o) = o
         /\ j <= J => (j - 1) * Span + o < End
  <1>1. PICK w \in Nat : w = Span
    BY Sizes
  <1>2. w > 0 /\ o \in Nat /\ o < w /\ j - 1 \in Nat
    BY <1>1, Sizes DEF Span
  <1>3. PICK x \in Nat : x = w * (j - 1) + o
    BY <1>2
  <1>4. x = (j - 1) * w + o
    BY <1>2, <1>3
  <1>5. x \div w = j - 1 /\ x % w = o
    BY <1>2, <1>3, DivUnique
  <1>6. ASSUME j <= J
        PROVE  x < J * w
    <2>1. PICK m \in Nat : m = J - j
      BY <1>6, Sizes
    <2>2. J = j + m
      BY <2>1, Sizes
    <2>3. (j + m) * w = (j - 1) * w + w + m * w /\ m * w >= 0
      BY <1>2, <2>1
    <2> QED
      BY <1>2, <1>4, <2>2, <2>3
  <1> QED
    BY <1>1, <1>4, <1>5, <1>6 DEF SetUpOf, OffsetOf, End

LEMMA Encode ==
  ASSUME SetupAssumption, NEW x \in Nat, x < End
  PROVE  /\ SetUpOf(x) \in 1..J /\ OffsetOf(x) \in 0..(3 * Lambda)
         /\ x = (SetUpOf(x) - 1) * Span + OffsetOf(x)
  <1>1. PICK w \in Nat : w = Span
    BY Sizes
  <1>2. w > 0
    BY <1>1, Sizes
  <1>3. PICK q \in Nat, r \in Nat : q = x \div w /\ r = x % w /\ r < w /\ x = w * q + r
    BY <1>2, DivMod
  <1>4. x < w * J
    BY <1>1, Sizes DEF End
  <1>5. q < J
    BY <1>2, <1>3, <1>4, DivBound, Sizes
  <1>6. r \in 0..(3 * Lambda)
    BY <1>1, <1>3, Sizes DEF Span
  <1>7. q + 1 \in 1..J /\ x = (q + 1 - 1) * w + r
    BY <1>3, <1>5, Sizes
  <1> QED
    BY <1>1, <1>3, <1>6, <1>7 DEF SetUpOf, OffsetOf

LEMMA Places ==
  ASSUME SetupAssumption, NEW j, NEW ph, NEW n, ValidPlace(j, ph, n)
  PROVE  /\ Offset(ph, n) \in 0..(3 * Lambda)
         /\ j <= J => PhaseAt(Offset(ph, n)) = ph /\ IndexAt(Offset(ph, n)) = n
         /\ Where(j, ph, n) \in 0..End
         /\ j \in 1..J => /\ SetUpOf(Where(j, ph, n)) = j /\ Where(j, ph, n) < End
                          /\ OffsetOf(Where(j, ph, n)) = Offset(ph, n)
         /\ j = J + 1 => Where(j, ph, n) = End
         /\ j \in Nat /\ n \in Nat
  <1>1. j \in 1..(J + 1) /\ n \in 1..Lambda
    BY DEF ValidPlace, Index
  <1>2. /\ Offset(ph, n) \in 0..(3 * Lambda)
        /\ j <= J => PhaseAt(Offset(ph, n)) = ph /\ IndexAt(Offset(ph, n)) = n
    <2>1. CASE ph = "pk"
      BY <1>1, <2>1, Sizes DEF Offset, PhaseAt, IndexAt
    <2>2. CASE ph = "gr"
      BY <1>1, <2>2, Sizes DEF Offset, PhaseAt, IndexAt
    <2>3. CASE ph = "m"
      BY <1>1, <2>3, Sizes DEF Offset, PhaseAt, IndexAt
    <2>4. CASE ph \notin {"pk", "gr", "m"}
      BY <1>1, <2>4, Sizes DEF Offset, PhaseAt, IndexAt, ValidPlace, BaseSteps
    <2> QED
      BY <2>1, <2>2, <2>3, <2>4
  <1>3. PICK o \in 0..(3 * Lambda) : o = Offset(ph, n)
    BY <1>2
  <1>4. CASE j \in 1..J
    <2>0. j \in Nat /\ j > 0 /\ j <= J
      BY <1>4, Sizes
    <2>1. /\ (j - 1) * Span + o \in Nat
          /\ SetUpOf((j - 1) * Span + o) = j
          /\ OffsetOf((j - 1) * Span + o) = o
          /\ (j - 1) * Span + o < End
      BY <2>0, Decode
    <2>2. j \in Nat /\ j # J + 1 /\ n \in Nat
      BY <1>1, <1>4, Sizes
    <2>3. (j - 1) * Span + o \in 0..End
      BY <2>1, Sizes
    <2> QED
      BY <1>2, <1>3, <2>1, <2>2, <2>3 DEF Where
  <1>5. CASE j \notin 1..J
    <2>1. j = J + 1
      BY <1>1, <1>5, Sizes
    <2>2. o = 0
      BY <1>3, <2>1 DEF ValidPlace, Offset, SyncSteps
    <2>3. Where(j, ph, n) = End
      <3>1. PICK w \in Nat : w = Span
        BY Sizes
      <3>2. PICK m \in Nat : m = J
        BY Sizes
      <3>3. (j - 1) * w + o = m * w
        BY <2>1, <2>2, <3>2
      <3> QED
        BY <1>3, <3>1, <3>2, <3>3 DEF Where, End
    <2>4. End \in 0..End /\ j \in Nat /\ n \in Nat
      BY <1>1, Sizes
    <2> QED
      BY <1>2, <1>5, <2>1, <2>3, <2>4
  <1> QED
    BY <1>4, <1>5

\* A step of a base OT is a step to the next message.
LEMMA Onwards ==
  ASSUME SetupAssumption, NEW j, NEW ph, NEW n, ValidPlace(j, ph, n), j \in 1..J
  PROVE  /\ ph # "C" /\ n < Lambda =>
              ValidPlace(j, ph, n + 1) /\ Where(j, ph, n + 1) = Where(j, ph, n) + 1
         /\ ph = "C" => ValidPlace(j, "pk", 1) /\ Where(j, "pk", 1) = Where(j, ph, n) + 1
         /\ ph = "pk" /\ ~(n < Lambda) =>
              ValidPlace(j, "gr", 1) /\ Where(j, "gr", 1) = Where(j, ph, n) + 1
         /\ ph = "gr" /\ ~(n < Lambda) =>
              ValidPlace(j, "m", 1) /\ Where(j, "m", 1) = Where(j, ph, n) + 1
         /\ ph = "m" /\ ~(n < Lambda) =>
              ValidPlace(j + 1, "C", 1) /\ Where(j + 1, "C", 1) = Where(j, ph, n) + 1
  <1>1. j \in Nat /\ n \in 1..Lambda /\ ph \in BaseSteps
    BY DEF ValidPlace, Index
  <1>2. PICK w \in Nat : w = (j - 1) * Span
    BY Sizes
  <1>3. j * Span = w + 3 * Lambda + 1
    <2>1. PICK v \in Nat : v = Span
      BY Sizes
    <2>2. j * v = (j - 1) * v + v
      BY <1>1, <2>1
    <2> QED
      BY <1>2, <2>1, <2>2, Sizes DEF Span
  <1>4. j + 1 - 1 = j /\ j + 1 \in 1..(J + 1) /\ j \in 1..(J + 1) /\ 1 \in 1..Lambda
        /\ j # J + 1
    BY <1>1, Sizes
  <1>5. ASSUME ph # "C", n < Lambda
        PROVE  ValidPlace(j, ph, n + 1) /\ Where(j, ph, n + 1) = Where(j, ph, n) + 1
    <2>1. ValidPlace(j, ph, n + 1)
      BY <1>1, <1>4, <1>5, Sizes DEF ValidPlace, Index, BaseSteps
    <2>2. Offset(ph, n + 1) = Offset(ph, n) + 1 /\ Offset(ph, n) \in Nat
      BY <1>1, <1>5, Sizes DEF Offset, BaseSteps
    <2> QED
      BY <1>2, <2>1, <2>2 DEF Where
  <1>6. ASSUME ph = "C"
        PROVE  ValidPlace(j, "pk", 1) /\ Where(j, "pk", 1) = Where(j, ph, n) + 1
    BY <1>1, <1>2, <1>4, <1>6, Sizes DEF ValidPlace, Index, BaseSteps, Where, Offset
  <1>7. ASSUME ph = "pk", ~(n < Lambda)
        PROVE  ValidPlace(j, "gr", 1) /\ Where(j, "gr", 1) = Where(j, ph, n) + 1
    BY <1>1, <1>2, <1>4, <1>7, Sizes DEF ValidPlace, Index, BaseSteps, Where, Offset
  <1>8. ASSUME ph = "gr", ~(n < Lambda)
        PROVE  ValidPlace(j, "m", 1) /\ Where(j, "m", 1) = Where(j, ph, n) + 1
    BY <1>1, <1>2, <1>4, <1>8, Sizes DEF ValidPlace, Index, BaseSteps, Where, Offset
  <1>9. ASSUME ph = "m", ~(n < Lambda)
        PROVE  ValidPlace(j + 1, "C", 1) /\ Where(j + 1, "C", 1) = Where(j, ph, n) + 1
    <2>1. ValidPlace(j + 1, "C", 1)
      BY <1>1, <1>4 DEF ValidPlace, Index, BaseSteps
    <2>2. Where(j, ph, n) = w + 3 * Lambda
      BY <1>1, <1>2, <1>9, Sizes DEF Where, Offset
    <2>3. Where(j + 1, "C", 1) = w + 3 * Lambda + 1
      BY <1>2, <1>3, <1>4, Sizes DEF Where, Offset
    <2> QED
      BY <2>1, <2>2, <2>3
  <1> QED
    BY <1>5, <1>6, <1>7, <1>8, <1>9

\* What a party sends in a row goes on one channel.
LEMMA SameChannel ==
  ASSUME SetupAssumption, NEW x \in Nat, x + 1 < End, By(x) = By(x + 1)
  PROVE  ChanAt(x) = ChanAt(x + 1)
  <1>1. PICK j \in 1..J, o \in 0..(3 * Lambda) :
          j = SetUpOf(x) /\ o = OffsetOf(x) /\ x = (j - 1) * Span + o
    BY Encode, Sizes
  <1>2. CASE o < 3 * Lambda
    <2>1. o + 1 \in 0..(3 * Lambda) /\ x + 1 = (j - 1) * Span + (o + 1)
      BY <1>1, <1>2, Sizes
    <2>2. SetUpOf(x + 1) = j
      BY <2>1, Decode
    <2> QED
      BY <1>1, <2>2 DEF ChanAt
  <1>3. CASE o = 3 * Lambda
    <2>1. PICK w \in Nat : w = Span /\ w = 3 * Lambda + 1
      BY Sizes DEF Span
    <2>2. x = (j - 1) * w + (w - 1)
      BY <1>1, <1>3, <2>1
    <2>3. j \in Nat /\ j + 1 - 1 = j /\ j + 1 \in Nat /\ j + 1 > 0
      BY Sizes
    <2>4. x + 1 = j * w
      BY <2>1, <2>2, <2>3
    <2>5. 0 \in 0..(3 * Lambda) /\ x + 1 = (j + 1 - 1) * Span + 0
      BY <2>1, <2>3, <2>4, Sizes
    <2>6. SetUpOf(x + 1) = j + 1 /\ OffsetOf(x + 1) = 0
      BY <2>3, <2>5, Decode
    <2>7. SetUpOf(x + 1) \in 1..J
      BY Encode
    <2>8. o \notin 1..Lambda /\ 0 \notin 1..Lambda
      BY <1>3, Sizes
    <2>9. Peer(SenderOf(OtAt(j))) = Peer(SenderOf(OtAt(j + 1)))
      BY <1>1, <2>6, <2>8 DEF By, SentBy
    <2>10. SenderOf(OtAt(j)) \in Party /\ SenderOf(OtAt(j + 1)) \in Party
      BY <2>6, <2>7, Instances
    <2>11. SenderOf(OtAt(j)) = SenderOf(OtAt(j + 1))
      BY <2>9, <2>10, PartyFacts
    <2>12. ChannelOf(OtAt(j)) = ChannelOf(OtAt(j + 1))
      BY <2>11 DEF SenderOf, ChannelOf, ALICE, BOB
    <2> QED
      BY <1>1, <2>6, <2>12 DEF ChanAt
  <1>4. o < 3 * Lambda \/ o = 3 * Lambda
    <2>1. PICK l \in Nat : l = Lambda
      BY Sizes
    <2>2. o \in 0..(3 * l)
      BY <2>1
    <2> QED
      BY <2>1, <2>2
  <1> QED
    BY <1>2, <1>3, <1>4

------------------------------------------------------------------------------
(* What is under way.                                                      *)

\* u is w with e at its end, or without its head.
Longer(u, w, e) ==
  \A n \in Nat : IsList(w, n) =>
    IsList(u, n + 1) /\ u[n + 1] = e /\ \A m \in 1..n : u[m] = w[m]
Shorter(u, w) ==
  \A n \in Nat : IsList(w, n) /\ n > 0 =>
    IsList(u, n - 1) /\ \A m \in 1..(n - 1) : u[m] = w[m + 1]

LEMMA EmptyList ==
  ASSUME NEW w
  PROVE  IsList(w, 0) <=> w = <<>>
  <1>1. ASSUME IsList(w, 0)
        PROVE  w = <<>>
    <2>1. Len(w) = 0 /\ w \in Seq({w[m] : m \in 1..0})
      BY <1>1, ListFacts
    <2> QED
      BY <2>1, EmptySeq
  <1>2. IsList(<<>>, 0)
    <2>1. <<>> \in Seq({}) /\ Len(<<>>) = 0
      BY EmptySeq
    <2> QED
      BY <2>1, SeqIsList
  <1> QED
    BY <1>1, <1>2

\* Who sends is not behind, and stays on the channel of what is under way.
LEMMA FlowSend ==
  ASSUME SetupAssumption, NEW sec, NEW p \in Party, NEW x \in Nat, x < End, By(x) = p,
         NEW y \in Nat, Ahead(p, x, y), Ahead(Peer(p), y, x),
         NEW w, NEW u, NEW v,
         \A c \in Wire : Carries(sec, x, y, c, w[c]) /\ Carries(sec, y, x, c, v[c]),
         Longer(u[ChanAt(x)], w[ChanAt(x)], Message(sec, x)),
         \A c \in Wire : c # ChanAt(x) => u[c] = w[c]
  PROVE  /\ Ahead(p, x + 1, y) /\ Ahead(Peer(p), y, x + 1)
         /\ \A c \in Wire : Carries(sec, x + 1, y, c, u[c]) /\ Carries(sec, y, x + 1, c, v[c])
  <1>1. y <= x
    <2>1. ASSUME ~(y <= x)
          PROVE  FALSE
      <3>1. x \in x..(y - 1)
        BY <2>1
      <3>2. By(x) = Peer(p)
        BY <3>1 DEF Ahead
      <3> QED
        BY <3>2, PartyFacts
    <2> QED
      BY <2>1
  <1>2. ChanAt(x) = ChanAt(y)
    <2>1. CASE x = y
      BY <2>1
    <2>2. CASE x # y
      <3>1. PICK z \in Nat : z = x - 1
        BY <1>1, <2>2
      <3>2. z \in y..(x - 1) /\ z + 1 = x
        BY <1>1, <2>2, <3>1
      <3>3. By(z) = p /\ ChanAt(z) = ChanAt(y)
        BY <3>2 DEF Ahead
      <3>4. ChanAt(z) = ChanAt(z + 1)
        BY <3>2, <3>3, SameChannel
      <3> QED
        BY <3>2, <3>3, <3>4
    <2> QED
      BY <2>1, <2>2
  <1>3. ASSUME NEW z \in y..(x + 1 - 1)
        PROVE  By(z) = p /\ ChanAt(z) = ChanAt(y)
    <2>1. z = x \/ z \in y..(x - 1)
      BY <1>1
    <2> QED
      BY <1>2, <2>1 DEF Ahead
  <1>4. Ahead(p, x + 1, y) /\ Ahead(Peer(p), y, x + 1)
    BY <1>1, <1>3 DEF Ahead
  <1>5. PICK n \in Nat : n = x - y
    BY <1>1
  <1>6. ASSUME NEW c \in Wire, c = ChanAt(x)
        PROVE  Carries(sec, x + 1, y, c, u[c])
    <2>1. InFlight(x, y, c) = n
      BY <1>1, <1>2, <1>5, <1>6 DEF InFlight
    <2>2. InFlight(x + 1, y, c) = n + 1
      BY <1>1, <1>2, <1>5, <1>6 DEF InFlight
    <2>3. IsList(w[c], n) /\ \A z \in 1..n : w[c][z] = Message(sec, y + z - 1)
      BY <2>1 DEF Carries
    <2>4. IsList(u[c], n + 1) /\ u[c][n + 1] = Message(sec, x)
          /\ \A m \in 1..n : u[c][m] = w[c][m]
      BY <1>6, <2>3 DEF Longer
    <2>5. y + (n + 1) - 1 = x
      BY <1>5
    <2>6. ASSUME NEW z \in 1..(n + 1)
          PROVE  u[c][z] = Message(sec, y + z - 1)
      <3>1. z = n + 1 \/ z \in 1..n
        OBVIOUS
      <3> QED
        BY <2>3, <2>4, <2>5, <3>1
    <2> QED
      BY <2>2, <2>4, <2>6 DEF Carries
  <1>7. ASSUME NEW c \in Wire, c # ChanAt(x)
        PROVE  Carries(sec, x + 1, y, c, u[c])
    <2>1. InFlight(x, y, c) = 0 /\ InFlight(x + 1, y, c) = 0 /\ u[c] = w[c]
      BY <1>2, <1>7 DEF InFlight
    <2> QED
      BY <2>1 DEF Carries
  <1>8. ASSUME NEW c \in Wire
        PROVE  Carries(sec, y, x + 1, c, v[c])
    <2>1. InFlight(y, x, c) = 0 /\ InFlight(y, x + 1, c) = 0
      BY <1>1 DEF InFlight
    <2> QED
      BY <2>1 DEF Carries
  <1> QED
    BY <1>4, <1>6, <1>7, <1>8

\* Who receives is behind, and finds the message of its place.
LEMMA FlowHead ==
  ASSUME NEW sec, NEW x \in Nat, NEW y \in Nat, NEW w,
         Carries(sec, x, y, ChanAt(y), w), w # <<>>
  PROVE  y < x /\ w[1] = Message(sec, y)
  <1>1. y < x
    <2>1. ASSUME ~(y < x)
          PROVE  FALSE
      <3>1. InFlight(x, y, ChanAt(y)) = 0
        BY <2>1 DEF InFlight
      <3>2. IsList(w, 0)
        BY <3>1 DEF Carries
      <3> QED
        BY <3>2, EmptyList
    <2> QED
      BY <2>1
  <1>2. PICK n \in Nat : n = x - y
    BY <1>1
  <1>3. n > 0 /\ x = y + n
    BY <1>1, <1>2
  <1>4. IsList(w, n) /\ \A z \in 1..n : w[z] = Message(sec, y + z - 1)
    <2>1. InFlight(x, y, ChanAt(y)) = n
      BY <1>1, <1>2 DEF InFlight
    <2> QED
      BY <2>1 DEF Carries
  <1>5. w[1] = Message(sec, y)
    <2>1. 1 \in 1..n /\ y + 1 - 1 = y
      BY <1>3
    <2> QED
      BY <1>4, <2>1
  <1> QED
    BY <1>1, <1>5

\* What p and q, at x and y, have under way: w to q, v to p.
Flow(sec, p, q, x, y, w, v) ==
  /\ Ahead(p, x, y) /\ Ahead(q, y, x)
  /\ \A c \in Wire : Carries(sec, x, y, c, w[c]) /\ Carries(sec, y, x, c, v[c])
Taken(u, w, c) ==
  /\ c \in Wire /\ w[c] # <<>> /\ Shorter(u[c], w[c])
  /\ \A d \in Wire : d # c => u[d] = w[d]

LEMMA FlowRecv ==
  ASSUME SetupAssumption, NEW sec, NEW p \in Party, NEW x \in Nat, NEW y \in Nat, y < End,
         By(y) = Peer(p), NEW w, NEW u, NEW v, Flow(sec, Peer(p), p, x, y, w, v),
         Taken(u, w, ChanAt(y))
  PROVE  Flow(sec, Peer(p), p, x, y + 1, u, v)
  <1>0. /\ Ahead(Peer(p), x, y) /\ Ahead(p, y, x)
        /\ \A c \in Wire : Carries(sec, x, y, c, w[c]) /\ Carries(sec, y, x, c, v[c])
        /\ ChanAt(y) \in Wire /\ w[ChanAt(y)] # <<>> /\ Shorter(u[ChanAt(y)], w[ChanAt(y)])
        /\ \A c \in Wire : c # ChanAt(y) => u[c] = w[c]
    BY DEF Flow, Taken
  <1>1. y < x
    BY <1>0, FlowHead
  <1>2. PICK n \in Nat : n = x - y
    BY <1>1
  <1>3. n > 0 /\ x = y + n
    BY <1>1, <1>2
  <1>4. IsList(w[ChanAt(y)], n) /\ \A z \in 1..n : w[ChanAt(y)][z] = Message(sec, y + z - 1)
    <2>1. InFlight(x, y, ChanAt(y)) = n
      BY <1>1, <1>2 DEF InFlight
    <2> QED
      BY <1>0, <2>1 DEF Carries
  <1>6. y + 1 < x => ChanAt(y + 1) = ChanAt(y)
    <2>1. y + 1 < x => y + 1 \in y..(x - 1)
      OBVIOUS
    <2> QED
      BY <1>0, <2>1 DEF Ahead
  <1>7. ASSUME NEW z \in (y + 1)..(x - 1)
        PROVE  By(z) = Peer(p) /\ ChanAt(z) = ChanAt(y + 1)
    <2>1. z \in y..(x - 1) /\ y + 1 < x
      BY <1>7
    <2> QED
      BY <1>0, <1>6, <2>1 DEF Ahead
  <1>8. Ahead(Peer(p), x, y + 1) /\ Ahead(p, y + 1, x)
    BY <1>1, <1>7 DEF Ahead
  <1>9. ASSUME NEW c \in Wire, c = ChanAt(y)
        PROVE  Carries(sec, x, y + 1, c, u[c])
    <2>0. y + 1 < x => x - (y + 1) = n - 1 /\ ChanAt(y + 1) = c
      BY <1>2, <1>6, <1>9
    <2>1. InFlight(x, y + 1, c) = n - 1
      <3>1. CASE y + 1 < x
        BY <2>0, <3>1 DEF InFlight
      <3>2. CASE ~(y + 1 < x)
        <4>1. n - 1 = 0
          BY <1>3, <3>2
        <4> QED
          BY <3>2, <4>1 DEF InFlight
      <3> QED
        BY <3>1, <3>2
    <2>2. IsList(u[c], n - 1) /\ \A m \in 1..(n - 1) : u[c][m] = w[c][m + 1]
      BY <1>0, <1>3, <1>4, <1>9 DEF Shorter
    <2>3. ASSUME NEW z \in 1..(n - 1)
          PROVE  u[c][z] = Message(sec, (y + 1) + z - 1)
      <3>1. z + 1 \in 1..n /\ y + (z + 1) - 1 = (y + 1) + z - 1
        OBVIOUS
      <3> QED
        BY <1>4, <1>9, <2>2, <3>1
    <2> QED
      BY <2>1, <2>2, <2>3 DEF Carries
  <1>10. ASSUME NEW c \in Wire, c # ChanAt(y)
         PROVE  Carries(sec, x, y + 1, c, u[c])
    <2>1. InFlight(x, y, c) = 0 /\ InFlight(x, y + 1, c) = 0 /\ u[c] = w[c]
      BY <1>0, <1>6, <1>10 DEF InFlight
    <2> QED
      BY <1>0, <2>1 DEF Carries
  <1>11. ASSUME NEW c \in Wire
         PROVE  Carries(sec, y + 1, x, c, v[c])
    <2>1. InFlight(y, x, c) = 0 /\ InFlight(y + 1, x, c) = 0
      BY <1>1 DEF InFlight
    <2> QED
      BY <1>0, <2>1 DEF Carries
  <1> QED
    BY <1>8, <1>9, <1>10, <1>11 DEF Flow

\* What has not been said yet may still be chosen.
LEMMA FlowSecret ==
  ASSUME NEW sec, NEW sec2, NEW x \in Nat, NEW y \in Nat, NEW c, NEW w,
         Carries(sec, x, y, c, w),
         \A z \in y..(x - 1) : Message(sec2, z) = Message(sec, z)
  PROVE  Carries(sec2, x, y, c, w)
  <1>1. PICK n : n = InFlight(x, y, c)
    OBVIOUS
  <1>2. n \in Nat /\ (n > 0 => n = x - y)
    BY <1>1 DEF InFlight
  <1>3. IsList(w, n) /\ \A z \in 1..n : w[z] = Message(sec, y + z - 1)
    BY <1>1 DEF Carries
  <1>4. ASSUME NEW z \in 1..n
        PROVE  w[z] = Message(sec2, y + z - 1)
    <2>1. y + z - 1 \in y..(x - 1)
      BY <1>2
    <2> QED
      BY <1>3, <2>1
  <1> QED
    BY <1>1, <1>3, <1>4 DEF Carries

------------------------------------------------------------------------------
(* The group.                                                              *)

LEMMA ModFacts ==
  ASSUME NEW x \in Int, NEW d \in Nat, d > 0
  PROVE  \E q \in Int, r \in Int : r = x % d /\ r >= 0 /\ r < d /\ x = d * q + r
  <1>1. PICK q \in Int, r \in Int : q = x \div d /\ r = x % d /\ x = d * q + r
    OBVIOUS
  <1>2. r >= 0 /\ r < d
    BY <1>1
  <1> QED
    BY <1>1, <1>2

Congruent(x, y, d) == \E t \in Int : x = y + d * t

LEMMA ModShift ==
  ASSUME NEW x \in Int, NEW y \in Int, NEW d \in Nat, d > 0, Congruent(x, y, d)
  PROVE  x % d = y % d
  <1>0. PICK t \in Int : x = y + d * t
    BY DEF Congruent
  <1>1. PICK q \in Int, r \in Int : r = x % d /\ r >= 0 /\ r < d /\ x = d * q + r
    BY ModFacts
  <1>2. PICK p \in Int, s \in Int : s = y % d /\ s >= 0 /\ s < d /\ y = d * p + s
    BY ModFacts
  <1>3. PICK m \in Int : m = q - p - t
    OBVIOUS
  <1>4. q = m + p + t
    BY <1>3
  <1>5. d * q = d * m + d * p + d * t
    BY <1>4
  <1>6. d * m = s - r
    BY <1>0, <1>1, <1>2, <1>5
  <1>7. m = 0
    <2>1. CASE m >= 1
      <3>1. d * m >= d
        BY <2>1
      <3> QED
        BY <1>1, <1>2, <1>6, <3>1
    <2>2. CASE m <= -1
      <3>1. d * m <= -d
        BY <2>2
      <3> QED
        BY <1>1, <1>2, <1>6, <3>1
    <2> QED
      BY <2>1, <2>2
  <1>8. s = r
    BY <1>6, <1>7
  <1> QED
    BY <1>1, <1>2, <1>8

\* Who knows k for a public key d - k masks as who knows d and r.
Mask1(r, d, k, O) == ((r * d) - ((((d - k) % O) * r) % O)) % O

LEMMA SameMask ==
  ASSUME NEW O \in Nat, O > 0, NEW r \in Nat, NEW d \in Nat, NEW k \in Nat
  PROVE  Mask1(r, d, k, O) = (r * k) % O
  <1>0. PICK e \in Int : e = d - k
    OBVIOUS
  <1>01. PICK q1 \in Int, m1 \in Int : m1 = e % O /\ e = O * q1 + m1
    BY ModFacts
  <1>1. m1 = (d - k) % O /\ d - k = O * q1 + m1
    BY <1>0, <1>01
  <1>2. PICK a \in Int : a = m1 * r
    OBVIOUS
  <1>3. PICK q2 \in Int, m2 \in Int : m2 = a % O /\ a = O * q2 + m2
    BY ModFacts
  <1>4. PICK t \in Int : t = q1 * r + q2
    OBVIOUS
  <1>5. r * d - m2 = r * k + O * t
    <2>1. d = k + O * q1 + m1
      BY <1>1
    <2>2. r * d = r * k + r * (O * q1) + r * m1
      BY <2>1
    <2>3. r * m1 = a
      BY <1>2
    <2>4. O * t = O * (q1 * r) + O * q2
      BY <1>4
    <2>5. O * (q1 * r) = r * (O * q1)
      OBVIOUS
    <2> QED
      BY <1>3, <2>2, <2>3, <2>4, <2>5
  <1>6. PICK x \in Int, y \in Int : x = r * d - m2 /\ y = r * k
    OBVIOUS
  <1>7. Congruent(x, y, O)
    BY <1>5, <1>6 DEF Congruent
  <1>8. x % O = y % O
    BY <1>7, ModShift
  <1> QED
    BY <1>1, <1>2, <1>3, <1>6, <1>8 DEF Mask1

------------------------------------------------------------------------------
(* What the parties draw and have.                                         *)

LEMMA SecretFacts ==
  ASSUME SetupAssumption, NEW t \in Secrets
  PROVE  /\ t.d \in Nat /\ t.d \in Exponents /\ t.r \in [Index -> Exponents]
         /\ t.k \in [Index -> Exponents] /\ t.s \in [Index -> {0, 1}]
         /\ \A n \in Index : t.r[n] \in Nat /\ t.k[n] \in Nat /\ t.s[n] \in {0, 1}
  <1>1. Exponents \subseteq Nat
    BY DEF SetupAssumption
  <1> QED
    BY <1>1 DEF Secrets

\* The receiver opens the key its bit names.
LEMMA Opens ==
  ASSUME SetupAssumption, NEW t \in Secrets, NEW ot, NEW n \in Index
  PROVE  Unmask(Masked(t, ot, n)[t.s[n] + 1], (t.r[n] * t.k[n]) % Order) = Key(ot, n, t.s[n])
  <1>1. PICK d \in Nat, r \in Nat, k \in Nat, O \in Nat :
          d = t.d /\ r = t.r[n] /\ k = t.k[n] /\ O = Order /\ O > 0
    BY SecretFacts, Sizes
  <1>2. CASE t.s[n] = 0
    <2>1. Pk(t, n) = k
      BY <1>1, <1>2 DEF Pk, PublicKey
    <2>2. k * r = r * k
      OBVIOUS
    <2>3. Mask0(t, n) = (r * k) % O
      BY <1>1, <2>1, <2>2 DEF Mask0
    <2>4. Masked(t, ot, n)[t.s[n] + 1] = [kdf |-> Mask0(t, n), block |-> Key(ot, n, 0)]
      BY <1>2 DEF Masked
    <2> QED
      BY <1>1, <1>2, <2>3, <2>4 DEF Unmask
  <1>3. CASE t.s[n] = 1
    <2>1. Mask0(t, n) = (((d - k) % O) * r) % O
      BY <1>1, <1>3 DEF Pk, PublicKey, Mask0
    <2>2. (t.r[n] * t.d - Mask0(t, n)) % Order = (r * k) % O
      <3>0. O \in Nat /\ O > 0 /\ r \in Nat /\ d \in Nat /\ k \in Nat
        BY <1>1
      <3>1. Mask1(r, d, k, O) = (r * k) % O
        BY <3>0, SameMask, Zenon
      <3> QED
        BY <1>1, <2>1, <3>1 DEF Mask1
    <2>3. Masked(t, ot, n)[t.s[n] + 1]
            = [kdf |-> (t.r[n] * t.d - Mask0(t, n)) % Order, block |-> Key(ot, n, 1)]
      BY <1>3 DEF Masked
    <2> QED
      BY <1>1, <1>3, <2>2, <2>3 DEF Unmask
  <1> QED
    BY <1>2, <1>3, SecretFacts

SenderGains(t) ==
  /\ [role |-> "send", d |-> t.d, r |-> t.r, pk |-> [n \in Index |-> 0]] = SenderHas(t, 1)
  /\ \A n \in Index :
       [SenderHas(t, n) EXCEPT !.pk = [@ EXCEPT ![n] = Pk(t, n)]] = SenderHas(t, n + 1)
  /\ \A o \in Nat : o > Lambda => SenderHas(t, o + 1) = SenderHas(t, o)
ReceiverGains(t, ot) ==
  /\ [role |-> "recv", C |-> t.d, k |-> t.k, s |-> t.s,
      gr |-> [n \in Index |-> 0], data |-> [n \in Index |-> Garbage]]
       = ReceiverHas(t, ot, 1)
  /\ \A n \in Index :
       /\ ReceiverHas(t, ot, n + 1) = ReceiverHas(t, ot, n)
       /\ [ReceiverHas(t, ot, Lambda + n) EXCEPT
             !.gr = [@ EXCEPT ![n] = (t.r[n] * t.k[n]) % Order]]
            = ReceiverHas(t, ot, Lambda + n + 1)
       /\ [ReceiverHas(t, ot, 2 * Lambda + n) EXCEPT
             !.data = [@ EXCEPT ![n] = Key(ot, n, t.s[n])]]
            = ReceiverHas(t, ot, 2 * Lambda + n + 1)
  /\ ReceiverHas(t, ot, 3 * Lambda + 1).data = [n \in Index |-> Key(ot, n, t.s[n])]

LEMMA Sending ==
  ASSUME SetupAssumption, NEW t
  PROVE  SenderGains(t)
  <1>0. Index = 1..Lambda /\ Lambda \in Nat
    BY Sizes DEF Index
  <1>1. [role |-> "send", d |-> t.d, r |-> t.r, pk |-> [n \in Index |-> 0]] = SenderHas(t, 1)
    BY <1>0 DEF SenderHas
  <1>2. ASSUME NEW n \in Index
        PROVE  [SenderHas(t, n) EXCEPT !.pk = [@ EXCEPT ![n] = Pk(t, n)]] = SenderHas(t, n + 1)
    <2> DEFINE f(o) == [m \in Index |-> IF m < o THEN Pk(t, m) ELSE 0]
    <2>1. [f(n) EXCEPT ![n] = Pk(t, n)] = f(n + 1)
      <3>1. ASSUME NEW m \in Index
            PROVE  [f(n) EXCEPT ![n] = Pk(t, n)][m] = f(n + 1)[m]
        <4>1. m = n \/ (m # n /\ (m < n <=> m < n + 1))
          BY <1>0
        <4>2. n < n + 1
          BY <1>0
        <4> QED
          BY <4>1, <4>2
      <3> QED
        BY <3>1
    <2> HIDE DEF f
    <2>2. SenderHas(t, n) = [role |-> "send", d |-> t.d, r |-> t.r, pk |-> f(n)]
          /\ SenderHas(t, n + 1) = [role |-> "send", d |-> t.d, r |-> t.r, pk |-> f(n + 1)]
      BY DEF SenderHas, f
    <2> QED
      BY <2>1, <2>2
  <1>3. ASSUME NEW o \in Nat, o > Lambda
        PROVE  SenderHas(t, o + 1) = SenderHas(t, o)
    <2>1. \A n \in Index : n < o /\ n < o + 1
      BY <1>0, <1>3
    <2> QED
      BY <2>1 DEF SenderHas
  <1> QED
    BY <1>1, <1>2, <1>3 DEF SenderGains

LEMMA Receiving ==
  ASSUME SetupAssumption, NEW t, NEW ot
  PROVE  ReceiverGains(t, ot)
  <1>0. Index = 1..Lambda /\ Lambda \in Nat
    BY Sizes DEF Index
  <1> DEFINE g(o) == [n \in Index |-> IF Lambda + n < o THEN (t.r[n] * t.k[n]) % Order ELSE 0]
             h(o) == [n \in Index |-> IF 2 * Lambda + n < o THEN Key(ot, n, t.s[n]) ELSE Garbage]
             Rec(a, b) == [role |-> "recv", C |-> t.d, k |-> t.k, s |-> t.s, gr |-> a, data |-> b]
  <1>1. \A o : ReceiverHas(t, ot, o) = Rec(g(o), h(o))
    BY DEF ReceiverHas
  <1>2. [n \in Index |-> 0] = g(1) /\ [n \in Index |-> Garbage] = h(1)
    BY <1>0
  <1>3. ASSUME NEW n \in Index
        PROVE  /\ g(n + 1) = g(n) /\ h(n + 1) = h(n)
               /\ [g(Lambda + n) EXCEPT ![n] = (t.r[n] * t.k[n]) % Order] = g(Lambda + n + 1)
               /\ h(Lambda + n + 1) = h(Lambda + n)
               /\ g(2 * Lambda + n + 1) = g(2 * Lambda + n)
               /\ [h(2 * Lambda + n) EXCEPT ![n] = Key(ot, n, t.s[n])] = h(2 * Lambda + n + 1)
    <2>1. \A m \in Index : ~(Lambda + m < n) /\ ~(Lambda + m < n + 1)
      BY <1>0
    <2>2. \A m \in Index : ~(2 * Lambda + m < n) /\ ~(2 * Lambda + m < n + 1)
                           /\ ~(2 * Lambda + m < Lambda + n) /\ ~(2 * Lambda + m < Lambda + n + 1)
      BY <1>0
    <2>3. \A m \in Index : Lambda + m < 2 * Lambda + n /\ Lambda + m < 2 * Lambda + n + 1
      BY <1>0
    <2>4. g(n + 1) = g(n) /\ h(n + 1) = h(n) /\ h(Lambda + n + 1) = h(Lambda + n)
          /\ g(2 * Lambda + n + 1) = g(2 * Lambda + n)
      BY <2>1, <2>2, <2>3
    <2>5. [g(Lambda + n) EXCEPT ![n] = (t.r[n] * t.k[n]) % Order] = g(Lambda + n + 1)
      <3> DEFINE e == [g(Lambda + n) EXCEPT ![n] = (t.r[n] * t.k[n]) % Order]
      <3>1. ASSUME NEW m \in Index
            PROVE  e[m] = g(Lambda + n + 1)[m]
        <4>1. m = n \/ (m # n /\ (Lambda + m < Lambda + n <=> Lambda + m < Lambda + n + 1))
          BY <1>0
        <4>2. Lambda + n < Lambda + n + 1
          BY <1>0
        <4> QED
          BY <4>1, <4>2
      <3> QED
        BY <3>1
    <2>6. [h(2 * Lambda + n) EXCEPT ![n] = Key(ot, n, t.s[n])] = h(2 * Lambda + n + 1)
      <3> DEFINE e == [h(2 * Lambda + n) EXCEPT ![n] = Key(ot, n, t.s[n])]
      <3>1. ASSUME NEW m \in Index
            PROVE  e[m] = h(2 * Lambda + n + 1)[m]
        <4>1. m = n \/ (m # n /\ (2 * Lambda + m < 2 * Lambda + n
                                   <=> 2 * Lambda + m < 2 * Lambda + n + 1))
          BY <1>0
        <4>2. 2 * Lambda + n < 2 * Lambda + n + 1
          BY <1>0
        <4> QED
          BY <4>1, <4>2
      <3> QED
        BY <3>1
    <2> QED
      BY <2>4, <2>5, <2>6
  <1>4. h(3 * Lambda + 1) = [n \in Index |-> Key(ot, n, t.s[n])]
    <2>1. \A m \in Index : 2 * Lambda + m < 3 * Lambda + 1
      BY <1>0
    <2> QED
      BY <2>1
  <1> HIDE DEF g, h
  <1>5. ASSUME NEW n \in Index
        PROVE  /\ ReceiverHas(t, ot, n + 1) = ReceiverHas(t, ot, n)
               /\ [ReceiverHas(t, ot, Lambda + n) EXCEPT
                     !.gr = [@ EXCEPT ![n] = (t.r[n] * t.k[n]) % Order]]
                    = ReceiverHas(t, ot, Lambda + n + 1)
               /\ [ReceiverHas(t, ot, 2 * Lambda + n) EXCEPT
                     !.data = [@ EXCEPT ![n] = Key(ot, n, t.s[n])]]
                    = ReceiverHas(t, ot, 2 * Lambda + n + 1)
    <2>1. ReceiverHas(t, ot, n + 1) = ReceiverHas(t, ot, n)
      BY <1>1, <1>3, Zenon
    <2>2. [Rec(g(Lambda + n), h(Lambda + n)) EXCEPT
             !.gr = [@ EXCEPT ![n] = (t.r[n] * t.k[n]) % Order]]
            = Rec([g(Lambda + n) EXCEPT ![n] = (t.r[n] * t.k[n]) % Order], h(Lambda + n))
      OBVIOUS
    <2>3. [Rec(g(2 * Lambda + n), h(2 * Lambda + n)) EXCEPT
             !.data = [@ EXCEPT ![n] = Key(ot, n, t.s[n])]]
            = Rec(g(2 * Lambda + n), [h(2 * Lambda + n) EXCEPT ![n] = Key(ot, n, t.s[n])])
      OBVIOUS
    <2> HIDE DEF Rec
    <2>4. [ReceiverHas(t, ot, Lambda + n) EXCEPT
             !.gr = [@ EXCEPT ![n] = (t.r[n] * t.k[n]) % Order]]
            = ReceiverHas(t, ot, Lambda + n + 1)
      <3>1. /\ ReceiverHas(t, ot, Lambda + n) = Rec(g(Lambda + n), h(Lambda + n))
            /\ ReceiverHas(t, ot, Lambda + n + 1) = Rec(g(Lambda + n + 1), h(Lambda + n + 1))
        BY <1>1, Zenon
      <3> QED
        BY <1>3, <2>2, <3>1
    <2>5. [ReceiverHas(t, ot, 2 * Lambda + n) EXCEPT
             !.data = [@ EXCEPT ![n] = Key(ot, n, t.s[n])]]
            = ReceiverHas(t, ot, 2 * Lambda + n + 1)
      <3>1. /\ ReceiverHas(t, ot, 2 * Lambda + n) = Rec(g(2 * Lambda + n), h(2 * Lambda + n))
            /\ ReceiverHas(t, ot, 2 * Lambda + n + 1)
                 = Rec(g(2 * Lambda + n + 1), h(2 * Lambda + n + 1))
        BY <1>1, Zenon
      <3> QED
        BY <1>3, <2>3, <3>1
    <2> QED
      BY <2>1, <2>4, <2>5
  <1>6. ReceiverHas(t, ot, 3 * Lambda + 1).data = [n \in Index |-> Key(ot, n, t.s[n])]
    BY <1>1, <1>4
  <1>7. [role |-> "recv", C |-> t.d, k |-> t.k, s |-> t.s,
         gr |-> [n \in Index |-> 0], data |-> [n \in Index |-> Garbage]]
          = ReceiverHas(t, ot, 1)
    BY <1>1, <1>2
  <1> QED
    BY <1>5, <1>6, <1>7 DEF ReceiverGains

------------------------------------------------------------------------------
(* NetIO.                                                                  *)

LEMMA SentAtOnce ==
  ASSUME NEW w, NEW e, NEW u, IsJoin(u, w, <<>> \o <<e>>)
  PROVE  Longer(u, w, e)
  <1>1. PICK t : t = <<e>>
    OBVIOUS
  <1>2. IsList(t, 1) /\ t[1] = e
    <2>1. t \in Seq({e}) /\ Len(t) = 1 /\ t[1] = e
      BY <1>1
    <2> QED
      BY <2>1, SeqIsList
  <1>3. PICK v : IsJoin(v, <<>>, t)
    BY DEF IsJoin
  <1>4. IsList(<<>>, 0)
    BY EmptyList
  <1>5. IsList(v, 1) /\ v[1] = e
    <2>1. IsList(v, 0 + 1) /\ \A m \in 1..1 : v[0 + m] = t[m]
      BY <1>2, <1>3, <1>4, JoinedList
    <2>2. 0 + 1 = 1 /\ 1 \in 1..1
      OBVIOUS
    <2> QED
      BY <1>2, <2>1, <2>2
  <1>6. IsJoin(u, w, v)
    BY <1>1, <1>3, Zenon DEF IsJoin
  <1>7. ASSUME NEW n \in Nat, IsList(w, n)
        PROVE  IsList(u, n + 1) /\ u[n + 1] = e /\ \A m \in 1..n : u[m] = w[m]
    <2>1. IsList(u, n + 1) /\ (\A m \in 1..n : u[m] = w[m]) /\ \A m \in 1..1 : u[n + m] = v[m]
      BY <1>5, <1>6, <1>7, JoinedList
    <2> QED
      BY <1>5, <2>1
  <1> QED
    BY <1>7 DEF Longer

LEMMA NothingAdded ==
  ASSUME NEW w, NEW n \in Nat, IsList(w, n), NEW u, IsJoin(u, w, <<>>)
  PROVE  u = w
  <1>1. IsList(<<>>, 0)
    BY EmptyList
  <1>2. IsList(u, n + 0) /\ \A m \in 1..n : u[m] = w[m]
    BY <1>1, JoinedList
  <1>3. n + 0 = n
    OBVIOUS
  <1> QED
    BY <1>2, <1>3, Zenon DEF IsList

LEMMA TailShorter ==
  ASSUME NEW w, NEW u, IsTail(u, w)
  PROVE  Shorter(u, w)
  <1>1. ASSUME NEW n \in Nat, IsList(w, n), n > 0
        PROVE  IsList(u, n - 1) /\ \A m \in 1..(n - 1) : u[m] = w[m + 1]
    BY <1>1, TailOfList
  <1> QED
    BY <1>1 DEF Shorter

LEMMA Lists ==
  ASSUME BufferInv, NEW p \in Party, NEW c \in Channel
  PROVE  /\ \E n \in Nat : IsList(inbox[p][c], n)
         /\ inbox[p][c] # <<>> => \E n \in Nat : n > 0 /\ IsList(inbox[p][c], n)
  <1>1. PICK n \in Nat : IsList(inbox[p][c], n)
    BY DEF BufferInv
  <1>2. n = 0 => inbox[p][c] = <<>>
    BY <1>1, EmptyList
  <1> QED
    BY <1>1, <1>2

LEMMA ChannelFacts ==
  /\ Wire \subseteq Channel /\ "io_GC" \in Channel /\ "io_GC" \notin Wire
  /\ \A c \in Channel : c \in Wire \/ c = "io_GC"
  /\ \A c \in Wire : ~FullBuffer(c)
  /\ FullBuffer("io_GC")
  BY DEF Wire, Channel, FullBuffer

\* g is f with v at a and b.
IsPut(g, f, a, b, v) == g = [f EXCEPT ![a][b] = v]
IsGrid(f) == f = [r \in Party |-> [d \in Channel |-> f[r][d]]]

LEMMA PutFacts ==
  ASSUME NEW f, IsGrid(f), NEW a \in Party, NEW b \in Channel, NEW v, NEW g, IsPut(g, f, a, b, v)
  PROVE  /\ IsGrid(g) /\ g[a][b] = v
         /\ \A r \in Party : \A d \in Channel : r # a \/ d # b => g[r][d] = f[r][d]
  BY DEF IsGrid, IsPut

\* What is sent on io and io_rev is under way at once.
LEMMA SendNet ==
  ASSUME BufferInv, NEW p \in Party, NEW c \in Wire, NEW e, NEW fl,
         Send(p, c, <<e>>, fl)
  PROVE  /\ BufferInv' /\ reading' = reading
         /\ Longer(inbox'[Peer(p)][c], inbox[Peer(p)][c], e)
         /\ \A r \in Party : \A d \in Channel :
              r # Peer(p) \/ d # c => inbox'[r][d] = inbox[r][d]
         /\ \A r \in Party : stream'[r]["io_GC"] = stream[r]["io_GC"]
  <1> DEFINE q == Peer(p)
             s == [out |-> <<>>, has_sent |-> TRUE, last_call |-> "Send",
                   num_rounds |-> Rounds(stream[p][c], "Send")]
  <1>1. q \in Party /\ c \in Channel /\ c # "io_GC" /\ ~FullBuffer(c)
    BY PartyFacts, ChannelFacts
  <1>2. stream[p][c].out = <<>>
    BY <1>1 DEF BufferInv
  <1>20. PICK u : u = inbox[q][c] \o (<<>> \o <<e>>)
    OBVIOUS
  <1>3. /\ stream' = [stream EXCEPT ![p][c] = s]
        /\ inbox' = [inbox EXCEPT ![q][c] = u]
        /\ reading' = reading
    BY <1>1, <1>2, <1>20 DEF Send
  <1>4. Longer(u, inbox[q][c], e)
    <2>1. IsJoin(u, inbox[q][c], <<>> \o <<e>>)
      BY <1>20, Zenon DEF IsJoin
    <2> QED
      BY <2>1, SentAtOnce
  <1>5. \E n \in Nat : IsList(u, n)
    <2>1. PICK n \in Nat : IsList(inbox[q][c], n)
      BY <1>1, Lists
    <2>2. IsList(u, n + 1) /\ n + 1 \in Nat
      BY <1>4, <2>1 DEF Longer
    <2> QED
      BY <2>2
  <1>6. s.out = <<>> /\ s.has_sent \in BOOLEAN
    OBVIOUS
  <1> HIDE DEF s, q
  <1>7. /\ inbox'[q][c] = u
        /\ \A r \in Party : \A d \in Channel : r # q \/ d # c => inbox'[r][d] = inbox[r][d]
        /\ inbox' = [r \in Party |-> [d \in Channel |-> inbox'[r][d]]]
    <2>1. IsPut(inbox', inbox, q, c, u) /\ IsGrid(inbox)
      BY <1>3 DEF BufferInv, IsPut, IsGrid
    <2>2. IsGrid(inbox') /\ inbox'[q][c] = u
          /\ \A r \in Party : \A d \in Channel : r # q \/ d # c => inbox'[r][d] = inbox[r][d]
      BY <1>1, <2>1, PutFacts
    <2> QED
      BY <2>2 DEF IsGrid
  <1>8. /\ stream'[p][c] = s
        /\ \A r \in Party : \A d \in Channel : r # p \/ d # c => stream'[r][d] = stream[r][d]
        /\ stream' = [r \in Party |-> [d \in Channel |-> stream'[r][d]]]
    <2>1. IsPut(stream', stream, p, c, s) /\ IsGrid(stream)
      BY <1>3 DEF BufferInv, IsPut, IsGrid
    <2>2. IsGrid(stream') /\ stream'[p][c] = s
          /\ \A r \in Party : \A d \in Channel : r # p \/ d # c => stream'[r][d] = stream[r][d]
      BY <1>1, <2>1, PutFacts
    <2> QED
      BY <2>2 DEF IsGrid
  <1>9. ASSUME NEW r \in Party, NEW d \in Channel
        PROVE  /\ stream'[r][d].has_sent \in BOOLEAN
               /\ d \in Wire => stream'[r][d].out = <<>>
               /\ \E n \in Nat : IsList(inbox'[r][d], n)
    <2>1. CASE r = p /\ d = c
      <3>1. \E n \in Nat : IsList(inbox[r][d], n)
        BY Lists
      <3> QED
        BY <1>5, <1>6, <1>7, <1>8, <2>1, <3>1
    <2>2. CASE ~(r = p /\ d = c)
      <3>1. stream'[r][d] = stream[r][d]
        BY <1>8, <2>2
      <3>2. \E n \in Nat : IsList(inbox'[r][d], n)
        BY <1>5, <1>7, Lists
      <3> QED
        BY <3>1, <3>2 DEF BufferInv
    <2> QED
      BY <2>1, <2>2
  <1>10. BufferInv'
    BY <1>7, <1>8, <1>9 DEF BufferInv
  <1>11. \A r \in Party : stream'[r]["io_GC"] = stream[r]["io_GC"]
    BY <1>1, <1>8, ChannelFacts
  <1> QED
    BY <1>3, <1>4, <1>7, <1>10, <1>11 DEF q

\* There is nothing to flush there.
LEMMA EnterNet ==
  ASSUME BufferInv, NEW p \in Party, NEW c \in Wire, EnterRecv(p, c)
  PROVE  /\ BufferInv' /\ ~reading[p] /\ reading' = [reading EXCEPT ![p] = TRUE]
         /\ \A r \in Party : \A d \in Channel : inbox'[r][d] = inbox[r][d]
         /\ \A r \in Party : stream'[r]["io_GC"] = stream[r]["io_GC"]
  <1> DEFINE q == Peer(p)
             s == [out |-> <<>>, has_sent |-> FALSE, last_call |-> "Recv",
                   num_rounds |-> Rounds(stream[p][c], "Recv")]
  <1>1. q \in Party /\ c \in Channel /\ c # "io_GC"
    BY PartyFacts, ChannelFacts
  <1>2. stream[p][c].out = <<>> /\ stream[p][c].has_sent \in BOOLEAN
    BY <1>1 DEF BufferInv
  <1>3. inbox[q][c] \o <<>> = inbox[q][c]
    <2>1. PICK n \in Nat : IsList(inbox[q][c], n)
      BY <1>1, Lists
    <2>2. PICK v : v = inbox[q][c] \o <<>>
      OBVIOUS
    <2>3. IsJoin(v, inbox[q][c], <<>>)
      BY <2>2, Zenon DEF IsJoin
    <2>4. v = inbox[q][c]
      BY <2>1, <2>3, NothingAdded
    <2> QED
      BY <2>2, <2>4
  <1>4. /\ ~reading[p] /\ reading' = [reading EXCEPT ![p] = TRUE]
        /\ stream' = [stream EXCEPT ![p][c] = s]
        /\ inbox' = [inbox EXCEPT ![q][c] = inbox[q][c]]
    <2>1. CASE stream[p][c].has_sent
      BY <1>2, <1>3, <2>1 DEF EnterRecv, FlushesBeforeRecv
    <2>2. CASE ~stream[p][c].has_sent
      BY <1>2, <2>2 DEF EnterRecv, FlushesBeforeRecv
    <2> QED
      BY <2>1, <2>2
  <1>40. stream' = [stream EXCEPT ![p][c] = s]
    BY <1>4
  <1>5. s.out = <<>> /\ s.has_sent \in BOOLEAN
    OBVIOUS
  <1> HIDE DEF s, q
  <1>6. /\ \A r \in Party : \A d \in Channel : inbox'[r][d] = inbox[r][d]
        /\ inbox' = [r \in Party |-> [d \in Channel |-> inbox'[r][d]]]
    BY <1>1, <1>4 DEF BufferInv
  <1>7. /\ stream'[p][c] = s
        /\ \A r \in Party : \A d \in Channel : r # p \/ d # c => stream'[r][d] = stream[r][d]
        /\ stream' = [r \in Party |-> [d \in Channel |-> stream'[r][d]]]
    <2>1. IsPut(stream', stream, p, c, s) /\ IsGrid(stream)
      BY <1>40 DEF BufferInv, IsPut, IsGrid
    <2>2. IsGrid(stream') /\ stream'[p][c] = s
          /\ \A r \in Party : \A d \in Channel : r # p \/ d # c => stream'[r][d] = stream[r][d]
      BY <1>1, <2>1, PutFacts
    <2> QED
      BY <2>2 DEF IsGrid
  <1>71. ASSUME NEW r \in Party, NEW d \in Channel
         PROVE  /\ stream'[r][d].has_sent \in BOOLEAN
                /\ d \in Wire => stream'[r][d].out = <<>>
                /\ \E n \in Nat : IsList(inbox'[r][d], n)
    <2>1. \E n \in Nat : IsList(inbox'[r][d], n)
      BY <1>6, Lists
    <2>2. CASE r = p /\ d = c
      BY <1>5, <1>7, <2>1, <2>2
    <2>3. CASE ~(r = p /\ d = c)
      <3>1. stream'[r][d] = stream[r][d]
        BY <1>7, <2>3
      <3> QED
        BY <2>1, <3>1 DEF BufferInv
    <2> QED
      BY <2>2, <2>3
  <1>8. BufferInv'
    BY <1>6, <1>7, <1>71 DEF BufferInv
  <1>9. \A r \in Party : stream'[r]["io_GC"] = stream[r]["io_GC"]
    BY <1>1, <1>7, ChannelFacts
  <1> QED
    BY <1>4, <1>6, <1>8, <1>9

LEMMA RecvNet ==
  ASSUME BufferInv, NEW p \in Party, NEW c \in Channel, inbox[p][c] # <<>>, EndRecv(p, c)
  PROVE  /\ BufferInv' /\ reading' = [reading EXCEPT ![p] = FALSE]
         /\ Shorter(inbox'[p][c], inbox[p][c])
         /\ \A r \in Party : \A d \in Channel :
              r # p \/ d # c => inbox'[r][d] = inbox[r][d]
         /\ stream' = stream
  <1>1. /\ reading' = [reading EXCEPT ![p] = FALSE] /\ stream' = stream
        /\ inbox' = [inbox EXCEPT ![p][c] = Tail(inbox[p][c])]
    BY DEF EndRecv
  <1>2. PICK u : u = Tail(inbox[p][c])
    OBVIOUS
  <1>3. inbox' = [inbox EXCEPT ![p][c] = u]
    BY <1>1, <1>2
  <1>4. Shorter(u, inbox[p][c])
    <2>1. IsTail(u, inbox[p][c])
      BY <1>2, Zenon DEF IsTail
    <2> QED
      BY <2>1, TailShorter
  <1>5. \E n \in Nat : IsList(u, n)
    <2>1. PICK n \in Nat : n > 0 /\ IsList(inbox[p][c], n)
      BY Lists
    <2>2. IsList(u, n - 1) /\ n - 1 \in Nat
      BY <1>4, <2>1 DEF Shorter
    <2> QED
      BY <2>2
  <1>6. /\ inbox'[p][c] = u
        /\ \A r \in Party : \A d \in Channel : r # p \/ d # c => inbox'[r][d] = inbox[r][d]
        /\ inbox' = [r \in Party |-> [d \in Channel |-> inbox'[r][d]]]
    BY <1>3 DEF BufferInv
  <1>7. ASSUME NEW r \in Party, NEW d \in Channel
        PROVE  /\ stream'[r][d].has_sent \in BOOLEAN
               /\ d \in Wire => stream'[r][d].out = <<>>
               /\ \E n \in Nat : IsList(inbox'[r][d], n)
    <2>1. \E n \in Nat : IsList(inbox'[r][d], n)
      BY <1>5, <1>6, Lists
    <2> QED
      BY <1>1, <2>1 DEF BufferInv
  <1>71. stream' = [r \in Party |-> [d \in Channel |-> stream'[r][d]]]
    BY <1>1 DEF BufferInv
  <1>8. BufferInv'
    BY <1>6, <1>7, <1>71 DEF BufferInv
  <1> QED
    BY <1>1, <1>4, <1>6, <1>8

------------------------------------------------------------------------------
(* Where a party is, and its next place.                                   *)

LEMMA Here ==
  ASSUME SetupAssumption, PlaceInv, NEW p \in Party
  PROVE  /\ job[p] \in 1..(J + 1) /\ Pos(p) \in Nat /\ Pos(p) <= End
         /\ Offset(phase[p], i[p]) \in 0..(3 * Lambda)
         /\ job[p] <= J =>
              /\ job[p] \in 1..J /\ Pos(p) < End
              /\ SetUpOf(Pos(p)) = job[p] /\ OffsetOf(Pos(p)) = Offset(phase[p], i[p])
              /\ PhaseAt(Offset(phase[p], i[p])) = phase[p]
              /\ IndexAt(Offset(phase[p], i[p])) = i[p]
         /\ job[p] = J + 1 => Pos(p) = End
         /\ (job[p] <= J <=> job[p] <= Len(SetUps(p))) /\ Len(SetUps(p)) = J
  <1>1. PICK j, ph, n : j = job[p] /\ ph = phase[p] /\ n = i[p]
    OBVIOUS
  <1>2. ValidPlace(j, ph, n)
    BY <1>1 DEF PlaceInv
  <1>3. j \in 1..(J + 1)
    BY <1>2 DEF ValidPlace
  <1>4. j <= J => j \in 1..J
    BY <1>3, Sizes
  <1>5. Where(j, ph, n) \in Nat /\ Where(j, ph, n) <= End
    BY <1>2, Places, Sizes
  <1> QED
    BY <1>1, <1>2, <1>3, <1>4, <1>5, Places, SetUpOrder DEF Pos

LEMMA InSetUpFacts ==
  ASSUME SetupAssumption, PlaceInv, NEW p \in Party, InSetUp(p)
  PROVE  /\ job[p] \in 1..J /\ Ot(p) = OtAt(job[p]) /\ Ot(p) \in Instance
         /\ SenderOf(Ot(p)) \in Party
         /\ Chan(p) \in Wire /\ ChanAt(Pos(p)) = Chan(p)
         /\ By(Pos(p)) = SentBy(Ot(p), Offset(phase[p], i[p]))
         /\ \A sec : Message(sec, Pos(p)) =
              [at |-> Place(p), v |-> Value(sec[job[p]], Ot(p), Offset(phase[p], i[p]))]
         /\ phase[p] \in BaseSteps /\ i[p] \in 1..Lambda
  <1>1. job[p] \in 1..J
    BY Here DEF InSetUp
  <1>2. Ot(p) = OtAt(job[p])
    BY <1>1, SetUpOrder DEF Ot
  <1>3. Ot(p) \in Instance /\ SenderOf(Ot(p)) \in Party /\ ChannelOf(Ot(p)) \in Wire
    BY <1>1, <1>2, Instances
  <1>4. job[p] <= J
    BY Here DEF InSetUp
  <1>5. /\ SetUpOf(Pos(p)) = job[p] /\ OffsetOf(Pos(p)) = Offset(phase[p], i[p])
        /\ PhaseAt(Offset(phase[p], i[p])) = phase[p]
        /\ IndexAt(Offset(phase[p], i[p])) = i[p]
    BY <1>4, Here
  <1>6. ChanAt(Pos(p)) = Chan(p) /\ Chan(p) \in Wire
        /\ By(Pos(p)) = SentBy(Ot(p), Offset(phase[p], i[p]))
    BY <1>2, <1>3, <1>5 DEF ChanAt, Chan, By
  <1>7. ASSUME NEW sec
        PROVE  Message(sec, Pos(p)) =
                 [at |-> Place(p), v |-> Value(sec[job[p]], Ot(p), Offset(phase[p], i[p]))]
    BY <1>2, <1>5 DEF Message, Said, Place
  <1>8. phase[p] \in BaseSteps /\ i[p] \in 1..Lambda
    BY <1>4 DEF PlaceInv, ValidPlace, Index
  <1> QED
    BY <1>1, <1>2, <1>3, <1>6, <1>7, <1>8

\* Whose turn it is.
LEMMA Turns ==
  ASSUME SetupAssumption, PlaceInv, NEW p \in Party
  PROVE  /\ \/ AsSender(p, "C") \/ AsSender(p, "gr") \/ AsSender(p, "m") \/ AsReceiver(p, "pk")
            => By(Pos(p)) = p /\ ~Receives(p) /\ ~SyncReceives(p)
         /\ \/ AsReceiver(p, "C") \/ AsReceiver(p, "gr") \/ AsReceiver(p, "m") \/ AsSender(p, "pk")
            => By(Pos(p)) = Peer(p) /\ ~SyncReceives(p)
         /\ Receives(p) => By(Pos(p)) = Peer(p)
  <1>1. ASSUME InSetUp(p)
        PROVE  /\ By(Pos(p)) = IF phase[p] = "pk" THEN SenderOf(Ot(p)) ELSE Peer(SenderOf(Ot(p)))
               /\ p # SenderOf(Ot(p)) => SenderOf(Ot(p)) = Peer(p) /\ Peer(SenderOf(Ot(p))) = p
               /\ ~SyncReceives(p)
    <2>1. By(Pos(p)) = SentBy(Ot(p), Offset(phase[p], i[p])) /\ SenderOf(Ot(p)) \in Party
          /\ phase[p] \in BaseSteps /\ i[p] \in 1..Lambda
      BY <1>1, InSetUpFacts
    <2>2. Offset(phase[p], i[p]) \in 1..Lambda <=> phase[p] = "pk"
      BY <2>1, Sizes DEF Offset, BaseSteps
    <2>3. ~SyncReceives(p)
      BY <2>1 DEF SyncReceives, BaseSteps
    <2> QED
      BY <2>1, <2>2, <2>3, PartyFacts DEF SentBy
  <1>2. ASSUME AsSender(p, "C") \/ AsSender(p, "gr") \/ AsSender(p, "m") \/ AsReceiver(p, "pk")
        PROVE  By(Pos(p)) = p /\ ~Receives(p) /\ ~SyncReceives(p)
    BY <1>1, <1>2 DEF AsSender, AsReceiver, At, IsBaseSender, Receives
  <1>3. ASSUME AsReceiver(p, "C") \/ AsReceiver(p, "gr") \/ AsReceiver(p, "m") \/ AsSender(p, "pk")
        PROVE  By(Pos(p)) = Peer(p) /\ ~SyncReceives(p)
    BY <1>1, <1>3 DEF AsSender, AsReceiver, At, IsBaseSender
  <1>4. ASSUME Receives(p)
        PROVE  By(Pos(p)) = Peer(p)
    BY <1>1, <1>4 DEF IsBaseSender, Receives
  <1> QED
    BY <1>2, <1>3, <1>4

\* A step from one message to the next.
Moves(p) ==
  \/ phase[p] = "C" /\ Goto(p, "pk") /\ job' = job
  \/ phase[p] = "pk" /\ LoopOr(p, "gr") /\ job' = job
  \/ phase[p] = "gr" /\ LoopOr(p, "m") /\ job' = job
  \/ phase[p] = "m" /\ i[p] < Lambda /\ LoopOr(p, "C") /\ job' = job
  \/ phase[p] = "m" /\ ~(i[p] < Lambda) /\ NextSetUp(p)
IsLast(p) == phase[p] = "m" /\ ~(i[p] < Lambda)

LEMMA Moved ==
  ASSUME SetupAssumption, PlaceInv, NEW p \in Party, InSetUp(p), Moves(p)
  PROVE  /\ job' = [r \in Party |-> job'[r]] /\ phase' = [r \in Party |-> phase'[r]]
         /\ i' = [r \in Party |-> i'[r]]
         /\ \A r \in Party : r # p => job'[r] = job[r] /\ phase'[r] = phase[r] /\ i'[r] = i[r]
         /\ ValidPlace(job'[p], phase'[p], i'[p])
         /\ Where(job'[p], phase'[p], i'[p]) = Pos(p) + 1
         /\ phase'[p] \in BaseSteps
         /\ ~IsLast(p) => job'[p] = job[p]
                          /\ Offset(phase'[p], i'[p]) = Offset(phase[p], i[p]) + 1
         /\ IsLast(p) => job'[p] = job[p] + 1 /\ Offset(phase'[p], i'[p]) = 0
  <1>1. PICK j, ph, n : j = job[p] /\ ph = phase[p] /\ n = i[p]
    OBVIOUS
  <1>2. ValidPlace(j, ph, n) /\ j \in 1..J /\ ph \in BaseSteps /\ n \in 1..Lambda
    BY <1>1, InSetUpFacts DEF PlaceInv
  <1>3. /\ job = [r \in Party |-> job[r]] /\ phase = [r \in Party |-> phase[r]]
        /\ i = [r \in Party |-> i[r]]
    BY DEF PlaceInv
  <1>4. \E j2, ph2, n2 :
          /\ job' = [job EXCEPT ![p] = j2] /\ phase' = [phase EXCEPT ![p] = ph2]
          /\ i' = [i EXCEPT ![p] = n2]
          /\ \/ ph # "C" /\ n < Lambda /\ j2 = j /\ ph2 = ph /\ n2 = n + 1
             \/ ph = "C" /\ j2 = j /\ ph2 = "pk" /\ n2 = 1
             \/ ph = "pk" /\ ~(n < Lambda) /\ j2 = j /\ ph2 = "gr" /\ n2 = 1
             \/ ph = "gr" /\ ~(n < Lambda) /\ j2 = j /\ ph2 = "m" /\ n2 = 1
             \/ ph = "m" /\ ~(n < Lambda) /\ j2 = j + 1 /\ ph2 = "C" /\ n2 = 1
    <2>1. /\ job = [job EXCEPT ![p] = j] /\ phase = [phase EXCEPT ![p] = ph]
      BY <1>1, <1>3
    <2>2. CASE phase[p] = "C" /\ Goto(p, "pk") /\ job' = job
      BY <1>1, <2>1, <2>2 DEF Goto
    <2>3. CASE n < Lambda /\ ph # "C" /\ i' = [i EXCEPT ![p] = @ + 1] /\ phase' = phase /\ job' = job
      BY <1>1, <2>1, <2>3
    <2>4. CASE phase[p] = "pk" /\ ~(n < Lambda) /\ Goto(p, "gr") /\ job' = job
      BY <1>1, <2>1, <2>4 DEF Goto
    <2>5. CASE phase[p] = "gr" /\ ~(n < Lambda) /\ Goto(p, "m") /\ job' = job
      BY <1>1, <2>1, <2>5 DEF Goto
    <2>6. CASE phase[p] = "m" /\ ~(n < Lambda) /\ NextSetUp(p)
      BY <1>1, <2>1, <2>6 DEF Goto, NextSetUp
    <2> QED
      BY <1>1, <2>2, <2>3, <2>4, <2>5, <2>6 DEF Moves, LoopOr
  <1>5. PICK j2, ph2, n2 :
          /\ job' = [job EXCEPT ![p] = j2] /\ phase' = [phase EXCEPT ![p] = ph2]
          /\ i' = [i EXCEPT ![p] = n2]
          /\ \/ ph # "C" /\ n < Lambda /\ j2 = j /\ ph2 = ph /\ n2 = n + 1
             \/ ph = "C" /\ j2 = j /\ ph2 = "pk" /\ n2 = 1
             \/ ph = "pk" /\ ~(n < Lambda) /\ j2 = j /\ ph2 = "gr" /\ n2 = 1
             \/ ph = "gr" /\ ~(n < Lambda) /\ j2 = j /\ ph2 = "m" /\ n2 = 1
             \/ ph = "m" /\ ~(n < Lambda) /\ j2 = j + 1 /\ ph2 = "C" /\ n2 = 1
    BY <1>4
  <1>6. /\ job'[p] = j2 /\ phase'[p] = ph2 /\ i'[p] = n2
        /\ \A r \in Party : r # p => job'[r] = job[r] /\ phase'[r] = phase[r] /\ i'[r] = i[r]
        /\ job' = [r \in Party |-> job'[r]] /\ phase' = [r \in Party |-> phase'[r]]
        /\ i' = [r \in Party |-> i'[r]]
    BY <1>3, <1>5
  <1>7. ValidPlace(j2, ph2, n2) /\ Where(j2, ph2, n2) = Where(j, ph, n) + 1
    BY <1>2, <1>5, Onwards
  <1>8. ph2 \in BaseSteps
    BY <1>2, <1>5 DEF BaseSteps
  <1>9. /\ ~(ph = "m" /\ ~(n < Lambda)) => j2 = j /\ Offset(ph2, n2) = Offset(ph, n) + 1
        /\ ph = "m" /\ ~(n < Lambda) => j2 = j + 1 /\ Offset(ph2, n2) = 0
    <2>1. CASE ph # "C" /\ n < Lambda /\ j2 = j /\ ph2 = ph /\ n2 = n + 1
      BY <1>2, <2>1, Sizes DEF Offset, BaseSteps
    <2>2. CASE ~(ph # "C" /\ n < Lambda)
      BY <1>2, <1>5, <2>2, Sizes DEF Offset, BaseSteps
    <2> QED
      BY <1>5, <2>1, <2>2
  <1> QED
    BY <1>1, <1>6, <1>7, <1>8, <1>9 DEF Pos, IsLast

------------------------------------------------------------------------------
(* The transcript.                                                         *)

LEMMA DataSend ==
  ASSUME SetupAssumption, PlaceInv, NEW sec, DataOK(sec), NEW p \in Party, InSetUp(p),
         By(Pos(p)) = p, Moves(p),
         Longer(inbox'[Peer(p)][Chan(p)], inbox[Peer(p)][Chan(p)], Message(sec, Pos(p))),
         \A r \in Party : \A d \in Channel :
           r # Peer(p) \/ d # Chan(p) => inbox'[r][d] = inbox[r][d],
         own'[Peer(p)] = own[Peer(p)],
         ~IsLast(p) => Has(sec[job[p]], p, Ot(p), Offset(phase[p], i[p]) + 1, own'[p])
  PROVE  DataOK(sec)'
  <1> DEFINE q == Peer(p)
  <1>1. /\ q \in Party /\ q # p /\ Peer(q) = p /\ \A r \in Party : r = p \/ r = q
        /\ Wire \subseteq Channel
    BY PartyFacts, ChannelFacts
  <1> HIDE DEF q
  <1>20. PICK x \in Nat, y \in Nat : x = Pos(p) /\ y = Pos(q) /\ x < End
    BY <1>1, Here, InSetUpFacts
  <1>21. PICK w, u, v : w = inbox[q] /\ u = inbox'[q] /\ v = inbox[p]
    OBVIOUS
  <1>2. x = Pos(p) /\ y = Pos(q) /\ w = inbox[q] /\ u = inbox'[q] /\ v = inbox[p]
    BY <1>20, <1>21
  <1>3. x < End
    BY <1>20
  <1>4. By(x) = p /\ ChanAt(x) = Chan(p) /\ Chan(p) \in Wire
    BY <1>2, InSetUpFacts
  <1>5. /\ Ahead(p, x, y) /\ Ahead(q, y, x)
        /\ \A c \in Wire : Carries(sec, x, y, c, w[c]) /\ Carries(sec, y, x, c, v[c])
    BY <1>1, <1>2 DEF DataOK, q
  <1>6. Longer(u[ChanAt(x)], w[ChanAt(x)], Message(sec, x))
    BY <1>2, <1>4 DEF q
  <1>7. \A c \in Wire : c # ChanAt(x) => u[c] = w[c]
    BY <1>1, <1>2, <1>4 DEF q
  <1>8. /\ Ahead(p, x + 1, y) /\ Ahead(q, y, x + 1)
        /\ \A c \in Wire : Carries(sec, x + 1, y, c, u[c]) /\ Carries(sec, y, x + 1, c, v[c])
    BY <1>3, <1>4, <1>5, <1>6, <1>7, FlowSend DEF q
  <1>9. \A c \in Wire : inbox'[p][c] = v[c]
    BY <1>1, <1>2 DEF q
  <1>10. /\ Pos(p)' = x + 1 /\ Pos(q)' = y
         /\ job'[q] = job[q] /\ phase'[q] = phase[q] /\ i'[q] = i[q]
         /\ ~IsLast(p) => job'[p] = job[p] /\ Offset(phase'[p], i'[p]) = Offset(phase[p], i[p]) + 1
         /\ IsLast(p) => Offset(phase'[p], i'[p]) = 0
    BY <1>1, <1>2, Moved DEF Pos
  <1>11. job'[q] <= J => Has(sec[job'[q]], q, OtAt(job'[q]), Offset(phase'[q], i'[q]), own'[q])
    BY <1>1, <1>10 DEF DataOK, q
  <1>12. Has(sec[job'[p]], p, OtAt(job'[p]), Offset(phase'[p], i'[p]), own'[p])
    <2>1. CASE IsLast(p)
      BY <1>10, <2>1 DEF Has
    <2>2. CASE ~IsLast(p)
      BY <1>10, <2>2, InSetUpFacts
    <2> QED
      BY <2>1, <2>2
  <1>13. ASSUME NEW r \in Party
         PROVE  /\ Ahead(r, Pos(r)', Pos(Peer(r))')
                /\ \A c \in Wire : Carries(sec, Pos(r)', Pos(Peer(r))', c, inbox'[Peer(r)][c])
                /\ job'[r] <= J =>
                     Has(sec[job'[r]], r, OtAt(job'[r]), Offset(phase'[r], i'[r]), own'[r])
    <2>1. CASE r = p
      <3>1. Peer(r) = q
        BY <2>1 DEF q
      <3> QED
        BY <1>2, <1>8, <1>9, <1>10, <1>12, <2>1, <3>1
    <2>2. CASE r = q
      <3>1. Peer(r) = p
        BY <1>1, <2>2
      <3> QED
        BY <1>1, <1>2, <1>8, <1>9, <1>10, <1>11, <2>2, <3>1
    <2> QED
      BY <1>1, <2>1, <2>2
  <1> QED
    BY <1>13 DEF DataOK

LEMMA DataHead ==
  ASSUME SetupAssumption, PlaceInv, NEW sec, DataOK(sec), NEW p \in Party, InSetUp(p),
         inbox[p][Chan(p)] # <<>>
  PROVE  Pos(p) < Pos(Peer(p)) /\ inbox[p][Chan(p)][1] = Message(sec, Pos(p))
  <1>1. Peer(p) \in Party /\ Peer(Peer(p)) = p
    BY PartyFacts
  <1>2. Carries(sec, Pos(Peer(p)), Pos(p), Chan(p), inbox[p][Chan(p)])
    BY <1>1, InSetUpFacts DEF DataOK
  <1>3. Pos(p) \in Nat /\ Pos(Peer(p)) \in Nat /\ ChanAt(Pos(p)) = Chan(p)
    BY <1>1, Here, InSetUpFacts
  <1>4. PICK x \in Nat, y \in Nat : x = Pos(Peer(p)) /\ y = Pos(p)
    BY <1>3
  <1>41. PICK w : w = inbox[p][Chan(p)]
    OBVIOUS
  <1>5. Carries(sec, x, y, ChanAt(y), w) /\ w # <<>>
    BY <1>2, <1>3, <1>4, <1>41
  <1>6. y < x /\ w[1] = Message(sec, y)
    BY <1>5, FlowHead
  <1> QED
    BY <1>4, <1>41, <1>6

LEMMA DataRecv ==
  ASSUME SetupAssumption, PlaceInv, NEW sec, DataOK(sec), NEW p \in Party, InSetUp(p),
         By(Pos(p)) = Peer(p), Moves(p),
         inbox[p][Chan(p)] # <<>>,
         Shorter(inbox'[p][Chan(p)], inbox[p][Chan(p)]),
         \A r \in Party : \A d \in Channel : r # p \/ d # Chan(p) => inbox'[r][d] = inbox[r][d],
         own'[Peer(p)] = own[Peer(p)],
         ~IsLast(p) => Has(sec[job[p]], p, Ot(p), Offset(phase[p], i[p]) + 1, own'[p])
  PROVE  DataOK(sec)'
  <1> DEFINE q == Peer(p)
  <1>1. /\ q \in Party /\ q # p /\ Peer(q) = p /\ \A r \in Party : r = p \/ r = q
        /\ Wire \subseteq Channel
    BY PartyFacts, ChannelFacts
  <1> HIDE DEF q
  <1>20. PICK x \in Nat, y \in Nat : x = Pos(q) /\ y = Pos(p) /\ y < End
    BY <1>1, Here, InSetUpFacts
  <1>21. PICK w, u, v : w = inbox[p] /\ u = inbox'[p] /\ v = inbox[q]
    OBVIOUS
  <1>2. x = Pos(q) /\ y = Pos(p) /\ w = inbox[p] /\ u = inbox'[p] /\ v = inbox[q]
    BY <1>20, <1>21
  <1>3. y < End
    BY <1>20
  <1>4. By(y) = Peer(p) /\ ChanAt(y) = Chan(p) /\ ChanAt(y) \in Wire
    BY <1>2, InSetUpFacts
  <1>5. Flow(sec, Peer(p), p, x, y, w, v)
    BY <1>1, <1>2 DEF DataOK, Flow, q
  <1>6. Taken(u, w, ChanAt(y))
    BY <1>1, <1>2, <1>4 DEF Taken
  <1>7. Flow(sec, Peer(p), p, x, y + 1, u, v)
    BY <1>3, <1>4, <1>5, <1>6, FlowRecv
  <1>8. /\ Ahead(q, x, y + 1) /\ Ahead(p, y + 1, x)
        /\ \A c \in Wire : Carries(sec, x, y + 1, c, u[c]) /\ Carries(sec, y + 1, x, c, v[c])
    BY <1>7 DEF Flow, q
  <1>9. \A c \in Wire : inbox'[q][c] = v[c]
    BY <1>1, <1>2
  <1>10. /\ Pos(p)' = y + 1 /\ Pos(q)' = x
         /\ job'[q] = job[q] /\ phase'[q] = phase[q] /\ i'[q] = i[q]
         /\ ~IsLast(p) => job'[p] = job[p] /\ Offset(phase'[p], i'[p]) = Offset(phase[p], i[p]) + 1
         /\ IsLast(p) => Offset(phase'[p], i'[p]) = 0
    BY <1>1, <1>2, Moved DEF Pos
  <1>11. job'[q] <= J => Has(sec[job'[q]], q, OtAt(job'[q]), Offset(phase'[q], i'[q]), own'[q])
    BY <1>1, <1>10 DEF DataOK, q
  <1>12. Has(sec[job'[p]], p, OtAt(job'[p]), Offset(phase'[p], i'[p]), own'[p])
    <2>1. CASE IsLast(p)
      BY <1>10, <2>1 DEF Has
    <2>2. CASE ~IsLast(p)
      BY <1>10, <2>2, InSetUpFacts
    <2> QED
      BY <2>1, <2>2
  <1>13. ASSUME NEW r \in Party
         PROVE  /\ Ahead(r, Pos(r)', Pos(Peer(r))')
                /\ \A c \in Wire : Carries(sec, Pos(r)', Pos(Peer(r))', c, inbox'[Peer(r)][c])
                /\ job'[r] <= J =>
                     Has(sec[job'[r]], r, OtAt(job'[r]), Offset(phase'[r], i'[r]), own'[r])
    <2>1. CASE r = p
      <3>1. Peer(r) = q
        BY <2>1 DEF q
      <3> QED
        BY <1>2, <1>8, <1>9, <1>10, <1>12, <2>1, <3>1 DEF q
    <2>2. CASE r = q
      <3>1. Peer(r) = p
        BY <1>1, <2>2
      <3> QED
        BY <1>1, <1>2, <1>8, <1>9, <1>10, <1>11, <2>2, <3>1 DEF q
    <2> QED
      BY <1>1, <2>1, <2>2
  <1> QED
    BY <1>13 DEF DataOK

\* A step that neither moves a party in its set-ups nor touches what is under way.
LEMMA DataSame ==
  ASSUME NEW sec, DataOK(sec),
         \A r \in Party : \A c \in Wire : inbox'[r][c] = inbox[r][c],
         \A r \in Party : /\ job'[r] = job[r] /\ own'[r] = own[r]
                          /\ Offset(phase'[r], i'[r]) = Offset(phase[r], i[r])
  PROVE  DataOK(sec)'
  <1>1. \A r \in Party : Pos(r)' = Pos(r)
    BY DEF Pos, Where
  <1>2. ASSUME NEW p \in Party
        PROVE  /\ Ahead(p, Pos(p)', Pos(Peer(p))')
               /\ \A c \in Wire : Carries(sec, Pos(p)', Pos(Peer(p))', c, inbox'[Peer(p)][c])
               /\ job'[p] <= J =>
                    Has(sec[job'[p]], p, OtAt(job'[p]), Offset(phase'[p], i'[p]), own'[p])
    <2>1. Peer(p) \in Party
      BY PartyFacts
    <2> QED
      BY <1>1, <2>1 DEF DataOK
  <1> QED
    BY <1>2 DEF DataOK

\* The transcript may change where it has not been heard yet.
LEMMA Rechoose ==
  ASSUME SetupAssumption, PlaceInv, NEW sec, NEW sec2, DataOK(sec),
         \A r \in Party : \A z \in Pos(Peer(r))..(Pos(r) - 1) : Message(sec2, z) = Message(sec, z),
         \A r \in Party : job[r] <= J =>
           Has(sec2[job[r]], r, OtAt(job[r]), Offset(phase[r], i[r]), own[r])
  PROVE  DataOK(sec2)
  <1>1. ASSUME NEW p \in Party, NEW c \in Wire
        PROVE  Carries(sec2, Pos(p), Pos(Peer(p)), c, inbox[Peer(p)][c])
    <2>1. Peer(p) \in Party
      BY PartyFacts
    <2>2. PICK x \in Nat, y \in Nat : x = Pos(p) /\ y = Pos(Peer(p))
      BY <2>1, Here
    <2>3. PICK w : w = inbox[Peer(p)][c]
      OBVIOUS
    <2>4. Carries(sec, x, y, c, w)
      BY <2>2, <2>3 DEF DataOK
    <2>5. \A z \in y..(x - 1) : Message(sec2, z) = Message(sec, z)
      BY <2>2
    <2>6. Carries(sec2, x, y, c, w)
      BY <2>4, <2>5, FlowSecret
    <2> QED
      BY <2>2, <2>3, <2>6
  <1> QED
    BY <1>1 DEF DataOK

\* A party about to send the first message of a set-up draws d and r: no one has
\* heard anything of this set-up.
LEMMA ChooseSent ==
  ASSUME SetupAssumption, PlaceInv, NEW sec \in [1..J -> Secrets], DataOK(sec),
         NEW p \in Party, InSetUp(p), phase[p] = "C", By(Pos(p)) = p, NEW t \in Secrets
  PROVE  /\ DataOK([sec EXCEPT ![job[p]] = t])
         /\ [sec EXCEPT ![job[p]] = t] \in [1..J -> Secrets]
  <1>1. PICK sec2 : sec2 = [sec EXCEPT ![job[p]] = t]
    OBVIOUS
  <1>2. PICK j \in 1..J : j = job[p]
    BY InSetUpFacts
  <1>3. /\ \A m \in 1..J : m # j => sec2[m] = sec[m]
        /\ sec2 \in [1..J -> Secrets]
    BY <1>1, <1>2
  <1>4. Peer(p) \in Party /\ Peer(p) # p /\ Peer(Peer(p)) = p /\ \A r \in Party : r = p \/ r = Peer(p)
    BY PartyFacts
  <1>5. PICK x \in Nat, y \in Nat : x = Pos(p) /\ y = Pos(Peer(p)) /\ x < End
    BY <1>4, Here, InSetUpFacts
  <1>6. Offset(phase[p], i[p]) = 0
    BY DEF Offset
  <1>7. y <= x
    <2>1. ASSUME ~(y <= x)
          PROVE  FALSE
      <3>1. Ahead(Peer(p), y, x)
        BY <1>4, <1>5 DEF DataOK
      <3>2. x \in x..(y - 1)
        BY <2>1
      <3>3. By(x) = Peer(p)
        BY <3>1, <3>2 DEF Ahead
      <3>4. By(x) = p
        BY <1>5
      <3> QED
        BY <1>4, <3>3, <3>4
    <2> QED
      BY <2>1
  <1>8. PICK w \in Nat : w = Span /\ w > 0
    BY Sizes
  <1>9. x = (j - 1) * w
    BY <1>2, <1>5, <1>6, <1>8 DEF Pos, Where
  <1>10. ASSUME NEW z \in Nat, z < x
         PROVE  SetUpOf(z) \in 1..J /\ SetUpOf(z) # j
    <2>1. z < End
      <3>1. PICK e \in Nat : e = End
        BY Sizes
      <3> QED
        BY <1>5, <1>10, <3>1
    <2>2. PICK m \in Nat, o \in Nat : m = SetUpOf(z) /\ m \in 1..J /\ o = OffsetOf(z)
                                      /\ z = (m - 1) * Span + o
      BY <2>1, Encode, Sizes
    <2>3. z = (m - 1) * w + o
      BY <1>8, <2>2
    <2>4. ASSUME m = j
          PROVE  FALSE
      <3>1. (m - 1) * w = x
        BY <1>9, <2>4
      <3>2. z = x + o
        BY <2>3, <3>1
      <3> QED
        BY <1>10, <3>2
    <2> QED
      BY <2>2, <2>4
  <1>11. ASSUME NEW z \in Nat, z < x
         PROVE  Message(sec2, z) = Message(sec, z)
    BY <1>3, <1>10, <1>11 DEF Message
  <1>12. \A r \in Party : \A z \in Pos(Peer(r))..(Pos(r) - 1) : Message(sec2, z) = Message(sec, z)
    <2>1. ASSUME NEW r \in Party, NEW z \in Pos(Peer(r))..(Pos(r) - 1)
          PROVE  Message(sec2, z) = Message(sec, z)
      <3>1. CASE r = p
        <4>1. z \in y..(x - 1)
          BY <1>5, <3>1
        <4>2. z \in Nat /\ z < x
          BY <4>1
        <4> QED
          BY <1>11, <4>2
      <3>2. CASE r = Peer(p)
        <4>1. z \in x..(y - 1)
          BY <1>4, <1>5, <3>2
        <4> QED
          BY <1>7, <4>1
      <3> QED
        BY <1>4, <3>1, <3>2
    <2> QED
      BY <2>1
  <1>13. ASSUME NEW r \in Party, job[r] <= J
         PROVE  Has(sec2[job[r]], r, OtAt(job[r]), Offset(phase[r], i[r]), own[r])
    <2>1. CASE Offset(phase[r], i[r]) = 0
      BY <2>1 DEF Has
    <2>2. CASE Offset(phase[r], i[r]) # 0
      <3>1. r = Peer(p)
        BY <1>4, <1>6, <2>2
      <3>2. PICK m \in Nat, o \in Nat : m = job[r] /\ o = Offset(phase[r], i[r]) /\ m \in 1..J /\ o # 0
        BY <1>13, <2>2, Here, Sizes
      <3>3. y = (m - 1) * w + o
        BY <1>5, <1>8, <3>1, <3>2 DEF Pos, Where
      <3>4. ASSUME m = j
            PROVE  FALSE
        <4>1. (m - 1) * w = x
          BY <1>9, <3>4
        <4>2. y = x + o
          BY <3>3, <4>1
        <4> QED
          BY <1>7, <3>2, <4>2
      <3>5. sec2[job[r]] = sec[job[r]]
        BY <1>3, <3>2, <3>4
      <3> QED
        BY <1>13, <3>5 DEF DataOK
    <2> QED
      BY <2>1, <2>2
  <1>14. DataOK(sec2)
    BY <1>12, <1>13, Rechoose
  <1> QED
    BY <1>1, <1>3, <1>14

\* A party that finds the first message of a set-up draws k and s: only that message
\* has been sent, and the other party waits for the first public key.
LEMMA ChooseDrawn ==
  ASSUME SetupAssumption, PlaceInv, NEW sec \in [1..J -> Secrets], DataOK(sec),
         NEW p \in Party, InSetUp(p), phase[p] = "C", p = SenderOf(Ot(p)),
         Pos(p) < Pos(Peer(p)),
         NEW t \in Secrets, t.d = sec[job[p]].d, t.r = sec[job[p]].r
  PROVE  /\ DataOK([sec EXCEPT ![job[p]] = t])
         /\ [sec EXCEPT ![job[p]] = t] \in [1..J -> Secrets]
  <1>1. PICK sec2 : sec2 = [sec EXCEPT ![job[p]] = t]
    OBVIOUS
  <1>2. PICK j \in 1..J : j = job[p]
    BY InSetUpFacts
  <1>3. /\ \A m \in 1..J : m # j => sec2[m] = sec[m]
        /\ sec2[j] = t /\ sec2 \in [1..J -> Secrets]
    BY <1>1, <1>2
  <1>4. Peer(p) \in Party /\ Peer(p) # p /\ Peer(Peer(p)) = p /\ \A r \in Party : r = p \/ r = Peer(p)
    BY PartyFacts
  <1>5. PICK x \in Nat, y \in Nat : x = Pos(p) /\ y = Pos(Peer(p)) /\ x < End
    BY <1>4, Here, InSetUpFacts
  <1>6. Offset(phase[p], i[p]) = 0
    BY DEF Offset
  <1>7. x = (j - 1) * Span + 0 /\ SetUpOf(x) = j /\ OffsetOf(x) = 0 /\ OtAt(j) = Ot(p)
    <2>1. x = (j - 1) * Span + 0
      BY <1>2, <1>5, <1>6 DEF Pos, Where
    <2>2. job[p] <= J
      BY <1>2, Sizes
    <2>3. SetUpOf(x) = j /\ OffsetOf(x) = 0
      BY <1>2, <1>5, <1>6, <2>2, Here
    <2>4. OtAt(j) = Ot(p)
      BY <1>2, InSetUpFacts
    <2> QED
      BY <2>1, <2>3, <2>4
  <1>8. j \in Nat /\ j > 0 /\ j <= J /\ 1 \in 0..(3 * Lambda) /\ 1 \in 1..Lambda
    BY Sizes
  <1>9. x + 1 = (j - 1) * Span + 1 /\ SetUpOf(x + 1) = j /\ OffsetOf(x + 1) = 1 /\ x + 1 < End
    <2>0. PICK v \in Nat : v = Span
      BY Sizes
    <2>1. PICK w \in Nat : w = (j - 1) * Span
      BY <1>8, <2>0
    <2>2. x + 1 = w + 1
      BY <1>7, <2>1
    <2> QED
      BY <1>8, <2>1, <2>2, Decode
  <1>10. By(x + 1) = p
    BY <1>7, <1>8, <1>9 DEF By, SentBy
  <1>11. y = x + 1
    <2>1. ASSUME y > x + 1
          PROVE  FALSE
      <3>1. Ahead(Peer(p), y, x)
        BY <1>4, <1>5 DEF DataOK
      <3>2. x + 1 \in x..(y - 1)
        BY <2>1
      <3>3. By(x + 1) = Peer(p)
        BY <3>1, <3>2 DEF Ahead
      <3> QED
        BY <1>4, <1>10, <3>3
    <2> QED
      BY <1>5, <2>1
  <1>12. Message(sec2, x) = Message(sec, x)
    BY <1>2, <1>3, <1>7 DEF Message, Said, Value
  <1>13. \A r \in Party : \A z \in Pos(Peer(r))..(Pos(r) - 1) : Message(sec2, z) = Message(sec, z)
    <2>1. ASSUME NEW r \in Party, NEW z \in Pos(Peer(r))..(Pos(r) - 1)
          PROVE  Message(sec2, z) = Message(sec, z)
      <3>1. CASE r = p
        <4>1. z \in y..(x - 1)
          BY <1>5, <3>1
        <4> QED
          BY <1>11, <4>1
      <3>2. CASE r = Peer(p)
        <4>1. z \in x..(y - 1)
          BY <1>4, <1>5, <3>2
        <4>2. z = x
          BY <1>11, <4>1
        <4> QED
          BY <1>12, <4>2
      <3> QED
        BY <1>4, <3>1, <3>2
    <2> QED
      BY <2>1
  <1>14. ASSUME NEW r \in Party, job[r] <= J
         PROVE  Has(sec2[job[r]], r, OtAt(job[r]), Offset(phase[r], i[r]), own[r])
    <2>1. CASE r = p
      BY <1>6, <2>1 DEF Has
    <2>2. CASE r = Peer(p)
      <3>1. job[r] = j /\ Offset(phase[r], i[r]) = 1
        BY <1>5, <1>9, <1>11, <1>14, <2>2, Here
      <3>2. Has(sec[j], r, OtAt(j), 1, own[r])
        BY <1>14, <3>1 DEF DataOK
      <3>3. SenderHas(t, 1) = SenderHas(sec[j], 1)
        <4>1. \A n \in Index : ~(n < 1)
          BY Sizes DEF Index
        <4> QED
          BY <1>2, <4>1 DEF SenderHas
      <3> QED
        BY <1>3, <1>4, <1>7, <2>2, <3>1, <3>2, <3>3 DEF Has
    <2> QED
      BY <1>4, <2>1, <2>2
  <1>15. DataOK(sec2)
    BY <1>13, <1>14, Rechoose
  <1> QED
    BY <1>1, <1>3, <1>15

------------------------------------------------------------------------------
(* What the steps of the base OTs have in common.                          *)

LEMMA SyncSame ==
  ASSUME SyncInv,
         \A r \in Party : stream'[r]["io_GC"] = stream[r]["io_GC"]
                          /\ inbox'[r]["io_GC"] = inbox[r]["io_GC"],
         \A r \in Party : \/ phase'[r] = phase[r] /\ reading'[r] = reading[r]
                          \/ phase[r] \in BaseSteps /\ phase'[r] \in BaseSteps \cup {"sync"}
  PROVE  SyncInv'
  <1>1. ALICE \in Party /\ BOB \in Party
    BY PartyFacts
  <1>2. \A ph \in BaseSteps \cup {"sync"} : ph # "synced1" /\ ph # "synced" /\ ~Begun(ph)
    BY DEF BaseSteps, Begun
  <1>3. PICK a, ra, b, oa, ob, s, ia, ib :
          /\ a = phase[ALICE] /\ ra = reading[ALICE] /\ b = phase[BOB]
          /\ oa = stream[ALICE]["io_GC"].out /\ ob = stream[BOB]["io_GC"].out
          /\ s = stream[ALICE]["io_GC"].has_sent
          /\ ia = inbox[ALICE]["io_GC"] /\ ib = inbox[BOB]["io_GC"]
    OBVIOUS
  <1>4. PICK a2, ra2, b2 : a2 = phase'[ALICE] /\ ra2 = reading'[ALICE] /\ b2 = phase'[BOB]
    OBVIOUS
  <1>5. Handshake(a, ra, b, oa, ob, s, ia, ib)
    BY <1>3 DEF SyncInv
  <1>6. /\ (a2 = a /\ ra2 = ra) \/ (a \in BaseSteps /\ a2 \in BaseSteps \cup {"sync"})
        /\ b2 = b \/ (b \in BaseSteps /\ b2 \in BaseSteps \cup {"sync"})
    BY <1>1, <1>3, <1>4
  <1>7. Handshake(a2, ra2, b2, oa, ob, s, ia, ib)
    <2>1. CASE b2 = b
      <3>1. CASE a2 = a /\ ra2 = ra
        BY <1>5, <2>1, <3>1
      <3>2. CASE a \in BaseSteps /\ a2 \in BaseSteps \cup {"sync"}
        BY <1>2, <1>5, <2>1, <3>2 DEF Handshake
      <3> QED
        BY <1>6, <3>1, <3>2
    <2>2. CASE b \in BaseSteps /\ b2 \in BaseSteps \cup {"sync"}
      <3>1. CASE a2 = a /\ ra2 = ra
        BY <1>2, <1>5, <2>2, <3>1 DEF Handshake
      <3>2. CASE a \in BaseSteps /\ a2 \in BaseSteps \cup {"sync"}
        BY <1>2, <1>5, <2>2, <3>2 DEF Handshake
      <3> QED
        BY <1>6, <3>1, <3>2
    <2> QED
      BY <1>6, <2>1, <2>2
  <1> QED
    BY <1>1, <1>3, <1>4, <1>7 DEF SyncInv

LEMMA SeedSame ==
  ASSUME SeedInv, seeds' = seeds,
         \A r \in Party : job'[r] = job[r] /\ (phase'[r] \in SyncSteps => phase[r] \in SyncSteps)
  PROVE  SeedInv'
  BY DEF SeedInv

Shaped(f, S) == f = [x \in S |-> f[x]]

IsUpdate(g, f, a, v) == g = [f EXCEPT ![a] = v]

LEMMA Updated ==
  ASSUME NEW S, NEW f, Shaped(f, S), NEW a \in S, NEW v, NEW g, IsUpdate(g, f, a, v)
  PROVE  Shaped(g, S) /\ g[a] = v /\ \A x \in S : x # a => g[x] = f[x]
  BY DEF Shaped, IsUpdate

\* The end of a base OT seeds its instance.
LEMMA SeedLast ==
  ASSUME SetupAssumption, SeedInv, NEW p \in Party, job[p] \in 1..J, job'[p] = job[p] + 1,
         phase'[p] \in BaseSteps,
         \A r \in Party : r # p => job'[r] = job[r] /\ phase'[r] = phase[r],
         NEW v, v # None, SeedOK(p, OtAt(job[p]), v), Seeded(p, OtAt(job[p]), v)
  PROVE  SeedInv'
  <1>1. PICK j \in 1..J : j = job[p]
    OBVIOUS
  <1>2. PICK t \in Instance : t = OtAt(j)
    BY Instances
  <1>3. seeds' = [seeds EXCEPT ![p][1][t] = v]
    BY <1>1, <1>2 DEF Seeded
  <1>4. 1 \in 1..2
    OBVIOUS
  <1>5. /\ seeds' = [r \in Party |-> [k \in 1..2 |-> [ot \in Instance |-> seeds'[r][k][ot]]]]
        /\ seeds'[p][1][t] = v
        /\ \A r \in Party : \A k \in 1..2 : \A ot \in Instance :
             ~(r = p /\ k = 1 /\ ot = t) => seeds'[r][k][ot] = seeds[r][k][ot]
    <2>1. PICK a, b : /\ a = [seeds[p][1] EXCEPT ![t] = v] /\ b = [seeds[p] EXCEPT ![1] = a]
                      /\ IsUpdate(a, seeds[p][1], t, v) /\ IsUpdate(b, seeds[p], 1, a)
      BY Zenon DEF IsUpdate
    <2>2. /\ IsUpdate(a, seeds[p][1], t, v) /\ IsUpdate(b, seeds[p], 1, a)
          /\ IsUpdate(seeds', seeds, p, b)
      BY <1>3, <2>1, Zenon DEF IsUpdate
    <2>3. /\ Shaped(seeds, Party)
          /\ \A r \in Party : Shaped(seeds[r], 1..2)
          /\ \A r \in Party : \A k \in 1..2 : Shaped(seeds[r][k], Instance)
      <3>1. PICK f : f = [r \in Party |-> [k \in 1..2 |-> [ot \in Instance |-> seeds[r][k][ot]]]]
        OBVIOUS
      <3>2. seeds = f
        BY <3>1 DEF SeedInv
      <3>3. /\ Shaped(f, Party)
            /\ \A r \in Party : Shaped(f[r], 1..2)
            /\ \A r \in Party : \A k \in 1..2 : Shaped(f[r][k], Instance)
        BY <3>1 DEF Shaped
      <3> QED
        BY <3>2, <3>3
    <2>4. Shaped(a, Instance) /\ a[t] = v /\ \A ot \in Instance : ot # t => a[ot] = seeds[p][1][ot]
      BY <1>4, <2>2, <2>3, Updated
    <2>5. Shaped(b, 1..2) /\ b[1] = a /\ \A k \in 1..2 : k # 1 => b[k] = seeds[p][k]
      BY <1>4, <2>2, <2>3, Updated
    <2>6. Shaped(seeds', Party) /\ seeds'[p] = b /\ \A r \in Party : r # p => seeds'[r] = seeds[r]
      BY <2>2, <2>3, Updated
    <2>7. ASSUME NEW r \in Party
          PROVE  Shaped(seeds'[r], 1..2)
      BY <2>3, <2>5, <2>6
    <2>8. ASSUME NEW r \in Party, NEW k \in 1..2
          PROVE  Shaped(seeds'[r][k], Instance)
      BY <2>3, <2>4, <2>5, <2>6
    <2>9. ASSUME NEW r \in Party, NEW k \in 1..2, NEW ot \in Instance, ~(r = p /\ k = 1 /\ ot = t)
          PROVE  seeds'[r][k][ot] = seeds[r][k][ot]
      <3>1. CASE r # p
        BY <2>6, <3>1
      <3>2. CASE r = p /\ k # 1
        BY <2>5, <2>6, <3>2
      <3>3. CASE r = p /\ k = 1
        <4>1. seeds'[r][k] = a /\ ot # t
          BY <2>5, <2>6, <2>9, <3>3
        <4> QED
          BY <2>4, <3>3, <4>1
      <3> QED
        BY <3>1, <3>2, <3>3
    <2>10. seeds' = [r \in Party |-> [k \in 1..2 |-> [ot \in Instance |-> seeds'[r][k][ot]]]]
      BY <2>6, <2>7, <2>8, Zenon DEF Shaped
    <2> QED
      BY <2>4, <2>5, <2>6, <2>9, <2>10
  <1>6. ASSUME NEW r \in Party, NEW k \in 1..2, NEW ot \in Instance, seeds'[r][k][ot] # None
        PROVE  SeedOK(r, Origin(k, ot), seeds'[r][k][ot])
    <2>1. CASE r = p /\ k = 1 /\ ot = t
      BY <1>1, <1>2, <1>5, <2>1 DEF Origin
    <2>2. CASE ~(r = p /\ k = 1 /\ ot = t)
      BY <1>5, <1>6, <2>2 DEF SeedInv
    <2> QED
      BY <2>1, <2>2
  <1>7. ASSUME NEW r \in Party, NEW m \in 1..J, m < job'[r]
        PROVE  seeds'[r][1][OtAt(m)] # None
    <2>1. OtAt(m) \in Instance
      BY Instances
    <2>2. CASE r = p /\ OtAt(m) = t
      BY <1>5, <2>2
    <2>3. CASE ~(r = p /\ OtAt(m) = t)
      <3>1. seeds'[r][1][OtAt(m)] = seeds[r][1][OtAt(m)]
        BY <1>4, <1>5, <2>1, <2>3
      <3>2. m < job[r]
        <4>1. CASE r = p
          <5>1. m # j
            BY <1>2, <2>3, <4>1
          <5>2. m \in Nat /\ j \in Nat /\ m < j + 1
            BY <1>1, <1>7, <4>1, Sizes
          <5> QED
            BY <1>1, <4>1, <5>1, <5>2
        <4>2. CASE r # p
          BY <1>7, <4>2
        <4> QED
          BY <4>1, <4>2
      <3> QED
        BY <3>1, <3>2 DEF SeedInv
    <2> QED
      BY <2>2, <2>3
  <1>8. ASSUME NEW r \in Party, phase'[r] \in SyncSteps, NEW ot \in Instance
        PROVE  seeds'[r][2][ot] # None
    <2>1. r # p
      BY <1>8 DEF SyncSteps, BaseSteps
    <2>2. seeds'[r][2][ot] = seeds[r][2][ot]
      BY <1>5, <2>1
    <2> QED
      BY <1>8, <2>1, <2>2 DEF SeedInv
  <1> QED
    BY <1>5, <1>6, <1>7, <1>8 DEF SeedInv

LEMMA PlaceStep ==
  ASSUME SetupAssumption, PlaceInv, NEW p \in Party, InSetUp(p), Moves(p),
         opened' = opened, ~reading'[p],
         reading' \in [Party -> BOOLEAN],
         own' = [r \in Party |-> own'[r]],
         \A r \in Party : r # p => reading'[r] = reading[r]
  PROVE  PlaceInv'
  <1>1. /\ job' = [r \in Party |-> job'[r]] /\ phase' = [r \in Party |-> phase'[r]]
        /\ i' = [r \in Party |-> i'[r]]
        /\ \A r \in Party : r # p => job'[r] = job[r] /\ phase'[r] = phase[r] /\ i'[r] = i[r]
        /\ ValidPlace(job'[p], phase'[p], i'[p])
    BY Moved
  <1>2. ASSUME NEW r \in Party
        PROVE  ValidPlace(job'[r], phase'[r], i'[r])
    BY <1>1 DEF PlaceInv
  <1>3. ASSUME NEW r \in Party, reading'[r]
        PROVE  Receives(r)' \/ SyncReceives(r)'
    <2>1. r # p
      BY <1>3
    <2>2. reading[r] /\ job'[r] = job[r] /\ phase'[r] = phase[r]
      BY <1>1, <1>3, <2>1
    <2>3. Receives(r) \/ SyncReceives(r)
      BY <2>2 DEF PlaceInv
    <2>4. CASE Receives(r)
      BY <2>2, <2>4 DEF Receives, InSetUp, Connected, IsBaseSender, Ot
    <2>5. CASE SyncReceives(r)
      BY <2>2, <2>5 DEF SyncReceives
    <2> QED
      BY <2>3, <2>4, <2>5
  <1> QED
    BY <1>1, <1>2, <1>3 DEF PlaceInv

LEMMA SendStep ==
  ASSUME SetupAssumption, ConnInv, PlaceInv, BufferInv, SyncInv, SeedInv,
         NEW sec \in [1..J -> Secrets], DataOK(sec),
         NEW p \in Party, InSetUp(p), By(Pos(p)) = p, ~Receives(p), ~SyncReceives(p), Moves(p),
         NEW v, v = Value(sec[job[p]], Ot(p), Offset(phase[p], i[p])),
         NEW fl, Send(p, Chan(p), Item(p, v), fl), UNCHANGED connVars,
         own' = [r \in Party |-> own'[r]], own'[Peer(p)] = own[Peer(p)],
         ~IsLast(p) => /\ seeds' = seeds
                       /\ Has(sec[job[p]], p, Ot(p), Offset(phase[p], i[p]) + 1, own'[p]),
         IsLast(p) => \E s : s # None /\ SeedOK(p, Ot(p), s) /\ Seeded(p, Ot(p), s)
  PROVE  IInv'
  <1> DEFINE e == [at |-> Place(p), v |-> v]
  <1>1. Chan(p) \in Wire /\ job[p] \in 1..J /\ Ot(p) = OtAt(job[p])
        /\ Message(sec, Pos(p)) = e
    BY InSetUpFacts
  <1>2. Send(p, Chan(p), <<e>>, fl)
    BY DEF Item
  <1> HIDE DEF e
  <1>3. /\ BufferInv' /\ reading' = reading
        /\ Longer(inbox'[Peer(p)][Chan(p)], inbox[Peer(p)][Chan(p)], e)
        /\ \A r \in Party : \A d \in Channel :
             r # Peer(p) \/ d # Chan(p) => inbox'[r][d] = inbox[r][d]
        /\ \A r \in Party : stream'[r]["io_GC"] = stream[r]["io_GC"]
    BY <1>1, <1>2, SendNet
  <1>4. /\ phase'[p] \in BaseSteps /\ phase[p] \in BaseSteps
        /\ \A r \in Party : r # p => job'[r] = job[r] /\ phase'[r] = phase[r]
        /\ ~IsLast(p) => job'[p] = job[p]
        /\ IsLast(p) => job'[p] = job[p] + 1
    BY Moved, InSetUpFacts
  <1>5. ConnInv'
    BY DEF ConnInv, connVars
  <1>6. PlaceInv'
    <2>1. reading' \in [Party -> BOOLEAN] /\ ~reading'[p] /\ opened' = opened
      BY <1>3 DEF PlaceInv, connVars
    <2>2. \A r \in Party : r # p => reading'[r] = reading[r]
      BY <1>3
    <2> QED
      BY <2>1, <2>2, PlaceStep
  <1>7. SyncInv'
    <2>1. \A r \in Party : stream'[r]["io_GC"] = stream[r]["io_GC"]
                           /\ inbox'[r]["io_GC"] = inbox[r]["io_GC"]
      BY <1>1, <1>3, ChannelFacts
    <2>2. \A r \in Party : \/ phase'[r] = phase[r] /\ reading'[r] = reading[r]
                           \/ phase[r] \in BaseSteps /\ phase'[r] \in BaseSteps \cup {"sync"}
      BY <1>3, <1>4
    <2> QED
      BY <2>1, <2>2, SyncSame
  <1>8. SeedInv'
    <2>1. CASE ~IsLast(p)
      <3>1. \A r \in Party : job'[r] = job[r] /\ (phase'[r] \in SyncSteps => phase[r] \in SyncSteps)
        BY <1>4, <2>1 DEF BaseSteps, SyncSteps
      <3> QED
        BY <2>1, <3>1, SeedSame
    <2>2. CASE IsLast(p)
      <3>1. PICK s : s # None /\ SeedOK(p, OtAt(job[p]), s) /\ Seeded(p, OtAt(job[p]), s)
        BY <1>1, <2>2
      <3>2. job'[p] = job[p] + 1
        BY <1>4, <2>2
      <3> QED
        BY <1>1, <1>4, <3>1, <3>2, SeedLast
    <2> QED
      BY <2>1, <2>2
  <1>9. DataOK(sec)'
    BY <1>1, <1>3, DataSend
  <1>10. DataInv'
    BY <1>9 DEF DataInv
  <1> QED
    BY <1>3, <1>5, <1>6, <1>7, <1>8, <1>10 DEF IInv

LEMMA RecvStep ==
  ASSUME SetupAssumption, ConnInv, PlaceInv, BufferInv, SyncInv, SeedInv,
         NEW sec \in [1..J -> Secrets], DataOK(sec),
         NEW p \in Party, InSetUp(p), By(Pos(p)) = Peer(p), Moves(p),
         inbox[p][Chan(p)] # <<>>, EndRecv(p, Chan(p)), UNCHANGED connVars,
         own' = [r \in Party |-> own'[r]], own'[Peer(p)] = own[Peer(p)],
         ~IsLast(p) => /\ seeds' = seeds
                       /\ Has(sec[job[p]], p, Ot(p), Offset(phase[p], i[p]) + 1, own'[p]),
         IsLast(p) => \E s : s # None /\ SeedOK(p, Ot(p), s) /\ Seeded(p, Ot(p), s)
  PROVE  IInv'
  <1>1. Chan(p) \in Wire /\ Chan(p) \in Channel /\ job[p] \in 1..J /\ Ot(p) = OtAt(job[p])
    BY InSetUpFacts, ChannelFacts
  <1>3. /\ BufferInv' /\ reading' = [reading EXCEPT ![p] = FALSE]
        /\ Shorter(inbox'[p][Chan(p)], inbox[p][Chan(p)])
        /\ \A r \in Party : \A d \in Channel : r # p \/ d # Chan(p) => inbox'[r][d] = inbox[r][d]
        /\ stream' = stream
    BY <1>1, RecvNet
  <1>4. /\ phase'[p] \in BaseSteps /\ phase[p] \in BaseSteps
        /\ \A r \in Party : r # p => job'[r] = job[r] /\ phase'[r] = phase[r]
        /\ ~IsLast(p) => job'[p] = job[p]
        /\ IsLast(p) => job'[p] = job[p] + 1
    BY Moved, InSetUpFacts
  <1>41. /\ reading' \in [Party -> BOOLEAN] /\ ~reading'[p]
         /\ \A r \in Party : r # p => reading'[r] = reading[r]
    <2>1. reading \in [Party -> BOOLEAN] /\ reading' = [reading EXCEPT ![p] = FALSE]
      BY <1>3 DEF PlaceInv
    <2> QED
      BY <2>1
  <1>5. ConnInv'
    BY DEF ConnInv, connVars
  <1>6. PlaceInv'
    <2>1. opened' = opened
      BY DEF connVars
    <2> QED
      BY <1>41, <2>1, PlaceStep
  <1>7. SyncInv'
    <2>1. \A r \in Party : stream'[r]["io_GC"] = stream[r]["io_GC"]
                           /\ inbox'[r]["io_GC"] = inbox[r]["io_GC"]
      BY <1>1, <1>3, ChannelFacts
    <2>2. \A r \in Party : \/ phase'[r] = phase[r] /\ reading'[r] = reading[r]
                           \/ phase[r] \in BaseSteps /\ phase'[r] \in BaseSteps \cup {"sync"}
      BY <1>4, <1>41
    <2> QED
      BY <2>1, <2>2, SyncSame
  <1>8. SeedInv'
    <2>1. CASE ~IsLast(p)
      <3>1. \A r \in Party : job'[r] = job[r] /\ (phase'[r] \in SyncSteps => phase[r] \in SyncSteps)
        BY <1>4, <2>1 DEF BaseSteps, SyncSteps
      <3> QED
        BY <2>1, <3>1, SeedSame
    <2>2. CASE IsLast(p)
      <3>1. PICK s : s # None /\ SeedOK(p, OtAt(job[p]), s) /\ Seeded(p, OtAt(job[p]), s)
        BY <1>1, <2>2
      <3>2. job'[p] = job[p] + 1
        BY <1>4, <2>2
      <3> QED
        BY <1>1, <1>4, <3>1, <3>2, SeedLast
    <2> QED
      BY <2>1, <2>2
  <1>9. DataOK(sec)'
    BY <1>3, DataRecv
  <1>10. DataInv'
    BY <1>9 DEF DataInv
  <1> QED
    BY <1>3, <1>5, <1>6, <1>7, <1>8, <1>10 DEF IInv

------------------------------------------------------------------------------
(* The steps of the base OTs.                                              *)

LEMMA Mine ==
  ASSUME SetupAssumption, PlaceInv, NEW sec \in [1..J -> Secrets], DataOK(sec),
         NEW p \in Party, InSetUp(p)
  PROVE  /\ sec[job[p]] \in Secrets /\ i[p] \in Index /\ i[p] \in 1..Lambda /\ job[p] \in 1..J
         /\ phase[p] = "C" =>
              /\ Offset(phase[p], i[p]) = 0
              /\ Value(sec[job[p]], Ot(p), 0) = sec[job[p]].d
         /\ phase[p] = "pk" =>
              /\ Offset(phase[p], i[p]) = i[p]
              /\ Value(sec[job[p]], Ot(p), i[p]) = Pk(sec[job[p]], i[p])
              /\ Has(sec[job[p]], p, Ot(p), i[p], own[p])
         /\ phase[p] = "gr" =>
              /\ Offset(phase[p], i[p]) = Lambda + i[p]
              /\ Value(sec[job[p]], Ot(p), Lambda + i[p]) = sec[job[p]].r[i[p]]
              /\ Has(sec[job[p]], p, Ot(p), Lambda + i[p], own[p])
         /\ phase[p] = "m" =>
              /\ Offset(phase[p], i[p]) = 2 * Lambda + i[p]
              /\ Value(sec[job[p]], Ot(p), 2 * Lambda + i[p]) = Masked(sec[job[p]], Ot(p), i[p])
              /\ Has(sec[job[p]], p, Ot(p), 2 * Lambda + i[p], own[p])
  <1>1. job[p] \in 1..J /\ i[p] \in 1..Lambda /\ job[p] <= J /\ Ot(p) = OtAt(job[p])
    BY InSetUpFacts, Here DEF InSetUp
  <1>2. sec[job[p]] \in Secrets
    BY <1>1
  <1>3. PICK n \in 1..Lambda, l \in Nat : n = i[p] /\ l = Lambda
    BY <1>1, Sizes
  <1>4. PICK t, ot : t = sec[job[p]] /\ ot = Ot(p)
    OBVIOUS
  <1>5. Has(t, p, ot, Offset(phase[p], n), own[p])
    BY <1>1, <1>3, <1>4 DEF DataOK
  <1>6. /\ Value(t, ot, 0) = t.d
        /\ Value(t, ot, n) = Pk(t, n)
    BY <1>3 DEF Value
  <1>7. Value(t, ot, l + n) = t.r[n]
    <2>0. PICK x : x = l + n
      OBVIOUS
    <2>1. x = l + n /\ x \in Nat /\ x # 0 /\ ~(x <= l) /\ x <= 2 * l /\ x - l = n
      BY <1>3, <2>0
    <2>2. Value(t, ot, x) = t.r[x - l]
      BY <1>3, <2>1 DEF Value
    <2> QED
      BY <2>1, <2>2
  <1>8. Value(t, ot, 2 * l + n) = Masked(t, ot, n)
    <2>1. 2 * l + n # 0 /\ ~(2 * l + n <= l) /\ ~(2 * l + n <= 2 * l) /\ 2 * l + n - 2 * l = n
      BY <1>3
    <2> QED
      BY <1>3, <2>1 DEF Value
  <1>9. /\ Offset("C", n) = 0 /\ Offset("pk", n) = n /\ Offset("gr", n) = l + n
        /\ Offset("m", n) = 2 * l + n
    BY <1>3 DEF Offset
  <1> QED
    BY <1>1, <1>2, <1>3, <1>4, <1>5, <1>6, <1>7, <1>8, <1>9 DEF Index

\* What is read is the message of the place.
LEMMA Heard ==
  ASSUME SetupAssumption, PlaceInv, NEW sec \in [1..J -> Secrets], DataOK(sec),
         NEW p \in Party, InSetUp(p), Arrived(p, Chan(p))
  PROVE  /\ Read(p, Chan(p)) = Value(sec[job[p]], Ot(p), Offset(phase[p], i[p]))
         /\ inbox[p][Chan(p)] # <<>> /\ Pos(p) < Pos(Peer(p))
  <1>1. inbox[p][Chan(p)] # <<>>
    BY DEF Arrived
  <1>2. Pos(p) < Pos(Peer(p)) /\ inbox[p][Chan(p)][1] = Message(sec, Pos(p))
    BY <1>1, DataHead
  <1>3. Message(sec, Pos(p)) = [at |-> Place(p), v |-> Value(sec[job[p]], Ot(p), Offset(phase[p], i[p]))]
    BY InSetUpFacts
  <1>4. Message(sec, Pos(p)).v = Value(sec[job[p]], Ot(p), Offset(phase[p], i[p]))
    BY <1>3
  <1> QED
    BY <1>1, <1>2, <1>4 DEF Read

LEMMA SendCStep ==
  ASSUME SetupAssumption, IInv, NEW p \in Party, SendC(p)
  PROVE  IInv'
  <1>1. PICK sec \in [1..J -> Secrets] : DataOK(sec)
    BY DEF IInv, DataInv
  <1>2. ConnInv /\ PlaceInv /\ BufferInv /\ SyncInv /\ SeedInv
    BY DEF IInv
  <1>3. AsSender(p, "C") /\ InSetUp(p) /\ phase[p] = "C" /\ p # SenderOf(Ot(p))
    BY DEF SendC, AsSender, At, IsBaseSender
  <1>4. By(Pos(p)) = p /\ ~Receives(p) /\ ~SyncReceives(p)
    BY <1>2, <1>3, Turns
  <1>5. Moves(p) /\ ~IsLast(p)
    BY <1>3 DEF SendC, Moves, IsLast
  <1>6. PICK d \in Exponents, r \in [Index -> Exponents] :
          /\ own' = [own EXCEPT ![p] =
               [role |-> "send", d |-> d, r |-> r, pk |-> [n \in Index |-> 0]]]
          /\ Send(p, Chan(p), Item(p, d), TRUE)
    BY DEF SendC
  <1>7. PICK t \in Secrets : t.d = d /\ t.r = r
    <2>1. PICK u : u = sec[job[p]]
      OBVIOUS
    <2>2. u \in Secrets
      BY <1>1, <1>2, <1>3, <2>1, Mine
    <2>3. [d |-> d, r |-> r, k |-> u.k, s |-> u.s] \in Secrets
      BY <1>6, <2>2 DEF Secrets
    <2> QED
      BY <2>3
  <1>8. PICK sec2 : sec2 = [sec EXCEPT ![job[p]] = t]
    OBVIOUS
  <1>9. sec2 \in [1..J -> Secrets] /\ DataOK(sec2)
    BY <1>1, <1>2, <1>3, <1>4, <1>8, ChooseSent
  <1>10. sec2[job[p]] = t
    BY <1>1, <1>2, <1>3, <1>8, Mine
  <1>11. Offset(phase[p], i[p]) = 0 /\ Value(t, Ot(p), 0) = d
    BY <1>2, <1>3, <1>7, <1>9, <1>10, Mine
  <1>12. /\ own' = [q \in Party |-> own'[q]] /\ own'[Peer(p)] = own[Peer(p)]
         /\ own'[p] = [role |-> "send", d |-> d, r |-> r, pk |-> [n \in Index |-> 0]]
    <2>1. PICK o : o = [role |-> "send", d |-> d, r |-> r, pk |-> [n \in Index |-> 0]]
      OBVIOUS
    <2>2. own' = [own EXCEPT ![p] = o] /\ own = [q \in Party |-> own[q]]
      BY <1>2, <1>6, <2>1 DEF PlaceInv
    <2>3. own' = [q \in Party |-> own'[q]] /\ own'[Peer(p)] = own[Peer(p)] /\ own'[p] = o
      BY <2>2, PartyFacts
    <2> QED
      BY <2>1, <2>3
  <1>13. Has(sec2[job[p]], p, Ot(p), Offset(phase[p], i[p]) + 1, own'[p])
    <2>1. own'[p] = SenderHas(t, 1)
      <3>1. SenderGains(t)
        BY Sending
      <3> QED
        BY <1>7, <1>12, <3>1 DEF SenderGains
    <2> QED
      BY <1>3, <1>10, <1>11, <2>1 DEF Has
  <1>14. seeds' = seeds /\ UNCHANGED connVars
    BY DEF SendC
  <1>15. d = Value(sec2[job[p]], Ot(p), Offset(phase[p], i[p]))
    BY <1>10, <1>11
  <1> QED
    BY <1>2, <1>3, <1>4, <1>5, <1>6, <1>9, <1>12, <1>13, <1>14, <1>15, SendStep

LEMMA RecvCStep ==
  ASSUME SetupAssumption, IInv, NEW p \in Party, RecvC(p)
  PROVE  IInv'
  <1>1. PICK sec \in [1..J -> Secrets] : DataOK(sec)
    BY DEF IInv, DataInv
  <1>2. ConnInv /\ PlaceInv /\ BufferInv /\ SyncInv /\ SeedInv
    BY DEF IInv
  <1>3. AsReceiver(p, "C") /\ InSetUp(p) /\ phase[p] = "C" /\ p = SenderOf(Ot(p))
    BY DEF RecvC, AsReceiver, At, IsBaseSender
  <1>4. By(Pos(p)) = Peer(p)
    BY <1>2, <1>3, Turns
  <1>5. Moves(p) /\ ~IsLast(p)
    BY <1>3 DEF RecvC, Moves, IsLast
  <1>6. Arrived(p, Chan(p)) /\ EndRecv(p, Chan(p))
    BY DEF RecvC
  <1>61. PICK k \in [Index -> Exponents], s \in [Index -> {0, 1}] :
          own' = [own EXCEPT ![p] =
            [role |-> "recv", C |-> Read(p, Chan(p)), k |-> k, s |-> s,
             gr |-> [n \in Index |-> 0], data |-> [n \in Index |-> Garbage]]]
    BY DEF RecvC
  <1>62. Offset(phase[p], i[p]) = 0 /\ sec[job[p]] \in Secrets
         /\ Value(sec[job[p]], Ot(p), 0) = sec[job[p]].d
    BY <1>1, <1>2, <1>3, Mine
  <1>63. /\ Read(p, Chan(p)) = sec[job[p]].d
         /\ inbox[p][Chan(p)] # <<>> /\ Pos(p) < Pos(Peer(p))
    <2>1. /\ Read(p, Chan(p)) = Value(sec[job[p]], Ot(p), Offset(phase[p], i[p]))
          /\ inbox[p][Chan(p)] # <<>> /\ Pos(p) < Pos(Peer(p))
      BY <1>1, <1>2, <1>3, <1>6, Heard
    <2> QED
      BY <1>62, <2>1
  <1>7. PICK t \in Secrets : t.d = sec[job[p]].d /\ t.r = sec[job[p]].r /\ t.k = k /\ t.s = s
    <2>1. PICK u : u = sec[job[p]]
      OBVIOUS
    <2>2. u \in Secrets
      BY <1>62, <2>1
    <2>3. [d |-> u.d, r |-> u.r, k |-> k, s |-> s] \in Secrets
      BY <1>61, <2>2 DEF Secrets
    <2> QED
      BY <2>1, <2>3
  <1>8. PICK sec2 : sec2 = [sec EXCEPT ![job[p]] = t]
    OBVIOUS
  <1>9. sec2 \in [1..J -> Secrets] /\ DataOK(sec2)
    BY <1>1, <1>2, <1>3, <1>7, <1>8, <1>63, ChooseDrawn
  <1>10. sec2[job[p]] = t
    BY <1>1, <1>2, <1>3, <1>8, Mine
  <1>12. /\ own' = [q \in Party |-> own'[q]] /\ own'[Peer(p)] = own[Peer(p)]
         /\ own'[p] = [role |-> "recv", C |-> t.d, k |-> t.k, s |-> t.s,
                       gr |-> [n \in Index |-> 0], data |-> [n \in Index |-> Garbage]]
    <2>1. PICK o : o = [role |-> "recv", C |-> t.d, k |-> t.k, s |-> t.s,
                        gr |-> [n \in Index |-> 0], data |-> [n \in Index |-> Garbage]]
      OBVIOUS
    <2>2. own' = [own EXCEPT ![p] = o] /\ own = [q \in Party |-> own[q]]
      BY <1>2, <1>61, <1>63, <1>7, <2>1 DEF PlaceInv
    <2>3. own' = [q \in Party |-> own'[q]] /\ own'[Peer(p)] = own[Peer(p)] /\ own'[p] = o
      BY <2>2, PartyFacts
    <2> QED
      BY <2>1, <2>3
  <1>13. Has(sec2[job[p]], p, Ot(p), Offset(phase[p], i[p]) + 1, own'[p])
    <2>1. own'[p] = ReceiverHas(t, Ot(p), 1)
      <3>1. ReceiverGains(t, Ot(p))
        BY Receiving
      <3> QED
        BY <1>12, <3>1 DEF ReceiverGains
    <2> QED
      BY <1>3, <1>10, <1>62, <2>1 DEF Has
  <1>14. seeds' = seeds /\ UNCHANGED connVars
    BY DEF RecvC
  <1> QED
    BY <1>2, <1>3, <1>4, <1>5, <1>6, <1>63, <1>9, <1>12, <1>13, <1>14, RecvStep

LEMMA SendPkStep ==
  ASSUME SetupAssumption, IInv, NEW p \in Party, SendPk(p)
  PROVE  IInv'
  <1>1. PICK sec \in [1..J -> Secrets] : DataOK(sec)
    BY DEF IInv, DataInv
  <1>2. ConnInv /\ PlaceInv /\ BufferInv /\ SyncInv /\ SeedInv
    BY DEF IInv
  <1>3. AsReceiver(p, "pk") /\ InSetUp(p) /\ phase[p] = "pk" /\ p = SenderOf(Ot(p))
    BY DEF SendPk, AsReceiver, At, IsBaseSender
  <1>4. By(Pos(p)) = p /\ ~Receives(p) /\ ~SyncReceives(p)
    BY <1>2, <1>3, Turns
  <1>5. Moves(p) /\ ~IsLast(p)
    BY <1>3 DEF SendPk, Moves, IsLast
  <1>6. PICK t, n, ot : t = sec[job[p]] /\ n = i[p] /\ ot = Ot(p)
    OBVIOUS
  <1>7. /\ n \in Index /\ n \in 1..Lambda /\ Offset(phase[p], i[p]) = n
        /\ Value(t, ot, n) = Pk(t, n) /\ Has(t, p, ot, n, own[p])
    BY <1>1, <1>2, <1>3, <1>6, Mine
  <1>8. own[p] = ReceiverHas(t, ot, n)
    BY <1>3, <1>6, <1>7, Sizes DEF Has
  <1>9. PublicKey(own[p].C, own[p].k[i[p]], own[p].s[i[p]]) = Pk(t, n)
    BY <1>6, <1>8 DEF ReceiverHas, Pk
  <1>10. PICK v : v = Value(sec[job[p]], Ot(p), Offset(phase[p], i[p]))
    OBVIOUS
  <1>11. Send(p, Chan(p), Item(p, v), FALSE)
    <2>1. v = PublicKey(own[p].C, own[p].k[i[p]], own[p].s[i[p]])
      BY <1>6, <1>7, <1>9, <1>10
    <2> QED
      BY <2>1 DEF SendPk
  <1>12. own' = own /\ seeds' = seeds /\ UNCHANGED connVars
    BY DEF SendPk
  <1>13. own' = [q \in Party |-> own'[q]] /\ own'[Peer(p)] = own[Peer(p)]
    BY <1>2, <1>12 DEF PlaceInv
  <1>14. Has(sec[job[p]], p, Ot(p), Offset(phase[p], i[p]) + 1, own'[p])
    <2>1. ReceiverHas(t, ot, n + 1) = ReceiverHas(t, ot, n)
      <3>1. ReceiverGains(t, ot)
        BY Receiving
      <3> QED
        BY <1>7, <3>1 DEF ReceiverGains
    <2> QED
      BY <1>3, <1>6, <1>7, <1>8, <1>12, <2>1 DEF Has
  <1> QED
    BY <1>1, <1>2, <1>3, <1>4, <1>5, <1>10, <1>11, <1>12, <1>13, <1>14, SendStep

LEMMA RecvPkStep ==
  ASSUME SetupAssumption, IInv, NEW p \in Party, RecvPk(p)
  PROVE  IInv'
  <1>1. PICK sec \in [1..J -> Secrets] : DataOK(sec)
    BY DEF IInv, DataInv
  <1>2. ConnInv /\ PlaceInv /\ BufferInv /\ SyncInv /\ SeedInv
    BY DEF IInv
  <1>3. AsSender(p, "pk") /\ InSetUp(p) /\ phase[p] = "pk" /\ p # SenderOf(Ot(p))
    BY DEF RecvPk, AsSender, At, IsBaseSender
  <1>4. By(Pos(p)) = Peer(p)
    BY <1>2, <1>3, Turns
  <1>5. Moves(p) /\ ~IsLast(p)
    BY <1>3 DEF RecvPk, Moves, IsLast
  <1>6. PICK t, n, ot : t = sec[job[p]] /\ n = i[p] /\ ot = Ot(p)
    OBVIOUS
  <1>7. /\ n \in Index /\ n \in 1..Lambda /\ Offset(phase[p], i[p]) = n
        /\ Value(t, ot, n) = Pk(t, n) /\ Has(t, p, ot, n, own[p])
    BY <1>1, <1>2, <1>3, <1>6, Mine
  <1>8. own[p] = SenderHas(t, n)
    BY <1>3, <1>6, <1>7, Sizes DEF Has
  <1>9. Arrived(p, Chan(p)) /\ EndRecv(p, Chan(p)) /\ seeds' = seeds /\ UNCHANGED connVars
    BY DEF RecvPk
  <1>10. Read(p, Chan(p)) = Pk(t, n) /\ inbox[p][Chan(p)] # <<>>
    <2>1. /\ Read(p, Chan(p)) = Value(sec[job[p]], Ot(p), Offset(phase[p], i[p]))
          /\ inbox[p][Chan(p)] # <<>>
      BY <1>1, <1>2, <1>3, <1>9, Heard
    <2> QED
      BY <1>6, <1>7, <2>1
  <1>11. own' = [q \in Party |-> own'[q]] /\ own'[Peer(p)] = own[Peer(p)]
         /\ own'[p] = SenderHas(t, n + 1)
    <2>1. PICK o : o = [own[p] EXCEPT !.pk = [@ EXCEPT ![n] = Pk(t, n)]]
      OBVIOUS
    <2>2. own' = [own EXCEPT ![p] = o]
      BY <1>6, <1>10, <2>1 DEF RecvPk
    <2>3. own = [q \in Party |-> own[q]]
      BY <1>2 DEF PlaceInv
    <2>4. own' = [q \in Party |-> own'[q]] /\ own'[Peer(p)] = own[Peer(p)] /\ own'[p] = o
      BY <2>2, <2>3, PartyFacts
    <2>5. o = SenderHas(t, n + 1)
      <3>1. SenderGains(t)
        BY Sending
      <3> QED
        BY <1>7, <1>8, <2>1, <3>1 DEF SenderGains
    <2> QED
      BY <2>4, <2>5
  <1>12. Has(sec[job[p]], p, Ot(p), Offset(phase[p], i[p]) + 1, own'[p])
    BY <1>3, <1>6, <1>7, <1>11 DEF Has
  <1> QED
    BY <1>1, <1>2, <1>3, <1>4, <1>5, <1>9, <1>10, <1>11, <1>12, RecvStep

LEMMA SendGrStep ==
  ASSUME SetupAssumption, IInv, NEW p \in Party, SendGr(p)
  PROVE  IInv'
  <1>1. PICK sec \in [1..J -> Secrets] : DataOK(sec)
    BY DEF IInv, DataInv
  <1>2. ConnInv /\ PlaceInv /\ BufferInv /\ SyncInv /\ SeedInv
    BY DEF IInv
  <1>3. AsSender(p, "gr") /\ InSetUp(p) /\ phase[p] = "gr" /\ p # SenderOf(Ot(p))
    BY DEF SendGr, AsSender, At, IsBaseSender
  <1>4. By(Pos(p)) = p /\ ~Receives(p) /\ ~SyncReceives(p)
    BY <1>2, <1>3, Turns
  <1>5. Moves(p) /\ ~IsLast(p)
    BY <1>3 DEF SendGr, Moves, IsLast
  <1>6. PICK t, n, ot : t = sec[job[p]] /\ n = i[p] /\ ot = Ot(p)
    OBVIOUS
  <1>7. /\ n \in Index /\ n \in 1..Lambda /\ Offset(phase[p], i[p]) = Lambda + n
        /\ Value(t, ot, Lambda + n) = t.r[n] /\ Has(t, p, ot, Lambda + n, own[p])
    BY <1>1, <1>2, <1>3, <1>6, Mine
  <1>70. PICK x \in Nat : x = Lambda + n /\ x > Lambda /\ x > 0
    BY <1>7, Sizes
  <1>8. own[p] = SenderHas(t, x)
    BY <1>3, <1>6, <1>7, <1>70 DEF Has
  <1>10. PICK v : v = Value(sec[job[p]], Ot(p), Offset(phase[p], i[p]))
    OBVIOUS
  <1>11. Send(p, Chan(p), Item(p, v), i[p] = Lambda)
    <2>1. own[p].r = t.r
      BY <1>8 DEF SenderHas
    <2>2. v = own[p].r[i[p]]
      BY <1>6, <1>7, <1>10, <2>1
    <2> QED
      BY <2>2 DEF SendGr
  <1>111. PICK fl : Send(p, Chan(p), Item(p, v), fl)
    <2>1. CASE i[p] = Lambda
      <3>1. Send(p, Chan(p), Item(p, v), TRUE)
        BY <1>11, <2>1
      <3> QED
        BY <3>1
    <2>2. CASE i[p] # Lambda
      <3>1. Send(p, Chan(p), Item(p, v), FALSE)
        BY <1>11, <2>2
      <3> QED
        BY <3>1
    <2> QED
      BY <2>1, <2>2
  <1>12. own' = own /\ seeds' = seeds /\ UNCHANGED connVars
    BY DEF SendGr
  <1>13. own' = [q \in Party |-> own'[q]] /\ own'[Peer(p)] = own[Peer(p)]
    BY <1>2, <1>12 DEF PlaceInv
  <1>14. Has(sec[job[p]], p, Ot(p), Offset(phase[p], i[p]) + 1, own'[p])
    <2>1. SenderHas(t, x + 1) = SenderHas(t, x)
      <3>1. SenderGains(t)
        BY Sending
      <3> QED
        BY <1>70, <3>1 DEF SenderGains
    <2> QED
      BY <1>3, <1>6, <1>7, <1>70, <1>8, <1>12, <2>1 DEF Has
  <1> QED
    BY <1>1, <1>2, <1>3, <1>4, <1>5, <1>10, <1>111, <1>12, <1>13, <1>14, SendStep

LEMMA RecvGrStep ==
  ASSUME SetupAssumption, IInv, NEW p \in Party, RecvGr(p)
  PROVE  IInv'
  <1>1. PICK sec \in [1..J -> Secrets] : DataOK(sec)
    BY DEF IInv, DataInv
  <1>2. ConnInv /\ PlaceInv /\ BufferInv /\ SyncInv /\ SeedInv
    BY DEF IInv
  <1>3. AsReceiver(p, "gr") /\ InSetUp(p) /\ phase[p] = "gr" /\ p = SenderOf(Ot(p))
    BY DEF RecvGr, AsReceiver, At, IsBaseSender
  <1>4. By(Pos(p)) = Peer(p)
    BY <1>2, <1>3, Turns
  <1>5. Moves(p) /\ ~IsLast(p)
    BY <1>3 DEF RecvGr, Moves, IsLast
  <1>6. PICK t, n, ot : t = sec[job[p]] /\ n = i[p] /\ ot = Ot(p)
    OBVIOUS
  <1>7. /\ n \in Index /\ n \in 1..Lambda /\ Offset(phase[p], i[p]) = Lambda + n
        /\ Value(t, ot, Lambda + n) = t.r[n] /\ Has(t, p, ot, Lambda + n, own[p])
    BY <1>1, <1>2, <1>3, <1>6, Mine
  <1>8. own[p] = ReceiverHas(t, ot, Lambda + n)
    BY <1>3, <1>6, <1>7, Sizes DEF Has
  <1>9. Arrived(p, Chan(p)) /\ EndRecv(p, Chan(p)) /\ seeds' = seeds /\ UNCHANGED connVars
    BY DEF RecvGr
  <1>10. Read(p, Chan(p)) = t.r[n] /\ inbox[p][Chan(p)] # <<>>
    <2>1. /\ Read(p, Chan(p)) = Value(sec[job[p]], Ot(p), Offset(phase[p], i[p]))
          /\ inbox[p][Chan(p)] # <<>>
      BY <1>1, <1>2, <1>3, <1>9, Heard
    <2> QED
      BY <1>6, <1>7, <2>1
  <1>11. own' = [q \in Party |-> own'[q]] /\ own'[Peer(p)] = own[Peer(p)]
         /\ own'[p] = ReceiverHas(t, ot, Lambda + n + 1)
    <2>0. PICK e : e = (t.r[n] * t.k[n]) % Order
      OBVIOUS
    <2>1. PICK o : o = [own[p] EXCEPT !.gr = [@ EXCEPT ![n] = e]]
      OBVIOUS
    <2>2. own' = [own EXCEPT ![p] = o]
      <3>1. own[p].k = t.k
        BY <1>8 DEF ReceiverHas
      <3>2. (Read(p, Chan(p)) * own[p].k[i[p]]) % Order = e
        BY <1>6, <1>10, <2>0, <3>1
      <3> QED
        BY <1>6, <2>1, <3>2 DEF RecvGr
    <2>3. own = [q \in Party |-> own[q]]
      BY <1>2 DEF PlaceInv
    <2>4. own' = [q \in Party |-> own'[q]] /\ own'[Peer(p)] = own[Peer(p)] /\ own'[p] = o
      BY <2>2, <2>3, PartyFacts
    <2>5. o = ReceiverHas(t, ot, Lambda + n + 1)
      <3>1. ReceiverGains(t, ot)
        BY Receiving
      <3> QED
        BY <1>7, <1>8, <2>0, <2>1, <3>1 DEF ReceiverGains
    <2> QED
      BY <2>4, <2>5
  <1>12. Has(sec[job[p]], p, Ot(p), Offset(phase[p], i[p]) + 1, own'[p])
    BY <1>3, <1>6, <1>7, <1>11 DEF Has
  <1> QED
    BY <1>1, <1>2, <1>3, <1>4, <1>5, <1>9, <1>10, <1>11, <1>12, RecvStep

LEMMA SendMStep ==
  ASSUME SetupAssumption, IInv, NEW p \in Party, SendM(p)
  PROVE  IInv'
  <1>1. PICK sec \in [1..J -> Secrets] : DataOK(sec)
    BY DEF IInv, DataInv
  <1>2. ConnInv /\ PlaceInv /\ BufferInv /\ SyncInv /\ SeedInv
    BY DEF IInv
  <1>3. AsSender(p, "m") /\ InSetUp(p) /\ phase[p] = "m" /\ p # SenderOf(Ot(p))
    BY DEF SendM, AsSender, At, IsBaseSender
  <1>4. By(Pos(p)) = p /\ ~Receives(p) /\ ~SyncReceives(p)
    BY <1>2, <1>3, Turns
  <1>5. Moves(p)
    BY <1>3 DEF SendM, Moves
  <1>6. PICK t, n, ot : t = sec[job[p]] /\ n = i[p] /\ ot = Ot(p)
    OBVIOUS
  <1>7. /\ n \in Index /\ n \in 1..Lambda /\ Offset(phase[p], i[p]) = 2 * Lambda + n
        /\ Value(t, ot, 2 * Lambda + n) = Masked(t, ot, n) /\ Has(t, p, ot, 2 * Lambda + n, own[p])
    BY <1>1, <1>2, <1>3, <1>6, Mine
  <1>70. PICK x \in Nat : x = 2 * Lambda + n /\ x > Lambda /\ x > 0 /\ n < x
    BY <1>7, Sizes
  <1>8. own[p] = SenderHas(t, x)
    BY <1>3, <1>6, <1>7, <1>70 DEF Has
  <1>10. PICK v : v = Value(sec[job[p]], Ot(p), Offset(phase[p], i[p]))
    OBVIOUS
  <1>11. Send(p, Chan(p), Item(p, v), FALSE)
    <2>1. own[p].r = t.r /\ own[p].d = t.d /\ own[p].pk[n] = Pk(t, n)
      BY <1>7, <1>70, <1>8 DEF SenderHas
    <2>2. (own[p].pk[i[p]] * own[p].r[i[p]]) % Order = Mask0(t, n)
      BY <1>6, <2>1 DEF Mask0
    <2>3. v = Masked(t, ot, n)
      BY <1>6, <1>7, <1>10
    <2>4. v = <<[kdf |-> Mask0(t, n), block |-> Key(ot, n, 0)],
                [kdf |-> (t.r[n] * t.d - Mask0(t, n)) % Order, block |-> Key(ot, n, 1)]>>
      BY <2>3 DEF Masked
    <2> QED
      BY <1>6, <2>1, <2>2, <2>4 DEF SendM
  <1>12. own' = own /\ UNCHANGED connVars
    BY DEF SendM
  <1>13. own' = [q \in Party |-> own'[q]] /\ own'[Peer(p)] = own[Peer(p)]
    BY <1>2, <1>12 DEF PlaceInv
  <1>14. ASSUME ~IsLast(p)
         PROVE  /\ seeds' = seeds
                /\ Has(sec[job[p]], p, Ot(p), Offset(phase[p], i[p]) + 1, own'[p])
    <2>1. SenderHas(t, x + 1) = SenderHas(t, x)
      <3>1. SenderGains(t)
        BY Sending
      <3> QED
        BY <1>70, <3>1 DEF SenderGains
    <2>2. seeds' = seeds
      BY <1>3, <1>14 DEF SendM, IsLast
    <2> QED
      BY <1>3, <1>6, <1>7, <1>70, <1>8, <1>12, <2>1, <2>2 DEF Has
  <1>15. ASSUME IsLast(p)
         PROVE  \E s : s # None /\ SeedOK(p, Ot(p), s) /\ Seeded(p, Ot(p), s)
    <2>1. PICK s : s = [k0 |-> [m \in Index |-> Key(Ot(p), m, 0)],
                        k1 |-> [m \in Index |-> Key(Ot(p), m, 1)]]
      OBVIOUS
    <2>2. Seeded(p, Ot(p), s)
      BY <1>15, <2>1 DEF SendM, IsLast
    <2>3. SeedOK(p, Ot(p), s)
      BY <1>3, <2>1 DEF SeedOK
    <2>4. s # None
      BY <2>1 DEF None
    <2> QED
      BY <2>2, <2>3, <2>4
  <1> QED
    BY <1>1, <1>2, <1>3, <1>4, <1>5, <1>10, <1>11, <1>12, <1>13, <1>14, <1>15, SendStep

LEMMA RecvMStep ==
  ASSUME SetupAssumption, IInv, NEW p \in Party, RecvM(p)
  PROVE  IInv'
  <1>1. PICK sec \in [1..J -> Secrets] : DataOK(sec)
    BY DEF IInv, DataInv
  <1>2. ConnInv /\ PlaceInv /\ BufferInv /\ SyncInv /\ SeedInv
    BY DEF IInv
  <1>3. AsReceiver(p, "m") /\ InSetUp(p) /\ phase[p] = "m" /\ p = SenderOf(Ot(p))
    BY DEF RecvM, AsReceiver, At, IsBaseSender
  <1>4. By(Pos(p)) = Peer(p)
    BY <1>2, <1>3, Turns
  <1>5. Moves(p)
    BY <1>3 DEF RecvM, Moves
  <1>6. PICK t, n, ot : t = sec[job[p]] /\ n = i[p] /\ ot = Ot(p)
    OBVIOUS
  <1>7. /\ n \in Index /\ n \in 1..Lambda /\ Offset(phase[p], i[p]) = 2 * Lambda + n
        /\ Value(t, ot, 2 * Lambda + n) = Masked(t, ot, n) /\ Has(t, p, ot, 2 * Lambda + n, own[p])
        /\ t \in Secrets
    BY <1>1, <1>2, <1>3, <1>6, Mine
  <1>8. own[p] = ReceiverHas(t, ot, 2 * Lambda + n)
    <2>1. 2 * Lambda + n > 0
      BY <1>7, Sizes
    <2> QED
      BY <1>3, <1>6, <1>7, <2>1 DEF Has
  <1>9. Arrived(p, Chan(p)) /\ EndRecv(p, Chan(p)) /\ UNCHANGED connVars
    BY DEF RecvM
  <1>10. Read(p, Chan(p)) = Masked(t, ot, n) /\ inbox[p][Chan(p)] # <<>>
    <2>1. /\ Read(p, Chan(p)) = Value(sec[job[p]], Ot(p), Offset(phase[p], i[p]))
          /\ inbox[p][Chan(p)] # <<>>
      BY <1>1, <1>2, <1>3, <1>9, Heard
    <2> QED
      BY <1>6, <1>7, <2>1
  <1>11. PICK data : data = [own[p].data EXCEPT ![n] = Key(ot, n, t.s[n])]
    OBVIOUS
  <1>12. own[p].s = t.s
         /\ Unmask(Read(p, Chan(p))[own[p].s[i[p]] + 1], own[p].gr[i[p]]) = Key(ot, n, t.s[n])
    <2>1. Lambda + n < 2 * Lambda + n
      BY <1>7, Sizes
    <2>2. own[p].s = t.s /\ own[p].gr[n] = (t.r[n] * t.k[n]) % Order
      BY <1>7, <1>8, <2>1 DEF ReceiverHas
    <2>3. Unmask(Masked(t, ot, n)[t.s[n] + 1], (t.r[n] * t.k[n]) % Order) = Key(ot, n, t.s[n])
      BY <1>7, Opens
    <2> QED
      BY <1>6, <1>10, <2>2, <2>3
  <1>13. /\ n < Lambda => own' = [own EXCEPT ![p].data = data] /\ seeds' = seeds
         /\ ~(n < Lambda) => /\ own' = [own EXCEPT ![p] = None]
                             /\ Seeded(p, ot, [k0 |-> data, s |-> t.s])
    BY <1>6, <1>11, <1>12 DEF RecvM
  <1>14. PICK o : o = [own[p] EXCEPT !.data = data]
    OBVIOUS
  <1>15. o = ReceiverHas(t, ot, 2 * Lambda + n + 1)
    <2>1. ReceiverGains(t, ot)
      BY Receiving
    <2>2. o = [own[p] EXCEPT !.data = [@ EXCEPT ![n] = Key(ot, n, t.s[n])]]
      BY <1>11, <1>14
    <2> QED
      BY <1>7, <1>8, <2>1, <2>2 DEF ReceiverGains
  <1>16. own' = [q \in Party |-> own'[q]] /\ own'[Peer(p)] = own[Peer(p)]
         /\ (n < Lambda => own'[p] = o)
    <2>1. own = [q \in Party |-> own[q]]
      BY <1>2 DEF PlaceInv
    <2>2. PICK w : own' = [own EXCEPT ![p] = w] /\ (n < Lambda => w = o)
      <3>1. CASE n < Lambda
        <4>1. own' = [own EXCEPT ![p] = o]
          BY <1>13, <1>14, <3>1
        <4> QED
          BY <4>1
      <3>2. CASE ~(n < Lambda)
        BY <1>13, <3>2
      <3> QED
        BY <3>1, <3>2
    <2> QED
      BY <2>1, <2>2, PartyFacts
  <1>17. ASSUME ~IsLast(p)
         PROVE  /\ seeds' = seeds
                /\ Has(sec[job[p]], p, Ot(p), Offset(phase[p], i[p]) + 1, own'[p])
    <2>1. n < Lambda
      BY <1>3, <1>6, <1>17 DEF IsLast
    <2>2. own'[p] = ReceiverHas(t, ot, 2 * Lambda + n + 1)
      BY <1>15, <1>16, <2>1
    <2> QED
      BY <1>3, <1>6, <1>7, <1>13, <2>1, <2>2 DEF Has
  <1>18. ASSUME IsLast(p)
         PROVE  \E s : s # None /\ SeedOK(p, Ot(p), s) /\ Seeded(p, Ot(p), s)
    <2>0. PICK l \in Nat : l = Lambda
      BY Sizes
    <2>00. n \in 1..l /\ ~(n < l)
      BY <1>6, <1>7, <1>18, <2>0 DEF IsLast
    <2>1. ~(n < Lambda) /\ n = Lambda
      BY <2>0, <2>00
    <2>2. data = [m \in Index |-> Key(ot, m, t.s[m])]
      <3>1. 2 * Lambda + n + 1 = 3 * Lambda + 1
        BY <2>1, Sizes
      <3>2. ReceiverGains(t, ot)
        BY Receiving
      <3>3. o.data = [m \in Index |-> Key(ot, m, t.s[m])]
        BY <1>15, <3>1, <3>2 DEF ReceiverGains
      <3>4. own[p] = [own[p] EXCEPT !.data = own[p].data] /\ o.data = data
        BY <1>8, <1>14 DEF ReceiverHas
      <3> QED
        BY <3>3, <3>4
    <2>3. PICK s : s = [k0 |-> data, s |-> t.s]
      OBVIOUS
    <2>4. Seeded(p, Ot(p), s)
      BY <1>6, <1>13, <2>1, <2>3
    <2>5. SeedOK(p, Ot(p), s)
      <3>1. t.s \in [Index -> {0, 1}]
        BY <1>7, SecretFacts
      <3>2. s = [k0 |-> [m \in Index |-> Key(ot, m, t.s[m])], s |-> t.s]
        BY <2>2, <2>3
      <3> QED
        BY <1>3, <1>6, <3>1, <3>2 DEF SeedOK
    <2>6. s # None
      BY <2>3 DEF None
    <2> QED
      BY <2>4, <2>5, <2>6
  <1> QED
    BY <1>1, <1>2, <1>3, <1>4, <1>5, <1>9, <1>10, <1>16, <1>17, <1>18, RecvStep

LEMMA BeginReceiveStep ==
  ASSUME SetupAssumption, IInv, NEW p \in Party, BeginReceive(p)
  PROVE  IInv'
  <1>1. PICK sec \in [1..J -> Secrets] : DataOK(sec)
    BY DEF IInv, DataInv
  <1>2. ConnInv /\ PlaceInv /\ BufferInv /\ SyncInv /\ SeedInv
    BY DEF IInv
  <1>3. Receives(p) /\ InSetUp(p) /\ EnterRecv(p, Chan(p))
        /\ UNCHANGED connVars /\ UNCHANGED otVars
    BY DEF BeginReceive, Receives
  <1>4. Chan(p) \in Wire /\ phase[p] \in BaseSteps
    BY <1>2, <1>3, InSetUpFacts
  <1>5. /\ BufferInv' /\ ~reading[p] /\ reading' = [reading EXCEPT ![p] = TRUE]
        /\ \A r \in Party : \A d \in Channel : inbox'[r][d] = inbox[r][d]
        /\ \A r \in Party : stream'[r]["io_GC"] = stream[r]["io_GC"]
    BY <1>2, <1>3, <1>4, EnterNet
  <1>6. /\ opened' = opened /\ job' = job /\ phase' = phase /\ i' = i /\ own' = own /\ seeds' = seeds
    BY <1>3 DEF connVars, otVars
  <1>7. reading' \in [Party -> BOOLEAN] /\ \A r \in Party : r # p => reading'[r] = reading[r]
    BY <1>2, <1>5 DEF PlaceInv
  <1>8. ConnInv'
    BY <1>2, <1>3 DEF ConnInv, connVars
  <1>9. PlaceInv'
    <2>1. \A r \in Party : (Receives(r)' <=> Receives(r)) /\ (SyncReceives(r)' <=> SyncReceives(r))
      BY <1>6 DEF Receives, SyncReceives, InSetUp, Connected, IsBaseSender, Ot
    <2>2. \A r \in Party : reading'[r] => Receives(r) \/ SyncReceives(r)
      BY <1>2, <1>3, <1>7 DEF PlaceInv
    <2> QED
      BY <1>2, <1>6, <1>7, <2>1, <2>2 DEF PlaceInv
  <1>10. SyncInv'
    <2>1. \A r \in Party : stream'[r]["io_GC"] = stream[r]["io_GC"]
                           /\ inbox'[r]["io_GC"] = inbox[r]["io_GC"]
      BY <1>5, ChannelFacts
    <2>2. \A r \in Party : \/ phase'[r] = phase[r] /\ reading'[r] = reading[r]
                           \/ phase[r] \in BaseSteps /\ phase'[r] \in BaseSteps \cup {"sync"}
      BY <1>4, <1>6, <1>7
    <2> QED
      BY <1>2, <2>1, <2>2, SyncSame
  <1>11. SeedInv'
    BY <1>2, <1>6, SeedSame
  <1>12. DataOK(sec)'
    BY <1>1, <1>5, <1>6, ChannelFacts, DataSame
  <1> QED
    BY <1>5, <1>8, <1>9, <1>10, <1>11, <1>12 DEF IInv, DataInv

------------------------------------------------------------------------------
(* Before and after the base OTs.                                          *)

LEMMA ConnectingStep ==
  ASSUME SetupAssumption, IInv, NEW p \in Party, Connecting(p)
  PROVE  IInv'
  <1>1. PICK sec \in [1..J -> Secrets] : DataOK(sec)
    BY DEF IInv, DataInv
  <1>2. ConnInv /\ PlaceInv /\ BufferInv /\ SyncInv /\ SeedInv
    BY DEF IInv
  <1>3. netVars' = netVars /\ otVars' = otVars
    BY DEF Connecting, Listen, Connect, Accept
  <1>4. /\ stream' = stream /\ inbox' = inbox /\ reading' = reading
        /\ job' = job /\ phase' = phase /\ i' = i /\ own' = own /\ seeds' = seeds
    BY <1>3 DEF netVars, otVars
  <1>5. Len(Channels) = 3 /\ \A n \in 0..2 : Channels[n + 1] \in Channel
    <2>1. Channels[1] \in Channel /\ Channels[2] \in Channel /\ Channels[3] \in Channel
      BY DEF Channels, Channel
    <2>2. \A n \in 0..2 : n + 1 = 1 \/ n + 1 = 2 \/ n + 1 = 3
      OBVIOUS
    <2> QED
      BY <2>1, <2>2 DEF Channels
  <1>6. \A c \in Channel : c # "none"
    BY DEF Channel
  <1>7. ConnInv' /\ \A r \in Party : opened[r] = 3 => opened'[r] = 3
    <2>1. /\ listening \in Channel \cup {"none"} /\ backlog \in {"none", listening}
          /\ opened \in [Party -> 0..3]
          /\ listening # "none" => opened[ALICE] # 3
      BY <1>2 DEF ConnInv
    <2>2. ALICE \in Party /\ BOB \in Party /\ ALICE # BOB
      BY PartyFacts
    <2>3. CASE Listen
      <3>1. opened[ALICE] \in 0..2
        BY <1>5, <2>1, <2>2, <2>3 DEF Listen, Connected
      <3>2. NextChannel(ALICE) \in Channel
        BY <1>5, <3>1 DEF NextChannel
      <3>3. /\ listening' = NextChannel(ALICE) /\ opened' = opened /\ backlog' = backlog
            /\ listening = "none"
        BY <2>3 DEF Listen
      <3>4. opened[ALICE] # 3
        BY <3>1
      <3> QED
        BY <2>1, <3>2, <3>3, <3>4 DEF ConnInv
    <2>4. CASE Connect
      <3>1. opened[BOB] \in 0..2
        BY <1>5, <2>1, <2>2, <2>4 DEF Connect, Connected
      <3>2. /\ opened' = [opened EXCEPT ![BOB] = @ + 1] /\ listening' = listening
            /\ backlog' = listening
        BY <2>4 DEF Connect
      <3>3. opened' \in [Party -> 0..3] /\ opened'[ALICE] = opened[ALICE]
            /\ \A r \in Party : opened[r] = 3 => opened'[r] = 3
        BY <2>1, <2>2, <3>1, <3>2
      <3> QED
        BY <2>1, <3>2, <3>3 DEF ConnInv
    <2>5. CASE Accept
      <3>1. opened[ALICE] \in 0..2
        BY <2>1, <2>2, <2>5 DEF Accept
      <3>2. /\ opened' = [opened EXCEPT ![ALICE] = @ + 1] /\ listening' = "none"
            /\ backlog' = "none"
        BY <2>5 DEF Accept
      <3>3. opened' \in [Party -> 0..3]
            /\ \A r \in Party : opened[r] = 3 => opened'[r] = 3
        BY <2>1, <2>2, <3>1, <3>2
      <3> QED
        BY <3>2, <3>3 DEF ConnInv
    <2> QED
      BY <2>3, <2>4, <2>5 DEF Connecting
  <1>8. PlaceInv'
    <2>1. ASSUME NEW r \in Party, reading[r]
          PROVE  Receives(r)' \/ SyncReceives(r)'
      <3>1. Receives(r) \/ SyncReceives(r)
        BY <1>2, <2>1 DEF PlaceInv
      <3>2. CASE Receives(r)
        BY <1>4, <1>5, <1>7, <3>2 DEF Receives, InSetUp, Connected, IsBaseSender, Ot
      <3>3. CASE SyncReceives(r)
        BY <1>4, <3>3 DEF SyncReceives
      <3> QED
        BY <3>1, <3>2, <3>3
    <2> QED
      BY <1>2, <1>4, <2>1 DEF PlaceInv
  <1>9. BufferInv'
    BY <1>2, <1>4 DEF BufferInv
  <1>91. SyncInv' /\ SeedInv'
    BY <1>2, <1>4, SyncSame, SeedSame
  <1>10. DataOK(sec)'
    BY <1>1, <1>4, DataSame
  <1> QED
    BY <1>7, <1>8, <1>9, <1>91, <1>10 DEF IInv, DataInv

\* A party past the base OTs moves to another step of the end.
LEMMA PlaceSync ==
  ASSUME SetupAssumption, PlaceInv, NEW p \in Party, job[p] = J + 1, NEW ph \in SyncSteps,
         job' = job, own' = own, opened' = opened, phase' = [phase EXCEPT ![p] = ph],
         i' = [i EXCEPT ![p] = 1], reading' \in [Party -> BOOLEAN],
         \A r \in Party : r # p => reading'[r] = reading[r], ~reading'[p]
  PROVE  /\ PlaceInv'
         /\ phase'[p] = ph /\ \A r \in Party : r # p => phase'[r] = phase[r] /\ i'[r] = i[r]
  <1>1. /\ phase'[p] = ph /\ i'[p] = 1
        /\ \A r \in Party : r # p => phase'[r] = phase[r] /\ i'[r] = i[r]
        /\ phase' = [r \in Party |-> phase'[r]] /\ i' = [r \in Party |-> i'[r]]
    BY DEF PlaceInv
  <1>2. ASSUME NEW r \in Party
        PROVE  ValidPlace(job'[r], phase'[r], i'[r])
    <2>1. CASE r = p
      <3>1. ~(J + 1 <= J) /\ J + 1 \in 1..(J + 1) /\ 1 \in Index
        BY Sizes DEF Index
      <3>2. ph \notin {"pk", "gr", "m"}
        BY DEF SyncSteps
      <3> QED
        BY <1>1, <2>1, <3>1, <3>2 DEF ValidPlace
    <2>2. CASE r # p
      BY <1>1, <2>2 DEF PlaceInv
    <2> QED
      BY <2>1, <2>2
  <1>3. ASSUME NEW r \in Party, reading'[r]
        PROVE  Receives(r)' \/ SyncReceives(r)'
    <2>1. r # p
      BY <1>3
    <2>2. reading[r] /\ phase'[r] = phase[r]
      BY <1>1, <1>3, <2>1
    <2>3. Receives(r) \/ SyncReceives(r)
      BY <2>2 DEF PlaceInv
    <2> QED
      BY <2>2, <2>3 DEF Receives, InSetUp, Connected, IsBaseSender, Ot, SyncReceives
  <1> QED
    BY <1>1, <1>2, <1>3 DEF PlaceInv

LEMMA CopyStep ==
  ASSUME SetupAssumption, IInv, NEW p \in Party, Copy(p)
  PROVE  IInv'
  <1>1. PICK sec \in [1..J -> Secrets] : DataOK(sec)
    BY DEF IInv, DataInv
  <1>2. ConnInv /\ PlaceInv /\ BufferInv /\ SyncInv /\ SeedInv
    BY DEF IInv
  <1>21. \A r \in Party : \A j \in 1..J : j < job[r] => seeds[r][1][OtAt(j)] # None
    BY <1>2 DEF SeedInv
  <1>22. \A r \in Party : phase[r] \in SyncSteps => \A ot \in Instance : seeds[r][2][ot] # None
    BY <1>2 DEF SeedInv
  <1>3. /\ phase[p] = "C" /\ job[p] = J + 1 /\ phase' = [phase EXCEPT ![p] = "sync"]
        /\ seeds' = [seeds EXCEPT ![p][2] =
             [ot \in Instance |-> seeds[p][1][BaseOf(p, ot)]]]
        /\ stream' = stream /\ inbox' = inbox /\ reading' = reading
        /\ job' = job /\ i' = i /\ own' = own /\ connVars' = connVars
    BY SetUpOrder DEF Copy, SetUpDone, netVars
  <1>4. ~reading[p]
    <2>1. ~Receives(p)
      BY <1>3, SetUpOrder, Sizes DEF Receives, InSetUp
    <2>2. ~SyncReceives(p)
      BY <1>3 DEF SyncReceives
    <2> QED
      BY <1>2, <2>1, <2>2 DEF PlaceInv
  <1>5. i' = [i EXCEPT ![p] = 1] /\ i[p] = 1
    <2>1. i[p] = 1
      BY <1>2, <1>3 DEF PlaceInv, ValidPlace
    <2>2. i = [r \in Party |-> i[r]]
      BY <1>2 DEF PlaceInv
    <2> QED
      BY <1>3, <2>1, <2>2
  <1>6. PlaceInv' /\ phase'[p] = "sync" /\ \A r \in Party : r # p => phase'[r] = phase[r]
    <2>1. opened' = opened /\ "sync" \in SyncSteps /\ reading' \in [Party -> BOOLEAN]
      BY <1>2, <1>3 DEF connVars, SyncSteps, PlaceInv
    <2> QED
      BY <1>2, <1>3, <1>4, <1>5, <2>1, PlaceSync
  <1>7. ConnInv' /\ BufferInv'
    BY <1>2, <1>3 DEF ConnInv, connVars, BufferInv
  <1>8. SyncInv'
    <2>1. "C" \in BaseSteps
      BY DEF BaseSteps
    <2> QED
      BY <1>2, <1>3, <1>6, <2>1, SyncSame
  <1>9. SeedInv'
    <2>1. PICK a, b : /\ a = [ot \in Instance |-> seeds[p][1][BaseOf(p, ot)]]
                      /\ b = [seeds[p] EXCEPT ![2] = a]
      OBVIOUS
    <2>2. IsUpdate(b, seeds[p], 2, a) /\ IsUpdate(seeds', seeds, p, b)
      BY <1>3, <2>1, Zenon DEF IsUpdate
    <2>3. /\ Shaped(seeds, Party)
          /\ \A r \in Party : Shaped(seeds[r], 1..2)
          /\ \A r \in Party : \A k \in 1..2 : Shaped(seeds[r][k], Instance)
      <3>1. PICK f : f = [r \in Party |-> [k \in 1..2 |-> [ot \in Instance |-> seeds[r][k][ot]]]]
        OBVIOUS
      <3>2. seeds = f
        BY <1>2, <3>1 DEF SeedInv
      <3>3. /\ Shaped(f, Party)
            /\ \A r \in Party : Shaped(f[r], 1..2)
            /\ \A r \in Party : \A k \in 1..2 : Shaped(f[r][k], Instance)
        BY <3>1 DEF Shaped
      <3> QED
        BY <3>2, <3>3
    <2>4. 1 \in 1..2 /\ 2 \in 1..2
      OBVIOUS
    <2>5. Shaped(b, 1..2) /\ b[2] = a /\ \A k \in 1..2 : k # 2 => b[k] = seeds[p][k]
      BY <2>2, <2>3, <2>4, Updated
    <2>6. Shaped(seeds', Party) /\ seeds'[p] = b /\ \A r \in Party : r # p => seeds'[r] = seeds[r]
      BY <2>2, <2>3, Updated
    <2>7. Shaped(a, Instance) /\ \A ot \in Instance : a[ot] = seeds[p][1][BaseOf(p, ot)]
      BY <2>1 DEF Shaped
    <2>8. seeds' = [r \in Party |-> [k \in 1..2 |-> [ot \in Instance |-> seeds'[r][k][ot]]]]
      <3>1. ASSUME NEW r \in Party
            PROVE  Shaped(seeds'[r], 1..2)
        BY <2>3, <2>5, <2>6
      <3>2. ASSUME NEW r \in Party, NEW k \in 1..2
            PROVE  Shaped(seeds'[r][k], Instance)
        BY <2>3, <2>5, <2>6, <2>7
      <3> QED
        BY <2>6, <3>1, <3>2, Zenon DEF Shaped
    <2>9. ASSUME NEW ot \in Instance
          PROVE  /\ seeds'[p][2][ot] = seeds[p][1][BaseOf(p, ot)]
                 /\ seeds'[p][2][ot] # None /\ SeedOK(p, Origin(2, ot), seeds'[p][2][ot])
      <3>1. PICK c \in Instance : c = BaseOf(p, ot) /\ c = BaseOf(ALICE, ot)
        BY Instances, PartyFacts
      <3>2. PICK j \in 1..J : OtAt(j) = c
        BY Instances
      <3>3. j < job[p]
        BY <1>3, Sizes
      <3>4. seeds[p][1][c] # None
        BY <1>2, <3>2, <3>3 DEF SeedInv
      <3>5. SeedOK(p, Origin(1, c), seeds[p][1][c])
        BY <1>2, <2>4, <3>4 DEF SeedInv
      <3>6. seeds'[p][2][ot] = seeds[p][1][c]
        BY <2>5, <2>6, <2>7, <3>1
      <3>7. Origin(1, c) = c /\ Origin(2, ot) = c
        BY <3>1 DEF Origin
      <3> QED
        BY <3>1, <3>4, <3>5, <3>6, <3>7
    <2>10. /\ seeds'[p][1] = seeds[p][1]
           /\ \A r \in Party : r # p => seeds'[r] = seeds[r]
      BY <2>4, <2>5, <2>6
    <2>11. ASSUME NEW r \in Party, NEW k \in 1..2, NEW ot \in Instance, seeds'[r][k][ot] # None
           PROVE  SeedOK(r, Origin(k, ot), seeds'[r][k][ot])
      <3>1. CASE r = p /\ k = 2
        BY <2>9, <3>1
      <3>2. CASE r = p /\ k = 1
        BY <1>2, <2>10, <2>11, <3>2 DEF SeedInv
      <3>3. CASE r # p
        BY <1>2, <2>10, <2>11, <3>3 DEF SeedInv
      <3> QED
        BY <3>1, <3>2, <3>3
    <2>12. ASSUME NEW r \in Party, NEW j \in 1..J, j < job'[r]
           PROVE  seeds'[r][1][OtAt(j)] # None
      <3>1. seeds'[r][1] = seeds[r][1] /\ job'[r] = job[r]
        BY <1>3, <2>10
      <3> QED
        BY <1>21, <2>12, <3>1
    <2>13. ASSUME NEW r \in Party, phase'[r] \in SyncSteps, NEW ot \in Instance
           PROVE  seeds'[r][2][ot] # None
      <3>1. CASE r = p
        BY <2>9, <3>1
      <3>2. CASE r # p
        <4>1. phase[r] \in SyncSteps
          BY <1>6, <2>13, <3>2
        <4>2. seeds'[r] = seeds[r]
          BY <2>10, <3>2
        <4>3. seeds[r][2][ot] # None
          BY <1>22, <4>1
        <4> QED
          BY <4>2, <4>3
      <3> QED
        BY <3>1, <3>2
    <2> QED
      BY <2>8, <2>11, <2>12, <2>13 DEF SeedInv
  <1>10. DataOK(sec)'
    <2>1. \A r \in Party : Offset(phase'[r], i'[r]) = Offset(phase[r], i[r])
      BY <1>3, <1>6 DEF Offset
    <2> QED
      BY <1>1, <1>3, <2>1, DataSame
  <1> QED
    BY <1>6, <1>7, <1>8, <1>9, <1>10 DEF IInv, DataInv

------------------------------------------------------------------------------
(* The last exchange.                                                      *)

LEMMA GCNet ==
  ASSUME BufferInv, NEW p \in Party, NEW s, NEW u, s.has_sent \in BOOLEAN,
         NEW n \in Nat, IsList(u, n),
         IsPut(stream', stream, p, "io_GC", s), IsPut(inbox', inbox, Peer(p), "io_GC", u)
  PROVE  /\ BufferInv'
         /\ stream'[p]["io_GC"] = s /\ stream'[Peer(p)]["io_GC"] = stream[Peer(p)]["io_GC"]
         /\ inbox'[Peer(p)]["io_GC"] = u /\ inbox'[p]["io_GC"] = inbox[p]["io_GC"]
         /\ \A r \in Party : \A c \in Wire : inbox'[r][c] = inbox[r][c]
  <1>1. PICK q \in Party : q = Peer(p) /\ q # p
    BY PartyFacts
  <1>2. PICK g \in Channel : g = "io_GC" /\ g \notin Wire
    BY ChannelFacts
  <1>21. IsPut(inbox', inbox, q, g, u) /\ IsPut(stream', stream, p, g, s)
    BY <1>1, <1>2
  <1>22. IsGrid(inbox) /\ IsGrid(stream)
    BY DEF BufferInv, IsGrid
  <1>3. /\ inbox'[q][g] = u
        /\ \A r \in Party : \A d \in Channel : r # q \/ d # g => inbox'[r][d] = inbox[r][d]
        /\ IsGrid(inbox')
    BY <1>21, <1>22, PutFacts
  <1>4. /\ stream'[p][g] = s
        /\ \A r \in Party : \A d \in Channel : r # p \/ d # g => stream'[r][d] = stream[r][d]
        /\ IsGrid(stream')
    BY <1>21, <1>22, PutFacts
  <1>5. ASSUME NEW r \in Party, NEW d \in Channel
        PROVE  /\ stream'[r][d].has_sent \in BOOLEAN
               /\ d \in Wire => stream'[r][d].out = <<>>
               /\ \E m \in Nat : IsList(inbox'[r][d], m)
    <2>1. \E m \in Nat : IsList(inbox'[r][d], m)
      BY <1>3, Lists
    <2>2. CASE r = p /\ d = g
      BY <1>2, <1>4, <2>1, <2>2
    <2>3. CASE ~(r = p /\ d = g)
      <3>1. stream'[r][d] = stream[r][d]
        BY <1>4, <2>3
      <3> QED
        BY <2>1, <3>1 DEF BufferInv
    <2> QED
      BY <2>2, <2>3
  <1>6. BufferInv'
    BY <1>3, <1>4, <1>5 DEF BufferInv, IsGrid
  <1>7. \A r \in Party : \A c \in Wire : inbox'[r][c] = inbox[r][c]
    BY <1>2, <1>3, ChannelFacts
  <1>8. inbox'[p][g] = inbox[p][g] /\ stream'[q][g] = stream[q][g]
    BY <1>1, <1>3, <1>4
  <1> QED
    BY <1>1, <1>2, <1>3, <1>4, <1>6, <1>7, <1>8

\* What a step of sync leaves alone.
LEMMA SyncRest ==
  ASSUME SetupAssumption, IInv, NEW p \in Party, phase[p] \in SyncSteps,
         NEW ph \in SyncSteps, phase' = [phase EXCEPT ![p] = ph],
         i' = [i EXCEPT ![p] = 1], connVars' = connVars, job' = job, own' = own, seeds' = seeds,
         reading' \in [Party -> BOOLEAN], ~reading'[p],
         \A r \in Party : r # p => reading'[r] = reading[r],
         \A r \in Party : \A c \in Wire : inbox'[r][c] = inbox[r][c],
         BufferInv', SyncInv'
  PROVE  IInv'
  <1>1. PICK sec \in [1..J -> Secrets] : DataOK(sec)
    BY DEF IInv, DataInv
  <1>2. ConnInv /\ PlaceInv /\ SeedInv
    BY DEF IInv
  <1>3. job[p] = J + 1
    <2>1. ValidPlace(job[p], phase[p], i[p])
      BY <1>2 DEF PlaceInv
    <2>2. phase[p] \notin BaseSteps
      BY DEF SyncSteps, BaseSteps
    <2> QED
      BY <2>1, <2>2, Sizes DEF ValidPlace
  <1>4. /\ PlaceInv'
        /\ phase'[p] = ph /\ \A r \in Party : r # p => phase'[r] = phase[r] /\ i'[r] = i[r]
    <2>1. opened' = opened
      BY DEF connVars
    <2> QED
      BY <1>2, <1>3, <2>1, PlaceSync
  <1>5. ConnInv'
    BY <1>2 DEF ConnInv, connVars
  <1>6. SeedInv'
    BY <1>2, <1>4, SeedSame
  <1>7. \A r \in Party : Offset(phase'[r], i'[r]) = Offset(phase[r], i[r])
    BY <1>4 DEF Offset, SyncSteps
  <1>8. DataOK(sec)'
    BY <1>1, <1>7, DataSame
  <1> QED
    BY <1>4, <1>5, <1>6, <1>8 DEF IInv, DataInv

\* A party that is at its synchronisation, about to send or about to read.
LEMMA SyncFacts ==
  /\ \A p \in Party : SyncSends(p) =>
       /\ phase[p] \in SyncSteps /\ Synced(p) \in SyncSteps
       /\ PlaceInv => ~reading[p]
  /\ \A p \in Party : SyncReceives(p) => phase[p] \in SyncSteps /\ Synced(p) \in SyncSteps
  <1>1. \A p \in Party : SyncSends(p) => ~Receives(p) /\ ~SyncReceives(p)
    BY PartyFacts DEF SyncSends, SyncReceives, Receives
  <1> QED
    BY <1>1 DEF SyncSends, SyncReceives, SyncSteps, Synced, PlaceInv

LEMMA JoinOne ==
  ASSUME NEW w, w = <<>>, NEW e, NEW u, IsJoin(u, w, <<e>>)
  PROVE  IsList(u, 1)
  <1>1. PICK t : t = <<e>>
    OBVIOUS
  <1>2. IsList(t, 1)
    <2>1. t \in Seq({e}) /\ Len(t) = 1
      BY <1>1
    <2> QED
      BY <2>1, SeqIsList
  <1>3. IsList(w, 0) /\ IsJoin(u, w, t)
    BY <1>1, EmptyList
  <1>4. IsList(u, 0 + 1)
    BY <1>2, <1>3, JoinedList
  <1> QED
    BY <1>4

LEMMA SyncSendStep ==
  ASSUME SetupAssumption, IInv, NEW p \in Party, SyncSend(p)
  PROVE  IInv'
  <1>1. PlaceInv /\ BufferInv /\ SyncInv
    BY DEF IInv
  <1>2. /\ SyncSends(p) /\ phase[p] \in SyncSteps /\ Synced(p) \in SyncSteps /\ ~reading[p]
    BY <1>1, SyncFacts DEF SyncSend
  <1>3. /\ phase' = [phase EXCEPT ![p] = Synced(p)] /\ i' = [i EXCEPT ![p] = 1]
        /\ reading' = reading /\ job' = job /\ own' = own /\ seeds' = seeds
        /\ connVars' = connVars
        /\ Send(p, "io_GC", <<[v |-> 0]>>, p = BOB)
    BY DEF SyncSend, Goto, Send, connVars
  <1>4. PICK out : IsJoin(out, stream[p]["io_GC"].out, <<[v |-> 0]>>)
    BY DEF IsJoin
  <1>5. stream[p]["io_GC"].out = <<>>
    <2>1. CASE p = ALICE
      <3>1. phase[ALICE] = "sync"
        BY <1>2, <2>1 DEF SyncSends
      <3>2. IsList(stream[ALICE]["io_GC"].out, 0)
        BY <1>1, <3>1 DEF SyncInv, Handshake
      <3> QED
        BY <2>1, <3>2, EmptyList
    <2>2. CASE p = BOB
      BY <1>1, <2>2 DEF SyncInv, Handshake
    <2> QED
      BY <2>1, <2>2, PartyFacts
  <1>6. IsList(out, 1) /\ Len(out) = 1
    <2>1. IsList(out, 1)
      BY <1>4, <1>5, JoinOne
    <2> QED
      BY <2>1, ListFacts
  <1>7. Len(out) <= BufferSize
    BY <1>6 DEF SetupAssumption
  <1>8. /\ reading' \in [Party -> BOOLEAN] /\ ~reading'[p]
        /\ phase'[p] = Synced(p) /\ \A r \in Party : r # p => phase'[r] = phase[r]
    BY <1>1, <1>2, <1>3 DEF PlaceInv
  <1>9. CASE p = ALICE
    <2>1. PICK s, u : /\ s = [out |-> out, has_sent |-> TRUE, last_call |-> "Send",
                              num_rounds |-> Rounds(stream[p]["io_GC"], "Send")]
                      /\ u = inbox[Peer(p)]["io_GC"]
      OBVIOUS
    <2>2. IsPut(stream', stream, p, "io_GC", s) /\ IsPut(inbox', inbox, Peer(p), "io_GC", u)
      <3>1. p # BOB /\ FullBuffer("io_GC") /\ out = stream[p]["io_GC"].out \o <<[v |-> 0]>>
        BY <1>4, <1>9, PartyFacts, ChannelFacts DEF IsJoin
      <3> QED
        BY <1>3, <1>7, <2>1, <3>1 DEF Send, IsPut
    <2>3. s.has_sent = TRUE /\ s.out = out
      BY <2>1
    <2>4. PICK n \in Nat : IsList(u, n)
      BY <1>1, <2>1, PartyFacts, ChannelFacts, Lists
    <2>5. /\ BufferInv'
          /\ stream'[p]["io_GC"] = s /\ stream'[Peer(p)]["io_GC"] = stream[Peer(p)]["io_GC"]
          /\ inbox'[Peer(p)]["io_GC"] = u /\ inbox'[p]["io_GC"] = inbox[p]["io_GC"]
          /\ \A r \in Party : \A c \in Wire : inbox'[r][c] = inbox[r][c]
      <3>1. s.has_sent \in BOOLEAN
        BY <2>3
      <3> QED
        BY <1>1, <2>2, <2>4, <3>1, GCNet
    <2>6. SyncInv'
      <3>1. phase[ALICE] = "sync" /\ phase'[ALICE] = "synced1" /\ phase'[BOB] = phase[BOB]
        BY <1>2, <1>8, <1>9, PartyFacts DEF SyncSends, Synced
      <3>2. ~reading'[ALICE] /\ stream'[ALICE]["io_GC"].out = out /\ stream'[ALICE]["io_GC"].has_sent
            /\ stream'[BOB]["io_GC"].out = stream[BOB]["io_GC"].out
            /\ inbox'[ALICE]["io_GC"] = inbox[ALICE]["io_GC"]
            /\ inbox'[BOB]["io_GC"] = inbox[BOB]["io_GC"]
        BY <1>8, <1>9, <2>1, <2>3, <2>5, PartyFacts
      <3>3. /\ IsList(inbox[BOB]["io_GC"], 0) /\ IsList(inbox[ALICE]["io_GC"], 0)
            /\ stream[BOB]["io_GC"].out = <<>> /\ ~Begun(phase[BOB])
        BY <1>1, <3>1 DEF SyncInv, Handshake
      <3>4. phase[BOB] # "synced"
        BY <3>3 DEF Begun
      <3> QED
        BY <1>6, <3>1, <3>2, <3>3, <3>4 DEF SyncInv, Handshake
    <2> QED
      BY <1>2, <1>3, <1>8, <2>5, <2>6, SyncRest
  <1>10. CASE p = BOB
    <2>1. PICK s, u : /\ s = [out |-> <<>>, has_sent |-> TRUE, last_call |-> "Send",
                              num_rounds |-> Rounds(stream[p]["io_GC"], "Send")]
                      /\ IsJoin(u, inbox[Peer(p)]["io_GC"], out)
      BY DEF IsJoin
    <2>2. IsPut(stream', stream, p, "io_GC", s) /\ IsPut(inbox', inbox, Peer(p), "io_GC", u)
      <3>1. out = stream[p]["io_GC"].out \o <<[v |-> 0]>>
        BY <1>4 DEF IsJoin
      <3>2. u = inbox[Peer(p)]["io_GC"] \o out
        BY <2>1 DEF IsJoin
      <3> QED
        BY <1>3, <1>10, <2>1, <3>1, <3>2 DEF Send, IsPut
    <2>3. s.has_sent = TRUE /\ s.out = <<>>
      BY <2>1
    <2>4. /\ phase[BOB] = "synced1" /\ phase'[BOB] = "synced" /\ phase'[ALICE] = phase[ALICE]
          /\ reading'[ALICE] = reading[ALICE]
      BY <1>2, <1>3, <1>8, <1>10, PartyFacts DEF SyncSends, Synced
    <2>5. /\ phase[ALICE] = "synced1" /\ reading[ALICE]
          /\ IsList(inbox[ALICE]["io_GC"], 0) /\ IsList(inbox[BOB]["io_GC"], 0)
          /\ IsList(stream[ALICE]["io_GC"].out, 0)
      BY <1>1, <2>4 DEF SyncInv, Handshake, Begun
    <2>6. IsList(u, 1)
      <3>1. IsList(u, 0 + 1)
        BY <1>6, <1>10, <2>1, <2>5, PartyFacts, JoinedList
      <3> QED
        BY <3>1
    <2>7. /\ BufferInv'
          /\ stream'[p]["io_GC"] = s /\ stream'[Peer(p)]["io_GC"] = stream[Peer(p)]["io_GC"]
          /\ inbox'[Peer(p)]["io_GC"] = u /\ inbox'[p]["io_GC"] = inbox[p]["io_GC"]
          /\ \A r \in Party : \A c \in Wire : inbox'[r][c] = inbox[r][c]
      <3>1. s.has_sent \in BOOLEAN
        BY <2>3
      <3> QED
        BY <1>1, <2>2, <2>6, <3>1, GCNet
    <2>8. SyncInv'
      <3>1. stream'[ALICE]["io_GC"] = stream[ALICE]["io_GC"] /\ stream'[BOB]["io_GC"].out = <<>>
            /\ inbox'[ALICE]["io_GC"] = u
            /\ inbox'[BOB]["io_GC"] = inbox[BOB]["io_GC"]
        BY <1>10, <2>3, <2>7, PartyFacts
      <3> QED
        BY <2>4, <2>5, <2>6, <3>1 DEF SyncInv, Handshake, Begun
    <2> QED
      BY <1>2, <1>3, <1>8, <2>7, <2>8, SyncRest
  <1> QED
    BY <1>9, <1>10, PartyFacts

LEMMA SyncEnterStep ==
  ASSUME SetupAssumption, IInv, NEW p \in Party, SyncEnter(p)
  PROVE  IInv'
  <1>1. ConnInv /\ PlaceInv /\ BufferInv /\ SyncInv /\ SeedInv
    BY DEF IInv
  <1>2. PICK sec \in [1..J -> Secrets] : DataOK(sec)
    BY DEF IInv, DataInv
  <1>3. /\ SyncReceives(p) /\ EnterRecv(p, "io_GC") /\ ~reading[p]
        /\ reading' = [reading EXCEPT ![p] = TRUE]
        /\ phase' = phase /\ i' = i /\ job' = job /\ own' = own /\ seeds' = seeds
        /\ opened' = opened /\ connVars' = connVars
    BY DEF SyncEnter, EnterRecv, otVars, connVars
  <1>4. /\ reading' \in [Party -> BOOLEAN] /\ reading'[p]
        /\ \A r \in Party : r # p => reading'[r] = reading[r]
    BY <1>1, <1>3 DEF PlaceInv
  <1>5. PlaceInv'
    <2>1. \A r \in Party : (Receives(r)' <=> Receives(r)) /\ (SyncReceives(r)' <=> SyncReceives(r))
      BY <1>3 DEF Receives, SyncReceives, InSetUp, Connected, IsBaseSender, Ot
    <2>2. \A r \in Party : reading'[r] => Receives(r) \/ SyncReceives(r)
      BY <1>1, <1>3, <1>4 DEF PlaceInv
    <2> QED
      BY <1>1, <1>3, <1>4, <2>1, <2>2 DEF PlaceInv
  <1>6. ConnInv' /\ SeedInv'
    BY <1>1, <1>3, SeedSame DEF ConnInv, connVars
  <1>7. (\A r \in Party : \A c \in Wire : inbox'[r][c] = inbox[r][c]) => DataOK(sec)'
    BY <1>2, <1>3, DataSame
  <1>8. CASE p = ALICE
    <2>1. /\ phase[ALICE] = "synced1" /\ ~reading[ALICE] /\ phase'[BOB] = phase[BOB]
          /\ phase'[ALICE] = "synced1" /\ reading'[ALICE]
      BY <1>3, <1>4, <1>8 DEF SyncReceives
    <2>2. /\ stream[ALICE]["io_GC"].has_sent /\ IsList(stream[ALICE]["io_GC"].out, 1)
          /\ IsList(inbox[BOB]["io_GC"], 0) /\ IsList(inbox[ALICE]["io_GC"], 0)
          /\ stream[BOB]["io_GC"].out = <<>> /\ ~Begun(phase[BOB])
      <3>1. ~Begun(phase[BOB])
        BY <1>1, <2>1 DEF SyncInv, Handshake
      <3>2. phase[BOB] # "synced"
        BY <3>1 DEF Begun
      <3> QED
        BY <1>1, <2>1, <3>1, <3>2 DEF SyncInv, Handshake
    <2>3. PICK s, u : /\ s = [out |-> <<>>, has_sent |-> FALSE, last_call |-> "Recv",
                              num_rounds |-> Rounds(stream[p]["io_GC"], "Recv")]
                      /\ IsJoin(u, inbox[Peer(p)]["io_GC"], stream[p]["io_GC"].out)
      BY DEF IsJoin
    <2>4. IsPut(stream', stream, p, "io_GC", s) /\ IsPut(inbox', inbox, Peer(p), "io_GC", u)
      <3>1. u = inbox[Peer(p)]["io_GC"] \o stream[p]["io_GC"].out
        BY <2>3 DEF IsJoin
      <3>2. stream[p]["io_GC"].has_sent
        BY <1>8, <2>2
      <3> QED
        BY <1>3, <2>3, <3>1, <3>2 DEF EnterRecv, FlushesBeforeRecv, IsPut
    <2>5. s.has_sent \in BOOLEAN /\ s.out = <<>>
      BY <2>3
    <2>6. IsList(u, 1)
      <3>1. IsList(u, 0 + 1)
        BY <1>8, <2>2, <2>3, PartyFacts, JoinedList
      <3> QED
        BY <3>1
    <2>7. /\ BufferInv'
          /\ stream'[p]["io_GC"] = s /\ stream'[Peer(p)]["io_GC"] = stream[Peer(p)]["io_GC"]
          /\ inbox'[Peer(p)]["io_GC"] = u /\ inbox'[p]["io_GC"] = inbox[p]["io_GC"]
          /\ \A r \in Party : \A c \in Wire : inbox'[r][c] = inbox[r][c]
      BY <1>1, <2>4, <2>5, <2>6, GCNet
    <2>8. SyncInv'
      <3>1. stream'[ALICE]["io_GC"].out = <<>> /\ stream'[BOB]["io_GC"].out = <<>>
            /\ inbox'[BOB]["io_GC"] = u
            /\ inbox'[ALICE]["io_GC"] = inbox[ALICE]["io_GC"]
        BY <1>8, <2>2, <2>5, <2>7, PartyFacts
      <3>2. IsList(stream'[ALICE]["io_GC"].out, 0)
        BY <3>1, EmptyList
      <3>3. phase[BOB] # "synced"
        BY <2>2 DEF Begun
      <3> QED
        BY <2>1, <2>2, <2>6, <3>1, <3>2, <3>3 DEF SyncInv, Handshake
    <2> QED
      BY <1>2, <1>5, <1>6, <1>7, <2>7, <2>8 DEF IInv, DataInv
  <1>9. CASE p = BOB
    <2>1. stream[p]["io_GC"].out = <<>> /\ stream[p]["io_GC"].has_sent \in BOOLEAN
      BY <1>1, <1>9, ChannelFacts DEF SyncInv, Handshake, BufferInv
    <2>2. PICK n \in Nat : IsList(inbox[Peer(p)]["io_GC"], n)
      BY <1>1, PartyFacts, ChannelFacts, Lists
    <2>3. inbox[Peer(p)]["io_GC"] \o <<>> = inbox[Peer(p)]["io_GC"]
      <3>1. PICK v : v = inbox[Peer(p)]["io_GC"] \o <<>>
        OBVIOUS
      <3>2. IsJoin(v, inbox[Peer(p)]["io_GC"], <<>>)
        BY <3>1, Zenon DEF IsJoin
      <3>3. v = inbox[Peer(p)]["io_GC"]
        BY <2>2, <3>2, NothingAdded
      <3> QED
        BY <3>1, <3>3
    <2>4. PICK s, u : /\ s = [out |-> <<>>, has_sent |-> FALSE, last_call |-> "Recv",
                              num_rounds |-> Rounds(stream[p]["io_GC"], "Recv")]
                      /\ u = inbox[Peer(p)]["io_GC"]
      OBVIOUS
    <2>5. IsPut(stream', stream, p, "io_GC", s) /\ IsPut(inbox', inbox, Peer(p), "io_GC", u)
      <3>1. CASE stream[p]["io_GC"].has_sent
        BY <1>3, <2>1, <2>3, <2>4, <3>1 DEF EnterRecv, FlushesBeforeRecv, IsPut
      <3>2. CASE ~stream[p]["io_GC"].has_sent
        BY <1>3, <2>1, <2>4, <3>2 DEF EnterRecv, FlushesBeforeRecv, IsPut
      <3> QED
        BY <3>1, <3>2
    <2>6. s.has_sent \in BOOLEAN /\ s.out = <<>> /\ IsList(u, n)
      BY <2>2, <2>4
    <2>7. /\ BufferInv'
          /\ stream'[p]["io_GC"] = s /\ stream'[Peer(p)]["io_GC"] = stream[Peer(p)]["io_GC"]
          /\ inbox'[Peer(p)]["io_GC"] = u /\ inbox'[p]["io_GC"] = inbox[p]["io_GC"]
          /\ \A r \in Party : \A c \in Wire : inbox'[r][c] = inbox[r][c]
      BY <1>1, <2>5, <2>6, GCNet
    <2>8. SyncInv'
      <3>1. stream'[ALICE]["io_GC"] = stream[ALICE]["io_GC"] /\ stream'[BOB]["io_GC"].out = <<>>
            /\ inbox'[BOB]["io_GC"] = inbox[BOB]["io_GC"]
            /\ inbox'[ALICE]["io_GC"] = inbox[ALICE]["io_GC"]
            /\ reading'[ALICE] = reading[ALICE] /\ phase' = phase
        BY <1>3, <1>4, <1>9, <2>4, <2>6, <2>7, PartyFacts
      <3> QED
        BY <1>1, <3>1 DEF SyncInv, Handshake
    <2> QED
      BY <1>2, <1>5, <1>6, <1>7, <2>7, <2>8 DEF IInv, DataInv
  <1> QED
    BY <1>8, <1>9, PartyFacts

LEMMA SyncRecvStep ==
  ASSUME SetupAssumption, IInv, NEW p \in Party, SyncRecv(p)
  PROVE  IInv'
  <1>1. PlaceInv /\ BufferInv /\ SyncInv
    BY DEF IInv
  <1>2. /\ SyncReceives(p) /\ phase[p] \in SyncSteps /\ Synced(p) \in SyncSteps
        /\ reading[p] /\ inbox[p]["io_GC"] # <<>> /\ EndRecv(p, "io_GC")
    BY SyncFacts DEF SyncRecv, Arrived
  <1>3. /\ phase' = [phase EXCEPT ![p] = Synced(p)] /\ i' = [i EXCEPT ![p] = 1]
        /\ job' = job /\ own' = own /\ seeds' = seeds /\ connVars' = connVars
    BY DEF SyncRecv, Goto, connVars
  <1>4. /\ BufferInv' /\ reading' = [reading EXCEPT ![p] = FALSE]
        /\ Shorter(inbox'[p]["io_GC"], inbox[p]["io_GC"])
        /\ \A r \in Party : \A d \in Channel :
             r # p \/ d # "io_GC" => inbox'[r][d] = inbox[r][d]
        /\ stream' = stream
    BY <1>1, <1>2, ChannelFacts, RecvNet
  <1>5. /\ reading' \in [Party -> BOOLEAN] /\ ~reading'[p]
        /\ \A r \in Party : r # p => reading'[r] = reading[r]
        /\ phase'[p] = Synced(p) /\ \A r \in Party : r # p => phase'[r] = phase[r]
    BY <1>1, <1>3, <1>4 DEF PlaceInv
  <1>6. \A r \in Party : \A c \in Wire : inbox'[r][c] = inbox[r][c]
    BY <1>4, ChannelFacts
  <1>7. SyncInv'
    <2>1. ASSUME IsList(inbox[p]["io_GC"], 1)
          PROVE  IsList(inbox'[p]["io_GC"], 0)
      <3>1. IsList(inbox'[p]["io_GC"], 1 - 1)
        BY <1>4, <2>1 DEF Shorter
      <3> QED
        BY <3>1
    <2>2. ~IsList(inbox[p]["io_GC"], 0)
      BY <1>2, EmptyList
    <2>3. CASE p = ALICE
      <3>1. /\ phase[ALICE] = "synced1" /\ phase'[ALICE] = "synced" /\ phase'[BOB] = phase[BOB]
            /\ reading[ALICE] /\ inbox'[BOB]["io_GC"] = inbox[BOB]["io_GC"]
        BY <1>2, <1>4, <1>5, <2>3, PartyFacts, ChannelFacts DEF SyncReceives, Synced
      <3>2. phase[BOB] = "synced" /\ IsList(inbox[ALICE]["io_GC"], 1)
        BY <1>1, <2>2, <2>3, <3>1 DEF SyncInv, Handshake
      <3> QED
        BY <1>1, <1>4, <2>1, <2>3, <3>1, <3>2 DEF SyncInv, Handshake, Begun
    <2>4. CASE p = BOB
      <3>1. /\ phase[BOB] = "sync" /\ phase'[BOB] = "synced1" /\ phase'[ALICE] = phase[ALICE]
            /\ reading'[ALICE] = reading[ALICE]
            /\ inbox'[ALICE]["io_GC"] = inbox[ALICE]["io_GC"]
        BY <1>2, <1>4, <1>5, <2>4, PartyFacts, ChannelFacts DEF SyncReceives, Synced
      <3>2. phase[ALICE] = "synced1" /\ reading[ALICE] /\ IsList(inbox[BOB]["io_GC"], 1)
        BY <1>1, <2>2, <2>4, <3>1 DEF SyncInv, Handshake
      <3> QED
        BY <1>1, <1>4, <2>1, <2>4, <3>1, <3>2 DEF SyncInv, Handshake, Begun
    <2> QED
      BY <2>3, <2>4, PartyFacts
  <1> QED
    BY <1>2, <1>3, <1>4, <1>5, <1>6, <1>7, SyncRest

------------------------------------------------------------------------------
(* The theorems.                                                           *)

LEMMA InitData ==
  ASSUME SetupAssumption, Init
  PROVE  DataInv
  <1>1. PICK e : e \in Exponents
    BY DEF SetupAssumption
  <1> DEFINE t == [d |-> e, r |-> [n \in Index |-> e],
                   k |-> [n \in Index |-> e], s |-> [n \in Index |-> 0]]
             sec == [j \in 1..J |-> t]
  <1>2. sec \in [1..J -> Secrets]
    BY <1>1 DEF Secrets
  <1> HIDE DEF sec
  <1>3. \A p \in Party : /\ job[p] = 1 /\ phase[p] = "C" /\ i[p] = 1 /\ Offset(phase[p], i[p]) = 0
                         /\ \A c \in Wire : inbox[p][c] = <<>>
    BY ChannelFacts DEF Init, Offset
  <1>4. \A p \in Party : Pos(p) = 0
    <2>1. PICK w \in Nat : w = Span
      BY Sizes
    <2>2. (1 - 1) * w + 0 = 0
      OBVIOUS
    <2> QED
      BY <1>3, <2>1, <2>2 DEF Pos, Where
  <1>5. /\ \A p \in Party : Ahead(p, 0, 0)
        /\ \A c \in Wire : InFlight(0, 0, c) = 0
    BY DEF Ahead, InFlight
  <1>6. \A c \in Wire : Carries(sec, 0, 0, c, <<>>)
    BY <1>5, EmptyList DEF Carries
  <1>7. \A p \in Party : Has(sec[job[p]], p, OtAt(job[p]), Offset(phase[p], i[p]), own[p])
    BY <1>3 DEF Has
  <1>8. DataOK(sec)
    BY <1>3, <1>4, <1>5, <1>6, <1>7, PartyFacts DEF DataOK
  <1> QED
    BY <1>2, <1>8 DEF DataInv

LEMMA InitInv ==
  ASSUME SetupAssumption, Init
  PROVE  IInv
  <1>1. ALICE \in Party /\ BOB \in Party
    BY PartyFacts
  <1>2. ConnInv
    BY <1>1 DEF Init, ConnInv
  <1>3. PlaceInv
    <2>1. ValidPlace(1, "C", 1)
      BY Sizes DEF ValidPlace, Index, BaseSteps
    <2> QED
      BY <2>1 DEF Init, PlaceInv
  <1>4. BufferInv
    <2>1. IsList(<<>>, 0)
      BY EmptyList
    <2> QED
      BY <2>1 DEF Init, BufferInv, NewStream
  <1>5. SyncInv
    <2>1. IsList(<<>>, 0)
      BY EmptyList
    <2>2. /\ phase[ALICE] = "C" /\ phase[BOB] = "C" /\ ~Begun(phase[BOB])
          /\ stream[ALICE]["io_GC"].out = <<>> /\ stream[BOB]["io_GC"].out = <<>>
          /\ inbox[ALICE]["io_GC"] = <<>> /\ inbox[BOB]["io_GC"] = <<>>
      BY <1>1, ChannelFacts DEF Init, NewStream, Begun
    <2> QED
      BY <2>1, <2>2 DEF SyncInv, Handshake
  <1>6. SeedInv
    <2>1. \A r \in Party : job[r] = 1 /\ phase[r] \notin SyncSteps
      BY DEF Init, SyncSteps
    <2>2. seeds = [p \in Party |-> [k \in 1..2 |-> [ot \in Instance |-> None]]]
      BY DEF Init
    <2> QED
      BY <2>1, <2>2 DEF SeedInv
  <1> QED
    BY <1>2, <1>3, <1>4, <1>5, <1>6, InitData DEF IInv

LEMMA Stutter ==
  ASSUME IInv, UNCHANGED vars
  PROVE  IInv'
  <1>1. PICK sec \in [1..J -> Secrets] : DataOK(sec)
    BY DEF IInv, DataInv
  <1>2. /\ listening' = listening /\ backlog' = backlog /\ opened' = opened
        /\ stream' = stream /\ inbox' = inbox /\ reading' = reading
        /\ job' = job /\ phase' = phase /\ i' = i /\ own' = own /\ seeds' = seeds
    BY DEF vars, connVars, netVars, otVars
  <1>3. ConnInv' /\ BufferInv'
    BY <1>2 DEF IInv, ConnInv, BufferInv
  <1>4. PlaceInv'
    BY <1>2 DEF IInv, PlaceInv, Receives, SyncReceives, InSetUp, Connected, IsBaseSender, Ot
  <1>5. SyncInv' /\ SeedInv'
    BY <1>2, SyncSame, SeedSame DEF IInv
  <1>6. DataOK(sec)'
    BY <1>1, <1>2, DataSame
  <1> QED
    BY <1>3, <1>4, <1>5, <1>6 DEF IInv, DataInv

THEOREM Inductive ==
  ASSUME SetupAssumption
  PROVE  Spec => []IInv
  <1>1. Init => IInv
    BY InitInv
  <1>2. ASSUME IInv, NEW p \in Party, Step(p)
        PROVE  IInv'
    <2>1. CASE Connecting(p)
      BY <1>2, <2>1, ConnectingStep
    <2>2. CASE BeginReceive(p)
      BY <1>2, <2>2, BeginReceiveStep
    <2>3. CASE SendC(p)
      BY <1>2, <2>3, SendCStep
    <2>4. CASE RecvC(p)
      BY <1>2, <2>4, RecvCStep
    <2>5. CASE SendPk(p)
      BY <1>2, <2>5, SendPkStep
    <2>6. CASE RecvPk(p)
      BY <1>2, <2>6, RecvPkStep
    <2>7. CASE SendGr(p)
      BY <1>2, <2>7, SendGrStep
    <2>8. CASE RecvGr(p)
      BY <1>2, <2>8, RecvGrStep
    <2>9. CASE SendM(p)
      BY <1>2, <2>9, SendMStep
    <2>10. CASE RecvM(p)
      BY <1>2, <2>10, RecvMStep
    <2>11. CASE Copy(p)
      BY <1>2, <2>11, CopyStep
    <2>12. CASE SyncSend(p)
      BY <1>2, <2>12, SyncSendStep
    <2>13. CASE SyncEnter(p)
      BY <1>2, <2>13, SyncEnterStep
    <2>14. CASE SyncRecv(p)
      BY <1>2, <2>14, SyncRecvStep
    <2> QED
      BY <1>2, <2>1, <2>2, <2>3, <2>4, <2>5, <2>6, <2>7, <2>8, <2>9, <2>10, <2>11, <2>12, <2>13,
         <2>14 DEF Step, BaseOT, Sync
  <1>3. IInv /\ [Next]_vars => IInv'
    BY <1>2, Stutter DEF Next
  <1> QED
    BY <1>1, <1>3, PTL DEF Spec

\* Every variable has the type of what it models; io and io_rev hold nothing
\* back, and io_GC never more than its buffer holds (net_io_channel.h).
THEOREM TypeCorrect ==
  ASSUME SetupAssumption
  PROVE  Spec => []TypeOK
  <1>1. ASSUME IInv
        PROVE  TypeOK
    <2>1. ConnInv /\ PlaceInv /\ BufferInv /\ SyncInv
      BY <1>1 DEF IInv
    <2>2. Len(Channels) = 3
      BY DEF Channels
    <2>3. \A p \in Party : ValidPlace(job[p], phase[p], i[p])
      BY <2>1 DEF PlaceInv
    <2>4. \A p \in Party : phase[p] \in Phase /\ i[p] \in Index /\ job[p] \in 1..(Len(SetUps(p)) + 1)
      BY <2>3, SetUpOrder DEF ValidPlace, Phase, BaseSteps, SyncSteps
    <2>5. phase \in [Party -> Phase] /\ i \in [Party -> Index]
      BY <2>1, <2>4 DEF PlaceInv
    <2>6. ASSUME NEW p \in Party, NEW c \in Channel
          PROVE  Len(stream[p][c].out) <= (IF FullBuffer(c) THEN BufferSize ELSE 0)
      <3>1. CASE c \in Wire
        <4>1. stream[p][c].out = <<>> /\ ~FullBuffer(c)
          BY <2>1, <3>1, ChannelFacts DEF BufferInv
        <4>2. Len(stream[p][c].out) = 0
          BY <4>1, EmptyList, ListFacts
        <4> QED
          BY <4>1, <4>2
      <3>2. CASE c = "io_GC"
        <4>1. FullBuffer(c)
          BY <3>2, ChannelFacts
        <4>2. \E n \in 0..1 : IsList(stream[p][c].out, n)
          <5>1. IsList(<<>>, 0)
            BY EmptyList
          <5>2. CASE p = ALICE
            BY <2>1, <3>2, <5>2 DEF SyncInv, Handshake
          <5>3. CASE p = BOB
            BY <2>1, <3>2, <5>1, <5>3 DEF SyncInv, Handshake
          <5> QED
            BY <5>2, <5>3, PartyFacts
        <4>3. PICK w : w = stream[p][c].out
          OBVIOUS
        <4>4. PICK n \in Nat : IsList(w, n) /\ n <= 1
          BY <4>2, <4>3
        <4>5. Len(w) = n
          BY <4>4, ListFacts
        <4>6. PICK b \in Nat : b = BufferSize /\ b >= 1
          BY DEF SetupAssumption
        <4> QED
          BY <4>1, <4>3, <4>4, <4>5, <4>6
      <3> QED
        BY <3>1, <3>2, ChannelFacts
    <2>7. reading \in [Party -> BOOLEAN]
          /\ \A p \in Party : \A c \in Channel : stream[p][c].has_sent \in BOOLEAN
      BY <2>1 DEF PlaceInv, BufferInv
    <2> QED
      BY <2>1, <2>2, <2>4, <2>5, <2>6, <2>7 DEF TypeOK, ConnInv
  <1> QED
    BY <1>1, Inductive, PTL

\* The two parties run the same base OTs in the same order, so that every read
\* of OTNP finds the message of the same instance, step and index that it asks
\* for, and nothing is left unread at the end, although no message says what it
\* is (SetupBaseOTs, OTNP::send_impl and recv_impl, NetIO::sync).
THEOREM StaysInStep ==
  ASSUME SetupAssumption
  PROVE  Spec => []ReadsInStep
  <1>1. ASSUME IInv
        PROVE  ReadsInStep
    <2>1. PlaceInv /\ SyncInv /\ DataInv
      BY <1>1 DEF IInv
    <2>2. PICK sec \in [1..J -> Secrets] : DataOK(sec)
      BY <2>1 DEF DataInv
    <2>3. ASSUME NEW p \in Party, Receives(p), inbox[p][Chan(p)] # <<>>
          PROVE  inbox[p][Chan(p)][1].at = Place(p)
      <3>1. InSetUp(p)
        BY <2>3 DEF Receives
      <3>2. inbox[p][Chan(p)][1] = Message(sec, Pos(p))
        BY <2>1, <2>2, <2>3, <3>1, DataHead
      <3>3. /\ job[p] \in 1..J /\ Ot(p) = OtAt(job[p])
        BY <2>1, <3>1, InSetUpFacts
      <3>4. /\ SetUpOf(Pos(p)) = job[p] /\ OffsetOf(Pos(p)) = Offset(phase[p], i[p])
            /\ PhaseAt(Offset(phase[p], i[p])) = phase[p]
            /\ IndexAt(Offset(phase[p], i[p])) = i[p]
        <4>1. job[p] <= J
          BY <3>3, Sizes
        <4> QED
          BY <2>1, <4>1, Here
      <3>5. Message(sec, Pos(p)).at = <<OtAt(job[p]), phase[p], i[p]>>
        BY <3>4 DEF Message, Said
      <3> QED
        BY <3>2, <3>3, <3>5 DEF Place
    <2>4. ASSUME \A r \in Party : phase[r] = "synced", NEW p \in Party, NEW c \in Channel
          PROVE  inbox[p][c] = <<>>
      <3>1. CASE c \in Wire
        <4>1. PICK q \in Party : q = Peer(p) /\ Peer(q) = p
          BY PartyFacts
        <4>2. \A r \in Party : Pos(r) = End
          <5>1. ASSUME NEW r \in Party
                PROVE  job[r] = J + 1
            <6>1. ValidPlace(job[r], "synced", i[r])
              BY <2>1, <2>4 DEF PlaceInv
            <6> QED
              BY <6>1, Sizes DEF ValidPlace, BaseSteps
          <5> QED
            BY <2>1, <5>1, Here
        <4>3. Carries(sec, End, End, c, inbox[p][c])
          BY <2>2, <3>1, <4>1, <4>2 DEF DataOK
        <4>4. InFlight(End, End, c) = 0
          BY Sizes DEF InFlight
        <4>5. IsList(inbox[p][c], 0)
          BY <4>3, <4>4 DEF Carries
        <4> QED
          BY <4>5, EmptyList
      <3>2. CASE c = "io_GC"
        <4>1. phase[ALICE] = "synced" /\ phase[BOB] = "synced"
          BY <2>4, PartyFacts
        <4>2. IsList(inbox[ALICE]["io_GC"], 0) /\ IsList(inbox[BOB]["io_GC"], 0)
          BY <2>1, <4>1 DEF SyncInv, Handshake
        <4> QED
          BY <3>2, <4>2, EmptyList, PartyFacts
      <3> QED
        BY <3>1, <3>2, ChannelFacts
    <2> QED
      BY <2>3, <2>4 DEF ReadsInStep
  <1> QED
    BY <1>1, Inductive, PTL

\* Whatever the parties draw, in every instance of the pack that ran the base
\* OTs and of its copy, the keys of the sender are those of the receiver that
\* its choice bits name (OTNP, OTPack::copy).
THEOREM SeedsAgree ==
  ASSUME SetupAssumption
  PROVE  Spec => []SeedsMatch
  <1>1. ASSUME IInv
        PROVE  SeedsMatch
    <2>1. SeedInv
      BY <1>1 DEF IInv
    <2>2. ASSUME NEW k \in 1..2, NEW ot \in Instance,
                 seeds[SenderOf(ot)][k][ot] # None, seeds[Peer(SenderOf(ot))][k][ot] # None,
                 NEW n \in Index
          PROVE  seeds[SenderOf(ot)][k][ot].k0[n] =
                   (IF seeds[SenderOf(ot)][k][ot].s[n] = 1
                    THEN seeds[Peer(SenderOf(ot))][k][ot].k1
                    ELSE seeds[Peer(SenderOf(ot))][k][ot].k0)[n]
      <3>1. PICK p \in Party, q \in Party : p = SenderOf(ot) /\ q = Peer(p) /\ q # p
        BY Instances, PartyFacts
      <3>2. PICK c : c = Origin(k, ot) /\ SenderOf(c) = p
        BY <3>1, Instances DEF Origin
      <3>3. PICK v, w : v = seeds[p][k][ot] /\ w = seeds[q][k][ot]
        OBVIOUS
      <3>4. SeedOK(p, c, v) /\ SeedOK(q, c, w)
        BY <2>1, <2>2, <3>1, <3>2, <3>3 DEF SeedInv
      <3>5. PICK s \in [Index -> {0, 1}] :
              v = [k0 |-> [m \in Index |-> Key(c, m, s[m])], s |-> s]
        BY <3>2, <3>4 DEF SeedOK
      <3>6. w = [k0 |-> [m \in Index |-> Key(c, m, 0)], k1 |-> [m \in Index |-> Key(c, m, 1)]]
        BY <3>1, <3>2, <3>4 DEF SeedOK
      <3>7. v.k0[n] = Key(c, n, s[n]) /\ v.s = s /\ s[n] \in {0, 1}
        BY <3>5
      <3>8. w.k0[n] = Key(c, n, 0) /\ w.k1[n] = Key(c, n, 1)
        BY <3>6
      <3>9. v.k0[n] = (IF v.s[n] = 1 THEN w.k1 ELSE w.k0)[n]
        BY <3>7, <3>8
      <3> QED
        BY <3>1, <3>3, <3>9
    <2> QED
      BY <2>2 DEF SeedsMatch
  <1> QED
    BY <1>1, Inductive, PTL

\* A party that has left NetIO::sync knows that the other has reached it, with
\* every instance of both packs seeded.
THEOREM SyncIsBarrier ==
  ASSUME SetupAssumption
  PROVE  Spec => []Barrier
  <1>1. ASSUME IInv
        PROVE  Barrier
    <2>1. PlaceInv /\ SyncInv /\ SeedInv
      BY <1>1 DEF IInv
    <2>2. ASSUME NEW p \in Party, phase[p] = "synced"
          PROVE  /\ phase[Peer(p)] \in {"sync", "synced1", "synced"}
                 /\ \A k \in 1..2 : \A ot \in Instance : seeds[Peer(p)][k][ot] # None
      <3>1. PICK q \in Party : q = Peer(p)
        BY PartyFacts
      <3>2. phase[q] \in SyncSteps
        <4>1. CASE p = ALICE
          <5>1. phase[BOB] = "synced"
            BY <2>1, <2>2, <4>1 DEF SyncInv, Handshake
          <5> QED
            BY <3>1, <4>1, <5>1, PartyFacts DEF SyncSteps
        <4>2. CASE p = BOB
          <5>1. phase[ALICE] \in {"synced1", "synced"}
            BY <2>1, <2>2, <4>2 DEF SyncInv, Handshake, Begun
          <5> QED
            BY <3>1, <4>2, <5>1, PartyFacts DEF SyncSteps
        <4> QED
          BY <4>1, <4>2, PartyFacts
      <3>3. job[q] = J + 1
        <4>1. ValidPlace(job[q], phase[q], i[q])
          BY <2>1 DEF PlaceInv
        <4>2. phase[q] \notin BaseSteps
          BY <3>2 DEF SyncSteps, BaseSteps
        <4> QED
          BY <4>1, <4>2, Sizes DEF ValidPlace
      <3>4. \A ot \in Instance : seeds[q][2][ot] # None
        BY <2>1, <3>2 DEF SeedInv
      <3>5. ASSUME NEW ot \in Instance
            PROVE  seeds[q][1][ot] # None
        <4>1. PICK j \in 1..J : OtAt(j) = ot
          BY Instances
        <4>2. j < job[q]
          BY <3>3, Sizes
        <4>3. seeds[q][1][OtAt(j)] # None
          BY <2>1, <4>2 DEF SeedInv
        <4> QED
          BY <4>1, <4>3
      <3>6. \A k \in 1..2 : k = 1 \/ k = 2
        OBVIOUS
      <3> QED
        BY <3>1, <3>2, <3>4, <3>5, <3>6 DEF SyncSteps
    <2> QED
      BY <2>2 DEF Barrier
  <1> QED
    BY <1>1, Inductive, PTL

------------------------------------------------------------------------------
(* The pool of threads (ThreadPool).                                       *)

CONSTANTS Workers, Tasks, Posted, Children, MaxSpurious
VARIABLES tasks, stop, mutex, sleeping, pc, task, todo, accepted, finished, spurious
TP == INSTANCE Pool

\* What the lock protects: a sleeping worker is at the wait, a worker holds a
\* task exactly while it runs it, only the owner stops the pool, and a worker
\* returns only once the pool is stopped and the queue is empty, for good.
ThreadsInv ==
  /\ \A w \in sleeping : pc[w] = "loop"
  /\ \A w \in Workers : /\ pc[w] \notin {"stopping", "notify_all", "join"}
                        /\ task[w] # TP!None <=> pc[w] \in {"run", "enqueue", "notify"}
  /\ \A w \in TP!Threads : pc[w] = "enqueue" => todo[w] # <<>>
  /\ stop <=> pc[TP!Owner] \in {"notify_all", "join", "returned"}
  /\ pc[TP!Owner] \notin {"loop", "wait"}
  /\ \A w \in Workers : pc[w] = "returned" => stop /\ tasks = <<>>
  /\ pc[TP!Owner] = "returned" => \A w \in Workers : pc[w] = "returned"

\* Every accepted task is in the queue, in the hands of a worker, or done.
Held == {task[w] : w \in {v \in Workers : task[v] # TP!None}}
TasksInv == TP!ToSet(accepted) = TP!ToSet(tasks) \cup Held \cup finished

PoolInv == TP!TypeOK /\ ThreadsInv /\ TasksInv /\ TP!NoLostWakeup

------------------------------------------------------------------------------
LEMMA ThreadFacts ==
  ASSUME TP!PoolAssumption
  PROVE  /\ TP!Owner \in TP!Threads /\ Workers \subseteq TP!Threads
         /\ \A w \in Workers : w # TP!Owner /\ w # TP!None
         /\ \A w \in TP!Threads : w # TP!None /\ (w # TP!Owner => w \in Workers)
         /\ \A t \in Tasks : t # TP!None
         /\ \E w : w \in Workers
  BY DEF TP!PoolAssumption, TP!Threads

LEMMA QueueHead ==
  ASSUME NEW S, NEW s \in Seq(S), s # <<>>
  PROVE  /\ Head(s) \in S /\ Tail(s) \in Seq(S)
         /\ TP!ToSet(s) = {Head(s)} \cup TP!ToSet(Tail(s))
  <1>1. Head(s) \in S /\ Tail(s) \in Seq(S) /\ Len(s) \in Nat \ {0} /\ Len(Tail(s)) = Len(s) - 1
    BY EmptySeq
  <1>2. \A k \in 1..(Len(s) - 1) : Tail(s)[k] = s[k + 1]
    BY <1>1
  <1>3. Head(s) = s[1]
    BY <1>1
  <1>4. DOMAIN s = 1..Len(s) /\ DOMAIN Tail(s) = 1..(Len(s) - 1)
    BY <1>1
  <1>5. ASSUME NEW x \in TP!ToSet(s)
        PROVE  x \in {Head(s)} \cup TP!ToSet(Tail(s))
    <2>1. PICK k \in 1..Len(s) : x = s[k]
      BY <1>4 DEF TP!ToSet
    <2>2. CASE k = 1
      BY <1>3, <2>1, <2>2
    <2>3. CASE k # 1
      <3>1. k - 1 \in 1..(Len(s) - 1) /\ k - 1 + 1 = k
        BY <1>1, <2>3
      <3>2. Tail(s)[k - 1] = x
        BY <1>2, <2>1, <3>1
      <3> QED
        BY <1>4, <3>1, <3>2 DEF TP!ToSet
    <2> QED
      BY <2>2, <2>3
  <1>6. ASSUME NEW x \in {Head(s)} \cup TP!ToSet(Tail(s))
        PROVE  x \in TP!ToSet(s)
    <2>1. CASE x = Head(s)
      <3>1. 1 \in 1..Len(s)
        BY <1>1
      <3> QED
        BY <1>3, <1>4, <2>1, <3>1 DEF TP!ToSet
    <2>2. CASE x \in TP!ToSet(Tail(s))
      <3>1. PICK k \in 1..(Len(s) - 1) : x = Tail(s)[k]
        BY <1>4, <2>2 DEF TP!ToSet
      <3>2. k + 1 \in 1..Len(s) /\ x = s[k + 1]
        BY <1>1, <1>2, <3>1
      <3> QED
        BY <1>4, <3>2 DEF TP!ToSet
    <2> QED
      BY <2>1, <2>2
  <1> QED
    BY <1>1, <1>5, <1>6

LEMMA QueueEnd ==
  ASSUME NEW S, NEW s \in Seq(S), NEW x \in S
  PROVE  /\ Append(s, x) \in Seq(S) /\ Append(s, x) # <<>>
         /\ TP!ToSet(Append(s, x)) = TP!ToSet(s) \cup {x}
  <1>1. /\ Append(s, x) \in Seq(S) /\ Len(Append(s, x)) = Len(s) + 1
        /\ \A k \in 1..Len(s) : Append(s, x)[k] = s[k]
        /\ Append(s, x)[Len(s) + 1] = x /\ Len(s) \in Nat
    BY AppendProperties
  <1>2. DOMAIN s = 1..Len(s) /\ DOMAIN Append(s, x) = 1..(Len(s) + 1)
    BY <1>1
  <1>3. ASSUME NEW y \in TP!ToSet(Append(s, x))
        PROVE  y \in TP!ToSet(s) \cup {x}
    <2>1. PICK k \in 1..(Len(s) + 1) : y = Append(s, x)[k]
      BY <1>2 DEF TP!ToSet
    <2>2. CASE k \in 1..Len(s)
      BY <1>1, <1>2, <2>1, <2>2 DEF TP!ToSet
    <2>3. CASE k = Len(s) + 1
      BY <1>1, <2>1, <2>3
    <2> QED
      BY <1>1, <2>2, <2>3
  <1>4. ASSUME NEW y \in TP!ToSet(s) \cup {x}
        PROVE  y \in TP!ToSet(Append(s, x))
    <2>1. CASE y = x
      <3>1. Len(s) + 1 \in 1..(Len(s) + 1)
        BY <1>1
      <3> QED
        BY <1>1, <1>2, <2>1, <3>1 DEF TP!ToSet
    <2>2. CASE y \in TP!ToSet(s)
      <3>1. PICK k \in 1..Len(s) : y = s[k]
        BY <1>2, <2>2 DEF TP!ToSet
      <3>2. k \in 1..(Len(s) + 1) /\ Append(s, x)[k] = y
        BY <1>1, <3>1
      <3> QED
        BY <1>2, <3>2 DEF TP!ToSet
    <2> QED
      BY <2>1, <2>2
  <1>5. Append(s, x) # <<>>
    BY <1>1, EmptySeq
  <1> QED
    BY <1>1, <1>3, <1>4, <1>5

------------------------------------------------------------------------------
(* The steps, one by one: what each does to the places, the lock, the queue *)
(* and the sleepers.                                                        *)

LEMMA TypeStep ==
  ASSUME TP!PoolAssumption, TP!TypeOK, ThreadsInv, [TP!Next]_(TP!vars)
  PROVE  TP!TypeOK'
  <1> USE ThreadFacts
  <1>1. ASSUME NEW w \in TP!Threads, TP!Lock(w)
        PROVE  TP!TypeOK'
    BY <1>1 DEF TP!Lock, TP!MutexFree, TP!Enter, TP!history, TP!TypeOK
  <1>2. ASSUME NEW w \in TP!Threads, TP!Sleep(w)
        PROVE  TP!TypeOK'
    <2>1. w \in Workers
      BY <1>2 DEF TP!Sleep, ThreadsInv
    <2> QED
      BY <1>2, <2>1 DEF TP!Sleep, TP!Enter, TP!history, TP!TypeOK
  <1>3. ASSUME NEW w \in TP!Threads, TP!Return(w)
        PROVE  TP!TypeOK'
    BY <1>3 DEF TP!Return, TP!Enter, TP!history, TP!TypeOK
  <1>4. ASSUME NEW w \in TP!Threads, TP!Take(w)
        PROVE  TP!TypeOK'
    <2>1. w \in Workers
      BY <1>4 DEF TP!Take, ThreadsInv
    <2>2. Head(tasks) \in Tasks /\ Tail(tasks) \in Seq(Tasks)
      BY <1>4, QueueHead DEF TP!Take, TP!Ready, TP!MayReturn, TP!TypeOK
    <2>3. Children[Head(tasks)] \in Seq(Tasks)
      BY <2>2 DEF TP!PoolAssumption
    <2> QED
      BY <1>4, <2>1, <2>2, <2>3 DEF TP!Take, TP!Enter, TP!TypeOK
  <1>5. ASSUME NEW w \in TP!Threads, TP!Run(w)
        PROVE  TP!TypeOK'
    <2>1. task[w] \in Tasks
      BY <1>5 DEF TP!Run, ThreadsInv, TP!TypeOK
    <2> QED
      BY <1>5, <2>1 DEF TP!Run, TP!Enter, TP!TypeOK
  <1>6. ASSUME NEW w \in TP!Threads, TP!Throw(w)
        PROVE  TP!TypeOK'
    BY <1>6 DEF TP!Throw, TP!Enter, TP!history, TP!TypeOK
  <1>7. ASSUME NEW w \in TP!Threads, TP!Emplace(w)
        PROVE  TP!TypeOK'
    <2>1. todo[w] \in Seq(Tasks) /\ todo[w] # <<>>
      BY <1>7 DEF TP!Emplace, ThreadsInv, TP!TypeOK
    <2>2. Head(todo[w]) \in Tasks /\ Tail(todo[w]) \in Seq(Tasks)
      BY <2>1, QueueHead
    <2>3. Append(tasks, Head(todo[w])) \in Seq(Tasks) /\ Append(accepted, Head(todo[w])) \in Seq(Tasks)
      BY <2>2 DEF TP!TypeOK
    <2> QED
      BY <1>7, <2>2, <2>3 DEF TP!Emplace, TP!Enter, TP!TypeOK
  <1>8. ASSUME NEW w \in TP!Threads, TP!NotifyOne(w)
        PROVE  TP!TypeOK'
    BY <1>8 DEF TP!NotifyOne, TP!Enter, TP!history, TP!TypeOK
  <1>9. CASE TP!SetStop
    BY <1>9 DEF TP!SetStop, TP!Enter, TP!history, TP!TypeOK
  <1>10. CASE TP!NotifyAll
    BY <1>10 DEF TP!NotifyAll, TP!Enter, TP!history, TP!TypeOK
  <1>11. CASE TP!Join
    BY <1>11 DEF TP!Join, TP!Enter, TP!history, TP!TypeOK
  <1>12. ASSUME NEW w \in Workers, TP!Spurious(w)
         PROVE  TP!TypeOK'
    BY <1>12 DEF TP!Spurious, TP!PoolAssumption, TP!TypeOK
  <1>13. CASE UNCHANGED TP!vars
    BY <1>13 DEF TP!vars, TP!TypeOK
  <1> QED
    BY <1>1, <1>2, <1>3, <1>4, <1>5, <1>6, <1>7, <1>8, <1>9, <1>10, <1>11, <1>12, <1>13
       DEF TP!Next, TP!Step, TP!Destroy

LEMMA ThreadsStep ==
  ASSUME TP!PoolAssumption, TP!TypeOK, ThreadsInv, [TP!Next]_(TP!vars)
  PROVE  ThreadsInv'
  <1> USE ThreadFacts
  <1>1. ASSUME NEW w \in TP!Threads, TP!Lock(w)
        PROVE  ThreadsInv'
    BY <1>1 DEF TP!Lock, TP!MutexFree, TP!Enter, TP!history, TP!TypeOK, ThreadsInv
  <1>2. ASSUME NEW w \in TP!Threads, TP!Sleep(w)
        PROVE  ThreadsInv'
    BY <1>2 DEF TP!Sleep, TP!Enter, TP!history, TP!TypeOK, ThreadsInv
  <1>3. ASSUME NEW w \in TP!Threads, TP!Return(w)
        PROVE  ThreadsInv'
    BY <1>3 DEF TP!Return, TP!MayReturn, TP!Enter, TP!history, TP!TypeOK, ThreadsInv
  <1>4. ASSUME NEW w \in TP!Threads, TP!Take(w)
        PROVE  ThreadsInv'
    <2>1. w \in Workers
      BY <1>4 DEF TP!Take, ThreadsInv
    <2>2. tasks # <<>> /\ Head(tasks) \in Tasks
      BY <1>4, QueueHead DEF TP!Take, TP!Ready, TP!MayReturn, TP!TypeOK
    <2> QED
      BY <1>4, <2>1, <2>2 DEF TP!Take, TP!Enter, TP!TypeOK, ThreadsInv
  <1>5. ASSUME NEW w \in TP!Threads, TP!Run(w)
        PROVE  ThreadsInv'
    BY <1>5 DEF TP!Run, TP!Enter, TP!TypeOK, ThreadsInv
  <1>6. ASSUME NEW w \in TP!Threads, TP!Throw(w)
        PROVE  ThreadsInv'
    BY <1>6 DEF TP!Throw, TP!Enter, TP!history, TP!TypeOK, ThreadsInv
  <1>7. ASSUME NEW w \in TP!Threads, TP!Emplace(w)
        PROVE  ThreadsInv'
    BY <1>7 DEF TP!Emplace, TP!Refuses, TP!Enter, TP!TypeOK, ThreadsInv
  <1>8. ASSUME NEW w \in TP!Threads, TP!NotifyOne(w)
        PROVE  ThreadsInv'
    BY <1>8 DEF TP!NotifyOne, TP!Enter, TP!history, TP!TypeOK, ThreadsInv
  <1>9. CASE TP!SetStop
    BY <1>9 DEF TP!SetStop, TP!Enter, TP!history, TP!TypeOK, ThreadsInv
  <1>10. CASE TP!NotifyAll
    BY <1>10 DEF TP!NotifyAll, TP!Enter, TP!history, TP!TypeOK, ThreadsInv
  <1>11. CASE TP!Join
    BY <1>11 DEF TP!Join, TP!Enter, TP!history, TP!TypeOK, ThreadsInv
  <1>12. ASSUME NEW w \in Workers, TP!Spurious(w)
         PROVE  ThreadsInv'
    BY <1>12 DEF TP!Spurious, TP!TypeOK, ThreadsInv
  <1>13. CASE UNCHANGED TP!vars
    BY <1>13 DEF TP!vars, ThreadsInv
  <1> QED
    BY <1>1, <1>2, <1>3, <1>4, <1>5, <1>6, <1>7, <1>8, <1>9, <1>10, <1>11, <1>12, <1>13
       DEF TP!Next, TP!Step, TP!Destroy

LEMMA TasksStep ==
  ASSUME TP!PoolAssumption, TP!TypeOK, ThreadsInv, TasksInv, [TP!Next]_(TP!vars)
  PROVE  TasksInv'
  <1> USE ThreadFacts
  <1>0. ASSUME UNCHANGED <<tasks, task, accepted, finished>>
        PROVE  TasksInv'
    BY <1>0 DEF TasksInv, Held
  <1>1. ASSUME NEW w \in TP!Threads, TP!Take(w)
        PROVE  TasksInv'
    <2>1. w \in Workers /\ task[w] = TP!None
      BY <1>1 DEF TP!Take, ThreadsInv
    <2>2. tasks \in Seq(Tasks) /\ tasks # <<>>
      BY <1>1 DEF TP!Take, TP!Ready, TP!MayReturn, TP!TypeOK
    <2>3. Head(tasks) \in Tasks /\ TP!ToSet(tasks) = {Head(tasks)} \cup TP!ToSet(Tail(tasks))
      BY <2>2, QueueHead
    <2>4. Head(tasks) # TP!None
      BY <2>3
    <2>5. Held' = Held \cup {Head(tasks)}
      BY <1>1, <2>1, <2>4 DEF TP!Take, Held, TP!TypeOK
    <2>6. tasks' = Tail(tasks) /\ accepted' = accepted /\ finished' = finished
      BY <1>1 DEF TP!Take
    <2> QED
      BY <2>3, <2>5, <2>6 DEF TasksInv
  <1>2. ASSUME NEW w \in TP!Threads, TP!Run(w)
        PROVE  TasksInv'
    <2>1. w \in Workers /\ task[w] # TP!None
      BY <1>2 DEF TP!Run, ThreadsInv
    <2>2. Held' \cup {task[w]} = Held
      BY <1>2, <2>1 DEF TP!Run, Held, TP!TypeOK
    <2>3. /\ tasks' = tasks /\ accepted' = accepted
          /\ finished' = finished \cup {task[w]}
      BY <1>2 DEF TP!Run
    <2> QED
      BY <2>2, <2>3 DEF TasksInv
  <1>3. ASSUME NEW w \in TP!Threads, TP!Emplace(w)
        PROVE  TasksInv'
    <2>1. todo[w] \in Seq(Tasks) /\ todo[w] # <<>>
      BY <1>3 DEF TP!Emplace, ThreadsInv, TP!TypeOK
    <2>2. Head(todo[w]) \in Tasks
      BY <2>1, QueueHead
    <2>3. /\ TP!ToSet(Append(tasks, Head(todo[w]))) = TP!ToSet(tasks) \cup {Head(todo[w])}
          /\ TP!ToSet(Append(accepted, Head(todo[w]))) = TP!ToSet(accepted) \cup {Head(todo[w])}
      BY <2>2, QueueEnd DEF TP!TypeOK
    <2>4. Held' = Held
      BY <1>3 DEF TP!Emplace, Held
    <2>5. /\ tasks' = Append(tasks, Head(todo[w])) /\ finished' = finished
          /\ accepted' = Append(accepted, Head(todo[w]))
      BY <1>3 DEF TP!Emplace
    <2> QED
      BY <2>3, <2>4, <2>5 DEF TasksInv
  <1>4. ASSUME NEW w \in TP!Threads,
               TP!Lock(w) \/ TP!Sleep(w) \/ TP!Return(w) \/ TP!Throw(w) \/ TP!NotifyOne(w)
        PROVE  UNCHANGED <<tasks, task, accepted, finished>>
    BY <1>4 DEF TP!Lock, TP!Sleep, TP!Return, TP!Throw, TP!NotifyOne, TP!history
  <1>5. CASE TP!Destroy
    BY <1>0, <1>5 DEF TP!Destroy, TP!SetStop, TP!NotifyAll, TP!Join, TP!history
  <1>6. ASSUME NEW w \in Workers, TP!Spurious(w)
        PROVE  TasksInv'
    BY <1>0, <1>6 DEF TP!Spurious
  <1>7. CASE UNCHANGED TP!vars
    BY <1>0, <1>7 DEF TP!vars
  <1> QED
    BY <1>0, <1>1, <1>2, <1>3, <1>4, <1>5, <1>6, <1>7 DEF TP!Next, TP!Step

\* A worker goes to sleep only when there is nothing to do; whoever puts
\* something into the queue then owes a notification, which only NotifyOne
\* gives; and while a worker is awake it comes past the queue again.
LEMMA WakeStep ==
  ASSUME TP!PoolAssumption, TP!TypeOK, ThreadsInv, TP!NoLostWakeup, [TP!Next]_(TP!vars)
  PROVE  TP!NoLostWakeup'
  <1> USE ThreadFacts
  <1> DEFINE Awake(w) == w \in Workers /\ pc[w] # "returned" /\ w \notin sleeping
  <1> DEFINE Owes(w) == w \in TP!Threads /\ pc[w] \in {"notify", "notify_all"}
  <1>0. /\ tasks = <<>> \/ (\E w : Owes(w)) \/ (\E w : Awake(w))
        /\ pc[TP!Owner] = "join" => sleeping = {}
    <2>1. ASSUME tasks # <<>>, \A w : ~Awake(w)
          PROVE  \E w : Owes(w)
      <3>1. sleeping = {w \in Workers : pc[w] # "returned"}
        BY <2>1 DEF ThreadsInv, TP!TypeOK
      <3> QED
        BY <2>1, <3>1 DEF TP!NoLostWakeup
    <2> QED
      BY <2>1 DEF TP!NoLostWakeup
  <1>1. ASSUME tasks' = <<>> \/ (\E w : Owes(w)') \/ (\E w : Awake(w)'),
               pc'[TP!Owner] = "join" => sleeping' = {}
        PROVE  TP!NoLostWakeup'
    BY <1>1 DEF TP!NoLostWakeup
  <1> USE DEF Awake, Owes
  <1>2. ASSUME NEW w \in TP!Threads, TP!Lock(w)
        PROVE  TP!NoLostWakeup'
    <2>1. tasks' = tasks /\ sleeping' = sleeping /\ pc[w] \notin {"notify", "notify_all", "returned"}
      BY <1>2 DEF TP!Lock
    <2>2. /\ pc'[w] \notin {"join", "returned"}
          /\ \A v \in TP!Threads : v # w => pc'[v] = pc[v]
      BY <1>2 DEF TP!Lock, TP!Enter, TP!TypeOK
    <2> QED
      BY <1>0, <1>1, <2>1, <2>2
  <1>3. ASSUME NEW w \in TP!Threads, TP!Sleep(w)
        PROVE  TP!NoLostWakeup'
    <2>1. tasks' = <<>> /\ pc'[TP!Owner] # "join"
      BY <1>3 DEF TP!Sleep, TP!Ready, TP!Enter, ThreadsInv, TP!TypeOK
    <2> QED
      BY <1>1, <2>1
  <1>4. ASSUME NEW w \in TP!Threads, TP!Return(w)
        PROVE  TP!NoLostWakeup'
    <2>1. tasks' = <<>> /\ w # TP!Owner /\ sleeping' = sleeping /\ pc'[TP!Owner] = pc[TP!Owner]
      BY <1>4 DEF TP!Return, TP!MayReturn, TP!Enter, TP!history, ThreadsInv, TP!TypeOK
    <2> QED
      BY <1>0, <1>1, <2>1
  <1>5. ASSUME NEW w \in TP!Threads, TP!Take(w) \/ TP!Run(w)
        PROVE  TP!NoLostWakeup'
    <2>1. w \in Workers /\ w \notin sleeping
      BY <1>5 DEF TP!Take, TP!Run, ThreadsInv
    <2>2. sleeping' = sleeping /\ pc'[w] # "returned" /\ pc'[TP!Owner] = pc[TP!Owner]
      BY <1>5, <2>1 DEF TP!Take, TP!Run, TP!Enter, TP!TypeOK
    <2> QED
      BY <1>0, <1>1, <2>1, <2>2
  <1>6. ASSUME NEW w \in TP!Threads, TP!Throw(w)
        PROVE  TP!NoLostWakeup'
    <2>1. /\ tasks' = tasks /\ sleeping' = sleeping /\ pc[w] = "enqueue" /\ pc'[w] = "run"
          /\ \A v \in TP!Threads : v # w => pc'[v] = pc[v]
      BY <1>6 DEF TP!Throw, TP!Enter, TP!TypeOK
    <2> QED
      BY <1>0, <1>1, <2>1
  <1>7. ASSUME NEW w \in TP!Threads, TP!Emplace(w)
        PROVE  TP!NoLostWakeup'
    <2>1. /\ sleeping' = sleeping /\ pc'[w] = "notify"
          /\ \A v \in TP!Threads : v # w => pc'[v] = pc[v]
      BY <1>7 DEF TP!Emplace, TP!Enter, TP!TypeOK
    <2> QED
      BY <1>0, <1>1, <2>1
  <1>8. ASSUME NEW w \in TP!Threads, TP!NotifyOne(w)
        PROVE  TP!NoLostWakeup'
    <2>1. PICK woken \in TP!WokenByOne : sleeping' = sleeping \ woken
      BY <1>8 DEF TP!NotifyOne
    <2>2. tasks' = tasks /\ stop' = stop /\ pc[w] = "notify" /\ pc' = [pc EXCEPT ![w] = "run"]
      BY <1>8 DEF TP!NotifyOne, TP!Enter
    <2>3. pc'[TP!Owner] = "join" => sleeping' = {}
      BY <1>0, <2>1, <2>2 DEF TP!TypeOK
    <2>4. CASE sleeping = {}
      <3>1. PICK u : u \in Workers
        OBVIOUS
      <3>2. tasks = <<>> \/ pc[u] # "returned"
        BY <3>1 DEF ThreadsInv
      <3>3. pc[u] # "returned" => Awake(u)'
        BY <2>1, <2>2, <2>4, <3>1 DEF TP!TypeOK
      <3> QED
        BY <1>1, <2>2, <2>3, <3>2, <3>3
    <2>5. CASE sleeping # {}
      <3>1. PICK u \in sleeping : woken = {u}
        BY <2>1, <2>5 DEF TP!WokenByOne
      <3>2. u \in Workers /\ pc[u] = "loop" /\ u \notin sleeping'
        BY <2>1, <3>1 DEF TP!TypeOK, ThreadsInv
      <3>3. pc'[u] # "returned"
        BY <2>2, <3>2 DEF TP!TypeOK
      <3> QED
        BY <1>1, <2>3, <3>2, <3>3
    <2> QED
      BY <2>4, <2>5
  <1>9. CASE TP!SetStop
    BY <1>1, <1>9 DEF TP!SetStop, TP!Enter, TP!TypeOK
  <1>10. CASE TP!NotifyAll
    <2>1. sleeping' = {} /\ tasks' = tasks /\ pc' = [pc EXCEPT ![TP!Owner] = "join"]
      BY <1>10 DEF TP!NotifyAll, TP!WokenByAll, TP!Enter
    <2>2. PICK u : u \in Workers
      OBVIOUS
    <2>3. tasks = <<>> \/ pc[u] # "returned"
      BY <2>2 DEF ThreadsInv
    <2>4. pc[u] # "returned" => Awake(u)'
      BY <2>1, <2>2 DEF TP!TypeOK
    <2> QED
      BY <1>1, <2>1, <2>3, <2>4
  <1>11. CASE TP!Join
    <2>1. tasks = <<>>
      BY <1>11 DEF TP!Join, ThreadsInv
    <2>2. tasks' = tasks /\ pc'[TP!Owner] # "join"
      BY <1>11 DEF TP!Join, TP!Enter, TP!TypeOK
    <2> QED
      BY <1>1, <2>1, <2>2
  <1>12. ASSUME NEW w \in Workers, TP!Spurious(w)
         PROVE  TP!NoLostWakeup'
    <2>1. tasks' = tasks /\ pc' = pc /\ sleeping' \subseteq sleeping
      BY <1>12 DEF TP!Spurious
    <2> QED
      BY <1>0, <1>1, <2>1
  <1>13. CASE UNCHANGED TP!vars
    BY <1>13 DEF TP!vars, TP!NoLostWakeup
  <1> QED
    BY <1>2, <1>3, <1>4, <1>5, <1>6, <1>7, <1>8, <1>9, <1>10, <1>11, <1>12, <1>13
       DEF TP!Next, TP!Step, TP!Destroy

------------------------------------------------------------------------------
LEMMA PoolInitial ==
  ASSUME TP!PoolAssumption, TP!Init
  PROVE  PoolInv
  <1> USE ThreadFacts
  <1>1. <<>> \in Seq(Tasks) /\ TP!ToSet(<<>>) = {}
    BY EmptySeq DEF TP!ToSet
  <1>2. TP!TypeOK
    <2>1. pc \in [TP!Threads -> {"loop", "run"}] /\ todo \in [TP!Threads -> Seq(Tasks)]
      BY <1>1 DEF TP!Init, TP!PoolAssumption
    <2>2. task \in [Workers -> Tasks \cup {TP!None}] /\ accepted \in Seq(Tasks) /\ spurious \in 0..MaxSpurious
      BY <1>1 DEF TP!Init, TP!PoolAssumption
    <2>3. \A w \in TP!Threads : mutex = w <=> pc[w] \in {"wait", "enqueue", "stopping"}
      BY DEF TP!Init
    <2>4. tasks \in Seq(Tasks) /\ stop \in BOOLEAN /\ mutex = TP!None /\ sleeping = {} /\ finished = {}
      BY <1>1 DEF TP!Init
    <2> QED
      BY <2>1, <2>2, <2>3, <2>4 DEF TP!TypeOK
  <1>3. ThreadsInv
    BY DEF TP!Init, ThreadsInv
  <1>4. TasksInv
    <2>1. Held = {}
      BY DEF TP!Init, Held
    <2> QED
      BY <1>1, <2>1 DEF TP!Init, TasksInv
  <1>5. TP!NoLostWakeup
    BY DEF TP!Init, TP!NoLostWakeup
  <1> QED
    BY <1>2, <1>3, <1>4, <1>5 DEF PoolInv

LEMMA PoolInductive ==
  ASSUME TP!PoolAssumption
  PROVE  TP!Spec => []PoolInv
  <1>1. TP!Init => PoolInv
    BY PoolInitial
  <1>2. PoolInv /\ [TP!Next]_(TP!vars) => PoolInv'
    BY TypeStep, ThreadsStep, TasksStep, WakeStep DEF PoolInv
  <1> QED
    BY <1>1, <1>2, PTL DEF TP!Spec

\* The mutex is held exactly between lock and unlock, by one thread at a
\* time, and only workers sleep.
THEOREM PoolTypeCorrect ==
  ASSUME TP!PoolAssumption
  PROVE  TP!Spec => []TP!TypeOK
  <1>1. PoolInv => TP!TypeOK
    BY DEF PoolInv
  <1> QED
    BY <1>1, PoolInductive, PTL

\* ThreadPool::enqueue and the worker loop lose no wake-up, although
\* notify_one comes after the mutex is released and a worker that was awake
\* may have taken the task it announces.
THEOREM WakeupsKept ==
  ASSUME TP!PoolAssumption
  PROVE  TP!Spec => []TP!NoLostWakeup
  <1>1. PoolInv => TP!NoLostWakeup
    BY DEF PoolInv
  <1> QED
    BY <1>1, PoolInductive, PTL

\* ~ThreadPool returns only after every accepted task has run, those that a
\* task enqueued while the pool was being destroyed included.
THEOREM EveryTaskRuns ==
  ASSUME TP!PoolAssumption
  PROVE  TP!Spec => []TP!AllRun
  <1>1. ASSUME PoolInv
        PROVE  TP!AllRun
    <2> SUFFICES ASSUME pc[TP!Owner] = "returned"
                 PROVE  /\ tasks = <<>> /\ TP!ToSet(accepted) = finished
                        /\ \A w \in Workers : task[w] = TP!None
      BY DEF TP!AllRun
    <2>1. \A w \in Workers : pc[w] = "returned"
      BY <1>1 DEF PoolInv, ThreadsInv
    <2>2. \A w \in Workers : task[w] = TP!None
      BY <1>1, <2>1 DEF PoolInv, ThreadsInv
    <2>3. tasks = <<>>
      BY <1>1, <2>1, ThreadFacts DEF PoolInv, ThreadsInv
    <2>4. TP!ToSet(tasks) = {} /\ Held = {}
      BY <2>2, <2>3 DEF TP!ToSet, Held
    <2> QED
      BY <1>1, <2>2, <2>3, <2>4 DEF PoolInv, TasksInv
  <1> QED
    BY <1>1, PoolInductive, PTL
=============================================================================
