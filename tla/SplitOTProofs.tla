--------------------------- MODULE SplitOTProofs ----------------------------
(***************************************************************************)
(* Theorems about the split OT extensions and their pool, for every N, all *)
(* block and message sizes and every session of legal calls.               *)
(*                                                                         *)
(* Neither party sends its counter: each works out from the calls alone    *)
(* what the other has.  The invariant says so.  A ledger gives what both   *)
(* pools should be before each call of the session; each party's pool is   *)
(* the ledger's for the call it is in and for its place in that call, and  *)
(* what is on the wires is what the one has done of the call and the other *)
(* has not, whichever of the two is ahead.                                 *)
(***************************************************************************)
EXTENDS SplitOT, Powers, SequenceTheorems


\* What call c does with a pool s that both parties agree on.
UsesPool(s, c) == c.op = "got" /\ c.n <= s.batch
Refills(s, c) == UsesPool(s, c) /\ c.n > s.batch - s.counter
Extends(s, c) == c.op # "batch" /\ (UsesPool(s, c) => Refills(s, c))
RowsOf(s, c) == IF UsesPool(s, c) THEN s.counter ELSE c.n
BlockIn(s, c) == BlockOf(RowsOf(s, c))
PaddedIn(s, c) == PaddedLength(RowsOf(s, c))

\* The pool when the messages of the call start.
Ready(s, c) ==
  [batch |-> s.batch,
   counter |-> IF Refills(s, c) THEN 0 ELSE s.counter,
   prg |-> IF Extends(s, c) THEN s.prg + PaddedIn(s, c) ELSE s.prg,
   setup |-> s.setup \/ Extends(s, c),
   slot |-> [j \in 0..(s.batch - 1) |->
               IF Refills(s, c) /\ j < s.counter THEN s.prg + j ELSE s.slot[j]]]

\* And when the call is over.
After(s, c) ==
  IF c.op = "batch"
  THEN [batch |-> c.n, counter |-> c.n, prg |-> s.prg, setup |-> s.setup,
        slot |-> [j \in 0..(c.n - 1) |-> NoRow]]
  ELSE [batch |-> s.batch,
        counter |-> Ready(s, c).counter + (IF UsesPool(s, c) THEN c.n ELSE 0),
        prg |-> Ready(s, c).prg, setup |-> Ready(s, c).setup,
        slot |-> Ready(s, c).slot]

Empty == [batch |-> 0, counter |-> 0, prg |-> 0, setup |-> FALSE, slot |-> <<>>]

\* The pool before each call of a session.
LedgerOf(prog) ==
  CHOOSE L : L = [c \in 1..(Len(prog) + 1) |->
                    IF c = 1 THEN Empty ELSE After(L[c - 1], prog[c - 1])]
Ledger == LedgerOf(program)

\* The slots from the counter on have rows, all different, that the PRGs have
\* produced.
Sound(s) ==
  /\ s.batch \in Nat /\ s.counter \in 0..s.batch /\ s.prg \in Nat
  /\ s.setup \in BOOLEAN
  /\ s.slot \in [0..(s.batch - 1) -> Row]
  /\ \A j \in s.counter..(s.batch - 1) : s.slot[j] \in Nat /\ s.slot[j] < s.prg
  /\ \A j, k \in s.counter..(s.batch - 1) : j # k => s.slot[j] # s.slot[k]

------------------------------------------------------------------------------
(* A party's own state.                                                     *)

Before(p) == Ledger[at[p]]
Then(p) == Ready(Before(p), Now(p))

\* The rows of party p's slots: the sender's h, and of the receiver's pads.
Slotted(p, f) ==
  IF p = ALICE THEN q = f
  ELSE \A j \in 0..(batch[BOB] - 1) : t[j][1] = f[j]

\* n rows from position g on.
RowsFrom(g, n) == [j \in 1..n |-> g + j - 1]

AtCall(p) ==
  pc[p] = "call" =>
    LET s == Before(p)
    IN  /\ counter[p] = s.counter /\ prg[p] = s.prg /\ setup[p] = s.setup
        /\ Slotted(p, s.slot)
        /\ ctr[p] = 0 /\ rows[p] = <<>>

AtExtend(p) ==
  pc[p] = "extend" =>
    LET s == Before(p)
    IN  /\ Extends(s, Now(p))
        /\ counter[p] = s.counter /\ Slotted(p, s.slot) /\ ctr[p] = 0
        /\ s.setup => setup[p]
        /\ \E k \in Nat :
             LET n == k * BlockIn(s, Now(p))
             IN  /\ n <= PaddedIn(s, Now(p)) /\ (n > 0 => setup[p])
                 /\ rows[p] = RowsFrom(s.prg, n) /\ prg[p] = s.prg + n

AtMessages(p) ==
  pc[p] \in {"online", "asked", "post"} =>
    LET s == Then(p)
    IN  /\ Now(p).op # "batch"
        /\ pc[p] = "post" <=> ~UsesPool(Before(p), Now(p))
        /\ counter[p] = s.counter + (IF pc[p] = "post" THEN 0 ELSE ctr[p])
        /\ prg[p] = s.prg /\ setup[p] = s.setup /\ Slotted(p, s.slot)
        /\ ctr[p] \in 0..Length(p)
        /\ pc[p] = "asked" => p = BOB /\ ctr[p] < Length(p)
        /\ rows[p] = IF pc[p] = "post"
                     THEN RowsFrom(Before(p).prg, PaddedIn(Before(p), Now(p)))
                     ELSE <<>>

LocalInv(p) ==
  /\ at[p] \in 1..(Len(program) + 1)
  /\ pc[p] # "call" => at[p] <= Len(program)
  /\ Sound(Before(p)) /\ batch[p] = Before(p).batch
  /\ AtCall(p) /\ AtExtend(p) /\ AtMessages(p)

\* The receiver's pads are of its random choices, and it has its choices for
\* the session.
PadsInv ==
  /\ t \in [0..(batch[BOB] - 1) -> Row \X Choice]
  /\ r_off \in [0..(batch[BOB] - 1) -> Choice]
  /\ \A j \in counter[BOB]..(batch[BOB] - 1) : t[j][2] = r_off[j]

ProgramInv ==
  /\ program \in Seq([op : {"got", "block", "batch"}, n : Nat])
  /\ \A i \in DOMAIN program : IsCall(program[i])
  /\ choice \in Seq(Seq(Choice)) /\ Len(choice) = Len(program)
  /\ \A i \in DOMAIN program :
       Len(choice[i]) = (IF program[i].op = "batch" THEN 0 ELSE program[i].n)

ControlTypes ==
  /\ at \in [Party -> Nat \ {0}] /\ pc \in [Party -> Place]
  /\ batch \in [Party -> Nat] /\ counter \in [Party -> Nat]
  /\ setup \in [Party -> BOOLEAN] /\ prg \in [Party -> Nat]
  /\ ctr \in [Party -> Nat]
  /\ DOMAIN rows = Party /\ DOMAIN wire = Party

------------------------------------------------------------------------------
(* The two parties together.                                                *)

\* A call in which nothing is sent.
Silent(c) == program[c].op = "batch" \/ program[c].n = 0

\* The party behind has nothing left to exchange in its call, and the calls
\* between are silent; a sender that is ahead has not taken anything of its
\* call.
DriftInv ==
  /\ at[ALICE] < at[BOB] =>
       /\ \/ Silent(at[ALICE])
          \/ pc[ALICE] \in {"online", "post"} /\ ctr[ALICE] = Length(ALICE)
       /\ \A c \in (at[ALICE] + 1)..(at[BOB] - 1) : Silent(c)
  /\ at[BOB] < at[ALICE] =>
       /\ \A c \in (at[BOB] + 1)..(at[ALICE] - 1) : Silent(c)
       /\ pc[BOB] = "call" => Silent(at[BOB])
       /\ pc[BOB] = "extend" =>
            ~UsesPool(Before(BOB), Now(BOB)) /\ prg[BOB] = Then(BOB).prg
       /\ pc[ALICE] # "post" /\ rows[ALICE] = <<>> /\ ctr[ALICE] = 0
       /\ setup[ALICE] = Before(ALICE).setup /\ prg[ALICE] = Before(ALICE).prg

\* What the sender has taken and done of the receiver's call.
Seeded == IF at[ALICE] = at[BOB] THEN setup[ALICE] ELSE Before(BOB).setup
Taken == IF at[ALICE] = at[BOB] THEN prg[ALICE] ELSE Before(BOB).prg
Answered ==
  IF at[ALICE] = at[BOB] THEN ctr[ALICE]
  ELSE IF at[ALICE] > at[BOB] /\ Now(BOB).op # "batch" THEN Length(BOB) ELSE 0

\* Whether the receiver's corrections have not been taken.
Asking == pc[BOB] = "asked" /\ Answered = ctr[BOB]
Asked == IF Asking THEN Chunk(BOB, OnlineChunk) ELSE 0
SeedsUnderWay == IF setup[BOB] /\ ~Seeded THEN 1 ELSE 0

\* The slot and the correction of the receiver's o-th OT of its call.
SlotFor(o) == Then(BOB).counter + o - 1
CorrectionFor(o) == Correction(r_off[SlotFor(o)], choice[at[BOB]][o])

\* The messages to the sender: k seeds, n blocks of an extension from row g on,
\* m corrections.
UpStream(k, n, m, size, g, a) ==
  [i \in 1..(k + n + m) |->
     IF i <= k THEN [kind |-> "seed"]
     ELSE IF i <= k + n
          THEN [kind |-> "U", size |-> size, from |-> g + (i - k - 1) * size]
          ELSE [kind |-> "A", a |-> a[i - k - n]]]
UpWire(n) ==
  UpStream(SeedsUnderWay, n, Asked, BlockIn(Before(BOB), Now(BOB)), Taken,
           [j \in 1..Asked |-> CorrectionFor(ctr[BOB] + j)])

UpInv ==
  IF at[ALICE] > at[BOB] \/ pc[BOB] = "call"
  THEN /\ wire[ALICE] = <<>>
       /\ at[ALICE] <= at[BOB] => Taken = prg[BOB] /\ Seeded = setup[BOB]
  ELSE /\ Seeded => setup[BOB]
       /\ \E n \in Nat :
            /\ prg[BOB] = Taken + n * BlockIn(Before(BOB), Now(BOB))
            /\ n > 0 => BlockIn(Before(BOB), Now(BOB)) > 0
            /\ wire[ALICE] = UpWire(n)

\* The messages to the receiver: the OTs of its call from its place to where
\* the sender is.
Reply(o) ==
  LET pooled == UsesPool(Before(BOB), Now(BOB))
      g == IF pooled THEN Then(BOB).slot[SlotFor(o)] ELSE Before(BOB).prg + o - 1
      a == IF pooled THEN CorrectionFor(o) ELSE 0
  IN  [kind |-> "Y", pad |-> [k \in Choice |-> <<g, PadIndex(k, a)>>],
       msg |-> [k \in Choice |-> Message(at[BOB], o, k)]]

DownInv ==
  /\ Answered >= ctr[BOB]
  /\ wire[BOB] = [i \in 1..(Answered - ctr[BOB]) |-> Reply(ctr[BOB] + i)]
  /\ Answered > ctr[BOB] =>
       \/ pc[BOB] = "asked" /\ Answered = ctr[BOB] + Chunk(BOB, OnlineChunk)
       \/ pc[BOB] \in {"extend", "post"} /\ ~UsesPool(Before(BOB), Now(BOB))

IInv ==
  /\ ProgramInv /\ ControlTypes
  /\ \A p \in Party : LocalInv(p)
  /\ PadsInv /\ DriftInv /\ UpInv /\ DownInv

------------------------------------------------------------------------------
(* Sequences given by their elements.                                       *)

LEMMA GivenSeq ==
  ASSUME NEW n \in Nat, NEW u, u = [i \in 1..n |-> u[i]]
  PROVE  /\ Len(u) = n /\ (u = <<>> <=> n = 0)
         /\ \E S : u \in Seq(S)
  <1> DEFINE S == {u[i] : i \in 1..n}
  <1>1. u \in [1..n -> S]
    OBVIOUS
  <1>2. u \in Seq(S)
    BY <1>1
  <1> HIDE DEF S
  <1>3. Len(u) = n
    BY <1>1, <1>2, LenProperties
  <1>4. u = <<>> <=> n = 0
    BY <1>2, <1>3, EmptySeq
  <1> QED
    BY <1>2, <1>3, <1>4

LEMMA Glue ==
  ASSUME NEW n \in Nat, NEW u, u = [i \in 1..n |-> u[i]],
         NEW m \in Nat, NEW v, v = [i \in 1..m |-> v[i]]
  PROVE  u \o v = [i \in 1..(n + m) |-> IF i <= n THEN u[i] ELSE v[i - n]]
  <1> DEFINE S == {u[i] : i \in 1..n} \cup {v[i] : i \in 1..m}
  <1>1. u \in [1..n -> S] /\ v \in [1..m -> S]
    OBVIOUS
  <1> HIDE DEF S
  <1>2. u \in Seq(S) /\ v \in Seq(S)
    BY <1>1
  <1>3. Len(u) = n /\ Len(v) = m
    BY GivenSeq
  <1>4. /\ u \o v \in Seq(S) /\ Len(u \o v) = n + m
        /\ \A i \in 1..(n + m) : (u \o v)[i] = IF i <= n THEN u[i] ELSE v[i - n]
    BY <1>2, <1>3, ConcatProperties
  <1>5. u \o v \in [1..(n + m) -> S]
    BY <1>4, LenProperties
  <1> QED
    BY <1>4, <1>5

LEMMA Cut ==
  ASSUME NEW n \in Nat, NEW u, u = [i \in 1..n |-> u[i]], NEW m \in 0..n
  PROVE  SubSeq(u, m + 1, Len(u)) = [i \in 1..(n - m) |-> u[i + m]]
  <1> DEFINE S == {u[i] : i \in 1..n}
  <1>1. Len(u) = n
    BY GivenSeq
  <1>2. \A i \in (m + 1)..n : u[i] \in S
    OBVIOUS
  <1> HIDE DEF S
  <1>3. PICK a \in Int : a = m + 1
    OBVIOUS
  <1>4. \A i \in a..n : u[i] \in S
    BY <1>2, <1>3
  <1>5. n \in Int
    OBVIOUS
  <1>6. /\ SubSeq(u, a, n) \in Seq(S)
        /\ Len(SubSeq(u, a, n)) = IF a <= n THEN n - a + 1 ELSE 0
        /\ \A i \in 1..(n - a + 1) : SubSeq(u, a, n)[i] = u[a + i - 1]
    BY <1>4, <1>5, SubSeqProperties
  <1>7. n - a + 1 = n - m /\ (a <= n \/ n - m = 0)
    BY <1>3
  <1>8. Len(SubSeq(u, a, n)) = n - m
    BY <1>6, <1>7
  <1>9. SubSeq(u, a, n) \in [1..(n - m) -> S]
    BY <1>6, <1>8, LenProperties
  <1>10. \A i \in 1..(n - m) : SubSeq(u, a, n)[i] = u[i + m]
    <2>1. \A i \in 1..(n - m) : a + i - 1 = i + m
      BY <1>3
    <2> QED
      BY <1>6, <1>7, <2>1
  <1> QED
    BY <1>1, <1>3, <1>9, <1>10

\* The stream to the sender, message by message, and what taking the first or
\* adding another leaves.
LEMMA StreamShape ==
  ASSUME NEW k \in {0, 1}, NEW n \in Nat, NEW m \in Nat, NEW size, NEW g, NEW a
  PROVE  LET w == UpStream(k, n, m, size, g, a)
         IN  /\ w = [i \in 1..(k + n + m) |-> w[i]] /\ Len(w) = k + n + m
             /\ w = <<>> <=> k + n + m = 0
  <1>1. PICK w : w = UpStream(k, n, m, size, g, a)
    OBVIOUS
  <1>2. w = [i \in 1..(k + n + m) |-> w[i]]
    BY <1>1 DEF UpStream
  <1>3. k + n + m \in Nat
    OBVIOUS
  <1>4. Len(w) = k + n + m /\ (w = <<>> <=> k + n + m = 0)
    BY <1>2, <1>3, GivenSeq
  <1> QED
    BY <1>1, <1>2, <1>4

\* What the first message tells of the stream.
Heading(w, k, n, m, size, g) ==
  /\ w[1].kind = "seed" => k = 1
  /\ w[1].kind = "U" => k = 0 /\ n > 0 /\ w[1].size = size /\ w[1].from = g
  /\ w[1].kind = "A" => k = 0 /\ n = 0 /\ m > 0
  /\ w[1].kind \in {"seed", "U", "A"}

LEMMA StreamHead ==
  ASSUME NEW k \in {0, 1}, NEW n \in Nat, NEW m \in Nat, NEW size \in Nat,
         NEW g \in Nat, NEW a, UpStream(k, n, m, size, g, a) # <<>>
  PROVE  Heading(UpStream(k, n, m, size, g, a), k, n, m, size, g)
  <1>1. PICK w : w = UpStream(k, n, m, size, g, a)
    OBVIOUS
  <1>2. 1 \in 1..(k + n + m)
    BY StreamShape
  <1>3. CASE k = 1
    <2>1. w[1] = [kind |-> "seed"]
      BY <1>1, <1>2, <1>3 DEF UpStream
    <2> QED
      BY <1>1, <1>3, <2>1 DEF Heading
  <1>4. CASE k = 0 /\ n > 0
    <2>1. w[1] = [kind |-> "U", size |-> size, from |-> g + 0 * size]
      BY <1>1, <1>2, <1>4 DEF UpStream
    <2> QED
      BY <1>1, <1>4, <2>1 DEF Heading
  <1>5. CASE k = 0 /\ n = 0
    <2>1. w[1] = [kind |-> "A", a |-> a[1]] /\ m > 0
      BY <1>1, <1>2, <1>5 DEF UpStream
    <2> QED
      BY <1>1, <1>5, <2>1 DEF Heading
  <1> QED
    BY <1>3, <1>4, <1>5

LEMMA SeedTaken ==
  ASSUME NEW n \in Nat, NEW m \in Nat, NEW size, NEW g, NEW a
  PROVE  LET w == UpStream(1, n, m, size, g, a)
         IN  SubSeq(w, 2, Len(w)) = UpStream(0, n, m, size, g, a)
  <1>0. PICK w : w = UpStream(1, n, m, size, g, a)
    OBVIOUS
  <1>1. w = [i \in 1..(1 + n + m) |-> w[i]] /\ 1 + n + m \in Nat
    BY <1>0 DEF UpStream
  <1>2. SubSeq(w, 1 + 1, Len(w)) = [i \in 1..(1 + n + m - 1) |-> w[i + 1]]
    BY <1>1, Cut
  <1>3. ASSUME NEW i \in 1..(0 + n + m)
        PROVE  w[i + 1] = IF i <= 0 + n
                          THEN [kind |-> "U", size |-> size, from |-> g + (i - 0 - 1) * size]
                          ELSE [kind |-> "A", a |-> a[i - 0 - n]]
    <2>1. i + 1 \in 1..(1 + n + m) /\ i + 1 - 1 - 1 = i - 0 - 1 /\ i + 1 - 1 - n = i - 0 - n
      OBVIOUS
    <2> QED
      BY <1>0, <2>1 DEF UpStream
  <1>4. 1 + n + m - 1 = 0 + n + m /\ 1 + 1 = 2
    OBVIOUS
  <1> QED
    BY <1>0, <1>2, <1>3, <1>4 DEF UpStream

LEMMA BlockTaken ==
  ASSUME NEW n \in Nat, NEW m \in Nat, NEW size \in Nat, NEW g \in Nat, NEW a
  PROVE  LET w == UpStream(0, n + 1, m, size, g, a)
         IN  SubSeq(w, 2, Len(w)) = UpStream(0, n, m, size, g + size, a)
  <1>0. PICK l, w : /\ l = 0 + (n + 1) + m /\ l \in Nat /\ 1 \in 0..l
                    /\ w = UpStream(0, n + 1, m, size, g, a)
    OBVIOUS
  <1>1. w = [i \in 1..l |-> w[i]]
    BY <1>0 DEF UpStream
  <1>2. SubSeq(w, 1 + 1, Len(w)) = [i \in 1..(l - 1) |-> w[i + 1]]
    BY <1>0, <1>1, Cut
  <1>3. ASSUME NEW i \in 1..(0 + n + m)
        PROVE  w[i + 1] = IF i <= 0 + n
                          THEN [kind |-> "U", size |-> size,
                                from |-> g + size + (i - 0 - 1) * size]
                          ELSE [kind |-> "A", a |-> a[i - 0 - n]]
    <2>1. /\ i + 1 \in 1..(0 + (n + 1) + m) /\ i + 1 - 0 - (n + 1) = i - 0 - n
          /\ ~(i + 1 <= 0) /\ (i + 1 <= 0 + (n + 1) <=> i <= 0 + n)
      OBVIOUS
    <2>2. g + (i + 1 - 0 - 1) * size = g + size + (i - 0 - 1) * size
      <3>1. PICK j \in Nat : i = j + 1
        OBVIOUS
      <3>2. (j + 1) * size = j * size + size /\ j * size \in Nat
        OBVIOUS
      <3>3. i + 1 - 0 - 1 = j + 1 /\ i - 0 - 1 = j
        BY <3>1
      <3> QED
        BY <3>2, <3>3
    <2>3. w[i + 1] = IF i + 1 <= 0 + (n + 1)
                     THEN [kind |-> "U", size |-> size,
                           from |-> g + (i + 1 - 0 - 1) * size]
                     ELSE [kind |-> "A", a |-> a[i + 1 - 0 - (n + 1)]]
      BY <1>0, <2>1 DEF UpStream
    <2> QED
      BY <2>1, <2>2, <2>3
  <1>4. l - 1 = 0 + n + m /\ 1 + 1 = 2
    BY <1>0
  <1> QED
    BY <1>0, <1>2, <1>3, <1>4 DEF UpStream

LEMMA SeedAdded ==
  ASSUME NEW size, NEW g, NEW a
  PROVE  Append(<<>>, [kind |-> "seed"]) = UpStream(1, 0, 0, size, g, a)
  BY DEF UpStream

LEMMA BlockAdded ==
  ASSUME NEW k \in {0, 1}, NEW n \in Nat, NEW size \in Nat, NEW g \in Nat, NEW a
  PROVE  Append(UpStream(k, n, 0, size, g, a),
                [kind |-> "U", size |-> size, from |-> g + n * size])
           = UpStream(k, n + 1, 0, size, g, a)
  <1>1. k + n \in Nat /\ k + n + 0 = k + n
    OBVIOUS
  <1>7. PICK w : w = UpStream(k, n, 0, size, g, a) /\ w = [i \in 1..(k + n) |-> w[i]]
    BY <1>1, StreamShape
  <1>2. PICK u : u = [kind |-> "U", size |-> size, from |-> g + n * size]
    OBVIOUS
  <1>3. PICK v : v = [i \in 1..1 |-> u]
    OBVIOUS
  <1>4. w \o v = [i \in 1..(k + n + 1) |-> IF i <= k + n THEN w[i] ELSE v[i - (k + n)]]
    BY <1>1, <1>3, <1>7, Glue
  <1>5. Append(w, u) = w \o v
    <2>1. \E S : w \in Seq(S)
      BY <1>1, <1>7, GivenSeq
    <2>2. Len(w) = k + n
      BY <1>1, <1>7, GivenSeq
    <2> QED
      BY <1>1, <1>3, <1>4, <1>7, <2>1, <2>2
  <1>6. ASSUME NEW i \in 1..(k + n + 1)
        PROVE  (IF i <= k + n THEN w[i] ELSE v[i - (k + n)])
                 = IF i <= k THEN [kind |-> "seed"]
                   ELSE [kind |-> "U", size |-> size, from |-> g + (i - k - 1) * size]
    <2>1. CASE i <= k + n
      BY <1>7, <2>1 DEF UpStream
    <2>2. CASE i = k + n + 1
      BY <1>2, <1>3, <2>2
    <2> QED
      BY <2>1, <2>2
  <1> QED
    BY <1>2, <1>4, <1>5, <1>6, <1>7 DEF UpStream

Joined(u, v) == u \o v
\* v is m corrections, of the values a.
Corrections(v, m, a) ==
  /\ v = [i \in 1..m |-> v[i]]
  /\ \A i \in 1..m : v[i] = [kind |-> "A", a |-> a[i]]

LEMMA CorrectionsAdded ==
  ASSUME NEW k \in {0, 1}, NEW n \in Nat, NEW m \in Nat, NEW size, NEW g,
         NEW a, NEW b, NEW v, Corrections(v, m, a),
         NEW u, u = UpStream(k, n, 0, size, g, b)
  PROVE  Joined(u, v) = UpStream(k, n, m, size, g, a)
  <1>1. k + n \in Nat /\ k + n + 0 = k + n
    OBVIOUS
  <1>7. PICK w : /\ w = u /\ w = UpStream(k, n, 0, size, g, b)
                 /\ w = [i \in 1..(k + n) |-> w[i]]
    BY <1>1, StreamShape
  <1>3. /\ v = [i \in 1..m |-> v[i]]
        /\ \A i \in 1..m : v[i] = [kind |-> "A", a |-> a[i]]
    BY DEF Corrections
  <1>4. w \o v = [i \in 1..(k + n + m) |-> IF i <= k + n THEN w[i] ELSE v[i - (k + n)]]
    BY <1>1, <1>3, <1>7, Glue
  <1>5. ASSUME NEW i \in 1..(k + n + m)
        PROVE  (IF i <= k + n THEN w[i] ELSE v[i - (k + n)])
                 = IF i <= k THEN [kind |-> "seed"]
                   ELSE IF i <= k + n
                        THEN [kind |-> "U", size |-> size, from |-> g + (i - k - 1) * size]
                        ELSE [kind |-> "A", a |-> a[i - k - n]]
    <2>1. CASE i <= k + n
      BY <1>7, <2>1 DEF UpStream
    <2>2. CASE i > k + n
      <3>1. i - (k + n) \in 1..m /\ i - (k + n) = i - k - n
        BY <2>2
      <3> QED
        BY <1>3, <2>2, <3>1
    <2> QED
      BY <2>1, <2>2
  <1> QED
    BY <1>4, <1>5, <1>7 DEF UpStream, Joined

------------------------------------------------------------------------------
(* The length of an extension.                                              *)

LEMMA CeilFacts ==
  ASSUME NEW n \in Nat \ {0}, NEW d \in Nat \ {0}
  PROVE  /\ CeilDiv(n, d) \in Nat \ {0}
         /\ CeilDiv(n, d) * d \in Nat /\ CeilDiv(n, d) * d >= n
  <1>1. PICK k \in Nat, r \in Nat : /\ k = (n + d - 1) \div d /\ r < d
                                    /\ n + d - 1 = d * k + r
    BY DivMod
  <1>2. k # 0
    BY <1>1
  <1>3. k * d \in Nat /\ k * d = d * k
    BY <1>1
  <1>4. k * d >= n
    BY <1>1, <1>3
  <1> QED
    BY <1>1, <1>2, <1>3, <1>4 DEF CeilDiv

LEMMA BlockFacts ==
  ASSUME NEW n \in Nat \ {0}
  PROVE  /\ BlockOf(n) \in Nat \ {0} /\ PaddedLength(n) \in Nat
         /\ PaddedLength(n) >= n
         /\ \E k \in Nat : PaddedLength(n) = k * BlockOf(n)
  <1>1. BlockSize \in Nat \ {0} /\ RowUnit \in Nat \ {0}
    BY OTAssumption
  <1>2. BlockOf(n) \in Nat \ {0}
    <2>1. CeilDiv(n, RowUnit) * RowUnit \in Nat /\ CeilDiv(n, RowUnit) * RowUnit >= n
      BY <1>1, CeilFacts
    <2> QED
      BY <1>1, <2>1 DEF BlockOf, Smaller
  <1>3. CeilDiv(n, BlockOf(n)) \in Nat
    BY <1>2, CeilFacts
  <1> QED
    BY <1>2, <1>3, CeilFacts DEF PaddedLength

LEMMA BlockNat ==
  ASSUME NEW n \in Nat
  PROVE  BlockOf(n) \in Nat
  <1>1. CASE n = 0
    <2>1. BlockSize \in Nat /\ RowUnit \in Nat \ {0}
      BY OTAssumption
    <2>2. PICK k \in Nat : k = (n + RowUnit - 1) \div RowUnit
      <3>1. PICK e \in Nat : e = n + RowUnit - 1
        BY <2>1
      <3>2. \E k \in Nat, r \in Nat : k = e \div RowUnit /\ r < RowUnit /\ e = RowUnit * k + r
        BY <2>1, DivMod
      <3> QED
        BY <3>1, <3>2
    <2>3. k * RowUnit \in Nat
      BY <2>1
    <2> QED
      BY <2>1, <2>2, <2>3 DEF BlockOf, CeilDiv, Smaller
  <1>2. CASE n # 0
    BY <1>2, BlockFacts
  <1> QED
    BY <1>1, <1>2

\* An extension that has some of its blocks has room for one more whole one.
LEMMA NextBlock ==
  ASSUME NEW k \in Nat, NEW l \in Nat, NEW d \in Nat \ {0}
  PROVE  /\ k * d \in Nat /\ (k + 1) * d = k * d + d
         /\ k * d < l * d => (k + 1) * d <= l * d
         /\ k * d = 0 => k = 0
  <1>1. k * d \in Nat /\ (k + 1) * d = k * d + d
    OBVIOUS
  <1>2. ASSUME k * d < l * d
        PROVE  (k + 1) * d <= l * d
    <2>1. k < l
      <3>1. ASSUME k >= l
            PROVE  k * d >= l * d
        <4>1. PICK m \in Nat : k = l + m
          BY <3>1
        <4>2. k * d = l * d + m * d /\ m * d \in Nat /\ l * d \in Nat
          BY <4>1
        <4> QED
          BY <4>2
      <3> QED
        BY <1>1, <1>2, <3>1
    <2>2. PICK m \in Nat : l = k + 1 + m
      BY <2>1
    <2>3. l * d = (k + 1) * d + m * d /\ m * d \in Nat
      BY <2>2
    <2> QED
      BY <1>1, <2>3
  <1>3. k * d = 0 => k = 0
    OBVIOUS
  <1> QED
    BY <1>1, <1>2, <1>3

------------------------------------------------------------------------------
(* The ledger.                                                              *)

LEMMA LedgerPrefix ==
  ASSUME NEW prog, NEW m \in Nat
  PROVE  \E L : L = [c \in 1..(m + 1) |->
                       IF c = 1 THEN Empty ELSE After(L[c - 1], prog[c - 1])]
  <1> DEFINE Has(k) == \E L : L = [c \in 1..(k + 1) |->
                         IF c = 1 THEN Empty ELSE After(L[c - 1], prog[c - 1])]
             Bad == {k \in Nat : ~Has(k)}
  <1>1. ASSUME Bad # {}
        PROVE  FALSE
    <2>1. PICK n \in Bad : \A l \in Bad : n <= l
      <3>1. Bad \subseteq Nat
        OBVIOUS
      <3> HIDE DEF Bad
      <3> QED
        BY <1>1, <3>1, LeastElement
    <2>2. n \in Nat /\ ~Has(n)
      OBVIOUS
    <2>3. n # 0
      <3>1. Has(0)
        <4> DEFINE L == [c \in 1..(0 + 1) |-> Empty]
        <4>1. L = [c \in 1..(0 + 1) |->
                     IF c = 1 THEN Empty ELSE After(L[c - 1], prog[c - 1])]
          OBVIOUS
        <4> QED
          BY <4>1
      <3> QED
        BY <2>2, <3>1
    <2>4. PICK l \in Nat : n = l + 1
      BY <2>2, <2>3
    <2>5. Has(l)
      <3> HIDE DEF Has
      <3> QED
        BY <2>1, <2>4
    <2>6. PICK L : L = [c \in 1..(l + 1) |->
                     IF c = 1 THEN Empty ELSE After(L[c - 1], prog[c - 1])]
      BY <2>5
    <2> DEFINE M == [c \in 1..(n + 1) |->
                       IF c <= n THEN L[c] ELSE After(L[c - 1], prog[c - 1])]
    <2>7. ASSUME NEW c \in 1..(n + 1)
          PROVE  M[c] = IF c = 1 THEN Empty ELSE After(M[c - 1], prog[c - 1])
      <3>1. CASE c = 1
        BY <2>4, <2>6, <3>1
      <3>2. CASE c # 1
        <4>1. c - 1 \in 1..(n + 1) /\ c - 1 <= n
          BY <2>2, <3>2
        <4>2. M[c - 1] = L[c - 1]
          BY <4>1
        <4>3. M[c] = After(L[c - 1], prog[c - 1])
          BY <2>4, <2>6, <3>2
        <4> QED
          BY <3>2, <4>2, <4>3
      <3> QED
        BY <3>1, <3>2
    <2>8. M = [c \in 1..(n + 1) |->
                 IF c = 1 THEN Empty ELSE After(M[c - 1], prog[c - 1])]
      BY <2>7
    <2> QED
      BY <2>2, <2>8
  <1> QED
    BY <1>1

LEMMA LedgerSteps ==
  ASSUME ProgramInv
  PROVE  /\ Ledger[1] = Empty
         /\ \A c \in 1..Len(program) : Ledger[c + 1] = After(Ledger[c], program[c])
  <1>1. Len(program) \in Nat
    BY DEF ProgramInv
  <1>2. \E L : L = [c \in 1..(Len(program) + 1) |->
                      IF c = 1 THEN Empty ELSE After(L[c - 1], program[c - 1])]
    BY <1>1, LedgerPrefix
  <1>3. Ledger = [c \in 1..(Len(program) + 1) |->
                    IF c = 1 THEN Empty ELSE After(Ledger[c - 1], program[c - 1])]
    BY <1>2 DEF Ledger, LedgerOf
  <1>4. Ledger[1] = Empty
    BY <1>1, <1>3
  <1>5. ASSUME NEW c \in 1..Len(program)
        PROVE  Ledger[c + 1] = After(Ledger[c], program[c])
    <2>1. c + 1 \in 1..(Len(program) + 1) /\ c + 1 # 1 /\ c + 1 - 1 = c
      BY <1>1
    <2>2. Ledger[c + 1] = After(Ledger[c + 1 - 1], program[c + 1 - 1])
      BY <1>3, <2>1
    <2> QED
      BY <2>1, <2>2
  <1> QED
    BY <1>4, <1>5

\* The ledger is of the program, which no step changes.
LEMMA LedgerSame ==
  ASSUME program' = program
  PROVE  Ledger' = Ledger
  BY DEF Ledger

LEMMA CallFacts ==
  ASSUME ProgramInv, NEW c \in 1..Len(program)
  PROVE  /\ program[c].op \in {"got", "block", "batch"} /\ program[c].n \in Nat
         /\ program[c].op = "block" => program[c].n > 0
  <1>0. c \in DOMAIN program
    BY DEF ProgramInv
  <1>1. IsCall(program[c])
    BY <1>0 DEF ProgramInv
  <1> QED
    BY <1>1 DEF IsCall

\* The rows an extension is asked for, and that it is asked for some.
LEMMA ExtendFacts ==
  ASSUME NEW s, Sound(s), NEW c, c.n \in Nat,
         c.op \in {"got", "block", "batch"}, c.op = "block" => c.n > 0
  PROVE  /\ Extends(s, c) =>
              /\ c.n > 0 /\ RowsOf(s, c) \in Nat \ {0}
              /\ BlockIn(s, c) \in Nat \ {0} /\ PaddedIn(s, c) \in Nat \ {0}
              /\ PaddedIn(s, c) >= RowsOf(s, c)
              /\ \E k \in Nat : PaddedIn(s, c) = k * BlockIn(s, c)
         /\ Refills(s, c) => Extends(s, c) /\ RowsOf(s, c) = s.counter
         /\ ~UsesPool(s, c) /\ c.op # "batch" => Extends(s, c) /\ RowsOf(s, c) = c.n
  <1>1. s.batch \in Nat /\ s.counter \in 0..s.batch
    BY DEF Sound
  <1>2. Extends(s, c) => c.n > 0 /\ RowsOf(s, c) \in Nat \ {0}
    BY <1>1 DEF Extends, Refills, UsesPool, RowsOf
  <1>3. Refills(s, c) => Extends(s, c) /\ RowsOf(s, c) = s.counter
    BY <1>1 DEF Extends, Refills, UsesPool, RowsOf
  <1>4. ~UsesPool(s, c) /\ c.op # "batch" => Extends(s, c) /\ RowsOf(s, c) = c.n
    BY DEF Extends, RowsOf
  <1> QED
    BY <1>2, <1>3, <1>4, BlockFacts DEF BlockIn, PaddedIn

\* Rows that an extension draws are new.
LEMMA SoundReady ==
  ASSUME NEW s, Sound(s), NEW c, c.n \in Nat,
         c.op \in {"got", "block", "batch"}, c.op = "block" => c.n > 0
  PROVE  /\ Sound(Ready(s, c))
         /\ UsesPool(s, c) => Ready(s, c).counter + c.n <= s.batch
  <1> DEFINE r == Ready(s, c)
  <1>1. /\ s.batch \in Nat /\ s.counter \in 0..s.batch /\ s.prg \in Nat
        /\ s.setup \in BOOLEAN /\ s.slot \in [0..(s.batch - 1) -> Row]
    BY DEF Sound
  <1>2. r.batch = s.batch /\ r.setup \in BOOLEAN /\ r.counter \in 0..s.batch
    BY <1>1 DEF Ready
  <1>3. r.prg \in Nat /\ r.prg >= s.prg
        /\ (Refills(s, c) => r.prg >= s.prg + s.counter)
    BY <1>1, ExtendFacts, SMTT(30) DEF Ready
  <1>4. UsesPool(s, c) => r.counter + c.n <= s.batch
    BY <1>1 DEF Ready, UsesPool, Refills
  <1>5. CASE Refills(s, c)
    <2>1. /\ r.counter = 0
          /\ r.slot = [j \in 0..(s.batch - 1) |->
                         IF j < s.counter THEN s.prg + j ELSE s.slot[j]]
      BY <1>5 DEF Ready
    <2> HIDE DEF r
    <2>2. \A j \in 0..(s.batch - 1) :
            /\ r.slot[j] \in Nat /\ r.slot[j] < r.prg
            /\ j < s.counter => r.slot[j] = s.prg + j
            /\ j >= s.counter => r.slot[j] = s.slot[j] /\ s.slot[j] < s.prg
      <3> SUFFICES ASSUME NEW j \in 0..(s.batch - 1)
                   PROVE  /\ r.slot[j] \in Nat /\ r.slot[j] < r.prg
                          /\ j < s.counter => r.slot[j] = s.prg + j
                          /\ j >= s.counter => r.slot[j] = s.slot[j] /\ s.slot[j] < s.prg
        OBVIOUS
      <3>1. CASE j < s.counter
        BY <1>1, <1>3, <1>5, <2>1, <3>1
      <3>2. CASE j >= s.counter
        <4>1. j \in s.counter..(s.batch - 1)
          BY <1>1, <3>2
        <4>2. s.slot[j] \in Nat /\ s.slot[j] < s.prg
          BY <4>1 DEF Sound
        <4>3. r.slot[j] = s.slot[j]
          BY <1>1, <2>1, <3>2
        <4> QED
          BY <1>1, <1>3, <3>2, <4>2, <4>3
      <3> QED
        BY <1>1, <3>1, <3>2
    <2>3. \A j, k \in 0..(s.batch - 1) : j # k => r.slot[j] # r.slot[k]
      <3> SUFFICES ASSUME NEW j \in 0..(s.batch - 1), NEW k \in 0..(s.batch - 1),
                          j < k
                   PROVE  r.slot[j] # r.slot[k]
        BY <1>1
      <3>1. CASE k < s.counter
        <4>1. r.slot[j] = s.prg + j /\ r.slot[k] = s.prg + k
          BY <1>1, <2>2, <3>1
        <4>2. j \in Nat /\ k \in Nat
          OBVIOUS
        <4> QED
          BY <1>1, <4>1, <4>2
      <3>2. CASE j < s.counter /\ k >= s.counter
        <4>1. r.slot[j] = s.prg + j
          BY <2>2, <3>2
        <4>2. r.slot[k] = s.slot[k] /\ s.slot[k] < s.prg /\ r.slot[k] \in Nat
          BY <2>2, <3>2
        <4>3. j \in Nat
          OBVIOUS
        <4> QED
          BY <1>1, <4>1, <4>2, <4>3
      <3>3. CASE j >= s.counter
        BY <1>1, <2>2, <3>3 DEF Sound
      <3> QED
        BY <1>1, <3>1, <3>2, <3>3
    <2>4. r.slot \in [0..(r.batch - 1) -> Row]
      BY <1>2, <2>1, <2>2 DEF Row
    <2>5. Sound(r)
      BY <1>1, <1>2, <1>3, <2>1, <2>2, <2>3, <2>4 DEF Sound
    <2> QED
      BY <1>4, <2>5 DEF r
  <1>6. CASE ~Refills(s, c)
    <2>1. r.counter = s.counter /\ r.slot = s.slot
      BY <1>1, <1>6 DEF Ready
    <2> HIDE DEF r
    <2>2. Sound(r)
      BY <1>1, <1>2, <1>3, <2>1 DEF Sound
    <2> QED
      BY <1>4, <2>2 DEF r
  <1> QED
    BY <1>5, <1>6

LEMMA SoundAfter ==
  ASSUME NEW s, Sound(s), NEW c, c.n \in Nat,
         c.op \in {"got", "block", "batch"}, c.op = "block" => c.n > 0
  PROVE  Sound(After(s, c))
  <1>1. CASE c.op = "batch"
    <2> DEFINE r == After(s, c)
    <2>1. /\ r.batch = c.n /\ r.counter = c.n /\ r.prg = s.prg /\ r.setup = s.setup
          /\ r.slot = [j \in 0..(c.n - 1) |-> NoRow]
      BY <1>1 DEF After
    <2>2. c.n..(c.n - 1) = {} /\ s.prg \in Nat /\ s.setup \in BOOLEAN
      BY DEF Sound
    <2> HIDE DEF r
    <2>3. Sound(r)
      BY <2>1, <2>2 DEF Sound, Row
    <2> QED
      BY <2>3 DEF r
  <1>2. CASE c.op # "batch"
    <2> DEFINE r == After(s, c)
               m == Ready(s, c)
    <2>1. Sound(m) /\ m.batch = s.batch
          /\ (UsesPool(s, c) => m.counter + c.n <= s.batch)
      BY SoundReady DEF Ready
    <2>2. /\ r.batch = m.batch /\ r.prg = m.prg /\ r.setup = m.setup /\ r.slot = m.slot
          /\ r.counter = m.counter + (IF UsesPool(s, c) THEN c.n ELSE 0)
      BY <1>2, <2>1 DEF After
    <2> HIDE DEF r, m
    <2>3. r.counter \in 0..m.batch /\ r.counter >= m.counter
      BY <2>1, <2>2 DEF Sound
    <2>4. r.counter..(m.batch - 1) \subseteq m.counter..(m.batch - 1)
      BY <2>1, <2>3 DEF Sound
    <2>5. Sound(r)
      BY <2>1, <2>2, <2>3, <2>4 DEF Sound
    <2> QED
      BY <2>5 DEF r
  <1> QED
    BY <1>1, <1>2

\* A call in which nothing is sent draws nothing and leaves the pool's rows.
LEMMA SilentCall ==
  ASSUME NEW s, Sound(s), NEW c, c.n \in Nat,
         c.op \in {"got", "block", "batch"}, c.op = "block" => c.n > 0,
         c.op = "batch" \/ c.n = 0
  PROVE  /\ ~Extends(s, c) /\ After(s, c).prg = s.prg /\ After(s, c).setup = s.setup
         /\ Ready(s, c).prg = s.prg /\ Ready(s, c).setup = s.setup
  <1>1. ~Extends(s, c)
    BY ExtendFacts DEF Extends
  <1> QED
    BY <1>1 DEF After, Ready, Sound

------------------------------------------------------------------------------
(* Steps of one party.                                                      *)

LEMMA SameCall ==
  ASSUME program' = program, NEW p, at'[p] = at[p]
  PROVE  /\ Before(p)' = Before(p) /\ Now(p)' = Now(p)
         /\ Then(p)' = Then(p) /\ Length(p)' = Length(p)
  BY LedgerSame DEF Before, Now, Then, Length

\* The call a party is in, and the path it takes.
LEMMA InCall ==
  ASSUME ProgramInv, NEW p \in Party, LocalInv(p), at[p] <= Len(program)
  PROVE  /\ at[p] \in 1..Len(program)
         /\ Now(p).op \in {"got", "block", "batch"} /\ Now(p).n \in Nat
         /\ Now(p).op = "block" => Now(p).n > 0
         /\ Length(p) = Now(p).n /\ Sound(Before(p)) /\ Sound(Then(p))
         /\ UsesPool(Before(p), Now(p)) => Then(p).counter + Length(p) <= batch[p]
         /\ Pooled(p) <=> UsesPool(Before(p), Now(p))
         /\ counter[p] = Before(p).counter \/ ~Pooled(p) =>
              /\ Wanted(p) = RowsOf(Before(p), Now(p))
              /\ Pooled(p) /\ NeedsRefill(p) <=> Refills(Before(p), Now(p))
  <1>1. at[p] \in 1..Len(program) /\ Sound(Before(p)) /\ batch[p] = Before(p).batch
    BY DEF LocalInv, ProgramInv
  <1>2. /\ Now(p).op \in {"got", "block", "batch"} /\ Now(p).n \in Nat
        /\ Now(p).op = "block" => Now(p).n > 0
    BY <1>1, CallFacts DEF Now
  <1>3. /\ Sound(Then(p))
        /\ UsesPool(Before(p), Now(p)) => Then(p).counter + Now(p).n <= batch[p]
    BY <1>1, <1>2, SoundReady DEF Then
  <1>4. Pooled(p) <=> UsesPool(Before(p), Now(p))
    BY <1>1 DEF Pooled, UsesPool, Length
  <1>5. counter[p] = Before(p).counter \/ ~Pooled(p) =>
          /\ Wanted(p) = RowsOf(Before(p), Now(p))
          /\ Pooled(p) /\ NeedsRefill(p) <=> Refills(Before(p), Now(p))
    BY <1>1, <1>4 DEF Wanted, RowsOf, NeedsRefill, Refills, Length
  <1> QED
    BY <1>1, <1>2, <1>3, <1>4, <1>5 DEF Length

\* A party that does nothing keeps its place.
LEMMA LocalFrame ==
  ASSUME NEW p \in Party, LocalInv(p), program' = program,
         at'[p] = at[p], pc'[p] = pc[p], batch'[p] = batch[p],
         counter'[p] = counter[p], setup'[p] = setup[p], prg'[p] = prg[p],
         rows'[p] = rows[p], ctr'[p] = ctr[p],
         p = ALICE => q' = q, p = BOB => t' = t
  PROVE  LocalInv(p)'
  <1>1. /\ Before(p)' = Before(p) /\ Now(p)' = Now(p)
        /\ Then(p)' = Then(p) /\ Length(p)' = Length(p)
    BY SameCall
  <1>2. \A f : Slotted(p, f) => Slotted(p, f)'
    BY DEF Slotted, Party
  <1>3. AtCall(p)'
    BY <1>1, <1>2 DEF LocalInv, AtCall
  <1>4. AtExtend(p)'
    BY <1>1, <1>2 DEF LocalInv, AtExtend
  <1>5. AtMessages(p)'
    BY <1>1, <1>2 DEF LocalInv, AtMessages
  <1> QED
    BY <1>1, <1>3, <1>4, <1>5 DEF LocalInv

\* A party that returns from a call stands before the next as the ledger says.
LEMMA Returned ==
  ASSUME ProgramInv, NEW p \in Party, LocalInv(p), program' = program,
         at[p] <= Len(program), at'[p] = at[p] + 1, pc'[p] = "call",
         ctr'[p] = 0, rows'[p] = <<>>,
         NEW s, s = After(Before(p), Now(p)),
         batch'[p] = s.batch, counter'[p] = s.counter, prg'[p] = s.prg,
         setup'[p] = s.setup, Slotted(p, s.slot)'
  PROVE  LocalInv(p)' /\ Before(p)' = s
  <1>1. at[p] \in 1..Len(program) /\ Sound(Before(p))
    BY InCall
  <1>2. Before(p)' = s
    BY <1>1, LedgerSame, LedgerSteps DEF Before, Now
  <1>3. Sound(s)
    BY InCall, SoundAfter
  <1>4. at'[p] \in 1..(Len(program)' + 1)
    BY <1>1
  <1>5. AtCall(p)' /\ AtExtend(p)' /\ AtMessages(p)'
    BY <1>2 DEF AtCall, AtExtend, AtMessages
  <1> QED
    BY <1>2, <1>3, <1>4, <1>5 DEF LocalInv

LEMMA BatchLocal ==
  ASSUME ProgramInv, ControlTypes, NEW p \in Party, LocalInv(p), SetBatch(p)
  PROVE  LocalInv(p)' /\ Before(p)' = After(Before(p), Now(p))
  <1>0. PICK s : s = After(Before(p), Now(p))
    OBVIOUS
  <1>1. /\ at[p] <= Len(program) /\ pc[p] = "call" /\ Now(p).op = "batch"
        /\ program' = program /\ at'[p] = at[p] + 1 /\ pc'[p] = "call"
        /\ ctr'[p] = ctr[p] /\ rows'[p] = rows[p] /\ prg'[p] = prg[p]
        /\ setup'[p] = setup[p]
        /\ batch'[p] = Now(p).n /\ counter'[p] = Now(p).n
    BY DEF SetBatch, Pending, callVars, ControlTypes, Length
  <1>2. /\ ctr[p] = 0 /\ rows[p] = <<>> /\ prg[p] = Before(p).prg
        /\ setup[p] = Before(p).setup
    BY <1>1 DEF LocalInv, AtCall
  <1>3. /\ s.batch = Now(p).n /\ s.counter = Now(p).n /\ s.prg = Before(p).prg
        /\ s.setup = Before(p).setup
        /\ s.slot = [j \in 0..(Now(p).n - 1) |-> NoRow]
    BY <1>0, <1>1 DEF After
  <1>4. Slotted(p, s.slot)'
    <2>1. CASE p = ALICE
      BY <1>3, <2>1 DEF SetBatch, Slotted, Length
    <2>2. CASE p = BOB
      <3>1. batch'[BOB] = Now(p).n /\ BOB # ALICE
        BY <1>1, <2>2 DEF ALICE, BOB
      <3>2. t' = [j \in 0..(Now(p).n - 1) |-> NoPad]
        BY <2>2, <3>1 DEF SetBatch, Length
      <3> QED
        BY <1>3, <2>2, <3>1, <3>2 DEF Slotted, NoPad
    <2> QED
      BY <2>1, <2>2 DEF Party
  <1> QED
    BY <1>0, <1>1, <1>2, <1>3, <1>4, Returned

LEMMA FinishLocal ==
  ASSUME ProgramInv, ControlTypes, NEW p \in Party, LocalInv(p), Finish(p)
  PROVE  LocalInv(p)' /\ Before(p)' = After(Before(p), Now(p))
  <1>0. PICK s : s = After(Before(p), Now(p))
    OBVIOUS
  <1>1. /\ pc[p] \in {"online", "post"} /\ ctr[p] = Length(p)
        /\ program' = program /\ at'[p] = at[p] + 1 /\ pc'[p] = "call"
        /\ ctr'[p] = 0 /\ rows'[p] = <<>> /\ prg'[p] = prg[p]
        /\ setup'[p] = setup[p] /\ batch'[p] = batch[p] /\ counter'[p] = counter[p]
        /\ q' = q /\ t' = t /\ batch' = batch
    BY DEF Finish, Enter, callVars, poolVars, ControlTypes
  <1>2. /\ at[p] <= Len(program) /\ Now(p).op # "batch"
        /\ pc[p] = "post" <=> ~UsesPool(Before(p), Now(p))
        /\ counter[p] = Then(p).counter + (IF pc[p] = "post" THEN 0 ELSE ctr[p])
        /\ prg[p] = Then(p).prg /\ setup[p] = Then(p).setup
        /\ Slotted(p, Then(p).slot) /\ batch[p] = Before(p).batch
    BY <1>1 DEF LocalInv, AtMessages
  <1>3. Then(p).counter \in Nat /\ Length(p) = Now(p).n
    BY <1>2, InCall DEF Sound
  <1>4. /\ s.batch = batch[p] /\ s.counter = counter[p] /\ s.prg = prg[p]
        /\ s.setup = setup[p] /\ s.slot = Then(p).slot
    BY <1>0, <1>1, <1>2, <1>3 DEF After, Then
  <1>5. Slotted(p, s.slot)'
    BY <1>1, <1>2, <1>4 DEF Slotted
  <1> QED
    BY <1>0, <1>1, <1>2, <1>4, <1>5, Returned

\* A step within a call.
LEMMA InPlace ==
  ASSUME NEW p \in Party, LocalInv(p), program' = program, at'[p] = at[p],
         batch'[p] = batch[p], at[p] <= Len(program),
         AtCall(p)', AtExtend(p)', AtMessages(p)'
  PROVE  LocalInv(p)'
  <1>1. Before(p)' = Before(p)
    BY SameCall
  <1> QED
    BY <1>1 DEF LocalInv

LEMMA BeginLocal ==
  ASSUME ProgramInv, ControlTypes, NEW p \in Party, LocalInv(p), Begin(p)
  PROVE  LocalInv(p)'
  <1>1. /\ at[p] <= Len(program) /\ pc[p] = "call" /\ Now(p).op # "batch"
        /\ program' = program /\ at'[p] = at[p]
        /\ pc'[p] = IF Pooled(p) /\ ~NeedsRefill(p) THEN "online" ELSE "extend"
        /\ ctr'[p] = ctr[p] /\ rows'[p] = rows[p] /\ prg'[p] = prg[p]
        /\ setup'[p] = setup[p] /\ batch'[p] = batch[p] /\ counter'[p] = counter[p]
        /\ q' = q /\ t' = t /\ batch' = batch
    BY DEF Begin, Pending, Enter, callVars, ControlTypes
  <1>2. /\ counter[p] = Before(p).counter /\ prg[p] = Before(p).prg
        /\ setup[p] = Before(p).setup /\ Slotted(p, Before(p).slot)
        /\ ctr[p] = 0 /\ rows[p] = <<>>
    BY <1>1 DEF LocalInv, AtCall
  <1>3. /\ Before(p)' = Before(p) /\ Now(p)' = Now(p)
        /\ Then(p)' = Then(p) /\ Length(p)' = Length(p)
    BY <1>1, SameCall
  <1>4. /\ Pooled(p) <=> UsesPool(Before(p), Now(p))
        /\ Pooled(p) /\ NeedsRefill(p) <=> Refills(Before(p), Now(p))
        /\ Length(p) \in Nat /\ Sound(Before(p))
    BY <1>1, <1>2, InCall
  <1>5. Slotted(p, Before(p).slot)'
    BY <1>1, <1>2, <1>3 DEF Slotted
  <1>6. AtExtend(p)'
    <2> SUFFICES ASSUME pc'[p] = "extend"
                 PROVE  AtExtend(p)'
      BY DEF AtExtend
    <2>1. Extends(Before(p), Now(p))
      BY <1>1, <1>4 DEF Extends
    <2>2. 0 * BlockIn(Before(p), Now(p)) = 0 /\ 0 <= PaddedIn(Before(p), Now(p))
      BY <1>1, <2>1, InCall, ExtendFacts
    <2>3. rows[p] = RowsFrom(Before(p).prg, 0) /\ prg[p] = Before(p).prg + 0
      BY <1>2, <1>4 DEF RowsFrom, Sound
    <2> QED
      BY <1>1, <1>2, <1>3, <1>5, <2>1, <2>2, <2>3 DEF AtExtend
  <1>7. AtMessages(p)'
    <2> SUFFICES ASSUME pc'[p] = "online"
                 PROVE  AtMessages(p)'
      BY <1>1 DEF AtMessages
    <2>1. UsesPool(Before(p), Now(p)) /\ ~Refills(Before(p), Now(p))
          /\ ~Extends(Before(p), Now(p))
      BY <1>1, <1>4 DEF Extends
    <2>2. /\ Then(p).counter = counter[p] /\ counter[p] \in Nat /\ Then(p).prg = prg[p]
          /\ Then(p).setup = setup[p] /\ Then(p).slot = Before(p).slot
      BY <1>2, <1>4, <2>1 DEF Then, Ready, Sound
    <2>3. Slotted(p, Then(p).slot)'
      BY <1>3, <1>5, <2>2 DEF Slotted
    <2>4. pc'[p] # "post" /\ pc'[p] # "asked" /\ ctr'[p] = 0 /\ 0 \in 0..Length(p)
      BY <1>1, <1>2, <1>4
    <2>5. /\ counter'[p] = Then(p).counter + 0 /\ prg'[p] = Then(p).prg
          /\ setup'[p] = Then(p).setup /\ rows'[p] = <<>>
      BY <1>1, <1>2, <2>2
    <2> QED
      BY <1>1, <1>3, <2>1, <2>3, <2>4, <2>5 DEF AtMessages
  <1> QED
    BY <1>1, <1>6, <1>7, InPlace DEF AtCall

LEMMA SeedLocal ==
  ASSUME NEW p \in Party, LocalInv(p), ControlTypes, pc[p] = "extend",
         setup' = [setup EXCEPT ![p] = TRUE],
         UNCHANGED <<program, at, pc, batch, counter, q, t, prg, rows, ctr>>
  PROVE  LocalInv(p)'
  <1>1. /\ Before(p)' = Before(p) /\ Now(p)' = Now(p)
        /\ Then(p)' = Then(p) /\ Length(p)' = Length(p)
    BY SameCall
  <1>2. \A f : Slotted(p, f) => Slotted(p, f)'
    BY DEF Slotted
  <1>3. setup'[p] = TRUE /\ at[p] <= Len(program)
    BY DEF ControlTypes, LocalInv
  <1>4. AtExtend(p)'
    BY <1>1, <1>2, <1>3 DEF AtExtend, LocalInv
  <1> QED
    BY <1>3, <1>4, InPlace DEF AtCall, AtMessages

\* Where an extension stands: k blocks of it are drawn.
LEMMA InExtension ==
  ASSUME ProgramInv, NEW p \in Party, LocalInv(p), pc[p] = "extend"
  PROVE  LET s == Before(p)
             c == Now(p)
         IN  /\ at[p] <= Len(program) /\ Extends(s, c) /\ s.prg \in Nat
             /\ BlockOf(Wanted(p)) = BlockIn(s, c)
             /\ PaddedLength(Wanted(p)) = PaddedIn(s, c)
             /\ BlockIn(s, c) \in Nat \ {0} /\ PaddedIn(s, c) \in Nat \ {0}
             /\ PaddedIn(s, c) >= RowsOf(s, c) /\ RowsOf(s, c) \in Nat \ {0}
             /\ Wanted(p) = RowsOf(s, c)
             /\ \E l \in Nat : PaddedIn(s, c) = l * BlockIn(s, c)
             /\ \E k \in Nat :
                  /\ k * BlockIn(s, c) \in Nat /\ k * BlockIn(s, c) <= PaddedIn(s, c)
                  /\ k * BlockIn(s, c) > 0 => setup[p]
                  /\ rows[p] = RowsFrom(s.prg, k * BlockIn(s, c))
                  /\ Len(rows[p]) = k * BlockIn(s, c)
                  /\ prg[p] = s.prg + k * BlockIn(s, c)
  <1>0. PICK s, c : s = Before(p) /\ c = Now(p)
    OBVIOUS
  <1>1. at[p] <= Len(program) /\ Extends(s, c) /\ Sound(s) /\ counter[p] = s.counter
    BY <1>0 DEF LocalInv, AtExtend
  <1>2. /\ c.n \in Nat /\ c.op \in {"got", "block", "batch"}
        /\ c.op = "block" => c.n > 0
        /\ Wanted(p) = RowsOf(s, c)
    BY <1>0, <1>1, InCall
  <1>3. /\ RowsOf(s, c) \in Nat \ {0}
        /\ BlockIn(s, c) \in Nat \ {0} /\ PaddedIn(s, c) \in Nat \ {0}
        /\ PaddedIn(s, c) >= RowsOf(s, c)
        /\ \E l \in Nat : PaddedIn(s, c) = l * BlockIn(s, c)
    BY <1>1, <1>2, ExtendFacts
  <1>4. PICK k \in Nat :
          /\ k * BlockIn(s, c) <= PaddedIn(s, c) /\ (k * BlockIn(s, c) > 0 => setup[p])
          /\ rows[p] = RowsFrom(s.prg, k * BlockIn(s, c))
          /\ prg[p] = s.prg + k * BlockIn(s, c)
    BY <1>0 DEF LocalInv, AtExtend
  <1>5. k * BlockIn(s, c) \in Nat
    BY <1>3, NextBlock
  <1>6. Len(RowsFrom(s.prg, k * BlockIn(s, c))) = k * BlockIn(s, c)
    <2>1. PICK m \in Nat : m = k * BlockIn(s, c)
      BY <1>5
    <2>2. PICK u : u = RowsFrom(s.prg, m)
      OBVIOUS
    <2>3. u = [i \in 1..m |-> u[i]]
      BY <2>2 DEF RowsFrom
    <2>4. Len(u) = m
      BY <2>1, <2>3, GivenSeq
    <2> QED
      BY <2>1, <2>2, <2>4
  <1>7. s.prg \in Nat
    BY <1>1 DEF Sound
  <1> QED
    BY <1>0, <1>1, <1>2, <1>3, <1>4, <1>5, <1>6, <1>7 DEF BlockIn, PaddedIn

\* A block more.
LEMMA ExtendLocal ==
  ASSUME ProgramInv, NEW p \in Party, LocalInv(p), ControlTypes, Extending(p),
         rows' = [rows EXCEPT ![p] = @ \o Drawn(p)],
         prg' = [prg EXCEPT ![p] = PrgAfter(p)],
         UNCHANGED <<program, at, pc, batch, counter, q, t, setup, ctr>>
  PROVE  /\ LocalInv(p)' /\ prg'[p] = prg[p] + BlockIn(Before(p), Now(p))
         /\ prg'[p] <= Then(p).prg
  <1>0. PICK s, c : s = Before(p) /\ c = Now(p)
    OBVIOUS
  <1> DEFINE d == BlockIn(s, c)
             e == PaddedIn(s, c)
  <1>1. /\ Before(p)' = Before(p) /\ Now(p)' = Now(p)
        /\ Then(p)' = Then(p) /\ Length(p)' = Length(p)
    BY SameCall
  <1>2. \A f : Slotted(p, f) => Slotted(p, f)'
    BY DEF Slotted
  <1>3. pc[p] = "extend" /\ setup[p] /\ Len(rows[p]) < PaddedLength(Wanted(p))
    BY DEF Extending
  <1>4. /\ at[p] <= Len(program) /\ Extends(s, c) /\ s.prg \in Nat
        /\ BlockOf(Wanted(p)) = d /\ PaddedLength(Wanted(p)) = e
        /\ d \in Nat \ {0} /\ e \in Nat \ {0}
    BY <1>0, <1>3, InExtension
  <1>5. PICK l \in Nat : e = l * d
    BY <1>0, <1>3, InExtension
  <1>6. PICK k \in Nat : /\ rows[p] = RowsFrom(s.prg, k * d) /\ k * d \in Nat
                         /\ Len(rows[p]) = k * d /\ prg[p] = s.prg + k * d
    BY <1>0, <1>3, InExtension
  <1>7. (k + 1) * d = k * d + d /\ (k + 1) * d <= e
    <2> HIDE DEF d, e
    <2> QED
      BY <1>3, <1>4, <1>5, <1>6, NextBlock
  <1>8. rows'[p] = RowsFrom(s.prg, (k + 1) * d)
    <2>1. PICK n \in Nat, m \in Nat, g \in Nat : n = k * d /\ m = d /\ g = s.prg
      BY <1>4, <1>6
    <2>2. PICK u, v : u = RowsFrom(g, n) /\ v = RowsFrom(g + n, m)
      OBVIOUS
    <2>3. u = [i \in 1..n |-> u[i]] /\ v = [i \in 1..m |-> v[i]]
      BY <2>2 DEF RowsFrom
    <2>4. u \o v = [i \in 1..(n + m) |-> IF i <= n THEN u[i] ELSE v[i - n]]
      BY <2>3, Glue
    <2>5. ASSUME NEW i \in 1..(n + m)
          PROVE  (IF i <= n THEN u[i] ELSE v[i - n]) = g + i - 1
      BY <2>2 DEF RowsFrom
    <2>6. u \o v = RowsFrom(g, n + m)
      BY <2>4, <2>5 DEF RowsFrom
    <2>7. Drawn(p) = v
      BY <1>4, <1>6, <2>1, <2>2 DEF Drawn, RowsFrom
    <2>8. rows'[p] = rows[p] \o Drawn(p)
      BY DEF ControlTypes
    <2> QED
      BY <1>6, <1>7, <2>1, <2>2, <2>6, <2>7, <2>8
  <1>9. prg'[p] = s.prg + (k + 1) * d /\ prg'[p] = prg[p] + d
    <2>1. prg'[p] = prg[p] + d
      BY <1>4 DEF ControlTypes, PrgAfter
    <2> HIDE DEF d
    <2> QED
      BY <1>4, <1>6, <1>7, <2>1
  <1>10. AtExtend(p)'
    <2>1. pc'[p] = "extend" /\ setup'[p] /\ counter'[p] = counter[p] /\ ctr'[p] = ctr[p]
      BY <1>3
    <2>2. counter[p] = s.counter /\ Slotted(p, s.slot) /\ ctr[p] = 0
      BY <1>0, <1>3 DEF LocalInv, AtExtend
    <2>3. Slotted(p, s.slot)'
      BY <1>2, <2>2
    <2> HIDE DEF d, e
    <2>4. \E k2 \in Nat :
             LET n == k2 * d
             IN  /\ n <= e /\ (n > 0 => setup'[p])
                 /\ rows'[p] = RowsFrom(s.prg, n) /\ prg'[p] = s.prg + n
      BY <1>7, <1>8, <1>9, <2>1
    <2> QED
      BY <1>0, <1>1, <1>4, <2>1, <2>2, <2>3, <2>4 DEF AtExtend, d, e
  <1>11. LocalInv(p)'
    BY <1>3, <1>4, <1>10, InPlace DEF AtCall, AtMessages
  <1>12. prg'[p] <= Then(p).prg
    <2>1. Then(p).prg = s.prg + e
      BY <1>0, <1>4 DEF Then, Ready
    <2> HIDE DEF d, e
    <2> QED
      BY <1>4, <1>6, <1>7, <1>9, <2>1
  <1> QED
    BY <1>0, <1>9, <1>11, <1>12

\* The extension is complete: the pool has its rows, or the call keeps them.
LEMMA StoreLocal ==
  ASSUME ProgramInv, NEW p \in Party, LocalInv(p), ControlTypes, PadsInv, Store(p)
  PROVE  /\ LocalInv(p)' /\ prg[p] = Then(p).prg /\ setup[p] = Then(p).setup
         /\ at[p] <= Len(program) /\ Before(p)' = Before(p) /\ Now(p)' = Now(p)
         /\ Then(p)' = Then(p)
  <1>0. PICK s, c, r : s = Before(p) /\ c = Now(p) /\ r = Then(p)
    OBVIOUS
  <1>1. /\ Before(p)' = Before(p) /\ Now(p)' = Now(p)
        /\ Then(p)' = Then(p) /\ Length(p)' = Length(p)
        /\ program' = program /\ at' = at /\ batch' = batch /\ setup' = setup
        /\ prg' = prg /\ ctr' = ctr
        /\ pc[p] = "extend" /\ setup[p] /\ Len(rows[p]) = PaddedLength(Wanted(p))
    BY SameCall DEF Store, callVars
  <1>2. /\ counter[p] = s.counter /\ Slotted(p, s.slot) /\ ctr[p] = 0
        /\ batch[p] = s.batch /\ Sound(s)
    BY <1>0, <1>1 DEF LocalInv, AtExtend
  <1>3. PICK e \in Nat : /\ e = PaddedIn(s, c) /\ rows[p] = RowsFrom(s.prg, e)
                         /\ prg[p] = s.prg + e /\ e >= RowsOf(s, c)
                         /\ Extends(s, c) /\ at[p] <= Len(program)
    BY <1>0, <1>1, InExtension
  <1>4. /\ Pooled(p) <=> UsesPool(s, c)
        /\ UsesPool(s, c) => Refills(s, c) /\ RowsOf(s, c) = s.counter
        /\ Length(p) \in Nat
    BY <1>0, <1>2, <1>3, InCall, ExtendFacts DEF Extends
  <1>5. /\ r.prg = prg[p] /\ r.setup = setup[p]
        /\ r.counter = (IF UsesPool(s, c) THEN 0 ELSE s.counter)
        /\ r.slot = [j \in 0..(batch[p] - 1) |->
               IF UsesPool(s, c) /\ j < s.counter THEN s.prg + j ELSE s.slot[j]]
    <2>1. Refills(s, c) <=> UsesPool(s, c)
      BY <1>4 DEF Refills
    <2>2. r = Ready(s, c)
      BY <1>0 DEF Then
    <2>3. s.setup \in BOOLEAN
      BY <1>2 DEF Sound
    <2> QED
      BY <1>1, <1>2, <1>3, <2>1, <2>2, <2>3 DEF Ready
  <1>6. CASE UsesPool(s, c)
    <2>1. /\ pc'[p] = "online" /\ counter'[p] = 0 /\ rows'[p] = <<>>
          /\ Pooled(p)
      BY <1>4, <1>6 DEF Store, Enter, ControlTypes
    <2>2. ASSUME NEW j \in 0..(batch[p] - 1), j < counter[p]
          PROVE  rows[p][j + 1] = s.prg + j
      <3>1. j + 1 \in 1..e
        BY <1>2, <1>3, <1>4, <1>6, <2>2 DEF Sound
      <3>2. rows[p][j + 1] = s.prg + (j + 1) - 1
        BY <1>3, <3>1 DEF RowsFrom
      <3> QED
        BY <1>2, <3>2 DEF Sound
    <2>3. Slotted(p, r.slot)'
      <3>1. CASE p = ALICE
        <4>1. q = s.slot /\ DOMAIN q = 0..(batch[p] - 1)
          BY <1>2, <3>1 DEF Slotted, Sound
        <4>2. q' = [j \in DOMAIN q |->
                       IF Refilled(p, j) THEN rows[p][j + 1] ELSE q[j]]
          BY <2>1, <3>1 DEF Store
        <4>3. q' = [j \in 0..(batch[p] - 1) |->
                       IF j < counter[p] THEN rows[p][j + 1] ELSE q[j]]
          BY <4>1, <4>2 DEF Refilled
        <4>4. q' = r.slot
          BY <1>2, <1>5, <1>6, <2>2, <4>1, <4>3
        <4> QED
          BY <3>1, <4>4 DEF Slotted
      <3>2. CASE p = BOB
        <4>1. DOMAIN t = 0..(batch[p] - 1)
          BY <3>2 DEF PadsInv
        <4>2. /\ BOB # ALICE
              /\ t' = [j \in DOMAIN t |->
                         IF Refilled(p, j) THEN <<rows[p][j + 1], r_off[j]>> ELSE t[j]]
          BY <2>1, <3>2 DEF Store, ALICE, BOB
        <4>3. ASSUME NEW j \in 0..(batch[p] - 1)
              PROVE  t'[j][1] = r.slot[j]
          <5>1. t[j][1] = s.slot[j]
            BY <1>2, <3>2, <4>2 DEF Slotted
          <5> QED
            BY <1>2, <1>5, <1>6, <2>2, <4>1, <4>2, <5>1 DEF Refilled
        <4> QED
          BY <1>1, <3>2, <4>2, <4>3 DEF Slotted
      <3> QED
        BY <3>1, <3>2 DEF Party
    <2>4. AtMessages(p)'
      <3>1. /\ Now(p).op # "batch" /\ 0 \in 0..Length(p)
        BY <1>0, <1>4, <1>6 DEF UsesPool
      <3>2. /\ counter'[p] = r.counter + ctr'[p] /\ prg'[p] = r.prg
            /\ setup'[p] = r.setup
        <4>1. r.prg = prg[p] /\ r.setup = setup[p] /\ r.counter = 0
          BY <1>5, <1>6
        <4>2. setup'[p] = r.setup
          BY <1>1, <4>1, Zenon
        <4>3. counter'[p] = r.counter + ctr'[p] /\ prg'[p] = r.prg
          BY <1>1, <1>2, <2>1, <4>1
        <4> QED
          BY <4>2, <4>3
      <3> QED
        BY <1>0, <1>1, <1>2, <1>6, <2>1, <2>3, <3>1, <3>2 DEF AtMessages
    <2> QED
      BY <1>0, <1>1, <1>3, <1>5, <2>1, <2>4, InPlace DEF AtCall, AtExtend
  <1>7. CASE ~UsesPool(s, c)
    <2>1. /\ pc'[p] = "post" /\ counter' = counter /\ rows' = rows /\ q' = q /\ t' = t
          /\ ~Pooled(p)
      BY <1>4, <1>7 DEF Store, Enter, ControlTypes
    <2>2. s.slot \in [0..(batch[p] - 1) -> Row] /\ s.counter \in Nat
      BY <1>2 DEF Sound
    <2>3. r.slot = s.slot
      BY <1>5, <1>7, <2>2
    <2>4. Slotted(p, r.slot)'
      BY <1>1, <1>2, <2>1, <2>3 DEF Slotted
    <2>5. AtMessages(p)'
      <3>1. /\ Now(p).op # "batch" /\ 0 \in 0..Length(p)
        BY <1>0, <1>3, <1>4 DEF Extends
      <3>2. /\ counter'[p] = r.counter + 0 /\ prg'[p] = r.prg
            /\ setup'[p] = r.setup /\ rows'[p] = RowsFrom(s.prg, PaddedIn(s, c))
        <4>1. r.prg = prg[p] /\ r.setup = setup[p] /\ r.counter = counter[p]
          BY <1>2, <1>5, <1>7
        <4>2. setup'[p] = r.setup
          BY <1>1, <4>1, Zenon
        <4>3. /\ counter'[p] = r.counter + 0 /\ prg'[p] = r.prg
              /\ rows'[p] = RowsFrom(s.prg, PaddedIn(s, c))
          BY <1>1, <1>2, <1>3, <2>1, <2>2, <4>1
        <4> QED
          BY <4>2, <4>3
      <3> QED
        BY <1>0, <1>1, <1>2, <1>7, <2>1, <2>4, <3>1, <3>2 DEF AtMessages
    <2> QED
      BY <1>0, <1>1, <1>3, <1>5, <2>1, <2>5, InPlace DEF AtCall, AtExtend
  <1> QED
    BY <1>6, <1>7

\* A message loop's turn: only the party's place in the call changes.
LEMMA MessageLocal ==
  ASSUME ProgramInv, NEW p \in Party, LocalInv(p),
         UNCHANGED <<program, at, batch, q, t, setup, prg, rows>>,
         pc[p] \in {"online", "asked", "post"},
         pc'[p] \in {"online", "asked", "post"},
         pc[p] = "post" <=> pc'[p] = "post",
         ctr'[p] \in 0..Length(p),
         counter'[p] = counter[p] + (IF pc[p] = "post" THEN 0 ELSE ctr'[p] - ctr[p]),
         pc'[p] = "asked" => p = BOB /\ ctr'[p] < Length(p)
  PROVE  LocalInv(p)'
  <1>1. /\ Before(p)' = Before(p) /\ Now(p)' = Now(p)
        /\ Then(p)' = Then(p) /\ Length(p)' = Length(p)
    BY SameCall
  <1>2. \A f : Slotted(p, f) => Slotted(p, f)'
    BY DEF Slotted
  <1>3. /\ at[p] <= Len(program) /\ Now(p).op # "batch"
        /\ pc[p] = "post" <=> ~UsesPool(Before(p), Now(p))
        /\ counter[p] = Then(p).counter + (IF pc[p] = "post" THEN 0 ELSE ctr[p])
        /\ prg[p] = Then(p).prg /\ setup[p] = Then(p).setup
        /\ Slotted(p, Then(p).slot) /\ ctr[p] \in 0..Length(p)
        /\ rows[p] = IF pc[p] = "post"
                     THEN RowsFrom(Before(p).prg, PaddedIn(Before(p), Now(p)))
                     ELSE <<>>
    BY DEF LocalInv, AtMessages
  <1>4. Length(p) \in Nat /\ Then(p).counter \in Nat
    BY <1>3, InCall DEF Sound
  <1>5. counter'[p] = Then(p).counter + (IF pc'[p] = "post" THEN 0 ELSE ctr'[p])
    BY <1>3, <1>4
  <1>6. Slotted(p, Then(p).slot)'
    BY <1>1, <1>2, <1>3
  <1>7. AtMessages(p)'
    BY <1>1, <1>3, <1>5, <1>6 DEF AtMessages
  <1> QED
    BY <1>3, <1>7, InPlace DEF AtCall, AtExtend

LEMMA ChunkFacts ==
  ASSUME NEW p \in Party, Length(p) \in Nat, ctr[p] \in 0..Length(p),
         NEW size \in Nat \ {0}
  PROVE  /\ Chunk(p, size) \in Nat /\ Chunk(p, size) <= size
         /\ ctr[p] + Chunk(p, size) \in 0..Length(p)
         /\ ctr[p] < Length(p) => Chunk(p, size) > 0
  BY DEF Chunk, Smaller

------------------------------------------------------------------------------
(* What stays when a step leaves it alone.                                  *)

\* Where a party's PRG stands within its call.
LEMMA PrgWithin ==
  ASSUME ProgramInv, NEW p \in Party, LocalInv(p), ControlTypes
  PROVE  /\ Before(p).prg \in Nat /\ prg[p] \in Nat
         /\ prg[p] >= Before(p).prg
         /\ Before(p).setup => setup[p]
         /\ pc[p] # "call" =>
              /\ prg[p] <= Then(p).prg /\ Then(p).prg \in Nat
              /\ setup[p] => Then(p).setup
         /\ pc[p] \in {"call", "extend"} => ctr[p] = 0
         /\ pc[p] \in {"online", "asked", "post"} =>
              prg[p] = Then(p).prg /\ setup[p] = Then(p).setup
  <1>1. /\ Before(p).prg \in Nat /\ prg[p] \in Nat
        /\ Before(p).setup \in BOOLEAN /\ setup[p] \in BOOLEAN
        /\ pc[p] \in {"call", "extend", "online", "asked", "post"}
    BY DEF LocalInv, Sound, ControlTypes, Place
  <1>2. CASE pc[p] = "call"
    BY <1>1, <1>2 DEF LocalInv, AtCall
  <1>3. CASE pc[p] = "extend"
    <2>1. PICK s, c : s = Before(p) /\ c = Now(p)
      OBVIOUS
    <2>2. PICK n \in Nat : n <= PaddedIn(s, c) /\ prg[p] = s.prg + n
      BY <1>3, <2>1, InExtension
    <2>3. /\ Then(p).prg = s.prg + PaddedIn(s, c) /\ PaddedIn(s, c) \in Nat
          /\ Then(p).setup
      BY <1>1, <1>3, <2>1, InExtension DEF Then, Ready
    <2>4. (s.setup => setup[p]) /\ ctr[p] = 0
      BY <1>3, <2>1 DEF LocalInv, AtExtend
    <2> QED
      BY <1>1, <1>3, <2>1, <2>2, <2>3, <2>4
  <1>4. CASE pc[p] \in {"online", "asked", "post"}
    <2>1. prg[p] = Then(p).prg /\ setup[p] = Then(p).setup /\ at[p] <= Len(program)
      BY <1>4 DEF LocalInv, AtMessages
    <2>2. PICK s, c : s = Before(p) /\ c = Now(p)
      OBVIOUS
    <2>3. Sound(s) /\ (Extends(s, c) => PaddedIn(s, c) \in Nat)
      BY <2>1, <2>2, InCall, ExtendFacts
    <2>4. Then(p).prg >= s.prg /\ (s.setup => Then(p).setup)
      BY <1>1, <2>2, <2>3 DEF Then, Ready
    <2> QED
      BY <1>1, <1>4, <2>1, <2>2, <2>4
  <1> QED
    BY <1>1, <1>2, <1>3, <1>4

\* Both in the same call, they see the same ledger.
LEMMA Together ==
  ASSUME at[ALICE] = at[BOB]
  PROVE  /\ Before(ALICE) = Before(BOB) /\ Now(ALICE) = Now(BOB)
         /\ Then(ALICE) = Then(BOB) /\ Length(ALICE) = Length(BOB)
         /\ Seeded = setup[ALICE] /\ Taken = prg[ALICE] /\ Answered = ctr[ALICE]
  BY DEF Before, Now, Then, Length, Seeded, Taken, Answered

LEMMA ViewSame ==
  ASSUME UNCHANGED <<program, at>>, setup'[ALICE] = setup[ALICE],
         prg'[ALICE] = prg[ALICE], ctr'[ALICE] = ctr[ALICE]
  PROVE  /\ Seeded' = Seeded /\ Taken' = Taken /\ Answered' = Answered
         /\ Before(BOB)' = Before(BOB) /\ Now(BOB)' = Now(BOB)
         /\ Then(BOB)' = Then(BOB) /\ Length(BOB)' = Length(BOB)
  <1>1. /\ Before(BOB)' = Before(BOB) /\ Now(BOB)' = Now(BOB)
        /\ Then(BOB)' = Then(BOB) /\ Length(BOB)' = Length(BOB)
    BY SameCall
  <1> QED
    BY <1>1 DEF Seeded, Taken, Answered

LEMMA ReplySame ==
  ASSUME UNCHANGED <<program, choice, r_off>>, at'[BOB] = at[BOB]
  PROVE  /\ \A o : CorrectionFor(o)' = CorrectionFor(o)
         /\ \A o : Reply(o)' = Reply(o)
  <1>1. /\ Before(BOB)' = Before(BOB) /\ Now(BOB)' = Now(BOB)
        /\ Then(BOB)' = Then(BOB)
    BY SameCall
  <1>2. \A o : CorrectionFor(o)' = CorrectionFor(o)
    BY <1>1 DEF CorrectionFor, SlotFor
  <1>3. \A o : Reply(o)' = Reply(o)
    BY <1>1, <1>2 DEF Reply, SlotFor
  <1> QED
    BY <1>2, <1>3

LEMMA UpSame ==
  ASSUME UpInv, UNCHANGED <<program, choice, r_off>>, at'[BOB] = at[BOB],
         at'[ALICE] > at'[BOB] <=> at[ALICE] > at[BOB],
         at'[ALICE] <= at'[BOB] <=> at[ALICE] <= at[BOB],
         Seeded' = Seeded, Taken' = Taken, setup'[BOB] = setup[BOB],
         prg'[BOB] = prg[BOB], wire'[ALICE] = wire[ALICE],
         pc[BOB] = "call" <=> pc'[BOB] = "call",
         Asked' = Asked, Asked = 0 \/ ctr'[BOB] = ctr[BOB]
  PROVE  UpInv'
  <1>1. Before(BOB)' = Before(BOB) /\ Now(BOB)' = Now(BOB)
    BY SameCall
  <1>2. SeedsUnderWay' = SeedsUnderWay /\ SeedsUnderWay \in {0, 1}
    BY DEF SeedsUnderWay
  <1>3. [j \in 1..Asked |-> CorrectionFor(ctr[BOB] + j)]'
          = [j \in 1..Asked |-> CorrectionFor(ctr[BOB] + j)]
    <2>1. CASE Asked = 0
      BY <2>1
    <2>2. CASE ctr'[BOB] = ctr[BOB]
      BY <2>2, ReplySame
    <2> QED
      BY <2>1, <2>2
  <1>4. ASSUME NEW n \in Nat
        PROVE  UpWire(n)' = UpWire(n)
    BY <1>1, <1>2, <1>3 DEF UpWire
  <1> QED
    BY <1>1, <1>4 DEF UpInv

LEMMA AskedSame ==
  ASSUME program' = program, at'[BOB] = at[BOB], Answered' = Answered,
         pc'[BOB] = pc[BOB], ctr'[BOB] = ctr[BOB]
  PROVE  Asked' = Asked
  BY DEF Asked, Asking, Chunk, Length, Now

LEMMA DownSame ==
  ASSUME DownInv, UNCHANGED <<program, choice, r_off>>, at'[BOB] = at[BOB],
         Answered' = Answered, ctr'[BOB] = ctr[BOB], wire'[BOB] = wire[BOB],
         pc'[BOB] = pc[BOB]
  PROVE  DownInv'
  <1>1. /\ Before(BOB)' = Before(BOB) /\ Now(BOB)' = Now(BOB)
        /\ Length(BOB)' = Length(BOB)
    BY SameCall
  <1>2. Chunk(BOB, OnlineChunk)' = Chunk(BOB, OnlineChunk)
    BY <1>1 DEF Chunk
  <1> QED
    BY <1>1, <1>2, ReplySame DEF DownInv

------------------------------------------------------------------------------
(* The invariant, conjunct by conjunct.                                     *)

LEMMA ProgramSame ==
  ASSUME ProgramInv, [Next]_vars
  PROVE  ProgramInv' /\ program' = program /\ choice' = choice
  <1> SUFFICES program' = program /\ choice' = choice
    BY DEF ProgramInv
  <1>1. ASSUME NEW p \in Party, SetBatch(p) \/ Begin(p)
        PROVE  program' = program /\ choice' = choice
    BY <1>1 DEF SetBatch, Begin, callVars
  <1>2. ASSUME NEW p \in Party, Store(p) \/ Finish(p)
        PROVE  program' = program /\ choice' = choice
    BY <1>2 DEF Store, Finish, callVars
  <1>3. CASE SeedReceiver \/ SeedSender
    BY <1>3 DEF SeedReceiver, SeedSender, callVars
  <1>7. CASE ExtendReceiver \/ ExtendSender
    BY <1>7 DEF ExtendReceiver, ExtendSender, callVars
  <1>4. CASE Ask \/ Learn
    BY <1>4 DEF Ask, Learn, callVars
  <1>8. CASE Answer
    BY <1>8, SMTT(30) DEF Answer, callVars
  <1>5. CASE SendPost \/ RecvPost
    BY <1>5 DEF SendPost, RecvPost, callVars
  <1>6. CASE UNCHANGED vars
    BY <1>6 DEF vars, callVars
  <1> QED
    BY <1>1, <1>2, <1>3, <1>4, <1>5, <1>6, <1>7, <1>8 DEF Next, Sender, Receiver, Party

\* The lengths of the messages of a call in progress.
LEMMA InMessages ==
  ASSUME ProgramInv, NEW p \in Party, LocalInv(p),
         pc[p] \in {"online", "asked", "post"}
  PROVE  /\ at[p] <= Len(program) /\ Length(p) \in Nat /\ ctr[p] \in 0..Length(p)
         /\ \A size \in {OnlineChunk, SendChunk, RecvChunk} :
              /\ Chunk(p, size) \in Nat /\ ctr[p] + Chunk(p, size) \in 0..Length(p)
              /\ ctr[p] < Length(p) => Chunk(p, size) > 0
  <1>1. at[p] <= Len(program) /\ ctr[p] \in 0..Length(p)
    BY DEF LocalInv, AtMessages
  <1>2. Length(p) \in Nat
    BY <1>1, InCall
  <1>3. \A size \in {OnlineChunk, SendChunk, RecvChunk} : size \in Nat \ {0}
    BY OTAssumption
  <1> QED
    BY <1>1, <1>2, <1>3, ChunkFacts

LEMMA ControlStep ==
  ASSUME ProgramInv, ControlTypes, \A p \in Party : LocalInv(p), [Next]_vars
  PROVE  ControlTypes'
  <1>1. ASSUME NEW p \in Party, SetBatch(p)
        PROVE  ControlTypes'
    <2>1. Length(p) \in Nat
      BY <1>1, InCall DEF SetBatch, Pending
    <2> QED
      BY <1>1, <2>1 DEF SetBatch, ControlTypes
  <1>2. ASSUME NEW p \in Party, Begin(p)
        PROVE  ControlTypes'
    BY <1>2 DEF Begin, Enter, ControlTypes, Place
  <1>3. ASSUME NEW p \in Party, Store(p)
        PROVE  ControlTypes'
    <2>1. CASE Pooled(p)
      <3>1. counter' \in [Party -> Nat] /\ DOMAIN rows' = Party
        BY <1>3, <2>1 DEF Store, ControlTypes
      <3>2. pc' \in [Party -> Place]
        BY <1>3, <2>1 DEF Store, Enter, ControlTypes, Place
      <3>3. UNCHANGED <<at, batch, setup, prg, ctr, wire>>
        BY <1>3 DEF Store
      <3> QED
        BY <3>1, <3>2, <3>3 DEF ControlTypes
    <2>2. CASE ~Pooled(p)
      BY <1>3, <2>2 DEF Store, Enter, ControlTypes, Place
    <2> QED
      BY <2>1, <2>2
  <1>4. ASSUME NEW p \in Party, Finish(p)
        PROVE  ControlTypes'
    BY <1>4 DEF Finish, Enter, ControlTypes, Place, poolVars
  <1>5. ASSUME SeedReceiver
        PROVE  ControlTypes'
    BY <1>5 DEF SeedReceiver, ControlTypes, poolVars
  <1>6. ASSUME SeedSender
        PROVE  ControlTypes'
    BY <1>6 DEF SeedSender, ControlTypes, poolVars
  <1>7. ASSUME ExtendReceiver
        PROVE  ControlTypes'
    <2>1. BOB \in Party /\ pc[BOB] = "extend"
      BY <1>7 DEF Party, ExtendReceiver, Extending
    <2>2. BlockOf(Wanted(BOB)) \in Nat
      BY <2>1, InExtension
    <2>3. PrgAfter(BOB) \in Nat
      BY <2>1, <2>2 DEF PrgAfter, ControlTypes
    <2> QED
      BY <1>7, <2>3 DEF ExtendReceiver, ControlTypes, poolVars
  <1>8. ASSUME ExtendSender
        PROVE  ControlTypes'
    <2>1. ALICE \in Party /\ pc[ALICE] = "extend"
      BY <1>8 DEF Party, ExtendSender, Extending
    <2>2. BlockOf(Wanted(ALICE)) \in Nat
      BY <2>1, InExtension
    <2>3. PrgAfter(ALICE) \in Nat
      BY <2>1, <2>2 DEF PrgAfter, ControlTypes
    <2> QED
      BY <1>8, <2>3 DEF ExtendSender, ControlTypes, poolVars
  <1>9. ASSUME Ask
        PROVE  ControlTypes'
    BY <1>9 DEF Ask, Enter, ControlTypes, Place, poolVars
  <1>10. ASSUME Answer
         PROVE  ControlTypes'
    <2>1. Chunk(ALICE, OnlineChunk) \in Nat
      BY <1>10, InMessages DEF Answer, Party
    <2>4. /\ ctr' = [ctr EXCEPT ![ALICE] = @ + Chunk(ALICE, OnlineChunk)]
          /\ counter' = [counter EXCEPT ![ALICE] = @ + Chunk(ALICE, OnlineChunk)]
      BY <1>10 DEF Answer
    <2>2. ctr' \in [Party -> Nat] /\ counter' \in [Party -> Nat]
      BY <2>1, <2>4 DEF ControlTypes, Party
    <2>3. DOMAIN wire' = Party
      BY <1>10 DEF Answer, ControlTypes
    <2> QED
      BY <1>10, <2>2, <2>3 DEF Answer, Enter, ControlTypes, Place, poolVars
  <1>11. ASSUME Learn
         PROVE  ControlTypes'
    <2>1. Chunk(BOB, OnlineChunk) \in Nat
      BY <1>11, InMessages DEF Learn, Party
    <2>4. /\ ctr' = [ctr EXCEPT ![BOB] = @ + Chunk(BOB, OnlineChunk)]
          /\ counter' = [counter EXCEPT ![BOB] = @ + Chunk(BOB, OnlineChunk)]
      BY <1>11 DEF Learn, LearntTo
    <2>2. ctr' \in [Party -> Nat] /\ counter' \in [Party -> Nat]
      BY <2>1, <2>4 DEF ControlTypes, Party
    <2>3. DOMAIN wire' = Party
      BY <1>11 DEF Learn, ControlTypes
    <2> QED
      BY <1>11, <2>2, <2>3 DEF Learn, Enter, ControlTypes, Place, poolVars
  <1>12. ASSUME SendPost
         PROVE  ControlTypes'
    <2>1. Chunk(ALICE, SendChunk) \in Nat
      BY <1>12, InMessages DEF SendPost, Party
    <2>4. /\ ctr' = [ctr EXCEPT ![ALICE] = @ + Chunk(ALICE, SendChunk)]
      BY <1>12 DEF SendPost
    <2>2. ctr' \in [Party -> Nat]
      BY <2>1, <2>4 DEF ControlTypes, Party
    <2>3. DOMAIN wire' = Party
      BY <1>12 DEF SendPost, ControlTypes
    <2> QED
      BY <1>12, <2>2, <2>3 DEF SendPost, Enter, ControlTypes, Place, poolVars
  <1>13. ASSUME RecvPost
         PROVE  ControlTypes'
    <2>1. Chunk(BOB, RecvChunk) \in Nat
      BY <1>13, InMessages DEF RecvPost, Party
    <2>4. /\ ctr' = [ctr EXCEPT ![BOB] = @ + Chunk(BOB, RecvChunk)]
      BY <1>13 DEF RecvPost
    <2>2. ctr' \in [Party -> Nat]
      BY <2>1, <2>4 DEF ControlTypes, Party
    <2>3. DOMAIN wire' = Party
      BY <1>13 DEF RecvPost, ControlTypes
    <2> QED
      BY <1>13, <2>2, <2>3 DEF RecvPost, Enter, ControlTypes, Place, poolVars
  <1>14. CASE UNCHANGED vars
    BY <1>14 DEF vars, callVars, poolVars, ControlTypes
  <1> QED
    BY <1>1, <1>2, <1>3, <1>4, <1>5, <1>6, <1>7, <1>8, <1>9, <1>10, <1>11, <1>12,
       <1>13, <1>14 DEF Next, Sender, Receiver, Party

\* A party that has something left to exchange is in a call that is not silent.
LEMMA Busy ==
  ASSUME ProgramInv, NEW p \in Party, LocalInv(p),
         \/ pc[p] = "extend"
         \/ pc[p] \in {"online", "asked", "post"} /\ ctr[p] < Length(p)
  PROVE  at[p] <= Len(program) /\ ~Silent(at[p])
  <1>1. CASE pc[p] = "extend"
    <2>1. /\ Extends(Before(p), Now(p)) /\ Sound(Before(p)) /\ at[p] <= Len(program)
      BY <1>1 DEF LocalInv, AtExtend
    <2>2. Now(p).n > 0 /\ Now(p).op # "batch"
      BY <2>1, InCall, ExtendFacts DEF Extends
    <2> QED
      BY <2>1, <2>2 DEF Silent, Now
  <1>2. CASE pc[p] \in {"online", "asked", "post"} /\ ctr[p] < Length(p)
    <2>1. /\ at[p] <= Len(program) /\ Now(p).op # "batch" /\ ctr[p] \in 0..Length(p)
      BY <1>2 DEF LocalInv, AtMessages
    <2> QED
      BY <1>2, <2>1 DEF Silent, Now, Length
  <1> QED
    BY <1>1, <1>2

LEMMA AskedFacts ==
  ASSUME ProgramInv, LocalInv(BOB)
  PROVE  /\ Asked \in Nat /\ (Asking <=> Asked > 0)
         /\ Asking => pc[BOB] = "asked" /\ Asked = Chunk(BOB, OnlineChunk)
  <1>1. BOB \in Party /\ OnlineChunk \in {OnlineChunk, SendChunk, RecvChunk}
    BY DEF Party
  <1>2. ASSUME pc[BOB] = "asked"
        PROVE  Chunk(BOB, OnlineChunk) \in Nat /\ Chunk(BOB, OnlineChunk) > 0
    <2>1. ctr[BOB] < Length(BOB)
      BY <1>2 DEF LocalInv, AtMessages
    <2> QED
      BY <1>1, <1>2, <2>1, InMessages
  <1> QED
    BY <1>2 DEF Asked, Asking

\* What is under way to the sender, if the receiver is in a call.
Underway(k, n, m, size, g, a) ==
  /\ k \in {0, 1} /\ n \in Nat /\ m \in Nat /\ size \in Nat /\ g \in Nat
  /\ size = BlockIn(Before(BOB), Now(BOB)) /\ g = Taken
  /\ k = SeedsUnderWay /\ (k = 1 <=> setup[BOB] /\ ~Seeded)
  /\ m = Asked /\ a = [j \in 1..m |-> CorrectionFor(ctr[BOB] + j)]
  /\ prg[BOB] = g + n * size /\ (n > 0 => size > 0)
  /\ wire[ALICE] = UpStream(k, n, m, size, g, a)
  /\ Seeded => setup[BOB]

LEMMA UpFacts ==
  ASSUME ProgramInv, LocalInv(BOB), LocalInv(ALICE), ControlTypes, UpInv,
         at[ALICE] <= at[BOB], pc[BOB] # "call"
  PROVE  \E k, n, m, size, g, a : Underway(k, n, m, size, g, a)
  <1>1. SeedsUnderWay \in {0, 1} /\ (SeedsUnderWay = 1 <=> setup[BOB] /\ ~Seeded)
    BY DEF SeedsUnderWay
  <1>2. Asked \in Nat
    BY AskedFacts
  <1>3. at[BOB] <= Len(program) /\ BOB \in Party /\ ALICE \in Party
    BY DEF LocalInv, Party
  <1>4. BlockIn(Before(BOB), Now(BOB)) \in Nat
    <2>1. RowsOf(Before(BOB), Now(BOB)) \in Nat
      BY <1>3, InCall DEF RowsOf, Sound
    <2> QED
      BY <2>1, BlockNat DEF BlockIn
  <1>5. Taken \in Nat
    BY <1>3, PrgWithin DEF Taken
  <1>6. ~(at[ALICE] > at[BOB])
    BY <1>3 DEF ControlTypes
  <1>7. PICK n \in Nat : /\ prg[BOB] = Taken + n * BlockIn(Before(BOB), Now(BOB))
                         /\ n > 0 => BlockIn(Before(BOB), Now(BOB)) > 0
                         /\ wire[ALICE] = UpWire(n)
    BY <1>6 DEF UpInv
  <1>9. Seeded => setup[BOB]
    BY <1>6 DEF UpInv
  <1>8. Underway(SeedsUnderWay, n, Asked, BlockIn(Before(BOB), Now(BOB)),
                 Taken, [j \in 1..Asked |-> CorrectionFor(ctr[BOB] + j)])
    BY <1>1, <1>2, <1>4, <1>5, <1>7, <1>9 DEF Underway, UpWire
  <1> QED
    BY <1>8

\* A sender that takes a message is in the call the receiver is in.
LEMMA Incoming ==
  ASSUME ProgramInv, \A p \in Party : LocalInv(p), DriftInv, UpInv, ControlTypes,
         wire[ALICE] # <<>>,
         \/ pc[ALICE] = "extend"
         \/ pc[ALICE] = "online" /\ ctr[ALICE] < Length(ALICE)
  PROVE  /\ at[ALICE] = at[BOB] /\ at[BOB] <= Len(program) /\ pc[BOB] # "call"
         /\ \E k, n, m, size, g, a : /\ Underway(k, n, m, size, g, a)
                                     /\ Heading(wire[ALICE], k, n, m, size, g)
  <1>2. at[ALICE] <= at[BOB] /\ pc[BOB] # "call"
    BY DEF UpInv, ControlTypes, Party
  <1>3. at[ALICE] <= Len(program) /\ ~Silent(at[ALICE])
    BY Busy DEF Party
  <1>4. ~(at[ALICE] < at[BOB])
    <2>1. pc[ALICE] = "online" => ctr[ALICE] # Length(ALICE)
      BY InMessages DEF Party
    <2> QED
      BY <1>3, <2>1 DEF DriftInv
  <1>5. at[ALICE] = at[BOB]
    BY <1>2, <1>4 DEF ControlTypes, Party
  <1>6. PICK k, n, m, size, g, a : Underway(k, n, m, size, g, a)
    BY <1>2, UpFacts DEF Party
  <1>7. Heading(wire[ALICE], k, n, m, size, g)
    <2>1. PICK w : w = wire[ALICE]
      OBVIOUS
    <2>2. w = UpStream(k, n, m, size, g, a) /\ w # <<>>
      BY <1>6, <2>1 DEF Underway
    <2>3. /\ k \in {0, 1} /\ n \in Nat /\ m \in Nat /\ size \in Nat /\ g \in Nat
      BY <1>6 DEF Underway
    <2>4. Heading(w, k, n, m, size, g)
      BY <2>2, <2>3, StreamHead
    <2> QED
      BY <2>1, <2>4
  <1> QED
    BY <1>2, <1>3, <1>5, <1>6, <1>7

LEMMA DriftTogether ==
  ASSUME ControlTypes', at'[ALICE] = at'[BOB]
  PROVE  DriftInv'
  BY DEF ControlTypes, DriftInv, Party

\* The receiver's side of a step of the sender within its call.
LEMMA ReceiverFrame ==
  ASSUME LocalInv(BOB), PadsInv, program' = program, at'[BOB] = at[BOB],
         pc'[BOB] = pc[BOB], batch'[BOB] = batch[BOB],
         counter'[BOB] = counter[BOB], setup'[BOB] = setup[BOB],
         prg'[BOB] = prg[BOB], rows'[BOB] = rows[BOB], ctr'[BOB] = ctr[BOB],
         t' = t, r_off' = r_off
  PROVE  LocalInv(BOB)' /\ PadsInv'
  <1>1. BOB \in Party /\ BOB # ALICE
    BY DEF Party, ALICE, BOB
  <1>2. LocalInv(BOB)'
    BY <1>1, LocalFrame
  <1>3. PadsInv'
    BY DEF PadsInv
  <1> QED
    BY <1>2, <1>3

LEMMA SeedSenderStep ==
  ASSUME IInv, SeedSender
  PROVE  IInv'
  <1>0. /\ ProgramInv /\ ControlTypes /\ \A p \in Party : LocalInv(p)
        /\ PadsInv /\ DriftInv /\ UpInv /\ DownInv
    BY DEF IInv
  <1>1. /\ pc[ALICE] = "extend" /\ ~setup[ALICE] /\ Arrived(ALICE, "seed", 1)
        /\ setup' = [setup EXCEPT ![ALICE] = TRUE]
        /\ wire' = [wire EXCEPT ![ALICE] = Dropped(ALICE, 1)]
        /\ UNCHANGED <<program, choice, at, pc, batch, counter, q, t, r_off, prg,
                       rows, ctr>>
    BY DEF SeedSender, callVars, poolVars
  <1>2. [Next]_vars /\ ALICE \in Party /\ BOB \in Party /\ ALICE # BOB
    BY DEF Next, Sender, Party, ALICE, BOB
  <1>3. /\ wire'[ALICE] = SubSeq(wire[ALICE], 2, Len(wire[ALICE]))
        /\ wire'[BOB] = wire[BOB]
    BY <1>0, <1>1, <1>2 DEF ControlTypes, Dropped
  <1>14. setup'[ALICE] = TRUE /\ setup'[BOB] = setup[BOB]
    BY <1>0, <1>1, <1>2 DEF ControlTypes
  <1>4. wire[ALICE] # <<>> /\ wire[ALICE][1].kind = "seed"
    BY <1>1 DEF Arrived
  <1>5. at[ALICE] = at[BOB] /\ pc[BOB] # "call"
    BY <1>0, <1>1, <1>4, Incoming
  <1>6. PICK k, n, m, size, g, a :
          Underway(k, n, m, size, g, a) /\ Heading(wire[ALICE], k, n, m, size, g)
    BY <1>0, <1>1, <1>4, Incoming
  <1>7. Seeded' = TRUE /\ Taken' = Taken /\ Answered' = Answered
    BY <1>1, <1>14, <1>5 DEF Seeded, Taken, Answered
  <1>8. UpInv'
    <2>1. PICK w : w = wire[ALICE]
      OBVIOUS
    <2>2. w = UpStream(1, n, m, size, g, a) /\ n \in Nat /\ m \in Nat
      BY <1>4, <1>6, <2>1 DEF Underway, Heading
    <2>3. SubSeq(w, 2, Len(w)) = UpStream(0, n, m, size, g, a)
      BY <2>2, SeedTaken
    <2>4. Asked' = Asked /\ SeedsUnderWay' = 0
      BY <1>1, <1>7 DEF Asked, Asking, Chunk, Length, Now, SeedsUnderWay
    <2>5. Before(BOB)' = Before(BOB) /\ Now(BOB)' = Now(BOB)
      BY <1>1, SameCall
    <2>6. wire'[ALICE] = UpWire(n)'
      BY <1>1, <1>3, <1>6, <1>7, <2>1, <2>3, <2>4, <2>5, ReplySame DEF UpWire, Underway
    <2>7. /\ ~(at'[ALICE] > at'[BOB] \/ pc'[BOB] = "call")
          /\ n \in Nat /\ prg'[BOB] = Taken' + n * BlockIn(Before(BOB), Now(BOB))'
          /\ n > 0 => BlockIn(Before(BOB), Now(BOB))' > 0
      <3>1. ~(at'[ALICE] > at'[BOB] \/ pc'[BOB] = "call")
        BY <1>0, <1>1, <1>2, <1>5 DEF ControlTypes
      <3>2. BlockIn(Before(BOB), Now(BOB))' = size
        BY <1>6, <2>5 DEF Underway, BlockIn, RowsOf, UsesPool
      <3>3. prg'[BOB] = Taken' + n * size /\ (n > 0 => size > 0) /\ n \in Nat
        BY <1>1, <1>6, <1>7 DEF Underway
      <3> QED
        BY <3>1, <3>2, <3>3
    <2>8. setup'[BOB]
      BY <1>4, <1>6, <1>14 DEF Underway, Heading
    <2> QED
      BY <2>6, <2>7, <2>8 DEF UpInv
  <1>9. DownInv'
    BY <1>0, <1>1, <1>3, <1>7, DownSame
  <1>10. LocalInv(BOB)' /\ PadsInv'
    BY <1>0, <1>1, <1>2, <1>14, ReceiverFrame
  <1>11. LocalInv(ALICE)'
    BY <1>0, <1>1, <1>2, SeedLocal
  <1>12. ProgramInv' /\ ControlTypes'
    BY <1>0, <1>2, ProgramSame, ControlStep
  <1>13. DriftInv'
    BY <1>1, <1>5, <1>12, DriftTogether
  <1> QED
    BY <1>8, <1>9, <1>10, <1>11, <1>12, <1>13 DEF IInv, Party

LEMMA ExtendSenderStep ==
  ASSUME IInv, ExtendSender
  PROVE  IInv'
  <1>0. /\ ProgramInv /\ ControlTypes /\ \A p \in Party : LocalInv(p)
        /\ PadsInv /\ DriftInv /\ UpInv /\ DownInv
    BY DEF IInv
  <1>1. /\ pc[ALICE] = "extend" /\ setup[ALICE] /\ Extending(ALICE)
        /\ Arrived(ALICE, "U", 1)
        /\ prg' = [prg EXCEPT ![ALICE] = PrgAfter(ALICE)]
        /\ wire' = [wire EXCEPT ![ALICE] = Dropped(ALICE, 1)]
        /\ UNCHANGED <<program, choice, at, pc, batch, counter, q, t, r_off, setup, ctr>>
    BY DEF ExtendSender, Extending, callVars, poolVars
  <1>2. [Next]_vars /\ ALICE \in Party /\ BOB \in Party /\ ALICE # BOB
    BY DEF Next, Sender, Party, ALICE, BOB
  <1>3. /\ wire'[ALICE] = SubSeq(wire[ALICE], 2, Len(wire[ALICE]))
        /\ wire'[BOB] = wire[BOB] /\ prg'[BOB] = prg[BOB]
    BY <1>0, <1>1, <1>2 DEF ControlTypes, Dropped
  <1>4. wire[ALICE] # <<>> /\ wire[ALICE][1].kind = "U"
    BY <1>1 DEF Arrived
  <1>5. at[ALICE] = at[BOB] /\ pc[BOB] # "call"
    BY <1>0, <1>1, <1>4, Incoming
  <1>6. PICK k, n, m, size, g, a :
          Underway(k, n, m, size, g, a) /\ Heading(wire[ALICE], k, n, m, size, g)
    BY <1>0, <1>1, <1>4, Incoming
  <1>7. Seeded' = Seeded /\ Answered' = Answered /\ Taken = prg[ALICE]
        /\ Taken' = prg'[ALICE]
    BY <1>1, <1>5 DEF Seeded, Taken, Answered
  <1>8. /\ k = 0 /\ n \in Nat /\ n > 0 /\ m \in Nat /\ size \in Nat /\ g \in Nat
        /\ g = prg[ALICE] /\ size = BlockIn(Before(BOB), Now(BOB))
        /\ wire[ALICE][1].from = prg[ALICE]
    BY <1>4, <1>6, <1>7 DEF Underway, Heading
  <1>9. rows' = [rows EXCEPT ![ALICE] = @ \o Drawn(ALICE)]
    BY <1>8 DEF ExtendSender
  <1>10. /\ LocalInv(ALICE)'
         /\ prg'[ALICE] = prg[ALICE] + BlockIn(Before(ALICE), Now(ALICE))
    BY <1>0, <1>1, <1>2, <1>9, ExtendLocal
  <1>11. /\ Before(BOB)' = Before(BOB) /\ Now(BOB)' = Now(BOB)
         /\ Before(ALICE) = Before(BOB) /\ Now(ALICE) = Now(BOB)
    BY <1>1, <1>5, SameCall, Together
  <1>12. Taken' = g + size
    BY <1>7, <1>8, <1>10, <1>11
  <1>13. UpInv'
    <2>1. PICK w, l : w = wire[ALICE] /\ l \in Nat /\ n = l + 1
      <3>1. n - 1 \in Nat /\ n = n - 1 + 1
        BY <1>8
      <3> QED
        BY <3>1
    <2>2. w = UpStream(0, l + 1, m, size, g, a)
      BY <1>6, <1>8, <2>1 DEF Underway
    <2>3. SubSeq(w, 2, Len(w)) = UpStream(0, l, m, size, g + size, a)
      <3>1. l \in Nat /\ m \in Nat /\ size \in Nat /\ g \in Nat
        BY <1>8, <2>1
      <3> QED
        BY <2>2, <3>1, BlockTaken, SMTT(30)
    <2>4. Asked' = Asked /\ SeedsUnderWay' = 0
      BY <1>1, <1>6, <1>7, <1>8 DEF Asked, Asking, Chunk, Length, Now, SeedsUnderWay, Underway
    <2>5. wire'[ALICE] = UpWire(l)'
      BY <1>1, <1>3, <1>6, <1>8, <1>11, <1>12, <2>1, <2>3, <2>4, ReplySame DEF UpWire, Underway
    <2>6. prg[BOB] = (g + size) + l * size
      <3>1. prg[BOB] = g + (l + 1) * size
        BY <1>6, <2>1 DEF Underway
      <3>2. (l + 1) * size = l * size + size /\ l * size \in Nat
        BY <1>8, <2>1
      <3> QED
        BY <1>8, <3>1, <3>2
    <2>7. /\ l \in Nat /\ prg'[BOB] = Taken' + l * BlockIn(Before(BOB), Now(BOB))'
          /\ BlockIn(Before(BOB), Now(BOB))' > 0
      <3>1. size > 0
        BY <1>6, <1>8 DEF Underway
      <3> QED
        BY <1>3, <1>8, <1>11, <1>12, <2>1, <2>6, <3>1
    <2>8. Seeded' => setup'[BOB]
      BY <1>1, <1>6, <1>7 DEF Underway
    <2>9. ~(at'[ALICE] > at'[BOB] \/ pc'[BOB] = "call")
      BY <1>0, <1>1, <1>2, <1>5 DEF ControlTypes
    <2> QED
      BY <2>5, <2>7, <2>8, <2>9 DEF UpInv
  <1>14. DownInv'
    BY <1>0, <1>1, <1>3, <1>7, DownSame
  <1>15. LocalInv(BOB)' /\ PadsInv'
    <2>1. rows'[BOB] = rows[BOB]
      BY <1>0, <1>2, <1>9 DEF ControlTypes
    <2> QED
      BY <1>0, <1>1, <1>2, <1>3, <2>1, ReceiverFrame
  <1>16. ProgramInv' /\ ControlTypes'
    BY <1>0, <1>2, ProgramSame, ControlStep
  <1>17. DriftInv'
    BY <1>1, <1>5, <1>16, DriftTogether
  <1> QED
    BY <1>10, <1>13, <1>14, <1>15, <1>16, <1>17 DEF IInv, Party

\* An empty stream, and the sequence of no messages.
LEMMA EmptyStream ==
  ASSUME NEW size, NEW g, NEW a
  PROVE  UpStream(0, 0, 0, size, g, a) = <<>>
  BY DEF UpStream

LEMMA JoinEmpty ==
  ASSUME NEW m \in Nat, NEW v, v = [i \in 1..m |-> v[i]]
  PROVE  <<>> \o v = v
  <1>1. \E S : v \in Seq(S)
    BY GivenSeq
  <1> QED
    BY <1>1

LEMMA AnswerStep ==
  ASSUME IInv, Answer
  PROVE  IInv'
  <1>0. /\ ProgramInv /\ ControlTypes /\ \A p \in Party : LocalInv(p)
        /\ PadsInv /\ DriftInv /\ UpInv /\ DownInv
    BY DEF IInv
  <1>1. PICK c, v :
          /\ c = Chunk(ALICE, OnlineChunk)
          /\ v = [j \in 1..c |-> Masked(q[counter[ALICE] + j - 1], wire[ALICE][j].a,
                                        ctr[ALICE] + j)]
          /\ pc[ALICE] = "online" /\ ctr[ALICE] < Length(ALICE)
          /\ Arrived(ALICE, "A", c)
          /\ counter' = [counter EXCEPT ![ALICE] = @ + c]
          /\ ctr' = [ctr EXCEPT ![ALICE] = @ + c]
          /\ wire' = [wire EXCEPT ![ALICE] = Dropped(ALICE, c), ![BOB] = @ \o v]
          /\ UNCHANGED <<program, choice, at, pc, batch, q, t, r_off, setup, prg, rows>>
    BY DEF Answer, callVars
  <1>2. [Next]_vars /\ ALICE \in Party /\ BOB \in Party /\ ALICE # BOB
    BY DEF Next, Sender, Party, ALICE, BOB
  <1>3. /\ wire'[ALICE] = SubSeq(wire[ALICE], c + 1, Len(wire[ALICE]))
        /\ wire'[BOB] = wire[BOB] \o v
    BY <1>0, <1>1, <1>2 DEF ControlTypes, Dropped
  <1>4. /\ ctr'[BOB] = ctr[BOB] /\ counter'[BOB] = counter[BOB]
        /\ ctr'[ALICE] = ctr[ALICE] + c /\ counter'[ALICE] = counter[ALICE] + c
    BY <1>0, <1>1, <1>2 DEF ControlTypes
  <1>5. /\ c \in Nat /\ c > 0 /\ ctr[ALICE] \in Nat /\ ctr[ALICE] + c \in 0..Length(ALICE)
        /\ at[ALICE] <= Len(program)
    BY <1>0, <1>1, <1>2, InMessages
  <1>6. wire[ALICE] # <<>> /\ wire[ALICE][1].kind = "A"
    <2>1. Len(wire[ALICE]) >= c /\ 1 \in 1..c
      BY <1>1, <1>5 DEF Arrived
    <2> QED
      BY <1>1, <1>5, <2>1 DEF Arrived
  <1>7. at[ALICE] = at[BOB] /\ pc[BOB] # "call"
    BY <1>0, <1>1, <1>6, Incoming
  <1>8. PICK k, n, m, size, g, a :
          Underway(k, n, m, size, g, a) /\ Heading(wire[ALICE], k, n, m, size, g)
    BY <1>0, <1>1, <1>6, Incoming
  <1>9. k = 0 /\ n = 0 /\ m > 0 /\ m = Asked
    BY <1>6, <1>8 DEF Underway, Heading
  <1>10. /\ Before(ALICE) = Before(BOB) /\ Now(ALICE) = Now(BOB)
         /\ Then(ALICE) = Then(BOB) /\ Length(ALICE) = Length(BOB)
         /\ Answered = ctr[ALICE]
    BY <1>7, Together
  <1>11. pc[BOB] = "asked" /\ ctr[ALICE] = ctr[BOB] /\ m = c
    <2>1. Asking /\ Asked = Chunk(BOB, OnlineChunk)
      BY <1>0, <1>2, <1>9, AskedFacts
    <2> QED
      BY <1>1, <1>9, <1>10, <2>1 DEF Asking, Chunk
  <1>12. UsesPool(Before(BOB), Now(BOB))
    BY <1>0, <1>1, <1>2, <1>10 DEF LocalInv, AtMessages
  <1>13. Seeded' = Seeded /\ Taken' = Taken /\ Answered' = ctr[BOB] + c
    BY <1>1, <1>4, <1>7, <1>11 DEF Seeded, Taken, Answered
  <1>14. /\ Before(BOB)' = Before(BOB) /\ Now(BOB)' = Now(BOB) /\ Length(BOB)' = Length(BOB)
    BY <1>1, SameCall
  <1>15. UpInv'
    <2>1. PICK w : w = wire[ALICE]
      OBVIOUS
    <2>2. w = UpStream(0, 0, c, size, g, a) /\ c \in Nat
      BY <1>5, <1>8, <1>9, <1>11, <2>1 DEF Underway
    <2>3. w = [i \in 1..c |-> w[i]]
      BY <2>2 DEF UpStream
    <2>4. SubSeq(w, c + 1, Len(w)) = [i \in 1..(c - c) |-> w[i + c]]
      <3>1. c \in 0..c
        BY <1>5
      <3> QED
        BY <1>5, <2>3, <3>1, Cut
    <2>5. wire'[ALICE] = <<>>
      BY <1>3, <1>5, <2>1, <2>4
    <2>6. Asked' = 0 /\ SeedsUnderWay' = 0
      <3>1. ctr[BOB] + c # ctr[BOB]
        BY <1>5, <1>11
      <3> QED
        BY <1>1, <1>4, <1>8, <1>9, <1>13, <3>1 DEF Asked, Asking, SeedsUnderWay, Underway
    <2>7. UpWire(0)' = <<>>
      BY <2>6, EmptyStream DEF UpWire
    <2>8. prg'[BOB] = Taken' + 0 * BlockIn(Before(BOB), Now(BOB))'
      BY <1>1, <1>8, <1>9, <1>13, <1>14 DEF Underway
    <2>9. ~(at'[ALICE] > at'[BOB] \/ pc'[BOB] = "call")
      BY <1>0, <1>1, <1>2, <1>7 DEF ControlTypes
    <2>10. Seeded' => setup'[BOB]
      BY <1>1, <1>8, <1>13 DEF Underway
    <2> QED
      BY <2>5, <2>7, <2>8, <2>9, <2>10 DEF UpInv
  <1>16. DownInv'
    <2>1. wire[BOB] = <<>>
      BY <1>0, <1>5, <1>10, <1>11 DEF DownInv
    <2>2. wire'[BOB] = v
      <3>1. v = [i \in 1..c |-> v[i]]
        BY <1>1
      <3> QED
        BY <1>3, <1>5, <2>1, <3>1, JoinEmpty
    <2>3. ASSUME NEW j \in 1..c
          PROVE  v[j] = Reply(ctr[BOB] + j)
      <3>1. wire[ALICE][j] = [kind |-> "A", a |-> a[j]]
        <4>1. wire[ALICE] = UpStream(0, 0, c, size, g, a)
          BY <1>8, <1>9, <1>11 DEF Underway
        <4> QED
          BY <1>5, <4>1 DEF UpStream
      <3>2. a[j] = CorrectionFor(ctr[BOB] + j)
        BY <1>8, <1>11 DEF Underway
      <3>3. /\ q = Then(BOB).slot /\ counter[ALICE] = Then(BOB).counter + ctr[BOB]
        <4>1. Slotted(ALICE, Then(ALICE).slot)
              /\ counter[ALICE] = Then(ALICE).counter + ctr[ALICE]
          BY <1>0, <1>1, <1>2 DEF LocalInv, AtMessages
        <4> QED
          BY <1>10, <1>11, <4>1 DEF Slotted
      <3>4. counter[ALICE] + j - 1 = SlotFor(ctr[BOB] + j)
        <4>1. Then(BOB).counter \in Nat
          BY <1>0, <1>2, <1>5, <1>7, InCall DEF Sound
        <4> QED
          BY <1>5, <1>11, <3>3, <4>1 DEF SlotFor
      <3>5. v[j] = Masked(q[counter[ALICE] + j - 1], wire[ALICE][j].a, ctr[ALICE] + j)
        BY <1>1
      <3>6. v[j] = Masked(Then(BOB).slot[SlotFor(ctr[BOB] + j)],
                          CorrectionFor(ctr[BOB] + j), ctr[BOB] + j)
        BY <1>11, <3>1, <3>2, <3>3, <3>4, <3>5
      <3> QED
        BY <1>7, <1>12, <3>6 DEF Masked, Reply
    <2>4. \A o : Reply(o)' = Reply(o)
      BY <1>1, ReplySame
    <2>5. PICK b : b = ctr[BOB] /\ b \in Nat
      BY <1>5, <1>11
    <2>8. wire'[BOB] = [i \in 1..c |-> Reply(b + i)']
      <3>1. v = [i \in 1..c |-> v[i]]
        BY <1>1
      <3>2. \A i \in 1..c : v[i] = Reply(b + i)'
        BY <2>3, <2>4, <2>5
      <3> QED
        BY <2>2, <3>1, <3>2
    <2>9. Answered' - ctr'[BOB] = c /\ ctr'[BOB] = b
      BY <1>4, <1>5, <1>11, <1>13, <2>5
    <2>6. Answered' >= ctr'[BOB]
      BY <1>4, <1>5, <1>11, <1>13
    <2>7. pc'[BOB] = "asked" /\ Answered' = ctr'[BOB] + Chunk(BOB, OnlineChunk)'
      <3>1. Chunk(BOB, OnlineChunk)' = Chunk(BOB, OnlineChunk)
        BY <1>4, <1>14 DEF Chunk
      <3>2. Chunk(BOB, OnlineChunk) = c
        BY <1>1, <1>10, <1>11 DEF Chunk
      <3> QED
        BY <1>1, <1>4, <1>11, <1>13, <3>1, <3>2
    <2> QED
      BY <2>6, <2>7, <2>8, <2>9 DEF DownInv
  <1>17. LocalInv(BOB)' /\ PadsInv'
    BY <1>0, <1>1, <1>2, <1>4, ReceiverFrame
  <1>18. LocalInv(ALICE)'
    <2>1. counter'[ALICE] = counter[ALICE] + (ctr'[ALICE] - ctr[ALICE])
      BY <1>4, <1>5
    <2> QED
      BY <1>0, <1>1, <1>2, <1>4, <1>5, <2>1, MessageLocal
  <1>19. ProgramInv' /\ ControlTypes'
    BY <1>0, <1>2, ProgramSame, ControlStep
  <1>20. DriftInv'
    BY <1>1, <1>7, <1>19, DriftTogether
  <1> QED
    BY <1>15, <1>16, <1>17, <1>18, <1>19, <1>20 DEF IInv, Party

\* What is under way to the receiver: the OTs between the two parties' places.
LEMMA DownFacts ==
  ASSUME ProgramInv, ControlTypes, \A p \in Party : LocalInv(p), DownInv
  PROVE  \E b, d : /\ b = ctr[BOB] /\ b \in Nat /\ d \in Nat /\ Answered = b + d
                   /\ wire[BOB] = [i \in 1..d |-> wire[BOB][i]]
                   /\ \A i \in 1..d : wire[BOB][i] = Reply(b + i)
                   /\ Len(wire[BOB]) = d /\ (wire[BOB] = <<>> <=> d = 0)
                   /\ d > 0 =>
                        \/ pc[BOB] = "asked" /\ d = Chunk(BOB, OnlineChunk)
                        \/ pc[BOB] \in {"extend", "post"} /\ ~UsesPool(Before(BOB), Now(BOB))
  <1>1. PICK b : b = ctr[BOB] /\ b \in Nat
    BY DEF ControlTypes, Party
  <1>2. PICK x : x = Answered /\ x \in Nat
    <2>1. ctr[ALICE] \in Nat
      BY DEF ControlTypes, Party
    <2>2. at[ALICE] > at[BOB] => Length(BOB) \in Nat
      <3>1. ALICE \in Party /\ BOB \in Party /\ Len(program) \in Nat
        BY DEF Party, ProgramInv
      <3>2. at[ALICE] \in 1..(Len(program) + 1) /\ at[BOB] \in 1..(Len(program) + 1)
        BY <3>1 DEF LocalInv
      <3>3. at[ALICE] > at[BOB] => at[BOB] <= Len(program)
        BY <3>1, <3>2
      <3> QED
        BY <3>1, <3>3, InCall
    <2> QED
      BY <2>1, <2>2 DEF Answered
  <1>3. x >= b /\ wire[BOB] = [i \in 1..(x - b) |-> Reply(ctr[BOB] + i)]
    BY <1>1, <1>2 DEF DownInv
  <1>4. PICK d : d \in Nat /\ x = b + d /\ d = x - b
    <2>1. x >= b
      BY <1>3
    <2>2. x - b \in Nat /\ x = b + (x - b)
      BY <1>1, <1>2, <2>1
    <2> QED
      BY <2>2
  <1>5. wire[BOB] = [i \in 1..d |-> wire[BOB][i]] /\ \A i \in 1..d : wire[BOB][i] = Reply(b + i)
    BY <1>1, <1>3, <1>4
  <1>6. Len(wire[BOB]) = d /\ (wire[BOB] = <<>> <=> d = 0)
    BY <1>4, <1>5, GivenSeq
  <1>7. d > 0 =>
          \/ pc[BOB] = "asked" /\ d = Chunk(BOB, OnlineChunk)
          \/ pc[BOB] \in {"extend", "post"} /\ ~UsesPool(Before(BOB), Now(BOB))
    <2>1. d > 0 => x > b
      BY <1>1, <1>4
    <2>2. x = b + Chunk(BOB, OnlineChunk) /\ pc[BOB] = "asked" => d = Chunk(BOB, OnlineChunk)
      <3>1. pc[BOB] = "asked" => Chunk(BOB, OnlineChunk) \in Nat
        BY InMessages DEF Party
      <3> QED
        BY <1>1, <1>4, <3>1
    <2> QED
      BY <1>1, <1>2, <2>1, <2>2 DEF DownInv
  <1> QED
    BY <1>1, <1>2, <1>4, <1>5, <1>6, <1>7

LEMMA SendPostStep ==
  ASSUME IInv, SendPost
  PROVE  IInv'
  <1>0. /\ ProgramInv /\ ControlTypes /\ \A p \in Party : LocalInv(p)
        /\ PadsInv /\ DriftInv /\ UpInv /\ DownInv
    BY DEF IInv
  <1>1. PICK c, v :
          /\ c = Chunk(ALICE, SendChunk)
          /\ v = [j \in 1..c |-> Masked(rows[ALICE][ctr[ALICE] + j], 0, ctr[ALICE] + j)]
          /\ pc[ALICE] = "post" /\ ctr[ALICE] < Length(ALICE)
          /\ ctr' = [ctr EXCEPT ![ALICE] = @ + c]
          /\ wire' = [wire EXCEPT ![BOB] = @ \o v]
          /\ UNCHANGED <<program, choice, at, pc, batch, counter, q, t, r_off, setup,
                         prg, rows>>
    BY DEF SendPost, callVars, poolVars
  <1>2. [Next]_vars /\ ALICE \in Party /\ BOB \in Party /\ ALICE # BOB
    BY DEF Next, Sender, Party, ALICE, BOB
  <1>3. wire'[ALICE] = wire[ALICE] /\ wire'[BOB] = wire[BOB] \o v
    BY <1>0, <1>1, <1>2 DEF ControlTypes
  <1>4. ctr'[BOB] = ctr[BOB] /\ ctr'[ALICE] = ctr[ALICE] + c
    BY <1>0, <1>1, <1>2 DEF ControlTypes
  <1>5. /\ c \in Nat /\ c > 0 /\ ctr[ALICE] \in Nat /\ ctr[ALICE] + c \in 0..Length(ALICE)
        /\ at[ALICE] <= Len(program) /\ Length(ALICE) \in Nat
    BY <1>0, <1>1, <1>2, InMessages
  <1>6. at[ALICE] = at[BOB]
    <2>1. ~(at[ALICE] < at[BOB])
      <3>1. ~Silent(at[ALICE])
        BY <1>0, <1>1, <1>2, Busy
      <3> QED
        BY <1>1, <1>5, <1>0, <3>1 DEF DriftInv
    <2>2. ~(at[BOB] < at[ALICE])
      BY <1>0, <1>1 DEF DriftInv
    <2> QED
      BY <1>0, <1>2, <2>1, <2>2 DEF ControlTypes
  <1>7. /\ Before(ALICE) = Before(BOB) /\ Now(ALICE) = Now(BOB)
        /\ Then(ALICE) = Then(BOB) /\ Length(ALICE) = Length(BOB)
        /\ Answered = ctr[ALICE] /\ Taken = prg[ALICE]
    BY <1>6, Together
  <1>8. PICK g, e : /\ g = Before(BOB).prg /\ e = PaddedIn(Before(BOB), Now(BOB))
                    /\ g \in Nat /\ e \in Nat /\ e >= Length(BOB)
                    /\ ~UsesPool(Before(BOB), Now(BOB)) /\ prg[ALICE] = g + e
                    /\ rows[ALICE] = RowsFrom(g, e)
    <2>1. /\ ~UsesPool(Before(BOB), Now(BOB)) /\ prg[ALICE] = Then(BOB).prg
          /\ rows[ALICE] = RowsFrom(Before(BOB).prg, PaddedIn(Before(BOB), Now(BOB)))
          /\ Now(BOB).op # "batch"
      BY <1>0, <1>1, <1>2, <1>7 DEF LocalInv, AtMessages
    <2>2. /\ Extends(Before(BOB), Now(BOB)) /\ Before(BOB).prg \in Nat
          /\ PaddedIn(Before(BOB), Now(BOB)) \in Nat
          /\ PaddedIn(Before(BOB), Now(BOB)) >= Length(BOB)
      <3>1. /\ Sound(Before(BOB)) /\ Now(BOB).n \in Nat /\ Length(BOB) = Now(BOB).n
            /\ Now(BOB).op \in {"got", "block", "batch"}
            /\ Now(BOB).op = "block" => Now(BOB).n > 0
        BY <1>0, <1>2, <1>5, <1>7, InCall
      <3> QED
        BY <2>1, <3>1, ExtendFacts DEF Sound
    <2>3. Then(BOB).prg = Before(BOB).prg + PaddedIn(Before(BOB), Now(BOB))
      BY <2>2 DEF Then, Ready
    <2> QED
      BY <2>1, <2>2, <2>3
  <1>9. Seeded' = Seeded /\ Taken' = Taken /\ Answered' = ctr[ALICE] + c
    BY <1>1, <1>4, <1>6 DEF Seeded, Taken, Answered
  <1>10. /\ Before(BOB)' = Before(BOB) /\ Now(BOB)' = Now(BOB) /\ Length(BOB)' = Length(BOB)
    BY <1>1, SameCall
  <1>11. pc[BOB] \in {"extend", "post"}
    <2>1. pc[BOB] # "call"
      <3>1. e > 0
        BY <1>1, <1>5, <1>7, <1>8
      <3>2. ASSUME pc[BOB] = "call"
            PROVE  FALSE
        <4>1. prg[BOB] = g
          BY <1>0, <1>2, <1>8, <3>2 DEF LocalInv, AtCall
        <4>2. Taken = prg[BOB]
          BY <1>0, <1>2, <1>6, <3>2 DEF UpInv, ControlTypes
        <4> QED
          BY <1>7, <1>8, <3>1, <4>1, <4>2
      <3> QED
        BY <3>2
    <2>2. pc[BOB] \notin {"online", "asked"}
      BY <1>0, <1>2, <1>8 DEF LocalInv, AtMessages
    <2> QED
      BY <1>0, <1>2, <2>1, <2>2 DEF ControlTypes, Place
  <1>12. UpInv'
    <2>1. Asked = 0 /\ Asked' = 0
      BY <1>1, <1>11 DEF Asked, Asking
    <2>2. setup'[BOB] = setup[BOB] /\ prg'[BOB] = prg[BOB]
      BY <1>1
    <2> QED
      BY <1>0, <1>1, <1>3, <1>9, <1>11, <2>1, <2>2, UpSame
  <1>13. DownInv'
    <2>0. PICK b, d : /\ b = ctr[BOB] /\ b \in Nat /\ d \in Nat /\ Answered = b + d
                      /\ wire[BOB] = [i \in 1..d |-> wire[BOB][i]]
                      /\ \A i \in 1..d : wire[BOB][i] = Reply(b + i)
      BY <1>0, DownFacts
    <2>1. b \in Nat /\ d \in Nat /\ ctr[ALICE] = b + d /\ b = ctr[BOB]
      BY <1>7, <2>0
    <2>10. PICK w : w = wire[BOB]
      OBVIOUS
    <2>2. w = [i \in 1..d |-> w[i]] /\ \A i \in 1..d : w[i] = Reply(b + i)
      BY <2>0, <2>10
    <2>3. ASSUME NEW j \in 1..c
          PROVE  v[j] = Reply(b + (d + j))
      <3>1. ctr[ALICE] + j \in 1..e /\ ctr[ALICE] + j = b + (d + j)
        <4>1. PICK l \in Nat, z \in Nat :
                 l = Length(ALICE) /\ z = ctr[ALICE] /\ z + c <= l /\ z = b + d
          BY <1>5, <2>1
        <4>2. e \in Nat /\ e >= l /\ c \in Nat
          BY <1>5, <1>7, <1>8, <4>1
        <4>3. z + j \in 1..e /\ z + j = b + (d + j)
          BY <2>1, <4>1, <4>2
        <4> QED
          BY <4>1, <4>3
      <3>2. rows[ALICE][ctr[ALICE] + j] = g + (ctr[ALICE] + j) - 1
        BY <1>8, <3>1 DEF RowsFrom
      <3>3. v[j] = Masked(g + (ctr[ALICE] + j) - 1, 0, ctr[ALICE] + j)
        BY <1>1, <3>2
      <3> QED
        BY <1>6, <1>8, <3>1, <3>3 DEF Masked, Reply
    <2>4. v = [i \in 1..c |-> v[i]]
      BY <1>1
    <2>5. \A o : Reply(o)' = Reply(o)
      BY <1>1, ReplySame
    <2>6. w \o v = [i \in 1..(d + c) |-> IF i <= d THEN w[i] ELSE v[i - d]]
      <3>1. d \in Nat /\ c \in Nat
        BY <1>5, <2>1
      <3> QED
        BY <2>2, <2>4, <3>1, Glue
    <2>7. ASSUME NEW i \in 1..(d + c)
          PROVE  (IF i <= d THEN w[i] ELSE v[i - d]) = Reply(b + i)'
      <3>1. d \in Nat /\ c \in Nat
        BY <1>5, <2>1
      <3>2. CASE i <= d
        <4>1. i \in 1..d
          BY <3>1, <3>2
        <4> QED
          BY <2>2, <2>5, <3>2, <4>1
      <3>3. CASE ~(i <= d)
        <4>1. i - d \in 1..c /\ d + (i - d) = i
          BY <3>1, <3>3
        <4>2. v[i - d] = Reply(b + (d + (i - d)))
          BY <2>3, <4>1
        <4> QED
          BY <2>5, <3>3, <4>1, <4>2
      <3> QED
        BY <3>2, <3>3
    <2>8. wire'[BOB] = [i \in 1..(d + c) |-> Reply(b + i)']
      BY <1>3, <2>10, <2>6, <2>7
    <2>9. Answered' - ctr'[BOB] = d + c /\ Answered' >= ctr'[BOB] /\ ctr'[BOB] = b
      BY <1>4, <1>5, <1>9, <2>1
    <2>11. pc'[BOB] \in {"extend", "post"} /\ ~UsesPool(Before(BOB), Now(BOB))'
      BY <1>1, <1>8, <1>10, <1>11
    <2> QED
      BY <2>8, <2>9, <2>11 DEF DownInv
  <1>14. LocalInv(BOB)' /\ PadsInv'
    BY <1>0, <1>1, <1>2, <1>4, ReceiverFrame
  <1>15. LocalInv(ALICE)'
    <2>1. counter'[ALICE] = counter[ALICE] + 0 /\ ctr'[ALICE] \in 0..Length(ALICE)
      BY <1>0, <1>1, <1>2, <1>4, <1>5 DEF ControlTypes
    <2> QED
      BY <1>0, <1>1, <1>2, <2>1, MessageLocal
  <1>16. ProgramInv' /\ ControlTypes'
    BY <1>0, <1>2, ProgramSame, ControlStep
  <1>17. DriftInv'
    BY <1>1, <1>6, <1>16, DriftTogether
  <1> QED
    BY <1>12, <1>13, <1>14, <1>15, <1>16, <1>17 DEF IInv, Party

\* A step of the sender that leaves what the receiver sees of it alone.
LEMMA SenderSettles ==
  ASSUME IInv, [Next]_vars,
         UNCHANGED <<program, choice, at, r_off, t, setup, prg, ctr, wire>>,
         pc'[BOB] = pc[BOB], batch'[BOB] = batch[BOB],
         counter'[BOB] = counter[BOB], rows'[BOB] = rows[BOB],
         LocalInv(ALICE)', DriftInv'
  PROVE  IInv'
  <1>0. /\ ProgramInv /\ ControlTypes /\ \A p \in Party : LocalInv(p)
        /\ PadsInv /\ DriftInv /\ UpInv /\ DownInv
    BY DEF IInv
  <1>1. ALICE \in Party /\ BOB \in Party /\ ALICE # BOB
    BY DEF Party, ALICE, BOB
  <1>2. Seeded' = Seeded /\ Taken' = Taken /\ Answered' = Answered
    BY ViewSame
  <1>3. Asked' = Asked
    BY <1>2, AskedSame
  <1>4. UpInv'
    BY <1>0, <1>2, <1>3, UpSame
  <1>5. DownInv'
    BY <1>0, <1>2, DownSame
  <1>6. LocalInv(BOB)' /\ PadsInv'
    BY <1>0, <1>1, ReceiverFrame
  <1>7. ProgramInv' /\ ControlTypes'
    BY <1>0, ProgramSame, ControlStep
  <1> QED
    BY <1>4, <1>5, <1>6, <1>7 DEF IInv, Party

LEMMA BeginSenderStep ==
  ASSUME IInv, Begin(ALICE)
  PROVE  IInv'
  <1>0. ProgramInv /\ ControlTypes /\ (\A p \in Party : LocalInv(p)) /\ DriftInv
    BY DEF IInv
  <1>1. /\ pc[ALICE] = "call"
        /\ \E x \in {"online", "extend"} : pc' = [pc EXCEPT ![ALICE] = x]
        /\ UNCHANGED <<program, choice, at, batch, counter, q, t, setup, prg, rows,
                       ctr, wire>>
        /\ r_off' = r_off
    BY DEF Begin, Pending, Enter, callVars, ALICE, BOB
  <1>2. [Next]_vars /\ ALICE \in Party /\ BOB \in Party /\ ALICE # BOB
    BY DEF Next, Sender, Party, ALICE, BOB
  <1>3. pc'[BOB] = pc[BOB] /\ pc'[ALICE] \in {"online", "extend"}
    BY <1>0, <1>1, <1>2 DEF ControlTypes
  <1>4. LocalInv(ALICE)'
    BY <1>0, <1>2, BeginLocal
  <1>5. DriftInv'
    <2>1. \A c : Silent(c)' <=> Silent(c)
      BY <1>1 DEF Silent
    <2>2. \A p : Before(p)' = Before(p) /\ Now(p)' = Now(p) /\ Then(p)' = Then(p)
      BY <1>1, SameCall
    <2>3. at[ALICE] < at[BOB] => Silent(at[ALICE])
      BY <1>0, <1>1 DEF DriftInv
    <2> QED
      BY <1>0, <1>1, <1>3, <2>1, <2>2, <2>3 DEF DriftInv
  <1> QED
    BY <1>1, <1>2, <1>3, <1>4, <1>5, SenderSettles

LEMMA StoreSenderStep ==
  ASSUME IInv, Store(ALICE)
  PROVE  IInv'
  <1>0. /\ ProgramInv /\ ControlTypes /\ (\A p \in Party : LocalInv(p))
        /\ DriftInv /\ PadsInv
    BY DEF IInv
  <1>1. /\ pc[ALICE] = "extend" /\ Len(rows[ALICE]) = PaddedLength(Wanted(ALICE))
        /\ \E x \in {"online", "post"} : pc' = [pc EXCEPT ![ALICE] = x]
        /\ counter' = counter \/ counter' = [counter EXCEPT ![ALICE] = 0]
        /\ rows' = rows \/ rows' = [rows EXCEPT ![ALICE] = <<>>]
        /\ UNCHANGED <<program, choice, at, batch, t, r_off, setup, prg, ctr, wire>>
    BY DEF Store, Enter, callVars, ALICE, BOB
  <1>2. [Next]_vars /\ ALICE \in Party /\ BOB \in Party /\ ALICE # BOB
    BY DEF Next, Sender, Party, ALICE, BOB
  <1>3. pc'[BOB] = pc[BOB] /\ counter'[BOB] = counter[BOB] /\ rows'[BOB] = rows[BOB]
    BY <1>0, <1>1, <1>2 DEF ControlTypes
  <1>4. LocalInv(ALICE)'
    BY <1>0, <1>2, StoreLocal
  <1>5. at[ALICE] = at[BOB]
    <2>1. ~(at[ALICE] < at[BOB])
      <3>1. ~Silent(at[ALICE])
        BY <1>0, <1>1, <1>2, Busy
      <3> QED
        BY <1>0, <1>1, <3>1 DEF DriftInv
    <2>2. Len(rows[ALICE]) # 0
      BY <1>0, <1>1, <1>2, InExtension
    <2>3. ~(at[BOB] < at[ALICE])
      BY <1>0, <2>2 DEF DriftInv
    <2> QED
      BY <1>0, <1>2, <2>1, <2>3 DEF ControlTypes
  <1>6. ControlTypes'
    BY <1>0, <1>2, ControlStep
  <1>7. DriftInv'
    BY <1>1, <1>5, <1>6, DriftTogether
  <1> QED
    BY <1>1, <1>2, <1>3, <1>4, <1>7, SenderSettles

------------------------------------------------------------------------------
(* A party that is done with its call.                                      *)

\* Party p returns from its call: the effect of SetBatch and of Finish on what
\* the other party can see of it.
Over(p) ==
  \/ pc[p] = "call" /\ Now(p).op = "batch" /\ ctr[p] = 0
  \/ pc[p] \in {"online", "post"} /\ Now(p).op # "batch" /\ ctr[p] = Length(p)
Returning(p) ==
  /\ at[p] \in 1..Len(program) /\ Over(p)
  /\ at' = [at EXCEPT ![p] = @ + 1] /\ pc'[p] = "call" /\ ctr'[p] = 0
  /\ rows'[p] = <<>> /\ setup' = setup /\ prg' = prg /\ wire' = wire
  /\ UNCHANGED <<program, choice>>
  /\ LocalInv(p)' /\ Before(p)' = After(Before(p), Now(p))
  /\ \A o \in Party \ {p} :
       /\ pc'[o] = pc[o] /\ ctr'[o] = ctr[o] /\ rows'[o] = rows[o]
       /\ batch'[o] = batch[o] /\ counter'[o] = counter[o]

LEMMA Return ==
  ASSUME IInv, NEW p \in Party, SetBatch(p) \/ Finish(p)
  PROVE  Returning(p) /\ [Next]_vars
  <1>0. ProgramInv /\ ControlTypes /\ LocalInv(p) /\ Party = {ALICE, BOB}
    BY DEF IInv, Party
  <1>1. [Next]_vars
    BY <1>0 DEF Next, Sender, Receiver
  <1>2. CASE SetBatch(p)
    <2>1. /\ at[p] <= Len(program) /\ pc[p] = "call" /\ Now(p).op = "batch"
          /\ at' = [at EXCEPT ![p] = @ + 1]
          /\ batch' = [batch EXCEPT ![p] = Length(p)]
          /\ counter' = [counter EXCEPT ![p] = Length(p)]
          /\ UNCHANGED <<program, choice, pc, setup, prg, rows, ctr, wire>>
      BY <1>2 DEF SetBatch, Pending, callVars
    <2>2. at[p] \in 1..Len(program)
      BY <1>0, <2>1 DEF LocalInv
    <2>3. ctr[p] = 0 /\ rows[p] = <<>>
      BY <1>0, <2>1 DEF LocalInv, AtCall
    <2>4. LocalInv(p)' /\ Before(p)' = After(Before(p), Now(p))
      BY <1>0, <1>2, BatchLocal
    <2>5. \A o \in Party \ {p} : batch'[o] = batch[o] /\ counter'[o] = counter[o]
      BY <1>0, <2>1 DEF ControlTypes
    <2> QED
      BY <1>1, <2>1, <2>2, <2>3, <2>4, <2>5 DEF Returning, Over
  <1>3. CASE Finish(p)
    <2>1. /\ pc[p] \in {"online", "post"} /\ ctr[p] = Length(p)
          /\ pc' = [pc EXCEPT ![p] = "call"] /\ at' = [at EXCEPT ![p] = @ + 1]
          /\ ctr' = [ctr EXCEPT ![p] = 0] /\ rows' = [rows EXCEPT ![p] = <<>>]
          /\ UNCHANGED <<program, choice, batch, counter, setup, prg, wire>>
      BY <1>3 DEF Finish, Enter, callVars, poolVars
    <2>2. at[p] \in 1..Len(program)
      BY <1>0, <2>1 DEF LocalInv
    <2>3. Now(p).op # "batch"
      BY <1>0, <2>1 DEF LocalInv, AtMessages
    <2>4. LocalInv(p)' /\ Before(p)' = After(Before(p), Now(p))
      BY <1>0, <1>3, FinishLocal
    <2>5. /\ pc'[p] = "call" /\ ctr'[p] = 0 /\ rows'[p] = <<>>
          /\ \A o \in Party \ {p} :
               pc'[o] = pc[o] /\ ctr'[o] = ctr[o] /\ rows'[o] = rows[o]
      BY <1>0, <2>1 DEF ControlTypes
    <2> QED
      BY <1>1, <2>1, <2>2, <2>3, <2>4, <2>5 DEF Returning, Over
  <1> QED
    BY <1>2, <1>3

\* What the return leaves of the ledger and of the party's PRGs.
LEMMA ReturnFacts ==
  ASSUME NEW p \in Party, Returning(p), ControlTypes
  PROVE  /\ at[p] \in Nat /\ at'[p] = at[p] + 1
         /\ \A o \in Party \ {p} : /\ at'[o] = at[o] /\ at[o] \in Nat
                                   /\ Before(o)' = Before(o) /\ Now(o)' = Now(o)
                                   /\ Then(o)' = Then(o) /\ Length(o)' = Length(o)
         /\ \A c : Silent(c)' <=> Silent(c)
         /\ Ledger' = Ledger
         /\ setup'[p] = Before(p)'.setup /\ prg'[p] = Before(p)'.prg
         /\ setup'[p] = setup[p] /\ prg'[p] = prg[p]
  <1>1. at[p] \in Nat /\ at'[p] = at[p] + 1 /\ \A o \in Party \ {p} : at'[o] = at[o] /\ at[o] \in Nat
    BY DEF Returning, ControlTypes
  <1>2. program' = program
    BY DEF Returning
  <1>3. \A o \in Party \ {p} : /\ Before(o)' = Before(o) /\ Now(o)' = Now(o)
                               /\ Then(o)' = Then(o) /\ Length(o)' = Length(o)
    BY <1>1, <1>2, SameCall
  <1>4. \A c : Silent(c)' <=> Silent(c)
    BY <1>2 DEF Silent
  <1>5. Ledger' = Ledger
    BY <1>2, LedgerSame
  <1>6. setup'[p] = Before(p)'.setup /\ prg'[p] = Before(p)'.prg
    BY DEF Returning, LocalInv, AtCall
  <1>7. setup' = setup /\ prg' = prg
    BY DEF Returning
  <1> QED
    BY <1>1, <1>3, <1>4, <1>5, <1>6, <1>7

\* The sender returns: it was behind, as far as or ahead of the receiver.
LEMMA SenderCatchesUp ==
  ASSUME IInv, Returning(ALICE), UNCHANGED r_off, at[ALICE] < at[BOB],
         ControlTypes'
  PROVE  UpInv' /\ DownInv' /\ DriftInv'
  <1>0. ControlTypes /\ UpInv /\ DownInv /\ DriftInv
    BY DEF IInv
  <1>1. ALICE \in Party /\ BOB \in Party \ {ALICE}
    BY DEF Party, ALICE, BOB
  <1>2. /\ at[ALICE] \in Nat /\ at'[ALICE] = at[ALICE] + 1
        /\ at'[BOB] = at[BOB] /\ at[BOB] \in Nat
        /\ Before(BOB)' = Before(BOB) /\ Now(BOB)' = Now(BOB)
        /\ (\A c : Silent(c)' <=> Silent(c)) /\ Ledger' = Ledger
        /\ setup'[ALICE] = Before(ALICE)'.setup /\ prg'[ALICE] = Before(ALICE)'.prg
    BY <1>0, <1>1, ReturnFacts
  <1>3. /\ UNCHANGED <<program, choice, setup, prg, wire>> /\ ctr'[ALICE] = 0
        /\ pc'[BOB] = pc[BOB] /\ ctr'[BOB] = ctr[BOB]
    BY <1>1 DEF Returning
  <1>4. at'[ALICE] = at'[BOB] => Before(ALICE)' = Before(BOB)
    BY <1>2 DEF Before
  <1>5. Seeded = Before(BOB).setup /\ Taken = Before(BOB).prg /\ Answered = 0
    BY <1>2 DEF Seeded, Taken, Answered
  <1>6. ~(at'[ALICE] > at'[BOB])
    BY <1>2
  <1>7. Seeded' = Seeded /\ Taken' = Taken /\ Answered' = Answered
    <2>1. CASE at'[ALICE] = at'[BOB]
      BY <1>2, <1>3, <1>4, <1>5, <2>1 DEF Seeded, Taken, Answered
    <2>2. CASE at'[ALICE] # at'[BOB]
      BY <1>2, <1>3, <1>5, <1>6, <2>2 DEF Seeded, Taken, Answered
    <2> QED
      BY <2>1, <2>2
  <1>8. Asked' = Asked
    BY <1>2, <1>3, <1>7, AskedSame
  <1>9. UpInv'
    <2>1. at'[ALICE] > at'[BOB] <=> at[ALICE] > at[BOB]
      BY <1>2
    <2>2. at'[ALICE] <= at'[BOB] <=> at[ALICE] <= at[BOB]
      BY <1>2
    <2>3. setup'[BOB] = setup[BOB] /\ prg'[BOB] = prg[BOB] /\ wire'[ALICE] = wire[ALICE]
      BY <1>3
    <2> QED
      BY <1>0, <1>2, <1>3, <1>7, <1>8, <2>1, <2>2, <2>3, UpSame
  <1>10. DownInv'
    BY <1>0, <1>2, <1>3, <1>7, DownSame
  <1>11. DriftInv'
    <2>1. CASE at'[ALICE] = at'[BOB]
      BY <2>1, DriftTogether
    <2>2. CASE at'[ALICE] < at'[BOB]
      <3>1. \A c \in (at[ALICE] + 1)..(at[BOB] - 1) : Silent(c)
        BY <1>0 DEF DriftInv
      <3>2. /\ at'[ALICE] \in (at[ALICE] + 1)..(at[BOB] - 1)
            /\ (at'[ALICE] + 1)..(at'[BOB] - 1) \subseteq (at[ALICE] + 1)..(at[BOB] - 1)
        BY <1>2, <2>2
      <3>3. Silent(at[ALICE])' /\ \A c \in ((at[ALICE] + 1)..(at[BOB] - 1))' : Silent(c)'
        <4>1. Silent(at'[ALICE])
          BY <3>1, <3>2
        <4>2. Silent(at[ALICE])'
          BY <1>3, <4>1 DEF Silent
        <4> QED
          BY <1>2, <3>1, <3>2, <4>2
      <3>4. ~(at'[BOB] < at'[ALICE])
        BY <1>2, <2>2
      <3> QED
        BY <3>3, <3>4 DEF DriftInv
    <2> QED
      BY <1>2, <2>1, <2>2
  <1> QED
    BY <1>9, <1>10, <1>11

LEMMA SenderFurther ==
  ASSUME IInv, Returning(ALICE), UNCHANGED r_off, at[ALICE] > at[BOB],
         ControlTypes'
  PROVE  UpInv' /\ DownInv' /\ DriftInv'
  <1>0. ControlTypes /\ UpInv /\ DownInv /\ DriftInv
    BY DEF IInv
  <1>1. ALICE \in Party /\ BOB \in Party \ {ALICE}
    BY DEF Party, ALICE, BOB
  <1>2. /\ at[ALICE] \in Nat /\ at'[ALICE] = at[ALICE] + 1
        /\ at'[BOB] = at[BOB] /\ at[BOB] \in Nat
        /\ Before(BOB)' = Before(BOB) /\ Now(BOB)' = Now(BOB)
        /\ Then(BOB)' = Then(BOB) /\ Length(BOB)' = Length(BOB)
        /\ (\A c : Silent(c)' <=> Silent(c)) /\ Ledger' = Ledger
        /\ setup'[ALICE] = Before(ALICE)'.setup /\ prg'[ALICE] = Before(ALICE)'.prg
    BY <1>0, <1>1, ReturnFacts
  <1>3. /\ UNCHANGED <<program, choice, setup, prg, wire>> /\ ctr'[ALICE] = 0
        /\ pc'[BOB] = pc[BOB] /\ ctr'[BOB] = ctr[BOB] /\ rows'[ALICE] = <<>>
        /\ pc'[ALICE] = "call"
    BY <1>1 DEF Returning
  <1>4. at'[ALICE] > at'[BOB] /\ at[BOB] < at[ALICE] /\ at'[ALICE] # at'[BOB]
        /\ at[ALICE] # at[BOB]
    BY <1>2
  <1>7. Seeded' = Seeded /\ Taken' = Taken /\ Answered' = Answered
    BY <1>2, <1>3, <1>4 DEF Seeded, Taken, Answered
  <1>8. Asked' = Asked
    BY <1>2, <1>3, <1>7, AskedSame
  <1>9. UpInv'
    <2>1. at'[ALICE] > at'[BOB] <=> at[ALICE] > at[BOB]
      BY <1>4
    <2>2. at'[ALICE] <= at'[BOB] <=> at[ALICE] <= at[BOB]
      BY <1>2
    <2>3. setup'[BOB] = setup[BOB] /\ prg'[BOB] = prg[BOB] /\ wire'[ALICE] = wire[ALICE]
      BY <1>3
    <2> QED
      BY <1>0, <1>2, <1>3, <1>7, <1>8, <2>1, <2>2, <2>3, UpSame
  <1>10. DownInv'
    BY <1>0, <1>2, <1>3, <1>7, DownSame
  <1>11. DriftInv'
    <2>1. Silent(at[ALICE])
      <3>1. ctr[ALICE] = 0
        BY <1>0, <1>4 DEF DriftInv
      <3> QED
        BY <3>1 DEF Returning, Over, Silent, Now, Length
    <2>2. \A c \in (at'[BOB] + 1)..(at'[ALICE] - 1) : Silent(c)'
      <3>1. \A c \in (at[BOB] + 1)..(at[ALICE] - 1) : Silent(c)
        BY <1>0, <1>4 DEF DriftInv
      <3>2. \A c \in (at'[BOB] + 1)..(at'[ALICE] - 1) :
              c = at[ALICE] \/ c \in (at[BOB] + 1)..(at[ALICE] - 1)
        BY <1>2
      <3> QED
        BY <1>2, <2>1, <3>1, <3>2
    <2>3. ~(at'[ALICE] < at'[BOB])
      BY <1>2, <1>4
    <2>4. pc'[BOB] = "call" => Silent(at[BOB])'
      <3>1. pc[BOB] = "call" => Silent(at[BOB])
        BY <1>0, <1>4 DEF DriftInv
      <3> QED
        BY <1>2, <1>3, <3>1 DEF Silent
    <2>5. pc'[BOB] = "extend" =>
            ~UsesPool(Before(BOB), Now(BOB))' /\ prg'[BOB] = Then(BOB)'.prg
      BY <1>0, <1>2, <1>3, <1>4 DEF DriftInv
    <2> QED
      BY <1>2, <1>3, <2>2, <2>3, <2>4, <2>5 DEF DriftInv
  <1> QED
    BY <1>9, <1>10, <1>11

LEMMA SenderLeads ==
  ASSUME IInv, Returning(ALICE), UNCHANGED r_off, at[ALICE] = at[BOB],
         ControlTypes'
  PROVE  UpInv' /\ DownInv' /\ DriftInv'
  <1>0. /\ ProgramInv /\ ControlTypes /\ UpInv /\ DownInv /\ DriftInv
        /\ LocalInv(ALICE) /\ LocalInv(BOB)
    BY DEF IInv, Party
  <1>1. ALICE \in Party /\ BOB \in Party \ {ALICE} /\ BOB \in Party
    BY DEF Party, ALICE, BOB
  <1>2. /\ at[ALICE] \in Nat /\ at'[ALICE] = at[ALICE] + 1
        /\ at'[BOB] = at[BOB] /\ at[BOB] \in Nat
        /\ Before(BOB)' = Before(BOB) /\ Now(BOB)' = Now(BOB)
        /\ Then(BOB)' = Then(BOB) /\ Length(BOB)' = Length(BOB)
        /\ (\A c : Silent(c)' <=> Silent(c)) /\ Ledger' = Ledger
        /\ setup'[ALICE] = Before(ALICE)'.setup /\ prg'[ALICE] = Before(ALICE)'.prg
    BY <1>0, <1>1, ReturnFacts
  <1>3. /\ UNCHANGED <<program, choice, setup, prg, wire>> /\ ctr'[ALICE] = 0
        /\ pc'[BOB] = pc[BOB] /\ ctr'[BOB] = ctr[BOB] /\ rows'[ALICE] = <<>>
        /\ pc'[ALICE] = "call"
    BY <1>1 DEF Returning
  <1>4. /\ Before(ALICE) = Before(BOB) /\ Now(ALICE) = Now(BOB)
        /\ Then(ALICE) = Then(BOB) /\ Length(ALICE) = Length(BOB)
        /\ Seeded = setup[ALICE] /\ Taken = prg[ALICE] /\ Answered = ctr[ALICE]
    BY Together
  <1>5. /\ Now(BOB).op = "batch" => ctr[ALICE] = 0
        /\ Now(BOB).op # "batch" =>
             /\ ctr[ALICE] = Length(BOB) /\ pc[ALICE] \in {"online", "post"}
             /\ prg[ALICE] = Then(BOB).prg /\ setup[ALICE] = Then(BOB).setup
    <2>1. pc[ALICE] \in {"online", "post"} =>
            prg[ALICE] = Then(ALICE).prg /\ setup[ALICE] = Then(ALICE).setup
      BY <1>0, <1>1, PrgWithin
    <2> QED
      BY <1>4, <2>1 DEF Returning, Over
  <1>6. /\ at[BOB] \in 1..Len(program) /\ Length(BOB) \in Nat /\ Length(BOB) = Now(BOB).n
        /\ Now(BOB).op \in {"got", "block", "batch"} /\ Sound(Before(BOB))
        /\ Now(BOB).op = "block" => Now(BOB).n > 0
    <2>1. at[BOB] \in 1..Len(program)
      BY DEF Returning
    <2> QED
      BY <1>0, <1>1, <2>1, InCall
  <1>7. /\ Before(BOB).prg \in Nat /\ prg[BOB] \in Nat /\ prg[ALICE] \in Nat
        /\ pc[BOB] # "call" => prg[BOB] <= Then(BOB).prg /\ (setup[BOB] => Then(BOB).setup)
        /\ pc[BOB] \in {"call", "extend"} => ctr[BOB] = 0
    BY <1>0, <1>1, PrgWithin
  <1>8. pc[BOB] # "call" => Now(BOB).op # "batch"
    <2>1. pc[BOB] \in {"extend", "online", "asked", "post"} => Now(BOB).op # "batch"
      BY <1>0 DEF LocalInv, AtExtend, AtMessages, Extends
    <2> QED
      BY <1>0, <1>1, <2>1 DEF ControlTypes, Place
  <1>9. wire[ALICE] = <<>> /\ prg[BOB] = prg[ALICE]
    <2>1. CASE pc[BOB] = "call"
      BY <1>0, <1>2, <1>4, <2>1 DEF UpInv
    <2>2. CASE pc[BOB] # "call"
      <3>1. PICK k, n, m, size, g, a : Underway(k, n, m, size, g, a)
        <4>1. at[ALICE] <= at[BOB]
          BY <1>2
        <4> QED
          BY <1>0, <2>2, <4>1, UpFacts
      <3>2. k = 0
        BY <1>4, <1>5, <1>7, <1>8, <2>2, <3>1 DEF Underway
      <3>3. n = 0
        <4>1. /\ n \in Nat /\ size \in Nat /\ prg[BOB] = prg[ALICE] + n * size
              /\ n > 0 => size > 0
          BY <1>4, <3>1 DEF Underway
        <4>2. n * size \in Nat /\ prg[BOB] <= prg[ALICE]
          BY <1>5, <1>7, <1>8, <2>2, <4>1
        <4>3. n * size = 0
          BY <1>7, <4>1, <4>2
        <4>4. size > 0 => n = 0
          BY <4>1, <4>3, NextBlock
        <4> QED
          BY <4>1, <4>4
      <3>4. m = 0
        <4>1. ASSUME Asking
              PROVE  FALSE
          <5>1. pc[BOB] = "asked" /\ ctr[ALICE] = ctr[BOB]
            BY <1>4, <4>1 DEF Asking
          <5>2. ctr[BOB] < Length(BOB)
            BY <1>0, <5>1 DEF LocalInv, AtMessages
          <5> QED
            BY <1>5, <1>6, <1>8, <2>2, <5>1, <5>2
        <4> QED
          BY <3>1, <4>1 DEF Underway, Asked
      <3>5. wire[ALICE] = UpStream(0, 0, 0, size, g, a)
        BY <3>1, <3>2, <3>3, <3>4 DEF Underway
      <3>6. prg[BOB] = prg[ALICE] + 0 * size /\ size \in Nat
        BY <1>4, <3>1, <3>3 DEF Underway
      <3> QED
        BY <1>7, <3>5, <3>6, EmptyStream
    <2> QED
      BY <2>1, <2>2
  <1>10. UpInv'
    <2>1. at'[ALICE] > at'[BOB] /\ ~(at'[ALICE] <= at'[BOB])
      BY <1>2
    <2> QED
      BY <1>3, <1>9, <2>1 DEF UpInv
  <1>11. DownInv'
    <2>1. Answered' = Answered
      <3>1. at'[ALICE] > at'[BOB] /\ at'[ALICE] # at'[BOB]
        BY <1>2
      <3> QED
        BY <1>2, <1>4, <1>5, <3>1 DEF Answered
    <2> QED
      BY <1>0, <1>2, <1>3, <2>1, DownSame
  <1>12. DriftInv'
    <2>1. ~(at'[ALICE] < at'[BOB]) /\ (at'[BOB] + 1)..(at'[ALICE] - 1) = {}
      BY <1>2
    <2>2. pc[BOB] = "call" => Silent(at[BOB])
      <3>1. SUFFICES ASSUME pc[BOB] = "call", Now(BOB).op # "batch"
                     PROVE  Now(BOB).n = 0
        BY DEF Silent, Now
      <3>2. prg[BOB] = Before(BOB).prg /\ ctr[BOB] = 0
        BY <1>0, <3>1 DEF LocalInv, AtCall
      <3>3. ~Extends(Before(BOB), Now(BOB))
        <4>1. ASSUME Extends(Before(BOB), Now(BOB))
              PROVE  FALSE
          <5>1. Then(BOB).prg = Before(BOB).prg + PaddedIn(Before(BOB), Now(BOB))
            BY <4>1 DEF Then, Ready
          <5>2. PaddedIn(Before(BOB), Now(BOB)) \in Nat \ {0}
            BY <1>6, <4>1, ExtendFacts
          <5> QED
            BY <1>5, <1>7, <1>9, <3>1, <3>2, <5>1, <5>2
        <4> QED
          BY <4>1
      <3>4. UsesPool(Before(BOB), Now(BOB))
        BY <3>1, <3>3 DEF Extends
      <3>5. ~(Answered > ctr[BOB])
        BY <1>0, <3>1, <3>4 DEF DownInv
      <3> QED
        BY <1>4, <1>5, <1>6, <3>1, <3>2, <3>5
    <2>3. pc[BOB] = "extend" =>
            ~UsesPool(Before(BOB), Now(BOB)) /\ prg[BOB] = Then(BOB).prg
      <3>1. SUFFICES ASSUME pc[BOB] = "extend"
                     PROVE  ~UsesPool(Before(BOB), Now(BOB)) /\ prg[BOB] = Then(BOB).prg
        OBVIOUS
      <3>2. prg[BOB] = Then(BOB).prg
        BY <1>5, <1>8, <1>9, <3>1
      <3>3. Length(BOB) > 0
        <4>1. ~Silent(at[BOB])
          BY <1>0, <1>1, <3>1, Busy
        <4> QED
          BY <1>6, <4>1 DEF Silent, Now
      <3>4. Answered > ctr[BOB]
        BY <1>4, <1>5, <1>7, <1>8, <3>1, <3>3
      <3>5. ~UsesPool(Before(BOB), Now(BOB))
        BY <1>0, <3>1, <3>4 DEF DownInv
      <3> QED
        BY <3>2, <3>5
    <2>4. (pc'[BOB] = "call" => Silent(at[BOB])')
      BY <1>2, <1>3, <2>2 DEF Silent
    <2>5. pc'[BOB] = "extend" =>
            ~UsesPool(Before(BOB), Now(BOB))' /\ prg'[BOB] = Then(BOB)'.prg
      BY <1>2, <1>3, <2>3
    <2> QED
      BY <1>2, <1>3, <2>1, <2>4, <2>5 DEF DriftInv
  <1> QED
    BY <1>10, <1>11, <1>12

LEMMA ReturnSenderStep ==
  ASSUME IInv, SetBatch(ALICE) \/ Finish(ALICE)
  PROVE  IInv'
  <1>0. /\ ProgramInv /\ ControlTypes /\ \A p \in Party : LocalInv(p)
        /\ PadsInv /\ DriftInv /\ UpInv /\ DownInv
    BY DEF IInv
  <1>1. ALICE \in Party /\ BOB \in Party \ {ALICE} /\ BOB \in Party
    BY DEF Party, ALICE, BOB
  <1>2. Returning(ALICE) /\ [Next]_vars
    BY <1>1, Return
  <1>3. t' = t /\ r_off' = r_off
    BY DEF SetBatch, Finish, poolVars
  <1>4. ProgramInv' /\ ControlTypes'
    BY <1>0, <1>2, ProgramSame, ControlStep
  <1>5. UpInv' /\ DownInv' /\ DriftInv'
    <2>1. at[ALICE] < at[BOB] \/ at[ALICE] = at[BOB] \/ at[ALICE] > at[BOB]
      BY <1>0, <1>1 DEF ControlTypes
    <2> QED
      BY <1>2, <1>3, <1>4, <2>1, SenderCatchesUp, SenderLeads, SenderFurther
  <1>6. LocalInv(ALICE)'
    BY <1>2 DEF Returning
  <1>7. LocalInv(BOB)' /\ PadsInv'
    <2>1. /\ program' = program /\ at'[BOB] = at[BOB] /\ pc'[BOB] = pc[BOB]
          /\ batch'[BOB] = batch[BOB] /\ counter'[BOB] = counter[BOB]
          /\ setup'[BOB] = setup[BOB] /\ prg'[BOB] = prg[BOB]
          /\ rows'[BOB] = rows[BOB] /\ ctr'[BOB] = ctr[BOB]
      BY <1>0, <1>1, <1>2 DEF Returning, ControlTypes
    <2> QED
      BY <1>0, <1>1, <1>3, <2>1, ReceiverFrame
  <1> QED
    BY <1>4, <1>5, <1>6, <1>7 DEF IInv, Party

------------------------------------------------------------------------------
(* The steps of the receiver within its call.                               *)

\* They leave the sender's own state alone.
SenderKeeps ==
  /\ UNCHANGED <<program, choice, at, q>>
  /\ pc'[ALICE] = pc[ALICE] /\ batch'[ALICE] = batch[ALICE]
  /\ counter'[ALICE] = counter[ALICE] /\ setup'[ALICE] = setup[ALICE]
  /\ prg'[ALICE] = prg[ALICE] /\ rows'[ALICE] = rows[ALICE]
  /\ ctr'[ALICE] = ctr[ALICE]

LEMMA ReceiverSettles ==
  ASSUME IInv, [Next]_vars, SenderKeeps, pc'[BOB] # "call",
         at[BOB] < at[ALICE] /\ pc'[BOB] = "extend" =>
           pc[BOB] = "extend" /\ prg'[BOB] = prg[BOB],
         LocalInv(BOB)', PadsInv', UpInv', DownInv'
  PROVE  IInv'
  <1>0. ProgramInv /\ ControlTypes /\ (\A p \in Party : LocalInv(p)) /\ DriftInv
    BY DEF IInv
  <1>1. ALICE \in Party /\ ALICE # BOB
    BY DEF Party, ALICE, BOB
  <1>2. LocalInv(ALICE)'
    BY <1>0, <1>1, LocalFrame DEF SenderKeeps
  <1>3. ProgramInv' /\ ControlTypes'
    BY <1>0, ProgramSame, ControlStep
  <1>4. DriftInv'
    <2>1. \A c : Silent(c)' <=> Silent(c)
      BY DEF Silent, SenderKeeps
    <2>2. \A p : /\ Before(p)' = Before(p) /\ Now(p)' = Now(p)
                 /\ Then(p)' = Then(p) /\ Length(p)' = Length(p)
      BY SameCall DEF SenderKeeps
    <2>3. at' = at /\ pc'[ALICE] = pc[ALICE] /\ setup'[ALICE] = setup[ALICE]
          /\ prg'[ALICE] = prg[ALICE] /\ rows'[ALICE] = rows[ALICE]
          /\ ctr'[ALICE] = ctr[ALICE]
      BY DEF SenderKeeps
    <2>4. at[ALICE] < at[BOB] =>
            /\ \/ Silent(at[ALICE])
               \/ pc[ALICE] \in {"online", "post"} /\ ctr[ALICE] = Length(ALICE)
            /\ \A c \in (at[ALICE] + 1)..(at[BOB] - 1) : Silent(c)
      BY <1>0 DEF DriftInv
    <2>5. at[BOB] < at[ALICE] =>
            /\ \A c \in (at[BOB] + 1)..(at[ALICE] - 1) : Silent(c)
            /\ pc'[BOB] = "extend" =>
                 ~UsesPool(Before(BOB), Now(BOB)) /\ prg'[BOB] = Then(BOB).prg
            /\ pc[ALICE] # "post" /\ rows[ALICE] = <<>> /\ ctr[ALICE] = 0
            /\ setup[ALICE] = Before(ALICE).setup /\ prg[ALICE] = Before(ALICE).prg
      BY <1>0 DEF DriftInv
    <2>6. Silent(at[ALICE])' <=> Silent(at[ALICE])
      BY <2>1, <2>3 DEF Silent
    <2> QED
      BY <2>1, <2>2, <2>3, <2>4, <2>5, <2>6 DEF DriftInv
  <1> QED
    BY <1>2, <1>3, <1>4 DEF IInv, Party

\* A receiver that waits behind the sender has drawn all its rows.
LEMMA Behind ==
  ASSUME ProgramInv, ControlTypes, \A p \in Party : LocalInv(p), DriftInv,
         pc[BOB] = "extend", prg[BOB] < Then(BOB).prg
  PROVE  at[ALICE] <= at[BOB]
  <1>1. at[ALICE] \in Nat /\ at[BOB] \in Nat /\ prg[BOB] \in Nat
    BY DEF ControlTypes, Party
  <1>2. ~(at[BOB] < at[ALICE])
    BY <1>1 DEF DriftInv
  <1> QED
    BY <1>1, <1>2

LEMMA BeginReceiverStep ==
  ASSUME IInv, Begin(BOB)
  PROVE  IInv'
  <1>0. /\ ProgramInv /\ ControlTypes /\ \A p \in Party : LocalInv(p)
        /\ PadsInv /\ DriftInv /\ UpInv /\ DownInv
    BY DEF IInv
  <1>1. /\ pc[BOB] = "call" /\ at[BOB] <= Len(program)
        /\ \E x \in {"online", "extend"} : pc' = [pc EXCEPT ![BOB] = x]
        /\ UNCHANGED <<program, choice, at, batch, counter, q, t, setup, prg, rows,
                       ctr, wire>>
        /\ r_off' = r_off \/ r_off' \in Redrawn(r_off)
    BY DEF Begin, Pending, Enter, callVars
  <1>2. [Next]_vars /\ ALICE \in Party /\ BOB \in Party /\ ALICE # BOB
    BY DEF Next, Receiver, Party, ALICE, BOB
  <1>3. /\ pc'[ALICE] = pc[ALICE] /\ pc'[BOB] \in {"online", "extend"}
        /\ at[ALICE] \in Nat /\ at[BOB] \in Nat /\ ctr[BOB] \in Nat /\ prg[BOB] \in Nat
    BY <1>0, <1>1, <1>2 DEF ControlTypes
  <1>4. LocalInv(BOB)'
    BY <1>0, <1>2, BeginLocal
  <1>5. Seeded' = Seeded /\ Taken' = Taken /\ Answered' = Answered
        /\ Before(BOB)' = Before(BOB) /\ Now(BOB)' = Now(BOB)
    BY <1>1, ViewSame
  <1>6. PadsInv'
    <2>1. CASE r_off' = r_off
      BY <1>0, <1>1, <2>1 DEF PadsInv
    <2>2. CASE r_off' \in Redrawn(r_off)
      <3>1. DOMAIN r_off = 0..(batch[BOB] - 1)
        BY <1>0 DEF PadsInv
      <3>2. r_off' \in [0..(batch[BOB] - 1) -> Choice]
        BY <2>2, <3>1 DEF Redrawn
      <3>3. \A j \in counter[BOB]..(batch[BOB] - 1) : r_off'[j] = r_off[j]
        <4>1. counter[BOB] \in Nat /\ batch[BOB] \in Nat
          BY <1>0, <1>2 DEF ControlTypes
        <4>2. \A j \in counter[BOB]..(batch[BOB] - 1) :
                j \in 0..(batch[BOB] - 1) /\ j >= counter[BOB]
          BY <4>1
        <4> QED
          BY <2>2, <3>1, <4>2 DEF Redrawn
      <3> QED
        BY <1>0, <1>1, <3>2, <3>3 DEF PadsInv
    <2> QED
      BY <1>1, <2>1, <2>2
  <1>7. UpInv'
    <2>1. CASE at[ALICE] > at[BOB]
      <3>1. ~(at[ALICE] <= at[BOB])
        BY <1>3, <2>1
      <3> QED
        BY <1>0, <1>1, <2>1, <3>1 DEF UpInv
    <2>2. CASE ~(at[ALICE] > at[BOB])
      <3>1. wire[ALICE] = <<>> /\ Taken = prg[BOB] /\ Seeded = setup[BOB]
        BY <1>0, <1>1, <1>3, <2>2 DEF UpInv
      <3>2. SeedsUnderWay' = 0 /\ Asked' = 0
        BY <1>1, <1>3, <1>5, <3>1 DEF SeedsUnderWay, Asked, Asking
      <3>3. UpWire(0)' = <<>>
        BY <3>2, EmptyStream DEF UpWire
      <3>4. prg'[BOB] = Taken' + 0 * BlockIn(Before(BOB), Now(BOB))'
        <4>1. BlockIn(Before(BOB), Now(BOB)) \in Nat
          <5>1. RowsOf(Before(BOB), Now(BOB)) \in Nat
            BY <1>0, <1>1, <1>2, InCall DEF RowsOf, Sound
          <5> QED
            BY <5>1, BlockNat DEF BlockIn
        <4> QED
          BY <1>1, <1>3, <1>5, <3>1, <4>1
      <3>5. ~(at'[ALICE] > at'[BOB] \/ pc'[BOB] = "call")
        BY <1>1, <1>3, <2>2
      <3>6. Seeded' => setup'[BOB]
        BY <1>1, <1>5, <3>1
      <3> QED
        BY <1>1, <3>1, <3>3, <3>4, <3>5, <3>6 DEF UpInv
    <2> QED
      BY <2>1, <2>2
  <1>8. DownInv'
    <2>1. PICK b : b = ctr[BOB] /\ b \in Nat /\ Answered = b /\ wire[BOB] = <<>>
      <3>1. PICK b, d : /\ b = ctr[BOB] /\ b \in Nat /\ d \in Nat /\ Answered = b + d
                        /\ wire[BOB] = <<>> <=> d = 0
                        /\ d > 0 => pc[BOB] \in {"asked", "extend", "post"}
        BY <1>0, DownFacts
      <3>2. d = 0
        BY <1>1, <3>1
      <3> QED
        BY <3>1, <3>2
    <2>2. wire'[BOB] = <<>> /\ Answered' = b /\ ctr'[BOB] = b
      BY <1>1, <1>5, <2>1
    <2>3. Answered' - ctr'[BOB] = 0 /\ Answered' >= ctr'[BOB] /\ ~(Answered' > ctr'[BOB])
      BY <2>1, <2>2
    <2> QED
      BY <2>2, <2>3 DEF DownInv
  <1>9. SenderKeeps
    BY <1>1, <1>3 DEF SenderKeeps
  <1>10. ASSUME at[BOB] < at[ALICE], pc'[BOB] = "extend"
         PROVE  FALSE
    <2>1. Silent(at[BOB])
      BY <1>0, <1>1, <1>10 DEF DriftInv
    <2>2. /\ Sound(Before(BOB)) /\ Now(BOB).n \in Nat
          /\ Now(BOB).op \in {"got", "block", "batch"}
          /\ Now(BOB).op = "block" => Now(BOB).n > 0
      BY <1>0, <1>1, <1>2, InCall
    <2>3. ~Extends(Before(BOB), Now(BOB))
      BY <2>1, <2>2, SilentCall DEF Silent, Now
    <2>4. Extends(Before(BOB), Now(BOB))'
      BY <1>4, <1>10 DEF LocalInv, AtExtend
    <2> QED
      BY <1>5, <2>3, <2>4
  <1> QED
    BY <1>2, <1>3, <1>4, <1>6, <1>7, <1>8, <1>9, <1>10, ReceiverSettles

LEMMA SeedReceiverStep ==
  ASSUME IInv, SeedReceiver
  PROVE  IInv'
  <1>0. /\ ProgramInv /\ ControlTypes /\ \A p \in Party : LocalInv(p)
        /\ PadsInv /\ DriftInv /\ UpInv /\ DownInv
    BY DEF IInv
  <1>1. /\ pc[BOB] = "extend" /\ ~setup[BOB]
        /\ setup' = [setup EXCEPT ![BOB] = TRUE]
        /\ wire' = [wire EXCEPT ![ALICE] = Append(@, [kind |-> "seed"])]
        /\ UNCHANGED <<program, choice, at, pc, batch, counter, q, t, r_off, prg,
                       rows, ctr>>
    BY DEF SeedReceiver, callVars, poolVars
  <1>2. [Next]_vars /\ ALICE \in Party /\ BOB \in Party /\ ALICE # BOB
    BY DEF Next, Receiver, Party, ALICE, BOB
  <1>3. /\ wire'[ALICE] = Append(wire[ALICE], [kind |-> "seed"])
        /\ wire'[BOB] = wire[BOB]
    BY <1>0, <1>1, <1>2 DEF ControlTypes
  <1>4. setup'[BOB] = TRUE /\ setup'[ALICE] = setup[ALICE]
    BY <1>0, <1>1, <1>2 DEF ControlTypes
  <1>5. /\ prg[BOB] = Before(BOB).prg /\ Before(BOB).prg \in Nat
        /\ prg[BOB] < Then(BOB).prg
    <2>1. PICK k \in Nat : /\ k * BlockIn(Before(BOB), Now(BOB)) \in Nat
                           /\ k * BlockIn(Before(BOB), Now(BOB)) > 0 => setup[BOB]
                           /\ prg[BOB] = Before(BOB).prg + k * BlockIn(Before(BOB), Now(BOB))
      BY <1>0, <1>1, <1>2, InExtension
    <2>2. /\ Extends(Before(BOB), Now(BOB)) /\ Before(BOB).prg \in Nat
          /\ PaddedIn(Before(BOB), Now(BOB)) \in Nat \ {0}
      BY <1>0, <1>1, <1>2, InExtension
    <2>3. Then(BOB).prg = Before(BOB).prg + PaddedIn(Before(BOB), Now(BOB))
      BY <2>2 DEF Then, Ready
    <2>4. k * BlockIn(Before(BOB), Now(BOB)) = 0
      BY <1>1, <2>1
    <2> QED
      BY <2>1, <2>2, <2>3, <2>4
  <1>6. at[ALICE] <= at[BOB] /\ at[ALICE] \in Nat /\ at[BOB] \in Nat
    BY <1>0, <1>1, <1>2, <1>5, Behind DEF ControlTypes
  <1>7. PICK k, n, m, size, g, a : Underway(k, n, m, size, g, a)
    BY <1>0, <1>1, <1>2, <1>6, UpFacts
  <1>8. ~Seeded /\ k = 0 /\ m = 0 /\ Asked = 0
    BY <1>1, <1>7 DEF Underway, Asked, Asking
  <1>9. g = Taken /\ g \in Nat /\ g >= Before(BOB).prg
    <2>1. CASE at[ALICE] = at[BOB]
      <3>1. Taken = prg[ALICE] /\ Before(ALICE) = Before(BOB)
        BY <2>1, Together
      <3>2. prg[ALICE] >= Before(ALICE).prg
        BY <1>0, <1>2, PrgWithin
      <3> QED
        BY <1>7, <3>1, <3>2 DEF Underway
    <2>2. CASE at[ALICE] # at[BOB]
      BY <1>5, <1>7, <2>2 DEF Underway, Taken
    <2> QED
      BY <2>1, <2>2
  <1>10. n = 0 /\ g = prg[BOB] /\ size \in Nat
    <2>1. /\ n \in Nat /\ size \in Nat /\ prg[BOB] = g + n * size
          /\ n > 0 => size > 0
      BY <1>7 DEF Underway
    <2>2. n * size \in Nat
      BY <2>1
    <2>3. n * size = 0
      BY <1>5, <1>9, <2>1, <2>2
    <2>4. size > 0 => n = 0
      BY <2>1, <2>3, NextBlock
    <2> QED
      BY <1>9, <2>1, <2>3, <2>4
  <1>11. Seeded' = Seeded /\ Taken' = Taken /\ Answered' = Answered
         /\ Before(BOB)' = Before(BOB) /\ Now(BOB)' = Now(BOB)
    BY <1>1, <1>4, ViewSame
  <1>12. UpInv'
    <2>1. wire[ALICE] = <<>>
      BY <1>7, <1>8, <1>10, EmptyStream DEF Underway
    <2>2. SeedsUnderWay' = 1 /\ Asked' = 0
      BY <1>1, <1>4, <1>8, <1>11 DEF SeedsUnderWay, Asked, Asking
    <2>3. wire'[ALICE] = UpWire(0)'
      BY <1>3, <2>1, <2>2, SeedAdded DEF UpWire
    <2>4. prg'[BOB] = Taken' + 0 * BlockIn(Before(BOB), Now(BOB))'
      <3>1. BlockIn(Before(BOB), Now(BOB)) \in Nat
        BY <1>7 DEF Underway
      <3>2. Taken' = prg[BOB] /\ prg'[BOB] = prg[BOB] /\ prg[BOB] \in Nat
        BY <1>1, <1>5, <1>9, <1>10, <1>11
      <3>3. BlockIn(Before(BOB), Now(BOB))' \in Nat
        BY <1>11, <3>1
      <3> QED
        BY <3>2, <3>3
    <2>5. ~(at'[ALICE] > at'[BOB] \/ pc'[BOB] = "call")
      BY <1>1, <1>6
    <2> QED
      BY <1>4, <2>3, <2>4, <2>5 DEF UpInv
  <1>13. DownInv'
    BY <1>0, <1>1, <1>3, <1>11, DownSame
  <1>14. LocalInv(BOB)'
    BY <1>0, <1>1, <1>2, SeedLocal
  <1>15. PadsInv'
    BY <1>0, <1>1 DEF PadsInv
  <1>16. SenderKeeps
    BY <1>1, <1>4 DEF SenderKeeps
  <1> QED
    BY <1>1, <1>2, <1>12, <1>13, <1>14, <1>15, <1>16, ReceiverSettles

LEMMA ExtendReceiverStep ==
  ASSUME IInv, ExtendReceiver
  PROVE  IInv'
  <1>0. /\ ProgramInv /\ ControlTypes /\ \A p \in Party : LocalInv(p)
        /\ PadsInv /\ DriftInv /\ UpInv /\ DownInv
    BY DEF IInv
  <1>1. /\ pc[BOB] = "extend" /\ setup[BOB] /\ Extending(BOB)
        /\ rows' = [rows EXCEPT ![BOB] = @ \o Drawn(BOB)]
        /\ prg' = [prg EXCEPT ![BOB] = PrgAfter(BOB)]
        /\ wire' = [wire EXCEPT ![ALICE] =
             Append(@, [kind |-> "U", size |-> BlockOf(Wanted(BOB)),
                        from |-> prg[BOB]])]
        /\ UNCHANGED <<program, choice, at, pc, batch, counter, q, t, r_off, setup, ctr>>
    BY DEF ExtendReceiver, Extending, callVars, poolVars
  <1>2. [Next]_vars /\ ALICE \in Party /\ BOB \in Party /\ ALICE # BOB
    BY DEF Next, Receiver, Party, ALICE, BOB
  <1>3. /\ wire'[ALICE] = Append(wire[ALICE], [kind |-> "U",
                            size |-> BlockOf(Wanted(BOB)), from |-> prg[BOB]])
        /\ wire'[BOB] = wire[BOB] /\ prg'[ALICE] = prg[ALICE]
        /\ rows'[ALICE] = rows[ALICE]
    BY <1>0, <1>1, <1>2 DEF ControlTypes
  <1>4. /\ LocalInv(BOB)' /\ prg'[BOB] = prg[BOB] + BlockIn(Before(BOB), Now(BOB))
        /\ prg'[BOB] <= Then(BOB).prg
    BY <1>0, <1>1, <1>2, ExtendLocal
  <1>5. /\ BlockOf(Wanted(BOB)) = BlockIn(Before(BOB), Now(BOB))
        /\ BlockIn(Before(BOB), Now(BOB)) \in Nat \ {0}
    BY <1>0, <1>1, <1>2, InExtension
  <1>6. prg[BOB] < Then(BOB).prg
    <2>1. prg[BOB] \in Nat /\ Then(BOB).prg \in Nat
      BY <1>0, <1>1, <1>2, PrgWithin
    <2> QED
      BY <1>4, <1>5, <2>1
  <1>7. at[ALICE] <= at[BOB] /\ at[ALICE] \in Nat /\ at[BOB] \in Nat
    BY <1>0, <1>1, <1>2, <1>6, Behind DEF ControlTypes
  <1>8. PICK k, n, m, size, g, a : Underway(k, n, m, size, g, a)
    BY <1>0, <1>1, <1>2, <1>7, UpFacts
  <1>9. /\ k \in {0, 1} /\ n \in Nat /\ m = 0 /\ size \in Nat /\ g \in Nat
        /\ size = BlockIn(Before(BOB), Now(BOB)) /\ g = Taken /\ Asked = 0
        /\ prg[BOB] = g + n * size /\ k = SeedsUnderWay
        /\ wire[ALICE] = UpStream(k, n, 0, size, g, a)
    BY <1>1, <1>8 DEF Underway, Asked, Asking
  <1>10. Seeded' = Seeded /\ Taken' = Taken /\ Answered' = Answered
         /\ Before(BOB)' = Before(BOB) /\ Now(BOB)' = Now(BOB)
    BY <1>1, <1>3, ViewSame
  <1>11. UpInv'
    <2>1. wire'[ALICE] = UpStream(k, n + 1, 0, size, g, a)
      <3>1. Append(UpStream(k, n, 0, size, g, a),
                   [kind |-> "U", size |-> size, from |-> g + n * size])
              = UpStream(k, n + 1, 0, size, g, a)
        <4>1. ASSUME NEW l \in {0, 1}, NEW i \in Nat, NEW z \in Nat, NEW h \in Nat
              PROVE  Append(UpStream(l, i, 0, z, h, a),
                            [kind |-> "U", size |-> z, from |-> h + i * z])
                       = UpStream(l, i + 1, 0, z, h, a)
          BY BlockAdded, SMTT(30)
        <4> QED
          BY <1>9, <4>1, SMTT(30)
      <3>2. BlockOf(Wanted(BOB)) = size /\ prg[BOB] = g + n * size
        BY <1>5, <1>9
      <3> QED
        BY <1>3, <1>9, <3>1, <3>2
    <2>2. SeedsUnderWay' = k /\ Asked' = 0
      BY <1>1, <1>9, <1>10 DEF SeedsUnderWay, Asked, Asking
    <2>3. wire'[ALICE] = UpWire(n + 1)'
      <3>1. \A b : UpStream(k, n + 1, 0, size, g, a) = UpStream(k, n + 1, 0, size, g, b)
        BY <1>9 DEF UpStream
      <3> QED
        BY <1>9, <1>10, <2>1, <2>2, <3>1 DEF UpWire
    <2>4. prg'[BOB] = Taken' + (n + 1) * BlockIn(Before(BOB), Now(BOB))'
      <3>1. (n + 1) * size = n * size + size /\ n * size \in Nat
        BY <1>9
      <3>2. prg'[BOB] = g + (n + 1) * size
        BY <1>4, <1>9, <3>1
      <3> QED
        BY <1>9, <1>10, <3>2
    <2>5. ~(at'[ALICE] > at'[BOB] \/ pc'[BOB] = "call")
      BY <1>1, <1>7
    <2>6. (Seeded => setup[BOB])' /\ n + 1 \in Nat
          /\ (n + 1 > 0 => BlockIn(Before(BOB), Now(BOB))' > 0)
      BY <1>1, <1>5, <1>9, <1>10
    <2> QED
      BY <2>3, <2>4, <2>5, <2>6 DEF UpInv
  <1>12. DownInv'
    BY <1>0, <1>1, <1>3, <1>10, DownSame
  <1>13. PadsInv'
    BY <1>0, <1>1 DEF PadsInv
  <1>14. SenderKeeps
    BY <1>1, <1>3 DEF SenderKeeps
  <1>15. ~(at[BOB] < at[ALICE])
    BY <1>7
  <1> QED
    BY <1>1, <1>2, <1>4, <1>11, <1>12, <1>13, <1>14, <1>15, ReceiverSettles

LEMMA StoreReceiverStep ==
  ASSUME IInv, Store(BOB)
  PROVE  IInv'
  <1>0. /\ ProgramInv /\ ControlTypes /\ \A p \in Party : LocalInv(p)
        /\ PadsInv /\ DriftInv /\ UpInv /\ DownInv
    BY DEF IInv
  <1>1. /\ pc[BOB] = "extend" /\ Len(rows[BOB]) = PaddedLength(Wanted(BOB))
        /\ \E x \in {"online", "post"} : pc' = [pc EXCEPT ![BOB] = x]
        /\ Pooled(BOB) =>
             /\ counter' = [counter EXCEPT ![BOB] = 0]
             /\ rows' = [rows EXCEPT ![BOB] = <<>>]
             /\ t' = [j \in DOMAIN t |->
                        IF Refilled(BOB, j) THEN <<rows[BOB][j + 1], r_off[j]>> ELSE t[j]]
        /\ ~Pooled(BOB) => UNCHANGED <<counter, rows, t>>
        /\ UNCHANGED <<program, choice, at, batch, q, r_off, setup, prg, ctr, wire>>
    BY DEF Store, Enter, callVars, ALICE, BOB
  <1>2. [Next]_vars /\ ALICE \in Party /\ BOB \in Party /\ ALICE # BOB
    BY DEF Next, Receiver, Party, ALICE, BOB
  <1>3. /\ pc'[ALICE] = pc[ALICE] /\ pc'[BOB] \in {"online", "post"}
        /\ counter'[ALICE] = counter[ALICE] /\ rows'[ALICE] = rows[ALICE]
    BY <1>0, <1>1, <1>2 DEF ControlTypes
  <1>4. LocalInv(BOB)'
    BY <1>0, <1>2, StoreLocal
  <1>5. Seeded' = Seeded /\ Taken' = Taken /\ Answered' = Answered
        /\ Before(BOB)' = Before(BOB) /\ Now(BOB)' = Now(BOB)
    BY <1>1, ViewSame
  <1>6. Asked = 0 /\ Asked' = 0
    BY <1>1, <1>3 DEF Asked, Asking
  <1>7. UpInv'
    <2>1. pc'[BOB] # "call" /\ setup'[BOB] = setup[BOB] /\ prg'[BOB] = prg[BOB]
          /\ wire'[ALICE] = wire[ALICE]
      BY <1>1, <1>3
    <2> QED
      BY <1>0, <1>1, <1>5, <1>6, <2>1, UpSame
  <1>8. DownInv'
    <2>1. PICK b, x : /\ b = ctr[BOB] /\ b \in Nat /\ x = Answered /\ x >= b
                      /\ wire[BOB] = [i \in 1..(x - b) |-> Reply(b + i)]
                      /\ x > b => ~UsesPool(Before(BOB), Now(BOB))
      BY <1>0, <1>1, <1>2 DEF DownInv, ControlTypes
    <2>2. ctr'[BOB] = b /\ Answered' = x /\ wire'[BOB] = wire[BOB]
      BY <1>1, <1>5, <2>1
    <2>3. \A o : Reply(o)' = Reply(o)
      BY <1>1, ReplySame
    <2>4. wire'[BOB] = [i \in 1..(x - b) |-> Reply(b + i)']
      BY <2>1, <2>2, <2>3
    <2>5. ~UsesPool(Before(BOB), Now(BOB))' => pc'[BOB] = "post"
      BY <1>3, <1>4 DEF LocalInv, AtMessages
    <2> QED
      BY <1>5, <2>1, <2>2, <2>4, <2>5 DEF DownInv
  <1>9. PadsInv'
    <2>1. CASE ~Pooled(BOB)
      BY <1>0, <1>1, <2>1 DEF PadsInv
    <2>2. CASE Pooled(BOB)
      <3>1. /\ counter[BOB] \in Nat /\ batch[BOB] \in Nat /\ counter'[BOB] = 0
            /\ counter[BOB] <= batch[BOB]
        <4>1. /\ Sound(Before(BOB)) /\ batch[BOB] = Before(BOB).batch
              /\ counter[BOB] = Before(BOB).counter
          BY <1>0, <1>1, <1>2 DEF LocalInv, AtExtend
        <4> QED
          BY <1>0, <1>1, <1>2, <2>2, <4>1 DEF ControlTypes, Sound
      <3>2. \A j \in 0..(counter[BOB] - 1) : rows[BOB][j + 1] \in Row
        <4>1. PICK k \in Nat :
                rows[BOB] = RowsFrom(Before(BOB).prg, k * BlockIn(Before(BOB), Now(BOB)))
                /\ Len(rows[BOB]) = k * BlockIn(Before(BOB), Now(BOB))
          BY <1>0, <1>1, <1>2, InExtension
        <4>2. /\ Before(BOB).prg \in Nat /\ Len(rows[BOB]) \in Nat
              /\ Len(rows[BOB]) >= counter[BOB]
          <5>1. /\ PaddedLength(Wanted(BOB)) = PaddedIn(Before(BOB), Now(BOB))
                /\ PaddedIn(Before(BOB), Now(BOB)) >= RowsOf(Before(BOB), Now(BOB))
                /\ Wanted(BOB) = RowsOf(Before(BOB), Now(BOB))
                /\ PaddedIn(Before(BOB), Now(BOB)) \in Nat \ {0}
                /\ Before(BOB).prg \in Nat
            BY <1>0, <1>1, <1>2, InExtension
          <5>2. Wanted(BOB) = counter[BOB]
            BY <2>2 DEF Wanted
          <5> QED
            BY <1>1, <5>1, <5>2
        <4>3. PICK l, g : /\ l = Len(rows[BOB]) /\ l \in Nat /\ g = Before(BOB).prg
                          /\ g \in Nat /\ rows[BOB] = RowsFrom(g, l) /\ l >= counter[BOB]
          BY <4>1, <4>2
        <4>4. \A j \in 0..(counter[BOB] - 1) : j + 1 \in 1..l /\ g + (j + 1) - 1 \in Nat
          BY <3>1, <4>3
        <4> QED
          BY <4>3, <4>4 DEF RowsFrom, Row
      <3>3. \A j \in 0..(batch[BOB] - 1) :
              t'[j] = IF j < counter[BOB] THEN <<rows[BOB][j + 1], r_off[j]>> ELSE t[j]
        BY <1>0, <1>1, <2>2 DEF PadsInv, Refilled
      <3>4. \A j \in 0..(batch[BOB] - 1) : t'[j] \in Row \X Choice /\ t'[j][2] = r_off[j]
        <4>1. SUFFICES ASSUME NEW j \in 0..(batch[BOB] - 1)
                       PROVE  t'[j] \in Row \X Choice /\ t'[j][2] = r_off[j]
          OBVIOUS
        <4>2. CASE j < counter[BOB]
          <5>1. t'[j] = <<rows[BOB][j + 1], r_off[j]>>
            BY <3>3, <4>2
          <5>2. rows[BOB][j + 1] \in Row /\ r_off[j] \in Choice
            BY <1>0, <3>1, <3>2, <4>2 DEF PadsInv
          <5> QED
            BY <5>1, <5>2
        <4>3. CASE ~(j < counter[BOB])
          <5>1. t'[j] = t[j]
            BY <3>3, <4>3
          <5>2. j \in counter[BOB]..(batch[BOB] - 1)
            BY <3>1, <4>3
          <5> QED
            BY <1>0, <5>1, <5>2 DEF PadsInv
        <4> QED
          BY <4>2, <4>3
      <3>5. t' \in [0..(batch[BOB] - 1) -> Row \X Choice]
        <4>1. DOMAIN t = 0..(batch[BOB] - 1)
          BY <1>0 DEF PadsInv
        <4> QED
          BY <1>1, <2>2, <3>4, <4>1
      <3>6. r_off' = r_off /\ batch' = batch /\ r_off \in [0..(batch[BOB] - 1) -> Choice]
        BY <1>0, <1>1 DEF PadsInv
      <3> QED
        BY <3>1, <3>4, <3>5, <3>6 DEF PadsInv
    <2> QED
      BY <2>1, <2>2
  <1>10. SenderKeeps
    BY <1>1, <1>3 DEF SenderKeeps
  <1> QED
    BY <1>2, <1>3, <1>4, <1>7, <1>8, <1>9, <1>10, ReceiverSettles

LEMMA AskStep ==
  ASSUME IInv, Ask
  PROVE  IInv'
  <1>0. /\ ProgramInv /\ ControlTypes /\ \A p \in Party : LocalInv(p)
        /\ PadsInv /\ DriftInv /\ UpInv /\ DownInv
    BY DEF IInv
  <1>1. PICK m, v :
          /\ m = Chunk(BOB, OnlineChunk)
          /\ v = [j \in 1..m |-> [kind |-> "A",
                     a |-> Correction(r_off[counter[BOB] + j - 1],
                                      choice[at[BOB]][ctr[BOB] + j])]]
          /\ pc[BOB] = "online" /\ ctr[BOB] < Length(BOB)
          /\ pc' = [pc EXCEPT ![BOB] = "asked"]
          /\ wire' = [wire EXCEPT ![ALICE] = @ \o v]
          /\ UNCHANGED <<program, choice, at, batch, counter, q, t, r_off, setup,
                         prg, rows, ctr>>
    BY DEF Ask, Enter, callVars, poolVars
  <1>2. [Next]_vars /\ ALICE \in Party /\ BOB \in Party /\ ALICE # BOB
    BY DEF Next, Receiver, Party, ALICE, BOB
  <1>3. /\ wire'[ALICE] = wire[ALICE] \o v /\ wire'[BOB] = wire[BOB]
        /\ pc'[ALICE] = pc[ALICE] /\ pc'[BOB] = "asked"
        /\ at[ALICE] \in Nat /\ at[BOB] \in Nat
    BY <1>0, <1>1, <1>2 DEF ControlTypes
  <1>4. /\ m \in Nat /\ m > 0 /\ ctr[BOB] \in 0..Length(BOB) /\ Length(BOB) \in Nat
    BY <1>0, <1>1, <1>2, InMessages
  <1>5. PICK b : b = ctr[BOB] /\ b \in Nat /\ Answered = b
    <2>1. PICK b, d : /\ b = ctr[BOB] /\ b \in Nat /\ d \in Nat /\ Answered = b + d
                      /\ d > 0 => pc[BOB] \in {"asked", "extend", "post"}
      BY <1>0, DownFacts
    <2> QED
      BY <1>1, <2>1
  <1>6. at[ALICE] <= at[BOB]
    <2>1. ASSUME at[ALICE] > at[BOB]
          PROVE  FALSE
      <3>1. Now(BOB).op # "batch"
        BY <1>0, <1>1, <1>2 DEF LocalInv, AtMessages
      <3>2. Answered = Length(BOB)
        BY <1>3, <2>1, <3>1 DEF Answered
      <3> QED
        BY <1>1, <1>4, <1>5, <3>2
    <2> QED
      BY <1>3, <2>1
  <1>7. PICK k, n, l, size, g, a : Underway(k, n, l, size, g, a)
    BY <1>0, <1>1, <1>2, <1>6, UpFacts
  <1>8. /\ k \in {0, 1} /\ n \in Nat /\ l = 0 /\ size \in Nat /\ g \in Nat
        /\ size = BlockIn(Before(BOB), Now(BOB)) /\ g = Taken
        /\ prg[BOB] = g + n * size /\ k = SeedsUnderWay
        /\ wire[ALICE] = UpStream(k, n, 0, size, g, a)
    BY <1>1, <1>7 DEF Underway, Asked, Asking
  <1>9. Seeded' = Seeded /\ Taken' = Taken /\ Answered' = Answered
        /\ Before(BOB)' = Before(BOB) /\ Now(BOB)' = Now(BOB) /\ Length(BOB)' = Length(BOB)
    BY <1>1, ViewSame
  <1>10. UpInv'
    <2>1. Asked' = m /\ SeedsUnderWay' = k
      <3>1. Chunk(BOB, OnlineChunk)' = m
        BY <1>1, <1>9 DEF Chunk
      <3>2. Asking'
        BY <1>1, <1>3, <1>5, <1>9 DEF Asking
      <3> QED
        BY <1>1, <1>8, <1>9, <3>1, <3>2 DEF Asked, SeedsUnderWay
    <2>2. PICK c : c = [j \in 1..m |-> CorrectionFor(b + j)]
      OBVIOUS
    <2>3. Corrections(v, m, c)
      <3>1. ASSUME NEW j \in 1..m
            PROVE  Correction(r_off[counter[BOB] + j - 1], choice[at[BOB]][ctr[BOB] + j]) = c[j]
        <4>1. counter[BOB] = Then(BOB).counter + b
          BY <1>0, <1>1, <1>2, <1>5 DEF LocalInv, AtMessages
        <4>2. Then(BOB).counter \in Nat
          <5>1. Sound(Then(BOB))
            BY <1>0, <1>1, <1>2, InMessages, InCall
          <5> QED
            BY <5>1 DEF Sound
        <4>3. counter[BOB] + j - 1 = SlotFor(b + j)
          BY <1>5, <4>1, <4>2 DEF SlotFor
        <4>4. c[j] = CorrectionFor(b + j)
          BY <2>2
        <4> QED
          BY <1>5, <4>3, <4>4 DEF CorrectionFor
      <3> QED
        BY <1>1, <3>1 DEF Corrections
    <2>4. wire'[ALICE] = UpStream(k, n, m, size, g, c)
      <3>1. k \in {0, 1} /\ n \in Nat /\ m \in Nat
        BY <1>4, <1>8
      <3>2. PICK u : u = wire[ALICE] /\ u = UpStream(k, n, 0, size, g, a)
        BY <1>8
      <3>3. Joined(u, v) = UpStream(k, n, m, size, g, c)
        BY <2>3, <3>1, <3>2, CorrectionsAdded
      <3> QED
        BY <1>3, <3>2, <3>3 DEF Joined
    <2>5. c = [j \in 1..m |-> CorrectionFor(b + j)']
      BY <1>1, <2>2, ReplySame
    <2>6. ctr'[BOB] = b
      BY <1>1, <1>5
    <2>7. wire'[ALICE] = UpWire(n)'
      BY <1>8, <1>9, <2>1, <2>4, <2>5, <2>6 DEF UpWire
    <2>8. /\ prg'[BOB] = Taken' + n * BlockIn(Before(BOB), Now(BOB))'
          /\ n > 0 => BlockIn(Before(BOB), Now(BOB))' > 0
          /\ Seeded' => setup'[BOB]
      BY <1>1, <1>7, <1>9 DEF Underway
    <2>9. ~(at'[ALICE] > at'[BOB] \/ pc'[BOB] = "call")
      BY <1>1, <1>3, <1>6
    <2> QED
      BY <1>8, <2>7, <2>8, <2>9 DEF UpInv
  <1>11. DownInv'
    <2>1. wire[BOB] = <<>>
      BY <1>0, <1>5 DEF DownInv
    <2>2. wire'[BOB] = <<>> /\ Answered' = b /\ ctr'[BOB] = b
      BY <1>1, <1>3, <1>5, <1>9, <2>1
    <2>3. Answered' - ctr'[BOB] = 0 /\ Answered' >= ctr'[BOB] /\ ~(Answered' > ctr'[BOB])
      BY <1>5, <2>2
    <2> QED
      BY <2>2, <2>3 DEF DownInv
  <1>12. LocalInv(BOB)'
    <2>1. /\ ctr'[BOB] \in 0..Length(BOB)
          /\ counter'[BOB] = counter[BOB] + (ctr'[BOB] - ctr[BOB])
          /\ ctr'[BOB] < Length(BOB)
      <3>1. counter[BOB] \in Nat
        BY <1>0, <1>2 DEF ControlTypes
      <3> QED
        BY <1>1, <1>4, <3>1
    <2> QED
      BY <1>0, <1>1, <1>2, <1>3, <2>1, MessageLocal
  <1>13. PadsInv'
    BY <1>0, <1>1 DEF PadsInv
  <1>14. SenderKeeps
    BY <1>1, <1>3 DEF SenderKeeps
  <1> QED
    BY <1>2, <1>3, <1>10, <1>11, <1>12, <1>13, <1>14, ReceiverSettles

LEMMA LearnStep ==
  ASSUME IInv, Learn
  PROVE  IInv'
  <1>0. /\ ProgramInv /\ ControlTypes /\ \A p \in Party : LocalInv(p)
        /\ PadsInv /\ DriftInv /\ UpInv /\ DownInv
    BY DEF IInv
  <1>1. PICK m :
          /\ m = Chunk(BOB, OnlineChunk)
          /\ pc[BOB] = "asked" /\ Arrived(BOB, "Y", m)
          /\ pc' = [pc EXCEPT ![BOB] = "online"]
          /\ counter' = [counter EXCEPT ![BOB] = @ + m]
          /\ ctr' = [ctr EXCEPT ![BOB] = @ + m]
          /\ wire' = [wire EXCEPT ![BOB] = Dropped(BOB, m)]
          /\ UNCHANGED <<program, choice, at, batch, q, t, r_off, setup, prg, rows>>
    BY DEF Learn, Enter, LearntTo, callVars
  <1>2. [Next]_vars /\ ALICE \in Party /\ BOB \in Party /\ ALICE # BOB
    BY DEF Next, Receiver, Party, ALICE, BOB
  <1>3. /\ wire'[ALICE] = wire[ALICE]
        /\ wire'[BOB] = SubSeq(wire[BOB], m + 1, Len(wire[BOB]))
        /\ pc'[ALICE] = pc[ALICE] /\ pc'[BOB] = "online"
        /\ counter'[ALICE] = counter[ALICE] /\ ctr'[ALICE] = ctr[ALICE]
        /\ counter'[BOB] = counter[BOB] + m /\ ctr'[BOB] = ctr[BOB] + m
        /\ counter[BOB] \in Nat /\ batch[BOB] \in Nat
    BY <1>0, <1>1, <1>2 DEF ControlTypes, Dropped
  <1>4. ctr[BOB] < Length(BOB)
    BY <1>0, <1>1, <1>2 DEF LocalInv, AtMessages
  <1>5. /\ m \in Nat /\ m > 0 /\ ctr[BOB] + m \in 0..Length(BOB)
        /\ ctr[BOB] \in Nat
    BY <1>0, <1>1, <1>2, <1>4, InMessages
  <1>6. PICK b, w : /\ b = ctr[BOB] /\ b \in Nat /\ Answered = b + m
                    /\ w = wire[BOB] /\ w = [i \in 1..m |-> w[i]]
    <2>1. PICK b, d : /\ b = ctr[BOB] /\ b \in Nat /\ d \in Nat /\ Answered = b + d
                      /\ wire[BOB] = [i \in 1..d |-> wire[BOB][i]]
                      /\ Len(wire[BOB]) = d
                      /\ d > 0 => \/ d = Chunk(BOB, OnlineChunk)
                                  \/ pc[BOB] \in {"extend", "post"}
      BY <1>0, DownFacts
    <2>2. d > 0
      BY <1>1, <1>5, <2>1 DEF Arrived
    <2>3. d = m
      BY <1>1, <2>1, <2>2
    <2> QED
      BY <2>1, <2>3
  <1>7. wire'[BOB] = <<>>
    <2>1. m \in 0..m
      BY <1>5
    <2>2. SubSeq(w, m + 1, Len(w)) = [i \in 1..(m - m) |-> w[i + m]]
      BY <1>5, <1>6, <2>1, Cut
    <2> QED
      BY <1>3, <1>5, <1>6, <2>2
  <1>8. Seeded' = Seeded /\ Taken' = Taken /\ Answered' = Answered
    BY <1>1, <1>3, ViewSame
  <1>9. Asked = 0 /\ Asked' = 0
    <2>1. Answered # ctr[BOB]
      BY <1>5, <1>6
    <2> QED
      BY <1>3, <2>1 DEF Asked, Asking
  <1>10. UpInv'
    <2>1. pc'[BOB] # "call" /\ setup'[BOB] = setup[BOB] /\ prg'[BOB] = prg[BOB]
      BY <1>1, <1>3
    <2> QED
      BY <1>0, <1>1, <1>3, <1>8, <1>9, <2>1, UpSame
  <1>11. DownInv'
    <2>1. Answered' - ctr'[BOB] = 0 /\ Answered' >= ctr'[BOB] /\ ~(Answered' > ctr'[BOB])
      <3>1. Answered' = b + m /\ ctr'[BOB] = b + m
        BY <1>3, <1>6, <1>8
      <3> QED
        BY <1>5, <1>6, <3>1
    <2> QED
      BY <1>7, <2>1 DEF DownInv
  <1>12. LocalInv(BOB)'
    <2>1. /\ ctr'[BOB] \in 0..Length(BOB)
          /\ counter'[BOB] = counter[BOB] + (ctr'[BOB] - ctr[BOB])
      BY <1>3, <1>5
    <2> QED
      BY <1>0, <1>1, <1>2, <1>3, <2>1, MessageLocal
  <1>13. PadsInv'
    <2>1. \A j \in counter'[BOB]..(batch[BOB] - 1) : j \in counter[BOB]..(batch[BOB] - 1)
      <3>1. /\ counter'[BOB] = counter[BOB] + m
            /\ counter[BOB] \in Nat /\ batch[BOB] \in Nat /\ m \in Nat
        BY <1>3, <1>5
      <3> QED
        BY <3>1
    <2>2. batch' = batch /\ t' = t /\ r_off' = r_off
      BY <1>1
    <2> QED
      BY <1>0, <2>1, <2>2 DEF PadsInv
  <1>14. SenderKeeps
    BY <1>1, <1>3 DEF SenderKeeps
  <1> QED
    BY <1>2, <1>3, <1>10, <1>11, <1>12, <1>13, <1>14, ReceiverSettles

LEMMA RecvPostStep ==
  ASSUME IInv, RecvPost
  PROVE  IInv'
  <1>0. /\ ProgramInv /\ ControlTypes /\ \A p \in Party : LocalInv(p)
        /\ PadsInv /\ DriftInv /\ UpInv /\ DownInv
    BY DEF IInv
  <1>1. PICK m :
          /\ m = Chunk(BOB, RecvChunk)
          /\ pc[BOB] = "post" /\ ctr[BOB] < Length(BOB) /\ Arrived(BOB, "Y", m)
          /\ ctr' = [ctr EXCEPT ![BOB] = @ + m]
          /\ wire' = [wire EXCEPT ![BOB] = Dropped(BOB, m)]
          /\ UNCHANGED <<program, choice, at, pc, batch, counter, q, t, r_off, setup,
                         prg, rows>>
    BY DEF RecvPost, callVars, poolVars
  <1>2. [Next]_vars /\ ALICE \in Party /\ BOB \in Party /\ ALICE # BOB
    BY DEF Next, Receiver, Party, ALICE, BOB
  <1>3. /\ wire'[ALICE] = wire[ALICE]
        /\ wire'[BOB] = SubSeq(wire[BOB], m + 1, Len(wire[BOB]))
        /\ ctr'[ALICE] = ctr[ALICE] /\ ctr'[BOB] = ctr[BOB] + m
    BY <1>0, <1>1, <1>2 DEF ControlTypes, Dropped
  <1>4. /\ m \in Nat /\ m > 0 /\ ctr[BOB] + m \in 0..Length(BOB)
        /\ ctr[BOB] \in Nat
    BY <1>0, <1>1, <1>2, InMessages
  <1>5. PICK b, d, w : /\ b = ctr[BOB] /\ b \in Nat /\ d \in Nat /\ Answered = b + d
                       /\ w = wire[BOB] /\ w = [i \in 1..d |-> w[i]]
                       /\ (\A i \in 1..d : w[i] = Reply(b + i)) /\ m <= d
    <2>1. PICK b, d : /\ b = ctr[BOB] /\ b \in Nat /\ d \in Nat /\ Answered = b + d
                      /\ wire[BOB] = [i \in 1..d |-> wire[BOB][i]]
                      /\ \A i \in 1..d : wire[BOB][i] = Reply(b + i)
                      /\ Len(wire[BOB]) = d
      BY <1>0, DownFacts
    <2>2. m <= d
      BY <1>1, <1>4, <2>1 DEF Arrived
    <2> QED
      BY <2>1, <2>2
  <1>6. Seeded' = Seeded /\ Taken' = Taken /\ Answered' = Answered
        /\ Before(BOB)' = Before(BOB) /\ Now(BOB)' = Now(BOB)
    BY <1>1, <1>3, ViewSame
  <1>7. Asked = 0 /\ Asked' = 0
    BY <1>1 DEF Asked, Asking
  <1>8. UpInv'
    <2>1. setup'[BOB] = setup[BOB] /\ prg'[BOB] = prg[BOB] /\ pc'[BOB] = pc[BOB]
      BY <1>1
    <2> QED
      BY <1>0, <1>1, <1>3, <1>6, <1>7, <2>1, UpSame
  <1>9. DownInv'
    <2>1. wire'[BOB] = [i \in 1..(d - m) |-> w[i + m]]
      <3>1. m \in 0..d
        BY <1>4, <1>5
      <3>2. SubSeq(w, m + 1, Len(w)) = [i \in 1..(d - m) |-> w[i + m]]
        BY <1>5, <3>1, Cut
      <3> QED
        BY <1>3, <1>5, <3>2
    <2>2. PICK c : c = b + m /\ c \in Nat /\ ctr'[BOB] = c /\ Answered' = c + (d - m)
      BY <1>3, <1>4, <1>5, <1>6
    <2>3. ASSUME NEW i \in 1..(d - m)
          PROVE  w[i + m] = Reply(c + i)'
      <3>1. i + m \in 1..d /\ b + (i + m) = c + i
        BY <1>4, <1>5, <2>2
      <3>2. w[i + m] = Reply(b + (i + m))
        BY <1>5, <3>1
      <3>3. Reply(c + i)' = Reply(c + i)
        BY <1>1, ReplySame
      <3> QED
        BY <3>1, <3>2, <3>3
    <2>4. wire'[BOB] = [i \in 1..(d - m) |-> Reply(c + i)']
      BY <2>1, <2>3
    <2>5. Answered' - ctr'[BOB] = d - m /\ Answered' >= ctr'[BOB]
      <3>1. PICK z, y : z = Answered' /\ y = ctr'[BOB] /\ y = c /\ z = c + (d - m)
        BY <2>2
      <3>2. c \in Nat /\ m \in Nat /\ d \in Nat /\ m <= d
        BY <1>4, <1>5, <2>2
      <3>3. z - y = d - m /\ z >= y
        BY <3>1, <3>2
      <3> QED
        BY <3>1, <3>3
    <2>6. ~UsesPool(Before(BOB), Now(BOB))
      BY <1>0, <1>1, <1>2 DEF LocalInv, AtMessages
    <2>7. pc'[BOB] \in {"extend", "post"} /\ ~UsesPool(Before(BOB), Now(BOB))'
      BY <1>1, <1>6, <2>6
    <2> QED
      BY <2>2, <2>4, <2>5, <2>7 DEF DownInv
  <1>10. LocalInv(BOB)'
    <2>1. /\ ctr'[BOB] \in 0..Length(BOB) /\ counter'[BOB] = counter[BOB] + 0
      BY <1>0, <1>1, <1>2, <1>3, <1>4 DEF ControlTypes
    <2> QED
      BY <1>0, <1>1, <1>2, <2>1, MessageLocal
  <1>11. PadsInv'
    BY <1>0, <1>1 DEF PadsInv
  <1>12. SenderKeeps
    BY <1>1, <1>3 DEF SenderKeeps
  <1> QED
    BY <1>1, <1>2, <1>8, <1>9, <1>10, <1>11, <1>12, ReceiverSettles

------------------------------------------------------------------------------
(* The receiver returns.                                                    *)

\* The wires when it does: everything it was sent it has taken, and the sender
\* has taken everything of its call.
LEMMA ReceiverDone ==
  ASSUME IInv, Returning(BOB)
  PROVE  /\ wire[BOB] = <<>> /\ Answered = ctr[BOB] /\ wire[ALICE] = <<>>
         /\ at[ALICE] < at[BOB] => Silent(at[BOB])
  <1>0. /\ ProgramInv /\ ControlTypes /\ UpInv /\ DownInv /\ DriftInv
        /\ LocalInv(ALICE) /\ LocalInv(BOB) /\ \A p \in Party : LocalInv(p)
    BY DEF IInv, Party
  <1>1. ALICE \in Party /\ BOB \in Party
    BY DEF Party
  <1>2. /\ at[ALICE] \in Nat /\ at[BOB] \in 1..Len(program) /\ at[BOB] \in Nat
        /\ Length(BOB) \in Nat /\ Length(BOB) = Now(BOB).n /\ Sound(Before(BOB))
        /\ Now(BOB).op \in {"got", "block", "batch"}
        /\ Now(BOB).op = "block" => Now(BOB).n > 0
    <2>1. at[BOB] \in 1..Len(program)
      BY DEF Returning
    <2> QED
      BY <1>0, <1>1, <2>1, InCall DEF ControlTypes
  <1>3. /\ Now(BOB).op = "batch" => pc[BOB] = "call" /\ ctr[BOB] = 0
        /\ Now(BOB).op # "batch" => pc[BOB] \in {"online", "post"} /\ ctr[BOB] = Length(BOB)
    BY DEF Returning, Over
  <1>4. PICK b, d : /\ b = ctr[BOB] /\ b \in Nat /\ d \in Nat /\ Answered = b + d
                    /\ wire[BOB] = <<>> <=> d = 0
                    /\ d > 0 => pc[BOB] \in {"asked", "extend", "post"}
    BY <1>0, DownFacts
  <1>5. /\ ctr[ALICE] \in Nat
        /\ pc[ALICE] \in {"call", "extend"} => ctr[ALICE] = 0
        /\ pc[ALICE] \in {"online", "asked", "post"} =>
             /\ ctr[ALICE] <= Length(ALICE) /\ Now(ALICE).op # "batch"
             /\ prg[ALICE] = Then(ALICE).prg /\ setup[ALICE] = Then(ALICE).setup
        /\ pc[ALICE] \in {"call", "extend", "online", "asked", "post"}
    <2>1. pc[ALICE] \in {"call", "extend"} => ctr[ALICE] = 0
      BY <1>0, <1>1, PrgWithin
    <2>2. pc[ALICE] \in {"online", "asked", "post"} =>
            prg[ALICE] = Then(ALICE).prg /\ setup[ALICE] = Then(ALICE).setup
      BY <1>0, <1>1, PrgWithin
    <2>3. pc[ALICE] \in {"online", "asked", "post"} =>
            Now(ALICE).op # "batch" /\ Length(ALICE) \in Nat /\ ctr[ALICE] \in 0..Length(ALICE)
      <3>1. pc[ALICE] \in {"online", "asked", "post"} => Now(ALICE).op # "batch"
        BY <1>0 DEF LocalInv, AtMessages
      <3> QED
        BY <1>0, <1>1, <3>1, InMessages
    <2> QED
      BY <1>0, <1>1, <2>1, <2>2, <2>3 DEF ControlTypes, Place
  <1>6. Answered = ctr[BOB]
    <2>1. CASE at[ALICE] = at[BOB]
      <3>1. Length(ALICE) = Length(BOB) /\ Now(ALICE) = Now(BOB) /\ Answered = ctr[ALICE]
        BY <2>1, Together
      <3> QED
        BY <1>2, <1>3, <1>4, <1>5, <3>1
    <2>2. CASE at[ALICE] # at[BOB]
      BY <1>2, <1>3, <1>4, <2>2 DEF Answered
    <2> QED
      BY <2>1, <2>2
  <1>7. wire[BOB] = <<>>
    BY <1>4, <1>6
  <1>8. at[ALICE] < at[BOB] => Silent(at[BOB])
    <2>1. SUFFICES ASSUME at[ALICE] < at[BOB]
                   PROVE  Silent(at[BOB])
      OBVIOUS
    <2>2. Answered = 0
      BY <1>2, <2>1 DEF Answered
    <2> QED
      BY <1>2, <1>3, <1>6, <2>2 DEF Silent, Now
  <1>9. wire[ALICE] = <<>>
    <2>1. CASE at[ALICE] > at[BOB] \/ pc[BOB] = "call"
      BY <1>0, <2>1 DEF UpInv
    <2>2. CASE at[ALICE] <= at[BOB] /\ pc[BOB] # "call"
      <3>1. PICK k, n, m, size, g, a : Underway(k, n, m, size, g, a)
        BY <1>0, <2>2, UpFacts
      <3>2. pc[BOB] \in {"online", "post"} /\ ctr[BOB] = Length(BOB) /\ Now(BOB).op # "batch"
        BY <1>3, <2>2
      <3>3. m = 0
        BY <3>1, <3>2 DEF Underway, Asked, Asking
      <3>4. /\ prg[BOB] = Then(BOB).prg /\ setup[BOB] = Then(BOB).setup
            /\ Before(BOB).prg \in Nat /\ prg[BOB] \in Nat
        BY <1>0, <1>1, <3>2, PrgWithin
      <3>5. g \in Nat /\ g >= prg[BOB] /\ (setup[BOB] => Seeded)
        <4>1. CASE Silent(at[BOB])
          <5>1. Then(BOB).prg = Before(BOB).prg /\ Then(BOB).setup = Before(BOB).setup
            BY <1>2, <4>1, SilentCall DEF Silent, Now, Then
          <5>2. CASE at[ALICE] = at[BOB]
            <6>1. /\ Before(ALICE) = Before(BOB) /\ Seeded = setup[ALICE] /\ Taken = prg[ALICE]
              BY <5>2, Together
            <6>2. /\ prg[ALICE] \in Nat /\ prg[ALICE] >= Before(ALICE).prg
                  /\ Before(ALICE).setup => setup[ALICE]
              BY <1>0, <1>1, PrgWithin
            <6> QED
              BY <3>1, <3>4, <5>1, <6>1, <6>2 DEF Underway
          <5>3. CASE at[ALICE] # at[BOB]
            <6>1. Seeded = Before(BOB).setup /\ Taken = Before(BOB).prg
              BY <5>3 DEF Seeded, Taken
            <6> QED
              BY <3>1, <3>4, <5>1, <6>1 DEF Underway
          <5> QED
            BY <5>2, <5>3
        <4>2. CASE ~Silent(at[BOB])
          <5>1. at[ALICE] = at[BOB]
            BY <1>2, <1>8, <2>2, <4>2
          <5>2. /\ Before(ALICE) = Before(BOB) /\ Then(ALICE) = Then(BOB)
                /\ Seeded = setup[ALICE] /\ Taken = prg[ALICE] /\ Answered = ctr[ALICE]
            BY <5>1, Together
          <5>3. ctr[ALICE] > 0
            BY <1>2, <1>6, <3>2, <4>2, <5>2 DEF Silent, Now
          <5>4. prg[ALICE] = Then(BOB).prg /\ setup[ALICE] = Then(BOB).setup
            <6>1. pc[ALICE] \in {"online", "asked", "post"}
              BY <1>5, <5>3
            <6> QED
              BY <1>5, <5>2, <6>1
          <5> QED
            BY <3>1, <3>4, <5>2, <5>4 DEF Underway
        <4> QED
          BY <4>1, <4>2
      <3>6. k = 0
        BY <3>1, <3>5 DEF Underway
      <3>7. n = 0
        <4>1. n \in Nat /\ size \in Nat /\ prg[BOB] = g + n * size /\ (n > 0 => size > 0)
          BY <3>1 DEF Underway
        <4>2. n * size \in Nat
          BY <4>1
        <4>3. n * size = 0
          BY <3>4, <3>5, <4>1, <4>2
        <4>4. size > 0 => n = 0
          BY <4>1, <4>3, NextBlock
        <4> QED
          BY <4>1, <4>4
      <3> QED
        BY <3>1, <3>3, <3>6, <3>7, EmptyStream DEF Underway
    <2> QED
      BY <1>2, <2>1, <2>2
  <1> QED
    BY <1>6, <1>7, <1>8, <1>9

LEMMA ReceiverReturns ==
  ASSUME IInv, Returning(BOB), ControlTypes'
  PROVE  UpInv' /\ DownInv' /\ DriftInv'
  <1>0. /\ ProgramInv /\ ControlTypes /\ DriftInv /\ DownInv
        /\ LocalInv(ALICE) /\ \A p \in Party : LocalInv(p)
    BY DEF IInv, Party
  <1>1. BOB \in Party /\ ALICE \in Party \ {BOB} /\ ALICE \in Party
    BY DEF Party, ALICE, BOB
  <1>2. /\ at[BOB] \in Nat /\ at'[BOB] = at[BOB] + 1
        /\ at'[ALICE] = at[ALICE] /\ at[ALICE] \in Nat
        /\ Before(ALICE)' = Before(ALICE) /\ Length(ALICE)' = Length(ALICE)
        /\ (\A c : Silent(c)' <=> Silent(c)) /\ Ledger' = Ledger
        /\ setup'[BOB] = Before(BOB)'.setup /\ prg'[BOB] = Before(BOB)'.prg
    BY <1>0, <1>1, ReturnFacts
  <1>3. /\ UNCHANGED <<program, choice, setup, prg, wire>> /\ ctr'[BOB] = 0
        /\ pc'[BOB] = "call" /\ pc'[ALICE] = pc[ALICE] /\ ctr'[ALICE] = ctr[ALICE]
        /\ rows'[ALICE] = rows[ALICE]
    BY <1>1 DEF Returning
  <1>4. /\ wire[BOB] = <<>> /\ Answered = ctr[BOB] /\ wire[ALICE] = <<>>
        /\ at[ALICE] < at[BOB] => Silent(at[BOB])
    BY ReceiverDone
  <1>5. at'[ALICE] = at'[BOB] => Before(ALICE) = Before(BOB)'
    BY <1>2 DEF Before
  <1>6. at'[ALICE] = at'[BOB] \/ at'[ALICE] > at'[BOB] =>
          /\ at[BOB] < at[ALICE] /\ ctr[ALICE] = 0
          /\ setup[ALICE] = Before(ALICE).setup /\ prg[ALICE] = Before(ALICE).prg
    <2>1. at'[ALICE] = at'[BOB] \/ at'[ALICE] > at'[BOB] => at[BOB] < at[ALICE]
      BY <1>2
    <2> QED
      BY <1>0, <2>1 DEF DriftInv
  <1>7. at'[ALICE] > at'[BOB] => Silent(at'[BOB])
    <2>1. at'[ALICE] > at'[BOB] => at'[BOB] \in (at[BOB] + 1)..(at[ALICE] - 1)
      BY <1>2
    <2> QED
      BY <1>0, <1>6, <2>1 DEF DriftInv
  <1>8. UpInv'
    <2>1. CASE at'[ALICE] = at'[BOB]
      <3>1. Seeded' = setup'[ALICE] /\ Taken' = prg'[ALICE]
        BY <2>1 DEF Seeded, Taken
      <3>2. Seeded' = setup'[BOB]
        <4>1. setup'[ALICE] = Before(BOB)'.setup
          BY <1>3, <1>5, <1>6, <2>1
        <4> QED
          BY <1>2, <3>1, <4>1
      <3> QED
        BY <1>2, <1>3, <1>4, <1>5, <1>6, <2>1, <3>1, <3>2 DEF UpInv
    <2>2. CASE at'[ALICE] # at'[BOB]
      <3>1. Seeded' = Before(BOB)'.setup /\ Taken' = Before(BOB)'.prg
        BY <2>2 DEF Seeded, Taken
      <3>2. Seeded' = setup'[BOB] /\ Taken' = prg'[BOB]
        BY <1>2, <3>1
      <3> QED
        BY <1>3, <1>4, <3>2 DEF UpInv
    <2> QED
      BY <2>1, <2>2
  <1>9. DownInv'
    <2>1. Answered' = 0
      <3>1. CASE at'[ALICE] = at'[BOB]
        BY <1>3, <1>6, <3>1 DEF Answered
      <3>2. CASE at'[ALICE] > at'[BOB]
        <4>1. Silent(at'[BOB])
          BY <1>7, <3>2
        <4>2. Now(BOB)'.op = "batch" \/ Length(BOB)' = 0
          BY <1>3, <4>1 DEF Silent, Now, Length
        <4>3. at'[ALICE] # at'[BOB]
          BY <1>2, <3>2
        <4> QED
          BY <3>2, <4>2, <4>3 DEF Answered
      <3>3. CASE at'[ALICE] < at'[BOB]
        <4>1. at'[ALICE] # at'[BOB] /\ ~(at'[ALICE] > at'[BOB])
          BY <1>2, <3>3
        <4> QED
          BY <4>1 DEF Answered
      <3> QED
        BY <1>2, <3>1, <3>2, <3>3
    <2>2. Answered' - ctr'[BOB] = 0 /\ Answered' >= ctr'[BOB] /\ ~(Answered' > ctr'[BOB])
      BY <1>3, <2>1
    <2> QED
      BY <1>3, <1>4, <2>2 DEF DownInv
  <1>10. DriftInv'
    <2>1. CASE at'[ALICE] = at'[BOB]
      BY <2>1, DriftTogether
    <2>2. CASE at'[ALICE] > at'[BOB]
      <3>1. \A c \in (at'[BOB] + 1)..(at'[ALICE] - 1) : Silent(c)'
        <4>1. \A c \in (at[BOB] + 1)..(at[ALICE] - 1) : Silent(c)
          BY <1>0, <1>6, <2>2 DEF DriftInv
        <4>2. \A c \in (at'[BOB] + 1)..(at'[ALICE] - 1) : c \in (at[BOB] + 1)..(at[ALICE] - 1)
          BY <1>2
        <4> QED
          BY <1>2, <4>1, <4>2
      <3>2. Silent(at[BOB])'
        <4>1. Silent(at'[BOB])
          BY <1>7, <2>2
        <4> QED
          BY <1>3, <4>1 DEF Silent
      <3>3. ~(at'[ALICE] < at'[BOB])
        BY <1>2, <2>2
      <3>4. pc[ALICE] # "post" /\ rows[ALICE] = <<>> /\ ctr[ALICE] = 0
        BY <1>0, <1>6, <2>2 DEF DriftInv
      <3>5. setup'[ALICE] = Before(ALICE)'.setup /\ prg'[ALICE] = Before(ALICE)'.prg
        <4>1. setup'[ALICE] = setup[ALICE] /\ prg'[ALICE] = prg[ALICE]
          BY <1>3
        <4> QED
          BY <1>2, <1>6, <2>2, <4>1
      <3> QED
        BY <1>3, <3>1, <3>2, <3>3, <3>4, <3>5 DEF DriftInv
    <2>3. CASE at'[ALICE] < at'[BOB]
      <3>1. CASE at[ALICE] = at[BOB]
        <4>1. (at'[ALICE] + 1)..(at'[BOB] - 1) = {} /\ ~(at'[BOB] < at'[ALICE])
          BY <1>2, <3>1
        <4>2. \/ Silent(at[ALICE])
              \/ pc[ALICE] \in {"online", "post"} /\ ctr[ALICE] = Length(ALICE)
          <5>1. SUFFICES ASSUME ~Silent(at[ALICE])
                         PROVE  pc[ALICE] \in {"online", "post"} /\ ctr[ALICE] = Length(ALICE)
            OBVIOUS
          <5>2. /\ Length(ALICE) = Length(BOB) /\ Now(ALICE) = Now(BOB)
                /\ Answered = ctr[ALICE]
            BY <3>1, Together
          <5>3. Now(BOB).op # "batch" /\ Now(BOB).n # 0
            BY <5>1, <5>2 DEF Silent, Now
          <5>4. ctr[BOB] = Length(BOB) /\ Length(BOB) = Now(BOB).n
            BY <5>3 DEF Returning, Over, Length
          <5>5. ctr[ALICE] = Length(ALICE) /\ ctr[ALICE] # 0
            BY <1>4, <5>2, <5>3, <5>4
          <5>6. pc[ALICE] \in Place /\ pc[ALICE] \notin {"call", "extend"}
            BY <1>0, <1>1, <5>5, PrgWithin DEF ControlTypes
          <5>7. pc[ALICE] # "asked"
            BY <1>0 DEF LocalInv, AtMessages, ALICE, BOB
          <5> QED
            BY <5>5, <5>6, <5>7 DEF Place
        <4>3. Silent(at[ALICE])' <=> Silent(at[ALICE])
          BY <1>2, <1>3 DEF Silent
        <4> QED
          BY <1>2, <1>3, <4>1, <4>2, <4>3 DEF DriftInv
      <3>2. CASE at[ALICE] < at[BOB]
        <4>1. /\ \/ Silent(at[ALICE])
                 \/ pc[ALICE] \in {"online", "post"} /\ ctr[ALICE] = Length(ALICE)
              /\ \A c \in (at[ALICE] + 1)..(at[BOB] - 1) : Silent(c)
          BY <1>0, <3>2 DEF DriftInv
        <4>2. \A c \in (at'[ALICE] + 1)..(at'[BOB] - 1) : Silent(c)'
          <5>1. \A c \in (at'[ALICE] + 1)..(at'[BOB] - 1) :
                  c = at[BOB] \/ c \in (at[ALICE] + 1)..(at[BOB] - 1)
            BY <1>2
          <5> QED
            BY <1>2, <1>4, <3>2, <4>1, <5>1
        <4>3. Silent(at[ALICE])' <=> Silent(at[ALICE])
          BY <1>2, <1>3 DEF Silent
        <4>4. ~(at'[BOB] < at'[ALICE])
          BY <1>2, <2>3
        <4> QED
          BY <1>2, <1>3, <4>1, <4>2, <4>3, <4>4 DEF DriftInv
      <3> QED
        BY <1>2, <2>3, <3>1, <3>2
    <2> QED
      BY <1>2, <2>1, <2>2, <2>3
  <1> QED
    BY <1>8, <1>9, <1>10

LEMMA ReturnReceiverStep ==
  ASSUME IInv, SetBatch(BOB) \/ Finish(BOB)
  PROVE  IInv'
  <1>0. /\ ProgramInv /\ ControlTypes /\ (\A p \in Party : LocalInv(p)) /\ PadsInv
    BY DEF IInv
  <1>1. BOB \in Party /\ ALICE \in Party \ {BOB} /\ ALICE \in Party /\ ALICE # BOB
    BY DEF Party, ALICE, BOB
  <1>2. Returning(BOB) /\ [Next]_vars
    BY <1>1, Return
  <1>3. ProgramInv' /\ ControlTypes'
    BY <1>0, <1>2, ProgramSame, ControlStep
  <1>4. UpInv' /\ DownInv' /\ DriftInv'
    BY <1>2, <1>3, ReceiverReturns
  <1>5. LocalInv(BOB)'
    BY <1>2 DEF Returning
  <1>6. LocalInv(ALICE)'
    <2>1. q' = q
      BY <1>1 DEF SetBatch, Finish, poolVars
    <2>2. /\ program' = program /\ at'[ALICE] = at[ALICE] /\ pc'[ALICE] = pc[ALICE]
          /\ batch'[ALICE] = batch[ALICE] /\ counter'[ALICE] = counter[ALICE]
          /\ setup'[ALICE] = setup[ALICE] /\ prg'[ALICE] = prg[ALICE]
          /\ rows'[ALICE] = rows[ALICE] /\ ctr'[ALICE] = ctr[ALICE]
      BY <1>0, <1>1, <1>2 DEF Returning, ControlTypes
    <2> QED
      BY <1>0, <1>1, <2>1, <2>2, LocalFrame
  <1>7. PadsInv'
    <2>1. CASE SetBatch(BOB)
      <3>1. PICK n : /\ n = Length(BOB) /\ batch' = [batch EXCEPT ![BOB] = n]
                     /\ counter' = [counter EXCEPT ![BOB] = n]
                     /\ t' = [j \in 0..(n - 1) |-> NoPad]
                     /\ r_off' = [j \in 0..(n - 1) |-> 0]
        BY <1>1, <2>1 DEF SetBatch
      <3>2. batch'[BOB] = n /\ counter'[BOB] = n /\ n \in Nat
        BY <1>0, <1>1, <1>3, <3>1 DEF ControlTypes
      <3>3. NoPad \in Row \X Choice /\ 0 \in Choice
        BY OTAssumption DEF NoPad, Row, Choice, NoRow
      <3>4. n..(n - 1) = {}
        BY <3>2
      <3> QED
        BY <3>1, <3>2, <3>3, <3>4 DEF PadsInv
    <2>2. CASE Finish(BOB)
      BY <1>0, <2>2 DEF Finish, PadsInv, poolVars
    <2> QED
      BY <2>1, <2>2
  <1> QED
    BY <1>3, <1>4, <1>5, <1>6, <1>7 DEF IInv, Party

------------------------------------------------------------------------------
(* The invariant.                                                           *)

LEMMA Stutter ==
  ASSUME IInv, UNCHANGED vars
  PROVE  IInv'
  <1>0. /\ ProgramInv /\ ControlTypes /\ \A p \in Party : LocalInv(p)
        /\ PadsInv /\ DriftInv /\ UpInv /\ DownInv
    BY DEF IInv
  <1>1. UNCHANGED <<program, choice, at, pc, batch, counter, q, t, r_off, setup, prg,
                    rows, ctr, data, results, wire, spent>>
    BY DEF vars, callVars, poolVars
  <1>2. LocalInv(ALICE)'
    BY <1>0, <1>1, LocalFrame DEF Party, ALICE, BOB
  <1>3. DriftInv'
    BY <1>0, <1>1, SameCall DEF DriftInv, Silent
  <1> QED
    BY <1>1, <1>2, <1>3, SenderSettles

LEMMA InvInit ==
  ASSUME Init
  PROVE  IInv
  <1>1. ALICE \in Party /\ BOB \in Party /\ ALICE # BOB /\ Party = {ALICE, BOB}
    BY DEF Party, ALICE, BOB
  <1>2. ProgramInv
    <2>1. program \in Programs /\ choice \in Choices
      BY DEF Init
    <2>2. program \in Seq([op : {"got", "block", "batch"}, n : Nat])
          /\ \A i \in DOMAIN program : IsCall(program[i])
      BY <2>1, OTAssumption
    <2>3. choice \in Seq(Seq(Choice))
      BY <2>1, OTAssumption DEF Choice
    <2> QED
      BY <2>2, <2>3 DEF Init, ProgramInv
  <1>3. ControlTypes
    BY <1>1 DEF Init, ControlTypes, Place
  <1>4. Before(ALICE) = Empty /\ Before(BOB) = Empty
    BY <1>1, <1>2, LedgerSteps DEF Init, Before
  <1>5. Sound(Empty)
    <2>1. 0..(0 - 1) = {}
      OBVIOUS
    <2>2. <<>> \in [{} -> Row]
      OBVIOUS
    <2> QED
      BY <2>1, <2>2 DEF Sound, Empty
  <1>6. ASSUME NEW p \in Party
        PROVE  LocalInv(p)
    <2>1. Before(p) = Empty /\ Sound(Before(p))
      BY <1>1, <1>4, <1>5
    <2>2. /\ at[p] = 1 /\ pc[p] = "call" /\ batch[p] = 0 /\ counter[p] = 0
          /\ setup[p] = FALSE /\ prg[p] = 0 /\ rows[p] = <<>> /\ ctr[p] = 0
      BY DEF Init
    <2>3. Slotted(p, <<>>)
      <3>1. batch[BOB] = 0 /\ q = <<>> /\ 0..(0 - 1) = {}
        BY <1>1 DEF Init
      <3> QED
        BY <3>1 DEF Slotted
    <2>4. AtCall(p)
      <3>1. PICK s : s = Before(p) /\ s = Empty
        BY <2>1
      <3>2. s.counter = 0 /\ s.prg = 0 /\ s.setup = FALSE /\ s.slot = <<>>
        BY <3>1 DEF Empty
      <3>3. Slotted(p, s.slot)
        BY <2>3, <3>2
      <3> QED
        BY <2>2, <3>1, <3>2, <3>3 DEF AtCall
    <2>5. AtExtend(p) /\ AtMessages(p)
      BY <2>2 DEF AtExtend, AtMessages
    <2>6. 1 \in 1..(Len(program) + 1)
      <3>1. Len(program) \in Nat
        BY <1>2 DEF ProgramInv
      <3> QED
        BY <3>1
    <2> QED
      BY <2>1, <2>2, <2>4, <2>5, <2>6 DEF LocalInv, Empty
  <1>7. PadsInv
    <2>1. batch[BOB] = 0 /\ counter[BOB] = 0 /\ t = <<>> /\ r_off = <<>> /\ 0..(0 - 1) = {}
      BY <1>1 DEF Init
    <2>2. <<>> \in [{} -> Row \X Choice] /\ <<>> \in [{} -> Choice]
      OBVIOUS
    <2> QED
      BY <2>1, <2>2 DEF PadsInv
  <1>8. at[ALICE] = 1 /\ at[BOB] = 1 /\ wire[ALICE] = <<>> /\ wire[BOB] = <<>>
        /\ ctr[ALICE] = 0 /\ ctr[BOB] = 0 /\ pc[BOB] = "call"
        /\ setup[ALICE] = FALSE /\ setup[BOB] = FALSE /\ prg[ALICE] = 0 /\ prg[BOB] = 0
    BY <1>1 DEF Init
  <1>9. DriftInv
    BY <1>8 DEF DriftInv
  <1>10. Seeded = setup[BOB] /\ Taken = prg[BOB] /\ Answered = 0
    BY <1>8, Together
  <1>11. UpInv
    BY <1>8, <1>10 DEF UpInv
  <1>12. DownInv
    <2>1. Answered - ctr[BOB] = 0 /\ Answered >= ctr[BOB] /\ ~(Answered > ctr[BOB])
      BY <1>8, <1>10
    <2> QED
      BY <1>8, <2>1 DEF DownInv
  <1> QED
    BY <1>2, <1>3, <1>6, <1>7, <1>9, <1>11, <1>12 DEF IInv

LEMMA InvNext ==
  ASSUME IInv, [Next]_vars
  PROVE  IInv'
  <1>1. CASE SetBatch(ALICE) \/ Finish(ALICE)
    BY <1>1, ReturnSenderStep
  <1>2. CASE Begin(ALICE)
    BY <1>2, BeginSenderStep
  <1>3. CASE SeedSender
    BY <1>3, SeedSenderStep
  <1>4. CASE ExtendSender
    BY <1>4, ExtendSenderStep
  <1>5. CASE Store(ALICE)
    BY <1>5, StoreSenderStep
  <1>6. CASE Answer
    BY <1>6, AnswerStep
  <1>7. CASE SendPost
    BY <1>7, SendPostStep
  <1>8. CASE SetBatch(BOB) \/ Finish(BOB)
    BY <1>8, ReturnReceiverStep
  <1>9. CASE Begin(BOB)
    BY <1>9, BeginReceiverStep
  <1>10. CASE SeedReceiver
    BY <1>10, SeedReceiverStep
  <1>11. CASE ExtendReceiver
    BY <1>11, ExtendReceiverStep
  <1>12. CASE Store(BOB)
    BY <1>12, StoreReceiverStep
  <1>13. CASE Ask
    BY <1>13, AskStep
  <1>14. CASE Learn
    BY <1>14, LearnStep
  <1>15. CASE RecvPost
    BY <1>15, RecvPostStep
  <1>16. CASE UNCHANGED vars
    BY <1>16, Stutter
  <1> QED
    BY <1>1, <1>2, <1>3, <1>4, <1>5, <1>6, <1>7, <1>8, <1>9, <1>10, <1>11,
       <1>12, <1>13, <1>14, <1>15, <1>16 DEF Next, Sender, Receiver

LEMMA Invariant ==
  Spec => []IInv
  BY InvInit, InvNext, PTL DEF Spec

------------------------------------------------------------------------------
(* What follows.                                                            *)

\* The slots from a party's counter on, wherever it is in a call.
LEMMA SlotFacts ==
  ASSUME ProgramInv, ControlTypes, NEW p \in Party, LocalInv(p)
  PROVE  \E s : /\ Sound(s) /\ s.batch = batch[p] /\ Slotted(p, s.slot)
                /\ counter[p] >= s.counter /\ counter[p] <= batch[p]
                /\ counter[p] \in Nat /\ batch[p] \in Nat
                /\ pc[p] \in {"online", "asked"} =>
                     counter[p] + Length(p) - ctr[p] <= batch[p]
  <1>1. Sound(Before(p)) /\ batch[p] = Before(p).batch /\ counter[p] \in Nat
    BY DEF LocalInv, ControlTypes
  <1>2. CASE pc[p] \in {"call", "extend"}
    <2>1. counter[p] = Before(p).counter /\ Slotted(p, Before(p).slot)
      BY <1>2 DEF LocalInv, AtCall, AtExtend
    <2>2. counter[p] >= Before(p).counter /\ counter[p] <= batch[p] /\ batch[p] \in Nat
      BY <1>1, <2>1 DEF Sound
    <2> QED
      BY <1>1, <1>2, <2>1, <2>2
  <1>3. CASE pc[p] \in {"online", "asked", "post"}
    <2>1. /\ Slotted(p, Then(p).slot) /\ ctr[p] \in 0..Length(p)
          /\ counter[p] = Then(p).counter + (IF pc[p] = "post" THEN 0 ELSE ctr[p])
          /\ pc[p] = "post" <=> ~UsesPool(Before(p), Now(p))
      BY <1>3 DEF LocalInv, AtMessages
    <2>2. /\ Sound(Then(p)) /\ Length(p) \in Nat
          /\ UsesPool(Before(p), Now(p)) => Then(p).counter + Length(p) <= batch[p]
      BY <1>3, InMessages, InCall
    <2>3. Then(p).batch = batch[p]
      BY <1>1 DEF Then, Ready
    <2>4. Then(p).counter \in Nat /\ Then(p).counter <= batch[p] /\ batch[p] \in Nat
      BY <2>2, <2>3 DEF Sound
    <2>5. /\ counter[p] >= Then(p).counter /\ counter[p] <= batch[p]
          /\ pc[p] \in {"online", "asked"} => counter[p] + Length(p) - ctr[p] <= batch[p]
      BY <2>1, <2>2, <2>4
    <2> QED
      BY <1>1, <2>1, <2>2, <2>3, <2>4, <2>5
  <1> QED
    BY <1>2, <1>3 DEF ControlTypes, Place

\* Every variable keeps the type of the field it models.
THEOREM TypeCorrect ==
  Spec => []TypeOK
  <1>1. ASSUME IInv
        PROVE  TypeOK
    <2>0. /\ ProgramInv /\ ControlTypes /\ (\A p \in Party : LocalInv(p)) /\ PadsInv
      BY <1>1 DEF IInv
    <2>1. ALICE \in Party
      BY DEF Party
    <2>2. q \in [0..(batch[ALICE] - 1) -> Row]
      <3>1. PICK s : Sound(s) /\ s.batch = batch[ALICE] /\ Slotted(ALICE, s.slot)
        BY <2>0, <2>1, SlotFacts
      <3> QED
        BY <3>1 DEF Sound, Slotted
    <2>3. ASSUME NEW p \in Party
          PROVE  /\ counter[p] <= batch[p]
                 /\ pc[p] # "call" => ~Ended(p) /\ ctr[p] \in 0..Length(p)
                 /\ rows[p] \in Seq(Row)
      <3>1. counter[p] <= batch[p]
        BY <2>0, SlotFacts
      <3>2. ASSUME pc[p] # "call"
            PROVE  ~Ended(p) /\ ctr[p] \in 0..Length(p)
        <4>1. at[p] <= Len(program) /\ at[p] \in Nat /\ Len(program) \in Nat
          BY <2>0, <3>2 DEF LocalInv, ControlTypes, ProgramInv
        <4>2. CASE pc[p] = "extend"
          <5>1. Length(p) \in Nat /\ ctr[p] = 0
            BY <2>0, <4>1, <4>2, InCall DEF LocalInv, AtExtend
          <5> QED
            BY <4>1, <5>1 DEF Ended
        <4>3. CASE pc[p] \in {"online", "asked", "post"}
          BY <2>0, <4>1, <4>3 DEF Ended, LocalInv, AtMessages
        <4> QED
          BY <2>0, <3>2, <4>2, <4>3 DEF ControlTypes, Place
      <3>3. rows[p] \in Seq(Row)
        <4>1. ASSUME NEW g \in Nat, NEW n \in Nat
              PROVE  RowsFrom(g, n) \in Seq(Row)
          <5>1. RowsFrom(g, n) \in [1..n -> Row]
            BY DEF RowsFrom, Row
          <5> QED
            BY <5>1
        <4>2. CASE pc[p] = "call"
          <5>1. rows[p] = <<>>
            BY <2>0, <4>2 DEF LocalInv, AtCall
          <5> QED
            BY <5>1
        <4>3. CASE pc[p] = "extend"
          <5>1. PICK k \in Nat : /\ k * BlockIn(Before(p), Now(p)) \in Nat
                                 /\ rows[p] = RowsFrom(Before(p).prg, k * BlockIn(Before(p), Now(p)))
                                 /\ Before(p).prg \in Nat
            BY <2>0, <4>3, InExtension
          <5> QED
            BY <4>1, <5>1
        <4>4. CASE pc[p] \in {"online", "asked"}
          <5>1. rows[p] = <<>>
            BY <2>0, <4>4 DEF LocalInv, AtMessages
          <5> QED
            BY <5>1
        <4>5. CASE pc[p] = "post"
          <5>1. /\ rows[p] = RowsFrom(Before(p).prg, PaddedIn(Before(p), Now(p)))
                /\ Now(p).op # "batch" /\ ~UsesPool(Before(p), Now(p))
            BY <2>0, <4>5 DEF LocalInv, AtMessages
          <5>2. /\ Sound(Before(p)) /\ Now(p).n \in Nat
                /\ Now(p).op \in {"got", "block", "batch"}
                /\ Now(p).op = "block" => Now(p).n > 0
            BY <2>0, <4>5, InMessages, InCall
          <5>3. Before(p).prg \in Nat /\ PaddedIn(Before(p), Now(p)) \in Nat
            BY <5>1, <5>2, ExtendFacts DEF Sound
          <5> QED
            BY <4>1, <5>1, <5>3
        <4> QED
          BY <2>0, <4>2, <4>3, <4>4, <4>5 DEF ControlTypes, Place
      <3> QED
        BY <3>1, <3>2, <3>3
    <2> QED
      BY <2>0, <2>2, <2>3 DEF TypeOK, ControlTypes, PadsInv
  <1> QED
    BY <1>1, Invariant, PTL

\* Both parties read only slots that a refill has written, and have enough of
\* them for the rest of an online call (got_send_online, got_recv_online).
THEOREM SlotsFilled ==
  Spec => []SlotsHeld
  <1>1. ASSUME IInv
        PROVE  SlotsHeld
    <2>0. ProgramInv /\ ControlTypes /\ \A p \in Party : LocalInv(p)
      BY <1>1 DEF IInv
    <2>1. ASSUME NEW p \in Party
          PROVE  /\ pc[p] \in {"online", "asked"} =>
                      counter[p] + Length(p) - ctr[p] <= batch[p]
                 /\ \A j \in counter[p]..(batch[p] - 1) :
                      IF p = ALICE THEN q[j] # NoRow ELSE t[j] # NoPad
      <3>1. PICK s : /\ Sound(s) /\ s.batch = batch[p] /\ Slotted(p, s.slot)
                     /\ counter[p] >= s.counter /\ counter[p] \in Nat /\ batch[p] \in Nat
                     /\ pc[p] \in {"online", "asked"} =>
                          counter[p] + Length(p) - ctr[p] <= batch[p]
        BY <2>0, SlotFacts
      <3>2. ASSUME NEW j \in counter[p]..(batch[p] - 1)
            PROVE  IF p = ALICE THEN q[j] # NoRow ELSE t[j] # NoPad
        <4>1. j \in s.counter..(s.batch - 1) /\ j \in 0..(batch[p] - 1)
          BY <3>1 DEF Sound
        <4>2. s.slot[j] \in Nat
          BY <3>1, <4>1 DEF Sound
        <4>3. CASE p = ALICE
          BY <3>1, <4>2, <4>3 DEF Slotted, NoRow
        <4>4. CASE p = BOB
          <5>1. t[j][1] = s.slot[j]
            BY <3>1, <4>1, <4>4 DEF Slotted, ALICE, BOB
          <5> QED
            BY <4>2, <4>4, <5>1 DEF NoPad, NoRow, ALICE, BOB
        <4> QED
          BY <4>3, <4>4 DEF Party
      <3> QED
        BY <3>1, <3>2
    <2> QED
      BY <2>1 DEF SlotsHeld
  <1> QED
    BY <1>1, Invariant, PTL

\* Between calls the two pools agree: in size, counter, PRG position and the
\* row of every unused slot (send_impl and recv_impl, SplitKKOT and SplitIKNP).
THEOREM PoolsAlike ==
  Spec => []PoolsAgree
  <1>1. ASSUME IInv
        PROVE  PoolsAgree
    <2>0. ControlTypes /\ (\A p \in Party : LocalInv(p)) /\ PadsInv
      BY <1>1 DEF IInv
    <2>1. SUFFICES ASSUME at[ALICE] = at[BOB], pc[ALICE] = "call", pc[BOB] = "call"
                   PROVE  /\ batch[ALICE] = batch[BOB] /\ counter[ALICE] = counter[BOB]
                          /\ prg[ALICE] = prg[BOB] /\ setup[ALICE] = setup[BOB]
                          /\ \A j \in counter[BOB]..(batch[BOB] - 1) :
                               q[j] = t[j][1] /\ r_off[j] = t[j][2]
      BY DEF PoolsAgree
    <2>2. ALICE \in Party /\ BOB \in Party /\ ALICE # BOB
      BY DEF Party, ALICE, BOB
    <2>3. PICK s : s = Before(ALICE) /\ s = Before(BOB)
      BY <2>1, Together
    <2>4. /\ batch[ALICE] = s.batch /\ counter[ALICE] = s.counter
          /\ prg[ALICE] = s.prg /\ Slotted(ALICE, s.slot) /\ Sound(s)
      BY <2>0, <2>1, <2>2, <2>3 DEF LocalInv, AtCall
    <2>5. /\ batch[BOB] = s.batch /\ counter[BOB] = s.counter
          /\ prg[BOB] = s.prg /\ Slotted(BOB, s.slot)
      BY <2>0, <2>1, <2>2, <2>3 DEF LocalInv, AtCall
    <2>6. setup[ALICE] = setup[BOB]
      <3>1. setup[ALICE] = s.setup
        BY <2>0, <2>1, <2>2, <2>3 DEF LocalInv, AtCall
      <3>2. setup[BOB] = s.setup
        BY <2>0, <2>1, <2>2, <2>3 DEF LocalInv, AtCall
      <3> QED
        BY <3>1, <3>2
    <2>7. ASSUME NEW j \in counter[BOB]..(batch[BOB] - 1)
          PROVE  q[j] = t[j][1] /\ r_off[j] = t[j][2]
      <3>1. j \in 0..(batch[BOB] - 1)
        BY <2>4, <2>5 DEF Sound
      <3> QED
        BY <2>0, <2>2, <2>4, <2>5, <3>1 DEF Slotted, PadsInv
    <2> QED
      BY <2>4, <2>5, <2>6, <2>7
  <1> QED
    BY <1>1, Invariant, PTL

\* What the sender reads is next on its wire.
LEMMA SenderReads ==
  ASSUME IInv, wire[ALICE] # <<>>, Awaited(ALICE) # {}
  PROVE  /\ wire[ALICE][1].kind \in Awaited(ALICE)
         /\ wire[ALICE][1].kind = "U" => wire[ALICE][1].size = BlockOf(Wanted(ALICE))
  <1>0. /\ ProgramInv /\ ControlTypes /\ (\A p \in Party : LocalInv(p))
        /\ DriftInv /\ UpInv
        /\ ALICE \in Party /\ BOB \in Party /\ ALICE # BOB
    BY DEF IInv, Party, ALICE, BOB
  <1>1. \/ pc[ALICE] = "extend"
        \/ pc[ALICE] = "online" /\ ctr[ALICE] < Length(ALICE)
    BY DEF Awaited, Extending
  <1>2. /\ at[ALICE] = at[BOB] /\ at[BOB] <= Len(program) /\ pc[BOB] # "call"
        /\ \E k, n, m, size, g, a : /\ Underway(k, n, m, size, g, a)
                                    /\ Heading(wire[ALICE], k, n, m, size, g)
    BY <1>0, <1>1, Incoming
  <1>3. PICK k, n, m, size, g, a : /\ Underway(k, n, m, size, g, a)
                                   /\ Heading(wire[ALICE], k, n, m, size, g)
    BY <1>2
  <1>4. PICK s, c, u : s = Before(ALICE) /\ c = Now(ALICE) /\ u = Then(ALICE)
    OBVIOUS
  <1>5. /\ s = Before(BOB) /\ c = Now(BOB) /\ u = Then(BOB)
        /\ Seeded = setup[ALICE] /\ Taken = prg[ALICE]
    BY <1>2, <1>4, Together
  <1>6. PICK kind : kind = wire[ALICE][1].kind
    OBVIOUS
  <1>7. /\ kind = "seed" => k = 1
        /\ kind = "U" => k = 0 /\ n > 0 /\ wire[ALICE][1].size = size
        /\ kind = "A" => k = 0 /\ n = 0 /\ m > 0
        /\ kind \in {"seed", "U", "A"}
    BY <1>3, <1>6 DEF Heading
  <1>8. /\ prg[BOB] >= s.prg /\ prg[BOB] <= u.prg /\ prg[BOB] \in Nat /\ s.prg \in Nat
        /\ u.prg \in Nat /\ (setup[BOB] => u.setup) /\ (s.setup => setup[BOB])
    BY <1>0, <1>2, <1>5, PrgWithin
  <1>9. pc[ALICE] = "online" => prg[ALICE] = u.prg /\ setup[ALICE] = u.setup
    BY <1>0, <1>4, PrgWithin
  <1>10. /\ pc[ALICE] = "extend" =>
              /\ BlockOf(Wanted(ALICE)) = BlockIn(s, c)
              /\ Len(rows[ALICE]) = prg[ALICE] - s.prg
              /\ PaddedLength(Wanted(ALICE)) = PaddedIn(s, c)
              /\ u.prg = s.prg + PaddedIn(s, c) /\ PaddedIn(s, c) \in Nat
    <2>1. SUFFICES ASSUME pc[ALICE] = "extend"
                   PROVE  /\ BlockOf(Wanted(ALICE)) = BlockIn(s, c)
                          /\ Len(rows[ALICE]) = prg[ALICE] - s.prg
                          /\ PaddedLength(Wanted(ALICE)) = PaddedIn(s, c)
                          /\ u.prg = s.prg + PaddedIn(s, c) /\ PaddedIn(s, c) \in Nat
      OBVIOUS
    <2>2. PICK d \in Nat : Len(rows[ALICE]) = d /\ prg[ALICE] = s.prg + d
      BY <1>0, <1>4, <2>1, InExtension
    <2>3. /\ BlockOf(Wanted(ALICE)) = BlockIn(s, c)
          /\ PaddedLength(Wanted(ALICE)) = PaddedIn(s, c)
          /\ PaddedIn(s, c) \in Nat /\ Extends(s, c)
      BY <1>0, <1>4, <2>1, InExtension
    <2>4. u.prg = s.prg + PaddedIn(s, c)
      BY <1>4, <2>3 DEF Then, Ready
    <2> QED
      BY <1>8, <2>2, <2>3, <2>4
  <1>11. /\ size = BlockIn(s, c) /\ g = prg[ALICE] /\ g \in Nat
         /\ k = 1 <=> setup[BOB] /\ ~setup[ALICE]
         /\ k \in {0, 1} /\ n \in Nat /\ size \in Nat
         /\ prg[BOB] = g + n * size /\ (n > 0 => size > 0)
         /\ m = Asked /\ (setup[ALICE] => setup[BOB])
    BY <1>3, <1>5 DEF Underway
  <1>12. n > 0 => prg[BOB] > prg[ALICE]
    <2>1. n > 0 => n * size > 0
      BY <1>11
    <2> QED
      BY <1>11, <2>1
  <1>13. pc[ALICE] \in {"extend", "online"}
    BY <1>1
  <1>14. CASE kind = "seed"
    <2>1. setup[BOB] /\ ~setup[ALICE]
      BY <1>7, <1>11, <1>14
    <2>2. pc[ALICE] = "extend"
      BY <1>8, <1>9, <1>13, <2>1
    <2> QED
      BY <1>0, <1>6, <1>14, <2>1, <2>2 DEF Awaited
  <1>15. CASE kind = "U"
    <2>1. prg[ALICE] < prg[BOB] /\ prg[ALICE] \in Nat
      BY <1>7, <1>11, <1>12, <1>15
    <2>2. pc[ALICE] = "extend"
      BY <1>8, <1>9, <1>13, <2>1
    <2>3. setup[BOB]
      <3>1. CASE pc[BOB] = "extend"
        <4>1. PICK e \in Nat : (e > 0 => setup[BOB]) /\ prg[BOB] = s.prg + e
          BY <1>0, <1>5, <3>1, InExtension
        <4>2. prg[ALICE] >= s.prg
          BY <1>0, <1>4, PrgWithin
        <4> QED
          BY <1>8, <2>1, <4>1, <4>2
      <3>2. CASE pc[BOB] \in {"online", "asked", "post"}
        <4>1. setup[BOB] = u.setup
          BY <1>0, <1>5, <3>2, PrgWithin
        <4>2. u.setup
          BY <1>0, <1>4, <2>2, InExtension DEF Then, Ready
        <4> QED
          BY <4>1, <4>2
      <3> QED
        BY <1>0, <1>2, <3>1, <3>2 DEF ControlTypes, Place
    <2>4. setup[ALICE]
      BY <1>7, <1>11, <1>15, <2>3
    <2>5. Len(rows[ALICE]) < PaddedLength(Wanted(ALICE))
      <3>1. PICK l, e : /\ l = Len(rows[ALICE]) /\ e = PaddedLength(Wanted(ALICE))
                        /\ l = prg[ALICE] - s.prg /\ u.prg = s.prg + e /\ e \in Nat
        BY <1>10, <2>2
      <3>2. PICK x, y, z, v : x = prg[ALICE] /\ y = prg[BOB] /\ z = s.prg /\ v = u.prg
        OBVIOUS
      <3>3. l < e
        BY <1>8, <2>1, <3>1, <3>2
      <3> QED
        BY <3>1, <3>3
    <2>6. wire[ALICE][1].size = BlockOf(Wanted(ALICE))
      BY <1>7, <1>10, <1>11, <1>15, <2>2
    <2> QED
      BY <1>0, <1>6, <1>15, <2>2, <2>4, <2>5, <2>6 DEF Awaited, Extending
  <1>16. CASE kind = "A"
    <2>1. pc[BOB] = "asked"
      BY <1>0, <1>7, <1>11, <1>16, AskedFacts
    <2>2. prg[BOB] = u.prg /\ setup[BOB] = u.setup
      BY <1>0, <1>5, <2>1, PrgWithin
    <2>3. prg[ALICE] = u.prg
      BY <1>7, <1>11, <1>16, <2>2
    <2>4. pc[ALICE] # "extend"
      <3>1. SUFFICES ASSUME pc[ALICE] = "extend"
                     PROVE  FALSE
        OBVIOUS
      <3>2. u.setup
        BY <1>0, <1>4, <3>1, InExtension DEF Then, Ready
      <3>3. setup[ALICE]
        BY <1>7, <1>11, <1>16, <2>2, <3>2
      <3>4. Len(rows[ALICE]) = PaddedLength(Wanted(ALICE)) /\ PaddedIn(s, c) \in Nat
        BY <1>8, <1>10, <2>3, <3>1
      <3>5. ~(Len(rows[ALICE]) < PaddedLength(Wanted(ALICE)))
        BY <1>10, <3>1, <3>4
      <3> QED
        BY <3>1, <3>3, <3>5 DEF Awaited, Extending
    <2>5. pc[ALICE] = "online" /\ ctr[ALICE] < Length(ALICE)
      BY <1>1, <2>4
    <2> QED
      BY <1>0, <1>6, <1>16, <2>5 DEF Awaited
  <1> QED
    BY <1>7, <1>14, <1>15, <1>16

\* The byte streams are read as they were written, and to their ends
\* (send_impl and recv_impl, send_pre and recv_pre of both classes).
THEOREM StreamsInStep ==
  Spec => []InStep
  <1>1. ASSUME IInv
        PROVE  InStep
    <2>0. /\ ProgramInv /\ ControlTypes /\ (\A p \in Party : LocalInv(p))
          /\ UpInv /\ DownInv
          /\ ALICE \in Party /\ BOB \in Party /\ ALICE # BOB
      BY <1>1 DEF IInv, Party, ALICE, BOB
    <2>1. ASSUME NEW p \in Party, pc[p] = "extend"
          PROVE  Wanted(p) >= 1
      BY <2>0, <2>1, InExtension
    <2>2. PICK b, d : /\ b = ctr[BOB] /\ b \in Nat /\ d \in Nat /\ Answered = b + d
                      /\ \A i \in 1..d : wire[BOB][i] = Reply(b + i)
                      /\ wire[BOB] = <<>> <=> d = 0
      BY <2>0, DownFacts
    <2>3. ASSUME wire[BOB] # <<>>, Awaited(BOB) # {}
          PROVE  wire[BOB][1].kind \in Awaited(BOB) /\ wire[BOB][1].kind # "U"
      <3>1. wire[BOB][1] = Reply(b + 1)
        BY <2>2, <2>3
      <3>2. wire[BOB][1].kind = "Y"
        BY <3>1 DEF Reply
      <3>3. Awaited(BOB) = {"Y"}
        BY <2>0, <2>3 DEF Awaited
      <3> QED
        BY <3>2, <3>3
    <2>4. ASSUME Ended(ALICE), Ended(BOB)
          PROVE  wire[ALICE] = <<>> /\ wire[BOB] = <<>>
      <3>1. /\ at[ALICE] = at[BOB] /\ pc[ALICE] = "call" /\ pc[BOB] = "call"
        BY <2>0, <2>4 DEF Ended, LocalInv, ProgramInv
      <3>2. Answered = 0 /\ ctr[BOB] = 0
        BY <2>0, <3>1, Together, PrgWithin
      <3>3. d = 0
        BY <2>2, <3>2
      <3> QED
        BY <2>2, <3>1, <3>3, <2>0 DEF UpInv
    <2> QED
      BY <1>1, <2>1, <2>3, <2>4, SenderReads DEF InStep, Party
  <1> QED
    BY <1>1, Invariant, PTL

------------------------------------------------------------------------------
(***************************************************************************)
(* What the split OT extensions promise, for every N, every block and      *)
(* message size and every session of legal calls: a row hides one OT, and  *)
(* the receiver obtains the messages it chose.                             *)
(*                                                                         *)
(* Both follow from the ledger above.  A row that a party has              *)
(* spent is behind its PRG and in none of the slots it has yet to read;    *)
(* what the receiver unmasks was masked with the row it holds, shifted by  *)
(* the correction it sent.                                                 *)
(***************************************************************************)

\* The OTs of the pool's call that have taken their slots, and the rows of a
\* direct call that have been taken.
Used(p) == IF pc[p] = "asked" THEN ctr[p] + Chunk(p, OnlineChunk) ELSE ctr[p]
Past(p) == IF pc[p] = "post" THEN ctr[p] ELSE 0
Online == {"online", "asked"}

\* Party p will not use row g from here on.
Gone(p, g) ==
  IF pc[p] \in Online
  THEN /\ g < Then(p).prg
       /\ \A j \in (Then(p).counter + Used(p))..(batch[p] - 1) : Then(p).slot[j] # g
  ELSE /\ g < Before(p).prg + Past(p)
       /\ \A j \in Before(p).counter..(batch[p] - 1) : Before(p).slot[j] # g

SpentInv ==
  /\ \A x \in spent : x.by \in Party /\ x.row \in Nat /\ Gone(x.by, x.row)
  /\ OneTime

------------------------------------------------------------------------------
(* A row that is gone stays gone.                                           *)

\* A step within one path of a call.
LEMMA GoneLater ==
  ASSUME NEW p \in Party, program' = program, at'[p] = at[p], batch'[p] = batch[p],
         batch[p] \in Nat,
         \/ /\ pc[p] \in Online /\ pc'[p] \in Online /\ Then(p).counter \in Nat
            /\ Used(p) \in Nat /\ Used(p)' \in Nat /\ Used(p)' >= Used(p)
         \/ /\ pc[p] \notin Online /\ pc'[p] \notin Online /\ Before(p).prg \in Nat
            /\ Past(p) \in Nat /\ Past(p)' \in Nat /\ Past(p)' >= Past(p)
  PROVE  \A g \in Nat : Gone(p, g) => Gone(p, g)'
  <1>1. Before(p)' = Before(p) /\ Then(p)' = Then(p)
    BY SameCall
  <1>2. CASE pc[p] \in Online /\ pc'[p] \in Online
    <2>1. PICK u, v \in Nat : /\ u = Used(p) /\ v = Used(p)' /\ v >= u
                              /\ Then(p).counter \in Nat
      BY <1>2
    <2>2. (Then(p).counter + v)..(batch[p] - 1) \subseteq (Then(p).counter + u)..(batch[p] - 1)
      BY <2>1
    <2> QED
      BY <1>1, <1>2, <2>1, <2>2 DEF Gone
  <1>3. CASE pc[p] \notin Online /\ pc'[p] \notin Online
    <2>1. PICK u, v \in Nat : /\ u = Past(p) /\ v = Past(p)' /\ v >= u
                              /\ Before(p).prg \in Nat
      BY <1>3
    <2>2. \A g \in Nat : g < Before(p).prg + u => g < Before(p).prg + v
      BY <2>1
    <2> QED
      BY <1>1, <1>3, <2>1, <2>2 DEF Gone
  <1> QED
    BY <1>2, <1>3

\* The step to the messages of a call through the pool.
LEMMA GoneReady ==
  ASSUME ProgramInv, NEW p \in Party, LocalInv(p), at[p] <= Len(program),
         program' = program, at'[p] = at[p], batch'[p] = batch[p],
         pc[p] \in {"call", "extend"}, pc'[p] = "online", ctr'[p] = 0,
         UsesPool(Before(p), Now(p))
  PROVE  \A g \in Nat : Gone(p, g) => Gone(p, g)'
  <1>1. Before(p)' = Before(p) /\ Then(p)' = Then(p)
    BY SameCall
  <1>2. PICK s, c, r : s = Before(p) /\ c = Now(p) /\ r = Then(p)
    OBVIOUS
  <1>3. /\ Sound(s) /\ Sound(r) /\ batch[p] = s.batch
        /\ c.op \in {"got", "block", "batch"} /\ c.n \in Nat
        /\ c.op = "block" => c.n > 0
    BY <1>2, InCall DEF LocalInv
  <1>4. s.prg \in Nat /\ s.counter \in 0..s.batch /\ s.batch \in Nat
    BY <1>3 DEF Sound
  <1>5. /\ r.counter = IF Refills(s, c) THEN 0 ELSE s.counter
        /\ r.prg = IF Extends(s, c) THEN s.prg + PaddedIn(s, c) ELSE s.prg
        /\ r.slot = [j \in 0..(s.batch - 1) |->
                       IF Refills(s, c) /\ j < s.counter THEN s.prg + j ELSE s.slot[j]]
    BY <1>2 DEF Then, Ready
  <1>6. r.prg \in Nat /\ r.prg >= s.prg
    BY <1>3, <1>4, <1>5, ExtendFacts
  <1>7. ASSUME NEW g \in Nat, Gone(p, g)
        PROVE  Gone(p, g)'
    <2>1. g < s.prg /\ \A j \in s.counter..(s.batch - 1) : s.slot[j] # g
      BY <1>2, <1>3, <1>4, <1>7 DEF Gone, Online, Past
    <2>2. g < r.prg
      BY <1>4, <1>6, <2>1
    <2>3. ASSUME NEW j \in (r.counter + 0)..(s.batch - 1)
          PROVE  r.slot[j] # g
      <3>1. j \in 0..(s.batch - 1)
        BY <1>4, <1>5
      <3>2. r.slot[j] = IF Refills(s, c) /\ j < s.counter THEN s.prg + j ELSE s.slot[j]
        BY <1>5, <3>1
      <3>3. CASE Refills(s, c) /\ j < s.counter
        BY <1>4, <2>1, <3>1, <3>2, <3>3
      <3>4. CASE ~(Refills(s, c) /\ j < s.counter)
        <4>1. j \in s.counter..(s.batch - 1)
          BY <1>4, <1>5, <3>1, <3>4
        <4> QED
          BY <2>1, <3>2, <3>4, <4>1
      <3> QED
        BY <3>3, <3>4
    <2>4. Used(p)' = 0
      BY DEF Used
    <2> QED
      BY <1>1, <1>2, <1>3, <2>2, <2>3, <2>4 DEF Gone, Online
  <1> QED
    BY <1>7

\* The return from a call.
LEMMA GoneReturn ==
  ASSUME ProgramInv, NEW p \in Party, LocalInv(p), Returning(p)
  PROVE  \A g \in Nat : Gone(p, g) => Gone(p, g)'
  <1>1. PICK s, c, r : s = Before(p) /\ c = Now(p) /\ r = Then(p)
    OBVIOUS
  <1>2. /\ Sound(s) /\ Sound(r) /\ batch[p] = s.batch
        /\ c.op \in {"got", "block", "batch"} /\ c.n \in Nat
        /\ c.op = "block" => c.n > 0
        /\ Length(p) = c.n
    <2>1. at[p] <= Len(program)
      BY DEF Returning, ProgramInv
    <2> QED
      BY <1>1, <2>1, InCall DEF LocalInv
  <1>3. PICK a : a = After(s, c)
    OBVIOUS
  <1>4. Before(p)' = a /\ batch'[p] = a.batch /\ pc'[p] = "call" /\ Over(p)
    BY <1>1, <1>3 DEF Returning, LocalInv
  <1>5. /\ s.prg \in Nat /\ s.counter \in 0..s.batch /\ s.batch \in Nat
        /\ r.prg \in Nat /\ r.counter \in Nat
    BY <1>2 DEF Sound
  <1>6. ASSUME NEW g \in Nat, Gone(p, g)
        PROVE  g < a.prg /\ \A j \in a.counter..(a.batch - 1) : a.slot[j] # g
    <2>1. CASE pc[p] = "call" /\ c.op = "batch"
      <3>1. a.prg = s.prg /\ a.counter = c.n /\ a.batch = c.n
        BY <1>3, <2>1 DEF After
      <3>2. g < s.prg
        BY <1>1, <1>5, <1>6, <2>1 DEF Gone, Online, Past
      <3>3. c.n..(c.n - 1) = {}
        BY <1>2
      <3> QED
        BY <3>1, <3>2, <3>3
    <2>2. ASSUME pc[p] \in {"online", "post"}, c.op # "batch", ctr[p] = c.n
          PROVE  g < a.prg /\ \A j \in a.counter..(a.batch - 1) : a.slot[j] # g
      <3>1. /\ a.prg = r.prg /\ a.slot = r.slot /\ a.batch = s.batch
            /\ a.counter = r.counter + (IF UsesPool(s, c) THEN c.n ELSE 0)
        BY <1>1, <1>3, <2>2 DEF After, Then
      <3>2. pc[p] = "post" <=> ~UsesPool(s, c)
        BY <1>1, <2>2 DEF LocalInv, AtMessages
      <3>3. CASE pc[p] = "online"
        <4>1. g < r.prg /\ \A j \in (r.counter + c.n)..(s.batch - 1) : r.slot[j] # g
          BY <1>1, <1>2, <1>6, <2>2, <3>3 DEF Gone, Online, Used
        <4>2. a.counter = r.counter + c.n
          BY <3>1, <3>2, <3>3
        <4> QED
          BY <3>1, <4>1, <4>2
      <3>4. CASE pc[p] = "post"
        <4>1. g < s.prg + c.n /\ \A j \in s.counter..(s.batch - 1) : s.slot[j] # g
          BY <1>1, <1>2, <1>6, <2>2, <3>4 DEF Gone, Online, Past
        <4>2. /\ ~UsesPool(s, c) /\ ~Refills(s, c) /\ Extends(s, c)
              /\ PaddedIn(s, c) >= c.n /\ PaddedIn(s, c) \in Nat
          BY <1>2, <2>2, <3>2, <3>4, ExtendFacts DEF Refills
        <4>3. /\ r.counter = s.counter /\ r.prg = s.prg + PaddedIn(s, c)
              /\ r.slot = [j \in 0..(s.batch - 1) |-> s.slot[j]]
          BY <1>1, <4>2 DEF Then, Ready
        <4>4. g < a.prg
          BY <1>2, <1>5, <3>1, <4>1, <4>2, <4>3
        <4>5. a.counter = s.counter
          BY <1>5, <3>1, <4>2, <4>3
        <4>6. ASSUME NEW j \in s.counter..(s.batch - 1)
              PROVE  a.slot[j] # g
          <5>1. j \in 0..(s.batch - 1)
            BY <1>5
          <5> QED
            BY <3>1, <4>1, <4>3, <5>1
        <4> QED
          BY <3>1, <4>4, <4>5, <4>6
      <3> QED
        BY <2>2, <3>3, <3>4
    <2> QED
      BY <1>1, <1>2, <1>4, <2>1, <2>2 DEF Over
  <1>7. ASSUME NEW g \in Nat, g < a.prg
        PROVE  g < a.prg + Past(p)'
    <2>1. Sound(a)
      BY <1>2, <1>3, SoundAfter
    <2>2. Past(p)' = 0 /\ a.prg \in Nat
      BY <1>4, <2>1 DEF Past, Sound
    <2> QED
      BY <1>7, <2>2
  <1> QED
    BY <1>4, <1>6, <1>7 DEF Gone, Online

------------------------------------------------------------------------------
(* The rows that a step spends are not gone before it and all different.    *)

\* The slots of one message of an online call.
SlotsRead(p, m) == [j \in 1..m |-> Then(p).slot[counter[p] + j - 1]]
Fresh(p, m, row) ==
  /\ m \in Nat /\ ctr[p] \in Nat /\ Then(p).counter \in Nat /\ batch[p] \in Nat
  /\ \A j \in 1..m : /\ row[j] \in Nat /\ ~Gone(p, row[j]) /\ row[j] < Then(p).prg
                     /\ \A k \in (Then(p).counter + (ctr[p] + m))..(batch[p] - 1) :
                          Then(p).slot[k] # row[j]
  /\ \A i, j \in 1..m : row[i] = row[j] => i = j

LEMMA PoolRows ==
  ASSUME ProgramInv, NEW p \in Party, LocalInv(p), ControlTypes,
         pc[p] = "online", ctr[p] < Length(p),
         NEW m, m = Chunk(p, OnlineChunk), NEW row, row = SlotsRead(p, m)
  PROVE  Fresh(p, m, row)
  <1>1. PICK r : r = Then(p)
    OBVIOUS
  <1>2. /\ UsesPool(Before(p), Now(p)) /\ counter[p] = r.counter + ctr[p]
        /\ at[p] <= Len(program) /\ batch[p] = Before(p).batch
    BY <1>1 DEF LocalInv, AtMessages
  <1>3. /\ Sound(r) /\ r.batch = batch[p] /\ r.counter + Length(p) <= batch[p]
    BY <1>1, <1>2, InCall DEF Then, Ready
  <1>4. /\ m \in Nat /\ ctr[p] \in 0..Length(p) /\ Length(p) \in Nat
        /\ ctr[p] + m \in 0..Length(p)
    BY InMessages
  <1>5. r.counter \in Nat /\ batch[p] \in Nat
    BY <1>3 DEF Sound
  <1>6. PICK d \in Nat, u \in Nat, e \in Nat, b \in Nat :
          /\ d = r.counter /\ u = ctr[p] /\ e = m /\ b = batch[p]
          /\ d + u + e <= b
    <2>1. PICK d, u, e, b, n : /\ d = r.counter /\ u = ctr[p] /\ e = m /\ b = batch[p]
                               /\ n = Length(p)
      OBVIOUS
    <2>2. /\ d \in Nat /\ u \in Nat /\ e \in Nat /\ b \in Nat /\ n \in Nat
          /\ d + n <= b /\ u + e <= n
      BY <1>3, <1>4, <1>5, <2>1
    <2>3. d + u + e <= b
      BY <2>2
    <2> QED
      BY <2>1, <2>2, <2>3
  <1>7. d + u + e <= b
    BY <1>6
  <1>8. ASSUME NEW j \in 1..e
        PROVE  \E k \in d..(b - 1) : /\ k = d + u + j - 1 /\ row[j] = r.slot[k]
                                     /\ k \in (d + u)..(b - 1) /\ k < d + (u + e)
    <2>1. row[j] = r.slot[counter[p] + j - 1] /\ counter[p] = d + u
      BY <1>1, <1>2, <1>6 DEF SlotsRead
    <2>2. j \in Nat /\ j >= 1 /\ j <= e
      OBVIOUS
    <2>3. /\ d + u + j - 1 \in d..(b - 1) /\ d + u + j - 1 \in (d + u)..(b - 1)
          /\ d + u + j - 1 < d + (u + e)
      BY <1>7, <2>2
    <2> QED
      BY <2>1, <2>3
  <1>9. /\ \A j \in d..(b - 1) : r.slot[j] \in Nat /\ r.slot[j] < r.prg
        /\ \A j, k \in d..(b - 1) : j # k => r.slot[j] # r.slot[k]
    BY <1>3, <1>6 DEF Sound
  <1>10. ASSUME NEW j \in 1..e
         PROVE  row[j] \in Nat /\ row[j] < r.prg
    BY <1>8, <1>9
  <1>11. ASSUME NEW j \in 1..e
         PROVE  ~Gone(p, row[j])
    <2>1. (Then(p).counter + Used(p))..(batch[p] - 1) = (d + u)..(b - 1)
      BY <1>1, <1>6 DEF Used
    <2> QED
      BY <1>1, <1>8, <2>1 DEF Gone, Online
  <1>12. ASSUME NEW j \in 1..e, NEW k \in (d + (u + e))..(b - 1)
         PROVE  r.slot[k] # row[j]
    <2>1. k \in d..(b - 1) /\ k >= d + (u + e)
      OBVIOUS
    <2>2. PICK l \in d..(b - 1) : row[j] = r.slot[l] /\ l < d + (u + e)
      BY <1>8
    <2>3. k # l
      BY <2>1, <2>2
    <2> QED
      BY <1>9, <2>1, <2>2, <2>3
  <1>13. ASSUME NEW i \in 1..e, NEW j \in 1..e, row[i] = row[j]
         PROVE  i = j
    <2>1. PICK k \in d..(b - 1) : k = d + u + i - 1 /\ row[i] = r.slot[k]
      BY <1>8
    <2>2. PICK l \in d..(b - 1) : l = d + u + j - 1 /\ row[j] = r.slot[l]
      BY <1>8
    <2>3. k = l
      BY <1>9, <1>13, <2>1, <2>2
    <2>4. i \in Nat /\ j \in Nat
      OBVIOUS
    <2> QED
      BY <2>1, <2>2, <2>3, <2>4
  <1> QED
    BY <1>1, <1>4, <1>5, <1>6, <1>10, <1>11, <1>12, <1>13 DEF Fresh

\* Party p spends rows in this step: they are the elements of gs.
Spends(p, m, gs) ==
  /\ p \in Party /\ m \in Nat /\ gs = [j \in 1..m |-> gs[j]]
  /\ \A j \in 1..m : gs[j] \in Nat /\ ~Gone(p, gs[j]) /\ Gone(p, gs[j])'
  /\ \A i, j \in 1..m : gs[i] = gs[j] => i = j
  /\ spent' = spent \cup Use(p, gs)

LEMMA SpentMore ==
  ASSUME SpentInv, NEW p, NEW m, NEW gs, Spends(p, m, gs),
         \A r \in Party : \A g \in Nat : Gone(r, g) => Gone(r, g)'
  PROVE  SpentInv'
  <1>1. DOMAIN gs = 1..m
    BY DEF Spends
  <1>2. ASSUME NEW x \in spent'
        PROVE  \/ x \in spent
               \/ \E j \in 1..m : x = [by |-> p, row |-> gs[j], ot |-> <<at[p], ctr[p] + j>>]
    BY <1>1, <1>2 DEF Spends, Use
  <1>3. ASSUME NEW x \in spent'
        PROVE  x.by \in Party /\ x.row \in Nat /\ Gone(x.by, x.row)'
    <2>1. CASE x \in spent
      BY <2>1 DEF SpentInv
    <2>2. ASSUME NEW j \in 1..m, x = [by |-> p, row |-> gs[j], ot |-> <<at[p], ctr[p] + j>>]
          PROVE  x.by \in Party /\ x.row \in Nat /\ Gone(x.by, x.row)'
      <3>1. x.by = p /\ x.row = gs[j]
        BY <2>2
      <3> QED
        BY <3>1 DEF Spends
    <2> QED
      BY <1>2, <2>1, <2>2
  <1>4. ASSUME NEW x \in spent', NEW y \in spent', x.by = y.by, x.row = y.row
        PROVE  x.ot = y.ot
    <2>1. CASE x \in spent /\ y \in spent
      BY <1>4, <2>1 DEF SpentInv, OneTime
    <2>2. ASSUME NEW u, NEW v \in spent, u.by = v.by, u.row = v.row,
                 NEW j \in 1..m,
                 u = [by |-> p, row |-> gs[j], ot |-> <<at[p], ctr[p] + j>>]
          PROVE  FALSE
      <3>1. v.by = p /\ v.row = gs[j]
        BY <2>2
      <3> QED
        BY <3>1 DEF SpentInv, Spends
    <2>3. ASSUME NEW i \in 1..m, NEW j \in 1..m,
                 x = [by |-> p, row |-> gs[i], ot |-> <<at[p], ctr[p] + i>>],
                 y = [by |-> p, row |-> gs[j], ot |-> <<at[p], ctr[p] + j>>]
          PROVE  x.ot = y.ot
      <3>1. gs[i] = gs[j]
        BY <1>4, <2>3
      <3>2. i = j
        BY <3>1 DEF Spends
      <3> QED
        BY <2>3, <3>2
    <2> QED
      BY <1>2, <1>4, <2>1, <2>2, <2>3
  <1> QED
    BY <1>3, <1>4 DEF SpentInv, OneTime

LEMMA SpentSame ==
  ASSUME SpentInv, spent' = spent,
         \A r \in Party : \A g \in Nat : Gone(r, g) => Gone(r, g)'
  PROVE  SpentInv'
  BY DEF SpentInv, OneTime

------------------------------------------------------------------------------
(* The steps.                                                               *)

\* A party that does nothing.
LEMMA GoneFrame ==
  ASSUME ProgramInv, NEW p \in Party, LocalInv(p), program' = program,
         at'[p] = at[p], pc'[p] = pc[p], batch'[p] = batch[p], ctr'[p] = ctr[p]
  PROVE  \A g \in Nat : Gone(p, g) => Gone(p, g)'
  <1>1. /\ Before(p)' = Before(p) /\ Now(p)' = Now(p)
        /\ Then(p)' = Then(p) /\ Length(p)' = Length(p)
    BY SameCall
  <1>2. Used(p)' = Used(p) /\ Past(p)' = Past(p)
    BY <1>1 DEF Used, Past, Chunk
  <1> QED
    BY <1>1, <1>2 DEF Gone

\* Only the party that steps needs to be looked at.
LEMMA OneParty ==
  ASSUME IInv, NEW p \in Party, program' = program,
         \A o \in Party \ {p} : /\ at'[o] = at[o] /\ pc'[o] = pc[o]
                                /\ batch'[o] = batch[o] /\ ctr'[o] = ctr[o],
         \A g \in Nat : Gone(p, g) => Gone(p, g)'
  PROVE  \A r \in Party : \A g \in Nat : Gone(r, g) => Gone(r, g)'
  BY GoneFrame DEF IInv

LEMMA SpentReturn ==
  ASSUME IInv, SpentInv, NEW p \in Party, SetBatch(p) \/ Finish(p)
  PROVE  SpentInv'
  <1>1. Returning(p) /\ ProgramInv /\ LocalInv(p) /\ ControlTypes
    BY Return DEF IInv
  <1>2. \A g \in Nat : Gone(p, g) => Gone(p, g)'
    BY <1>1, GoneReturn
  <1>3. spent' = spent
    BY DEF SetBatch, Finish
  <1>4. /\ program' = program
        /\ \A o \in Party \ {p} : /\ at'[o] = at[o] /\ pc'[o] = pc[o]
                                  /\ batch'[o] = batch[o] /\ ctr'[o] = ctr[o]
    BY <1>1, ReturnFacts DEF Returning
  <1> QED
    BY <1>2, <1>3, <1>4, OneParty, SpentSame

LEMMA SpentBegin ==
  ASSUME IInv, SpentInv, NEW p \in Party, Begin(p)
  PROVE  SpentInv'
  <1>0. ProgramInv /\ LocalInv(p) /\ ControlTypes
    BY DEF IInv
  <1>1. /\ at[p] <= Len(program) /\ pc[p] = "call"
        /\ pc' = [pc EXCEPT ![p] = IF Pooled(p) /\ ~NeedsRefill(p) THEN "online" ELSE "extend"]
        /\ UNCHANGED <<program, at, batch, ctr, spent>>
    BY DEF Begin, Pending, Enter, callVars
  <1>2. /\ pc'[p] = IF Pooled(p) /\ ~NeedsRefill(p) THEN "online" ELSE "extend"
        /\ \A o \in Party \ {p} : pc'[o] = pc[o]
    BY <1>0, <1>1 DEF ControlTypes
  <1>3. ctr[p] = 0 /\ batch[p] \in Nat /\ Before(p).prg \in Nat
    BY <1>0, <1>1 DEF LocalInv, AtCall, Sound
  <1>4. CASE pc'[p] = "online"
    <2>1. UsesPool(Before(p), Now(p))
      BY <1>0, <1>1, <1>2, <1>4, InCall
    <2>2. \A g \in Nat : Gone(p, g) => Gone(p, g)'
      BY <1>0, <1>1, <1>3, <1>4, <2>1, GoneReady
    <2> QED
      BY <1>1, <1>2, <2>2, OneParty, SpentSame
  <1>5. CASE pc'[p] = "extend"
    <2>1. Past(p) = 0 /\ Past(p)' = 0
      BY <1>1, <1>5 DEF Past
    <2>2. \A g \in Nat : Gone(p, g) => Gone(p, g)'
      BY <1>1, <1>3, <1>5, <2>1, GoneLater DEF Online
    <2> QED
      BY <1>1, <1>2, <2>2, OneParty, SpentSame
  <1> QED
    BY <1>2, <1>4, <1>5

LEMMA SpentStore ==
  ASSUME IInv, SpentInv, NEW p \in Party, Store(p)
  PROVE  SpentInv'
  <1>0. ProgramInv /\ LocalInv(p) /\ ControlTypes
    BY DEF IInv
  <1>1. /\ pc[p] = "extend"
        /\ pc' = [pc EXCEPT ![p] = IF Pooled(p) THEN "online" ELSE "post"]
        /\ UNCHANGED <<program, at, batch, ctr, spent>>
    BY DEF Store, Enter, callVars
  <1>2. /\ pc'[p] = IF Pooled(p) THEN "online" ELSE "post"
        /\ \A o \in Party \ {p} : pc'[o] = pc[o]
    BY <1>0, <1>1 DEF ControlTypes
  <1>3. /\ ctr[p] = 0 /\ batch[p] \in Nat /\ Before(p).prg \in Nat
        /\ at[p] <= Len(program)
    BY <1>0, <1>1 DEF LocalInv, AtExtend, Sound
  <1>4. CASE pc'[p] = "online"
    <2>1. UsesPool(Before(p), Now(p))
      BY <1>0, <1>2, <1>3, <1>4, InCall
    <2>2. \A g \in Nat : Gone(p, g) => Gone(p, g)'
      BY <1>0, <1>1, <1>3, <1>4, <2>1, GoneReady
    <2> QED
      BY <1>1, <1>2, <2>2, OneParty, SpentSame
  <1>5. CASE pc'[p] = "post"
    <2>1. Past(p) = 0 /\ Past(p)' = 0
      BY <1>1, <1>3, <1>5 DEF Past
    <2>2. \A g \in Nat : Gone(p, g) => Gone(p, g)'
      BY <1>1, <1>3, <1>5, <2>1, GoneLater DEF Online
    <2> QED
      BY <1>1, <1>2, <2>2, OneParty, SpentSame
  <1> QED
    BY <1>2, <1>4, <1>5

\* Seeding, a block of an extension, and no step at all.
LEMMA SpentQuiet ==
  ASSUME IInv, SpentInv, UNCHANGED <<program, at, pc, batch, ctr, spent>>
  PROVE  SpentInv'
  <1>1. \A r \in Party : \A g \in Nat : Gone(r, g) => Gone(r, g)'
    BY GoneFrame DEF IInv
  <1> QED
    BY <1>1, SpentSame

LEMMA SpentLearn ==
  ASSUME IInv, SpentInv, Learn
  PROVE  SpentInv'
  <1>0. /\ ProgramInv /\ LocalInv(BOB) /\ ControlTypes
        /\ ALICE \in Party /\ BOB \in Party /\ ALICE # BOB
    BY DEF IInv, Party, ALICE, BOB
  <1>1. PICK m : /\ m = Chunk(BOB, OnlineChunk)
                 /\ pc[BOB] = "asked" /\ pc' = [pc EXCEPT ![BOB] = "online"]
                 /\ ctr' = [ctr EXCEPT ![BOB] = @ + m]
                 /\ UNCHANGED <<program, at, batch, spent>>
    BY DEF Learn, Enter, callVars
  <1>2. /\ pc'[BOB] = "online" /\ ctr'[BOB] = ctr[BOB] + m
        /\ \A o \in Party \ {BOB} : pc'[o] = pc[o] /\ ctr'[o] = ctr[o]
    BY <1>0, <1>1 DEF ControlTypes
  <1>3. /\ m \in Nat /\ ctr[BOB] \in Nat /\ batch[BOB] \in Nat
        /\ Then(BOB).counter \in Nat
    <2>1. at[BOB] <= Len(program) /\ m \in Nat /\ ctr[BOB] \in Nat /\ batch[BOB] \in Nat
      BY <1>0, <1>1, InMessages DEF ControlTypes
    <2> QED
      BY <1>0, <2>1, InCall DEF Sound
  <1>4. Used(BOB) = ctr[BOB] + m /\ Used(BOB)' = ctr[BOB] + m
    BY <1>1, <1>2 DEF Used
  <1>5. Used(BOB) \in Nat /\ Used(BOB)' \in Nat /\ Used(BOB)' >= Used(BOB)
    BY <1>3, <1>4
  <1>6. \A g \in Nat : Gone(BOB, g) => Gone(BOB, g)'
    BY <1>0, <1>1, <1>2, <1>3, <1>5, GoneLater DEF Online
  <1> QED
    BY <1>0, <1>1, <1>2, <1>6, OneParty, SpentSame

LEMMA SpentRecvPost ==
  ASSUME IInv, SpentInv, RecvPost
  PROVE  SpentInv'
  <1>0. /\ ProgramInv /\ LocalInv(BOB) /\ ControlTypes
        /\ ALICE \in Party /\ BOB \in Party /\ ALICE # BOB
    BY DEF IInv, Party, ALICE, BOB
  <1>1. PICK m : /\ m = Chunk(BOB, RecvChunk) /\ pc[BOB] = "post"
                 /\ ctr' = [ctr EXCEPT ![BOB] = @ + m]
                 /\ UNCHANGED <<program, at, pc, batch, spent>>
    BY DEF RecvPost, callVars, poolVars
  <1>2. /\ ctr'[BOB] = ctr[BOB] + m /\ \A o \in Party \ {BOB} : ctr'[o] = ctr[o]
    BY <1>0, <1>1 DEF ControlTypes
  <1>3. /\ m \in Nat /\ ctr[BOB] \in Nat /\ batch[BOB] \in Nat
        /\ Before(BOB).prg \in Nat
    BY <1>0, <1>1, InMessages DEF ControlTypes, LocalInv, Sound
  <1>4. Past(BOB) = ctr[BOB] /\ Past(BOB)' = ctr[BOB] + m
    BY <1>1, <1>2 DEF Past
  <1>5. Past(BOB) \in Nat /\ Past(BOB)' \in Nat /\ Past(BOB)' >= Past(BOB)
    BY <1>3, <1>4
  <1>6. \A g \in Nat : Gone(BOB, g) => Gone(BOB, g)'
    BY <1>0, <1>1, <1>3, <1>5, GoneLater DEF Online
  <1> QED
    BY <1>0, <1>1, <1>2, <1>6, OneParty, SpentSame

LEMMA SpentAsk ==
  ASSUME IInv, SpentInv, Ask
  PROVE  SpentInv'
  <1>0. /\ ProgramInv /\ LocalInv(BOB) /\ ControlTypes
        /\ ALICE \in Party /\ BOB \in Party /\ ALICE # BOB
    BY DEF IInv, Party, ALICE, BOB
  <1>1. PICK m, gs :
          /\ m = Chunk(BOB, OnlineChunk)
          /\ gs = [j \in 1..m |-> t[counter[BOB] + j - 1][1]]
          /\ pc[BOB] = "online" /\ ctr[BOB] < Length(BOB)
          /\ pc' = [pc EXCEPT ![BOB] = "asked"]
          /\ spent' = spent \cup Use(BOB, gs)
          /\ UNCHANGED <<program, at, batch, ctr>>
    BY DEF Ask, Enter, callVars, poolVars
  <1>2. pc'[BOB] = "asked" /\ \A o \in Party \ {BOB} : pc'[o] = pc[o]
    BY <1>0, <1>1 DEF ControlTypes
  <1>3. PICK row : row = SlotsRead(BOB, m) /\ Fresh(BOB, m, row)
    BY <1>0, <1>1, PoolRows
  <1>4. /\ m \in Nat /\ ctr[BOB] \in Nat /\ Then(BOB).counter \in Nat /\ batch[BOB] \in Nat
        /\ \A j \in 1..m : /\ row[j] \in Nat /\ ~Gone(BOB, row[j])
                           /\ row[j] < Then(BOB).prg
                           /\ \A k \in (Then(BOB).counter + (ctr[BOB] + m))..(batch[BOB] - 1) :
                                Then(BOB).slot[k] # row[j]
        /\ \A i, j \in 1..m : row[i] = row[j] => i = j
    BY <1>3 DEF Fresh
  <1>5. gs = row
    <2>1. ASSUME NEW j \in 1..m
          PROVE  t[counter[BOB] + j - 1][1] = Then(BOB).slot[counter[BOB] + j - 1]
      <3>1. /\ UsesPool(Before(BOB), Now(BOB)) /\ Slotted(BOB, Then(BOB).slot)
            /\ counter[BOB] = Then(BOB).counter + ctr[BOB] /\ at[BOB] <= Len(program)
        BY <1>0, <1>1 DEF LocalInv, AtMessages
      <3>2. /\ Then(BOB).counter + Length(BOB) <= batch[BOB]
            /\ ctr[BOB] + m <= Length(BOB) /\ Length(BOB) \in Nat
        BY <1>0, <1>1, <3>1, InCall, InMessages
      <3>3. PICK c, u, n, b : /\ c = Then(BOB).counter /\ u = ctr[BOB]
                              /\ n = Length(BOB) /\ b = batch[BOB]
        OBVIOUS
      <3>4. /\ c \in Nat /\ u \in Nat /\ n \in Nat /\ b \in Nat /\ c + n <= b
            /\ u + m <= n /\ m \in Nat /\ j \in Nat /\ j >= 1 /\ j <= m
        BY <1>4, <3>2, <3>3
      <3>5. c + u + j - 1 \in 0..(b - 1)
        BY <3>4
      <3>6. counter[BOB] + j - 1 \in 0..(batch[BOB] - 1)
        BY <3>1, <3>3, <3>5
      <3> QED
        BY <1>0, <3>1, <3>6 DEF Slotted
    <2> QED
      BY <1>1, <1>3, <2>1 DEF SlotsRead
  <1>6. Then(BOB)' = Then(BOB) /\ Length(BOB)' = Length(BOB)
    BY <1>1, SameCall
  <1>7. Used(BOB) = ctr[BOB] /\ Used(BOB)' = ctr[BOB] + m
    BY <1>1, <1>2, <1>6 DEF Used, Chunk
  <1>8. ASSUME NEW j \in 1..m
        PROVE  Gone(BOB, gs[j])'
    BY <1>1, <1>2, <1>4, <1>5, <1>6, <1>7 DEF Gone, Online
  <1>9. \A g \in Nat : Gone(BOB, g) => Gone(BOB, g)'
    <2>1. Used(BOB) \in Nat /\ Used(BOB)' \in Nat /\ Used(BOB)' >= Used(BOB)
      BY <1>4, <1>7
    <2> QED
      BY <1>0, <1>1, <1>2, <1>4, <2>1, GoneLater DEF Online
  <1>10. \A r \in Party : \A g \in Nat : Gone(r, g) => Gone(r, g)'
    BY <1>0, <1>1, <1>2, <1>9, OneParty
  <1>11. Spends(BOB, m, gs)
    BY <1>0, <1>1, <1>4, <1>5, <1>8 DEF Spends
  <1> QED
    BY <1>10, <1>11, SpentMore

LEMMA SpentAnswer ==
  ASSUME IInv, SpentInv, Answer
  PROVE  SpentInv'
  <1>0. /\ ProgramInv /\ LocalInv(ALICE) /\ ControlTypes
        /\ ALICE \in Party /\ BOB \in Party /\ ALICE # BOB
    BY DEF IInv, Party, ALICE, BOB
  <1>1. PICK m, gs :
          /\ m = Chunk(ALICE, OnlineChunk)
          /\ gs = [j \in 1..m |-> q[counter[ALICE] + j - 1]]
          /\ pc[ALICE] = "online" /\ ctr[ALICE] < Length(ALICE)
          /\ ctr' = [ctr EXCEPT ![ALICE] = @ + m]
          /\ spent' = spent \cup Use(ALICE, gs)
          /\ UNCHANGED <<program, at, pc, batch>>
    BY DEF Answer, callVars
  <1>2. ctr'[ALICE] = ctr[ALICE] + m /\ \A o \in Party \ {ALICE} : ctr'[o] = ctr[o]
    BY <1>0, <1>1 DEF ControlTypes
  <1>3. PICK row : row = SlotsRead(ALICE, m) /\ Fresh(ALICE, m, row)
    BY <1>0, <1>1, PoolRows
  <1>4. /\ m \in Nat /\ ctr[ALICE] \in Nat /\ Then(ALICE).counter \in Nat /\ batch[ALICE] \in Nat
        /\ \A j \in 1..m : /\ row[j] \in Nat /\ ~Gone(ALICE, row[j])
                           /\ row[j] < Then(ALICE).prg
                           /\ \A k \in (Then(ALICE).counter + (ctr[ALICE] + m))..(batch[ALICE] - 1) :
                                Then(ALICE).slot[k] # row[j]
        /\ \A i, j \in 1..m : row[i] = row[j] => i = j
    BY <1>3 DEF Fresh
  <1>5. gs = row
    <2>1. q = Then(ALICE).slot
      BY <1>0, <1>1 DEF LocalInv, AtMessages, Slotted
    <2> QED
      BY <1>1, <1>3, <2>1 DEF SlotsRead
  <1>6. Then(ALICE)' = Then(ALICE)
    BY <1>1, SameCall
  <1>7. Used(ALICE) = ctr[ALICE] /\ Used(ALICE)' = ctr[ALICE] + m
    BY <1>1, <1>2 DEF Used
  <1>8. ASSUME NEW j \in 1..m
        PROVE  Gone(ALICE, gs[j])'
    <2>1. /\ pc'[ALICE] = "online" /\ batch'[ALICE] = batch[ALICE]
          /\ Then(ALICE)' = Then(ALICE) /\ Used(ALICE)' = ctr[ALICE] + m
      BY <1>1, <1>6, <1>7
    <2>2. /\ row[j] < Then(ALICE).prg
          /\ \A k \in (Then(ALICE).counter + (ctr[ALICE] + m))..(batch[ALICE] - 1) :
               Then(ALICE).slot[k] # row[j]
      BY <1>4
    <2> QED
      BY <1>5, <2>1, <2>2 DEF Gone, Online
  <1>9. \A g \in Nat : Gone(ALICE, g) => Gone(ALICE, g)'
    <2>1. Used(ALICE) \in Nat /\ Used(ALICE)' \in Nat /\ Used(ALICE)' >= Used(ALICE)
      BY <1>4, <1>7
    <2> QED
      BY <1>0, <1>1, <1>4, <2>1, GoneLater DEF Online
  <1>10. \A r \in Party : \A g \in Nat : Gone(r, g) => Gone(r, g)'
    BY <1>0, <1>1, <1>2, <1>9, OneParty
  <1>11. Spends(ALICE, m, gs)
    BY <1>0, <1>1, <1>4, <1>5, <1>8 DEF Spends
  <1> QED
    BY <1>10, <1>11, SpentMore

\* A direct call spends its rows in the order in which they were drawn.
LEMMA SpentSendPost ==
  ASSUME IInv, SpentInv, SendPost
  PROVE  SpentInv'
  <1>0. /\ ProgramInv /\ LocalInv(ALICE) /\ ControlTypes
        /\ ALICE \in Party /\ BOB \in Party /\ ALICE # BOB
    BY DEF IInv, Party, ALICE, BOB
  <1>1. PICK m, gs :
          /\ m = Chunk(ALICE, SendChunk)
          /\ gs = [j \in 1..m |-> rows[ALICE][ctr[ALICE] + j]]
          /\ pc[ALICE] = "post" /\ ctr[ALICE] < Length(ALICE)
          /\ ctr' = [ctr EXCEPT ![ALICE] = @ + m]
          /\ spent' = spent \cup Use(ALICE, gs)
          /\ UNCHANGED <<program, at, pc, batch>>
    BY DEF SendPost, callVars, poolVars
  <1>2. ctr'[ALICE] = ctr[ALICE] + m /\ \A o \in Party \ {ALICE} : ctr'[o] = ctr[o]
    BY <1>0, <1>1 DEF ControlTypes
  <1>3. PICK s, c : s = Before(ALICE) /\ c = Now(ALICE)
    OBVIOUS
  <1>4. /\ Sound(s) /\ batch[ALICE] = s.batch /\ at[ALICE] <= Len(program)
        /\ rows[ALICE] = RowsFrom(s.prg, PaddedIn(s, c))
        /\ c.op # "batch" /\ ~UsesPool(s, c)
    BY <1>0, <1>1, <1>3 DEF LocalInv, AtMessages
  <1>5. PICK u \in Nat, g \in Nat, e \in Nat :
          /\ u = ctr[ALICE] /\ g = s.prg /\ e = PaddedIn(s, c) /\ m \in Nat
          /\ u + m <= e /\ rows[ALICE] = RowsFrom(g, e)
    <2>1. /\ m \in Nat /\ ctr[ALICE] \in Nat /\ ctr[ALICE] + m <= Length(ALICE)
          /\ Length(ALICE) \in Nat
      BY <1>0, <1>1, InMessages DEF ControlTypes
    <2>2. /\ c.op \in {"got", "block", "batch"} /\ c.n \in Nat
          /\ c.op = "block" => c.n > 0
          /\ Length(ALICE) = c.n
      BY <1>0, <1>3, <1>4, InCall
    <2>3. PaddedIn(s, c) \in Nat /\ PaddedIn(s, c) >= c.n
      BY <1>4, <2>2, ExtendFacts
    <2>4. s.prg \in Nat
      BY <1>4 DEF Sound
    <2>5. PICK n, x, y : n = c.n /\ x = PaddedIn(s, c) /\ y = ctr[ALICE]
      OBVIOUS
    <2>6. y + m <= x
      BY <2>1, <2>2, <2>3, <2>5
    <2> QED
      BY <1>4, <2>1, <2>3, <2>4, <2>5, <2>6
  <1>6. ASSUME NEW j \in 1..m
        PROVE  gs[j] = g + (u + j) - 1 /\ gs[j] \in Nat /\ gs[j] >= g + u /\ gs[j] < g + (u + m)
    <2>1. /\ j \in Nat /\ j >= 1 /\ j <= m /\ m \in Nat
      BY <1>5
    <2>2. u + j \in 1..e
      BY <1>5, <2>1
    <2>3. gs[j] = rows[ALICE][u + j]
      BY <1>1, <1>5
    <2>4. gs[j] = g + (u + j) - 1
      BY <1>5, <2>2, <2>3 DEF RowsFrom
    <2>5. /\ g + (u + j) - 1 \in Nat /\ g + (u + j) - 1 >= g + u
          /\ g + (u + j) - 1 < g + (u + m)
      BY <2>1
    <2> QED
      BY <2>4, <2>5
  <1>7. ASSUME NEW i \in 1..m, NEW j \in 1..m, gs[i] = gs[j]
        PROVE  i = j
    <2>1. g + (u + i) - 1 = g + (u + j) - 1
      BY <1>6, <1>7
    <2>2. i \in Nat /\ j \in Nat
      BY <1>5
    <2> QED
      BY <2>1, <2>2
  <1>8. Before(ALICE)' = Before(ALICE)
    BY <1>1, SameCall
  <1>9. Past(ALICE) = u /\ Past(ALICE)' = u + m
    BY <1>1, <1>2, <1>5 DEF Past
  <1>10. \A j \in s.counter..(s.batch - 1) : s.slot[j] \in Nat /\ s.slot[j] < g
    BY <1>4, <1>5 DEF Sound
  <1>11. ASSUME NEW j \in 1..m
         PROVE  ~Gone(ALICE, gs[j]) /\ Gone(ALICE, gs[j])'
    <2>1. PICK x \in Nat : x = gs[j] /\ x >= g + u /\ x < g + (u + m)
      BY <1>6
    <2>2. ~(x < g + u)
      BY <2>1
    <2>3. \A k \in s.counter..(s.batch - 1) : s.slot[k] # x
      <3>1. x >= g
        BY <2>1
      <3> QED
        BY <1>10, <2>1, <3>1
    <2>4. ~Gone(ALICE, x)
      BY <1>1, <1>3, <1>5, <1>9, <2>2 DEF Gone, Online
    <2>5. Gone(ALICE, x)'
      BY <1>1, <1>3, <1>4, <1>5, <1>8, <1>9, <2>1, <2>3 DEF Gone, Online
    <2> QED
      BY <2>1, <2>4, <2>5
  <1>12. \A h \in Nat : Gone(ALICE, h) => Gone(ALICE, h)'
    <2>1. Past(ALICE) \in Nat /\ Past(ALICE)' \in Nat /\ Past(ALICE)' >= Past(ALICE)
      BY <1>5, <1>9
    <2>2. batch[ALICE] \in Nat /\ Before(ALICE).prg \in Nat
      BY <1>0, <1>3, <1>5 DEF ControlTypes
    <2> QED
      BY <1>0, <1>1, <2>1, <2>2, GoneLater DEF Online
  <1>13. \A r \in Party : \A h \in Nat : Gone(r, h) => Gone(r, h)'
    BY <1>0, <1>1, <1>2, <1>12, OneParty
  <1>14. Spends(ALICE, m, gs)
    BY <1>0, <1>1, <1>5, <1>6, <1>7, <1>11 DEF Spends
  <1> QED
    BY <1>13, <1>14, SpentMore

LEMMA SpentNext ==
  ASSUME IInv, SpentInv, [Next]_vars
  PROVE  SpentInv'
  <1>0. ALICE \in Party /\ BOB \in Party
    BY DEF Party
  <1>1. CASE \E p \in Party : SetBatch(p) \/ Finish(p)
    BY <1>1, SpentReturn
  <1>2. CASE \E p \in Party : Begin(p)
    BY <1>2, SpentBegin
  <1>3. CASE \E p \in Party : Store(p)
    BY <1>3, SpentStore
  <1>4. CASE SeedSender \/ SeedReceiver \/ ExtendSender \/ ExtendReceiver
    <2>1. UNCHANGED <<program, at, pc, batch, ctr, spent>>
      BY <1>4 DEF SeedSender, SeedReceiver, ExtendSender, ExtendReceiver,
                  callVars, poolVars
    <2> QED
      BY <2>1, SpentQuiet
  <1>5. CASE Answer
    BY <1>5, SpentAnswer
  <1>6. CASE SendPost
    BY <1>6, SpentSendPost
  <1>7. CASE Ask
    BY <1>7, SpentAsk
  <1>8. CASE Learn
    BY <1>8, SpentLearn
  <1>9. CASE RecvPost
    BY <1>9, SpentRecvPost
  <1>10. CASE UNCHANGED vars
    BY <1>10, SpentQuiet DEF vars, callVars, poolVars
  <1> QED
    BY <1>0, <1>1, <1>2, <1>3, <1>4, <1>5, <1>6, <1>7, <1>8, <1>9, <1>10
       DEF Next, Sender, Receiver

\* A row is spent on one OT: no pad of the sender hides the messages of two
\* OTs and no random choice of the receiver two of its choices, over any
\* sequence of calls, refills of part of the pool and direct calls
\* (got_send_online, got_recv_online, preprocess).
THEOREM RowsSpentOnce ==
  Spec => []OneTime
  <1>1. Init => SpentInv
    BY DEF Init, SpentInv, OneTime
  <1>2. SpentInv => OneTime
    BY DEF SpentInv
  <1> QED
    BY <1>1, <1>2, SpentNext, Invariant, PTL DEF Spec

------------------------------------------------------------------------------
(* What the receiver obtains.                                               *)

\* The correction turns the random choice into the choice: neg_mod, and the
\* sender's index (k + a) mod N.
LEMMA Corrected ==
  ASSUME NEW off \in Choice, NEW r \in Choice
  PROVE  PadIndex(r, Correction(off, r)) = off
  <1>1. N \in Nat /\ N > 0 /\ off \in Nat /\ r \in Nat /\ off < N /\ r < N
    BY OTAssumption DEF Choice
  <1>2. CASE off >= r
    <2>1. PICK d \in Nat : d = off - r /\ d < N /\ r + d = off
      BY <1>1, <1>2
    <2>2. d = N * 0 + d /\ off = N * 0 + off
      BY <1>1
    <2>3. d % N = d /\ off % N = off
      BY <1>1, <2>1, <2>2, DivUnique
    <2> QED
      BY <2>1, <2>3 DEF PadIndex, Correction
  <1>3. CASE off < r
    <2>1. PICK x \in Int : x = off - r /\ x < 0 /\ x + N > 0
      BY <1>1, <1>3
    <2>2. x % N = x + N
      <3>1. PICK e \in Int, s \in Int : e = x \div N /\ s = x % N /\ x = N * e + s
        BY <1>1
      <3>2. s >= 0 /\ s < N
        BY <1>1, <3>1
      <3>3. PICK y \in Int : y = N * e /\ x = y + s
        BY <1>1, <3>1
      <3>4. ~(e >= 0)
        <4>1. ASSUME e >= 0
              PROVE  N * e >= 0
          BY <1>1, <3>1, <4>1
        <4> QED
          BY <2>1, <3>2, <3>3, <4>1
      <3>5. ~(e <= -2)
        <4>1. ASSUME e <= -2
              PROVE  N * e <= N * (-2)
          <5>1. PICK k \in Nat : e = -2 - k
            <6>1. -2 - e \in Nat /\ e = -2 - (-2 - e)
              BY <3>1, <4>1
            <6> QED
              BY <6>1
          <5>2. N * e = N * (-2) - N * k /\ N * k >= 0
            BY <1>1, <5>1
          <5> QED
            BY <1>1, <5>2
        <4>2. N * (-2) = -N - N
          BY <1>1
        <4> QED
          BY <1>1, <2>1, <3>2, <3>3, <4>1, <4>2
      <3>6. e = -1
        BY <3>1, <3>4, <3>5
      <3>7. N * e = -N
        BY <1>1, <3>6
      <3> QED
        BY <1>1, <2>1, <3>1, <3>3, <3>7
    <2>3. r + (x + N) = off + N /\ off + N \in Nat /\ off + N = N * 1 + off
      BY <1>1, <2>1
    <2>4. (off + N) % N = off
      BY <1>1, <2>3, DivUnique
    <2> QED
      BY <2>1, <2>2, <2>3, <2>4 DEF PadIndex, Correction
  <1> QED
    BY <1>1, <1>2, <1>3

\* A direct call needs no correction.
LEMMA Uncorrected ==
  ASSUME NEW r \in Choice
  PROVE  PadIndex(r, 0) = r
  <1>1. N \in Nat /\ N > 0 /\ r \in Nat /\ r < N /\ r + 0 = r /\ r = N * 0 + r
    BY OTAssumption DEF Choice
  <1>2. r % N = r
    BY <1>1, DivUnique
  <1> QED
    BY <1>1, <1>2 DEF PadIndex

\* The receiver's choices.
LEMMA Chosen ==
  ASSUME ProgramInv, NEW c \in 1..Len(program)
  PROVE  /\ program[c].op # "batch" =>
              DOMAIN choice[c] = 1..program[c].n
              /\ \A o \in 1..program[c].n : choice[c][o] \in Choice
         /\ program[c].op = "batch" => choice[c] = <<>>
  <1>1. /\ choice \in Seq(Seq(Choice)) /\ Len(choice) = Len(program)
        /\ Len(choice[c]) = IF program[c].op = "batch" THEN 0 ELSE program[c].n
    <2>1. c \in DOMAIN program
      BY DEF ProgramInv
    <2> QED
      BY <2>1 DEF ProgramInv
  <1>2. choice[c] \in Seq(Choice)
    BY <1>1
  <1>3. DOMAIN choice[c] = 1..Len(choice[c]) /\ \A o \in 1..Len(choice[c]) : choice[c][o] \in Choice
    BY <1>2
  <1>4. Len(choice[c]) = 0 => choice[c] = <<>>
    BY <1>2, EmptySeq
  <1> QED
    BY <1>1, <1>3, <1>4

\* The first n messages of call c.
Obtained(c, n) == [i \in 1..n |-> Message(c, i, choice[c][i])]

LEMMA MoreObtained ==
  ASSUME NEW c, NEW b \in Nat, NEW m \in Nat,
         NEW u, u = Obtained(c, b),
         NEW v, v = [j \in 1..m |-> v[j]],
         \A j \in 1..m : v[j] = Message(c, b + j, choice[c][b + j])
  PROVE  Joined(u, v) = Obtained(c, b + m)
  <1>1. u = [i \in 1..b |-> u[i]]
    BY DEF Obtained
  <1>2. u \o v = [i \in 1..(b + m) |-> IF i <= b THEN u[i] ELSE v[i - b]]
    BY <1>1, Glue
  <1>3. ASSUME NEW i \in 1..(b + m)
        PROVE  (IF i <= b THEN u[i] ELSE v[i - b]) = Message(c, i, choice[c][i])
    <2>1. CASE i <= b
      <3>1. i \in 1..b
        BY <2>1
      <3> QED
        BY <2>1, <3>1 DEF Obtained
    <2>2. CASE ~(i <= b)
      <3>1. PICK j \in 1..m : j = i - b /\ b + j = i
        BY <2>2
      <3> QED
        BY <2>2, <3>1
    <2> QED
      BY <2>1, <2>2
  <1> QED
    BY <1>2, <1>3 DEF Joined, Obtained

\* What the receiver has: the messages it chose, up to its place in its call.
DataInv == data = Obtained(at[BOB], ctr[BOB])
ResultsInv == results = [c \in 1..(at[BOB] - 1) |-> Ideal!Chosen(c)]

\* The messages the receiver reads are the OTs from its place on.
LEMMA Delivered ==
  ASSUME IInv, NEW m \in Nat, Arrived(BOB, "Y", m)
  PROVE  ctr[BOB] \in Nat /\ \A j \in 1..m : wire[BOB][j] = Reply(ctr[BOB] + j)
  <1>0. ProgramInv /\ ControlTypes /\ (\A p \in Party : LocalInv(p)) /\ DownInv
    BY DEF IInv
  <1>1. PICK b, d : /\ b = ctr[BOB] /\ b \in Nat /\ d \in Nat /\ Answered = b + d
                    /\ wire[BOB] = [i \in 1..d |-> wire[BOB][i]]
                    /\ \A i \in 1..d : wire[BOB][i] = Reply(b + i)
                    /\ Len(wire[BOB]) = d /\ (wire[BOB] = <<>> <=> d = 0)
                    /\ d > 0 =>
                         \/ pc[BOB] = "asked" /\ d = Chunk(BOB, OnlineChunk)
                         \/ pc[BOB] \in {"extend", "post"} /\ ~UsesPool(Before(BOB), Now(BOB))
    BY <1>0, DownFacts
  <1>2. d >= m
    BY <1>1 DEF Arrived
  <1>3. 1..m \subseteq 1..d
    BY <1>1, <1>2
  <1> QED
    BY <1>1, <1>3

\* The pad that hides an OT of a pool's call is of the row of its slot, which
\* the receiver has for its random choice.
LEMMA UnmaskPooled ==
  ASSUME IInv, pc[BOB] = "asked", NEW m, m = Chunk(BOB, OnlineChunk),
         NEW j \in 1..m
  PROVE  Unmasked(Reply(ctr[BOB] + j), t[counter[BOB] + j - 1],
                  choice[at[BOB]][ctr[BOB] + j])
           = Message(at[BOB], ctr[BOB] + j, choice[at[BOB]][ctr[BOB] + j])
  <1>0. ProgramInv /\ LocalInv(BOB) /\ ControlTypes /\ PadsInv /\ BOB \in Party
        /\ BOB # ALICE
    BY DEF IInv, Party, ALICE, BOB
  <1>1. /\ UsesPool(Before(BOB), Now(BOB)) /\ Slotted(BOB, Then(BOB).slot)
        /\ counter[BOB] = Then(BOB).counter + ctr[BOB] /\ at[BOB] <= Len(program)
        /\ Now(BOB).op # "batch"
    BY <1>0 DEF LocalInv, AtMessages
  <1>2. /\ Then(BOB).counter + Length(BOB) <= batch[BOB] /\ Sound(Then(BOB))
        /\ Then(BOB).batch = batch[BOB] /\ at[BOB] \in 1..Len(program)
        /\ Length(BOB) = Now(BOB).n
    BY <1>0, <1>1, InCall DEF Then, Ready, LocalInv
  <1>3. /\ ctr[BOB] + m <= Length(BOB) /\ Length(BOB) \in Nat /\ m \in Nat
        /\ ctr[BOB] \in 0..Length(BOB)
    BY <1>0, InMessages
  <1>4. PICK c, u, n, b : /\ c = Then(BOB).counter /\ u = ctr[BOB]
                          /\ n = Length(BOB) /\ b = batch[BOB]
    OBVIOUS
  <1>5. /\ c \in Nat /\ u \in Nat /\ n \in Nat /\ b \in Nat /\ c + n <= b
        /\ u + m <= n /\ j \in Nat /\ j >= 1 /\ j <= m
    BY <1>0, <1>2, <1>3, <1>4 DEF Sound, ControlTypes
  <1>6. PICK x \in 0..(b - 1) : /\ x = c + (u + j) - 1 /\ x = (c + u) + j - 1
                                /\ x \in c..(b - 1) /\ x \in (c + u)..(b - 1)
    <2>1. /\ c + (u + j) - 1 \in 0..(b - 1) /\ c + (u + j) - 1 = (c + u) + j - 1
          /\ c + (u + j) - 1 \in c..(b - 1) /\ c + (u + j) - 1 \in (c + u)..(b - 1)
      BY <1>3, <1>5
    <2> QED
      BY <2>1
  <1>7. u + j \in 1..n
    BY <1>3, <1>5
  <1>8. PICK off \in Choice : off = choice[at[BOB]][u + j]
    BY <1>0, <1>1, <1>2, <1>4, <1>7, Chosen DEF Now
  <1>9. PICK r \in Choice : r = r_off[x]
    BY <1>0, <1>4, <1>6 DEF PadsInv
  <1>10. PICK g \in Nat : g = Then(BOB).slot[x]
    BY <1>2, <1>4, <1>6 DEF Sound
  <1>11. t[x] = <<g, r>>
    <2>1. t[x][1] = g
      BY <1>0, <1>1, <1>4, <1>6, <1>10 DEF Slotted
    <2>2. t[x][2] = r
      BY <1>0, <1>1, <1>4, <1>6, <1>9 DEF PadsInv
    <2>3. t[x] \in Row \X Choice
      BY <1>0, <1>4, <1>6 DEF PadsInv
    <2> QED
      BY <2>1, <2>2, <2>3
  <1>12. PICK y : y = Reply(u + j)
    OBVIOUS
  <1>13. /\ y.pad = [k \in Choice |-> <<g, PadIndex(k, Correction(r, off))>>]
         /\ y.msg = [k \in Choice |-> Message(at[BOB], u + j, k)]
    <2>1. SlotFor(u + j) = x
      BY <1>4, <1>6 DEF SlotFor
    <2>2. CorrectionFor(u + j) = Correction(r, off)
      BY <1>8, <1>9, <2>1 DEF CorrectionFor
    <2> QED
      BY <1>1, <1>10, <1>12, <2>1, <2>2 DEF Reply
  <1>14. y.pad[off] = <<g, r>>
    BY <1>13, Corrected
  <1>15. t[x] # NoPad
    BY <1>11 DEF NoPad, NoRow
  <1>16. Unmasked(y, t[x], off) = Message(at[BOB], u + j, off)
    BY <1>11, <1>13, <1>14, <1>15 DEF Unmasked
  <1>17. counter[BOB] + j - 1 = x
    BY <1>1, <1>4, <1>6
  <1> QED
    BY <1>4, <1>8, <1>12, <1>16, <1>17

\* And that of a direct call is of the row that the receiver drew for it.
LEMMA UnmaskDirect ==
  ASSUME IInv, pc[BOB] = "post", NEW m, m = Chunk(BOB, RecvChunk),
         NEW j \in 1..m
  PROVE  Unmasked(Reply(ctr[BOB] + j),
                  <<rows[BOB][ctr[BOB] + j], choice[at[BOB]][ctr[BOB] + j]>>,
                  choice[at[BOB]][ctr[BOB] + j])
           = Message(at[BOB], ctr[BOB] + j, choice[at[BOB]][ctr[BOB] + j])
  <1>0. ProgramInv /\ LocalInv(BOB) /\ BOB \in Party
    BY DEF IInv, Party
  <1>1. PICK s, c, u : s = Before(BOB) /\ c = Now(BOB) /\ u = ctr[BOB]
    OBVIOUS
  <1>2. /\ ~UsesPool(s, c) /\ c.op # "batch" /\ at[BOB] <= Len(program)
        /\ rows[BOB] = RowsFrom(s.prg, PaddedIn(s, c)) /\ Sound(s)
    BY <1>0, <1>1 DEF LocalInv, AtMessages
  <1>3. /\ at[BOB] \in 1..Len(program) /\ Length(BOB) = c.n
        /\ c.op \in {"got", "block", "batch"} /\ c.n \in Nat
        /\ c.op = "block" => c.n > 0
    BY <1>0, <1>1, <1>2, InCall
  <1>4. /\ u + m <= c.n /\ m \in Nat /\ u \in 0..c.n
    <2>1. /\ ctr[BOB] \in 0..Length(BOB) /\ Chunk(BOB, RecvChunk) \in Nat
          /\ ctr[BOB] + Chunk(BOB, RecvChunk) \in 0..Length(BOB)
      BY <1>0, InMessages
    <2> QED
      BY <1>1, <1>3, <2>1
  <1>5. PICK n \in Nat, e \in Nat, g \in Nat :
          n = c.n /\ e = PaddedIn(s, c) /\ g = s.prg /\ n <= e
    BY <1>2, <1>3, ExtendFacts DEF Sound
  <1>6. u + j \in 1..n /\ u + j \in 1..e
    <2>1. u \in Nat /\ j \in Nat /\ j >= 1 /\ j <= m /\ m \in Nat /\ u + m <= n
      BY <1>4, <1>5
    <2> QED
      BY <1>5, <2>1
  <1>7. PICK r \in Choice : r = choice[at[BOB]][u + j]
    BY <1>0, <1>1, <1>2, <1>3, <1>5, <1>6, Chosen DEF Now
  <1>8. rows[BOB][u + j] = g + (u + j) - 1
    BY <1>2, <1>5, <1>6 DEF RowsFrom
  <1>9. PICK y : y = Reply(u + j)
    OBVIOUS
  <1>10. /\ y.pad = [k \in Choice |-> <<g + (u + j) - 1, PadIndex(k, 0)>>]
         /\ y.msg = [k \in Choice |-> Message(at[BOB], u + j, k)]
    BY <1>1, <1>2, <1>5, <1>9 DEF Reply
  <1>11. y.pad[r] = <<g + (u + j) - 1, r>>
    BY <1>10, Uncorrected
  <1>12. <<g + (u + j) - 1, r>> # NoPad
    <2>1. g + (u + j) - 1 # -1
      BY <1>4, <1>5, <1>6
    <2> QED
      BY <2>1 DEF NoPad, NoRow
  <1>13. Unmasked(y, <<g + (u + j) - 1, r>>, r) = Message(at[BOB], u + j, r)
    BY <1>10, <1>11, <1>12 DEF Unmasked
  <1> QED
    BY <1>1, <1>7, <1>8, <1>9, <1>13

------------------------------------------------------------------------------
(* The refinement.                                                          *)

\* What has been received, with the call's next messages.
LEMMA ReceiveMore ==
  ASSUME DataInv, NEW m \in Nat, ctr[BOB] \in Nat,
         NEW v, v = [j \in 1..m |-> v[j]], data' = data \o v,
         \A j \in 1..m : v[j] = Message(at[BOB], ctr[BOB] + j,
                                        choice[at[BOB]][ctr[BOB] + j]),
         choice' = choice, at'[BOB] = at[BOB], ctr'[BOB] = ctr[BOB] + m
  PROVE  DataInv'
  <1>1. PICK b, c, u : b = ctr[BOB] /\ c = at[BOB] /\ u = data
    OBVIOUS
  <1>2. u = Obtained(c, b) /\ b \in Nat
    BY <1>1 DEF DataInv
  <1>3. \A j \in 1..m : v[j] = Message(c, b + j, choice[c][b + j])
    BY <1>1
  <1>4. Joined(u, v) = Obtained(c, b + m)
    BY <1>2, <1>3, MoreObtained
  <1>5. data' = Obtained(c, b + m)
    BY <1>1, <1>4 DEF Joined
  <1>6. Obtained(at[BOB], ctr[BOB])' = Obtained(c, b + m)
    BY <1>1 DEF Obtained
  <1> QED
    BY <1>5, <1>6 DEF DataInv

LEMMA LearnData ==
  ASSUME IInv, DataInv, Learn
  PROVE  DataInv'
  <1>0. ProgramInv /\ LocalInv(BOB) /\ ControlTypes /\ BOB \in Party
    BY DEF IInv, Party
  <1>1. PICK m, v :
          /\ m = Chunk(BOB, OnlineChunk) /\ pc[BOB] = "asked" /\ Arrived(BOB, "Y", m)
          /\ v = [j \in 1..m |-> Unmasked(wire[BOB][j], t[counter[BOB] + j - 1],
                                          choice[at[BOB]][ctr[BOB] + j])]
          /\ data' = data \o v
          /\ ctr' = [ctr EXCEPT ![BOB] = @ + m] /\ choice' = choice /\ at' = at
    BY DEF Learn, callVars
  <1>2. m \in Nat /\ ctr[BOB] \in Nat
    BY <1>0, <1>1, InMessages DEF ControlTypes
  <1>3. ASSUME NEW j \in 1..m
        PROVE  v[j] = Message(at[BOB], ctr[BOB] + j, choice[at[BOB]][ctr[BOB] + j])
    <2>1. wire[BOB][j] = Reply(ctr[BOB] + j)
      BY <1>1, <1>2, Delivered
    <2> QED
      BY <1>1, <2>1, UnmaskPooled
  <1>4. v = [j \in 1..m |-> v[j]]
    BY <1>1
  <1>5. ctr'[BOB] = ctr[BOB] + m
    BY <1>0, <1>1 DEF ControlTypes
  <1> QED
    BY <1>1, <1>2, <1>3, <1>4, <1>5, ReceiveMore

LEMMA RecvPostData ==
  ASSUME IInv, DataInv, RecvPost
  PROVE  DataInv'
  <1>0. ProgramInv /\ LocalInv(BOB) /\ ControlTypes /\ BOB \in Party
    BY DEF IInv, Party
  <1>1. PICK m, v :
          /\ m = Chunk(BOB, RecvChunk) /\ pc[BOB] = "post" /\ Arrived(BOB, "Y", m)
          /\ v = [j \in 1..m |->
                    Unmasked(wire[BOB][j],
                             <<rows[BOB][ctr[BOB] + j], choice[at[BOB]][ctr[BOB] + j]>>,
                             choice[at[BOB]][ctr[BOB] + j])]
          /\ data' = data \o v
          /\ ctr' = [ctr EXCEPT ![BOB] = @ + m] /\ choice' = choice /\ at' = at
    BY DEF RecvPost, callVars
  <1>2. m \in Nat /\ ctr[BOB] \in Nat
    BY <1>0, <1>1, InMessages DEF ControlTypes
  <1>3. ASSUME NEW j \in 1..m
        PROVE  v[j] = Message(at[BOB], ctr[BOB] + j, choice[at[BOB]][ctr[BOB] + j])
    <2>1. wire[BOB][j] = Reply(ctr[BOB] + j)
      BY <1>1, <1>2, Delivered
    <2> QED
      BY <1>1, <2>1, UnmaskDirect
  <1>4. v = [j \in 1..m |-> v[j]]
    BY <1>1
  <1>5. ctr'[BOB] = ctr[BOB] + m
    BY <1>0, <1>1 DEF ControlTypes
  <1> QED
    BY <1>1, <1>2, <1>3, <1>4, <1>5, ReceiveMore

Longer(n, u, x) == [i \in 1..(n + 1) |-> IF i <= n THEN u[i] ELSE x]

LEMMA OneMore ==
  ASSUME NEW n \in Nat, NEW u, u = [i \in 1..n |-> u[i]], NEW x
  PROVE  Append(u, x) = Longer(n, u, x)
  <1> DEFINE S == {u[i] : i \in 1..n} \cup {x}
  <1>1. u \in [1..n -> S] /\ x \in S
    OBVIOUS
  <1> HIDE DEF S
  <1>2. u \in Seq(S)
    BY <1>1
  <1>3. Len(u) = n
    BY GivenSeq
  <1>4. /\ Append(u, x) \in Seq(S) /\ Len(Append(u, x)) = n + 1
        /\ \A i \in 1..n : Append(u, x)[i] = u[i]
        /\ Append(u, x)[n + 1] = x
    BY <1>1, <1>2, <1>3, AppendProperties
  <1>5. Append(u, x) \in [1..(n + 1) -> S]
    BY <1>4, LenProperties
  <1>6. \A i \in 1..(n + 1) : Append(u, x)[i] = IF i <= n THEN u[i] ELSE x
    BY <1>4
  <1> QED
    BY <1>5, <1>6 DEF Longer

\* The receiver returns from a call with what it chose.
LEMMA ReturnData ==
  ASSUME IInv, DataInv, ResultsInv, SetBatch(BOB) \/ Finish(BOB)
  PROVE  DataInv' /\ ResultsInv' /\ Ideal!Deliver
  <1>0. /\ ProgramInv /\ LocalInv(BOB) /\ ControlTypes /\ BOB \in Party /\ BOB # ALICE
        /\ Returning(BOB)
    BY Return DEF IInv, Party, ALICE, BOB
  <1>1. PICK c \in 1..Len(program) : c = at[BOB]
    BY <1>0 DEF Returning
  <1>2. at'[BOB] = c + 1 /\ choice' = choice /\ program' = program /\ ctr'[BOB] = 0
    BY <1>0, <1>1, ReturnFacts DEF Returning
  <1>3. results' = Append(results, Ideal!Chosen(c)) /\ data' = <<>>
    <2>1. CASE SetBatch(BOB)
      <3>1. Now(BOB).op = "batch" /\ results' = Append(results, <<>>) /\ data' = data /\ pc[BOB] = "call"
        BY <1>0, <2>1 DEF SetBatch, Pending
      <3>2. choice[c] = <<>>
        BY <1>0, <1>1, <3>1, Chosen DEF Now
      <3>3. Ideal!Chosen(c) = <<>>
        BY <3>2 DEF Ideal!Chosen
      <3>4. ctr[BOB] = 0
        BY <1>0, <3>1 DEF LocalInv, AtCall
      <3>5. data = <<>>
        BY <3>4 DEF DataInv, Obtained
      <3> QED
        BY <3>1, <3>3, <3>5
    <2>2. CASE Finish(BOB)
      <3>1. /\ results' = Append(results, data) /\ data' = <<>> /\ ctr[BOB] = Length(BOB)
            /\ pc[BOB] \in {"online", "post"}
        BY <2>2 DEF Finish
      <3>2. Now(BOB).op # "batch"
        BY <1>0, <3>1 DEF LocalInv, AtMessages
      <3>3. DOMAIN choice[c] = 1..program[c].n
        BY <1>0, <1>1, <3>2, Chosen DEF Now
      <3>4. data = [i \in 1..program[c].n |-> Message(c, i, choice[c][i])]
        BY <1>1, <3>1 DEF DataInv, Obtained, Length, Now
      <3>5. data = Ideal!Chosen(c)
        BY <3>3, <3>4 DEF Ideal!Chosen, Ideal!Message, Message
      <3> QED
        BY <3>1, <3>5
    <2> QED
      BY <2>1, <2>2
  <1>4. PICK l \in Nat : l = c - 1 /\ c = l + 1 /\ l < Len(program)
    <2>1. c - 1 \in Nat /\ c = (c - 1) + 1 /\ c - 1 < Len(program)
      BY <1>0 DEF ProgramInv
    <2> QED
      BY <2>1
  <1>5. PICK u : u = results /\ u = [i \in 1..l |-> Ideal!Chosen(i)]
    BY <1>1, <1>4 DEF ResultsInv
  <1>6. Len(u) = l /\ \E S : u \in Seq(S)
    BY <1>4, <1>5, GivenSeq
  <1>7. Ideal!Deliver
    <2>1. Len(results) < Len(program) /\ results' = Append(results, Ideal!Chosen(Len(results) + 1))
      BY <1>3, <1>4, <1>5, <1>6
    <2> QED
      BY <1>2, <2>1 DEF Ideal!Deliver
  <1>8. ResultsInv'
    <2>1. PICK x : x = Ideal!Chosen(c)
      OBVIOUS
    <2>2. Append(u, x) = [i \in 1..(l + 1) |-> IF i <= l THEN u[i] ELSE x]
      <3>1. u = [i \in 1..l |-> u[i]]
        BY <1>5
      <3>2. Append(u, x) = Longer(l, u, x)
        BY <1>4, <3>1, OneMore
      <3> QED
        BY <3>2 DEF Longer
    <2>3. \A i \in 1..(l + 1) : (IF i <= l THEN u[i] ELSE x) = Ideal!Chosen(i)
      <3>1. ASSUME NEW i \in 1..(l + 1)
            PROVE  (IF i <= l THEN u[i] ELSE x) = Ideal!Chosen(i)
        <4>1. CASE i <= l
          <5>1. i \in 1..l
            BY <1>4, <4>1
          <5> QED
            BY <1>5, <4>1, <5>1
        <4>2. CASE ~(i <= l)
          <5>1. i = c
            BY <1>4, <4>2
          <5> QED
            BY <2>1, <4>2, <5>1
        <4> QED
          BY <4>1, <4>2
      <3> QED
        BY <3>1
    <2>4. results' = [i \in 1..(l + 1) |-> Ideal!Chosen(i)]
      BY <1>3, <1>5, <2>1, <2>2, <2>3
    <2>5. \A i : Ideal!Chosen(i)' = Ideal!Chosen(i)
      BY <1>2 DEF Ideal!Chosen
    <2>6. at'[BOB] - 1 = l + 1
      BY <1>2, <1>4
    <2> QED
      BY <2>4, <2>5, <2>6 DEF ResultsInv
  <1>9. DataInv'
    BY <1>2, <1>3 DEF DataInv, Obtained
  <1> QED
    BY <1>7, <1>8, <1>9

LEMMA DataFrame ==
  ASSUME DataInv, ResultsInv, UNCHANGED <<choice, data, results>>,
         at'[BOB] = at[BOB], ctr'[BOB] = ctr[BOB]
  PROVE  DataInv' /\ ResultsInv'
  <1>1. Obtained(at[BOB], ctr[BOB])' = Obtained(at[BOB], ctr[BOB])
    BY DEF Obtained
  <1>2. \A c : Ideal!Chosen(c)' = Ideal!Chosen(c)
    BY DEF Ideal!Chosen
  <1> QED
    BY <1>1, <1>2 DEF DataInv, ResultsInv

\* No other step touches what the receiver has.
LEMMA DataNext ==
  ASSUME IInv, DataInv, ResultsInv, [Next]_vars
  PROVE  DataInv' /\ ResultsInv' /\ [Ideal!Deliver]_(Ideal!vars)
  <1>0. ControlTypes /\ ALICE \in Party /\ BOB \in Party /\ ALICE # BOB
    BY DEF IInv, Party, ALICE, BOB
  <1>1. CASE SetBatch(BOB) \/ Finish(BOB)
    BY <1>1, ReturnData
  <1>2. CASE Learn \/ RecvPost
    <2>1. UNCHANGED <<program, choice, results, at>>
      BY <1>2 DEF Learn, RecvPost, callVars
    <2>2. \A c : Ideal!Chosen(c)' = Ideal!Chosen(c)
      BY <2>1 DEF Ideal!Chosen
    <2>3. ResultsInv'
      BY <2>1, <2>2 DEF ResultsInv
    <2>4. DataInv'
      BY <1>2, LearnData, RecvPostData
    <2>5. UNCHANGED Ideal!vars
      BY <2>1 DEF Ideal!vars
    <2> QED
      BY <2>3, <2>4, <2>5, Zenon
  <1>3. ASSUME UNCHANGED <<program, choice, data, results>>,
               at'[BOB] = at[BOB], ctr'[BOB] = ctr[BOB]
        PROVE  DataInv' /\ ResultsInv' /\ [Ideal!Deliver]_(Ideal!vars)
    <2>1. UNCHANGED Ideal!vars
      BY <1>3 DEF Ideal!vars
    <2>2. DataInv' /\ ResultsInv'
      BY <1>3, DataFrame
    <2> QED
      BY <2>1, <2>2
  <1>4. CASE SetBatch(ALICE) \/ Finish(ALICE)
    <2>1. UNCHANGED <<program, choice, data, results>>
      BY <1>0, <1>4 DEF SetBatch, Finish, callVars
    <2>2. at'[BOB] = at[BOB] /\ ctr'[BOB] = ctr[BOB]
      BY <1>0, <1>4 DEF SetBatch, Finish, ControlTypes
    <2> QED
      BY <1>3, <2>1, <2>2
  <1>5. CASE Answer \/ SendPost
    <2>1. UNCHANGED <<program, choice, data, results>>
      BY <1>5, SMTT(30) DEF Answer, SendPost, callVars
    <2>2. at'[BOB] = at[BOB] /\ ctr'[BOB] = ctr[BOB]
      BY <1>0, <1>5, SMTT(30) DEF Answer, SendPost, ControlTypes
    <2> QED
      BY <1>3, <2>1, <2>2
  <1>6. CASE \E p \in Party : Begin(p) \/ Store(p)
    BY <1>3, <1>6 DEF Begin, Store, callVars
  <1>7. CASE SeedSender \/ SeedReceiver \/ ExtendSender \/ ExtendReceiver \/ Ask
    BY <1>3, <1>7 DEF SeedSender, SeedReceiver, ExtendSender, ExtendReceiver, Ask, callVars
  <1>8. CASE UNCHANGED vars
    BY <1>3, <1>8 DEF vars, callVars
  <1> QED
    BY <1>0, <1>1, <1>2, <1>4, <1>5, <1>6, <1>7, <1>8 DEF Next, Sender, Receiver

LEMMA DataInit == Init => DataInv /\ ResultsInv /\ Ideal!Init
  <1> SUFFICES ASSUME Init
               PROVE  DataInv /\ ResultsInv /\ Ideal!Init
    OBVIOUS
  <1>1. at[BOB] = 1 /\ ctr[BOB] = 0 /\ data = <<>> /\ results = <<>>
    BY DEF Init, Party
  <1> QED
    BY <1>1 DEF DataInv, ResultsInv, Obtained, Ideal!Init

\* Seen from the caller the extension is OTIdeal: the receiver gets, call
\* after call and in order, the messages that its choices name, whichever
\* slots of the pool served them and however the two sides interleave
\* (got_recv_online, got_recv_post against got_send_online, got_send_post).
THEOREM TransfersIdeal ==
  Spec => ImplementsIdeal
  <1> QED
    BY DataInit, DataNext, Invariant, PTL DEF Spec, ImplementsIdeal, Ideal!Spec
=============================================================================
