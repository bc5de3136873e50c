--------------------------- MODULE EqualityProofs ---------------------------
(***************************************************************************)
(* Theorems about EqualityTree, for every bit length up to 64, every radix *)
(* up to 8, all inputs and tapes, and sockets of any size.  As every node  *)
(* has one AND, a slot has one triple; the parties' shares of a node are   *)
(* those of the digits it stands for as soon as both are at its level, and *)
(* what a party has masked remembers its shares when it has gone on.       *)
(***************************************************************************)
EXTENDS EqualityTree, SequenceTheorems, Powers

PowersOfTwo == {1, 2, 4, 8, 16, 32, 64}
InnerLevel == {i \in PowersOfTwo : i < NumDigits}

\* The slots of level i, and node j's among them.
Start(i) == NumDigits - CeilDiv(NumDigits, i)
SlotsOf(i) == Start(i)..(Start(2 * i) - 1)
SlotOf(i, j) == Start(i) + j \div (2 * i)

\* The nodes of level i.
NodesOf(i) == {j \in Digits : j % i = 0}
Joined(i) == {j \in NodesOf(2 * i) : j + i < NumDigits}

------------------------------------------------------------------------------
(* The invariant.                                                           *)

\* How far a party is.
CountInv(p) ==
  /\ lev[p] \in PowersOfTwo /\ lev[p] < 2 * NumDigits
  /\ old[p] = Start(lev[p])
  /\ pc[p] \in {"leaf", "triples"} => lev[p] = 1 /\ node[p] = 0 /\ cnt[p] = 0
  /\ pc[p] \in {"triples", "and1", "exchange", "and2"} => ~IsShort /\ lev[p] \in InnerLevel
  /\ pc[p] \in {"and1", "and2"} =>
       node[p] \in Joined(lev[p]) /\ cnt[p] = SlotOf(lev[p], node[p])
  /\ pc[p] = "exchange" => node[p] = 0 /\ cnt[p] = Start(2 * lev[p])
  /\ pc[p] = "done" /\ ~IsShort => lev[p] >= NumDigits /\ cnt[p] = old[p]
  /\ pc[p] = "done" /\ IsShort => lev[p] = 1

\* The chunks a party has sent or taken on a socket since the start, and the
\* contents of the n-th.
Sent(p, t) ==
  4 * CeilLog2(lev[p]) + (IF pc[p] = "and2" THEN 4 ELSE moved[p][t])
Receiver(t) == Peer(Sender(t))
LevelAt(k) == CHOOSE i \in PowersOfTwo : CeilLog2(i) = k
ChunkAt(p, n) ==
  LET i == LevelAt(n \div 4)
  IN  [m \in 1..(Start(2 * i) - Start(i)) |-> own[p][ChunkHalf(n % 4)][Start(i) + m - 1]]

WireInv(t) ==
  /\ Sent(Sender(t), t) = Sent(Receiver(t), t) + Len(wire[t])
  /\ \A k \in 1..Len(wire[t]) : wire[t][k] = ChunkAt(Sender(t), Sent(Receiver(t), t) + k - 1)

MovedInv(p) == pc[p] # "exchange" => \A t \in Threads : moved[p][t] = 0

\* What a party has received, and then opened, of its level.
ReceivedInv(t) ==
  LET p == Receiver(t)
  IN  pc[p] = "exchange" =>
        \A s \in SlotsOf(lev[p]) :
          /\ moved[p][t] > 0 => opened[p].e[s] = own[Peer(p)].e[s]
          /\ moved[p][t] > 2 => opened[p].f[s] = own[Peer(p)].f[s]
OpenInv(p) ==
  pc[p] = "and2" =>
    \A s \in SlotsOf(lev[p]), h \in Halves :
      opened[p][h][s] = Xor(own[ALICE][h][s], own[BOB][h][s])

FlowInv ==
  /\ wire \in [Threads -> Seq(Seq(Bit))]
  /\ \A p \in Party : CountInv(p) /\ MovedInv(p)
  /\ \A t \in Threads : WireInv(t)
ExchangeInv ==
  /\ \A t \in Threads : ReceivedInv(t)
  /\ \A p \in Party : OpenInv(p)

\* The operands that a party masked in a slot, and its share of their product.
Left(p, s) == Xor(own[p].e[s], tape.a[p][s])
Right(p, s) == Xor(own[p].f[s], tape.b[p][s])
Share(p, s) ==
  LET e == Xor(own[ALICE].e[s], own[BOB].e[s])
      f == Xor(own[ALICE].f[s], own[BOB].f[s])
      ef == IF p = ALICE THEN And(e, f) ELSE 0
  IN  Xor(Xor(Xor(ef, And(f, tape.a[p][s])), And(e, tape.b[p][s])), TripleC(p, s))

\* The nodes of level i that a party has masked, and merged.
Masked(p, i, j) ==
  \/ lev[p] > i
  \/ lev[p] = i /\ (pc[p] \in {"exchange", "and2"} \/ (pc[p] = "and1" /\ j < node[p]))
Merged(p, i, j) == lev[p] > i \/ (lev[p] = i /\ pc[p] = "and2" /\ j < node[p])

\* The level of party p's share of node j, and what the shares stand for.
Reached(p, j) == IF pc[p] = "and2" /\ j < node[p] THEN 2 * lev[p] ELSE lev[p]
RangeEnd(i, j) == IF j + i < NumDigits THEN j + i ELSE NumDigits
Equal(i, j) == BitOf(RangeEqual(j, RangeEnd(i, j)))
Together(j) == Xor(eq[ALICE][j], eq[BOB][j])

LeafInv ==
  /\ pc[ALICE] = "leaf" => pc[BOB] = "leaf"
  /\ pc[BOB] = "leaf" /\ pc[ALICE] # "leaf" =>
       /\ pc[ALICE] = IF IsShort THEN "done" ELSE "triples"
       /\ eq[ALICE] = tape.mask

\* A party's masked operands are its shares until it merges the node.
MaskInv(p) ==
  \A i \in InnerLevel : \A j \in Joined(i) :
    Masked(p, i, j) /\ ~Merged(p, i, j) =>
      Left(p, SlotOf(i, j)) = eq[p][j] /\ Right(p, SlotOf(i, j)) = eq[p][j + i]
\* The operands that both have masked are those of the node.
OperandInv ==
  \A i \in InnerLevel : \A j \in Joined(i) :
    (\A p \in Party : Masked(p, i, j)) =>
      /\ Xor(Left(ALICE, SlotOf(i, j)), Left(BOB, SlotOf(i, j))) = Equal(i, j)
      /\ Xor(Right(ALICE, SlotOf(i, j)), Right(BOB, SlotOf(i, j))) = Equal(i, j + i)
\* Shares of one level agree; where one party is ahead, its share is that of
\* the product, or of a node without a partner.
LevelInv ==
  (\A p \in Party : pc[p] # "leaf") =>
    \A i \in PowersOfTwo : \A j \in NodesOf(i) :
      Reached(ALICE, j) = i /\ Reached(BOB, j) = i => Together(j) = Equal(i, j)
AheadInv ==
  \A p \in Party : \A i \in InnerLevel : \A j \in NodesOf(2 * i) :
    Reached(p, j) = 2 * i /\ Reached(Peer(p), j) = i =>
      IF j \in Joined(i) THEN eq[p][j] = Share(p, SlotOf(i, j))
      ELSE Together(j) = Equal(2 * i, j)

TreeInv == (\A p \in Party : MaskInv(p)) /\ OperandInv /\ LevelInv /\ AheadInv
SharesInv == LeafInv /\ (~IsShort => TreeInv)

------------------------------------------------------------------------------
(* Arithmetic of the tree.                                                  *)

LEMMA DigitsRange ==
  ASSUME EqualityAssumption
  PROVE  /\ NumDigits \in 1..64 /\ NumTriples = NumDigits - 1
         /\ IsShort <=> NumDigits = 1
         /\ 0 \in Digits
  <1>1. ASSUME NEW b \in 1..8, NEW l \in 1..64
        PROVE  /\ (l + b - 1) \div b \in 1..64
               /\ l <= b <=> (l + b - 1) \div b = 1
    <2>1. b \in {1, 2, 3, 4, 5, 6, 7, 8}
      OBVIOUS
    <2> QED
      BY <2>1, SMTT(60)
  <1>2. NumDigits \in 1..64 /\ (IsShort <=> NumDigits = 1)
    BY <1>1 DEF EqualityAssumption, NumDigits, CeilDiv, IsShort
  <1> QED
    BY <1>2 DEF NumTriples, Digits

LEMMA Logarithms ==
  /\ CeilLog2(1) = 0 /\ CeilLog2(2) = 1 /\ CeilLog2(4) = 2 /\ CeilLog2(8) = 3
  /\ CeilLog2(16) = 4 /\ CeilLog2(32) = 5 /\ CeilLog2(64) = 6
  BY DEF CeilLog2, BitOf

LEMMA Levels ==
  ASSUME EqualityAssumption, NEW i \in PowersOfTwo
  PROVE  /\ i \in Nat \ {0} /\ Start(i) \in 0..NumTriples /\ Start(i) \in Nat
         /\ i >= NumDigits => Start(i) = NumTriples
         /\ i < NumDigits => /\ 2 * i \in PowersOfTwo /\ 2 * i < 2 * NumDigits
                             /\ Start(i) < Start(2 * i) /\ Start(2 * i) \in 0..NumTriples
                             /\ Start(2 * i) \in Nat
                             /\ CeilLog2(2 * i) = CeilLog2(i) + 1
         /\ 1 \in PowersOfTwo /\ Start(1) = 0 /\ CeilLog2(1) = 0
         /\ CeilLog2(i) \in 0..6
  <1>1. NumDigits \in 1..64 /\ NumTriples = NumDigits - 1
    BY DigitsRange
  <1>2. i \in {1, 2, 4, 8, 16, 32, 64}
    BY DEF PowersOfTwo
  <1> QED
    BY <1>1, <1>2, Logarithms, SMTT(60) DEF PowersOfTwo, Start, CeilDiv

LEMMA LevelOrder ==
  ASSUME EqualityAssumption, NEW i \in PowersOfTwo, NEW m \in PowersOfTwo
  PROVE  /\ i < m => 2 * i <= m /\ 2 * i \in PowersOfTwo /\ Start(2 * i) <= Start(m)
         /\ i < m <=> CeilLog2(i) < CeilLog2(m)
         /\ i = m <=> CeilLog2(i) = CeilLog2(m)
  <1>1. NumDigits \in 1..64
    BY DigitsRange
  <1>2. i \in {1, 2, 4, 8, 16, 32, 64} /\ m \in {1, 2, 4, 8, 16, 32, 64}
    BY DEF PowersOfTwo
  <1>3. i < m => Start(2 * i) <= Start(m)
    BY <1>1, <1>2, SMTT(60) DEF Start, CeilDiv
  <1> QED
    BY <1>2, <1>3, Logarithms, SMTT(60) DEF PowersOfTwo

\* The nodes of a level that have a partner, and their slots.
LEMMA Nodes ==
  ASSUME EqualityAssumption, NEW i \in InnerLevel, NEW j \in Joined(i)
  PROVE  /\ j \in NodesOf(i) /\ j \in NodesOf(2 * i) /\ j \in Digits /\ j \in Nat
         /\ j + i \in NodesOf(i) /\ j + i \in Digits /\ j + i \notin NodesOf(2 * i)
         /\ SlotOf(i, j) \in SlotsOf(i) /\ SlotOf(i, j) \in Slots
         /\ IF j + 2 * i + i < NumDigits
            THEN j + 2 * i \in Joined(i) /\ SlotOf(i, j + 2 * i) = SlotOf(i, j) + 1
            ELSE SlotOf(i, j) + 1 = Start(2 * i)
  <1>1. NumDigits \in 1..64 /\ NumTriples = NumDigits - 1
    BY DigitsRange
  <1>2. i \in {1, 2, 4, 8, 16, 32} /\ i < NumDigits
    BY <1>1, SMTT(30) DEF InnerLevel, PowersOfTwo
  <1>3. j \in Nat /\ j % (2 * i) = 0 /\ j + i < NumDigits
    BY <1>1 DEF Joined, NodesOf, Digits
  <1>4. /\ j % i = 0 /\ (j + i) % i = 0 /\ (j + i) % (2 * i) # 0 /\ (j + 2 * i) % (2 * i) = 0
        /\ (j + 2 * i) \div (2 * i) = j \div (2 * i) + 1
    BY <1>2, <1>3, SMTT(60)
  <1>5. /\ j \div (2 * i) \in Nat
        /\ NumDigits - CeilDiv(NumDigits, i) \in Nat
        /\ NumDigits - CeilDiv(NumDigits, 2 * i) <= NumDigits - 1
        /\ NumDigits - CeilDiv(NumDigits, 2 * i) \in Int
        /\ NumDigits - CeilDiv(NumDigits, i) + j \div (2 * i) < NumDigits - CeilDiv(NumDigits, 2 * i)
    BY <1>1, <1>2, <1>3, SMTT(60) DEF CeilDiv
  <1>6. ~(j + 2 * i + i < NumDigits) =>
          NumDigits - CeilDiv(NumDigits, i) + j \div (2 * i) + 1 = NumDigits - CeilDiv(NumDigits, 2 * i)
    BY <1>1, <1>2, <1>3, SMTT(60) DEF CeilDiv
  <1>7. SlotOf(i, j) \in SlotsOf(i) /\ SlotOf(i, j) \in Slots
    BY <1>1, <1>5 DEF SlotOf, SlotsOf, Slots, Start
  <1>8. j + 2 * i + i < NumDigits => SlotOf(i, j + 2 * i) = SlotOf(i, j) + 1
    BY <1>4, <1>5 DEF SlotOf, Start
  <1>9. j \in Digits /\ j + i \in Digits
    BY <1>1, <1>2, <1>3 DEF Digits
  <1>10. j + 2 * i + i < NumDigits => j + 2 * i \in Joined(i)
    BY <1>1, <1>2, <1>3, <1>4 DEF Joined, NodesOf, Digits
  <1> QED
    BY <1>3, <1>4, <1>6, <1>7, <1>8, <1>9, <1>10 DEF NodesOf, SlotOf, Start

LEMMA NodesApart ==
  ASSUME EqualityAssumption, NEW i \in InnerLevel, NEW j \in NodesOf(2 * i), NEW k \in NodesOf(2 * i),
         j < k
  PROVE  j + 2 * i <= k /\ SlotOf(i, j) < SlotOf(i, k)
  <1>1. NumDigits \in 1..64
    BY DigitsRange
  <1>2. i \in {1, 2, 4, 8, 16, 32} /\ i < NumDigits
    BY <1>1, SMTT(30) DEF InnerLevel, PowersOfTwo
  <1>3. j \in Nat /\ j % (2 * i) = 0 /\ k \in Nat /\ k % (2 * i) = 0
    BY <1>1 DEF NodesOf, Digits
  <1>4. j + 2 * i <= k /\ j \div (2 * i) < k \div (2 * i)
    BY <1>2, <1>3, SMTT(60)
  <1>5. Start(i) \in Int /\ j \div (2 * i) \in Int /\ k \div (2 * i) \in Int
    BY <1>2, <1>3, Levels DEF InnerLevel
  <1> QED
    BY <1>4, <1>5 DEF SlotOf

\* Level i starts at node 0, which has a partner.
LEMMA FirstNode ==
  ASSUME EqualityAssumption, NEW i \in InnerLevel
  PROVE  0 \in Joined(i) /\ SlotOf(i, 0) = Start(i)
  <1>1. NumDigits \in 1..64
    BY DigitsRange
  <1>2. i \in {1, 2, 4, 8, 16, 32} /\ i < NumDigits
    BY <1>1, SMTT(30) DEF InnerLevel, PowersOfTwo
  <1>3. 0 % (2 * i) = 0 /\ 0 \div (2 * i) = 0
    BY <1>2
  <1>4. Start(i) \in Int
    BY Levels DEF InnerLevel
  <1> QED
    BY <1>1, <1>2, <1>3, <1>4 DEF Joined, NodesOf, Digits, SlotOf

------------------------------------------------------------------------------
(* Counters.                                                                *)

LEMMA Parties ==
  /\ ALICE \in Party /\ BOB \in Party /\ ALICE # BOB
  /\ \A p \in Party : /\ Peer(p) \in Party /\ Peer(p) # p /\ Peer(Peer(p)) = p
                      /\ {p, Peer(p)} = {ALICE, BOB}
                      /\ \A r \in Party : r = p \/ r = Peer(p)
  BY DEF Party, Peer, ALICE, BOB

\* What a step of one party does not touch.
LEMMA LocalFrame ==
  ASSUME TypeOK, NEW p \in Party, Local(p), NEW r \in Party, r # p
  PROVE  /\ pc'[r] = pc[r] /\ lev'[r] = lev[r] /\ node'[r] = node[r]
         /\ cnt'[r] = cnt[r] /\ old'[r] = old[r] /\ moved'[r] = moved[r]
         /\ own'[r] = own[r] /\ opened'[r] = opened[r] /\ eq'[r] = eq[r]
  <1>1. CASE Generate(p)
    BY <1>1 DEF Generate, TypeOK
  <1>2. CASE AndStep1(p)
    BY <1>2 DEF AndStep1, TypeOK
  <1>3. CASE Join(p)
    BY <1>3 DEF Join, TypeOK
  <1>4. CASE AndStep2(p)
    <2>1. /\ node'[r] = node[r] /\ cnt'[r] = cnt[r] /\ moved'[r] = moved[r]
          /\ own'[r] = own[r] /\ opened'[r] = opened[r] /\ eq'[r] = eq[r]
      BY <1>4 DEF AndStep2, TypeOK
    <2>2. pc'[r] = pc[r] /\ lev'[r] = lev[r] /\ old'[r] = old[r]
      BY <1>4 DEF AndStep2, TypeOK
    <2> QED
      BY <2>1, <2>2
  <1> QED
    BY <1>1, <1>2, <1>3, <1>4 DEF Local

LEMMA CountUnchanged ==
  ASSUME NEW p \in Party, CountInv(p),
         pc'[p] = pc[p], lev'[p] = lev[p], node'[p] = node[p],
         cnt'[p] = cnt[p], old'[p] = old[p]
  PROVE  CountInv(p)'
  BY DEF CountInv, Start, SlotOf, Joined, NodesOf

\* Where a party is in a pass, and where its next node is.
LEMMA Pass ==
  ASSUME EqualityAssumption, TypeOK, NEW p \in Party, CountInv(p), pc[p] \in {"and1", "and2"}
  PROVE  /\ lev[p] \in InnerLevel /\ lev[p] \in PowersOfTwo /\ lev[p] \in Nat
         /\ node[p] \in Joined(lev[p]) /\ cnt[p] = SlotOf(lev[p], node[p])
         /\ cnt[p] \in Slots /\ cnt[p] \in SlotsOf(lev[p]) /\ cnt[p] \in Nat
         /\ node[p] \in Digits /\ node[p] + lev[p] \in Digits /\ node[p] \in Nat
         /\ LastOfLevel(p) => cnt[p] + 1 = Start(2 * lev[p])
         /\ ~LastOfLevel(p) => /\ NextNode(lev[p], node[p]) \in Joined(lev[p])
                               /\ cnt[p] + 1 = SlotOf(lev[p], NextNode(lev[p], node[p]))
  <1>1. /\ lev[p] \in InnerLevel /\ lev[p] \in PowersOfTwo /\ lev[p] \in Nat
        /\ node[p] \in Joined(lev[p]) /\ cnt[p] = SlotOf(lev[p], node[p])
    BY Levels DEF CountInv
  <1>2. LastOfLevel(p) <=> ~(node[p] + 2 * lev[p] + lev[p] < NumDigits)
    <2>1. node[p] \in Nat /\ NumDigits \in Nat
      BY <1>1, Nodes, DigitsRange
    <2> QED
      BY <1>1, <2>1 DEF LastOfLevel, HasPartner, NextNode
  <1>3. cnt[p] \in Nat
    BY <1>1, Nodes, DigitsRange DEF Slots
  <1> QED
    BY <1>1, <1>2, <1>3, Nodes DEF NextNode

LEMMA CountStep ==
  ASSUME EqualityAssumption, TypeOK, NEW r \in Party, CountInv(r), [Next]_vars
  PROVE  CountInv(r)'
  <1>s. \A i : Start(i)' = Start(i) /\ Joined(i)' = Joined(i)
    BY DEF Start, Joined, NodesOf
  <1>1. CASE LeafAlice \/ LeafBob
    <2>1. /\ lev'[r] = lev[r] /\ node'[r] = node[r] /\ cnt'[r] = cnt[r] /\ old'[r] = old[r]
      BY <1>1 DEF LeafAlice, LeafBob
    <2>2. CASE pc'[r] = pc[r]
      BY <2>1, <2>2, CountUnchanged
    <2>3. CASE pc[r] = "leaf" /\ (pc'[r] = IF IsShort THEN "done" ELSE "triples")
      <3>1. lev[r] = 1 /\ node[r] = 0 /\ cnt[r] = 0 /\ 1 < 2 * NumDigits /\ old[r] = Start(1)
        BY <2>3 DEF CountInv
      <3>2. ~IsShort => 1 \in InnerLevel
        BY DigitsRange DEF InnerLevel, PowersOfTwo
      <3>3. lev'[r] \in PowersOfTwo
        BY <2>1, <3>1 DEF PowersOfTwo
      <3> QED
        BY <1>s, <2>1, <2>3, <3>1, <3>2, <3>3 DEF CountInv, IsShort
    <2> QED
      BY <1>1, <2>2, <2>3 DEF LeafAlice, LeafBob, TypeOK
  <1>2. ASSUME NEW p \in Party, Local(p), p # r
        PROVE  CountInv(r)'
    BY <1>2, LocalFrame, CountUnchanged
  <1>3. CASE Generate(r)
    <2>1. pc[r] = "triples" /\ pc'[r] = "and1"
          /\ lev'[r] = lev[r] /\ node'[r] = node[r] /\ cnt'[r] = cnt[r] /\ old'[r] = old[r]
      BY <1>3 DEF Generate, TypeOK
    <2>2. /\ lev[r] = 1 /\ node[r] = 0 /\ cnt[r] = 0 /\ ~IsShort /\ 1 \in InnerLevel
          /\ old[r] = Start(1) /\ 1 < 2 * NumDigits /\ 1 \in PowersOfTwo
      BY <2>1 DEF CountInv
    <2>3. 0 \in Joined(1) /\ SlotOf(1, 0) = 0
      BY <2>2, FirstNode, Levels
    <2> QED
      BY <1>s, <2>1, <2>2, <2>3 DEF CountInv, IsShort, SlotOf
  <1>4. CASE AndStep1(r)
    <2>1. /\ pc[r] = "and1" /\ lev'[r] = lev[r] /\ old'[r] = old[r] /\ cnt'[r] = cnt[r] + 1
          /\ LastOfLevel(r) => node'[r] = 0 /\ pc'[r] = "exchange"
          /\ ~LastOfLevel(r) => node'[r] = NextNode(lev[r], node[r]) /\ pc'[r] = "and1"
      BY <1>4 DEF AndStep1, TypeOK
    <2>2. /\ LastOfLevel(r) => cnt[r] + 1 = Start(2 * lev[r])
          /\ ~LastOfLevel(r) => /\ NextNode(lev[r], node[r]) \in Joined(lev[r])
                                /\ cnt[r] + 1 = SlotOf(lev[r], NextNode(lev[r], node[r]))
      BY <2>1, Pass
    <2> QED
      BY <1>s, <2>1, <2>2 DEF CountInv, IsShort, SlotOf
  <1>5. CASE Join(r)
    <2>1. /\ pc[r] = "exchange" /\ pc'[r] = "and2" /\ cnt'[r] = old[r] /\ lev'[r] = lev[r]
          /\ node'[r] = node[r] /\ old'[r] = old[r]
      BY <1>5 DEF Join, TypeOK
    <2>2. /\ node[r] = 0 /\ lev[r] \in InnerLevel /\ old[r] = Start(lev[r])
      BY <2>1 DEF CountInv
    <2>3. 0 \in Joined(lev[r]) /\ SlotOf(lev[r], 0) = Start(lev[r])
      BY <2>2, FirstNode
    <2> QED
      BY <1>s, <2>1, <2>2, <2>3 DEF CountInv, IsShort, SlotOf
  <1>6. CASE AndStep2(r)
    <2>1. /\ pc[r] = "and2" /\ cnt'[r] = cnt[r] + 1
          /\ LastOfLevel(r) => /\ node'[r] = 0 /\ lev'[r] = 2 * lev[r] /\ old'[r] = cnt[r] + 1
                               /\ pc'[r] = IF 2 * lev[r] >= NumDigits THEN "done" ELSE "and1"
          /\ ~LastOfLevel(r) => /\ node'[r] = NextNode(lev[r], node[r]) /\ pc'[r] = "and2"
                                /\ lev'[r] = lev[r] /\ old'[r] = old[r]
      BY <1>6 DEF AndStep2, OldAfter, TypeOK
    <2>2. /\ LastOfLevel(r) => cnt[r] + 1 = Start(2 * lev[r])
          /\ ~LastOfLevel(r) => /\ NextNode(lev[r], node[r]) \in Joined(lev[r])
                                /\ cnt[r] + 1 = SlotOf(lev[r], NextNode(lev[r], node[r]))
          /\ lev[r] \in InnerLevel /\ lev[r] \in Nat
      BY <2>1, Pass
    <2>3. 2 * lev[r] \in PowersOfTwo /\ 2 * lev[r] < 2 * NumDigits
      BY <2>2, Levels DEF InnerLevel
    <2>4. CASE LastOfLevel(r) /\ ~(2 * lev[r] >= NumDigits)
      <3>1. 2 * lev[r] \in InnerLevel
        BY <2>2, <2>3, <2>4, DigitsRange DEF InnerLevel
      <3>2. 0 \in Joined(2 * lev[r]) /\ SlotOf(2 * lev[r], 0) = Start(2 * lev[r])
        BY <3>1, FirstNode
      <3>3. ~IsShort
        BY <2>1 DEF CountInv
      <3> QED
        BY <1>s, <2>1, <2>2, <2>3, <2>4, <3>1, <3>2, <3>3 DEF CountInv, IsShort, SlotOf
    <2>5. CASE LastOfLevel(r) /\ 2 * lev[r] >= NumDigits
      <3>1. ~IsShort
        BY <2>1 DEF CountInv
      <3> QED
        BY <1>s, <2>1, <2>2, <2>3, <2>5, <3>1 DEF CountInv, IsShort
    <2>6. CASE ~LastOfLevel(r)
      BY <1>s, <2>1, <2>2, <2>6 DEF CountInv, IsShort, SlotOf
    <2> QED
      BY <2>4, <2>5, <2>6
  <1>7. ASSUME NEW p \in Party, NEW t \in Threads, Thread(p, t)
        PROVE  CountInv(r)'
    BY <1>7, CountUnchanged DEF Thread, SendChunk, RecvChunk
  <1>8. CASE UNCHANGED vars
    BY <1>8, CountUnchanged DEF vars
  <1> QED
    BY <1>1, <1>2, <1>3, <1>4, <1>5, <1>6, <1>7, <1>8 DEF Next, Local

------------------------------------------------------------------------------
(* Types.                                                                   *)

LEMMA BitFacts ==
  /\ \A a, b : Xor(a, b) \in Bit /\ And(a, b) \in Bit
  /\ \A P : BitOf(P) \in Bit
  /\ \A p, s : Product(p, s) \in Bit /\ Share(p, s) \in Bit
  BY DEF Xor, And, BitOf, Bit, Product, Share

LEMMA ThreadFacts ==
  /\ \A t \in Threads : /\ Sender(t) \in Party /\ Receiver(t) \in Party
                        /\ Sender(t) # Receiver(t) /\ Peer(Receiver(t)) = Sender(t)
                        /\ \A u \in Threads : u # t => Sender(u) = Receiver(t) /\ Receiver(u) = Sender(t)
  /\ \A p \in Party : \E t, u \in Threads : p = Receiver(t) /\ p = Sender(u)
  BY DEF Threads, Sender, Receiver, Peer, Party, ALICE, BOB

\* What a step of the leaves does to the shares.
LEMMA LeafTypes ==
  ASSUME EqualityAssumption, TypeOK, LeafAlice \/ LeafBob
  PROVE  eq' \in [Party -> [Digits -> Bit]]
  <1>1. /\ eq \in [Party -> [Digits -> Bit]] /\ tape.mask \in [Digits -> Bit] /\ tape.junk \in Bit
    BY DEF TypeOK, TapeType
  <1>2. CASE LeafAlice
    BY <1>1, <1>2 DEF LeafAlice
  <1>3. CASE LeafBob
    <2>1. \A k : ShortMessage(k) \in Bit
      BY <1>1, BitFacts DEF ShortMessage, LeafMessage
    <2>2. [eq[BOB] EXCEPT ![0] = ShortMessage(data[BOB] % (ShortMask + 1))] \in [Digits -> Bit]
      BY <1>1, <2>1, DigitsRange, Parties
    <2>3. [i \in Digits |-> LeafMessage(Digit(data[ALICE], i), Digit(data[BOB], i), tape.mask[i])]
            \in [Digits -> Bit]
      BY BitFacts DEF LeafMessage
    <2>4. PICK E \in [Digits -> Bit] : eq' = [eq EXCEPT ![BOB] = E]
      BY <1>3, <2>2, <2>3, Parties, <1>1 DEF LeafBob
    <2> QED
      BY <1>1, <2>4
  <1> QED
    BY <1>2, <1>3

LEMMA TypeStep ==
  ASSUME EqualityAssumption, TypeOK, FlowInv, [Next]_vars, \A p \in Party : CountInv(p)'
  PROVE  TypeOK'
  <1>w. wire \in [Threads -> Seq(Seq(Bit))] /\ \A p \in Party : CountInv(p)
    BY DEF FlowInv
  <1>c. /\ \A p \in Party : pc'[p] \in {"and1", "and2"} =>
             cnt'[p] \in Slots /\ node'[p] + lev'[p] \in Digits
    <2> SUFFICES ASSUME NEW p \in Party, pc'[p] \in {"and1", "and2"}
                 PROVE  cnt'[p] \in Slots /\ node'[p] + lev'[p] \in Digits
      OBVIOUS
    <2>1. PICK i, j : i = lev'[p] /\ j = node'[p]
      OBVIOUS
    <2>2. i \in InnerLevel /\ j \in Joined(i) /\ cnt'[p] = SlotOf(i, j)
      <3>1. CountInv(p)' /\ pc'[p] \in {"and1", "and2"}
        OBVIOUS
      <3>2. /\ lev'[p] \in InnerLevel /\ node'[p] \in Joined(lev'[p])
            /\ cnt'[p] = SlotOf(lev'[p], node'[p])
        BY <3>1 DEF CountInv, InnerLevel, Joined, NodesOf, SlotOf, Start
      <3> QED
        BY <2>1, <3>2
    <2> QED
      BY <2>1, <2>2, Nodes
  <1>n. NumDigits \in 1..64 /\ NumTriples = NumDigits - 1 /\ 0 \in Digits
    BY DigitsRange
  <1>i. UNCHANGED inputVars => data' \in [Party -> Inputs] /\ tape' \in TapeType
    BY DEF inputVars, TypeOK
  <1>1. CASE LeafAlice \/ LeafBob
    <2>1. /\ eq' \in [Party -> [Digits -> Bit]] /\ UNCHANGED inputVars
          /\ pc' \in [Party -> {"leaf", "triples", "and1", "exchange", "and2", "done"}]
          /\ UNCHANGED <<own, opened, cnt, old, lev, node, moved, wire>>
      BY <1>1, LeafTypes DEF LeafAlice, LeafBob, TypeOK
    <2> QED
      BY <1>c, <1>i, <2>1 DEF TypeOK
  <1>2. ASSUME NEW p \in Party, Generate(p)
        PROVE  TypeOK'
    BY <1>2, <1>c, <1>i DEF Generate, TypeOK
  <1>3. ASSUME NEW p \in Party, AndStep1(p)
        PROVE  TypeOK'
    <2>1. /\ cnt[p] \in Slots /\ lev[p] \in InnerLevel /\ cnt[p] \in Nat
          /\ LastOfLevel(p) => cnt[p] + 1 = Start(2 * lev[p])
          /\ ~LastOfLevel(p) => /\ NextNode(lev[p], node[p]) \in Joined(lev[p])
                                /\ cnt[p] + 1 = SlotOf(lev[p], NextNode(lev[p], node[p]))
      BY <1>w, <1>3, Pass DEF AndStep1
    <2>2. cnt[p] + 1 \in 0..NumTriples
      BY <1>n, <2>1 DEF Slots
    <2>3. ~LastOfLevel(p) => NextNode(lev[p], node[p]) \in Digits
      BY <2>1, Nodes
    <2>4. cnt' \in [Party -> 0..NumTriples] /\ node' \in [Party -> Digits]
          /\ pc' \in [Party -> {"leaf", "triples", "and1", "exchange", "and2", "done"}]
      BY <1>3, <1>n, <2>2, <2>3 DEF AndStep1, TypeOK
    <2>5. own' \in [Party -> [Halves -> [Slots -> Bit]]]
      <3>1. PICK c, x, y :
              /\ c = cnt[p] /\ x \in Bit /\ y \in Bit
              /\ own' = [own EXCEPT ![p].e[c] = x, ![p].f[c] = y]
        <4>1. own' = [own EXCEPT
                ![p].e[cnt[p]] = Xor(tape.a[p][cnt[p]], eq[p][node[p]]),
                ![p].f[cnt[p]] = Xor(tape.b[p][cnt[p]], eq[p][node[p] + lev[p]])]
          BY <1>3 DEF AndStep1
        <4>2. /\ Xor(tape.a[p][cnt[p]], eq[p][node[p]]) \in Bit
              /\ Xor(tape.b[p][cnt[p]], eq[p][node[p] + lev[p]]) \in Bit
          BY BitFacts
        <4> QED
          BY <4>1, <4>2
      <3> DEFINE O1 == [own EXCEPT ![p].e[c] = x]
                 O2 == [O1 EXCEPT ![p].f[c] = y]
      <3>2. O1 \in [Party -> [Halves -> [Slots -> Bit]]]
        BY <2>1, <3>1 DEF TypeOK, Halves
      <3>3. O2 \in [Party -> [Halves -> [Slots -> Bit]]]
        <4> HIDE DEF O1
        <4> QED
          BY <2>1, <3>1, <3>2 DEF Halves
      <3> QED
        BY <3>1, <3>3
    <2> QED
      BY <1>c, <1>i, <1>3, <2>4, <2>5 DEF AndStep1, TypeOK
  <1>4. ASSUME NEW p \in Party, NEW t \in Threads, SendChunk(p, t)
        PROVE  TypeOK'
    <2>1. Len(wire[t]) \in Nat /\ Cap \in Nat /\ Len(wire[t]) < Cap
      BY <1>w, <1>4 DEF SendChunk, EqualityAssumption
    <2>2. \A u \in Threads : Len(wire'[u]) <= Cap
      <3>1. PICK x : wire' = [wire EXCEPT ![t] = Append(@, x)]
        BY <1>4 DEF SendChunk
      <3>2. Len(Append(wire[t], x)) = Len(wire[t]) + 1
        BY <1>w, <3>1
      <3> QED
        BY <1>w, <2>1, <3>1, <3>2 DEF TypeOK
    <2>3. moved' \in [Party -> [Threads -> 0..4]]
      <3>1. moved[p][t] \in 0..4 /\ moved[p][t] < 4
        BY <1>4 DEF SendChunk, Transfers, TypeOK
      <3>2. PICK m \in 0..4 : m = moved[p][t] + 1
        BY <3>1
      <3>3. moved' = [moved EXCEPT ![p][t] = m]
        BY <1>4, <3>2 DEF SendChunk
      <3> QED
        BY <3>3 DEF TypeOK
    <2> QED
      BY <1>c, <1>i, <1>4, <2>2, <2>3 DEF SendChunk, TypeOK
  <1>5. ASSUME NEW p \in Party, NEW t \in Threads, RecvChunk(p, t)
        PROVE  TypeOK'
    <2>1. wire[t] \in Seq(Seq(Bit)) /\ wire[t] # <<>>
      BY <1>w, <1>5 DEF RecvChunk
    <2>2. \A u \in Threads : Len(wire'[u]) <= Cap
      <3>1. Len(Tail(wire[t])) <= Len(wire[t]) /\ Len(Tail(wire[t])) \in Nat /\ Len(wire[t]) \in Nat
        BY <2>1
      <3>2. Cap \in Nat /\ wire' = [wire EXCEPT ![t] = Tail(@)]
        BY <1>5 DEF RecvChunk, EqualityAssumption
      <3> QED
        BY <1>w, <3>1, <3>2 DEF TypeOK
    <2>3. moved' \in [Party -> [Threads -> 0..4]]
      <3>1. moved[p][t] \in 0..4 /\ moved[p][t] < 4
        BY <1>5 DEF RecvChunk, Transfers, TypeOK
      <3>2. PICK m \in 0..4 : m = moved[p][t] + 1
        BY <3>1
      <3>3. moved' = [moved EXCEPT ![p][t] = m]
        BY <1>5, <3>2 DEF RecvChunk
      <3> QED
        BY <3>3 DEF TypeOK
    <2>4. opened' \in [Party -> [Halves -> [Slots -> Bit]]]
      <3>1. PICK h, O :
              /\ h \in Halves
              /\ opened' = [opened EXCEPT ![p][h] = O]
              /\ O = [s \in Slots |-> IF s \in LevelSlots(p)
                        THEN Byte(Head(wire[t]), s - old[p] + 1) ELSE opened[p][h][s]]
        <4>1. ChunkHalf(moved[p][t]) \in Halves
          BY DEF ChunkHalf, Halves
        <4> QED
          BY <1>5, <4>1 DEF RecvChunk, TypeOK
      <3>2. Head(wire[t]) \in Seq(Bit) /\ tape.junk \in Bit
        BY <2>1 DEF TypeOK, TapeType
      <3>3. \A n \in Nat \ {0} : Byte(Head(wire[t]), n) \in Bit
        BY <3>2 DEF Byte
      <3>4. \A s \in LevelSlots(p) : s - old[p] + 1 \in Nat \ {0}
        <4>1. old[p] \in Nat /\ cnt[p] \in Nat
          BY <1>n DEF TypeOK
        <4> QED
          BY <4>1 DEF LevelSlots
      <3>5. O \in [Slots -> Bit]
        BY <3>1, <3>3, <3>4 DEF TypeOK
      <3> QED
        BY <3>1, <3>5 DEF TypeOK
    <2> QED
      BY <1>c, <1>i, <1>5, <2>2, <2>3, <2>4 DEF RecvChunk, TypeOK
  <1>6. ASSUME NEW p \in Party, Join(p)
        PROVE  TypeOK'
    <2>1. opened' \in [Party -> [Halves -> [Slots -> Bit]]]
      <3>1. PICK O : /\ opened' = [opened EXCEPT ![p] = O]
                     /\ O = [h \in Halves |-> [s \in Slots |->
                              IF s \in LevelSlots(p) THEN Xor(opened[p][h][s], own[p][h][s])
                                                     ELSE opened[p][h][s]]]
        BY <1>6 DEF Join, TypeOK
      <3>2. O \in [Halves -> [Slots -> Bit]]
        BY <3>1, BitFacts DEF TypeOK
      <3>3. opened' = [opened EXCEPT ![p] = O]
        BY <3>1
      <3> QED
        BY <3>2, <3>3 DEF TypeOK
    <2>2. cnt' \in [Party -> 0..NumTriples] /\ moved' \in [Party -> [Threads -> 0..4]]
          /\ pc' \in [Party -> {"leaf", "triples", "and1", "exchange", "and2", "done"}]
      BY <1>6 DEF Join, TypeOK
    <2> QED
      BY <1>c, <1>i, <1>6, <2>1, <2>2 DEF Join, TypeOK
  <1>7. ASSUME NEW p \in Party, AndStep2(p)
        PROVE  TypeOK'
    <2>1. /\ cnt[p] \in Slots /\ lev[p] \in InnerLevel /\ lev[p] \in Nat /\ cnt[p] \in Nat
          /\ ~LastOfLevel(p) => NextNode(lev[p], node[p]) \in Joined(lev[p])
      BY <1>w, <1>7, Pass DEF AndStep2
    <2>2. cnt[p] + 1 \in 0..NumTriples
      BY <1>n, <2>1 DEF Slots
    <2>3. ~LastOfLevel(p) => NextNode(lev[p], node[p]) \in Digits
      BY <2>1, Nodes
    <2>4. 2 * lev[p] \in 1..(2 * NumDigits)
      BY <1>n, <2>1, Levels DEF InnerLevel
    <2>5. cnt' \in [Party -> 0..NumTriples] /\ node' \in [Party -> Digits]
      BY <1>7, <1>n, <2>2, <2>3 DEF AndStep2, TypeOK
    <2>6. /\ old' \in [Party -> 0..NumTriples] /\ lev' \in [Party -> 1..(2 * NumDigits)]
          /\ pc' \in [Party -> {"leaf", "triples", "and1", "exchange", "and2", "done"}]
      <3>1. CASE LastOfLevel(p)
        <4>1. PICK c \in 0..NumTriples, i \in 1..(2 * NumDigits), w \in {"done", "and1"} :
                /\ old' = [old EXCEPT ![p] = c] /\ lev' = [lev EXCEPT ![p] = i]
                /\ pc' = [pc EXCEPT ![p] = w]
          BY <1>7, <2>2, <2>4, <3>1 DEF AndStep2, OldAfter
        <4> QED
          BY <4>1 DEF TypeOK
      <3>2. CASE ~LastOfLevel(p)
        BY <1>7, <3>2 DEF AndStep2, TypeOK
      <3> QED
        BY <3>1, <3>2
    <2>7. eq' \in [Party -> [Digits -> Bit]]
      BY <1>7, BitFacts DEF AndStep2, TypeOK
    <2> QED
      BY <1>c, <1>i, <1>7, <2>5, <2>6, <2>7 DEF AndStep2, TypeOK
  <1>8. CASE UNCHANGED vars
    BY <1>c, <1>8 DEF vars, inputVars, TypeOK
  <1> QED
    BY <1>1, <1>2, <1>3, <1>4, <1>5, <1>6, <1>7, <1>8 DEF Next, Local, Thread

------------------------------------------------------------------------------
(* The sockets.                                                             *)

LEMMA LevelOfLog ==
  ASSUME EqualityAssumption, NEW k \in 0..6
  PROVE  /\ LevelAt(k) \in PowersOfTwo /\ CeilLog2(LevelAt(k)) = k
         /\ \A i \in PowersOfTwo : CeilLog2(i) = k => LevelAt(k) = i
  <1>1. \E i \in PowersOfTwo : CeilLog2(i) = k
    BY Logarithms DEF PowersOfTwo
  <1>2. LevelAt(k) \in PowersOfTwo /\ CeilLog2(LevelAt(k)) = k
    BY <1>1 DEF LevelAt
  <1> QED
    BY <1>2, LevelOrder

LEMMA SentRange ==
  ASSUME EqualityAssumption, TypeOK, NEW p \in Party, NEW t \in Threads, CountInv(p)
  PROVE  /\ Sent(p, t) \in Nat /\ CeilLog2(lev[p]) \in 0..6
         /\ Sent(p, t) = 4 * CeilLog2(lev[p]) + (IF pc[p] = "and2" THEN 4 ELSE moved[p][t])
  <1>1. CeilLog2(lev[p]) \in 0..6
    BY Levels DEF CountInv
  <1>2. moved[p][t] \in 0..4
    BY DEF TypeOK
  <1> QED
    BY <1>1, <1>2 DEF Sent

LEMMA SameChunk ==
  ASSUME NEW p, NEW n, own'[p] = own[p]
  PROVE  ChunkAt(p, n)' = ChunkAt(p, n)
  BY DEF ChunkAt, LevelAt, Start

\* The chunk that the next transfer of a party carries.
LEMMA ChunkNow ==
  ASSUME EqualityAssumption, TypeOK, NEW p \in Party, CountInv(p), pc[p] = "exchange",
         NEW n \in 0..3
  PROVE  \A q \in Party :
           ChunkAt(q, 4 * CeilLog2(lev[p]) + n)
             = [m \in 1..SizeUsed(p) |-> own[q][ChunkHalf(n)][old[p] + m - 1]]
  <1>1. PICK k \in 0..6 : k = CeilLog2(lev[p]) /\ LevelAt(k) = lev[p]
    BY Levels, LevelOfLog DEF CountInv
  <1>2. (4 * k + n) \div 4 = k /\ (4 * k + n) % 4 = n
    BY <1>1
  <1>3. SizeUsed(p) = Start(2 * lev[p]) - Start(lev[p]) /\ old[p] = Start(lev[p])
    BY DEF CountInv, SizeUsed
  <1>4. \A q : ChunkAt(q, 4 * k + n)
          = [m \in 1..(Start(2 * lev[p]) - Start(lev[p])) |->
               own[q][ChunkHalf(n)][Start(lev[p]) + m - 1]]
    BY <1>1, <1>2 DEF ChunkAt
  <1> QED
    BY <1>1, <1>3, <1>4

\* What AND_step_1 writes.
LEMMA MaskStep ==
  ASSUME EqualityAssumption, TypeOK, NEW p \in Party, CountInv(p), AndStep1(p)
  PROVE  /\ own'[p].e[cnt[p]] = Xor(tape.a[p][cnt[p]], eq[p][node[p]])
         /\ own'[p].f[cnt[p]] = Xor(tape.b[p][cnt[p]], eq[p][node[p] + lev[p]])
         /\ \A s \in Slots, h \in Halves : s # cnt[p] => own'[p][h][s] = own[p][h][s]
         /\ \A q \in Party : q # p => own'[q] = own[q]
  <1>1. cnt[p] \in Slots
    BY Pass DEF AndStep1
  <1>2. PICK c, x, y :
          /\ c = cnt[p] /\ x = Xor(tape.a[p][cnt[p]], eq[p][node[p]])
          /\ y = Xor(tape.b[p][cnt[p]], eq[p][node[p] + lev[p]])
          /\ own' = [own EXCEPT ![p].e[c] = x, ![p].f[c] = y]
    <2>1. own' = [own EXCEPT
            ![p].e[cnt[p]] = Xor(tape.a[p][cnt[p]], eq[p][node[p]]),
            ![p].f[cnt[p]] = Xor(tape.b[p][cnt[p]], eq[p][node[p] + lev[p]])]
      BY DEF AndStep1
    <2> QED
      BY <2>1
  <1> DEFINE E == [own[p].e EXCEPT ![c] = x]
             F == [own[p].f EXCEPT ![c] = y]
  <1>3. /\ own'[p].e = E /\ own'[p].f = F
        /\ \A q \in Party : q # p => own'[q] = own[q]
    BY <1>2 DEF TypeOK, Halves
  <1>4. own[p].e \in [Slots -> Bit] /\ own[p].f \in [Slots -> Bit]
    BY DEF TypeOK, Halves
  <1>5. /\ E[c] = x /\ F[c] = y
        /\ \A s \in Slots : s # c => E[s] = own[p].e[s] /\ F[s] = own[p].f[s]
    BY <1>1, <1>2, <1>4
  <1> HIDE DEF E, F
  <1>6. \A h \in Halves : h = "e" \/ h = "f"
    BY DEF Halves
  <1> QED
    BY <1>2, <1>3, <1>5, <1>6

\* Masking a node leaves the chunks of the levels below as they are.
LEMMA OldChunk ==
  ASSUME EqualityAssumption, TypeOK, NEW p \in Party, CountInv(p), AndStep1(p),
         NEW n \in Nat, n < 4 * CeilLog2(lev[p])
  PROVE  ChunkAt(p, n)' = ChunkAt(p, n)
  <1>1. /\ lev[p] \in PowersOfTwo /\ lev[p] \in InnerLevel /\ cnt[p] \in SlotsOf(lev[p])
        /\ cnt[p] \in Nat
    BY Pass DEF AndStep1
  <1>2. PICK L \in 0..6 : L = CeilLog2(lev[p])
    BY <1>1, Levels
  <1>3. n \div 4 \in 0..6 /\ n \div 4 < L
    BY <1>2
  <1>4. PICK i \in PowersOfTwo : i = LevelAt(n \div 4) /\ CeilLog2(i) = n \div 4
    BY <1>3, LevelOfLog
  <1>5. i < lev[p] /\ Start(2 * i) <= Start(lev[p])
    BY <1>1, <1>2, <1>3, <1>4, LevelOrder
  <1>6. /\ Start(i) \in Nat /\ Start(2 * i) \in Nat /\ Start(lev[p]) \in Nat
    BY <1>1, <1>5, Levels, LevelOrder
  <1>7. Start(lev[p]) <= cnt[p]
    BY <1>1, <1>6 DEF SlotsOf
  <1>8. \A m \in 1..(Start(2 * i) - Start(i)) : Start(i) + m - 1 # cnt[p] /\ Start(i) + m - 1 \in Slots
    <2>1. Start(lev[p]) <= NumTriples /\ NumTriples \in Nat
      BY <1>1, Levels, DigitsRange
    <2> QED
      BY <1>1, <1>5, <1>6, <1>7, <2>1 DEF Slots
  <1>9. \A s \in Slots, h \in Halves : s # cnt[p] => own'[p][h][s] = own[p][h][s]
    BY MaskStep
  <1>10. ChunkAt(p, n) = [m \in 1..(Start(2 * i) - Start(i)) |->
                           own[p][ChunkHalf(n % 4)][Start(i) + m - 1]]
    BY <1>4 DEF ChunkAt
  <1>11. ChunkAt(p, n)' = [m \in 1..(Start(2 * i) - Start(i)) |->
                            own'[p][ChunkHalf(n % 4)][Start(i) + m - 1]]
    BY <1>4 DEF ChunkAt, LevelAt, Start, ChunkHalf
  <1>12. ChunkHalf(n % 4) \in Halves
    BY DEF ChunkHalf, Halves
  <1> QED
    BY <1>8, <1>9, <1>10, <1>11, <1>12

LEMMA WireFrame ==
  ASSUME EqualityAssumption, TypeOK, FlowInv, NEW t \in Threads, wire'[t] = wire[t],
         \A p \in Party : Sent(p, t)' = Sent(p, t),
         \A n \in Nat : n < Sent(Sender(t), t) =>
            ChunkAt(Sender(t), n)' = ChunkAt(Sender(t), n)
  PROVE  WireInv(t)'
  <1>1. /\ Sender(t) \in Party /\ Receiver(t) \in Party /\ WireInv(t)
        /\ wire[t] \in Seq(Seq(Bit)) /\ Len(wire[t]) \in Nat
    BY ThreadFacts DEF FlowInv
  <1>2. PICK a \in Nat, b \in Nat, n \in Nat :
          /\ a = Sent(Sender(t), t) /\ b = Sent(Receiver(t), t) /\ n = Len(wire[t])
    BY <1>1, SentRange DEF FlowInv
  <1>3. a = b + n /\ \A k \in 1..n : wire[t][k] = ChunkAt(Sender(t), b + k - 1)
    BY <1>1, <1>2 DEF WireInv
  <1>4. \A k \in 1..n : b + k - 1 \in Nat /\ b + k - 1 < a
    BY <1>2, <1>3
  <1>5. /\ Sent(Sender(t), t)' = a /\ Sent(Receiver(t), t)' = b /\ Len(wire'[t]) = n
    BY <1>1, <1>2
  <1>6. \A k \in 1..n : wire'[t][k] = ChunkAt(Sender(t), b + k - 1)'
    BY <1>2, <1>3, <1>4
  <1> QED
    BY <1>3, <1>5, <1>6 DEF WireInv, Sender, Receiver, Peer

\* A step that is no transfer changes neither a socket nor the numbers.
LEMMA LocalSent ==
  ASSUME EqualityAssumption, TypeOK, FlowInv, NEW p \in Party, Local(p),
         NEW q \in Party, NEW t \in Threads
  PROVE  Sent(q, t)' = Sent(q, t)
  <1>1. CountInv(p) /\ MovedInv(p)
    BY DEF FlowInv
  <1>2. CASE q # p
    BY <1>2, LocalFrame DEF Sent
  <1>3. CASE q = p /\ (Generate(p) \/ AndStep1(p))
    <2>1. lev'[p] = lev[p] /\ moved'[p] = moved[p] /\ pc[p] # "and2" /\ pc'[p] # "and2"
      BY <1>3 DEF Generate, AndStep1, TypeOK
    <2> QED
      BY <1>3, <2>1 DEF Sent
  <1>4. CASE q = p /\ Join(p)
    <2>1. lev'[p] = lev[p] /\ moved[p][t] = 4 /\ pc[p] = "exchange" /\ pc'[p] = "and2"
      BY <1>4 DEF Join, AllArrived, Arrived, Transfers, TypeOK
    <2> QED
      BY <1>4, <2>1 DEF Sent
  <1>5. CASE q = p /\ AndStep2(p)
    <2>1. moved'[p] = moved[p] /\ moved[p][t] = 0 /\ pc[p] = "and2" /\ lev[p] \in InnerLevel
      BY <1>1, <1>5, Pass DEF AndStep2, MovedInv, TypeOK
    <2>2. CASE LastOfLevel(p)
      <3>1. lev'[p] = 2 * lev[p] /\ pc'[p] # "and2"
        BY <1>5, <2>2 DEF AndStep2, TypeOK
      <3>2. CeilLog2(2 * lev[p]) = CeilLog2(lev[p]) + 1 /\ CeilLog2(lev[p]) \in 0..6
        BY <2>1, Levels DEF InnerLevel
      <3>3. PICK k \in 0..6 : k = CeilLog2(lev[p])
        BY <3>2
      <3>4. Sent(p, t) = 4 * k + 4
        BY <2>1, <3>3 DEF Sent
      <3>5. Sent(p, t)' = 4 * (k + 1) + 0
        BY <2>1, <3>1, <3>2, <3>3 DEF Sent
      <3> QED
        BY <1>5, <3>3, <3>4, <3>5
    <2>3. CASE ~LastOfLevel(p)
      BY <1>5, <2>1, <2>3 DEF AndStep2, Sent
    <2> QED
      BY <2>2, <2>3
  <1> QED
    BY <1>2, <1>3, <1>4, <1>5 DEF Local

\* A transfer counts one chunk more, on its own socket and for its own party.
LEMMA ThreadSent ==
  ASSUME EqualityAssumption, TypeOK, FlowInv, NEW p \in Party, NEW t \in Threads, Thread(p, t),
         NEW q \in Party, NEW u \in Threads
  PROVE  /\ pc[p] = "exchange" /\ moved[p][t] \in 0..3
         /\ moved'[q][u] = IF q = p /\ u = t THEN moved[p][t] + 1 ELSE moved[q][u]
         /\ Sent(q, u)' = IF q = p /\ u = t THEN Sent(p, t) + 1 ELSE Sent(q, u)
  <1>1. /\ pc[p] = "exchange" /\ moved[p][t] < 4 /\ pc' = pc /\ lev' = lev
        /\ moved' = [moved EXCEPT ![p][t] = @ + 1]
    BY DEF Thread, SendChunk, RecvChunk, Transfers
  <1>2. moved[p][t] \in 0..4
    BY DEF TypeOK
  <1>3. moved'[q][u] = IF q = p /\ u = t THEN moved[p][t] + 1 ELSE moved[q][u]
    BY <1>1 DEF TypeOK
  <1>4. PICK k \in 0..6, m \in 0..3 : k = CeilLog2(lev[p]) /\ m = moved[p][t]
    <2>1. CeilLog2(lev[p]) \in 0..6
      BY SentRange DEF FlowInv
    <2>2. moved[p][t] \in 0..3
      BY <1>1, <1>2
    <2> QED
      BY <2>1, <2>2
  <1>5. CASE q = p /\ u = t
    <2>1. Sent(p, t) = 4 * k + m /\ Sent(p, t)' = 4 * k + (m + 1)
      BY <1>1, <1>3, <1>4, <1>5 DEF Sent
    <2>3. Sent(p, t)' = Sent(p, t) + 1
      BY <1>4, <2>1
    <2>4. moved[p][t] \in 0..3
      BY <1>4
    <2> QED
      BY <1>1, <1>3, <1>5, <2>3, <2>4
  <1>6. CASE ~(q = p /\ u = t)
    BY <1>1, <1>3, <1>4, <1>6 DEF Sent
  <1> QED
    BY <1>5, <1>6

LEMMA SendStep ==
  ASSUME EqualityAssumption, TypeOK, FlowInv, NEW p \in Party, NEW t \in Threads, SendChunk(p, t)
  PROVE  WireInv(t)' /\ wire'[t] \in Seq(Seq(Bit))
  <1>1. /\ p = Sender(t) /\ Receiver(t) \in Party /\ Receiver(t) # p /\ pc[p] = "exchange"
        /\ own' = own /\ CountInv(p) /\ CountInv(Receiver(t)) /\ WireInv(t)
        /\ wire[t] \in Seq(Seq(Bit))
    BY ThreadFacts DEF SendChunk, FlowInv
  <1>2. Thread(p, t)
    BY DEF Thread
  <1>3. PICK k \in 0..6, m \in 0..3 : k = CeilLog2(lev[p]) /\ m = moved[p][t]
    BY <1>1, <1>2, ThreadSent, SentRange
  <1>4. PICK x : x = [n \in 1..SizeUsed(p) |-> own[p][ChunkHalf(m)][old[p] + n - 1]]
                 /\ wire' = [wire EXCEPT ![t] = Append(@, x)]
    BY <1>3 DEF SendChunk
  <1>5. x = ChunkAt(p, 4 * k + m)
    <2>1. ChunkAt(p, 4 * CeilLog2(lev[p]) + m)
            = [n \in 1..SizeUsed(p) |-> own[p][ChunkHalf(m)][old[p] + n - 1]]
      BY <1>1, ChunkNow, Zenon
    <2> QED
      BY <1>3, <1>4, <2>1, Zenon
  <1>6. PICK a \in Nat, b \in Nat, n \in Nat :
          a = Sent(p, t) /\ b = Sent(Receiver(t), t) /\ n = Len(wire[t])
    BY <1>1, SentRange
  <1>7. /\ a = 4 * k + m /\ Sent(p, t)' = a + 1 /\ Sent(Receiver(t), t)' = b
        /\ a = b + n
    <2>1. a = 4 * k + m
      BY <1>1, <1>3, <1>6 DEF Sent
    <2>2. Sent(p, t)' = a + 1 /\ Sent(Receiver(t), t)' = b
      BY <1>1, <1>2, <1>6, ThreadSent
    <2> QED
      BY <1>1, <1>6, <2>1, <2>2 DEF WireInv
  <1>8. \A j \in 1..n : wire[t][j] = ChunkAt(p, b + j - 1)
    BY <1>1, <1>6 DEF WireInv
  <1>9. x \in Seq(Bit)
    <2>1. \A j \in 1..SizeUsed(p) : old[p] + j - 1 \in Slots
      <3>1. SizeUsed(p) = Start(2 * lev[p]) - Start(lev[p]) /\ old[p] = Start(lev[p])
        BY <1>1 DEF CountInv, SizeUsed
      <3>2. /\ Start(lev[p]) \in Nat /\ Start(2 * lev[p]) \in Nat /\ NumTriples \in Nat
            /\ Start(2 * lev[p]) <= NumTriples
        <4>1. lev[p] \in PowersOfTwo /\ lev[p] < NumDigits
          BY <1>1 DEF CountInv, InnerLevel
        <4>2. Start(lev[p]) \in Nat /\ Start(2 * lev[p]) \in 0..NumTriples
          BY <4>1, Levels
        <4> QED
          BY <4>2, DigitsRange
      <3>3. PICK c \in Nat, d \in Nat : c = Start(lev[p]) /\ d = Start(2 * lev[p]) /\ d <= NumTriples
        BY <3>2
      <3>4. SizeUsed(p) = d - c /\ old[p] = c
        BY <3>1, <3>3
      <3> QED
        BY <3>2, <3>3, <3>4 DEF Slots
    <2>2. SizeUsed(p) \in Nat
      <3>1. SizeUsed(p) = Start(2 * lev[p]) - Start(lev[p])
        BY <1>1 DEF CountInv, SizeUsed
      <3>2. /\ Start(lev[p]) \in Nat /\ Start(2 * lev[p]) \in Nat
            /\ Start(lev[p]) < Start(2 * lev[p])
        BY <1>1, Levels DEF CountInv, InnerLevel
      <3> QED
        BY <3>1, <3>2
    <2>3. own[p][ChunkHalf(m)] \in [Slots -> Bit]
      BY DEF ChunkHalf, Halves, TypeOK
    <2>4. PICK z, g : z \in Nat /\ z = SizeUsed(p) /\ g = own[p][ChunkHalf(m)]
      BY <2>2
    <2>5. x \in [1..z -> Bit]
      BY <1>4, <2>1, <2>3, <2>4
    <2> QED
      BY <2>4, <2>5
  <1>10. /\ wire'[t] = Append(wire[t], x) /\ wire'[t] \in Seq(Seq(Bit))
         /\ Len(wire'[t]) = n + 1 /\ wire'[t][n + 1] = x
         /\ \A j \in 1..n : wire'[t][j] = wire[t][j]
    <2>1. wire'[t] = Append(wire[t], x)
      BY <1>4 DEF FlowInv
    <2> QED
      BY <1>1, <1>6, <1>9, <2>1
  <1>11. \A i : ChunkAt(p, i)' = ChunkAt(p, i)
    BY <1>1, SameChunk
  <1>12. \A j \in 1..(n + 1) : wire'[t][j] = ChunkAt(p, b + j - 1)'
    <2> SUFFICES ASSUME NEW j \in 1..(n + 1) PROVE wire'[t][j] = ChunkAt(p, b + j - 1)
      BY <1>11
    <2>1. CASE j = n + 1
      <3>1. b + j - 1 = 4 * k + m
        BY <1>7, <2>1
      <3> QED
        BY <1>5, <1>10, <2>1, <3>1
    <2>2. CASE j \in 1..n
      BY <1>8, <1>10, <2>2
    <2> QED
      BY <2>1, <2>2
  <1> QED
    BY <1>1, <1>7, <1>10, <1>12 DEF WireInv, Sender, Receiver, Peer

LEMMA RecvStep ==
  ASSUME EqualityAssumption, TypeOK, FlowInv, NEW p \in Party, NEW t \in Threads, RecvChunk(p, t)
  PROVE  /\ WireInv(t)' /\ wire'[t] \in Seq(Seq(Bit))
         /\ Head(wire[t]) = ChunkAt(Sender(t), Sent(p, t))
         /\ Sent(p, t) < Sent(Sender(t), t)
  <1>1. /\ p = Receiver(t) /\ Sender(t) \in Party /\ Sender(t) # p /\ pc[p] = "exchange"
        /\ own' = own /\ CountInv(p) /\ CountInv(Sender(t)) /\ WireInv(t)
        /\ wire[t] \in Seq(Seq(Bit)) /\ wire[t] # <<>>
    <2>1. p # Sender(t) /\ p \in {Sender(t), Receiver(t)}
      BY ThreadFacts DEF RecvChunk, Party, Sender, Receiver, Peer
    <2> QED
      BY <2>1, ThreadFacts DEF RecvChunk, FlowInv
  <1>2. Thread(p, t)
    BY DEF Thread
  <1>3. PICK a \in Nat, b \in Nat, n \in Nat :
          a = Sent(Sender(t), t) /\ b = Sent(p, t) /\ n = Len(wire[t])
    BY <1>1, SentRange
  <1>4. a = b + n /\ \A j \in 1..n : wire[t][j] = ChunkAt(Sender(t), b + j - 1)
    BY <1>1, <1>3 DEF WireInv
  <1>5. Sent(Sender(t), t)' = a /\ Sent(p, t)' = b + 1
    BY <1>1, <1>2, <1>3, ThreadSent
  <1>6. /\ n > 0 /\ Head(wire[t]) = wire[t][1] /\ wire'[t] = Tail(wire[t])
        /\ wire'[t] \in Seq(Seq(Bit)) /\ Len(wire'[t]) = n - 1
        /\ \A j \in 1..(n - 1) : wire'[t][j] = wire[t][j + 1]
    <2>1. wire'[t] = Tail(wire[t])
      BY DEF RecvChunk, FlowInv
    <2>2. n > 0
      BY <1>1, <1>3
    <2> QED
      BY <1>1, <1>3, <2>1, <2>2
  <1>7. \A i : ChunkAt(Sender(t), i)' = ChunkAt(Sender(t), i)
    BY <1>1, SameChunk
  <1>8. \A j \in 1..(n - 1) : wire'[t][j] = ChunkAt(Sender(t), (b + 1) + j - 1)'
    <2> SUFFICES ASSUME NEW j \in 1..(n - 1)
                 PROVE  wire'[t][j] = ChunkAt(Sender(t), (b + 1) + j - 1)
      BY <1>7
    <2>1. j + 1 \in 1..n /\ b + (j + 1) - 1 = (b + 1) + j - 1
      BY <1>3
    <2> QED
      BY <1>4, <1>6, <2>1
  <1>9. b + 1 - 1 = b /\ a > b /\ a = (b + 1) + (n - 1)
    BY <1>3, <1>4, <1>6
  <1>10. Head(wire[t]) = ChunkAt(Sender(t), b)
    <2>1. 1 \in 1..n
      BY <1>6
    <2> QED
      BY <1>4, <1>6, <1>9, <2>1
  <1> QED
    BY <1>1, <1>3, <1>5, <1>6, <1>8, <1>9, <1>10 DEF WireInv, Sender, Receiver, Peer

LEMMA FlowStep ==
  ASSUME EqualityAssumption, TypeOK, FlowInv, [Next]_vars
  PROVE  FlowInv'
  <1>1. \A p \in Party : CountInv(p)'
    BY CountStep DEF FlowInv
  <1>2. \A p \in Party : MovedInv(p)'
    <2> SUFFICES ASSUME NEW q \in Party PROVE MovedInv(q)'
      OBVIOUS
    <2>0. MovedInv(q) /\ moved \in [Party -> [Threads -> 0..4]]
      BY DEF FlowInv, TypeOK
    <2>1. CASE LeafAlice \/ LeafBob
      <3>1. moved' = moved /\ (pc'[q] = pc[q] \/ pc[q] = "leaf")
        BY <2>1 DEF LeafAlice, LeafBob, TypeOK
      <3> QED
        BY <2>0, <3>1 DEF MovedInv
    <2>2. ASSUME NEW p \in Party, Local(p)
          PROVE  MovedInv(q)'
      <3>1. CASE q # p
        BY <2>0, <2>2, <3>1, LocalFrame DEF MovedInv
      <3>2. CASE q = p /\ Join(p)
        BY <2>0, <3>2 DEF Join, MovedInv
      <3>3. CASE q = p /\ ~Join(p)
        <4>1. moved' = moved /\ pc[p] # "exchange"
          BY <2>2, <3>3 DEF Local, Generate, AndStep1, AndStep2
        <4> QED
          BY <2>0, <3>3, <4>1 DEF MovedInv
      <3> QED
        BY <3>1, <3>2, <3>3
    <2>3. ASSUME NEW p \in Party, NEW t \in Threads, Thread(p, t)
          PROVE  MovedInv(q)'
      <3>1. pc' = pc
        BY <2>3 DEF Thread, SendChunk, RecvChunk
      <3> QED
        BY <2>0, <2>3, <3>1, ThreadSent DEF MovedInv
    <2>4. CASE UNCHANGED vars
      BY <2>0, <2>4 DEF MovedInv, vars
    <2> QED
      BY <2>1, <2>2, <2>3, <2>4 DEF Next
  <1>3. wire' \in [Threads -> Seq(Seq(Bit))] /\ \A t \in Threads : WireInv(t)'
    <2>0. wire \in [Threads -> Seq(Seq(Bit))]
      BY DEF FlowInv
    <2>1. CASE LeafAlice \/ LeafBob
      <3>1. \A q \in Party :
              /\ lev'[q] = lev[q] /\ moved'[q] = moved[q]
              /\ pc'[q] = pc[q] \/ (pc[q] # "and2" /\ pc'[q] # "and2")
        <4>1. CASE LeafAlice
          BY <4>1 DEF LeafAlice, TypeOK
        <4>2. CASE LeafBob
          BY <4>2 DEF LeafBob, TypeOK
        <4> QED
          BY <2>1, <4>1, <4>2
      <3>2. wire' = wire /\ own' = own
        BY <2>1 DEF LeafAlice, LeafBob
      <3>3. \A q \in Party, t \in Threads : Sent(q, t)' = Sent(q, t)
        BY <3>1 DEF Sent
      <3> QED
        BY <2>0, <3>2, <3>3, SameChunk, WireFrame
    <2>2. ASSUME NEW p \in Party, Local(p)
          PROVE  wire' \in [Threads -> Seq(Seq(Bit))] /\ \A t \in Threads : WireInv(t)'
      <3>1. wire' = wire /\ \A q \in Party, t \in Threads : Sent(q, t)' = Sent(q, t)
        BY <2>2, LocalSent DEF Local, Generate, AndStep1, Join, AndStep2
      <3>2. ASSUME NEW t \in Threads, NEW n \in Nat, n < Sent(Sender(t), t)
            PROVE  ChunkAt(Sender(t), n)' = ChunkAt(Sender(t), n)
        <4>1. CASE AndStep1(p) /\ p = Sender(t)
          <5>1. CountInv(p) /\ pc[p] = "and1" /\ moved[p][t] = 0
            BY <4>1 DEF FlowInv, MovedInv, AndStep1
          <5>2. Sent(p, t) = 4 * CeilLog2(lev[p])
            BY <5>1, SentRange
          <5> QED
            BY <3>2, <4>1, <5>1, <5>2, OldChunk
        <4>2. CASE ~(AndStep1(p) /\ p = Sender(t))
          <5>1. own'[Sender(t)] = own[Sender(t)]
            <6>1. CASE p = Sender(t)
              BY <2>2, <4>2, <6>1 DEF Local, Generate, Join, AndStep2
            <6>2. CASE p # Sender(t)
              BY <2>2, <6>2, LocalFrame, ThreadFacts
            <6> QED
              BY <6>1, <6>2
          <5> QED
            BY <5>1, SameChunk
        <4> QED
          BY <4>1, <4>2
      <3> QED
        BY <2>0, <3>1, <3>2, WireFrame
    <2>3. ASSUME NEW p \in Party, NEW t \in Threads, Thread(p, t)
          PROVE  wire' \in [Threads -> Seq(Seq(Bit))] /\ \A u \in Threads : WireInv(u)'
      <3>1. WireInv(t)' /\ wire'[t] \in Seq(Seq(Bit))
        BY <2>3, SendStep, RecvStep DEF Thread
      <3>2. own' = own /\ \E x : wire' = [wire EXCEPT ![t] = x]
        BY <2>3 DEF Thread, SendChunk, RecvChunk
      <3>3. wire' \in [Threads -> Seq(Seq(Bit))] /\ \A u \in Threads : u # t => wire'[u] = wire[u]
        BY <2>0, <3>1, <3>2
      <3>4. \A q \in Party, u \in Threads : u # t => Sent(q, u)' = Sent(q, u)
        BY <2>3, ThreadSent
      <3>5. \A u \in Threads : u # t => WireInv(u)'
        BY <3>2, <3>3, <3>4, SameChunk, WireFrame
      <3> QED
        BY <3>1, <3>3, <3>5
    <2>4. CASE UNCHANGED vars
      <3>1. wire' = wire /\ own' = own /\ \A q, t : Sent(q, t)' = Sent(q, t)
        BY <2>4 DEF vars, Sent
      <3> QED
        BY <2>0, <3>1, SameChunk, WireFrame
    <2> QED
      BY <2>1, <2>2, <2>3, <2>4 DEF Next
  <1> QED
    BY <1>1, <1>2, <1>3 DEF FlowInv

------------------------------------------------------------------------------
(* What is received and opened.                                             *)

LEMMA LevelSlotsOf ==
  ASSUME EqualityAssumption, NEW p \in Party, CountInv(p), pc[p] = "exchange"
  PROVE  /\ LevelSlots(p) = SlotsOf(lev[p]) /\ SizeUsed(p) = Start(2 * lev[p]) - Start(lev[p])
         /\ old[p] = Start(lev[p])
  BY DEF CountInv, SizeUsed, LevelSlots, SlotsOf

LEMMA SlotsRange ==
  ASSUME EqualityAssumption, NEW i \in InnerLevel
  PROVE  /\ SlotsOf(i) \subseteq Slots
         /\ \A s \in SlotsOf(i) : /\ s \in Nat /\ s - Start(i) + 1 \in 1..(Start(2 * i) - Start(i))
                                  /\ Start(i) + (s - Start(i) + 1) - 1 = s
  <1>1. PICK c, d, n : c = Start(i) /\ d = Start(2 * i) /\ n = NumTriples
    OBVIOUS
  <1>2. c \in Nat /\ d \in Nat /\ n \in Nat /\ d <= n
    BY <1>1, Levels, DigitsRange DEF InnerLevel
  <1> QED
    BY <1>1, <1>2 DEF SlotsOf, Slots

\* A party that masks values while the other has taken something of its own
\* level is at a later level: it does not overwrite what that party opens.
LEMMA Ahead ==
  ASSUME EqualityAssumption, TypeOK, FlowInv, NEW p \in Party, NEW q \in Party, q # p,
         \/ pc[p] = "and2"
         \/ pc[p] = "exchange" /\ \E t \in Threads : p = Receiver(t) /\ moved[p][t] > 0,
         pc[q] = "and1"
  PROVE  lev[p] < lev[q] /\ Start(2 * lev[p]) <= Start(lev[q])
  <1>1. PICK t \in Threads : p = Receiver(t) /\ (pc[p] = "and2" \/ moved[p][t] > 0)
    BY ThreadFacts
  <1>2. q = Sender(t)
    BY <1>1, ThreadFacts, Parties
  <1>3. /\ CountInv(p) /\ CountInv(q) /\ WireInv(t) /\ moved[q][t] = 0
        /\ lev[p] \in PowersOfTwo /\ lev[q] \in PowersOfTwo /\ Len(wire[t]) \in Nat
    BY DEF FlowInv, CountInv, MovedInv
  <1>4. PICK a \in Nat, b \in Nat, n \in Nat, m \in 0..4 :
          /\ a = CeilLog2(lev[p]) /\ b = CeilLog2(lev[q]) /\ n = Len(wire[t])
          /\ m = moved[p][t]
    <2>1. CeilLog2(lev[p]) \in Nat /\ CeilLog2(lev[q]) \in Nat
      BY <1>3, Levels
    <2>2. moved[p][t] \in 0..4
      BY DEF TypeOK
    <2> QED
      BY <1>3, <2>1, <2>2
  <1>5. Sent(q, t) = 4 * b + 0 /\ Sent(p, t) = 4 * a + (IF pc[p] = "and2" THEN 4 ELSE m)
    BY <1>3, <1>4 DEF Sent
  <1>6. Sent(q, t) = Sent(p, t) + n
    BY <1>1, <1>2, <1>3, <1>4 DEF WireInv
  <1>7. a < b
    <2>1. pc[p] = "and2" \/ m > 0
      BY <1>1, <1>4
    <2>2. 4 * b = 4 * a + (IF pc[p] = "and2" THEN 4 ELSE m) + n
      BY <1>4, <1>5, <1>6
    <2> QED
      BY SMTT(30), <1>4, <2>1, <2>2
  <1> QED
    BY <1>3, <1>4, <1>7, LevelOrder

LEMMA OwnKept ==
  ASSUME EqualityAssumption, TypeOK, FlowInv, NEW p \in Party, NEW q \in Party, q # p,
         \/ pc[p] = "and2"
         \/ pc[p] = "exchange" /\ \E t \in Threads : p = Receiver(t) /\ moved[p][t] > 0,
         Local(q), NEW s \in SlotsOf(lev[p]), NEW h \in Halves
  PROVE  own'[q][h][s] = own[q][h][s]
  <1>1. CASE AndStep1(q)
    <2>1. /\ CountInv(p) /\ CountInv(q) /\ pc[q] = "and1"
          /\ lev[p] \in InnerLevel /\ lev[p] \in PowersOfTwo /\ lev[q] \in PowersOfTwo
      BY <1>1 DEF FlowInv, CountInv, AndStep1
    <2>2. Start(2 * lev[p]) <= Start(lev[q])
      BY <2>1, Ahead
    <2>3. cnt[q] \in SlotsOf(lev[q]) /\ cnt[q] \in Nat
      BY <2>1, Pass
    <2>4. PICK c \in Nat, d \in Int : c = Start(lev[q]) /\ d = Start(2 * lev[p])
      <3>1. Start(lev[q]) \in Nat
        BY <2>1, Levels
      <3>2. Start(2 * lev[p]) \in Int
        <4>1. lev[p] \in PowersOfTwo /\ lev[p] < NumDigits
          BY <2>1 DEF InnerLevel
        <4> QED
          BY <4>1, Levels
      <3> QED
        BY <3>1, <3>2
    <2>5. s \in Nat /\ s < d /\ c <= cnt[q] /\ s \in Slots
      BY <2>1, <2>3, <2>4, SlotsRange DEF SlotsOf
    <2>6. s # cnt[q]
      BY <2>2, <2>3, <2>4, <2>5
    <2> QED
      BY <1>1, <2>1, <2>5, <2>6, MaskStep
  <1>2. CASE ~AndStep1(q)
    BY <1>2 DEF Local, Generate, Join, AndStep2
  <1> QED
    BY <1>1, <1>2

\* A received chunk holds the other party's masked values of this level.
LEMMA ReceiveStep ==
  ASSUME EqualityAssumption, TypeOK, FlowInv, NEW p \in Party, NEW t \in Threads, RecvChunk(p, t)
  PROVE  /\ pc[p] = "exchange" /\ p = Receiver(t) /\ moved[p][t] \in 0..3
         /\ \A s \in SlotsOf(lev[p]), h \in Halves :
              opened'[p][h][s] = IF h = ChunkHalf(moved[p][t]) THEN own[Sender(t)][h][s]
                                                               ELSE opened[p][h][s]
         /\ \A r \in Party : r # p => opened'[r] = opened[r]
  <1>1. /\ p = Receiver(t) /\ Sender(t) \in Party /\ pc[p] = "exchange" /\ CountInv(p)
        /\ lev[p] \in InnerLevel
    <2>1. p # Sender(t) /\ p \in {Sender(t), Receiver(t)} /\ Sender(t) \in Party
      BY ThreadFacts DEF RecvChunk, Party, Sender, Receiver, Peer
    <2> QED
      BY <2>1 DEF RecvChunk, FlowInv, CountInv
  <1>2. Thread(p, t)
    BY DEF Thread
  <1>3. moved[p][t] \in 0..3
    BY <1>1, <1>2, ThreadSent
  <1>4. PICK k \in 0..6, m \in 0..3, q \in Party :
          k = CeilLog2(lev[p]) /\ m = moved[p][t] /\ q = Sender(t)
    BY <1>1, <1>3, SentRange
  <1>5. Head(wire[t]) = ChunkAt(q, 4 * k + m)
    <2>1. Head(wire[t]) = ChunkAt(q, Sent(p, t))
      BY <1>4, RecvStep
    <2>2. Sent(p, t) = 4 * k + m
      BY <1>1, <1>4 DEF Sent
    <2> QED
      BY <2>1, <2>2
  <1>6. Head(wire[t]) = [n \in 1..SizeUsed(p) |-> own[q][ChunkHalf(m)][old[p] + n - 1]]
    <2>1. ChunkAt(q, 4 * CeilLog2(lev[p]) + m)
            = [n \in 1..SizeUsed(p) |-> own[q][ChunkHalf(m)][old[p] + n - 1]]
      BY <1>1, ChunkNow, Zenon
    <2> QED
      BY <1>4, <1>5, <2>1, Zenon
  <1>7. PICK O : /\ opened' = [opened EXCEPT ![p][ChunkHalf(m)] = O]
                 /\ O = [s \in Slots |-> IF s \in LevelSlots(p)
                           THEN Byte(Head(wire[t]), s - old[p] + 1)
                           ELSE opened[p][ChunkHalf(m)][s]]
    BY <1>4 DEF RecvChunk, TypeOK
  <1>8. \A s \in SlotsOf(lev[p]) : O[s] = own[q][ChunkHalf(m)][s]
    <2> SUFFICES ASSUME NEW s \in SlotsOf(lev[p])
                 PROVE  O[s] = own[q][ChunkHalf(m)][s]
      OBVIOUS
    <2>1. PICK x, c, d : x = Head(wire[t]) /\ c = Start(lev[p]) /\ d = Start(2 * lev[p])
      OBVIOUS
    <2>2. /\ s \in Slots /\ s - c + 1 \in 1..(d - c) /\ c + (s - c + 1) - 1 = s
      BY <1>1, <2>1, SlotsRange
    <2>3. O[s] = Byte(x, s - c + 1)
      BY <1>1, <1>7, <2>1, <2>2, LevelSlotsOf
    <2>4. x = [n \in 1..(d - c) |-> own[q][ChunkHalf(m)][c + n - 1]]
      BY <1>1, <1>6, <2>1, LevelSlotsOf
    <2>5. d - c \in Nat
      BY <1>1, <2>1, Levels DEF InnerLevel
    <2>6. Len(x) = d - c
      BY <2>4, <2>5
    <2>7. Byte(x, s - c + 1) = x[s - c + 1]
      BY <2>2, <2>5, <2>6 DEF Byte
    <2> QED
      BY <2>2, <2>3, <2>4, <2>7
  <1>9. ChunkHalf(m) \in Halves
    BY DEF ChunkHalf, Halves
  <1>10. /\ opened'[p][ChunkHalf(m)] = O
         /\ \A h \in Halves : h # ChunkHalf(m) => opened'[p][h] = opened[p][h]
         /\ \A r \in Party : r # p => opened'[r] = opened[r]
    BY <1>7, <1>9 DEF TypeOK
  <1> QED
    BY <1>1, <1>3, <1>4, <1>8, <1>10

LEMMA ReceivedFrame ==
  ASSUME NEW t \in Threads, ReceivedInv(t), NEW p \in Party, p = Receiver(t),
         pc'[p] = "exchange" =>
            pc[p] = "exchange" /\ lev'[p] = lev[p] /\ moved'[p][t] = moved[p][t],
         \A s \in SlotsOf(lev[p]), h \in Halves :
            pc[p] = "exchange" /\ moved[p][t] > 0 =>
               opened'[p][h][s] = opened[p][h][s] /\ own'[Peer(p)][h][s] = own[Peer(p)][h][s],
         moved[p][t] \in 0..4
  PROVE  ReceivedInv(t)'
  <1> SUFFICES ASSUME pc'[p] = "exchange", NEW s \in SlotsOf(lev[p])
               PROVE  /\ moved[p][t] > 0 => opened'[p].e[s] = own'[Peer(p)].e[s]
                      /\ moved[p][t] > 2 => opened'[p].f[s] = own'[Peer(p)].f[s]
    BY DEF ReceivedInv, SlotsOf, Start, Receiver, Sender, Peer
  <1>1. /\ pc[p] = "exchange"
        /\ moved[p][t] > 0 => opened[p].e[s] = own[Peer(p)].e[s]
        /\ moved[p][t] > 2 => opened[p].f[s] = own[Peer(p)].f[s]
    BY DEF ReceivedInv
  <1>2. "e" \in Halves /\ "f" \in Halves /\ (moved[p][t] > 2 => moved[p][t] > 0)
    BY DEF Halves
  <1> QED
    BY <1>1, <1>2

LEMMA ReceivedStep ==
  ASSUME EqualityAssumption, TypeOK, FlowInv, ExchangeInv, [Next]_vars, NEW t \in Threads
  PROVE  ReceivedInv(t)'
  <1>0. PICK p \in Party, q \in Party :
          /\ p = Receiver(t) /\ q = Sender(t) /\ q = Peer(p) /\ p # q
          /\ \A r \in Party : r = p \/ r = q
    BY ThreadFacts, Parties
  <1>a. /\ ReceivedInv(t) /\ MovedInv(p) /\ moved[p][t] \in 0..4
    BY DEF ExchangeInv, FlowInv, TypeOK
  <1>1. CASE LeafAlice \/ LeafBob
    <2>1. /\ pc'[p] = "exchange" => pc[p] = "exchange"
          /\ lev' = lev /\ moved' = moved /\ opened' = opened /\ own' = own
      BY <1>1 DEF LeafAlice, LeafBob, TypeOK
    <2> QED
      BY <1>0, <1>a, <2>1, ReceivedFrame
  <1>2. CASE Local(p)
    <2>1. CASE AndStep1(p)
      <3>1. moved'[p][t] = 0
        BY <1>a, <2>1 DEF AndStep1, MovedInv
      <3> QED
        BY <1>0, <3>1 DEF ReceivedInv, Receiver, Sender, Peer
    <2>2. CASE ~AndStep1(p)
      <3>1. pc'[p] # "exchange"
        BY <1>2, <2>2 DEF Local, Generate, Join, AndStep2, TypeOK
      <3> QED
        BY <1>0, <3>1 DEF ReceivedInv, Receiver, Sender, Peer
    <2> QED
      BY <2>1, <2>2
  <1>3. CASE Local(q)
    <2>1. pc'[p] = pc[p] /\ lev'[p] = lev[p] /\ moved'[p] = moved[p] /\ opened'[p] = opened[p]
      BY <1>0, <1>3, LocalFrame
    <2>2. ASSUME NEW s \in SlotsOf(lev[p]), NEW h \in Halves, pc[p] = "exchange", moved[p][t] > 0
          PROVE  own'[q][h][s] = own[q][h][s]
      BY <1>0, <1>3, <2>2, OwnKept
    <2> QED
      BY <1>0, <1>a, <2>1, <2>2, ReceivedFrame
  <1>4. ASSUME NEW r \in Party, NEW u \in Threads, SendChunk(r, u)
        PROVE  ReceivedInv(t)'
    <2>1. Thread(r, u) /\ r = Sender(u) /\ pc' = pc /\ lev' = lev /\ opened' = opened /\ own' = own
      BY <1>4 DEF Thread, SendChunk
    <2>2. moved'[p][t] = moved[p][t]
      <3>1. ~(p = r /\ t = u)
        BY <1>0, <2>1
      <3> QED
        BY <2>1, <3>1, ThreadSent
    <2> QED
      BY <1>0, <1>a, <2>1, <2>2, ReceivedFrame
  <1>5. ASSUME NEW r \in Party, NEW u \in Threads, RecvChunk(r, u)
        PROVE  ReceivedInv(t)'
    <2>1. Thread(r, u) /\ r = Receiver(u) /\ pc' = pc /\ lev' = lev /\ own' = own
      BY <1>5, ReceiveStep DEF Thread, RecvChunk
    <2>2. CASE r # p
      <3>1. moved'[p][t] = moved[p][t] /\ opened'[p] = opened[p]
        BY <1>5, <2>1, <2>2, ThreadSent, ReceiveStep
      <3> QED
        BY <1>0, <1>a, <2>1, <3>1, ReceivedFrame
    <2>3. CASE r = p
      <3>1. u = t
        BY <1>0, <2>1, <2>3, ThreadFacts
      <3>2. /\ pc[p] = "exchange" /\ moved'[p][t] = moved[p][t] + 1
        BY <2>1, <2>3, <3>1, ThreadSent
      <3>3. PICK m \in 0..3 : m = moved[p][t]
        BY <1>5, <2>3, <3>1, ReceiveStep
      <3>4. /\ ChunkHalf(m) = "e" <=> m < 2
            /\ ChunkHalf(m) = "f" <=> m >= 2
            /\ "e" \in Halves /\ "f" \in Halves
        BY DEF ChunkHalf, Halves
      <3>5. ASSUME NEW s \in SlotsOf(lev[p])
            PROVE  /\ opened'[p].e[s] = own[q].e[s]
                   /\ m >= 2 => opened'[p].f[s] = own[q].f[s]
        <4>1. \A h \in Halves :
                opened'[p][h][s] = IF h = ChunkHalf(m) THEN own[q][h][s] ELSE opened[p][h][s]
          <5>1. RecvChunk(p, t)
            BY <1>5, <2>3, <3>1
          <5>2. \A h \in Halves :
                  opened'[p][h][s] = IF h = ChunkHalf(moved[p][t]) THEN own[Sender(t)][h][s]
                                                                   ELSE opened[p][h][s]
            BY <5>1, <3>5, ReceiveStep
          <5> QED
            BY <1>0, <3>3, <5>2
        <4>2. /\ m > 0 => opened[p].e[s] = own[q].e[s]
              /\ m > 2 => opened[p].f[s] = own[q].f[s]
          BY <1>0, <1>a, <3>2, <3>3 DEF ReceivedInv
        <4>3. CASE m < 2
          BY <3>4, <4>1, <4>3
        <4>4. CASE m >= 2
          <5>1. m > 0
            BY <4>4
          <5> QED
            BY <3>4, <4>1, <4>2, <4>4, <5>1
        <4> QED
          BY <4>3, <4>4
      <3>6. moved'[p][t] > 2 => m >= 2
        BY <3>2, <3>3
      <3> QED
        BY <1>0, <2>1, <3>5, <3>6 DEF ReceivedInv, Receiver, Sender, Peer, SlotsOf, Start
    <2> QED
      BY <2>2, <2>3
  <1>6. CASE UNCHANGED vars
    BY <1>0, <1>a, <1>6, ReceivedFrame DEF vars
  <1> QED
    BY <1>0, <1>1, <1>2, <1>3, <1>4, <1>5, <1>6 DEF Next, Thread

LEMMA OpenFrame ==
  ASSUME NEW p \in Party, OpenInv(p),
         pc'[p] = "and2" => pc[p] = "and2" /\ lev'[p] = lev[p],
         \A s \in SlotsOf(lev[p]), h \in Halves : pc[p] = "and2" =>
            /\ opened'[p][h][s] = opened[p][h][s]
            /\ own'[ALICE][h][s] = own[ALICE][h][s] /\ own'[BOB][h][s] = own[BOB][h][s]
  PROVE  OpenInv(p)'
  <1> SUFFICES ASSUME pc'[p] = "and2", NEW s \in SlotsOf(lev[p]), NEW h \in Halves
               PROVE  opened'[p][h][s] = Xor(own'[ALICE][h][s], own'[BOB][h][s])
    BY DEF OpenInv, SlotsOf, Start
  <1> QED
    BY DEF OpenInv

LEMMA OpenStep ==
  ASSUME EqualityAssumption, TypeOK, FlowInv, ExchangeInv, [Next]_vars, NEW p \in Party
  PROVE  OpenInv(p)'
  <1>0. PICK q \in Party : /\ q = Peer(p) /\ p # q /\ {p, q} = {ALICE, BOB}
                           /\ \A r \in Party : r = p \/ r = q
    BY Parties
  <1>a. OpenInv(p)
    BY DEF ExchangeInv
  <1>1. CASE LeafAlice \/ LeafBob
    <2>1. /\ pc'[p] = "and2" => pc[p] = "and2"
          /\ lev' = lev /\ opened' = opened /\ own' = own
      BY <1>1 DEF LeafAlice, LeafBob, TypeOK
    <2> QED
      BY <1>a, <2>1, OpenFrame
  <1>2. CASE Local(p) /\ ~Join(p)
    <2>1. CASE pc[p] = "and2" /\ pc'[p] = "and2"
      <3>1. AndStep2(p) /\ opened' = opened /\ own' = own
        BY <1>2, <2>1 DEF Local, Generate, AndStep1, AndStep2
      <3>2. lev'[p] = lev[p]
        <4>1. ~LastOfLevel(p)
          BY <2>1, <3>1 DEF AndStep2, TypeOK
        <4> QED
          BY <3>1, <4>1 DEF AndStep2
      <3> QED
        BY <1>a, <2>1, <3>1, <3>2, OpenFrame
    <2>2. CASE pc'[p] # "and2"
      BY <2>2 DEF OpenInv
    <2>3. CASE pc[p] # "and2"
      <3>1. pc'[p] # "and2"
        BY <1>2, <2>3 DEF Local, Generate, AndStep1, AndStep2, TypeOK
      <3> QED
        BY <3>1 DEF OpenInv
    <2> QED
      BY <2>1, <2>2, <2>3
  <1>3. CASE Join(p)
    <2>1. /\ pc[p] = "exchange" /\ lev' = lev /\ own' = own /\ CountInv(p) /\ lev[p] \in InnerLevel
      BY <1>3 DEF Join, FlowInv, CountInv
    <2>2. PICK t \in Threads : p = Receiver(t)
      BY ThreadFacts
    <2>3. moved[p][t] = 4 /\ ReceivedInv(t)
      BY <1>3 DEF Join, AllArrived, Arrived, Transfers, ExchangeInv
    <2>4. ASSUME NEW s \in SlotsOf(lev[p]), NEW h \in Halves
          PROVE  opened'[p][h][s] = Xor(own[ALICE][h][s], own[BOB][h][s])
      <3>1. opened[p][h][s] = own[q][h][s]
        <4>1. opened[p].e[s] = own[q].e[s] /\ opened[p].f[s] = own[q].f[s]
          BY <1>0, <2>1, <2>2, <2>3 DEF ReceivedInv
        <4> QED
          BY <4>1 DEF Halves
      <3>2. s \in Slots /\ s \in LevelSlots(p)
        BY <2>1, LevelSlotsOf, SlotsRange
      <3>3. opened'[p][h][s] = Xor(opened[p][h][s], own[p][h][s])
        <4>1. opened'[p] = [k \in Halves |-> [n \in Slots |->
                 IF n \in LevelSlots(p) THEN Xor(opened[p][k][n], own[p][k][n]) ELSE opened[p][k][n]]]
          BY <1>3 DEF Join, TypeOK
        <4> QED
          BY <3>2, <4>1
      <3>4. \A a, b : Xor(a, b) = Xor(b, a)
        BY DEF Xor
      <3>5. (p = ALICE /\ q = BOB) \/ (p = BOB /\ q = ALICE)
        BY <1>0
      <3> QED
        BY <3>1, <3>3, <3>4, <3>5
    <2> QED
      BY <2>1, <2>4 DEF OpenInv, SlotsOf, Start
  <1>4. CASE Local(q)
    <2>1. pc'[p] = pc[p] /\ lev'[p] = lev[p] /\ opened'[p] = opened[p] /\ own'[p] = own[p]
      BY <1>0, <1>4, LocalFrame
    <2>2. ASSUME NEW s \in SlotsOf(lev[p]), NEW h \in Halves, pc[p] = "and2"
          PROVE  own'[q][h][s] = own[q][h][s]
      BY <1>0, <1>4, <2>2, OwnKept
    <2>3. (p = ALICE /\ q = BOB) \/ (p = BOB /\ q = ALICE)
      BY <1>0
    <2> QED
      BY <1>a, <2>1, <2>2, <2>3, OpenFrame
  <1>5. ASSUME NEW r \in Party, NEW u \in Threads, Thread(r, u)
        PROVE  OpenInv(p)'
    <2>1. /\ pc' = pc /\ lev' = lev /\ own' = own /\ pc[r] = "exchange"
      BY <1>5 DEF Thread, SendChunk, RecvChunk
    <2>2. pc[p] = "and2" => opened'[p] = opened[p]
      BY <1>5, <2>1, ReceiveStep DEF Thread, SendChunk
    <2> QED
      BY <1>a, <2>1, <2>2, OpenFrame
  <1>6. CASE UNCHANGED vars
    BY <1>a, <1>6, OpenFrame DEF vars
  <1> QED
    BY <1>0, <1>1, <1>2, <1>3, <1>4, <1>5, <1>6 DEF Next, Local

LEMMA ExchangeStep ==
  ASSUME EqualityAssumption, TypeOK, FlowInv, ExchangeInv, [Next]_vars
  PROVE  ExchangeInv'
  BY ReceivedStep, OpenStep DEF ExchangeInv

------------------------------------------------------------------------------
(* The parties' progress.                                                   *)

\* A party at a later level than the other has merged all of the level before
\* and opened nothing of its own, and the other has sent all of its values.
LEMMA InStep ==
  ASSUME EqualityAssumption, TypeOK, FlowInv, NEW p \in Party, NEW q \in Party, q # p,
         lev[p] > lev[q]
  PROVE  lev[p] = 2 * lev[q] /\ pc[q] \in {"exchange", "and2"} /\ pc[p] # "and2"
  <1>1. PICK t \in Threads : p = Receiver(t) /\ q = Sender(t)
    BY ThreadFacts, Parties
  <1>2. /\ CountInv(p) /\ CountInv(q) /\ WireInv(t) /\ MovedInv(q)
        /\ lev[p] \in PowersOfTwo /\ lev[q] \in PowersOfTwo /\ Len(wire[t]) \in Nat
    BY DEF FlowInv, CountInv
  <1>3. PICK a \in Nat, b \in Nat, n \in Nat, m \in 0..4, k \in 0..4 :
          /\ a = CeilLog2(lev[p]) /\ b = CeilLog2(lev[q]) /\ n = Len(wire[t])
          /\ m = (IF pc[p] = "and2" THEN 4 ELSE moved[p][t])
          /\ k = (IF pc[q] = "and2" THEN 4 ELSE moved[q][t])
    <2>1. CeilLog2(lev[p]) \in Nat /\ CeilLog2(lev[q]) \in Nat
      BY <1>2, Levels
    <2>2. moved[p][t] \in 0..4 /\ moved[q][t] \in 0..4
      BY DEF TypeOK
    <2>3. (IF pc[p] = "and2" THEN 4 ELSE moved[p][t]) \in 0..4
      BY <2>2
    <2>4. (IF pc[q] = "and2" THEN 4 ELSE moved[q][t]) \in 0..4
      BY <2>2
    <2> QED
      BY <1>2, <2>1, <2>3, <2>4
  <1>4. 4 * b + k = 4 * a + m + n
    BY <1>1, <1>2, <1>3 DEF WireInv, Sent
  <1>5. b < a
    <2>1. lev[p] \in Nat /\ lev[q] \in Nat
      BY <1>2, Levels
    <2>2. lev[q] < lev[p]
      BY <2>1
    <2> QED
      BY <1>2, <1>3, <2>2, LevelOrder
  <1>6. a = b + 1 /\ k = 4 /\ m = 0
    BY <1>4, <1>5
  <1>7. pc[p] # "and2"
    BY <1>3, <1>6
  <1>8. pc[q] \in {"exchange", "and2"}
    <2>1. CASE pc[q] # "and2" /\ pc[q] # "exchange"
      <3>1. moved[q][t] = 0
        BY <1>2, <2>1 DEF MovedInv
      <3> QED
        BY <1>3, <1>6, <2>1, <3>1
    <2> QED
      BY <2>1
  <1>9. lev[q] \in InnerLevel
    BY <1>2, <1>8 DEF CountInv
  <1>10. 2 * lev[q] \in PowersOfTwo /\ CeilLog2(2 * lev[q]) = CeilLog2(lev[q]) + 1
    BY <1>9, Levels DEF InnerLevel
  <1>11. CeilLog2(2 * lev[q]) = CeilLog2(lev[p])
    BY <1>3, <1>6, <1>10
  <1>12. lev[p] = 2 * lev[q]
    BY <1>2, <1>10, <1>11, LevelOrder
  <1> QED
    BY <1>7, <1>8, <1>12

\* While a party masks its values the other has opened none of that level.
LEMMA NoneMerged ==
  ASSUME EqualityAssumption, TypeOK, FlowInv, NEW p \in Party, NEW q \in Party, q # p,
         pc[p] = "and1"
  PROVE  /\ lev[q] <= lev[p] /\ lev[p] \in Nat /\ lev[q] \in Nat
         /\ ~(lev[q] = lev[p] /\ pc[q] = "and2")
  <1>1. lev[p] \in Nat /\ lev[q] \in Nat
    BY Levels DEF FlowInv, CountInv
  <1>2. ~(lev[q] > lev[p])
    BY InStep
  <1>3. ~(lev[q] = lev[p] /\ pc[q] = "and2")
    <2>1. pc[q] = "and2" => lev[q] < lev[p]
      BY Ahead
    <2> QED
      BY <1>1, <2>1
  <1> QED
    BY <1>1, <1>2, <1>3

LEMMA LevelNat ==
  ASSUME EqualityAssumption, FlowInv, NEW p \in Party
  PROVE  lev[p] \in PowersOfTwo /\ lev[p] \in Nat /\ lev[p] > 0
  BY Levels DEF FlowInv, CountInv

LEMMA NodeNat ==
  ASSUME EqualityAssumption, NEW i \in PowersOfTwo, NEW j \in NodesOf(i)
  PROVE  j \in Digits /\ j \in Nat /\ i \in Nat
  BY DigitsRange, Levels DEF NodesOf, Digits

\* Masking takes the party's next node and merges nothing.
LEMMA MaskProgress ==
  ASSUME EqualityAssumption, TypeOK, FlowInv, NEW p \in Party, AndStep1(p)
  PROVE  /\ ~Masked(p, lev[p], node[p])
         /\ \A j : Reached(p, j) = lev[p] /\ Reached(p, j)' = lev[p]
         /\ \A i, j : Merged(p, i, j)' <=> Merged(p, i, j)
         /\ \A i \in InnerLevel : \A j \in Joined(i) :
              Masked(p, i, j)' <=> (Masked(p, i, j) \/ (i = lev[p] /\ j = node[p]))
         /\ pc[p] = "and1" /\ pc'[p] # "leaf"
  <1>1. /\ pc[p] = "and1" /\ lev'[p] = lev[p] /\ lev[p] \in InnerLevel
        /\ node[p] \in Joined(lev[p]) /\ node[p] \in Nat /\ lev[p] \in Nat
    BY Pass DEF AndStep1, FlowInv
  <1>2. /\ LastOfLevel(p) => node'[p] = 0 /\ pc'[p] = "exchange"
        /\ ~LastOfLevel(p) => node'[p] = node[p] + 2 * lev[p] /\ pc'[p] = "and1"
    BY DEF AndStep1, TypeOK, NextNode
  <1>3. LastOfLevel(p) <=> ~(node[p] + 2 * lev[p] + lev[p] < NumDigits)
    <2>1. NumDigits \in Nat
      BY DigitsRange
    <2> QED
      BY <1>1, <2>1 DEF LastOfLevel, HasPartner, NextNode
  <1>4. ASSUME NEW j \in Joined(lev[p])
        PROVE  /\ j \in Nat /\ j + lev[p] < NumDigits
               /\ j < node[p] => j + 2 * lev[p] <= node[p]
               /\ node[p] < j => node[p] + 2 * lev[p] <= j
    BY <1>1, <1>4, Nodes, NodesApart DEF Joined
  <1>5. ASSUME NEW j \in Joined(lev[p])
        PROVE  Masked(p, lev[p], j)' <=> (Masked(p, lev[p], j) \/ j = node[p])
    <2>1. PICK i \in Nat \ {0}, k \in Nat, n \in Nat : i = lev[p] /\ k = node[p] /\ n = NumDigits
      BY <1>1, DigitsRange, LevelNat
    <2>2. /\ j \in Nat /\ j + i < n /\ (j < k => j + 2 * i <= k) /\ (k < j => k + 2 * i <= j)
      BY <1>4, <1>5, <2>1
    <2>3. Masked(p, lev[p], j) <=> j < k
      BY <1>1, <2>1 DEF Masked
    <2>4. CASE LastOfLevel(p)
      <3>1. Masked(p, lev[p], j)'
        BY <1>1, <1>2, <2>4 DEF Masked
      <3>2. ~(k + 2 * i + i < n)
        BY <1>3, <2>1, <2>4
      <3>3. j < k \/ j = k
        BY <2>1, <2>2, <3>2
      <3> QED
        BY <2>1, <2>3, <3>1, <3>3
    <2>5. CASE ~LastOfLevel(p)
      <3>1. Masked(p, lev[p], j)' <=> j < k + 2 * i
        BY <1>1, <1>2, <2>1, <2>5 DEF Masked
      <3>2. j < k + 2 * i <=> (j < k \/ j = k)
        BY <2>1, <2>2
      <3> QED
        BY <2>1, <2>3, <3>1, <3>2
    <2> QED
      BY <2>4, <2>5
  <1>6. ASSUME NEW i \in InnerLevel, NEW j \in Joined(i), i # lev[p]
        PROVE  Masked(p, i, j)' <=> Masked(p, i, j)
    BY <1>1, <1>6 DEF Masked
  <1>7. ~Masked(p, lev[p], node[p])
    BY <1>1 DEF Masked
  <1>8. \A j : Reached(p, j) = lev[p] /\ Reached(p, j)' = lev[p]
    BY <1>1, <1>2 DEF Reached
  <1>9. \A i, j : Merged(p, i, j)' <=> Merged(p, i, j)
    BY <1>1, <1>2 DEF Merged
  <1> QED
    BY <1>1, <1>2, <1>5, <1>6, <1>7, <1>8, <1>9

\* Merging takes the party's next node, and with the last one the nodes of
\* the level that have no partner.
LEMMA MergeProgress ==
  ASSUME EqualityAssumption, TypeOK, FlowInv, NEW p \in Party, AndStep2(p)
  PROVE  /\ pc[p] = "and2" /\ pc'[p] # "leaf" /\ Masked(p, lev[p], node[p])
         /\ ~Merged(p, lev[p], node[p])
         /\ Reached(p, node[p]) = lev[p]
         /\ \A j : j = node[p] => Reached(p, j)' = 2 * lev[p]
         /\ \A j \in Nat : \/ Reached(p, j)' = Reached(p, j)
                           \/ Reached(p, j) = lev[p] /\ Reached(p, j)' = 2 * lev[p]
         /\ \A j \in Joined(lev[p]) : j # node[p] => Reached(p, j)' = Reached(p, j)
                                                     \/ ~(Reached(p, j) = lev[p])
         /\ \A i \in InnerLevel : \A j \in Joined(i) :
              /\ Masked(p, i, j)' <=> Masked(p, i, j)
              /\ Merged(p, i, j)' <=> (Merged(p, i, j) \/ (i = lev[p] /\ j = node[p]))
  <1>1. /\ pc[p] = "and2" /\ lev[p] \in InnerLevel
        /\ node[p] \in Joined(lev[p]) /\ node[p] \in Nat /\ lev[p] \in Nat \ {0}
    BY Pass, LevelNat DEF AndStep2, FlowInv
  <1>2. /\ LastOfLevel(p) =>
             /\ node'[p] = 0 /\ lev'[p] = 2 * lev[p]
             /\ pc'[p] = IF 2 * lev[p] >= NumDigits THEN "done" ELSE "and1"
        /\ ~LastOfLevel(p) =>
             /\ node'[p] = node[p] + 2 * lev[p] /\ pc'[p] = "and2" /\ lev'[p] = lev[p]
    BY DEF AndStep2, TypeOK, NextNode
  <1>3. PICK i \in Nat \ {0}, k \in Nat, n \in Nat : i = lev[p] /\ k = node[p] /\ n = NumDigits
    BY <1>1, DigitsRange
  <1>4. LastOfLevel(p) <=> ~(k + 2 * i + i < n)
    BY <1>3 DEF LastOfLevel, HasPartner, NextNode
  <1>5. ASSUME NEW j \in Joined(i)
        PROVE  /\ j \in Nat /\ j + i < n
               /\ j < k => j + 2 * i <= k
               /\ k < j => k + 2 * i <= j
               /\ LastOfLevel(p) => j <= k
    <2>1. /\ j \in Nat /\ j + i < n
          /\ j < k => j + 2 * i <= k
          /\ k < j => k + 2 * i <= j
      BY <1>1, <1>3, <1>5, Nodes, NodesApart DEF Joined
    <2> QED
      BY <1>3, <1>4, <2>1
  <1>6. /\ Masked(p, lev[p], node[p]) /\ ~Merged(p, lev[p], node[p])
        /\ Reached(p, node[p]) = lev[p]
    BY <1>1 DEF Masked, Merged, Reached
  <1>7. Reached(p, k)' = 2 * i
    <2>1. CASE LastOfLevel(p)
      BY <1>2, <1>3, <2>1 DEF Reached
    <2>2. CASE ~LastOfLevel(p)
      <3>1. k < k + 2 * i
        BY <1>3
      <3> QED
        BY <1>2, <1>3, <2>2, <3>1 DEF Reached
    <2> QED
      BY <2>1, <2>2
  <1>8. ASSUME NEW j \in Nat
        PROVE  \/ Reached(p, j)' = Reached(p, j)
               \/ Reached(p, j) = lev[p] /\ Reached(p, j)' = 2 * lev[p]
    <2>1. Reached(p, j) = IF j < k THEN 2 * i ELSE i
      BY <1>1, <1>3 DEF Reached
    <2>2. CASE LastOfLevel(p)
      <3>1. Reached(p, j)' = 2 * i
        BY <1>2, <1>3, <2>2 DEF Reached
      <3> QED
        BY <1>3, <2>1, <3>1
    <2>3. CASE ~LastOfLevel(p) /\ j < k
      <3>1. Reached(p, j)' = IF j < k + 2 * i THEN 2 * i ELSE i
        BY <1>2, <1>3, <2>3 DEF Reached
      <3>2. Reached(p, j) = 2 * i
        BY <2>1, <2>3
      <3> QED
        BY <1>3, <2>3, <3>1, <3>2
    <2>4. CASE ~LastOfLevel(p) /\ ~(j < k)
      <3>1. Reached(p, j)' = IF j < k + 2 * i THEN 2 * i ELSE i
        BY <1>2, <1>3, <2>4 DEF Reached
      <3> QED
        BY <1>3, <2>1, <2>4, <3>1
    <2> QED
      BY <2>2, <2>3, <2>4
  <1>9. ASSUME NEW j \in Joined(i), j # k, Reached(p, j) = i
        PROVE  Reached(p, j)' = Reached(p, j)
    <2>1. ~(j < k)
      <3>1. j < k => Reached(p, j) = 2 * i
        BY <1>1, <1>3 DEF Reached
      <3>2. 2 * i # i
        BY <1>3
      <3> QED
        BY <1>9, <3>1, <3>2
    <2>2. k < j /\ k + 2 * i <= j /\ ~LastOfLevel(p) /\ ~(j < k + 2 * i)
      BY <1>3, <1>5, <1>9, <2>1
    <2> QED
      BY <1>2, <1>3, <1>9, <2>2 DEF Reached
  <1>10. ASSUME NEW m \in InnerLevel, NEW j \in Joined(m)
         PROVE  Masked(p, m, j)' <=> Masked(p, m, j)
    <2>1. m \in Nat /\ m < n
      BY <1>3, Levels DEF InnerLevel
    <2>2. Masked(p, m, j) <=> (i > m \/ i = m)
      BY <1>1, <1>3 DEF Masked
    <2>3. CASE LastOfLevel(p)
      <3>1. CASE 2 * i >= n
        <4>1. Masked(p, m, j)' <=> 2 * i > m
          BY <1>2, <1>3, <2>1, <2>3, <3>1 DEF Masked
        <4>2. 2 * i > m /\ (i > m \/ i = m \/ m > i)
          BY <1>3, <2>1, <3>1
        <4>3. m > i => 2 * i <= m
          <5>1. i \in PowersOfTwo /\ m \in PowersOfTwo
            BY <1>1, <1>3 DEF InnerLevel
          <5> QED
            BY <5>1, LevelOrder
        <4> QED
          BY <1>3, <2>1, <2>2, <3>1, <4>1, <4>2, <4>3
      <3>2. CASE ~(2 * i >= n)
        <4>1. Masked(p, m, j)' <=> (2 * i > m \/ (2 * i = m /\ j < 0))
          BY <1>2, <1>3, <2>3, <3>2 DEF Masked
        <4>2. j \in Nat
          BY <1>10, Nodes
        <4>3. m > i => 2 * i <= m
          <5>1. i \in PowersOfTwo /\ m \in PowersOfTwo
            BY <1>1, <1>3 DEF InnerLevel
          <5> QED
            BY <5>1, LevelOrder
        <4> QED
          BY <1>3, <2>1, <2>2, <4>1, <4>2, <4>3
      <3> QED
        BY <3>1, <3>2
    <2>4. CASE ~LastOfLevel(p)
      BY <1>2, <1>3, <2>2, <2>4 DEF Masked
    <2> QED
      BY <2>3, <2>4
  <1>11. ASSUME NEW m \in InnerLevel, NEW j \in Joined(m)
         PROVE  Merged(p, m, j)' <=> (Merged(p, m, j) \/ (m = i /\ j = k))
    <2>1. m \in Nat /\ m < n /\ m \in PowersOfTwo /\ i \in PowersOfTwo
      BY <1>1, <1>3, Levels DEF InnerLevel
    <2>2. Merged(p, m, j) <=> (i > m \/ (i = m /\ j < k))
      BY <1>1, <1>3 DEF Merged
    <2>3. CASE LastOfLevel(p)
      <3>1. Merged(p, m, j)' <=> 2 * i > m
        <4>1. pc'[p] # "and2" /\ lev'[p] = 2 * i
          BY <1>2, <1>3, <2>3
        <4> QED
          BY <4>1 DEF Merged
      <3>2. m > i => 2 * i <= m
        BY <2>1, LevelOrder
      <3>3. m = i => (j < k \/ j = k)
        BY <1>3, <1>5, <1>11, <2>3
      <3> QED
        BY <1>3, <2>1, <2>2, <3>1, <3>2, <3>3
    <2>4. CASE ~LastOfLevel(p)
      <3>1. Merged(p, m, j)' <=> (i > m \/ (i = m /\ j < k + 2 * i))
        BY <1>2, <1>3, <2>4 DEF Merged
      <3>2. m = i => (j < k + 2 * i <=> (j < k \/ j = k))
        BY <1>3, <1>5, <1>11
      <3> QED
        BY <2>2, <3>1, <3>2
    <2> QED
      BY <2>3, <2>4
  <1>12. pc'[p] # "leaf"
    BY <1>2
  <1>13. /\ pc[p] = "and2" /\ pc'[p] # "leaf" /\ Masked(p, lev[p], node[p])
         /\ ~Merged(p, lev[p], node[p])
         /\ Reached(p, node[p]) = lev[p]
         /\ \A j : j = node[p] => Reached(p, j)' = 2 * lev[p]
    BY <1>1, <1>3, <1>6, <1>7, <1>12
  <1>14. \A j \in Joined(lev[p]) : j # node[p] => Reached(p, j)' = Reached(p, j)
                                                  \/ ~(Reached(p, j) = lev[p])
    BY <1>3, <1>9
  <1>15. \A m \in InnerLevel : \A j \in Joined(m) :
           /\ Masked(p, m, j)' <=> Masked(p, m, j)
           /\ Merged(p, m, j)' <=> (Merged(p, m, j) \/ (m = lev[p] /\ j = node[p]))
    BY <1>3, <1>10, <1>11
  <1> QED
    BY <1>8, <1>13, <1>14, <1>15

------------------------------------------------------------------------------
(* What the nodes stand for.                                                *)

LEMMA NodeEqual ==
  ASSUME EqualityAssumption
  PROVE  /\ \A i \in InnerLevel : \A j \in Joined(i) :
              Equal(2 * i, j) = And(Equal(i, j), Equal(i, j + i))
         /\ \A i \in InnerLevel : \A j \in NodesOf(2 * i) :
              j \notin Joined(i) => Equal(2 * i, j) = Equal(i, j)
         /\ \A j \in Digits : Equal(1, j) = BitOf(Digit(data[ALICE], j) = Digit(data[BOB], j))
  <1>0. NumDigits \in Nat
    BY DigitsRange
  <1>1. ASSUME NEW i \in InnerLevel, NEW j \in Joined(i)
        PROVE  Equal(2 * i, j) = And(Equal(i, j), Equal(i, j + i))
    <2>1. i \in Nat \ {0} /\ j \in Nat /\ j + i < NumDigits
      BY Levels, Nodes DEF InnerLevel, Joined
    <2>2. PICK hi \in Nat : /\ hi = RangeEnd(2 * i, j) /\ hi = RangeEnd(i, j + i) /\ j + i < hi
                            /\ RangeEnd(i, j) = j + i
      <3>1. j + 2 * i = (j + i) + i
        BY <2>1
      <3>2. RangeEnd(2 * i, j) \in Nat /\ j + i < RangeEnd(2 * i, j)
        BY <1>0, <2>1 DEF RangeEnd
      <3> QED
        BY <2>1, <3>1, <3>2 DEF RangeEnd
    <2>3. \A m : m \in j..(hi - 1) <=> (m \in j..((j + i) - 1) \/ m \in (j + i)..(hi - 1))
      BY <2>1, <2>2
    <2>4. RangeEqual(j, hi) <=> RangeEqual(j, j + i) /\ RangeEqual(j + i, hi)
      BY <2>3 DEF RangeEqual
    <2> QED
      BY <2>2, <2>4 DEF Equal, And, BitOf
  <1>2. ASSUME NEW i \in InnerLevel, NEW j \in NodesOf(2 * i), j \notin Joined(i)
        PROVE  Equal(2 * i, j) = Equal(i, j)
    <2>1. i \in Nat \ {0} /\ j \in Nat /\ ~(j + i < NumDigits)
      <3>1. i \in Nat \ {0} /\ ~(j + i < NumDigits)
        BY <1>2, Levels DEF InnerLevel, Joined
      <3> QED
        BY <3>1, DigitsRange DEF NodesOf, Digits
    <2>2. ~(j + 2 * i < NumDigits)
      BY <1>0, <2>1
    <2> QED
      BY <2>1, <2>2 DEF Equal, RangeEnd
  <1>3. ASSUME NEW j \in Digits
        PROVE  Equal(1, j) = BitOf(Digit(data[ALICE], j) = Digit(data[BOB], j))
    <2>1. j \in Nat /\ RangeEnd(1, j) = j + 1
      BY <1>0 DEF Digits, RangeEnd
    <2>2. j..(j + 1 - 1) = {j}
      BY <2>1
    <2> QED
      BY <2>1, <2>2 DEF Equal, RangeEqual, BitOf
  <1> QED
    BY <1>1, <1>2, <1>3

LEMMA XorFacts ==
  /\ \A a, b : Xor(a, b) = Xor(b, a)
  /\ \A a, b \in Bit : Xor(Xor(a, b), a) = b
  /\ \A a, b \in Bit : Xor(a, Xor(b, a)) = b
  BY DEF Xor, Bit

\* A Beaver triple: the parties' products are shares of the AND of what they
\* masked.
LEMMA Beaver ==
  ASSUME TypeOK, NEW s \in Slots
  PROVE  Xor(Share(ALICE, s), Share(BOB, s))
           = And(Xor(Left(ALICE, s), Left(BOB, s)), Xor(Right(ALICE, s), Right(BOB, s)))
  <1>1. /\ own[ALICE].e[s] \in Bit /\ own[BOB].e[s] \in Bit
        /\ own[ALICE].f[s] \in Bit /\ own[BOB].f[s] \in Bit
    BY Parties DEF TypeOK, Halves
  <1>2. /\ tape.a[ALICE][s] \in Bit /\ tape.a[BOB][s] \in Bit
        /\ tape.b[ALICE][s] \in Bit /\ tape.b[BOB][s] \in Bit /\ tape.c[s] \in Bit
    BY Parties DEF TypeOK, TapeType
  <1>3. ALICE # BOB
    BY Parties
  <1>4. PICK eA \in Bit, eB \in Bit, fA \in Bit, fB \in Bit, aA \in Bit, aB \in Bit,
             bA \in Bit, bB \in Bit, c \in Bit :
          /\ eA = own[ALICE].e[s] /\ eB = own[BOB].e[s]
          /\ fA = own[ALICE].f[s] /\ fB = own[BOB].f[s]
          /\ aA = tape.a[ALICE][s] /\ aB = tape.a[BOB][s]
          /\ bA = tape.b[ALICE][s] /\ bB = tape.b[BOB][s] /\ c = tape.c[s]
    BY <1>1, <1>2
  <1> DEFINE e == Xor(eA, eB)
             f == Xor(fA, fB)
  <1>5. Share(ALICE, s) = Xor(Xor(Xor(And(e, f), And(f, aA)), And(e, bA)), c)
    BY <1>4 DEF Share, TripleC
  <1>6. Share(BOB, s) = Xor(Xor(Xor(0, And(f, aB)), And(e, bB)),
                            Xor(c, And(Xor(aA, aB), Xor(bA, bB))))
    BY <1>3, <1>4 DEF Share, TripleC
  <1>7. Xor(Xor(Xor(Xor(And(e, f), And(f, aA)), And(e, bA)), c),
            Xor(Xor(Xor(0, And(f, aB)), And(e, bB)), Xor(c, And(Xor(aA, aB), Xor(bA, bB)))))
          = And(Xor(Xor(eA, aA), Xor(eB, aB)), Xor(Xor(fA, bA), Xor(fB, bB)))
    <2>1. CASE eA = 0 /\ eB = 0
      BY <2>1, SMTT(60) DEF Xor, And, Bit
    <2>2. CASE eA = 0 /\ eB = 1
      BY <2>2, SMTT(60) DEF Xor, And, Bit
    <2>3. CASE eA = 1 /\ eB = 0
      BY <2>3, SMTT(60) DEF Xor, And, Bit
    <2>4. CASE eA = 1 /\ eB = 1
      BY <2>4, SMTT(60) DEF Xor, And, Bit
    <2> QED
      BY <2>1, <2>2, <2>3, <2>4 DEF Bit
  <1>8. Xor(Share(ALICE, s), Share(BOB, s))
          = Xor(Xor(Xor(Xor(And(e, f), And(f, aA)), And(e, bA)), c),
                Xor(Xor(Xor(0, And(f, aB)), And(e, bB)), Xor(c, And(Xor(aA, aB), Xor(bA, bB)))))
    BY <1>5, <1>6
  <1>9. /\ Left(ALICE, s) = Xor(eA, aA) /\ Left(BOB, s) = Xor(eB, aB)
        /\ Right(ALICE, s) = Xor(fA, bA) /\ Right(BOB, s) = Xor(fB, bB)
    BY <1>4 DEF Left, Right
  <1> QED
    BY <1>7, <1>8, <1>9

------------------------------------------------------------------------------
(* Shares.                                                                  *)

LEMMA OperandKept ==
  ASSUME NEW p, NEW s, tape' = tape,
         own'[p].e[s] = own[p].e[s], own'[p].f[s] = own[p].f[s]
  PROVE  Left(p, s)' = Left(p, s) /\ Right(p, s)' = Right(p, s)
  BY DEF Left, Right

LEMMA ShareKept ==
  ASSUME NEW p, NEW s, tape' = tape,
         own'[ALICE].e[s] = own[ALICE].e[s], own'[ALICE].f[s] = own[ALICE].f[s],
         own'[BOB].e[s] = own[BOB].e[s], own'[BOB].f[s] = own[BOB].f[s]
  PROVE  Share(p, s)' = Share(p, s)
  BY DEF Share, TripleC

LEMMA InputKept ==
  ASSUME [Next]_vars
  PROVE  /\ data' = data /\ tape' = tape
         /\ \A i, j : Equal(i, j)' = Equal(i, j)
  <1>1. data' = data /\ tape' = tape
    BY DEF Next, LeafAlice, LeafBob, Local, Generate, AndStep1, Join, AndStep2, Thread, SendChunk,
           RecvChunk, vars, inputVars
  <1> QED
    BY <1>1 DEF Equal, RangeEqual, RangeEnd

\* A step that touches neither shares nor masked values, and takes no node.
LEMMA TreeFrame ==
  ASSUME [Next]_vars, TreeInv, eq' = eq, own' = own,
         \A p \in Party : pc'[p] = "leaf" <=> pc[p] = "leaf",
         \A p \in Party, j \in Digits : Reached(p, j)' = Reached(p, j),
         \A p \in Party : \A i \in InnerLevel : \A j \in Joined(i) :
            (Masked(p, i, j)' <=> Masked(p, i, j)) /\ (Merged(p, i, j)' <=> Merged(p, i, j))
  PROVE  TreeInv'
  <1>1. /\ data' = data /\ tape' = tape /\ \A i, j : Equal(i, j)' = Equal(i, j)
    BY InputKept
  <1>2. \A p, s : Left(p, s)' = Left(p, s) /\ Right(p, s)' = Right(p, s)
                  /\ Share(p, s)' = Share(p, s)
    BY <1>1, OperandKept, ShareKept
  <1>3. \A i, j : SlotOf(i, j)' = SlotOf(i, j) /\ Joined(i)' = Joined(i) /\ NodesOf(i)' = NodesOf(i)
    BY DEF SlotOf, Start, Joined, NodesOf
  <1>4. ASSUME NEW p \in Party
        PROVE  MaskInv(p)'
    <2> SUFFICES ASSUME NEW i \in InnerLevel, NEW j \in Joined(i), Masked(p, i, j)', ~Merged(p, i, j)'
                 PROVE  Left(p, SlotOf(i, j))' = eq'[p][j] /\ Right(p, SlotOf(i, j))' = eq'[p][j + i]
      BY <1>3 DEF MaskInv
    <2>1. MaskInv(p) /\ Masked(p, i, j) /\ ~Merged(p, i, j)
      BY DEF TreeInv
    <2>2. Left(p, SlotOf(i, j)) = eq[p][j] /\ Right(p, SlotOf(i, j)) = eq[p][j + i]
      BY <2>1 DEF MaskInv
    <2> QED
      BY <1>2, <1>3, <2>2
  <1>5. OperandInv'
    <2> SUFFICES ASSUME NEW i \in InnerLevel, NEW j \in Joined(i), \A p \in Party : Masked(p, i, j)'
                 PROVE  /\ Xor(Left(ALICE, SlotOf(i, j))', Left(BOB, SlotOf(i, j))') = Equal(i, j)'
                        /\ Xor(Right(ALICE, SlotOf(i, j))', Right(BOB, SlotOf(i, j))') = Equal(i, j + i)'
      BY <1>3 DEF OperandInv
    <2>1. OperandInv /\ \A p \in Party : Masked(p, i, j)
      BY DEF TreeInv
    <2>2. /\ Xor(Left(ALICE, SlotOf(i, j)), Left(BOB, SlotOf(i, j))) = Equal(i, j)
          /\ Xor(Right(ALICE, SlotOf(i, j)), Right(BOB, SlotOf(i, j))) = Equal(i, j + i)
      BY <2>1 DEF OperandInv
    <2> QED
      BY <1>1, <1>2, <1>3, <2>2
  <1>6. LevelInv'
    <2> SUFFICES ASSUME \A p \in Party : pc'[p] # "leaf", NEW i \in PowersOfTwo, NEW j \in NodesOf(i),
                        Reached(ALICE, j)' = i /\ Reached(BOB, j)' = i
                 PROVE  Together(j)' = Equal(i, j)'
      BY <1>3 DEF LevelInv
    <2>1. LevelInv /\ (\A p \in Party : pc[p] # "leaf") /\ j \in Digits
      BY DEF TreeInv, NodesOf
    <2>2. Reached(ALICE, j) = i /\ Reached(BOB, j) = i
      BY <2>1, Parties
    <2>3. Together(j)' = Together(j)
      BY DEF Together
    <2> QED
      BY <1>1, <2>1, <2>2, <2>3 DEF LevelInv
  <1>7. AheadInv'
    <2> SUFFICES ASSUME NEW p \in Party, NEW i \in InnerLevel, NEW j \in NodesOf(2 * i),
                        Reached(p, j)' = 2 * i /\ Reached(Peer(p), j)' = i
                 PROVE  IF j \in Joined(i) THEN eq'[p][j] = Share(p, SlotOf(i, j))'
                        ELSE Together(j)' = Equal(2 * i, j)'
      BY <1>3 DEF AheadInv, Peer
    <2>1. AheadInv /\ j \in Digits /\ Peer(p) \in Party
      BY Parties DEF TreeInv, NodesOf
    <2>2. Reached(p, j) = 2 * i /\ Reached(Peer(p), j) = i
      BY <2>1
    <2>3. Together(j)' = Together(j)
      BY DEF Together
    <2>4. IF j \in Joined(i) THEN eq[p][j] = Share(p, SlotOf(i, j)) ELSE Together(j) = Equal(2 * i, j)
      BY <2>1, <2>2 DEF AheadInv
    <2> QED
      BY <1>1, <1>2, <1>3, <2>3, <2>4
  <1> QED
    BY <1>4, <1>5, <1>6, <1>7 DEF TreeInv

LEMMA SlotApart ==
  ASSUME EqualityAssumption, NEW i \in InnerLevel, NEW j \in Joined(i),
         NEW m \in InnerLevel, NEW k \in Joined(m), i <= m, ~(i = m /\ j = k)
  PROVE  SlotOf(i, j) # SlotOf(m, k) /\ SlotOf(i, j) \in Slots
  <1>1. /\ SlotOf(i, j) \in SlotsOf(i) /\ SlotOf(m, k) \in SlotsOf(m) /\ SlotOf(i, j) \in Slots
        /\ SlotOf(m, k) \in Slots
        /\ i \in PowersOfTwo /\ m \in PowersOfTwo /\ i \in Nat /\ m \in Nat /\ j \in Nat /\ k \in Nat
    BY Nodes, Levels DEF InnerLevel
  <1>2. PICK x \in Nat, y \in Nat : x = SlotOf(i, j) /\ y = SlotOf(m, k)
    BY <1>1 DEF Slots
  <1>3. CASE i < m
    <2>1. PICK c \in Nat, d \in Nat : c = Start(2 * i) /\ d = Start(m)
      <3>1. Start(m) \in Nat
        BY <1>1, Levels
      <3>2. Start(2 * i) \in Nat
        BY Levels DEF InnerLevel
      <3> QED
        BY <3>1, <3>2
    <2>2. c <= d
      BY <1>1, <1>3, <2>1, LevelOrder
    <2>3. x < c /\ d <= y
      BY <1>1, <1>2, <2>1 DEF SlotsOf
    <2> QED
      BY <1>1, <1>2, <2>2, <2>3
  <1>4. CASE i = m
    <2>1. j < k \/ k < j
      BY <1>1, <1>4
    <2>2. j \in NodesOf(2 * i) /\ k \in NodesOf(2 * i)
      BY <1>4 DEF Joined
    <2>3. x < y \/ y < x
      BY <1>2, <1>4, <2>1, <2>2, NodesApart
    <2> QED
      BY <1>1, <1>2, <2>3
  <1> QED
    BY <1>1, <1>3, <1>4

LEMMA MaskedLevel ==
  ASSUME EqualityAssumption, FlowInv, NEW p \in Party, NEW i \in InnerLevel, NEW j,
         Masked(p, i, j)
  PROVE  /\ i <= lev[p] /\ pc[p] # "leaf"
         /\ ~Merged(p, i, j) => lev[p] = i
  <1>1. lev[p] \in Nat /\ i \in Nat \ {0}
    BY LevelNat, Levels DEF InnerLevel
  <1>2. i <= lev[p]
    BY <1>1 DEF Masked
  <1>3. pc[p] # "leaf"
    <2>1. pc[p] = "leaf" => lev[p] = 1
      BY DEF FlowInv, CountInv
    <2>2. ~(1 > i)
      BY <1>1
    <2> QED
      BY <2>1, <2>2 DEF Masked
  <1>4. ~Merged(p, i, j) => lev[p] = i
    BY DEF Masked, Merged
  <1> QED
    BY <1>2, <1>3, <1>4

\* What the other party's step leaves of a party's progress.
LEMMA ProgressKept ==
  ASSUME TypeOK, NEW p \in Party, Local(p), NEW r \in Party, r # p
  PROVE  /\ \A i, j : /\ Masked(r, i, j)' <=> Masked(r, i, j)
                      /\ Merged(r, i, j)' <=> Merged(r, i, j)
         /\ \A j : Reached(r, j)' = Reached(r, j)
         /\ pc'[r] = pc[r] /\ eq'[r] = eq[r]
  <1>1. pc'[r] = pc[r] /\ lev'[r] = lev[r] /\ node'[r] = node[r] /\ eq'[r] = eq[r]
    BY LocalFrame
  <1> QED
    BY <1>1 DEF Masked, Merged, Reached

LEMMA MaskShares ==
  ASSUME EqualityAssumption, TypeOK, FlowInv, TreeInv, NEW p \in Party, AndStep1(p)
  PROVE  TreeInv'
  <1>0. PICK q \in Party : q = Peer(p) /\ p # q /\ \A r \in Party : r = p \/ r = q
    BY Parties
  <1>n. [Next]_vars /\ Local(p)
    BY DEF Next, Local
  <1>1. /\ ~Masked(p, lev[p], node[p])
        /\ \A j : Reached(p, j) = lev[p] /\ Reached(p, j)' = lev[p]
        /\ \A i, j : Merged(p, i, j)' <=> Merged(p, i, j)
        /\ \A i \in InnerLevel : \A j \in Joined(i) :
             Masked(p, i, j)' <=> (Masked(p, i, j) \/ (i = lev[p] /\ j = node[p]))
        /\ pc[p] = "and1" /\ pc'[p] # "leaf"
    BY MaskProgress
  <1>2. /\ \A i, j : /\ Masked(q, i, j)' <=> Masked(q, i, j)
                     /\ Merged(q, i, j)' <=> Merged(q, i, j)
        /\ \A j : Reached(q, j)' = Reached(q, j)
        /\ pc'[q] = pc[q]
    BY <1>0, <1>n, ProgressKept
  <1>3. /\ data' = data /\ tape' = tape /\ \A i, j : Equal(i, j)' = Equal(i, j)
    BY <1>n, InputKept
  <1>4. eq' = eq
    BY DEF AndStep1
  <1>5. PICK i0 \in InnerLevel, c \in Slots : i0 = lev[p] /\ c = cnt[p]
    BY Pass DEF AndStep1, FlowInv
  <1>6. PICK j0 \in Joined(i0) : j0 = node[p] /\ c = SlotOf(i0, j0)
    BY <1>5, Pass DEF AndStep1, FlowInv
  <1>7. /\ i0 \in PowersOfTwo /\ i0 \in Nat \ {0} /\ j0 \in NodesOf(i0) /\ j0 + i0 \in NodesOf(i0)
        /\ j0 \in Digits /\ j0 + i0 \in Digits /\ c \in Slots
    BY <1>6, Nodes, Levels DEF InnerLevel
  <1>8. /\ own'[p].e[c] = Xor(tape.a[p][c], eq[p][j0]) /\ own'[p].f[c] = Xor(tape.b[p][c], eq[p][j0 + i0])
        /\ \A s \in Slots : s # c => own'[p].e[s] = own[p].e[s] /\ own'[p].f[s] = own[p].f[s]
        /\ own'[q] = own[q]
    <2>1. CountInv(p)
      BY DEF FlowInv
    <2> QED
      BY <1>0, <1>5, <1>6, <2>1, MaskStep DEF Halves
  <1>9. /\ \A s : Left(q, s)' = Left(q, s) /\ Right(q, s)' = Right(q, s)
        /\ \A s \in Slots : s # c => Left(p, s)' = Left(p, s) /\ Right(p, s)' = Right(p, s)
    BY <1>3, <1>8, OperandKept
  <1>10. \A s \in Slots, r \in Party : s # c => Share(r, s)' = Share(r, s)
    <2>1. \A s \in Slots : s # c => /\ own'[ALICE].e[s] = own[ALICE].e[s] /\ own'[ALICE].f[s] = own[ALICE].f[s]
                                    /\ own'[BOB].e[s] = own[BOB].e[s] /\ own'[BOB].f[s] = own[BOB].f[s]
      BY <1>0, <1>8, Parties
    <2> QED
      BY <1>3, <2>1, ShareKept
  <1>11. Left(p, c)' = eq[p][j0] /\ Right(p, c)' = eq[p][j0 + i0]
    <2>1. /\ tape.a[p][c] \in Bit /\ tape.b[p][c] \in Bit /\ eq[p][j0] \in Bit /\ eq[p][j0 + i0] \in Bit
      BY <1>7 DEF TypeOK, TapeType
    <2>2. /\ Left(p, c)' = Xor(Xor(tape.a[p][c], eq[p][j0]), tape.a[p][c])
          /\ Right(p, c)' = Xor(Xor(tape.b[p][c], eq[p][j0 + i0]), tape.b[p][c])
      BY <1>3, <1>8 DEF Left, Right
    <2> QED
      BY <2>1, <2>2, XorFacts
  <1>12. \A i, j : SlotOf(i, j)' = SlotOf(i, j) /\ Joined(i)' = Joined(i) /\ NodesOf(i)' = NodesOf(i)
    BY DEF SlotOf, Start, Joined, NodesOf
  <1>13. \A i \in InnerLevel : \A j \in Joined(i) :
           i <= i0 /\ ~(i = i0 /\ j = j0) => SlotOf(i, j) # c /\ SlotOf(i, j) \in Slots
    BY <1>6, SlotApart
  <1>14. MaskInv(p)'
    <2> SUFFICES ASSUME NEW i \in InnerLevel, NEW j \in Joined(i), Masked(p, i, j)', ~Merged(p, i, j)'
                 PROVE  Left(p, SlotOf(i, j))' = eq'[p][j] /\ Right(p, SlotOf(i, j))' = eq'[p][j + i]
      BY <1>12 DEF MaskInv
    <2>1. CASE i = i0 /\ j = j0
      BY <1>4, <1>6, <1>11, <1>12, <2>1
    <2>2. CASE ~(i = i0 /\ j = j0)
      <3>1. Masked(p, i, j) /\ ~Merged(p, i, j)
        BY <1>1, <1>5, <1>6, <2>2
      <3>2. i <= i0
        BY <1>5, <3>1, MaskedLevel
      <3>3. Left(p, SlotOf(i, j)) = eq[p][j] /\ Right(p, SlotOf(i, j)) = eq[p][j + i]
        BY <3>1 DEF TreeInv, MaskInv
      <3> QED
        BY <1>4, <1>9, <1>12, <1>13, <2>2, <3>2, <3>3
    <2> QED
      BY <2>1, <2>2
  <1>15. MaskInv(q)'
    <2> SUFFICES ASSUME NEW i \in InnerLevel, NEW j \in Joined(i), Masked(q, i, j)', ~Merged(q, i, j)'
                 PROVE  Left(q, SlotOf(i, j))' = eq'[q][j] /\ Right(q, SlotOf(i, j))' = eq'[q][j + i]
      BY <1>12 DEF MaskInv
    <2>1. Left(q, SlotOf(i, j)) = eq[q][j] /\ Right(q, SlotOf(i, j)) = eq[q][j + i]
      BY <1>2 DEF TreeInv, MaskInv
    <2> QED
      BY <1>4, <1>9, <1>12, <2>1
  <1>16. OperandInv'
    <2> SUFFICES ASSUME NEW i \in InnerLevel, NEW j \in Joined(i), \A r \in Party : Masked(r, i, j)'
                 PROVE  /\ Xor(Left(ALICE, SlotOf(i, j))', Left(BOB, SlotOf(i, j))') = Equal(i, j)
                        /\ Xor(Right(ALICE, SlotOf(i, j))', Right(BOB, SlotOf(i, j))') = Equal(i, j + i)
      BY <1>3, <1>12 DEF OperandInv
    <2>1. Masked(q, i, j) /\ (Masked(p, i, j) \/ (i = i0 /\ j = j0))
      BY <1>1, <1>2, <1>5, <1>6
    <2>2. CASE i = i0 /\ j = j0
      <3>1. ~(lev[q] > i0) /\ ~(lev[q] = i0 /\ pc[q] = "and2")
        <4>1. lev[q] <= i0 /\ lev[q] \in Nat /\ ~(lev[q] = i0 /\ pc[q] = "and2")
          BY <1>0, <1>1, <1>5, NoneMerged
        <4> QED
          BY <1>7, <4>1
      <3>2. lev[q] = i0 /\ pc[q] # "and2" /\ ~Merged(q, i, j) /\ pc[q] # "leaf"
        <4>1. ~Merged(q, i, j)
          BY <2>2, <3>1 DEF Merged
        <4> QED
          BY <2>1, <2>2, <3>1, <4>1, MaskedLevel
      <3>3. Left(q, c) = eq[q][j0] /\ Right(q, c) = eq[q][j0 + i0]
        BY <1>6, <2>1, <2>2, <3>2 DEF TreeInv, MaskInv
      <3>4. /\ Left(q, c)' = eq[q][j0] /\ Right(q, c)' = eq[q][j0 + i0]
            /\ Left(p, c)' = eq[p][j0] /\ Right(p, c)' = eq[p][j0 + i0]
        BY <1>9, <1>11, <3>3
      <3>5. \A k : Reached(p, k) = i0 /\ Reached(q, k) = i0
        BY <1>1, <1>5, <3>2 DEF Reached
      <3>6. \A r \in Party : pc[r] # "leaf" /\ \A k : Reached(r, k) = i0
        BY <1>0, <1>1, <3>2, <3>5
      <3>7. Together(j0) = Equal(i0, j0) /\ Together(j0 + i0) = Equal(i0, j0 + i0)
        BY <1>7, <3>6, Parties DEF TreeInv, LevelInv
      <3>8. (p = ALICE /\ q = BOB) \/ (p = BOB /\ q = ALICE)
        BY <1>0, Parties
      <3> QED
        BY <1>6, <1>12, <2>2, <3>4, <3>7, <3>8 DEF Together
    <2>3. CASE ~(i = i0 /\ j = j0)
      <3>1. Masked(p, i, j) /\ \A r \in Party : Masked(r, i, j)
        BY <1>0, <2>1, <2>3
      <3>2. i <= i0
        BY <1>5, <3>1, MaskedLevel
      <3>3. \A r \in Party : /\ Left(r, SlotOf(i, j))' = Left(r, SlotOf(i, j))
                             /\ Right(r, SlotOf(i, j))' = Right(r, SlotOf(i, j))
        BY <1>0, <1>9, <1>13, <2>3, <3>2
      <3>4. /\ Xor(Left(ALICE, SlotOf(i, j)), Left(BOB, SlotOf(i, j))) = Equal(i, j)
            /\ Xor(Right(ALICE, SlotOf(i, j)), Right(BOB, SlotOf(i, j))) = Equal(i, j + i)
        BY <3>1 DEF TreeInv, OperandInv
      <3> QED
        BY <1>12, <3>3, <3>4, Parties
    <2> QED
      BY <2>2, <2>3
  <1>17. \A r \in Party : /\ pc'[r] = "leaf" <=> pc[r] = "leaf"
                          /\ \A j : Reached(r, j)' = Reached(r, j)
    BY <1>0, <1>1, <1>2
  <1>18. LevelInv'
    <2> SUFFICES ASSUME \A r \in Party : pc'[r] # "leaf", NEW i \in PowersOfTwo, NEW j \in NodesOf(i),
                        Reached(ALICE, j)' = i /\ Reached(BOB, j)' = i
                 PROVE  Together(j)' = Equal(i, j)'
      BY <1>12 DEF LevelInv
    <2>1. (\A r \in Party : pc[r] # "leaf") /\ Reached(ALICE, j) = i /\ Reached(BOB, j) = i
      BY <1>17, Parties
    <2>2. Together(j)' = Together(j)
      BY <1>4 DEF Together
    <2> QED
      BY <1>3, <2>1, <2>2 DEF TreeInv, LevelInv
  <1>19. AheadInv'
    <2> SUFFICES ASSUME NEW r \in Party, NEW i \in InnerLevel, NEW j \in NodesOf(2 * i),
                        Reached(r, j)' = 2 * i /\ Reached(Peer(r), j)' = i
                 PROVE  IF j \in Joined(i) THEN eq'[r][j] = Share(r, SlotOf(i, j))'
                        ELSE Together(j)' = Equal(2 * i, j)'
      BY <1>12 DEF AheadInv, Peer
    <2>1. Reached(r, j) = 2 * i /\ Reached(Peer(r), j) = i
      BY <1>17, Parties
    <2>2. r = p /\ i < i0
      <3>0. i \in Nat \ {0}
        BY Levels DEF InnerLevel
      <3>1. CASE r = p
        <4>1. i0 = 2 * i
          BY <1>1, <1>5, <2>1, <3>1
        <4> QED
          BY <3>0, <3>1, <4>1
      <3>2. CASE r = q
        <4>1. i = i0 /\ Reached(q, j) = 2 * i0
          BY <1>0, <1>1, <1>5, <2>1, <3>2, Parties
        <4>2. lev[q] <= i0 /\ lev[q] \in Nat /\ ~(lev[q] = i0 /\ pc[q] = "and2")
          BY <1>0, <1>1, <1>5, NoneMerged
        <4>3. CASE pc[q] = "and2" /\ j < node[q]
          <5>1. 2 * lev[q] = 2 * i0
            BY <4>1, <4>3 DEF Reached
          <5> QED
            BY <1>7, <4>2, <4>3, <5>1
        <4>4. CASE ~(pc[q] = "and2" /\ j < node[q])
          <5>1. lev[q] = 2 * i0
            BY <4>1, <4>4 DEF Reached
          <5> QED
            BY <1>7, <4>2, <5>1
        <4> QED
          BY <4>3, <4>4
      <3> QED
        BY <1>0, <3>1, <3>2
    <2>3. IF j \in Joined(i) THEN eq[r][j] = Share(r, SlotOf(i, j)) ELSE Together(j) = Equal(2 * i, j)
      BY <2>1 DEF TreeInv, AheadInv
    <2>4. Together(j)' = Together(j)
      BY <1>4 DEF Together
    <2>5. j \in Joined(i) => Share(r, SlotOf(i, j))' = Share(r, SlotOf(i, j))
      <3> SUFFICES ASSUME j \in Joined(i)
                   PROVE  Share(r, SlotOf(i, j))' = Share(r, SlotOf(i, j))
        OBVIOUS
      <3>1. i <= i0 /\ i # i0
        <4>1. i \in Nat
          BY Levels DEF InnerLevel
        <4> QED
          BY <1>7, <2>2, <4>1
      <3>2. SlotOf(i, j) # c /\ SlotOf(i, j) \in Slots
        BY <1>13, <3>1
      <3> QED
        BY <1>10, <1>12, <3>2
    <2> QED
      BY <1>3, <1>4, <2>3, <2>4, <2>5
  <1> QED
    BY <1>0, <1>14, <1>15, <1>16, <1>18, <1>19 DEF TreeInv

\* Where both have merged a node their shares are those of the next level.
LEMMA MergedNode ==
  ASSUME EqualityAssumption, TypeOK, TreeInv, NEW i \in InnerLevel, NEW j \in Joined(i),
         \A r \in Party : Masked(r, i, j)
  PROVE  Xor(Share(ALICE, SlotOf(i, j)), Share(BOB, SlotOf(i, j))) = Equal(2 * i, j)
  <1>1. SlotOf(i, j) \in Slots
    BY Nodes
  <1>2. /\ Xor(Left(ALICE, SlotOf(i, j)), Left(BOB, SlotOf(i, j))) = Equal(i, j)
        /\ Xor(Right(ALICE, SlotOf(i, j)), Right(BOB, SlotOf(i, j))) = Equal(i, j + i)
    BY DEF TreeInv, OperandInv
  <1>3. Equal(2 * i, j) = And(Equal(i, j), Equal(i, j + i))
    BY NodeEqual
  <1> QED
    BY <1>1, <1>2, <1>3, Beaver

LEMMA ReachedMasked ==
  ASSUME EqualityAssumption, FlowInv, NEW p \in Party, NEW i \in InnerLevel, NEW j,
         Reached(p, j) = 2 * i
  PROVE  Masked(p, i, j) /\ (lev[p] = 2 * i \/ (lev[p] = i /\ pc[p] = "and2"))
  <1>1. lev[p] \in Nat \ {0} /\ i \in Nat \ {0}
    BY LevelNat, Levels DEF InnerLevel
  <1>2. CASE pc[p] = "and2" /\ j < node[p]
    <2>1. 2 * lev[p] = 2 * i
      BY <1>2 DEF Reached
    <2>2. lev[p] = i
      BY <1>1, <2>1
    <2> QED
      BY <1>2, <2>2 DEF Masked
  <1>3. CASE ~(pc[p] = "and2" /\ j < node[p])
    <2>1. lev[p] = 2 * i
      BY <1>3 DEF Reached
    <2>2. lev[p] > i
      BY <1>1, <2>1
    <2> QED
      BY <2>1, <2>2 DEF Masked
  <1> QED
    BY <1>2, <1>3

LEMMA MergeShares ==
  ASSUME EqualityAssumption, TypeOK, FlowInv, LeafInv, TreeInv, ~IsShort,
         NEW p \in Party, OpenInv(p), AndStep2(p)
  PROVE  TreeInv'
  <1>0. PICK q \in Party : q = Peer(p) /\ p = Peer(q) /\ p # q /\ \A r \in Party : r = p \/ r = q
    BY Parties
  <1>n. [Next]_vars /\ Local(p)
    BY DEF Next, Local
  <1>1. /\ pc[p] = "and2" /\ pc'[p] # "leaf" /\ Masked(p, lev[p], node[p])
        /\ ~Merged(p, lev[p], node[p])
        /\ Reached(p, node[p]) = lev[p]
        /\ \A j : j = node[p] => Reached(p, j)' = 2 * lev[p]
        /\ \A j \in Nat : \/ Reached(p, j)' = Reached(p, j)
                          \/ Reached(p, j) = lev[p] /\ Reached(p, j)' = 2 * lev[p]
        /\ \A j \in Joined(lev[p]) : j # node[p] => Reached(p, j)' = Reached(p, j)
                                                    \/ ~(Reached(p, j) = lev[p])
        /\ \A i \in InnerLevel : \A j \in Joined(i) :
             /\ Masked(p, i, j)' <=> Masked(p, i, j)
             /\ Merged(p, i, j)' <=> (Merged(p, i, j) \/ (i = lev[p] /\ j = node[p]))
    BY MergeProgress
  <1>2. /\ \A i, j : /\ Masked(q, i, j)' <=> Masked(q, i, j)
                     /\ Merged(q, i, j)' <=> Merged(q, i, j)
        /\ \A j : Reached(q, j)' = Reached(q, j)
        /\ pc'[q] = pc[q] /\ eq'[q] = eq[q]
    BY <1>0, <1>n, ProgressKept
  <1>3. /\ data' = data /\ tape' = tape /\ \A i, j : Equal(i, j)' = Equal(i, j)
    BY <1>n, InputKept
  <1>4. own' = own
    BY DEF AndStep2
  <1>5. PICK i0 \in InnerLevel, c \in Slots : i0 = lev[p] /\ c = cnt[p]
    BY Pass DEF AndStep2, FlowInv
  <1>6. PICK j0 \in Joined(i0) : j0 = node[p] /\ c = SlotOf(i0, j0)
    BY <1>5, Pass DEF AndStep2, FlowInv
  <1>7. /\ i0 \in PowersOfTwo /\ i0 \in Nat \ {0} /\ 2 * i0 # i0
        /\ j0 \in NodesOf(2 * i0) /\ j0 \in Digits /\ j0 \in Nat
    BY <1>6, Nodes, Levels DEF InnerLevel
  <1>8. /\ eq'[p][j0] = Share(p, c)
        /\ \A j \in Digits : j # j0 => eq'[p][j] = eq[p][j]
    <2>1. eq' = [eq EXCEPT ![p][j0] = Product(p, c)]
      BY <1>5, <1>6 DEF AndStep2
    <2>2. c \in SlotsOf(lev[p])
      BY <1>5, <1>6, Nodes
    <2>3. /\ opened[p].e[c] = Xor(own[ALICE].e[c], own[BOB].e[c])
          /\ opened[p].f[c] = Xor(own[ALICE].f[c], own[BOB].f[c])
      BY <1>1, <2>2 DEF OpenInv, Halves
    <2>4. Product(p, c) = Share(p, c)
      BY <2>3 DEF Product, Share
    <2> QED
      BY <1>7, <2>1, <2>4 DEF TypeOK
  <1>9. \A r, s : Left(r, s)' = Left(r, s) /\ Right(r, s)' = Right(r, s) /\ Share(r, s)' = Share(r, s)
    BY <1>3, <1>4, OperandKept, ShareKept
  <1>10. \A i, j : SlotOf(i, j)' = SlotOf(i, j) /\ Joined(i)' = Joined(i) /\ NodesOf(i)' = NodesOf(i)
    BY DEF SlotOf, Start, Joined, NodesOf
  <1>11. \A j \in Digits : /\ j # j0 => Together(j)' = Together(j)
                           /\ Reached(p, j)' = Reached(p, j) => j # j0
    <2>1. Reached(p, j0) = i0 /\ Reached(p, j0)' = 2 * i0
      BY <1>1, <1>5, <1>6
    <2>2. \A j \in Digits : j # j0 => Together(j)' = Together(j)
      BY <1>0, <1>2, <1>8, Parties DEF Together
    <2>3. ASSUME NEW j \in Digits, j = j0
          PROVE  ~(Reached(p, j)' = Reached(p, j))
      BY <1>7, <2>1, <2>3
    <2> QED
      BY <2>2, <2>3
  <1>12. \A j \in Digits : ~(Reached(p, j)' = Reached(p, j)) =>
           /\ Reached(p, j) = i0 /\ Reached(p, j)' = 2 * i0
           /\ j \in Joined(i0) => j = j0
    <2>1. \A j \in Digits : j \in Nat
      BY DigitsRange DEF Digits
    <2> QED
      BY <1>1, <1>5, <1>6, <2>1
  <1>13. \A r \in Party : pc[r] # "leaf" /\ pc'[r] # "leaf"
    <2>1. pc[q] # "leaf"
      BY <1>0, <1>1, Parties DEF LeafInv
    <2> QED
      BY <1>0, <1>1, <1>2, <2>1
  <1>14. MaskInv(p)'
    <2> SUFFICES ASSUME NEW i \in InnerLevel, NEW j \in Joined(i), Masked(p, i, j)', ~Merged(p, i, j)'
                 PROVE  Left(p, SlotOf(i, j))' = eq'[p][j] /\ Right(p, SlotOf(i, j))' = eq'[p][j + i]
      BY <1>10 DEF MaskInv
    <2>1. Masked(p, i, j) /\ ~Merged(p, i, j) /\ ~(i = i0 /\ j = j0)
      BY <1>1, <1>5, <1>6
    <2>2. Left(p, SlotOf(i, j)) = eq[p][j] /\ Right(p, SlotOf(i, j)) = eq[p][j + i]
      BY <2>1 DEF TreeInv, MaskInv
    <2>3. i = i0
      BY <1>5, <2>1, MaskedLevel
    <2>4. j # j0 /\ j + i # j0 /\ j \in Digits /\ j + i \in Digits
      BY <1>7, <2>1, <2>3, Nodes
    <2> QED
      BY <1>8, <1>9, <1>10, <2>2, <2>4
  <1>15. MaskInv(q)'
    <2> SUFFICES ASSUME NEW i \in InnerLevel, NEW j \in Joined(i), Masked(q, i, j)', ~Merged(q, i, j)'
                 PROVE  Left(q, SlotOf(i, j))' = eq'[q][j] /\ Right(q, SlotOf(i, j))' = eq'[q][j + i]
      BY <1>10 DEF MaskInv
    <2>1. Left(q, SlotOf(i, j)) = eq[q][j] /\ Right(q, SlotOf(i, j)) = eq[q][j + i]
      BY <1>2 DEF TreeInv, MaskInv
    <2> QED
      BY <1>2, <1>9, <1>10, <2>1
  <1>16. OperandInv'
    <2> SUFFICES ASSUME NEW i \in InnerLevel, NEW j \in Joined(i), \A r \in Party : Masked(r, i, j)'
                 PROVE  /\ Xor(Left(ALICE, SlotOf(i, j))', Left(BOB, SlotOf(i, j))') = Equal(i, j)
                        /\ Xor(Right(ALICE, SlotOf(i, j))', Right(BOB, SlotOf(i, j))') = Equal(i, j + i)
      BY <1>3, <1>10 DEF OperandInv
    <2>1. \A r \in Party : Masked(r, i, j)
      BY <1>0, <1>1, <1>2
    <2>2. /\ Xor(Left(ALICE, SlotOf(i, j)), Left(BOB, SlotOf(i, j))) = Equal(i, j)
          /\ Xor(Right(ALICE, SlotOf(i, j)), Right(BOB, SlotOf(i, j))) = Equal(i, j + i)
      BY <2>1 DEF TreeInv, OperandInv
    <2> QED
      BY <1>9, <1>10, <2>2
  <1>17. ASSUME NEW j \in NodesOf(2 * i0), Reached(q, j) = 2 * i0, ~(Reached(p, j)' = Reached(p, j))
         PROVE  Together(j)' = Equal(2 * i0, j)
    <2>1. j \in Digits /\ Reached(p, j) = i0
      BY <1>12, <1>17 DEF NodesOf
    <2>2. CASE j \in Joined(i0)
      <3>1. j = j0
        BY <1>12, <1>17, <2>1, <2>2
      <3>2. eq[q][j0] = Share(q, c)
        BY <1>0, <1>6, <1>17, <2>1, <2>2, <3>1 DEF TreeInv, AheadInv
      <3>3. \A r \in Party : Masked(r, i0, j0)
        <4>1. Masked(q, i0, j0)
          BY <1>17, <3>1, ReachedMasked
        <4> QED
          BY <1>0, <1>1, <1>5, <1>6, <4>1
      <3>4. Xor(Share(ALICE, c), Share(BOB, c)) = Equal(2 * i0, j0)
        BY <1>6, <3>3, MergedNode
      <3>5. (p = ALICE /\ q = BOB) \/ (p = BOB /\ q = ALICE)
        BY <1>0, Parties
      <3> QED
        BY <1>2, <1>8, <3>1, <3>2, <3>4, <3>5 DEF Together
    <2>3. CASE j \notin Joined(i0)
      <3>1. Together(j) = Equal(2 * i0, j)
        BY <1>0, <1>17, <2>1, <2>3 DEF TreeInv, AheadInv
      <3>2. j # j0
        BY <2>3
      <3> QED
        BY <1>11, <2>1, <3>1, <3>2
    <2> QED
      BY <2>2, <2>3
  <1>18. LevelInv'
    <2> SUFFICES ASSUME NEW i \in PowersOfTwo, NEW j \in NodesOf(i),
                        \A r \in Party : Reached(r, j)' = i
                 PROVE  Together(j)' = Equal(i, j)
      BY <1>0, <1>3, <1>10, Parties DEF LevelInv
    <2>1. Reached(q, j) = i /\ Reached(p, j)' = i /\ j \in Digits
      BY <1>2 DEF NodesOf
    <2>2. CASE Reached(p, j)' = Reached(p, j)
      <3>1. \A r \in Party : Reached(r, j) = i
        BY <1>0, <2>1, <2>2
      <3>2. Together(j) = Equal(i, j)
        BY <1>13, <3>1, Parties DEF TreeInv, LevelInv
      <3> QED
        BY <1>11, <2>1, <2>2, <3>2
    <2>3. CASE ~(Reached(p, j)' = Reached(p, j))
      <3>1. i = 2 * i0
        BY <1>12, <2>1, <2>3
      <3> QED
        BY <1>17, <2>1, <2>3, <3>1
    <2> QED
      BY <2>2, <2>3
  <1>19. AheadInv'
    <2> SUFFICES ASSUME NEW r \in Party, NEW i \in InnerLevel, NEW j \in NodesOf(2 * i),
                        Reached(r, j)' = 2 * i, Reached(Peer(r), j)' = i
                 PROVE  IF j \in Joined(i) THEN eq'[r][j] = Share(r, SlotOf(i, j))
                        ELSE Together(j)' = Equal(2 * i, j)
      BY <1>3, <1>9, <1>10 DEF AheadInv, Peer
    <2>0. j \in Digits /\ i \in Nat \ {0}
      BY Levels DEF NodesOf, InnerLevel
    <2>1. CASE Reached(p, j)' = Reached(p, j)
      <3>1. Reached(r, j) = 2 * i /\ Reached(Peer(r), j) = i
        BY <1>0, <1>2, <2>1
      <3>2. IF j \in Joined(i) THEN eq[r][j] = Share(r, SlotOf(i, j)) ELSE Together(j) = Equal(2 * i, j)
        BY <3>1 DEF TreeInv, AheadInv
      <3>3. j # j0
        BY <1>11, <2>0, <2>1
      <3>4. eq'[r][j] = eq[r][j]
        BY <1>0, <1>2, <1>8, <2>0, <3>3
      <3>5. Together(j)' = Together(j)
        BY <1>11, <2>0, <3>3
      <3> QED
        BY <3>2, <3>4, <3>5
    <2>2. CASE ~(Reached(p, j)' = Reached(p, j)) /\ r = p
      <3>1. /\ Reached(p, j) = i0 /\ 2 * i = 2 * i0 /\ Reached(q, j) = i
            /\ j \in Joined(i0) => j = j0
        BY <1>0, <1>2, <1>12, <2>0, <2>2
      <3>2. i = i0
        BY <1>7, <2>0, <3>1
      <3>3. CASE j \in Joined(i)
        BY <1>6, <1>8, <2>2, <3>1, <3>2, <3>3
      <3>4. CASE j \notin Joined(i)
        <4>1. j \in NodesOf(i0) /\ Equal(2 * i0, j) = Equal(i0, j)
          <5>1. j % i0 = 0
            <6>1. j \in Nat /\ j % (2 * i0) = 0 /\ i0 \in {1, 2, 4, 8, 16, 32, 64}
              BY <1>7, <3>2, DigitsRange DEF NodesOf, Digits, PowersOfTwo
            <6> QED
              BY <6>1, SMTT(60)
          <5> QED
            BY <2>0, <3>2, <3>4, <5>1, NodeEqual DEF NodesOf
        <4>2. \A u \in Party : Reached(u, j) = i0
          BY <1>0, <3>1, <3>2
        <4>3. Together(j) = Equal(i0, j)
          BY <1>7, <1>13, <4>1, <4>2, Parties DEF TreeInv, LevelInv
        <4>4. j # j0
          BY <3>2, <3>4
        <4> QED
          BY <1>11, <2>0, <3>2, <3>4, <4>1, <4>3, <4>4
      <3> QED
        BY <3>3, <3>4
    <2>3. CASE ~(Reached(p, j)' = Reached(p, j)) /\ r = q
      <3>1. i = 2 * i0 /\ Reached(q, j) = 2 * i
        BY <1>0, <1>2, <1>12, <2>0, <2>3
      <3>2. lev[q] = 2 * i \/ (lev[q] = i /\ pc[q] = "and2")
        BY <3>1, ReachedMasked
      <3>3. lev[q] > lev[p]
        BY <1>5, <1>7, <3>1, <3>2
      <3>4. lev[q] = 2 * lev[p] /\ pc[q] # "and2"
        BY <1>0, <3>3, InStep
      <3> QED
        BY <1>5, <1>7, <3>1, <3>2, <3>4
    <2> QED
      BY <1>0, <2>1, <2>2, <2>3
  <1> QED
    BY <1>0, <1>14, <1>15, <1>16, <1>18, <1>19 DEF TreeInv

\* Nothing is masked or merged while the parties are at the leaves.
LEMMA FreshTree ==
  ASSUME EqualityAssumption, \A r \in Party : lev'[r] = 1 /\ pc'[r] \in {"leaf", "triples"},
         (\A r \in Party : pc'[r] # "leaf") => \A j \in Digits : Together(j)' = Equal(1, j)'
  PROVE  TreeInv'
  <1>1. \A i \in InnerLevel : i \in Nat \ {0}
    BY Levels DEF InnerLevel
  <1>2. \A r \in Party : \A i \in InnerLevel : \A j : ~(Masked(r, i, j)')
    <2> SUFFICES ASSUME NEW r \in Party, NEW i \in InnerLevel, NEW j
                 PROVE  ~(Masked(r, i, j)')
      OBVIOUS
    <2>1. ~(1 > i)
      BY <1>1
    <2> QED
      BY <2>1 DEF Masked
  <1>3. \A r \in Party : \A j : Reached(r, j)' = 1
    BY DEF Reached
  <1>4. \A i, j : Joined(i)' = Joined(i) /\ NodesOf(i)' = NodesOf(i)
    BY DEF Joined, NodesOf
  <1>5. \A r \in Party : MaskInv(r)'
    BY <1>2, <1>4 DEF MaskInv
  <1>6. OperandInv'
    BY <1>2, <1>4, Parties DEF OperandInv
  <1>7. LevelInv'
    <2> SUFFICES ASSUME \A r \in Party : pc'[r] # "leaf", NEW i \in PowersOfTwo, NEW j \in NodesOf(i),
                        Reached(ALICE, j)' = i
                 PROVE  Together(j)' = Equal(i, j)'
      BY <1>4 DEF LevelInv
    <2>1. i = 1 /\ j \in Digits
      BY <1>3, Parties DEF NodesOf
    <2> QED
      BY <2>1
  <1>8. AheadInv'
    <2> SUFFICES ASSUME NEW r \in Party, NEW i \in InnerLevel, NEW j \in NodesOf(2 * i),
                        Reached(r, j)' = 2 * i
                 PROVE  FALSE
      BY <1>4 DEF AheadInv
    <2> QED
      BY <1>1, <1>3
  <1> QED
    BY <1>5, <1>6, <1>7, <1>8 DEF TreeInv

LEMMA LeafShares ==
  ASSUME EqualityAssumption, TypeOK, FlowInv, LeafInv, LeafAlice \/ LeafBob
  PROVE  LeafInv' /\ (~IsShort => TreeInv')
  <1>1. CASE LeafAlice
    <2>1. /\ pc[ALICE] = "leaf" /\ pc[BOB] = "leaf" /\ pc'[BOB] = "leaf"
          /\ pc'[ALICE] = (IF IsShort THEN "done" ELSE "triples")
          /\ eq'[ALICE] = tape.mask /\ tape' = tape /\ lev' = lev
      BY <1>1, Parties DEF LeafAlice, LeafInv, TypeOK, inputVars
    <2>2. LeafInv'
      BY <2>1 DEF LeafInv, IsShort
    <2>3. \A r \in Party : lev[r] = 1
      BY <2>1, Parties DEF FlowInv, CountInv, Party
    <2>4. ~IsShort => \A r \in Party : lev'[r] = 1 /\ pc'[r] \in {"leaf", "triples"}
      BY <2>1, <2>3 DEF Party
    <2> QED
      BY <2>1, <2>2, <2>4, FreshTree, Parties
  <1>2. CASE LeafBob
    <2>1. /\ pc[ALICE] = (IF IsShort THEN "done" ELSE "triples") /\ pc'[ALICE] = pc[ALICE]
          /\ pc[BOB] = "leaf" /\ pc'[BOB] = (IF IsShort THEN "done" ELSE "triples")
          /\ eq[ALICE] = tape.mask /\ eq'[ALICE] = tape.mask /\ tape' = tape /\ lev' = lev
          /\ data' = data
      BY <1>2, Parties DEF LeafBob, LeafInv, TypeOK, inputVars
    <2>2. LeafInv'
      BY <2>1 DEF LeafInv, IsShort
    <2>3. ~IsShort => \A r \in Party : lev'[r] = 1 /\ pc'[r] \in {"leaf", "triples"}
      <3>1. ~IsShort => lev[ALICE] = 1 /\ lev[BOB] = 1
        BY <2>1, Parties DEF FlowInv, CountInv
      <3> QED
        BY <2>1, <3>1 DEF Party
    <2>4. ASSUME ~IsShort, NEW j \in Digits
          PROVE  Together(j)' = Equal(1, j)'
      <3>1. eq'[BOB][j] = Xor(BitOf(Digit(data[ALICE], j) = Digit(data[BOB], j)), tape.mask[j])
        BY <1>2, <2>4, Parties DEF LeafBob, LeafMessage, TypeOK
      <3>2. Together(j)' = Xor(tape.mask[j],
              Xor(BitOf(Digit(data[ALICE], j) = Digit(data[BOB], j)), tape.mask[j]))
        BY <2>1, <3>1 DEF Together
      <3>3. tape.mask[j] \in Bit
        BY DEF TypeOK, TapeType
      <3>4. Together(j)' = BitOf(Digit(data[ALICE], j) = Digit(data[BOB], j))
        BY <3>2, <3>3, XorFacts, BitFacts
      <3>5. Equal(1, j)' = Equal(1, j)
        BY <2>1 DEF Equal, RangeEqual, RangeEnd
      <3> QED
        BY <3>4, <3>5, NodeEqual
    <2> QED
      BY <2>2, <2>3, <2>4, FreshTree
  <1> QED
    BY <1>1, <1>2

\* No party passes the leaves alone.
LEMMA BothLeft ==
  ASSUME TypeOK, LeafInv, NEW p \in Party, Local(p)
  PROVE  \A r \in Party : pc[r] # "leaf" /\ pc'[r] # "leaf"
  <1>1. pc[p] \in {"triples", "and1", "exchange", "and2"} /\ pc'[p] # "leaf"
    <2>1. CASE Generate(p)
      BY <2>1 DEF Generate, TypeOK
    <2>2. CASE AndStep1(p)
      BY <2>2 DEF AndStep1, TypeOK
    <2>3. CASE Join(p)
      BY <2>3 DEF Join, TypeOK
    <2>4. CASE AndStep2(p)
      BY <2>4 DEF AndStep2, TypeOK
    <2> QED
      BY <2>1, <2>2, <2>3, <2>4 DEF Local
  <1>2. PICK q \in Party : q = Peer(p) /\ p # q /\ \A r \in Party : r = p \/ r = q
    BY Parties
  <1>3. pc[q] # "leaf"
    <2>1. CASE p = BOB
      BY <1>1, <1>2, <2>1, Parties DEF LeafInv
    <2>2. CASE p = ALICE
      <3>1. q = BOB
        BY <1>2, <2>2, Parties
      <3>2. pc[p] = "triples" => pc[q] # "leaf"
        <4>1. pc[p] = "triples" => Generate(p)
          BY DEF Local, AndStep1, Join, AndStep2
        <4> QED
          BY <1>2, <4>1 DEF Generate
      <3>3. pc[BOB] = "leaf" => pc[ALICE] \in {"done", "triples"}
        BY <1>1, <2>2 DEF LeafInv
      <3> QED
        BY <1>1, <2>2, <3>1, <3>2, <3>3
    <2> QED
      BY <2>1, <2>2 DEF Party
  <1>4. pc'[q] = pc[q]
    BY <1>2, LocalFrame
  <1> QED
    BY <1>1, <1>2, <1>3, <1>4

LEMMA SharesStep ==
  ASSUME EqualityAssumption, TypeOK, FlowInv, ExchangeInv, SharesInv, [Next]_vars
  PROVE  SharesInv'
  <1>0. LeafInv /\ (~IsShort => TreeInv) /\ (IsShort' <=> IsShort)
    BY DEF SharesInv, IsShort
  <1>1. CASE LeafAlice \/ LeafBob
    BY <1>0, <1>1, LeafShares DEF SharesInv
  <1>2. ASSUME NEW p \in Party, Local(p)
        PROVE  SharesInv'
    <2>1. \A r \in Party : pc[r] # "leaf" /\ pc'[r] # "leaf"
      BY <1>0, <1>2, BothLeft
    <2>2. LeafInv'
      BY <2>1, Parties DEF LeafInv
    <2>3. ASSUME ~IsShort, Generate(p) \/ Join(p)
          PROVE  TreeInv'
      <3>1. /\ eq' = eq /\ own' = own /\ lev'[p] = lev[p] /\ node'[p] = node[p] /\ node[p] = 0
            /\ \/ pc[p] = "triples" /\ pc'[p] = "and1"
               \/ pc[p] = "exchange" /\ pc'[p] = "and2"
        <4>1. /\ eq' = eq /\ own' = own /\ lev'[p] = lev[p] /\ node'[p] = node[p]
              /\ \/ pc[p] = "triples" /\ pc'[p] = "and1"
                 \/ pc[p] = "exchange" /\ pc'[p] = "and2"
          BY <2>3 DEF Generate, Join, TypeOK
        <4> QED
          BY <4>1 DEF FlowInv, CountInv
      <3>2. \A i \in InnerLevel : \A j \in Joined(i) : ~(j < 0)
        BY Nodes
      <3>3. \A i \in InnerLevel : \A j \in Joined(i) :
              (Masked(p, i, j)' <=> Masked(p, i, j)) /\ (Merged(p, i, j)' <=> Merged(p, i, j))
        BY <3>1, <3>2 DEF Masked, Merged
      <3>4. \A j \in Digits : ~(j < 0)
        BY DigitsRange DEF Digits
      <3>5. \A j \in Digits : Reached(p, j)' = Reached(p, j)
        BY <3>1, <3>4 DEF Reached
      <3>6. \A r \in Party : r # p =>
              /\ \A i, j : /\ Masked(r, i, j)' <=> Masked(r, i, j)
                           /\ Merged(r, i, j)' <=> Merged(r, i, j)
              /\ \A j : Reached(r, j)' = Reached(r, j)
        BY <1>2, ProgressKept
      <3>7. /\ \A r \in Party, j \in Digits : Reached(r, j)' = Reached(r, j)
            /\ \A r \in Party : \A i \in InnerLevel : \A j \in Joined(i) :
                 (Masked(r, i, j)' <=> Masked(r, i, j)) /\ (Merged(r, i, j)' <=> Merged(r, i, j))
        BY <3>3, <3>5, <3>6
      <3> QED
        BY <1>0, <2>1, <2>3, <3>1, <3>7, TreeFrame
    <2>4. ASSUME ~IsShort, AndStep1(p)
          PROVE  TreeInv'
      BY <1>0, <2>4, MaskShares
    <2>5. ASSUME ~IsShort, AndStep2(p)
          PROVE  TreeInv'
      BY <1>0, <2>5, MergeShares DEF ExchangeInv
    <2> QED
      BY <1>0, <1>2, <2>2, <2>3, <2>4, <2>5 DEF Local, SharesInv
  <1>3. CASE UNCHANGED <<inputVars, pc, eq, own, lev, node>>
    <2>1. LeafInv'
      BY <1>0, <1>3 DEF LeafInv, inputVars, IsShort
    <2>2. /\ \A p, i, j : /\ Masked(p, i, j)' <=> Masked(p, i, j)
                          /\ Merged(p, i, j)' <=> Merged(p, i, j)
          /\ \A p, j : Reached(p, j)' = Reached(p, j)
          /\ eq' = eq /\ own' = own /\ pc' = pc
      BY <1>3 DEF Masked, Merged, Reached
    <2>3. ~IsShort => TreeInv'
      BY <1>0, <2>2, TreeFrame
    <2> QED
      BY <1>0, <2>1, <2>3 DEF SharesInv
  <1>4. ASSUME NEW p \in Party, NEW t \in Threads, Thread(p, t)
        PROVE  UNCHANGED <<inputVars, pc, eq, own, lev, node>>
    BY <1>4 DEF Thread, SendChunk, RecvChunk
  <1>5. CASE UNCHANGED vars
    BY <1>3, <1>5 DEF vars
  <1> QED
    BY <1>1, <1>2, <1>3, <1>4, <1>5 DEF Next

------------------------------------------------------------------------------
(* Theorems.                                                                *)

LEMMA Start0 ==
  ASSUME EqualityAssumption, Init
  PROVE  TypeOK /\ FlowInv /\ ExchangeInv /\ SharesInv
  <1>1. /\ NumDigits \in 1..64 /\ NumTriples \in Nat /\ 0 \in Digits /\ (IsShort <=> NumDigits = 1)
        /\ 1 \in PowersOfTwo /\ Start(1) = 0 /\ CeilLog2(1) = 0 /\ Cap \in Nat
    <2>1. 1 \in PowersOfTwo
      BY DEF PowersOfTwo
    <2>2. NumDigits \in 1..64 /\ NumTriples \in Nat /\ 0 \in Digits /\ (IsShort <=> NumDigits = 1)
      BY DigitsRange
    <2>3. Start(1) = 0 /\ CeilLog2(1) = 0
      BY <2>1, Levels
    <2>4. Cap \in Nat
      BY DEF EqualityAssumption
    <2> QED
      BY <2>1, <2>2, <2>3, <2>4
  <1>2. /\ \A p \in Party : /\ pc[p] = "leaf" /\ cnt[p] = 0 /\ old[p] = 0 /\ node[p] = 0
                            /\ lev[p] = 1
                            /\ \A t \in Threads : moved[p][t] = 0
        /\ \A t \in Threads : wire[t] = <<>>
        /\ wire \in [Threads -> Seq(Seq(Bit))]
    BY DEF Init
  <1>3. TypeOK
    <2>1. tape \in TapeType /\ data \in [Party -> Inputs]
      BY DEF Init, EqualityAssumption
    <2>2. tape.junk \in Bit
      BY <2>1 DEF TapeType
    <2>3. /\ own \in [Party -> [Halves -> [Slots -> Bit]]] /\ opened = own
          /\ eq \in [Party -> [Digits -> Bit]]
      BY <2>2 DEF Init
    <2>4. /\ pc \in [Party -> {"leaf", "triples", "and1", "exchange", "and2", "done"}]
          /\ cnt \in [Party -> 0..NumTriples] /\ old \in [Party -> 0..NumTriples]
          /\ node \in [Party -> Digits] /\ lev \in [Party -> 1..(2 * NumDigits)]
          /\ moved \in [Party -> [Threads -> 0..4]]
      BY <1>1 DEF Init
    <2>5. \A t \in Threads : Len(wire[t]) <= Cap
      BY <1>1, <1>2
    <2> QED
      BY <1>2, <2>1, <2>3, <2>4, <2>5 DEF TypeOK
  <1>4. FlowInv
    <2>1. \A p \in Party : CountInv(p)
      BY <1>1, <1>2 DEF CountInv
    <2>2. \A t \in Threads : WireInv(t)
      BY <1>1, <1>2, ThreadFacts DEF WireInv, Sent
    <2> QED
      BY <1>2, <2>1, <2>2 DEF FlowInv, MovedInv
  <1>5. ExchangeInv
    BY <1>2, ThreadFacts DEF ExchangeInv, ReceivedInv, OpenInv
  <1>6. SharesInv
    <2>1. \A i \in InnerLevel : i \in Nat \ {0}
      BY Levels DEF InnerLevel
    <2>2. \A r \in Party : \A i \in InnerLevel : \A j : ~Masked(r, i, j)
      BY <1>2, <2>1 DEF Masked
    <2>3. \A r \in Party : \A j : Reached(r, j) = 1
      BY <1>2 DEF Reached
    <2>4. (\A p \in Party : MaskInv(p)) /\ OperandInv
      BY <2>2, Parties DEF MaskInv, OperandInv
    <2>5. LevelInv
      BY <1>2, Parties DEF LevelInv
    <2>6. AheadInv
      <3> SUFFICES ASSUME NEW r \in Party, NEW i \in InnerLevel, NEW j \in NodesOf(2 * i),
                          Reached(r, j) = 2 * i
                   PROVE  FALSE
        BY DEF AheadInv
      <3> QED
        BY <2>1, <2>3
    <2> QED
      BY <1>2, <2>4, <2>5, <2>6, Parties DEF SharesInv, LeafInv, TreeInv
  <1> QED
    BY <1>3, <1>4, <1>5, <1>6

LEMMA Inductive ==
  ASSUME EqualityAssumption
  PROVE  Spec => [](TypeOK /\ FlowInv /\ ExchangeInv /\ SharesInv)
  <1> DEFINE IInv == TypeOK /\ FlowInv /\ ExchangeInv /\ SharesInv
  <1>1. Init => IInv
    BY Start0
  <1>2. IInv /\ [Next]_vars => IInv'
    <2> SUFFICES ASSUME TypeOK, FlowInv, ExchangeInv, SharesInv, [Next]_vars
                 PROVE  IInv'
      OBVIOUS
    <2>1. FlowInv'
      BY FlowStep
    <2>2. TypeOK'
      BY <2>1, TypeStep DEF FlowInv
    <2> QED
      BY <2>1, <2>2, ExchangeStep, SharesStep
  <1> QED
    BY <1>1, <1>2, PTL DEF Spec

\* Every variable stays in its domain: no AND of either pass and no chunk of
\* an exchange leaves the arrays of num_triples slots.
THEOREM TypeCorrect ==
  ASSUME EqualityAssumption
  PROVE  Spec => []TypeOK
  BY Inductive, PTL

\* A party that is a level ahead has merged nothing of that level, and the
\* other has sent all that it opens in the level before.
THEOREM StaysInStep ==
  ASSUME EqualityAssumption
  PROVE  Spec => []Lockstep
  <1>1. TypeOK /\ FlowInv => Lockstep
    <2> SUFFICES ASSUME TypeOK, FlowInv, NEW p \in Party, lev[p] > lev[Peer(p)]
                 PROVE  lev[p] = 2 * lev[Peer(p)] /\ pc[Peer(p)] \in {"exchange", "and2"} /\ pc[p] # "and2"
      BY DEF Lockstep
    <2> QED
      BY InStep, Parties
  <1> QED
    BY <1>1, Inductive, PTL

\* The values a party opens are those that both have masked, the duplicates of
\* the exchange are all consumed, and no chunk is left in a socket at the end.
THEOREM OpensAgree ==
  ASSUME EqualityAssumption
  PROVE  Spec => []OpenedAgree
  <1>1. TypeOK /\ FlowInv /\ ExchangeInv => OpenedAgree
    <2> SUFFICES ASSUME TypeOK, FlowInv, ExchangeInv
                 PROVE  OpenedAgree
      OBVIOUS
    <2>1. ASSUME NEW p \in Party, pc[p] = "and2", NEW h \in Halves
          PROVE  opened[p][h][cnt[p]] = Xor(own[ALICE][h][cnt[p]], own[BOB][h][cnt[p]])
      <3>1. cnt[p] \in SlotsOf(lev[p])
        BY <2>1, Pass DEF FlowInv
      <3> QED
        BY <2>1, <3>1 DEF ExchangeInv, OpenInv
    <2>2. ASSUME Done, NEW t \in Threads
          PROVE  wire[t] = <<>>
      <3>1. PICK p \in Party, q \in Party : p = Sender(t) /\ q = Receiver(t)
        BY ThreadFacts
      <3>2. /\ pc[p] = "done" /\ pc[q] = "done" /\ CountInv(p) /\ CountInv(q)
            /\ moved[p][t] = 0 /\ moved[q][t] = 0 /\ WireInv(t)
            /\ lev[p] \in PowersOfTwo /\ lev[q] \in PowersOfTwo
        BY <2>2 DEF Done, FlowInv, CountInv, MovedInv
      <3>3. lev[p] = lev[q]
        <4>1. CASE IsShort
          BY <3>2, <4>1 DEF CountInv
        <4>2. CASE ~IsShort
          <5>0. lev[p] \in Nat /\ lev[q] \in Nat
            BY <3>2, Levels
          <5>n. NumDigits \in Nat
            BY DigitsRange
          <5>1. PICK i \in Nat, k \in Nat, n \in Nat : i = lev[p] /\ k = lev[q] /\ n = NumDigits
            BY <5>0, <5>n
          <5>2. i >= n /\ k >= n /\ i < 2 * n /\ k < 2 * n
            BY <3>2, <4>2, <5>1 DEF CountInv
          <5>3. (i < k => 2 * i <= k) /\ (k < i => 2 * k <= i)
            BY <3>2, <5>1, LevelOrder
          <5> QED
            BY <5>1, <5>2, <5>3
        <4> QED
          BY <4>1, <4>2
      <3>4. Sent(p, t) = Sent(q, t) /\ Sent(p, t) \in Nat
        <4>1. Sent(p, t) \in Nat
          BY <3>2, SentRange
        <4> QED
          BY <3>2, <3>3, <4>1 DEF Sent
      <3>5. Sent(p, t) = Sent(q, t) + Len(wire[t]) /\ wire[t] \in Seq(Seq(Bit)) /\ Len(wire[t]) \in Nat
        BY <3>1, <3>2 DEF WireInv, FlowInv
      <3>6. Len(wire[t]) = 0
        BY <3>4, <3>5
      <3> QED
        BY <3>5, <3>6
    <2> QED
      BY <2>1, <2>2 DEF OpenedAgree
  <1> QED
    BY <1>1, Inductive, PTL

\* A party that is done has used every triple that was generated, and no slot
\* twice on the way: counter_triples_used == num_triples.
THEOREM UsesAllTriples ==
  ASSUME EqualityAssumption
  PROVE  Spec => []TriplesExhausted
  <1>1. TypeOK /\ FlowInv => TriplesExhausted
    <2> SUFFICES ASSUME FlowInv, NEW p \in Party, pc[p] = "done", ~IsShort
                 PROVE  cnt[p] = NumTriples
      BY DEF TriplesExhausted
    <2>1. lev[p] \in PowersOfTwo /\ lev[p] >= NumDigits /\ cnt[p] = Start(lev[p])
      BY DEF FlowInv, CountInv
    <2> QED
      BY <2>1, Levels
  <1> QED
    BY <1>1, Inductive, PTL

\* At the same level of the tree the parties' shares of every live node xor to
\* the equality of the digits that the node stands for.
THEOREM NodesAgree ==
  ASSUME EqualityAssumption
  PROVE  Spec => []NodesReconstruct
  <1>1. TypeOK /\ FlowInv /\ SharesInv => NodesReconstruct
    <2> SUFFICES ASSUME FlowInv, SharesInv, ~IsShort, lev[ALICE] = lev[BOB],
                        \A p \in Party : pc[p] \in {"triples", "and1", "exchange", "done"},
                        NEW j \in Digits, j % lev[ALICE] = 0
                 PROVE  Xor(eq[ALICE][j], eq[BOB][j])
                          = BitOf(RangeEqual(j, IF j + lev[ALICE] < NumDigits THEN j + lev[ALICE]
                                                ELSE NumDigits))
      BY DEF NodesReconstruct
    <2>1. PICK i \in PowersOfTwo : i = lev[ALICE]
      BY LevelNat, Parties
    <2>2. j \in NodesOf(i) /\ Reached(ALICE, j) = i /\ Reached(BOB, j) = i
      BY <2>1, Parties DEF NodesOf, Reached
    <2>3. Together(j) = Equal(i, j)
      BY <2>2, Parties DEF SharesInv, TreeInv, LevelInv
    <2> QED
      BY <2>1, <2>3 DEF Together, Equal, RangeEnd
  <1> QED
    BY <1>1, Inductive, PTL

------------------------------------------------------------------------------
(* The result: digits that are all equal are those of equal inputs.         *)

\* check_equality masks no input: they are numbers of the configured width.
InputsFit == \A v \in Inputs : v < 2^Bitlength

\* The one configuration that is excluded: uint8_t N = 1 << 8 is zero.
OverflowsN == IsShort /\ Bitlength = 8

\* What is left of v above its first m digits.
High(v, m) == v \div 2^(m * RadixBase)

LEMMA InputWidth ==
  ASSUME EqualityAssumption, TypeOK, InputsFit, NEW p \in Party
  PROVE  data[p] \in Nat /\ data[p] < 2^Bitlength
  <1>1. data[p] \in Inputs /\ Inputs \subseteq Nat
    BY DEF EqualityAssumption, TypeOK
  <1> QED
    BY <1>1 DEF InputsFit

LEMMA Widths ==
  ASSUME EqualityAssumption, ~IsShort
  PROVE  /\ RadixBase \in 1..8 /\ NumDigits \in 2..64 /\ Rest \in 0..7
         /\ Bitlength = (NumDigits - 1) * RadixBase + (IF Rest # 0 THEN Rest ELSE RadixBase)
  <1>1. Bitlength \in 1..64 /\ RadixBase \in {1, 2, 3, 4, 5, 6, 7, 8}
    BY DEF EqualityAssumption
  <1>2. Rest \in 0..7 /\ NumDigits \in Int
        /\ Bitlength = (NumDigits - 1) * RadixBase + (IF Rest # 0 THEN Rest ELSE RadixBase)
    BY <1>1, SMTT(60) DEF Rest, NumDigits, CeilDiv
  <1> QED
    BY <1>1, <1>2, DigitsRange

\* A digit is the low part of what is above the digits before it, the last
\* one all of it.
LEMMA DigitHigh ==
  ASSUME EqualityAssumption, ~IsShort, NEW v \in Nat, v < 2^Bitlength, NEW m \in Digits
  PROVE  /\ High(v, m) \in Nat
         /\ m = NumDigits - 1 => Digit(v, m) = High(v, m)
         /\ m < NumDigits - 1 =>
              /\ High(v, m + 1) = High(v, m) \div 2^RadixBase
              /\ Digit(v, m) = High(v, m) % 2^RadixBase
  <1> DEFINE beta == RadixBase
             top == IF Rest # 0 THEN Rest ELSE RadixBase
  <1>1. /\ beta \in 1..8 /\ NumDigits \in 2..64 /\ top \in 1..8
        /\ Bitlength = (NumDigits - 1) * beta + top /\ m \in Nat /\ m < NumDigits
    BY Widths DEF Digits
  <1>2. PICK n \in Nat : n = m * beta /\ (m + 1) * beta = n + beta
                         /\ (m = NumDigits - 1 => Bitlength = n + top)
    <2>1. m * beta \in Nat /\ (m + 1) * beta = m * beta + beta
      BY <1>1
    <2> QED
      BY <1>1, <2>1
  <1>3. PICK a \in Nat, b \in Nat : a = 2^n /\ b = 2^beta /\ a > 0 /\ b > 0
    BY <1>1, PowerDouble
  <1>4. High(v, m) = v \div a /\ High(v, m) \in Nat
    BY <1>2, <1>3, DivMod DEF High
  <1>5. ASSUME m = NumDigits - 1
        PROVE  Digit(v, m) = High(v, m)
    <2>1. PICK k \in Nat, c \in Nat : k = top /\ c = 2^k /\ c > 0
      BY <1>1, PowerDouble
    <2>2. v < a * c
      <3>1. 2^(n + k) = 2^n * 2^k
        BY PowerSum
      <3> HIDE DEF top
      <3> QED
        BY <1>2, <1>3, <1>5, <2>1, <3>1
    <2>3. High(v, m) < c
      BY <1>3, <1>4, <2>1, <2>2, DivBound
    <2>4. Digit(v, m) = High(v, m) % c
      BY <1>5, <2>1 DEF Digit, High, BetaPow
    <2>5. PICK h \in Nat : h = High(v, m) /\ h = c * 0 + h /\ h < c
      <3>1. c * 0 + High(v, m) = High(v, m)
        BY <1>4, <2>1
      <3> QED
        BY <1>4, <2>3, <3>1
    <2>6. h % c = h
      BY <2>1, <2>5, DivUnique
    <2> QED
      BY <2>4, <2>5, <2>6
  <1>6. ASSUME m < NumDigits - 1
        PROVE  High(v, m + 1) = High(v, m) \div b /\ Digit(v, m) = High(v, m) % b
    <2>1. 2^((m + 1) * beta) = a * b
      BY <1>1, <1>2, <1>3, PowerSum
    <2>2. High(v, m + 1) = (v \div a) \div b
      BY <1>3, <2>1, DivDiv DEF High
    <2>3. m # NumDigits - 1
      BY <1>1, <1>6
    <2> QED
      BY <1>2, <1>3, <1>4, <2>2, <2>3 DEF Digit, High, BetaPow
  <1> QED
    BY <1>3, <1>4, <1>5, <1>6

LEMMA SameDigitsSameNumber ==
  ASSUME EqualityAssumption, ~IsShort, NEW v \in Nat, NEW w \in Nat,
         v < 2^Bitlength, w < 2^Bitlength, \A m \in Digits : Digit(v, m) = Digit(w, m)
  PROVE  v = w
  <1> DEFINE Same == {m \in Digits : High(v, m) = High(w, m)}
  <1>1. RadixBase \in 1..8 /\ NumDigits \in 2..64
    BY Widths
  <1>2. NumDigits - 1 \in Same
    <2>1. NumDigits - 1 \in Digits
      BY <1>1 DEF Digits
    <2> QED
      BY <2>1, DigitHigh
  <1>3. PICK m \in Same : \A k \in Same : m <= k
    <2>1. Same \subseteq Nat /\ Same # {}
      BY <1>2 DEF Digits
    <2> HIDE DEF Same
    <2> QED
      BY <2>1, LeastElement
  <1>4. m \in Nat /\ m < NumDigits /\ High(v, m) = High(w, m)
    BY <1>1 DEF Digits
  <1>5. m = 0
    <2> SUFFICES ASSUME m # 0
                 PROVE  FALSE
      OBVIOUS
    <2>1. PICK n \in Nat : n + 1 = m /\ n < NumDigits - 1 /\ n \in Digits /\ n < m
      <3>1. m - 1 \in Nat /\ m - 1 + 1 = m /\ m - 1 < NumDigits - 1 /\ m - 1 \in Digits
            /\ m - 1 < m
        BY <1>1, <1>4 DEF Digits
      <3> QED
        BY <3>1
    <2>2. PICK b \in Nat : b = 2^RadixBase /\ b > 0
      BY <1>1, PowerDouble
    <2>3. PICK x \in Nat, y \in Nat : /\ x = High(v, n) /\ y = High(w, n)
                                      /\ x \div b = High(v, m) /\ y \div b = High(w, m)
                                      /\ x % b = Digit(v, n) /\ y % b = Digit(w, n)
      BY <2>1, <2>2, DigitHigh
    <2>4. x = y
      BY <1>4, <2>1, <2>2, <2>3, DivOrder
    <2>5. n \in Same
      BY <2>1, <2>3, <2>4
    <2> HIDE DEF Same
    <2> QED
      BY <1>3, <1>4, <2>1, <2>5
  <1>6. \A z \in Nat : High(z, 0) = z
    <2> SUFFICES ASSUME NEW z \in Nat
                 PROVE  High(z, 0) = z
      OBVIOUS
    <2>1. 0 * RadixBase = 0 /\ 2^0 = 1
      BY <1>1
    <2>2. z \div 1 = z
      OBVIOUS
    <2> QED
      BY <2>1, <2>2 DEF High
  <1> QED
    BY <1>4, <1>5, <1>6

------------------------------------------------------------------------------
(* The short path, where the leaves are all there is.                       *)

ShortInv ==
  IsShort =>
    /\ pc[ALICE] = "done" => eq[ALICE] = tape.mask
    /\ pc[BOB] = "done" =>
         /\ pc[ALICE] = "done"
         /\ eq[BOB][0] = ShortMessage(data[BOB] % (ShortMask + 1))

LEMMA ShortStep ==
  ASSUME EqualityAssumption, TypeOK, FlowInv, ShortInv, [Next]_vars
  PROVE  ShortInv'
  <1> SUFFICES ASSUME IsShort
               PROVE  ShortInv'
    BY DEF ShortInv, IsShort
  <1>1. \A p \in Party : pc[p] \in {"leaf", "done"}
    BY DEF FlowInv, CountInv, TypeOK
  <1>2. CASE UNCHANGED vars
    BY <1>2 DEF vars, inputVars, ShortInv, ShortMessage
  <1>3. CASE LeafAlice
    <2>1. pc[BOB] # "done" /\ pc'[BOB] = pc[BOB]
      BY <1>3, Parties DEF LeafAlice, ShortInv
    <2>2. eq'[ALICE] = tape.mask /\ tape' = tape
      BY <1>3, Parties DEF LeafAlice, TypeOK, inputVars
    <2> QED
      BY <2>1, <2>2 DEF ShortInv
  <1>4. CASE LeafBob
    <2>1. pc[ALICE] = "done" /\ pc'[ALICE] = "done"
      BY <1>1, <1>4, Parties DEF LeafBob, TypeOK
    <2>2. /\ eq'[ALICE] = eq[ALICE] /\ data' = data /\ tape' = tape
          /\ eq'[BOB][0] = ShortMessage(data[BOB] % (ShortMask + 1))
      <3>1. 0 \in Digits /\ eq \in [Party -> [Digits -> Bit]]
        BY DigitsRange DEF TypeOK
      <3> QED
        BY <1>4, <3>1, Parties DEF LeafBob, inputVars
    <2> QED
      BY <2>1, <2>2 DEF ShortInv, ShortMessage
  <1>5. ASSUME NEW p \in Party, Local(p)
        PROVE  FALSE
    BY <1>1, <1>5 DEF Local, Generate, AndStep1, Join, AndStep2
  <1>6. ASSUME NEW p \in Party, NEW t \in Threads, Thread(p, t)
        PROVE  FALSE
    BY <1>1, <1>6 DEF Thread, SendChunk, RecvChunk
  <1> QED
    BY <1>2, <1>3, <1>4, <1>5, <1>6 DEF Next

\* Where 1 << bitlength fits a byte, Bob's message is the one for his input.
LEMMA ShortResult ==
  ASSUME EqualityAssumption, TypeOK, ShortInv, InputsFit, IsShort, ~OverflowsN, Done
  PROVE  Xor(eq[ALICE][0], eq[BOB][0]) = BitOf(data[ALICE] = data[BOB])
  <1>1. PICK x \in Nat, y \in Nat : /\ x = data[ALICE] /\ x < 2^Bitlength
                                    /\ y = data[BOB] /\ y < 2^Bitlength
    BY InputWidth, Parties
  <1>2. PICK n \in Nat : n = 2^Bitlength /\ n > 0 /\ n < 256
    <2>1. Bitlength \in {1, 2, 3, 4, 5, 6, 7}
      BY DEF IsShort, OverflowsN, EqualityAssumption
    <2>2. /\ 2^1 = 2 /\ 2^2 = 4 /\ 2^3 = 8 /\ 2^4 = 16
          /\ 2^5 = 32 /\ 2^6 = 64 /\ 2^7 = 128
      OBVIOUS
    <2> SUFFICES 2^Bitlength \in {2, 4, 8, 16, 32, 64, 128}
      OBVIOUS
    <2>3. CASE Bitlength = 1
      BY <2>2, <2>3
    <2>4. CASE Bitlength = 2
      BY <2>2, <2>4
    <2>5. CASE Bitlength = 3
      BY <2>2, <2>5
    <2>6. CASE Bitlength = 4
      BY <2>2, <2>6
    <2>7. CASE Bitlength = 5
      BY <2>2, <2>7
    <2>8. CASE Bitlength = 6
      BY <2>2, <2>8
    <2>9. CASE Bitlength = 7
      BY <2>2, <2>9
    <2> QED
      BY <2>1, <2>3, <2>4, <2>5, <2>6, <2>7, <2>8, <2>9
  <1>3. ShortN = n /\ ShortMask + 1 = n
    BY <1>2 DEF ShortN, ShortMask
  <1>4. x % n = x /\ y % n = y
    BY <1>1, <1>2
  <1>5. ShortMessage(y) = Xor(BitOf(x = y), tape.mask[0])
    BY <1>1, <1>2, <1>3, <1>4 DEF ShortMessage, LeafMessage
  <1>6. eq[ALICE][0] = tape.mask[0] /\ eq[BOB][0] = ShortMessage(y)
    BY <1>1, <1>3, <1>4, Parties DEF Done, ShortInv
  <1>7. tape.mask[0] \in Bit
    BY DigitsRange DEF TypeOK, TapeType
  <1>8. \A P \in BOOLEAN, m \in Bit : Xor(m, Xor(BitOf(P), m)) = BitOf(P)
    BY DEF Xor, BitOf, Bit
  <1> QED
    BY <1>1, <1>5, <1>6, <1>7, <1>8

\* Parties that are done stand at the same level, with one node left.
LEMMA RootShares ==
  ASSUME EqualityAssumption, TypeOK, FlowInv, SharesInv, ~IsShort, Done
  PROVE  Xor(eq[ALICE][0], eq[BOB][0]) = BitOf(RangeEqual(0, NumDigits))
  <1>1. pc[ALICE] = "done" /\ pc[BOB] = "done"
    BY Parties DEF Done
  <1>2. lev[ALICE] = lev[BOB]
    <2>1. ~(lev[ALICE] > lev[BOB]) /\ ~(lev[BOB] > lev[ALICE])
      BY <1>1, InStep, Parties DEF Peer
    <2> QED
      BY <2>1, LevelNat, Parties
  <1>3. PICK i \in PowersOfTwo : i = lev[ALICE] /\ i >= NumDigits
    BY <1>1, Parties DEF FlowInv, CountInv
  <1>4. 0 \in NodesOf(i) /\ RangeEnd(i, 0) = NumDigits
    <2>1. i \in {1, 2, 4, 8, 16, 32, 64} /\ NumDigits \in 1..64 /\ 0 \in Digits
      BY DigitsRange DEF PowersOfTwo
    <2>2. 0 % i = 0 /\ ~(0 + i < NumDigits)
      BY <1>3, <2>1, SMTT(30)
    <2> QED
      BY <2>1, <2>2 DEF NodesOf, RangeEnd
  <1>5. Reached(ALICE, 0) = i /\ Reached(BOB, 0) = i
    BY <1>1, <1>2, <1>3 DEF Reached
  <1>6. Together(0) = Equal(i, 0)
    BY <1>1, <1>4, <1>5, Parties DEF SharesInv, TreeInv, LevelInv
  <1> QED
    BY <1>4, <1>6 DEF Together, Equal

LEMMA Outcome ==
  ASSUME EqualityAssumption, TypeOK, FlowInv, SharesInv, ShortInv, InputsFit, ~OverflowsN
  PROVE  EqualityCorrect
  <1> SUFFICES ASSUME Done
               PROVE  Xor(eq[ALICE][0], eq[BOB][0]) = BitOf(data[ALICE] = data[BOB])
    BY DEF EqualityCorrect
  <1>1. CASE IsShort
    BY <1>1, ShortResult
  <1>2. CASE ~IsShort
    <2>1. PICK x \in Nat, y \in Nat : /\ x = data[ALICE] /\ x < 2^Bitlength
                                      /\ y = data[BOB] /\ y < 2^Bitlength
      BY InputWidth, Parties
    <2>2. RangeEqual(0, NumDigits) <=> \A m \in Digits : Digit(x, m) = Digit(y, m)
      BY <2>1 DEF RangeEqual, Digits
    <2>3. RangeEqual(0, NumDigits) <=> data[ALICE] = data[BOB]
      BY <1>2, <2>1, <2>2, SameDigitsSameNumber
    <2> HIDE DEF RangeEqual
    <2> QED
      BY <1>2, <2>3, RootShares DEF BitOf
  <1> QED
    BY <1>1, <1>2

\* check_equality is correct at every bit length up to 64, every radix up to
\* 8, and for all inputs of that length, but for the short path of eight bits,
\* which 1 << bitlength in a uint8_t leaves with no messages.
THEOREM DecidesEquality ==
  ASSUME EqualityAssumption, InputsFit, ~OverflowsN
  PROVE  Spec => []EqualityCorrect
  <1>1. Init => ShortInv
    BY Parties DEF Init, ShortInv
  <1>2. TypeOK /\ FlowInv /\ ShortInv /\ [Next]_vars => ShortInv'
    BY ShortStep
  <1>3. TypeOK /\ FlowInv /\ SharesInv /\ ShortInv => EqualityCorrect
    BY Outcome
  <1> QED
    BY <1>1, <1>2, <1>3, Inductive, PTL DEF Spec
=============================================================================
