------------------------- MODULE MillionaireProofs --------------------------
(***************************************************************************)
(* Theorems about Millionaire, for every bit length up to 64, every radix  *)
(* up to 8, all inputs and random tapes and every socket capacity.         *)
(***************************************************************************)
EXTENDS Millionaire, Powers, TLAPS


PowersOfTwo == {1, 2, 4, 8, 16, 32, 64}

\* How many two-AND nodes the levels below i have, and the counters when a
\* party starts level i.
StartCorr(i) == NumDigits - CeilDiv(NumDigits, i) - CeilLog2(i)
LevelStart(i, c) ==
  c = [std |-> CeilLog2(i), corr |-> StartCorr(i),
       comb |-> CeilLog2(i) + 2 * StartCorr(i)]

\* The counters after the first q nodes of level i.
Within(i, q, c) ==
  IF q = 0 THEN LevelStart(i, c)
  ELSE c = [std |-> CeilLog2(i) + 1, corr |-> StartCorr(i) + (q - 1),
            comb |-> CeilLog2(i) + 2 * StartCorr(i) + 1 + 2 * (q - 1)]

\* Where a party is in the tree determines its counters.
CountInv(p) ==
  /\ lev[p] \in PowersOfTwo
  /\ lev[p] < 2 * NumDigits
  /\ LevelStart(lev[p], old[p])
  /\ pc[p] \in {"leaf", "triples"} =>
       lev[p] = 1 /\ node[p] = 0 /\ cnt[p] = old[p]
  /\ pc[p] = "triples" => ~IsShort
  /\ pc[p] \in {"and1", "and2"} =>
       /\ lev[p] < NumDigits
       /\ node[p] + lev[p] < NumDigits
       /\ \E q \in Nat : node[p] = 2 * lev[p] * q /\ Within(lev[p], q, cnt[p])
  /\ pc[p] = "exchange" =>
       /\ lev[p] < NumDigits
       /\ 2 * lev[p] \in PowersOfTwo
       /\ LevelStart(2 * lev[p], cnt[p])
       /\ node[p] = 0
  /\ pc[p] = "done" => IsShort \/ (lev[p] >= NumDigits /\ cnt[p] = old[p])

IInv == TypeOK /\ \A p \in Party : CountInv(p)

------------------------------------------------------------------------------
(* Arithmetic of the tree's shape.                                          *)

LEMMA NumDigitsRange == NumDigits \in 1..64 /\ (~IsShort => NumDigits >= 2)
  <1>1. ASSUME NEW b \in 1..8, NEW l \in 1..64
        PROVE  (l + b - 1) \div b \in 1..64 /\ (l > b => (l + b - 1) \div b >= 2)
    <2>1. b \in {1, 2, 3, 4, 5, 6, 7, 8}
      OBVIOUS
    <2> QED
      BY <2>1, SMTT(60)
  <1> QED
    BY <1>1, WidthAssumption DEF NumDigits, CeilDiv, IsShort

LEMMA Log2Powers ==
  /\ CeilLog2(1) = 0
  /\ CeilLog2(2) = 1
  /\ CeilLog2(4) = 2
  /\ CeilLog2(8) = 3
  /\ CeilLog2(16) = 4
  /\ CeilLog2(32) = 5
  /\ CeilLog2(64) = 6
  BY DEF CeilLog2, BitOf

LEMMA TripleCounts ==
  /\ NumTriplesStd \in 0..6
  /\ NumTriples = 2 * NumDigits - 2 - NumTriplesStd
  BY NumDigitsRange DEF NumTriples, NumTriplesCorr, NumTriplesStd, CeilLog2, BitOf

\* A level below the root has its standard slot, and room for its pairs.
LEMMA LevelBounds ==
  ASSUME NEW i \in PowersOfTwo, i < NumDigits
  PROVE  /\ CeilLog2(i) \in 0..(NumTriplesStd - 1)
         /\ StartCorr(i) \in Nat
         /\ 2 * i \in PowersOfTwo
         /\ CeilLog2(2 * i) = CeilLog2(i) + 1
  BY NumDigitsRange, Log2Powers, SMTT(60)
     DEF PowersOfTwo, StartCorr, CeilDiv, NumTriplesStd, CeilLog2, BitOf

\* The pairs of all levels fit, exactly when the root is reached.
LEMMA CorrBound ==
  ASSUME NEW i \in PowersOfTwo, i < 2 * NumDigits
  PROVE  /\ StartCorr(i) \in Int
         /\ CeilLog2(i) \in 0..NumTriplesStd
         /\ StartCorr(i) <= NumDigits - 1 - NumTriplesStd
         /\ i >= NumDigits => /\ StartCorr(i) = NumDigits - 1 - NumTriplesStd
                              /\ CeilLog2(i) = NumTriplesStd
  BY NumDigitsRange, Log2Powers, SMTT(60)
     DEF PowersOfTwo, StartCorr, CeilDiv, NumTriplesStd, CeilLog2, BitOf

\* The pair of the q-th node of a level is inside the arrays.
LEMMA NodeBound ==
  ASSUME NEW i \in PowersOfTwo, NEW q \in Nat, q > 0, 2 * i * q + i < NumDigits
  PROVE  StartCorr(i) + q <= NumDigits - 1 - NumTriplesStd
  BY NumDigitsRange, Log2Powers, SMTT(60)
     DEF PowersOfTwo, StartCorr, CeilDiv, NumTriplesStd, CeilLog2, BitOf

\* When the q-th node is the last of its level, the counters are those with
\* which the next level starts.
LEMMA LevelEnd ==
  ASSUME NEW i \in PowersOfTwo, NEW q \in Nat, 2 * i * q + i < NumDigits,
         ~(2 * i * q + 2 * i + i < NumDigits)
  PROVE  StartCorr(2 * i) = StartCorr(i) + q
  BY NumDigitsRange, Log2Powers, SMTT(60)
     DEF PowersOfTwo, StartCorr, CeilDiv

------------------------------------------------------------------------------
(* The counters stay where the tree's shape puts them.                      *)

LEMMA PartyFacts ==
  /\ ALICE \in Party /\ BOB \in Party
  /\ \A p \in Party : Peer(p) \in Party /\ Peer(p) # p
  BY DEF Party, Peer, ALICE, BOB

\* A party none of whose control variables change keeps its counters.
LEMMA CountUnchanged ==
  ASSUME NEW p \in Party, CountInv(p),
         pc'[p] = pc[p], lev'[p] = lev[p], node'[p] = node[p],
         cnt'[p] = cnt[p], old'[p] = old[p]
  PROVE  CountInv(p)'
  BY DEF CountInv, LevelStart, Within

LEMMA CountInit == Init => \A p \in Party : CountInv(p)
  <1> SUFFICES ASSUME Init, NEW p \in Party
               PROVE  CountInv(p)
    OBVIOUS
  <1>1. pc[p] = "leaf" /\ lev[p] = 1 /\ node[p] = 0
        /\ cnt[p] = NoCount /\ old[p] = NoCount
    BY DEF Init
  <1>2. CeilLog2(1) = 0 /\ StartCorr(1) = 0
    BY Log2Powers, NumDigitsRange DEF StartCorr, CeilDiv
  <1>3. LevelStart(1, NoCount)
    BY <1>2 DEF LevelStart, NoCount
  <1> QED
    BY <1>1, <1>3, NumDigitsRange DEF CountInv, PowersOfTwo

\* Advancing the counters over the q-th node.
LEMMA AdvanceWithin ==
  ASSUME NEW i \in PowersOfTwo, NEW q \in Nat, NEW c, Within(i, q, c),
         i < NumDigits
  PROVE  Within(i, q + 1, Advance(c, 2 * i * q))
  <1> DEFINE h == CeilLog2(i)
             m == StartCorr(i)
  <1>1. h \in Int /\ m \in Int
    BY LevelBounds
  <1> HIDE DEF h, m
  <1>2. CASE q = 0
    <2>1. c = [std |-> h, corr |-> m, comb |-> h + 2 * m] /\ 2 * i * q = 0
      BY <1>2 DEF Within, LevelStart, PowersOfTwo, h, m
    <2>2. Advance(c, 2 * i * q) = [std |-> h + 1, corr |-> m, comb |-> h + 2 * m + 1]
      BY <2>1, <1>1 DEF Advance
    <2> QED
      BY <2>2, <1>1, <1>2 DEF Within, h, m
  <1>3. CASE q # 0
    <2>1. 2 * i * q # 0
      BY <1>3 DEF PowersOfTwo
    <2>2. c = [std |-> h + 1, corr |-> m + (q - 1), comb |-> h + 2 * m + 1 + 2 * (q - 1)]
      BY <1>3 DEF Within, h, m
    <2>3. /\ m + (q - 1) + 1 = m + q
          /\ h + 2 * m + 1 + 2 * (q - 1) + 2 = h + 2 * m + 1 + 2 * q
          /\ (q + 1) - 1 = q /\ q + 1 # 0
      BY <1>1
    <2>4. Advance(c, 2 * i * q) = [c EXCEPT !.corr = @ + 1, !.comb = @ + 2]
      BY <2>1 DEF Advance
    <2>5. Advance(c, 2 * i * q) =
            [std |-> h + 1, corr |-> m + q, comb |-> h + 2 * m + 1 + 2 * q]
      BY <2>2, <2>3, <2>4
    <2> QED
      BY <2>3, <2>5 DEF Within, h, m
  <1> QED
    BY <1>2, <1>3

\* The counters after the last node of a level start the next one.
LEMMA AdvanceLast ==
  ASSUME NEW i \in PowersOfTwo, NEW q \in Nat, NEW c, Within(i, q, c),
         2 * i * q + i < NumDigits, ~(2 * i * q + 2 * i + i < NumDigits)
  PROVE  LevelStart(2 * i, Advance(c, 2 * i * q))
  <1>1. i < NumDigits
    BY NumDigitsRange DEF PowersOfTwo
  <1>2. Within(i, q + 1, Advance(c, 2 * i * q))
    BY <1>1, AdvanceWithin
  <1>3. StartCorr(2 * i) = StartCorr(i) + q /\ CeilLog2(2 * i) = CeilLog2(i) + 1
    BY <1>1, LevelEnd, LevelBounds
  <1>4. CeilLog2(i) \in Int /\ StartCorr(i) \in Int
    BY <1>1, LevelBounds
  <1> QED
    BY <1>2, <1>3, <1>4 DEF Within, LevelStart

\* A pass over one more node, in either of the two passes of a level.
LEMMA PassStep ==
  ASSUME NEW p \in Party, CountInv(p), pc[p] \in {"and1", "and2"}
  PROVE  \E q \in Nat :
           /\ node[p] = 2 * lev[p] * q
           /\ NextNode(lev[p], node[p]) = 2 * lev[p] * (q + 1)
           /\ NextNode(lev[p], node[p]) \in Nat
           /\ Within(lev[p], q + 1, Advance(cnt[p], node[p]))
           /\ ~HasPartner(lev[p], NextNode(lev[p], node[p])) =>
                /\ LevelStart(2 * lev[p], Advance(cnt[p], node[p]))
                /\ 2 * lev[p] \in PowersOfTwo
                /\ 2 * lev[p] < 2 * NumDigits
  <1>1. /\ lev[p] \in PowersOfTwo /\ lev[p] < NumDigits
        /\ node[p] + lev[p] < NumDigits
    BY DEF CountInv
  <1>2. PICK q \in Nat : node[p] = 2 * lev[p] * q /\ Within(lev[p], q, cnt[p])
    BY DEF CountInv
  <1>3. lev[p] \in Nat /\ NumDigits \in Nat
    BY <1>1, NumDigitsRange DEF PowersOfTwo
  <1>4. NextNode(lev[p], node[p]) = 2 * lev[p] * q + 2 * lev[p]
    BY <1>2, <1>3 DEF NextNode
  <1>5. 2 * lev[p] * q + 2 * lev[p] = 2 * lev[p] * (q + 1)
    BY <1>1, <1>2 DEF PowersOfTwo
  <1>6. 2 * lev[p] * (q + 1) \in Nat
    BY <1>1, <1>2 DEF PowersOfTwo
  <1>7. Within(lev[p], q + 1, Advance(cnt[p], node[p]))
    BY <1>1, <1>2, AdvanceWithin
  <1>8. ASSUME ~HasPartner(lev[p], NextNode(lev[p], node[p]))
        PROVE  LevelStart(2 * lev[p], Advance(cnt[p], node[p]))
    BY <1>1, <1>2, <1>4, <1>8, AdvanceLast DEF HasPartner
  <1>9. 2 * lev[p] \in PowersOfTwo /\ 2 * lev[p] < 2 * NumDigits
    BY <1>1, <1>3, LevelBounds
  <1> QED
    BY <1>2, <1>4, <1>5, <1>6, <1>7, <1>8, <1>9

\* The slots and the triples of the node a party is at lie in the arrays.
LEMMA NodeInBounds ==
  ASSUME NEW p \in Party, CountInv(p), pc[p] \in {"and1", "and2"}
  PROVE  /\ NodeSlots(cnt[p], node[p]) \subseteq Slots
         /\ \A s \in NodeSlots(cnt[p], node[p]) :
              cnt[p].comb + (s - FirstSlot(cnt[p], node[p])) \in Slots
         /\ node[p] + lev[p] \in Digits
  <1> DEFINE i == lev[p]
             j == node[p]
             h == CeilLog2(i)
             m == StartCorr(i)
             n == NumDigits
             l == NumTriplesStd
             t == NumTriples
  <1>1. PICK q \in Nat : j = 2 * i * q /\ Within(i, q, cnt[p])
    BY DEF CountInv
  <1>2. i \in PowersOfTwo /\ i < n /\ j + i < n
    BY DEF CountInv
  <1>3. /\ h \in 0..(l - 1) /\ m \in Nat /\ l \in 0..6 /\ t = 2 * n - 2 - l /\ n \in 1..64
    BY <1>2, LevelBounds, TripleCounts, NumDigitsRange
  <1>4. m <= n - 1 - l
    <2>1. i < 2 * n
      BY <1>2, <1>3 DEF PowersOfTwo
    <2> QED
      BY <1>2, <2>1, CorrBound
  <1>5. j \in Nat /\ i \in Nat /\ j + i \in Digits
    <2>1. i \in Nat /\ 2 * i \in Nat
      BY <1>2 DEF PowersOfTwo
    <2>2. j \in Nat
      BY <1>1, <2>1
    <2> QED
      BY <2>1, <2>2, <1>2, <1>3 DEF Digits
  <1> HIDE DEF h, m, n, l, t
  <1>6. CASE q = 0
    <2>1. j = 0 /\ cnt[p] = [std |-> h, corr |-> m, comb |-> h + 2 * m]
      BY <1>1, <1>2, <1>6 DEF Within, LevelStart, PowersOfTwo, h, m
    <2>2. h \in 0..(t - 1) /\ h + 2 * m \in 0..(t - 1)
      BY <1>3, <1>4
    <2>3. NodeSlots(cnt[p], j) = {h} /\ FirstSlot(cnt[p], j) = h /\ cnt[p].comb = h + 2 * m
      BY <2>1 DEF NodeSlots, FirstSlot, StdSlot
    <2>4. h + 2 * m + (h - h) = h + 2 * m
      BY <1>3
    <2> QED
      BY <1>5, <2>2, <2>3, <2>4 DEF Slots, t
  <1>7. CASE q # 0
    <2>1. j # 0
      BY <1>1, <1>2, <1>7 DEF PowersOfTwo
    <2>2. cnt[p] = [std |-> h + 1, corr |-> m + (q - 1),
                    comb |-> h + 2 * m + 1 + 2 * (q - 1)]
      BY <1>1, <1>7 DEF Within, h, m
    <2> DEFINE s == l + 2 * (m + (q - 1))
               k == h + 2 * m + 1 + 2 * (q - 1)
    <2>3. m + q <= n - 1 - l
      BY <1>1, <1>2, <1>7, NodeBound DEF m, n, l
    <2>4. /\ s \in 0..(t - 1) /\ s + 1 \in 0..(t - 1)
          /\ k \in 0..(t - 1) /\ k + 1 \in 0..(t - 1)
          /\ k + (s - s) = k /\ k + ((s + 1) - s) = k + 1
      BY <1>3, <1>7, <2>3
    <2>5. /\ NodeSlots(cnt[p], j) = {s, s + 1} /\ FirstSlot(cnt[p], j) = s
          /\ cnt[p].comb = k
      BY <2>1, <2>2 DEF NodeSlots, FirstSlot, CorrSlot, l
    <2> HIDE DEF s, k
    <2> QED
      BY <1>5, <2>4, <2>5 DEF Slots, t
  <1> QED
    BY <1>6, <1>7

\* So do the slots of the units the exchange transfers.
LEMMA UnitInBounds ==
  ASSUME NEW p \in Party, CountInv(p), pc[p] = "exchange",
         NEW n \in Nat, n < 2 * HalfSize(p)
  PROVE  UnitSlot(p, n) \in Slots
  <1> DEFINE i == lev[p]
             h == CeilLog2(i)
             m == StartCorr(i)
             m2 == StartCorr(2 * i)
             l == NumTriplesStd
             t == NumTriples
  <1>1. i \in PowersOfTwo /\ i < NumDigits /\ 2 * i \in PowersOfTwo
        /\ LevelStart(i, old[p]) /\ LevelStart(2 * i, cnt[p])
    BY DEF CountInv
  <1>2. /\ h \in 0..(l - 1) /\ m \in Nat /\ CeilLog2(2 * i) = h + 1
        /\ l \in 0..6 /\ t = 2 * NumDigits - 2 - l /\ NumDigits \in 1..64
    BY <1>1, LevelBounds, TripleCounts, NumDigitsRange
  <1>3. i \in Int
    BY <1>1 DEF PowersOfTwo
  <1>4. m2 \in Int /\ m2 <= NumDigits - 1 - l
    BY <1>1, <1>2, <1>3, CorrBound
  <1>5. old[p].std = h /\ old[p].corr = m /\ cnt[p].std = h + 1 /\ cnt[p].corr = m2
    BY <1>1, <1>2 DEF LevelStart
  <1> HIDE DEF i, h, m, m2, l, t
  <1>6. SizeStd(p) = 1 /\ SizeCorr(p) = 2 * (m2 - m) /\ HalfSize(p) = 1 + 2 * (m2 - m)
    BY <1>2, <1>4, <1>5 DEF SizeStd, SizeCorr, HalfSize
  <1> DEFINE u == IF n < HalfSize(p) THEN n ELSE n - HalfSize(p)
  <1>7. u \in Nat /\ u < 1 + 2 * (m2 - m)
    BY <1>2, <1>4, <1>6
  <1>8. UnitSlot(p, n) = IF u < 1 THEN h + u ELSE l + 2 * m + (u - 1)
    BY <1>5, <1>6 DEF UnitSlot, CorrSlot, l
  <1> HIDE DEF u
  <1> QED
    BY <1>2, <1>4, <1>7, <1>8 DEF Slots, t

------------------------------------------------------------------------------
(* Types.                                                                   *)

LEMMA BitFacts ==
  /\ \A a, b : Xor(a, b) \in Bit /\ And(a, b) \in Bit
  /\ \A P : BitOf(P) \in Bit
  BY DEF Xor, And, BitOf, Bit

LEMMA MergedBit == \A a, b : Merged(a, b) \in Bit
  BY BitFacts DEF Merged

LEMMA ProductBit == \A p, s, k : ProductShare(p, s, k) \in Bit
  BY BitFacts DEF ProductShare

LEMMA ShortBit == TypeOK => \A k : ShortMessage(k) \in Bit
  BY BitFacts DEF ShortMessage, TypeOK, TapeType

LEMMA MessageBits ==
  TypeOK => \A i, k : /\ CmpBit(i, LeafMessage(i, k)) \in Bit
                      /\ EqBit(i, LeafMessage(i, k)) \in Bit
  <1> SUFFICES ASSUME TypeOK, NEW i, NEW k
               PROVE  /\ CmpBit(i, LeafMessage(i, k)) \in Bit
                      /\ EqBit(i, LeafMessage(i, k)) \in Bit
    OBVIOUS
  <1>1. tape.junk \in Bit
    BY DEF TypeOK, TapeType
  <1>2. PICK c1 \in Bit, e1 \in Bit :
          LeafMessage(i, k) = IF i = 0 THEN c1 ELSE 2 * c1 + e1
    BY BitFacts DEF LeafMessage
  <1> QED
    BY <1>1, <1>2 DEF CmpBit, EqBit, Bit

LEMMA TypeInit == Init => TypeOK
  <1> SUFFICES ASSUME Init
               PROVE  TypeOK
    OBVIOUS
  <1>1. tape \in TapeType /\ tape.junk \in Bit /\ greater \in BOOLEAN
    BY InputAssumption DEF Init, TapeType
  <1> QED
    BY <1>1 DEF Init, TypeOK, NoCount, NoTriple

LEMMA AdvanceType ==
  ASSUME NEW c \in [std : Nat, corr : Nat, comb : Nat], NEW j
  PROVE  Advance(c, j) \in [std : Nat, corr : Nat, comb : Nat]
  <1>1. c.std + 1 \in Nat /\ c.corr + 1 \in Nat /\ c.comb + 1 \in Nat /\ c.comb + 2 \in Nat
    OBVIOUS
  <1>2. CASE j = 0
    BY <1>1, <1>2 DEF Advance
  <1>3. CASE j # 0
    BY <1>1, <1>3 DEF Advance
  <1> QED
    BY <1>2, <1>3

\* The leaf OTs leave bits, on the short path and on the long one.
LEMMA LeafTypes ==
  ASSUME TypeOK, LeafAlice \/ LeafBob
  PROVE  cmp' \in [Party -> [Digits -> Bit]] /\ eq' \in [Party -> [Digits -> Bit]]
  <1>1. /\ cmp \in [Party -> [Digits -> Bit]] /\ eq \in [Party -> [Digits -> Bit]]
        /\ tape.maskCmp \in [Digits -> Bit] /\ tape.maskEq \in [Digits -> Bit]
    BY DEF TypeOK, TapeType
  <1>2. CASE LeafAlice
    BY <1>1, <1>2 DEF LeafAlice
  <1>3. CASE LeafBob /\ IsShort
    <2>1. PICK b \in Bit : cmp' = [cmp EXCEPT ![BOB][0] = b]
      BY <1>3, ShortBit DEF LeafBob
    <2>2. eq' = eq
      BY <1>3 DEF LeafBob
    <2> QED
      BY <1>1, <2>1, <2>2
  <1>4. CASE LeafBob /\ ~IsShort
    <2> DEFINE got == [i \in Digits |-> LeafMessage(i, Digit(data[BOB], i))]
               gc == [i \in Digits |-> CmpBit(i, got[i])]
               ge == [i \in Digits |-> EqBit(i, got[i])]
    <2>1. gc \in [Digits -> Bit] /\ ge \in [Digits -> Bit]
      BY MessageBits
    <2>2. cmp' = [cmp EXCEPT ![BOB] = gc] /\ eq' = [eq EXCEPT ![BOB] = ge]
      BY <1>4 DEF LeafBob
    <2> HIDE DEF got, gc, ge
    <2> QED
      BY <1>1, <2>1, <2>2
  <1> QED
    BY <1>2, <1>3, <1>4

LEMMA TypeStep == IInv /\ [Next]_vars => TypeOK'
  <1> SUFFICES ASSUME IInv, [Next]_vars
               PROVE  TypeOK'
    OBVIOUS
  <1> DEFINE Counters == [std : Nat, corr : Nat, comb : Nat]
             Values == [Party -> [{"e", "f"} -> [Slots -> Bit]]]
             Pcs == {"leaf", "triples", "and1", "exchange", "and2", "done"}
  <1>t. TypeOK
    BY DEF IInv
  <1>p. pc \in [Party -> Pcs] /\ node \in [Party -> Nat] /\ lev \in [Party -> Nat \ {0}]
    BY <1>t DEF TypeOK
  <1>c. cnt \in [Party -> Counters] /\ old \in [Party -> Counters]
    BY <1>t DEF TypeOK
  <1>v. own \in Values /\ opened \in Values
    BY <1>t DEF TypeOK
  <1>m. moved \in [Party -> [{"io", "rev"} -> Nat]] /\ wire \in [{"io", "rev"} -> Seq(Bit)]
    BY <1>t DEF TypeOK
  <1>1. CASE LeafAlice \/ LeafBob
    <2>1. pc' \in [Party -> Pcs]
      BY <1>1, <1>p DEF LeafAlice, LeafBob
    <2>2. cmp' \in [Party -> [Digits -> Bit]] /\ eq' \in [Party -> [Digits -> Bit]]
      BY <1>t, <1>1, LeafTypes
    <2> QED
      BY <1>t, <1>1, <2>1, <2>2 DEF LeafAlice, LeafBob, TypeOK, inputVars
  <1>2. ASSUME NEW p \in Party, Generate(p)
        PROVE  TypeOK'
    <2>1. pc' \in [Party -> Pcs]
      BY <1>2, <1>p DEF Generate
    <2> QED
      BY <1>t, <1>2, <2>1 DEF Generate, TypeOK, inputVars, treeVars
  <1>3. ASSUME NEW p \in Party, AndStep1(p)
        PROVE  TypeOK'
    <2>1. cnt' \in [Party -> Counters]
      BY <1>3, <1>c, AdvanceType DEF AndStep1
    <2>2. node' \in [Party -> Nat] /\ pc' \in [Party -> Pcs]
      <3>1. NextNode(lev[p], node[p]) \in Nat
        BY <1>3, PassStep DEF IInv, AndStep1
      <3> QED
        BY <1>3, <1>p, <3>1 DEF AndStep1
    <2>3. own' \in Values
      <3>1. PICK E, F :
              /\ E = [t \in Slots |-> IF t \in NodeSlots(cnt[p], node[p])
                       THEN Xor(tape.a[p][cnt[p].comb + (t - FirstSlot(cnt[p], node[p]))],
                                IF t = FirstSlot(cnt[p], node[p]) THEN cmp[p][node[p]] ELSE eq[p][node[p]])
                       ELSE own[p].e[t]]
              /\ F = [t \in Slots |-> IF t \in NodeSlots(cnt[p], node[p])
                       THEN Xor(tape.b[p][cnt[p].comb + (t - FirstSlot(cnt[p], node[p]))],
                                eq[p][node[p] + lev[p]])
                       ELSE own[p].f[t]]
              /\ own' = [own EXCEPT ![p].e = E, ![p].f = F]
        BY <1>3, <1>v DEF AndStep1
      <3>2. E \in [Slots -> Bit] /\ F \in [Slots -> Bit]
        BY <1>v, <3>1, BitFacts
      <3>3. own' = [own EXCEPT ![p].e = E, ![p].f = F]
        BY <3>1
      <3> QED
        BY <1>v, <3>2, <3>3
    <2>4. pad' \in [Party -> [Slots -> Nat \cup {NoTriple}]]
      <3>1. \A s \in NodeSlots(cnt[p], node[p]) :
              cnt[p].comb + (s - FirstSlot(cnt[p], node[p])) \in Slots
        BY <1>3, NodeInBounds DEF IInv, AndStep1
      <3>2. Slots \subseteq Nat /\ pad \in [Party -> [Slots -> Nat \cup {NoTriple}]]
        BY <1>t DEF Slots, TypeOK
      <3> QED
        BY <1>3, <3>1, <3>2 DEF AndStep1
    <2> QED
      BY <1>t, <1>3, <2>1, <2>2, <2>3, <2>4 DEF AndStep1, TypeOK, inputVars
  <1>4. ASSUME NEW p \in Party, NEW t \in Threads, SendUnit(p, t)
        PROVE  TypeOK'
    <2>1. t \in {"io", "rev"} /\ moved[p][t] \in Nat
      BY <1>m DEF Threads
    <2>2. UnitSlot(p, moved[p][t]) \in Slots
      BY <1>4, <2>1, UnitInBounds DEF IInv, SendUnit, InExchange, Units
    <2>3. own[p][UnitField(p, moved[p][t])][UnitSlot(p, moved[p][t])] \in Bit
      BY <1>v, <2>2 DEF UnitField
    <2>4. wire' \in [{"io", "rev"} -> Seq(Bit)]
      BY <1>4, <1>m, <2>1, <2>3 DEF SendUnit
    <2>5. moved' \in [Party -> [{"io", "rev"} -> Nat]]
      BY <1>4, <1>m, <2>1 DEF SendUnit
    <2> QED
      BY <1>t, <1>4, <2>4, <2>5 DEF SendUnit, TypeOK, inputVars, treeVars
  <1>5. ASSUME NEW p \in Party, NEW t \in Threads, RecvUnit(p, t)
        PROVE  TypeOK'
    <2>1. t \in {"io", "rev"} /\ moved[p][t] \in Nat /\ wire[t] \in Seq(Bit)
      BY <1>m DEF Threads
    <2>2. Head(wire[t]) \in Bit /\ Tail(wire[t]) \in Seq(Bit)
      BY <1>5, <2>1 DEF RecvUnit
    <2>3. opened' \in Values
      <3>1. PICK h \in {"e", "f"}, s \in {UnitSlot(p, moved[p][t])} :
              opened' = [opened EXCEPT ![p][h][s] = Head(wire[t])]
        BY <1>5 DEF RecvUnit, UnitField
      <3> QED
        BY <1>v, <2>2, <3>1
    <2>4. wire' \in [{"io", "rev"} -> Seq(Bit)] /\ moved' \in [Party -> [{"io", "rev"} -> Nat]]
      BY <1>5, <1>m, <2>1, <2>2 DEF RecvUnit
    <2> QED
      BY <1>t, <1>5, <2>3, <2>4 DEF RecvUnit, TypeOK, inputVars
  <1>6. ASSUME NEW p \in Party, Join(p)
        PROVE  TypeOK'
    <2>1. opened' \in Values
      <3>1. PICK O : /\ opened' = [opened EXCEPT ![p] = O]
                     /\ O = [h \in {"e", "f"} |-> [s \in Slots |->
                              IF s \in LevelSlots(p) THEN Xor(opened[p][h][s], own[p][h][s])
                                                     ELSE opened[p][h][s]]]
        BY <1>6 DEF Join
      <3>2. O \in [{"e", "f"} -> [Slots -> Bit]]
        BY <1>v, <3>1, BitFacts
      <3>3. opened' = [opened EXCEPT ![p] = O]
        BY <3>1
      <3> QED
        BY <1>v, <3>2, <3>3
    <2>2. cnt' \in [Party -> Counters] /\ moved' \in [Party -> [{"io", "rev"} -> Nat]]
          /\ pc' \in [Party -> Pcs]
      BY <1>6, <1>c, <1>m, <1>p DEF Join
    <2> QED
      BY <1>t, <1>6, <2>1, <2>2 DEF Join, TypeOK, inputVars
  <1>7. ASSUME NEW p \in Party, AndStep2(p)
        PROVE  TypeOK'
    <2>1. cnt' \in [Party -> Counters] /\ old' \in [Party -> Counters]
      BY <1>7, <1>c, AdvanceType DEF AndStep2
    <2>2. node' \in [Party -> Nat] /\ pc' \in [Party -> Pcs] /\ lev' \in [Party -> Nat \ {0}]
      <3>1. NextNode(lev[p], node[p]) \in Nat
        BY <1>7, PassStep DEF IInv, AndStep2
      <3> QED
        BY <1>7, <1>p, <3>1 DEF AndStep2
    <2>3. cmp' \in [Party -> [Digits -> Bit]] /\ eq' \in [Party -> [Digits -> Bit]]
      <3>1. PICK m \in Bit, n \in Bit :
              /\ cmp' = [cmp EXCEPT ![p][node[p]] = m]
              /\ eq' = eq \/ eq' = [eq EXCEPT ![p][node[p]] = n]
        BY <1>7, MergedBit, ProductBit DEF AndStep2
      <3>2. cmp \in [Party -> [Digits -> Bit]] /\ eq \in [Party -> [Digits -> Bit]]
        BY <1>t DEF TypeOK
      <3>3. cmp' \in [Party -> [Digits -> Bit]]
        BY <3>1, <3>2
      <3>4. [eq EXCEPT ![p][node[p]] = n] \in [Party -> [Digits -> Bit]]
        BY <3>2
      <3> QED
        BY <3>1, <3>2, <3>3, <3>4
    <2> QED
      BY <1>t, <1>7, <2>1, <2>2, <2>3 DEF AndStep2, TypeOK, inputVars
  <1>8. CASE UNCHANGED vars
    BY <1>t, <1>8 DEF vars, TypeOK, inputVars, treeVars
  <1> QED
    BY <1>1, <1>2, <1>3, <1>4, <1>5, <1>6, <1>7, <1>8 DEF Next, Local, Thread

LEMMA CountStep == IInv /\ [Next]_vars => \A p \in Party : CountInv(p)'
  <1> SUFFICES ASSUME IInv, [Next]_vars, NEW r \in Party
               PROVE  CountInv(r)'
    OBVIOUS
  <1>t. TypeOK /\ CountInv(r)
    BY DEF IInv
  <1> USE <1>t DEF inputVars, treeVars
  <1>1. CASE LeafAlice \/ LeafBob
    <2>1. /\ lev'[r] = lev[r] /\ node'[r] = node[r] /\ cnt'[r] = cnt[r] /\ old'[r] = old[r]
      BY <1>1 DEF LeafAlice, LeafBob
    <2>2. CASE pc'[r] = pc[r]
      BY <2>1, <2>2, CountUnchanged
    <2>3. CASE pc[r] = "leaf" /\ (pc'[r] = IF IsShort THEN "done" ELSE "triples")
      BY <2>1, <2>3 DEF CountInv, LevelStart
    <2> QED
      BY <1>1, <2>2, <2>3 DEF LeafAlice, LeafBob, TypeOK
  <1>2. ASSUME NEW p \in Party, Generate(p)
        PROVE  CountInv(r)'
    <2>1. CASE p = r
      <3>1. pc[r] = "triples" /\ pc'[r] = "and1"
        BY <1>2, <2>1 DEF Generate, TypeOK
      <3>2. lev[r] = 1 /\ node[r] = 0 /\ ~IsShort /\ cnt[r] = old[r] /\ LevelStart(1, old[r])
        BY <3>1 DEF CountInv
      <3>3. 2 * 1 * 0 = 0 /\ Within(1, 0, cnt[r])
        BY <3>2 DEF Within
      <3>4. 1 < NumDigits /\ 0 + 1 < NumDigits
        BY <3>2, NumDigitsRange
      <3> QED
        BY <1>2, <3>1, <3>2, <3>3, <3>4 DEF Generate, CountInv, LevelStart, Within
    <2>2. CASE p # r
      BY <1>2, <2>2, CountUnchanged DEF Generate, TypeOK
    <2> QED
      BY <2>1, <2>2
  <1>3. ASSUME NEW p \in Party, AndStep1(p)
        PROVE  CountInv(r)'
    <2>1. CASE p = r
      <3>1. PICK q \in Nat :
              /\ NextNode(lev[r], node[r]) = 2 * lev[r] * (q + 1)
              /\ Within(lev[r], q + 1, Advance(cnt[r], node[r]))
              /\ ~HasPartner(lev[r], NextNode(lev[r], node[r])) =>
                   /\ LevelStart(2 * lev[r], Advance(cnt[r], node[r]))
                   /\ 2 * lev[r] \in PowersOfTwo
        BY <1>3, <2>1, PassStep DEF AndStep1
      <3>2. /\ cnt'[r] = Advance(cnt[r], node[r])
            /\ lev'[r] = lev[r] /\ old'[r] = old[r]
            /\ pc[r] = "and1"
        BY <1>3, <2>1 DEF AndStep1, TypeOK
      <3>3. CASE HasPartner(lev[r], NextNode(lev[r], node[r]))
        <4>1. pc'[r] = "and1" /\ node'[r] = NextNode(lev[r], node[r])
          BY <1>3, <2>1, <3>3 DEF AndStep1, TypeOK
        <4>2. NextNode(lev[r], node[r]) + lev[r] < NumDigits
          BY <3>3 DEF HasPartner
        <4>3. (q + 1) \in Nat /\ node'[r] = 2 * lev'[r] * (q + 1)
              /\ Within(lev'[r], q + 1, cnt'[r])
          BY <3>1, <3>2, <4>1
        <4>4. \E k \in Nat : node'[r] = 2 * lev'[r] * k /\ Within(lev'[r], k, cnt'[r])
          BY <4>3
        <4>5. LevelStart(lev'[r], old'[r]) /\ lev'[r] < NumDigits
              /\ lev'[r] \in PowersOfTwo /\ lev'[r] < 2 * NumDigits
          BY <3>2, <4>1 DEF CountInv
        <4>6. node'[r] + lev'[r] < NumDigits
          BY <3>2, <4>1, <4>2
        <4> QED
          BY <4>1, <4>4, <4>5, <4>6 DEF CountInv, LevelStart, Within
      <3>4. CASE ~HasPartner(lev[r], NextNode(lev[r], node[r]))
        <4>1. pc'[r] = "exchange" /\ node'[r] = 0
          BY <1>3, <2>1, <3>4 DEF AndStep1, TypeOK
        <4> QED
          BY <3>1, <3>2, <3>4, <4>1 DEF CountInv, LevelStart
      <3> QED
        BY <3>3, <3>4
    <2>2. CASE p # r
      BY <1>3, <2>2, CountUnchanged DEF AndStep1, TypeOK
    <2> QED
      BY <2>1, <2>2
  <1>4. ASSUME NEW p \in Party, NEW t \in Threads, SendUnit(p, t) \/ RecvUnit(p, t)
        PROVE  CountInv(r)'
    BY <1>4, CountUnchanged DEF SendUnit, RecvUnit, TypeOK
  <1>5. ASSUME NEW p \in Party, Join(p)
        PROVE  CountInv(r)'
    <2>1. CASE p = r
      <3>1. /\ pc[r] = "exchange" /\ pc'[r] = "and2" /\ cnt'[r] = old[r]
            /\ lev'[r] = lev[r] /\ node'[r] = node[r] /\ old'[r] = old[r]
        BY <1>5, <2>1 DEF Join, TypeOK
      <3>2. node[r] = 0 /\ lev[r] < NumDigits /\ lev[r] \in Nat /\ NumDigits \in Nat
        BY <3>1, NumDigitsRange DEF CountInv, PowersOfTwo
      <3>3. node[r] = 2 * lev[r] * 0 /\ node[r] + lev[r] < NumDigits
        BY <3>2
      <3>4. Within(lev[r], 0, cnt'[r])
        BY <3>1 DEF CountInv, Within
      <3> QED
        BY <3>1, <3>2, <3>3, <3>4 DEF CountInv, LevelStart, Within
    <2>2. CASE p # r
      BY <1>5, <2>2, CountUnchanged DEF Join, TypeOK
    <2> QED
      BY <2>1, <2>2
  <1>6. ASSUME NEW p \in Party, AndStep2(p)
        PROVE  CountInv(r)'
    <2>1. CASE p = r
      <3>1. PICK q \in Nat :
              /\ NextNode(lev[r], node[r]) = 2 * lev[r] * (q + 1)
              /\ Within(lev[r], q + 1, Advance(cnt[r], node[r]))
              /\ ~HasPartner(lev[r], NextNode(lev[r], node[r])) =>
                   /\ LevelStart(2 * lev[r], Advance(cnt[r], node[r]))
                   /\ 2 * lev[r] \in PowersOfTwo
                   /\ 2 * lev[r] < 2 * NumDigits
        BY <1>6, <2>1, PassStep DEF AndStep2
      <3>2. cnt'[r] = Advance(cnt[r], node[r]) /\ pc[r] = "and2"
        BY <1>6, <2>1 DEF AndStep2, TypeOK
      <3>3. CASE HasPartner(lev[r], NextNode(lev[r], node[r]))
        <4>1. pc'[r] = "and2" /\ node'[r] = NextNode(lev[r], node[r])
              /\ lev'[r] = lev[r] /\ old'[r] = old[r]
          BY <1>6, <2>1, <3>3 DEF AndStep2, TypeOK
        <4>2. NextNode(lev[r], node[r]) + lev[r] < NumDigits
          BY <3>3 DEF HasPartner
        <4>3. (q + 1) \in Nat /\ node'[r] = 2 * lev'[r] * (q + 1)
              /\ Within(lev'[r], q + 1, cnt'[r])
          BY <3>1, <3>2, <4>1
        <4>4. \E k \in Nat : node'[r] = 2 * lev'[r] * k /\ Within(lev'[r], k, cnt'[r])
          BY <4>3
        <4>5. LevelStart(lev'[r], old'[r]) /\ lev'[r] < NumDigits
              /\ lev'[r] \in PowersOfTwo /\ lev'[r] < 2 * NumDigits
          BY <3>2, <4>1 DEF CountInv
        <4>6. node'[r] + lev'[r] < NumDigits
          BY <3>2, <4>1, <4>2
        <4> QED
          BY <4>1, <4>4, <4>5, <4>6 DEF CountInv, LevelStart, Within
      <3>4. CASE ~HasPartner(lev[r], NextNode(lev[r], node[r]))
        <4>1. /\ old'[r] = Advance(cnt[r], node[r]) /\ lev'[r] = 2 * lev[r]
              /\ node'[r] = 0
              /\ pc'[r] = IF 2 * lev[r] >= NumDigits THEN "done" ELSE "and1"
          BY <1>6, <2>1, <3>4 DEF AndStep2, TypeOK
        <4>2. lev'[r] \in PowersOfTwo /\ lev'[r] < 2 * NumDigits /\ LevelStart(lev'[r], old'[r])
          BY <3>1, <3>4, <4>1
        <4>3. CASE 2 * lev[r] >= NumDigits
          BY <3>2, <4>1, <4>2, <4>3 DEF CountInv, LevelStart
        <4>4. CASE ~(2 * lev[r] >= NumDigits)
          <5>1. lev'[r] < NumDigits /\ lev'[r] \in Nat
            BY <4>1, <4>2, <4>4, NumDigitsRange DEF PowersOfTwo
          <5>2. node'[r] = 2 * lev'[r] * 0 /\ node'[r] + lev'[r] < NumDigits
            BY <4>1, <5>1
          <5>3. Within(lev'[r], 0, cnt'[r])
            BY <3>2, <4>1, <4>2 DEF Within
          <5>4. pc'[r] = "and1"
            BY <4>1, <4>4
          <5> QED
            BY <4>2, <5>1, <5>2, <5>3, <5>4 DEF CountInv, LevelStart, Within
        <4> QED
          BY <4>3, <4>4
      <3> QED
        BY <3>3, <3>4
    <2>2. CASE p # r
      BY <1>6, <2>2, CountUnchanged DEF AndStep2, TypeOK
    <2> QED
      BY <2>1, <2>2
  <1>7. CASE UNCHANGED vars
    BY <1>7, CountUnchanged DEF vars
  <1> QED
    BY <1>1, <1>2, <1>3, <1>4, <1>5, <1>6, <1>7 DEF Next, Local, Thread

------------------------------------------------------------------------------
LEMMA Inductive == Spec => []IInv
  <1>1. Init => IInv
    BY TypeInit, CountInit DEF IInv
  <1>2. IInv /\ [Next]_vars => IInv'
    BY TypeStep, CountStep DEF IInv
  <1> QED
    BY <1>1, <1>2, PTL DEF Spec

\* Type correctness: whatever reaches a socket, an array or a share is a bit,
\* because every index the counters produce is in bounds.
THEOREM TypeCorrect == Spec => []TypeOK
  <1>1. IInv => TypeOK
    BY DEF IInv
  <1> QED
    BY <1>1, Inductive, PTL

\* No AND of the tree, and no transfer of the exchange, leaves the arrays of
\* num_triples elements, for any bit length and radix that configure accepts.
THEOREM StaysInBounds == Spec => []InBounds
  <1>1. IInv => InBounds
    <2> SUFFICES ASSUME IInv, NEW p \in Party
                 PROVE  /\ pc[p] \in {"and1", "and2"} =>
                             /\ NodeSlots(cnt[p], node[p]) \subseteq Slots
                             /\ \A s \in NodeSlots(cnt[p], node[p]) :
                                  cnt[p].comb + (s - FirstSlot(cnt[p], node[p])) \in Slots
                             /\ node[p] + lev[p] \in Digits
                        /\ pc[p] = "exchange" =>
                             \A n \in 0..(2 * HalfSize(p) - 1) : UnitSlot(p, n) \in Slots
      BY DEF InBounds
    <2>1. CountInv(p) /\ HalfSize(p) \in Int
      BY SMTT(20) DEF IInv, TypeOK, HalfSize, SizeStd, SizeCorr
    <2>2. \A n \in 0..(2 * HalfSize(p) - 1) : n \in Nat /\ n < 2 * HalfSize(p)
      BY <2>1
    <2> QED
      BY <2>1, <2>2, NodeInBounds, UnitInBounds
  <1> QED
    BY <1>1, Inductive, PTL

\* The assertion counter_combined == num_triples at the end of the traversal
\* never fails.
THEOREM AllTriplesUsed == Spec => []TriplesExhausted
  <1>1. ASSUME IInv
        PROVE  TriplesExhausted
    <2> SUFFICES ASSUME NEW p \in Party, pc[p] = "done", ~IsShort
                 PROVE  cnt[p].comb = NumTriples
      BY DEF TriplesExhausted
    <2>1. /\ lev[p] \in PowersOfTwo /\ lev[p] < 2 * NumDigits /\ lev[p] >= NumDigits
          /\ LevelStart(lev[p], cnt[p])
      BY <1>1 DEF IInv, CountInv
    <2>2. cnt[p].comb = CeilLog2(lev[p]) + 2 * StartCorr(lev[p])
      BY <2>1 DEF LevelStart
    <2> QED
      BY <2>1, <2>2, CorrBound, TripleCounts, NumDigitsRange
  <1> QED
    BY <1>1, Inductive, PTL

------------------------------------------------------------------------------
(***************************************************************************)
(* The AND tree as the two parties walk it together.  First, every slot    *)
(* has one triple, whoever masks it and in whatever order: the closed form *)
(* of the triple that masks a slot.  Then the exchange of the masked       *)
(* operands, over all levels: what is on a socket is what its sender       *)
(* masked, in the order in which the receiver stores it, and the parties   *)
(* stay in lockstep.                                                       *)
(***************************************************************************)

------------------------------------------------------------------------------
(* The triples that mask the slots.                                         *)

\* The triples the levels below i use, and the slots of level i: its
\* standard slot and its pairs.
Start(i) == CeilLog2(i) + 2 * StartCorr(i)
LevelSlot(i, s) ==
  \/ s = CeilLog2(i)
  \/ /\ NumTriplesStd + 2 * StartCorr(i) <= s
     /\ s < NumTriplesStd + 2 * StartCorr(2 * i)

\* The triple of slot s of level i.
SlotTriple(i, s) ==
  IF s = CeilLog2(i) THEN Start(i)
  ELSE CeilLog2(i) + 1 + (s - NumTriplesStd)

InnerLevel == {i \in PowersOfTwo : i < NumDigits}

\* Slot s is masked by triple k.
Masks(k, s) == \E i \in InnerLevel : LevelSlot(i, s) /\ k = SlotTriple(i, s)

\* The slots of the nodes that party p has masked in its level: all of them
\* after the first pass.
Masked(p, s) ==
  LET corr == IF pc[p] = "and2" THEN StartCorr(2 * lev[p]) ELSE cnt[p].corr
      std == IF pc[p] = "and2" THEN CeilLog2(2 * lev[p]) ELSE cnt[p].std
  IN  \/ old[p].std <= s /\ s < std
      \/ /\ NumTriplesStd + 2 * old[p].corr <= s
         /\ s < NumTriplesStd + 2 * corr

PadInv(p) ==
  /\ \A s \in Slots : pad[p][s] # NoTriple => Masks(pad[p][s], s)
  /\ pc[p] \in {"and1", "exchange", "and2"} =>
       \A s \in Slots : Masked(p, s) => pad[p][s] # NoTriple

------------------------------------------------------------------------------
(* Arithmetic of levels.                                                    *)

\* The levels in order: the slots and the triples of one come before those of
\* the next.
LEMMA InnerLevels ==
  ASSUME NEW i \in InnerLevel
  PROVE  /\ i \in PowersOfTwo /\ i < NumDigits
         /\ 2 * i \in PowersOfTwo /\ 2 * i < 2 * NumDigits
         /\ CeilLog2(i) \in 0..(NumTriplesStd - 1)
         /\ CeilLog2(2 * i) = CeilLog2(i) + 1
         /\ StartCorr(i) \in Nat /\ StartCorr(2 * i) \in Nat
         /\ StartCorr(i) <= StartCorr(2 * i)
         /\ StartCorr(2 * i) <= NumDigits - 1 - NumTriplesStd
         /\ NumDigits \in 2..64
         /\ NumTriplesStd \in 1..6
  <1>1. i \in PowersOfTwo /\ i < NumDigits /\ i \in Nat \ {0} /\ NumDigits \in 1..64
    BY NumDigitsRange DEF InnerLevel, PowersOfTwo
  <1>2. /\ CeilLog2(i) \in 0..(NumTriplesStd - 1) /\ StartCorr(i) \in Nat
        /\ 2 * i \in PowersOfTwo /\ CeilLog2(2 * i) = CeilLog2(i) + 1
    BY <1>1, LevelBounds
  <1>3. StartCorr(2 * i) \in Int /\ StartCorr(2 * i) <= NumDigits - 1 - NumTriplesStd
    BY <1>1, <1>2, CorrBound
  <1>4. StartCorr(i) <= StartCorr(2 * i)
    BY <1>1, Log2Powers, SMTT(60) DEF PowersOfTwo, StartCorr, CeilDiv
  <1> QED
    BY <1>1, <1>2, <1>3, <1>4, TripleCounts

LEMMA LevelOrder ==
  ASSUME NEW i \in InnerLevel, NEW m \in PowersOfTwo, i < m, m < 2 * NumDigits
  PROVE  /\ 2 * i <= m
         /\ CeilLog2(i) + 1 <= CeilLog2(m)
         /\ StartCorr(2 * i) <= StartCorr(m)
  BY NumDigitsRange, Log2Powers, SMTT(60)
     DEF InnerLevel, PowersOfTwo, StartCorr, CeilDiv

\* The pairs of the nodes up to the q-th are of the level.
LEMMA NodeInLevel ==
  ASSUME NEW i \in PowersOfTwo, NEW q \in Nat, q > 0, 2 * i * q + i < NumDigits
  PROVE  StartCorr(i) + q <= StartCorr(2 * i)
  BY NumDigitsRange, Log2Powers, SMTT(60) DEF PowersOfTwo, StartCorr, CeilDiv

\* The slots of two levels are disjoint, and so are their triples.
LEMMA LevelsApart ==
  ASSUME NEW i \in InnerLevel, NEW m \in InnerLevel, i < m,
         NEW s \in Slots, LevelSlot(i, s), NEW t \in Slots, LevelSlot(m, t)
  PROVE  s # t /\ SlotTriple(i, s) < SlotTriple(m, t)
  <1>1. CeilLog2(i) + 1 <= CeilLog2(m) /\ StartCorr(2 * i) <= StartCorr(m)
    BY LevelOrder, InnerLevels DEF PowersOfTwo
  <1> QED
    BY <1>1, InnerLevels DEF LevelSlot, SlotTriple, Start, Slots

LEMMA LevelInjective ==
  ASSUME NEW i \in InnerLevel,
         NEW s \in Slots, LevelSlot(i, s), NEW t \in Slots, LevelSlot(i, t),
         SlotTriple(i, s) = SlotTriple(i, t)
  PROVE  s = t
  BY InnerLevels DEF LevelSlot, SlotTriple, Start, Slots

\* A slot has one triple and a triple one slot.
LEMMA MasksOneToOne ==
  ASSUME NEW s \in Slots, NEW t \in Slots, NEW k, NEW l,
         Masks(k, s), Masks(l, t)
  PROVE  s = t <=> k = l
  <1>1. PICK i \in InnerLevel : LevelSlot(i, s) /\ k = SlotTriple(i, s)
    BY DEF Masks
  <1>2. PICK m \in InnerLevel : LevelSlot(m, t) /\ l = SlotTriple(m, t)
    BY DEF Masks
  <1>3. k \in Int /\ l \in Int /\ i \in Int /\ m \in Int
    BY <1>1, <1>2, InnerLevels DEF SlotTriple, Start, Slots, PowersOfTwo
  <1>4. CASE i = m
    BY <1>1, <1>2, <1>4, LevelInjective
  <1>5. CASE i < m
    BY <1>1, <1>2, <1>3, <1>5, LevelsApart
  <1>6. CASE m < i
    BY <1>1, <1>2, <1>3, <1>6, LevelsApart
  <1> QED
    BY <1>3, <1>4, <1>5, <1>6

------------------------------------------------------------------------------
(* What the two passes of a level do.                                       *)

\* The slots of the node a party is at belong to its level, and their triples
\* are those the counters give.
LEMMA NodeMasks ==
  ASSUME NEW p \in Party, CountInv(p), pc[p] \in {"and1", "and2"},
         NEW s \in NodeSlots(cnt[p], node[p])
  PROVE  /\ s \in Slots
         /\ lev[p] \in InnerLevel
         /\ LevelSlot(lev[p], s)
         /\ cnt[p].comb + (s - FirstSlot(cnt[p], node[p])) = SlotTriple(lev[p], s)
         /\ FirstSlot(cnt[p], node[p]) \in Int
         /\ s >= FirstSlot(cnt[p], node[p])
         /\ node[p] = 0 => s = old[p].std
         /\ node[p] # 0 => s # CeilLog2(lev[p])
  <1> DEFINE i == lev[p]
             j == node[p]
             h == CeilLog2(i)
             m == StartCorr(i)
             l == NumTriplesStd
  <1>1. PICK q \in Nat : j = 2 * i * q /\ Within(i, q, cnt[p])
    BY DEF CountInv
  <1>2. i \in InnerLevel /\ i \in PowersOfTwo /\ j + i < NumDigits /\ LevelStart(i, old[p])
    BY DEF CountInv, InnerLevel
  <1>3. s \in Slots
    BY NodeInBounds
  <1>4. h \in 0..(l - 1) /\ m \in Nat /\ l \in 1..6 /\ StartCorr(2 * i) \in Nat
        /\ m <= StartCorr(2 * i)
    BY <1>2, InnerLevels
  <1>5. old[p].std = h
    BY <1>2 DEF LevelStart
  <1>6. CASE q = 0
    <2>1. j = 0 /\ cnt[p] = [std |-> h, corr |-> m, comb |-> h + 2 * m]
      BY <1>1, <1>2, <1>6 DEF Within, LevelStart, PowersOfTwo
    <2>2. s = h /\ FirstSlot(cnt[p], j) = h /\ cnt[p].comb = h + 2 * m
      BY <2>1 DEF NodeSlots, FirstSlot, StdSlot
    <2> HIDE DEF h, m
    <2>3. h + 2 * m + (h - h) = h + 2 * m
      BY <1>4
    <2> QED
      BY <1>2, <1>3, <1>4, <1>5, <2>1, <2>2, <2>3 DEF LevelSlot, SlotTriple, Start, h, m
  <1>7. CASE q # 0
    <2>1. j # 0
      BY <1>1, <1>2, <1>7 DEF PowersOfTwo
    <2>2. cnt[p] = [std |-> h + 1, corr |-> m + (q - 1),
                    comb |-> h + 2 * m + 1 + 2 * (q - 1)]
      BY <1>1, <1>7 DEF Within
    <2>3. m + q <= StartCorr(2 * i)
      BY <1>1, <1>2, <1>7, NodeInLevel
    <2> DEFINE f == l + 2 * (m + (q - 1))
    <2>4. s \in {f, f + 1} /\ FirstSlot(cnt[p], j) = f
          /\ cnt[p].comb = h + 2 * m + 1 + 2 * (q - 1)
      BY <2>1, <2>2 DEF NodeSlots, FirstSlot, CorrSlot
    <2> HIDE DEF h, m, l
    <2>5. /\ f \in Int /\ s >= f /\ s # h
          /\ l + 2 * m <= s /\ s < l + 2 * StartCorr(2 * i)
          /\ h + 2 * m + 1 + 2 * (q - 1) + (s - f) = h + 1 + (s - l)
      BY <1>4, <1>7, <2>3, <2>4
    <2> HIDE DEF f
    <2> QED
      BY <1>2, <1>3, <2>1, <2>4, <2>5 DEF LevelSlot, SlotTriple, h, m, l
  <1> QED
    BY <1>6, <1>7

------------------------------------------------------------------------------
(* The pads are the closed form's, at every step.                           *)

\* What a party does to its own arrays and counters is no one else's.
LEMMA LocalFrame ==
  ASSUME TypeOK, NEW p \in Party, Local(p), NEW r \in Party, p # r
  PROVE  /\ pc'[r] = pc[r] /\ lev'[r] = lev[r] /\ node'[r] = node[r]
         /\ cnt'[r] = cnt[r] /\ old'[r] = old[r] /\ pad'[r] = pad[r]
         /\ own'[r] = own[r] /\ opened'[r] = opened[r] /\ moved'[r] = moved[r]
         /\ cmp'[r] = cmp[r] /\ eq'[r] = eq[r]
  <1> USE DEF TypeOK, inputVars, treeVars
  <1>1. CASE Generate(p)
    BY <1>1 DEF Generate
  <1>2. CASE AndStep1(p)
    BY <1>2 DEF AndStep1
  <1>3. CASE Join(p)
    BY <1>3 DEF Join
  <1>4. CASE AndStep2(p)
    <2>1. /\ node'[r] = node[r] /\ cnt'[r] = cnt[r] /\ pad'[r] = pad[r]
          /\ own'[r] = own[r] /\ opened'[r] = opened[r] /\ moved'[r] = moved[r]
      BY <1>4 DEF AndStep2
    <2>2. pc'[r] = pc[r] /\ lev'[r] = lev[r] /\ old'[r] = old[r]
      BY <1>4 DEF AndStep2
    <2>3. cmp'[r] = cmp[r]
      BY <1>4 DEF AndStep2
    <2>4. eq'[r] = eq[r]
      BY <1>4 DEF AndStep2
    <2> QED
      BY <2>1, <2>2, <2>3, <2>4
  <1> QED
    BY <1>1, <1>2, <1>3, <1>4 DEF Local

LEMMA PadUnchanged ==
  ASSUME NEW p \in Party, PadInv(p),
         pad'[p] = pad[p], pc'[p] = pc[p], cnt'[p] = cnt[p], old'[p] = old[p],
         lev'[p] = lev[p]
  PROVE  PadInv(p)'
  <1>1. \A s : Masked(p, s)' <=> Masked(p, s)
    BY DEF Masked
  <1>2. \A k, s : Masks(k, s)' <=> Masks(k, s)
    BY DEF Masks, LevelSlot, SlotTriple, Start
  <1> QED
    BY <1>1, <1>2 DEF PadInv

LEMMA PadStep1 ==
  ASSUME IInv, NEW p \in Party, PadInv(p), AndStep1(p)
  PROVE  PadInv(p)'
  <1> DEFINE j == node[p]
             c == cnt[p]
  <1>1. /\ CountInv(p) /\ pc[p] = "and1" /\ TypeOK
        /\ pc'[p] \in {"and1", "exchange"}
        /\ cnt'[p] = Advance(c, j)
        /\ old'[p] = old[p]
    BY DEF IInv, AndStep1, TypeOK
  <1>2. \A s \in Slots : pad'[p][s] = IF s \in NodeSlots(c, j)
                                     THEN c.comb + (s - FirstSlot(c, j)) ELSE pad[p][s]
    BY <1>1 DEF AndStep1, TypeOK
  <1>3. ASSUME NEW s \in NodeSlots(c, j)
        PROVE  s \in Slots /\ Masks(c.comb + (s - FirstSlot(c, j)), s)
               /\ c.comb + (s - FirstSlot(c, j)) # NoTriple
    <2>1. c.comb + (s - FirstSlot(c, j)) \in Slots
      BY <1>1, NodeInBounds
    <2> QED
      BY <1>1, <2>1, NodeMasks DEF Masks, Slots, NoTriple
  <1>4. \A s \in Slots : pad'[p][s] # NoTriple => Masks(pad'[p][s], s)
    BY <1>2, <1>3 DEF PadInv
  <1>5. ASSUME NEW s \in Slots, Masked(p, s)'
        PROVE  s \in NodeSlots(c, j) \/ Masked(p, s)
    <2>1. c \in [std : Nat, corr : Nat, comb : Nat]
      BY <1>1 DEF TypeOK
    <2>0. /\ s \in Int /\ NumTriplesStd \in Int
          /\ c.std \in Nat /\ c.corr \in Nat /\ old[p].std \in Nat /\ old[p].corr \in Nat
      BY <1>1, TripleCounts, SMTT(20) DEF TypeOK, Slots
    <2>2. \/ old[p].std <= s /\ s < cnt'[p].std
          \/ /\ NumTriplesStd + 2 * old[p].corr <= s
             /\ s < NumTriplesStd + 2 * cnt'[p].corr
      BY <1>1, <1>5 DEF Masked
    <2>3. CASE j = 0
      <3>1. cnt'[p].std = c.std + 1 /\ cnt'[p].corr = c.corr
        BY <1>1, <2>1, <2>3 DEF Advance
      <3>2. \/ s = c.std
            \/ old[p].std <= s /\ s < c.std
            \/ /\ NumTriplesStd + 2 * old[p].corr <= s
               /\ s < NumTriplesStd + 2 * c.corr
        <4>1. PICK d \in Nat : d = c.std
          BY <2>0
        <4>2. s < d + 1 => s = d \/ s < d
          BY <2>0, <4>1
        <4>3. \/ old[p].std <= s /\ s < d + 1
              \/ /\ NumTriplesStd + 2 * old[p].corr <= s
                 /\ s < NumTriplesStd + 2 * c.corr
          BY <2>2, <3>1, <4>1
        <4> QED
          BY <4>1, <4>2, <4>3
      <3> QED
        BY <1>1, <2>3, <3>2 DEF Masked, NodeSlots, StdSlot, c
    <2>4. CASE j # 0
      <3>1. cnt'[p].std = c.std /\ cnt'[p].corr = c.corr + 1
        BY <1>1, <2>1, <2>4 DEF Advance
      <3>2. CASE old[p].std <= s /\ s < c.std
        BY <1>1, <3>2 DEF Masked, c
      <3>3. CASE /\ NumTriplesStd + 2 * old[p].corr <= s
                 /\ s < NumTriplesStd + 2 * (c.corr + 1)
        <4>1. \/ s < NumTriplesStd + 2 * c.corr
              \/ s = NumTriplesStd + 2 * c.corr
              \/ s = NumTriplesStd + 2 * c.corr + 1
          <5>1. PICK w : w = NumTriplesStd + 2 * c.corr
            OBVIOUS
          <5>2. w \in Int /\ s \in Int
            BY <2>0, <5>1
          <5>3. s < w + 2
            BY <2>0, <3>3, <5>1
          <5>4. s < w \/ s = w \/ s = w + 1
            BY <5>2, <5>3
          <5> QED BY <5>1, <5>4
        <4> QED
          BY <1>1, <2>4, <3>3, <4>1 DEF Masked, NodeSlots, CorrSlot, c
      <3> QED
        BY <2>2, <3>1, <3>2, <3>3
    <2> QED
      BY <2>3, <2>4
  <1>6. \A s \in Slots : Masked(p, s)' => pad'[p][s] # NoTriple
    BY <1>1, <1>2, <1>3, <1>5 DEF PadInv
  <1> QED
    BY <1>4, <1>6 DEF PadInv, Masks, LevelSlot, SlotTriple, Start

LEMMA PadStep ==
  ASSUME IInv, IInv', [Next]_vars, NEW r \in Party, PadInv(r)
  PROVE  PadInv(r)'
  <1>t. TypeOK /\ CountInv(r) /\ TypeOK' /\ CountInv(r)'
    BY DEF IInv
  <1>n. /\ NumTriplesStd \in Int
        /\ cnt[r] \in [std : Nat, corr : Nat, comb : Nat]
        /\ old[r] \in [std : Nat, corr : Nat, comb : Nat]
        /\ \A s \in Slots : s \in Int
    BY <1>t, TripleCounts DEF TypeOK, Slots
  <1> USE DEF inputVars, treeVars
  \* A party that starts a pass with its counters where its level starts has
  \* masked nothing of the level.
  <1>s. ASSUME pad'[r] = pad[r], pc'[r] \in {"leaf", "triples", "and1", "done"},
               pc'[r] = "and1" => cnt'[r] = old'[r]
        PROVE  PadInv(r)'
    <2>1. \A s \in Slots : pad'[r][s] # NoTriple => Masks(pad'[r][s], s)
      BY <1>s DEF PadInv
    <2>2. ASSUME pc'[r] = "and1", NEW s \in Slots
          PROVE  ~Masked(r, s)'
      <3>1. old'[r] \in [std : Nat, corr : Nat, comb : Nat]
        BY <1>t DEF TypeOK
      <3> QED
        BY <1>s, <1>n, <2>2, <3>1 DEF Masked
    <2> QED
      BY <1>s, <2>1, <2>2 DEF PadInv, Masks, LevelSlot, SlotTriple, Start
  <1>1. CASE LeafAlice \/ LeafBob
    <2>1. /\ lev'[r] = lev[r] /\ cnt'[r] = cnt[r] /\ old'[r] = old[r] /\ pad'[r] = pad[r]
          /\ pc'[r] = pc[r] \/ pc'[r] \in {"triples", "done"}
      BY <1>1, <1>t DEF LeafAlice, LeafBob, TypeOK
    <2> QED
      BY <2>1, <1>s, PadUnchanged
  <1>2. ASSUME NEW p \in Party, Generate(p)
        PROVE  PadInv(r)'
    <2>1. CASE p = r
      BY <1>2, <2>1, <1>t, <1>s DEF Generate, TypeOK, CountInv
    <2>2. CASE p # r
      BY <1>2, <2>2, <1>t, LocalFrame, PadUnchanged DEF Local
    <2> QED
      BY <2>1, <2>2
  <1>3. ASSUME NEW p \in Party, AndStep1(p)
        PROVE  PadInv(r)'
    <2>1. CASE p # r
      BY <1>3, <2>1, <1>t, LocalFrame, PadUnchanged DEF Local
    <2> QED
      BY <1>3, <2>1, PadStep1
  <1>4. ASSUME NEW p \in Party, NEW t \in Threads, SendUnit(p, t) \/ RecvUnit(p, t)
        PROVE  PadInv(r)'
    BY <1>4, PadUnchanged, <1>t DEF SendUnit, RecvUnit, TypeOK
  <1>5. ASSUME NEW p \in Party, Join(p)
        PROVE  PadInv(r)'
    <2>1. CASE p = r
      <3>1. /\ pc[r] = "exchange" /\ pc'[r] = "and2" /\ pad'[r] = pad[r]
            /\ lev'[r] = lev[r] /\ old'[r] = old[r]
        BY <1>5, <2>1, <1>t DEF Join, TypeOK
      <3>2. LevelStart(2 * lev[r], cnt[r])
        BY <3>1, <1>t DEF CountInv
      <3>3. ASSUME NEW s \in Slots
            PROVE  Masked(r, s)' => Masked(r, s)
        BY <3>1, <3>2 DEF Masked, LevelStart
      <3> QED
        BY <3>1, <3>3 DEF PadInv, Masks, LevelSlot, SlotTriple, Start
    <2>2. CASE p # r
      BY <1>5, <2>2, <1>t, LocalFrame, PadUnchanged DEF Local
    <2> QED
      BY <2>1, <2>2
  <1>6. ASSUME NEW p \in Party, AndStep2(p)
        PROVE  PadInv(r)'
    <2>1. CASE p = r
      <3>1. pc[r] = "and2" /\ pad'[r] = pad[r] /\ cnt'[r] = Advance(cnt[r], node[r])
        BY <1>6, <2>1, <1>t DEF AndStep2, TypeOK
      <3>2. CASE HasPartner(lev[r], NextNode(lev[r], node[r]))
        <4>1. pc'[r] = "and2" /\ lev'[r] = lev[r] /\ old'[r] = old[r]
          BY <1>6, <2>1, <3>2, <1>t DEF AndStep2, TypeOK
        <4>2. \A s : Masked(r, s)' <=> Masked(r, s)
          BY <3>1, <4>1 DEF Masked
        <4> QED
          BY <3>1, <4>1, <4>2 DEF PadInv, Masks, LevelSlot, SlotTriple, Start
      <3>3. CASE ~HasPartner(lev[r], NextNode(lev[r], node[r]))
        <4>1. pc'[r] \in {"and1", "done"}
          BY <1>6, <2>1, <3>3, <1>t DEF AndStep2, TypeOK
        <4>2. old'[r] = cnt'[r]
          BY <1>6, <2>1, <3>1, <3>3, <1>t DEF AndStep2, TypeOK
        <4> QED
          BY <3>1, <4>1, <4>2, <1>s
      <3> QED
        BY <3>2, <3>3
    <2>2. CASE p # r
      BY <1>6, <2>2, <1>t, LocalFrame, PadUnchanged DEF Local
    <2> QED
      BY <2>1, <2>2
  <1>7. CASE UNCHANGED vars
    BY <1>7, PadUnchanged DEF vars
  <1> QED
    BY <1>1, <1>2, <1>3, <1>4, <1>5, <1>6, <1>7 DEF Next, Local, Thread

LEMMA PadInit == Init => \A p \in Party : PadInv(p)
  BY DEF Init, PadInv

LEMMA PadInductive == Spec => [](\A p \in Party : PadInv(p))
  <1>1. Init => \A p \in Party : PadInv(p)
    BY PadInit
  <1>2. IInv /\ IInv' /\ (\A p \in Party : PadInv(p)) /\ [Next]_vars
          => (\A p \in Party : PadInv(p))'
    BY PadStep
  <1> QED
    BY <1>1, <1>2, Inductive, PTL DEF Spec

\* No triple masks two slots, the two parties mask a slot with the same
\* triple, and the second pass of AND_step_2, whose counters were rewound,
\* finishes each slot with the triple that the first pass gave it.
THEOREM EveryTripleOnce == Spec => []OneTimePad
  <1>1. ASSUME IInv, \A p \in Party : PadInv(p)
        PROVE  OneTimePad
    <2>1. ASSUME NEW p \in Party, NEW s \in Slots, NEW t \in Slots,
                 s # t, pad[p][s] # NoTriple
          PROVE  pad[p][s] # pad[p][t]
      <3>1. CASE pad[p][t] = NoTriple
        BY <2>1, <3>1
      <3>2. CASE pad[p][t] # NoTriple
        BY <1>1, <2>1, <3>2, MasksOneToOne DEF PadInv
      <3> QED
        BY <3>1, <3>2
    <2>2. ASSUME NEW s \in Slots, NoTriple \notin {pad[ALICE][s], pad[BOB][s]}
          PROVE  pad[ALICE][s] = pad[BOB][s]
      BY <1>1, <2>2, MasksOneToOne, PartyFacts DEF PadInv
    <2>3. ASSUME NEW p \in Party, pc[p] = "and2",
                 NEW s \in NodeSlots(cnt[p], node[p])
          PROVE  pad[p][s] = cnt[p].comb + (s - FirstSlot(cnt[p], node[p]))
      <3>1. /\ s \in Slots /\ LevelSlot(lev[p], s) /\ lev[p] \in InnerLevel
            /\ cnt[p].comb + (s - FirstSlot(cnt[p], node[p])) = SlotTriple(lev[p], s)
        BY <1>1, <2>3, NodeMasks DEF IInv
      <3>2. Masked(p, s)
        <4>1. LevelStart(lev[p], old[p])
          BY <1>1 DEF IInv, CountInv
        <4>2. CeilLog2(2 * lev[p]) = CeilLog2(lev[p]) + 1 /\ CeilLog2(lev[p]) \in Int
          BY <3>1, InnerLevels
        <4> QED
          BY <2>3, <3>1, <4>1, <4>2 DEF Masked, LevelSlot, LevelStart
      <3>3. pad[p][s] # NoTriple
        BY <1>1, <2>3, <3>1, <3>2 DEF PadInv
      <3>4. Masks(SlotTriple(lev[p], s), s)
        BY <3>1 DEF Masks
      <3> QED
        BY <1>1, <3>1, <3>3, <3>4, MasksOneToOne DEF PadInv
    <2> QED
      BY <2>1, <2>2, <2>3 DEF OneTimePad
  <1> QED
    BY <1>1, Inductive, PadInductive, PTL

------------------------------------------------------------------------------
(* The exchange.                                                            *)

\* How many units party p's thread t has transferred since the leaves.
Sent(p, t) ==
  IF pc[p] = "and2" THEN 2 * Start(2 * lev[p])
  ELSE 2 * Start(lev[p]) + moved[p][t]

Receiver(t) == Peer(Sender(t))

\* Unit n, counted from the leaves, is of level i: its array and its slot.
InLevel(i, n) == 2 * Start(i) <= n /\ n < 2 * Start(2 * i)
HalfOf(i) == Start(2 * i) - Start(i)
Offset(i, n) ==
  LET m == n - 2 * Start(i) IN IF m < HalfOf(i) THEN m ELSE m - HalfOf(i)
FieldOf(i, n) == IF n - 2 * Start(i) < HalfOf(i) THEN "e" ELSE "f"
SlotOf(i, n) ==
  IF Offset(i, n) = 0 THEN CeilLog2(i)
  ELSE NumTriplesStd + 2 * StartCorr(i) + (Offset(i, n) - 1)

\* A thread transfers no more than its level's units, and none outside.
MovedInv(p) ==
  \A t \in Threads :
    moved[p][t] <= (IF pc[p] = "exchange" THEN 2 * HalfOf(lev[p]) ELSE 0)

\* What the one has sent and the other has not received is on the wire.
WireInv(t) == Sent(Sender(t), t) = Sent(Receiver(t), t) + Len(wire[t])

\* It is what the sender masked.
ContentInv(t) ==
  \A m \in 1..Len(wire[t]), i \in InnerLevel :
    LET n == Sent(Receiver(t), t) + m - 1
    IN  InLevel(i, n) =>
          wire[t][m] = own[Sender(t)][FieldOf(i, n)][SlotOf(i, n)]

\* So is what the receiver has stored in this level's exchange.
ReceivedInv(t) ==
  LET p == Receiver(t)
      i == lev[p]
  IN  pc[p] = "exchange" =>
        \A n \in Nat : InLevel(i, n) /\ n < Sent(p, t) =>
          opened[p][FieldOf(i, n)][SlotOf(i, n)]
            = own[Peer(p)][FieldOf(i, n)][SlotOf(i, n)]

\* In the second pass the operands of the whole level are open.
OpenInv(p) ==
  pc[p] = "and2" =>
    \A s \in Slots, h \in {"e", "f"} : LevelSlot(lev[p], s) =>
      opened[p][h][s] = Xor(own[ALICE][h][s], own[BOB][h][s])

FlowInv ==
  /\ \A p \in Party : MovedInv(p)
  /\ \A t \in Threads : WireInv(t)

ExchangeInv ==
  /\ \A t \in Threads : ContentInv(t) /\ ReceivedInv(t)
  /\ \A p \in Party : OpenInv(p)

------------------------------------------------------------------------------
(* Arithmetic of the units.                                                 *)

LEMMA ThreadFacts ==
  ASSUME NEW t \in Threads
  PROVE  /\ t \in {"io", "rev"}
         /\ Sender(t) \in Party /\ Receiver(t) \in Party
         /\ Peer(Receiver(t)) = Sender(t)
         /\ \A p \in Party : p = Sender(t) \/ p = Receiver(t)
         /\ Sender(t) # Receiver(t)
  BY DEF Threads, Sender, Receiver, Party, Peer, ALICE, BOB

\* Each party sends on one thread and receives on the other.
LEMMA ThreadsOf ==
  ASSUME NEW p \in Party
  PROVE  /\ \E t \in Threads : p = Sender(t) /\ Peer(p) = Receiver(t)
         /\ \E t \in Threads : p = Receiver(t) /\ Peer(p) = Sender(t)
  BY DEF Threads, Sender, Receiver, Party, Peer, ALICE, BOB

LEMMA StartFacts ==
  ASSUME NEW i \in InnerLevel
  PROVE  /\ Start(i) \in Nat /\ Start(2 * i) \in Nat
         /\ Start(i) < Start(2 * i)
         /\ HalfOf(i) \in Nat \ {0}
         /\ HalfOf(i) = 1 + 2 * (StartCorr(2 * i) - StartCorr(i))
  BY InnerLevels DEF Start, HalfOf

LEMMA StartOrder ==
  ASSUME NEW i \in InnerLevel, NEW m \in PowersOfTwo, i < m, m < 2 * NumDigits
  PROVE  /\ Start(m) \in Nat
         /\ Start(2 * i) <= Start(m)
         /\ Start(2 * i) = Start(m) => m = 2 * i
  <1>1. i \in Nat /\ m \in Nat /\ NumDigits \in Nat /\ 2 * i \in PowersOfTwo
    BY InnerLevels DEF PowersOfTwo
  <1>2. StartCorr(m) \in Int /\ CeilLog2(m) \in Nat
    BY CorrBound, TripleCounts
  <1>3. /\ 2 * i <= m
        /\ CeilLog2(i) + 1 <= CeilLog2(m)
        /\ StartCorr(2 * i) <= StartCorr(m)
    BY LevelOrder
  <1>4. CeilLog2(2 * i) = CeilLog2(i) + 1 /\ StartCorr(2 * i) \in Nat /\ CeilLog2(i) \in Nat
    BY InnerLevels
  <1>5. Start(m) \in Nat /\ Start(2 * i) <= Start(m)
    BY <1>2, <1>3, <1>4 DEF Start
  <1>6. ASSUME 2 * i < m
        PROVE  Start(2 * i) < Start(m)
    <2>1. CASE 2 * i < NumDigits
      <3>1. 2 * i \in InnerLevel
        BY <1>1, <2>1 DEF InnerLevel
      <3>2. CeilLog2(2 * i) + 1 <= CeilLog2(m)
        BY <1>6, <3>1, LevelOrder
      <3> QED
        BY <1>2, <1>3, <1>4, <3>2 DEF Start
    <2>2. CASE ~(2 * i < NumDigits)
      BY <1>1, <1>6, <2>2, InnerLevels, SMTT(30) DEF PowersOfTwo
    <2> QED
      BY <2>1, <2>2
  <1> QED
    BY <1>1, <1>3, <1>5, <1>6

\* Where a party is bounds its level, and tells what its counters are.
LEMMA LevelFacts ==
  ASSUME TypeOK, NEW p \in Party, CountInv(p)
  PROVE  /\ lev[p] \in PowersOfTwo /\ lev[p] < 2 * NumDigits /\ lev[p] \in Nat
         /\ Start(lev[p]) \in Nat
         /\ pc[p] \in {"and1", "exchange", "and2"} => lev[p] \in InnerLevel
         /\ IsShort => lev[p] = 1
         /\ pc[p] = "done" => IsShort \/ lev[p] >= NumDigits
  <1>1. lev[p] \in PowersOfTwo /\ lev[p] < 2 * NumDigits /\ lev[p] \in Nat
    BY DEF CountInv, TypeOK, PowersOfTwo
  <1>2. pc[p] \in {"and1", "exchange", "and2"} => lev[p] \in InnerLevel
    BY DEF CountInv, InnerLevel
  <1>3. Start(lev[p]) \in Nat
    <2>1. /\ StartCorr(lev[p]) \in Int /\ CeilLog2(lev[p]) \in Nat
      BY <1>1, CorrBound, TripleCounts
    <2>2. StartCorr(lev[p]) >= 0
      BY <1>1, NumDigitsRange, Log2Powers, SMTT(60) DEF PowersOfTwo, StartCorr, CeilDiv
    <2> QED
      BY <2>1, <2>2 DEF Start
  <1>4. IsShort => lev[p] = 1
    <2>1. ASSUME IsShort
          PROVE  NumDigits = 1
      <3>1. ASSUME NEW b \in 1..8, NEW l \in 1..64, l <= b
            PROVE  (l + b - 1) \div b = 1
        <4>1. b \in {1, 2, 3, 4, 5, 6, 7, 8}
          OBVIOUS
        <4> QED
          BY <3>1, <4>1, SMTT(60)
      <3> QED
        BY <2>1, <3>1, WidthAssumption DEF NumDigits, CeilDiv, IsShort
    <2> QED
      BY <1>1, <2>1 DEF PowersOfTwo
  <1> QED
    BY <1>1, <1>2, <1>3, <1>4 DEF CountInv

\* The two ways of counting a level's units agree.
LEMMA UnitsOfLevel ==
  ASSUME TypeOK, NEW p \in Party, CountInv(p), pc[p] = "exchange"
  PROVE  /\ HalfSize(p) = HalfOf(lev[p]) /\ SizeStd(p) = 1
         /\ old[p].std = CeilLog2(lev[p])
         /\ CorrSlot(old[p]) = NumTriplesStd + 2 * StartCorr(lev[p])
  <1> DEFINE i == lev[p]
  <1>1. i \in InnerLevel /\ LevelStart(i, old[p]) /\ LevelStart(2 * i, cnt[p])
    BY LevelFacts DEF CountInv
  <1>2. /\ CeilLog2(2 * i) = CeilLog2(i) + 1 /\ CeilLog2(i) \in Nat
        /\ StartCorr(i) \in Nat /\ StartCorr(2 * i) \in Nat
    BY <1>1, InnerLevels
  <1>3. /\ old[p].std = CeilLog2(i) /\ old[p].corr = StartCorr(i)
        /\ cnt[p].std = CeilLog2(2 * i) /\ cnt[p].corr = StartCorr(2 * i)
    BY <1>1 DEF LevelStart
  <1>4. HalfOf(i) = 1 + 2 * (StartCorr(2 * i) - StartCorr(i))
    BY <1>1, StartFacts
  <1> HIDE DEF i
  <1>5. SizeStd(p) = 1
    BY <1>2, <1>3 DEF SizeStd
  <1>6. SizeCorr(p) = 2 * (StartCorr(2 * i) - StartCorr(i))
    BY <1>3 DEF SizeCorr
  <1>7. HalfSize(p) = HalfOf(i)
    BY <1>4, <1>5, <1>6 DEF HalfSize
  <1> QED
    BY <1>3, <1>5, <1>7 DEF CorrSlot, i

\* The n-th unit of the exchange, counted from the leaves.
LEMMA UnitIs ==
  ASSUME TypeOK, NEW p \in Party, CountInv(p), pc[p] = "exchange",
         NEW n \in Nat, n < 2 * HalfSize(p)
  PROVE  LET i == lev[p]
             k == 2 * Start(i) + n
         IN  /\ k \in Nat /\ InLevel(i, k)
             /\ UnitField(p, n) = FieldOf(i, k)
             /\ UnitSlot(p, n) = SlotOf(i, k)
  <1> DEFINE i == lev[p]
             k == 2 * Start(i) + n
  <1>1. i \in InnerLevel
    BY LevelFacts
  <1>2. /\ Start(i) \in Nat /\ Start(2 * i) \in Nat /\ HalfOf(i) \in Nat
        /\ HalfSize(p) = HalfOf(i) /\ SizeStd(p) = 1
        /\ old[p].std = CeilLog2(i)
        /\ CorrSlot(old[p]) = NumTriplesStd + 2 * StartCorr(i)
        /\ CeilLog2(i) \in Nat
    BY <1>1, StartFacts, UnitsOfLevel, InnerLevels
  <1>3. k \in Nat /\ k - 2 * Start(i) = n
    BY <1>2
  <1>4. InLevel(i, k)
    BY <1>2 DEF InLevel, HalfOf
  <1>5. UnitField(p, n) = FieldOf(i, k)
    BY <1>2, <1>3 DEF UnitField, FieldOf
  <1> DEFINE m == IF n < HalfOf(i) THEN n ELSE n - HalfOf(i)
  <1>6. Offset(i, k) = m /\ m \in Nat
    BY <1>2, <1>3 DEF Offset
  <1>7. UnitSlot(p, n) = IF m < 1 THEN CeilLog2(i) + m
                         ELSE NumTriplesStd + 2 * StartCorr(i) + (m - 1)
    BY <1>2 DEF UnitSlot
  <1>8. m < 1 <=> m = 0
    BY <1>6
  <1> HIDE DEF m
  <1>9. UnitSlot(p, n) = SlotOf(i, k)
    BY <1>2, <1>6, <1>7, <1>8 DEF SlotOf
  <1> QED
    BY <1>3, <1>4, <1>5, <1>9

------------------------------------------------------------------------------
(* The flow of units: nothing is lost, and the parties stay in step.        *)

LEMMA SentBounds ==
  ASSUME TypeOK, NEW p \in Party, CountInv(p), MovedInv(p), NEW t \in Threads
  PROVE  /\ Sent(p, t) \in Nat /\ moved[p][t] \in Nat
         /\ Start(lev[p]) \in Nat
         /\ Sent(p, t) >= 2 * Start(lev[p])
         /\ pc[p] = "exchange" => Sent(p, t) <= 2 * Start(2 * lev[p])
         /\ pc[p] = "and2" => Sent(p, t) > 2 * Start(lev[p])
         /\ pc[p] \notin {"exchange", "and2"} =>
              moved[p][t] = 0 /\ Sent(p, t) = 2 * Start(lev[p])
  <1>0. moved[p][t] \in Nat
    BY DEF TypeOK, Threads
  <1>1. moved[p][t] \in Nat /\ Start(lev[p]) \in Nat
    BY <1>0, LevelFacts
  <1>2. CASE pc[p] \in {"exchange", "and2"}
    <2>1. /\ Start(2 * lev[p]) \in Nat /\ Start(lev[p]) < Start(2 * lev[p])
          /\ HalfOf(lev[p]) = Start(2 * lev[p]) - Start(lev[p])
      BY <1>2, LevelFacts, StartFacts DEF HalfOf
    <2> QED
      BY <1>1, <1>2, <2>1 DEF Sent, MovedInv
  <1>3. CASE pc[p] \notin {"exchange", "and2"}
    BY <1>1, <1>3 DEF Sent, MovedInv
  <1> QED
    BY <1>2, <1>3

\* Local steps move no unit.
LEMMA LocalFlow ==
  ASSUME IInv, IInv', NEW p \in Party, MovedInv(p), Local(p), NEW t \in Threads
  PROVE  Sent(p, t)' = Sent(p, t) /\ MovedInv(p)'
  <1>t. TypeOK /\ CountInv(p)
    BY DEF IInv
  <1> USE DEF inputVars, treeVars
  <1>m. /\ moved \in [Party -> [{"io", "rev"} -> Nat]]
        /\ \A u \in Threads : u \in {"io", "rev"} /\ moved[p][u] \in Nat
    BY <1>t DEF TypeOK, Threads
  <1>1. CASE Generate(p)
    <2>1. pc[p] = "triples" /\ pc'[p] = "and1" /\ lev'[p] = lev[p] /\ moved'[p] = moved[p]
      BY <1>1, <1>t DEF Generate, TypeOK
    <2> QED
      BY <2>1 DEF Sent, MovedInv, Start, StartCorr
  <1>2. CASE AndStep1(p)
    <2>1. /\ pc[p] = "and1" /\ pc'[p] \in {"and1", "exchange"}
          /\ lev'[p] = lev[p] /\ moved'[p] = moved[p]
      BY <1>2, <1>t DEF AndStep1, TypeOK
    <2>2. HalfOf(lev[p]) \in Nat /\ \A u \in Threads : moved[p][u] <= 0
      BY <1>t, <2>1, LevelFacts, StartFacts DEF MovedInv
    <2>3. MovedInv(p)'
      BY <1>m, <2>1, <2>2 DEF MovedInv, HalfOf, Start, StartCorr
    <2> QED
      BY <2>1, <2>3 DEF Sent, Start, StartCorr
  <1>3. CASE Join(p)
    <2>1. /\ pc[p] = "exchange" /\ pc'[p] = "and2" /\ lev'[p] = lev[p]
          /\ moved'[p] = [u \in {"io", "rev"} |-> 0]
          /\ moved[p][t] = 2 * HalfSize(p)
      BY <1>3, <1>t, <1>m DEF Join, TypeOK, AllArrived, Units
    <2>2. /\ HalfSize(p) = HalfOf(lev[p]) /\ Start(2 * lev[p]) \in Nat /\ Start(lev[p]) \in Nat
          /\ HalfOf(lev[p]) = Start(2 * lev[p]) - Start(lev[p])
      BY <1>t, <2>1, LevelFacts, StartFacts, UnitsOfLevel DEF HalfOf
    <2>3. Sent(p, t)' = Sent(p, t)
      BY <2>1, <2>2 DEF Sent, Start, StartCorr
    <2>4. MovedInv(p)'
      BY <2>1, <1>m DEF MovedInv
    <2> QED
      BY <2>3, <2>4
  <1>4. CASE AndStep2(p)
    <2>1. pc[p] = "and2" /\ moved'[p] = moved[p]
      BY <1>4 DEF AndStep2
    <2>2. \/ pc'[p] = "and2" /\ lev'[p] = lev[p]
          \/ pc'[p] \in {"and1", "done"} /\ lev'[p] = 2 * lev[p]
      BY <1>4, <1>t DEF AndStep2, TypeOK
    <2>3. \A u \in Threads : moved[p][u] = 0
      BY <1>m, <2>1 DEF MovedInv
    <2>4. MovedInv(p)'
      BY <2>1, <2>2, <2>3 DEF MovedInv
    <2>5. Start(2 * lev[p]) \in Nat
      BY <1>t, <2>1, LevelFacts, StartFacts
    <2>6. Sent(p, t)' = Sent(p, t)
      BY <2>1, <2>2, <2>3, <2>5 DEF Sent, Start, StartCorr
    <2> QED
      BY <2>4, <2>6
  <1> QED
    BY <1>1, <1>2, <1>3, <1>4 DEF Local

\* The steps of a thread: one more unit transferred by one party.
LEMMA ThreadMoves ==
  ASSUME TypeOK, NEW p \in Party, CountInv(p), NEW t \in Threads, Thread(p, t)
  PROVE  /\ pc' = pc /\ lev' = lev /\ cnt' = cnt /\ old' = old /\ node' = node
         /\ own' = own /\ pc[p] = "exchange"
         /\ moved[p][t] \in Nat /\ moved[p][t] < 2 * HalfSize(p)
         /\ moved' = [moved EXCEPT ![p][t] = moved[p][t] + 1]
         /\ \A r \in Party, u \in Threads :
              moved'[r][u] = IF r = p /\ u = t THEN moved[p][t] + 1 ELSE moved[r][u]
         /\ \A u \in Threads : u # t => wire'[u] = wire[u]
         /\ Len(wire'[t]) = IF p = Sender(t) THEN Len(wire[t]) + 1 ELSE Len(wire[t]) - 1
         /\ wire[t] \in Seq(Bit) /\ wire'[t] \in Seq(Bit)
         /\ p # Sender(t) => wire[t] # <<>> /\ wire'[t] = Tail(wire[t])
  <1>1. /\ moved \in [Party -> [{"io", "rev"} -> Nat]] /\ t \in {"io", "rev"}
        /\ wire \in [{"io", "rev"} -> Seq(Bit)] /\ Threads = {"io", "rev"}
    BY DEF TypeOK, Threads
  <1>2. CASE SendUnit(p, t)
    <2>1. UnitSlot(p, moved[p][t]) \in Slots
      BY <1>1, <1>2, UnitInBounds DEF SendUnit, InExchange, Units
    <2> DEFINE b == own[p][UnitField(p, moved[p][t])][UnitSlot(p, moved[p][t])]
    <2>2. b \in Bit
      BY <2>1 DEF TypeOK, UnitField
    <2>3. wire' = [wire EXCEPT ![t] = Append(wire[t], b)]
      BY <1>2 DEF SendUnit
    <2> HIDE DEF b
    <2>4. /\ wire'[t] = Append(wire[t], b)
          /\ \A u \in Threads : u # t => wire'[u] = wire[u]
      BY <1>1, <2>3
    <2>5. Len(wire'[t]) = Len(wire[t]) + 1 /\ wire'[t] \in Seq(Bit)
      BY <1>1, <2>2, <2>4
    <2>6. /\ pc' = pc /\ lev' = lev /\ cnt' = cnt /\ old' = old /\ node' = node
          /\ own' = own /\ pc[p] = "exchange" /\ p = Sender(t)
          /\ moved[p][t] < 2 * HalfSize(p)
          /\ moved' = [moved EXCEPT ![p][t] = moved[p][t] + 1]
      BY <1>2 DEF SendUnit, InExchange, Units, treeVars
    <2> QED
      BY <1>1, <2>4, <2>5, <2>6
  <1>3. CASE RecvUnit(p, t)
    <2>1. /\ wire'[t] = Tail(wire[t]) /\ wire[t] # <<>>
          /\ \A u \in Threads : u # t => wire'[u] = wire[u]
      BY <1>1, <1>3 DEF RecvUnit
    <2>2. Len(wire'[t]) = Len(wire[t]) - 1 /\ wire'[t] \in Seq(Bit)
      BY <1>1, <2>1
    <2>3. /\ pc' = pc /\ lev' = lev /\ cnt' = cnt /\ old' = old /\ node' = node
          /\ own' = own /\ pc[p] = "exchange" /\ p # Sender(t)
          /\ moved[p][t] < 2 * HalfSize(p)
          /\ moved' = [moved EXCEPT ![p][t] = moved[p][t] + 1]
      BY <1>3 DEF RecvUnit, InExchange, Units
    <2> QED
      BY <1>1, <2>1, <2>2, <2>3
  <1> QED
    BY <1>2, <1>3 DEF Thread

LEMMA ThreadFlow ==
  ASSUME IInv, NEW p \in Party, NEW t \in Threads, Thread(p, t), FlowInv
  PROVE  FlowInv'
  <1>t. TypeOK /\ CountInv(p) /\ \A r \in Party : MovedInv(r) /\ \A u \in Threads : WireInv(u)
    BY DEF IInv, FlowInv
  <1>1. ASSUME NEW r \in Party
        PROVE  MovedInv(r)'
    <2>1. ASSUME NEW u \in Threads
          PROVE  moved'[r][u] <= (IF pc'[r] = "exchange" THEN 2 * HalfOf(lev[r]) ELSE 0)
      <3>1. CASE r = p /\ u = t
        <4>1. HalfSize(p) = HalfOf(lev[p]) /\ HalfOf(lev[p]) \in Nat
          BY <1>t, ThreadMoves, UnitsOfLevel, LevelFacts, StartFacts
        <4> QED
          BY <1>t, <3>1, <4>1, ThreadMoves
      <3>2. CASE ~(r = p /\ u = t)
        BY <1>t, <3>2, ThreadMoves DEF MovedInv
      <3> QED
        BY <3>1, <3>2
    <2> QED
      BY <1>t, <2>1, ThreadMoves DEF MovedInv, HalfOf, Start, StartCorr
  <1>2. ASSUME NEW u \in Threads
        PROVE  WireInv(u)'
    <2>1. /\ Sender(u) \in Party /\ Receiver(u) \in Party
          /\ p = Sender(u) \/ p = Receiver(u)
          /\ Sender(u) # Receiver(u)
      BY ThreadFacts
    <2>2. CASE u # t
      <3>1. \A r \in Party : Sent(r, u)' = Sent(r, u)
        BY <1>t, <2>2, ThreadMoves DEF Sent, Start, StartCorr
      <3> QED
        BY <1>t, <2>1, <2>2, <3>1, ThreadMoves DEF WireInv, Receiver
    <2>3. CASE u = t
      <3>1. \A r \in Party : Sent(r, u)' = IF r = p THEN Sent(r, u) + 1 ELSE Sent(r, u)
        <4>1. Sent(p, u)' = Sent(p, u) + 1
          <5>1. pc'[p] = "exchange" /\ pc[p] = "exchange" /\ lev'[p] = lev[p]
                /\ moved'[p][u] = moved[p][u] + 1 /\ moved[p][u] \in Nat
            BY <1>t, <2>3, ThreadMoves
          <5>2. Start(lev[p]) \in Nat
            BY <1>t, LevelFacts
          <5> QED
            BY <5>1, <5>2 DEF Sent, Start, StartCorr
        <4>2. ASSUME NEW r \in Party, r # p
              PROVE  Sent(r, u)' = Sent(r, u)
          BY <1>t, <4>2, ThreadMoves DEF Sent, Start, StartCorr
        <4> QED
          BY <4>1, <4>2
      <3>2. Sent(Sender(u), u) \in Nat /\ Sent(Receiver(u), u) \in Nat
        BY <1>t, <2>1, SentBounds DEF IInv
      <3>3. Len(wire[u]) \in Nat
        BY <1>t, <2>3, ThreadMoves
      <3>4. Sent(Sender(u), u) = Sent(Receiver(u), u) + Len(wire[u])
        BY <1>t DEF WireInv
      <3>5. Len(wire'[u]) = IF p = Sender(u) THEN Len(wire[u]) + 1 ELSE Len(wire[u]) - 1
        BY <1>t, <2>3, ThreadMoves
      <3>6. Sent(Sender(u), u)' = Sent(Receiver(u), u)' + Len(wire'[u])
        BY <2>1, <3>1, <3>2, <3>3, <3>4, <3>5
      <3> QED
        BY <3>6 DEF WireInv, Receiver
    <2> QED
      BY <2>2, <2>3
  <1> QED
    BY <1>1, <1>2 DEF FlowInv

LEMMA FlowInit == Init => FlowInv
  <1> SUFFICES ASSUME Init
               PROVE  FlowInv
    OBVIOUS
  <1>1. \A p \in Party : /\ pc[p] = "leaf" /\ lev[p] = 1
                        /\ moved[p] = [t \in {"io", "rev"} |-> 0]
    BY DEF Init
  <1>2. \A t \in Threads : t \in {"io", "rev"} /\ wire[t] = <<>>
    BY DEF Init, Threads
  <1>3. Start(1) = 0
    BY Log2Powers, NumDigitsRange DEF Start, StartCorr, CeilDiv
  <1>4. \A p \in Party : MovedInv(p)
    BY <1>1, <1>2 DEF MovedInv
  <1>5. \A p \in Party, t \in Threads : Sent(p, t) = 0
    BY <1>1, <1>2, <1>3 DEF Sent
  <1>6. \A t \in Threads : WireInv(t)
    BY <1>2, <1>5, ThreadFacts DEF WireInv
  <1> QED
    BY <1>4, <1>6 DEF FlowInv

LEMMA FlowStep ==
  ASSUME IInv, IInv', FlowInv, [Next]_vars
  PROVE  FlowInv'
  <1>t. TypeOK /\ \A p \in Party : CountInv(p) /\ MovedInv(p)
    BY DEF IInv, FlowInv
  <1>1. CASE LeafAlice \/ LeafBob
    <2>1. /\ lev' = lev /\ moved' = moved /\ wire' = wire
          /\ \A p \in Party :
               \/ pc'[p] = pc[p]
               \/ pc[p] = "leaf" /\ pc'[p] \in {"triples", "done"}
      BY <1>1, <1>t DEF LeafAlice, LeafBob, TypeOK
    <2>2. \A p \in Party : MovedInv(p)'
      BY <1>t, <2>1 DEF MovedInv, HalfOf, Start, StartCorr
    <2>3. \A p \in Party, t \in Threads : Sent(p, t)' = Sent(p, t)
      BY <2>1 DEF Sent, Start, StartCorr
    <2>4. \A t \in Threads : WireInv(t)'
      BY <2>1, <2>3, ThreadFacts DEF FlowInv, WireInv, Receiver
    <2> QED
      BY <2>2, <2>4 DEF FlowInv
  <1>2. ASSUME NEW p \in Party, Local(p)
        PROVE  FlowInv'
    <2>1. wire' = wire
      BY <1>2 DEF Local, Generate, AndStep1, Join, AndStep2
    <2>2. ASSUME NEW r \in Party
          PROVE  MovedInv(r)' /\ \A t \in Threads : Sent(r, t)' = Sent(r, t)
      <3>1. CASE r = p
        BY <1>2, <1>t, <3>1, LocalFlow DEF Threads
      <3>2. CASE r # p
        <4>1. pc'[r] = pc[r] /\ lev'[r] = lev[r] /\ moved'[r] = moved[r]
          BY <1>2, <1>t, <3>2, LocalFrame
        <4> QED
          BY <1>t, <4>1 DEF MovedInv, Sent, HalfOf, Start, StartCorr
      <3> QED
        BY <3>1, <3>2
    <2>3. \A t \in Threads : WireInv(t)'
      BY <2>1, <2>2, ThreadFacts DEF FlowInv, WireInv, Receiver
    <2> QED
      BY <2>2, <2>3 DEF FlowInv
  <1>3. ASSUME NEW p \in Party, NEW t \in Threads, Thread(p, t)
        PROVE  FlowInv'
    BY <1>3, ThreadFlow
  <1>4. CASE UNCHANGED vars
    <2>1. pc' = pc /\ lev' = lev /\ moved' = moved /\ wire' = wire
      BY <1>4 DEF vars, treeVars
    <2>2. \A p \in Party : MovedInv(p)'
      BY <1>t, <2>1 DEF MovedInv, HalfOf, Start, StartCorr
    <2>3. \A p \in Party, t \in Threads : Sent(p, t)' = Sent(p, t)
      BY <2>1 DEF Sent, Start, StartCorr
    <2>4. \A t \in Threads : WireInv(t)'
      BY <2>1, <2>3, ThreadFacts DEF FlowInv, WireInv, Receiver
    <2> QED
      BY <2>2, <2>4 DEF FlowInv
  <1> QED
    BY <1>1, <1>2, <1>3, <1>4 DEF Next

LEMMA FlowInductive == Spec => []FlowInv
  <1>1. IInv /\ IInv' /\ FlowInv /\ [Next]_vars => FlowInv'
    BY FlowStep
  <1> QED
    BY <1>1, FlowInit, Inductive, PTL DEF Spec

LEMMA WireFacts ==
  ASSUME IInv, FlowInv, NEW t \in Threads
  PROVE  /\ Sent(Sender(t), t) = Sent(Receiver(t), t) + Len(wire[t])
         /\ Sent(Sender(t), t) \in Nat /\ Sent(Receiver(t), t) \in Nat
         /\ wire[t] \in Seq(Bit) /\ Len(wire[t]) \in Nat
  <1>1. Sender(t) \in Party /\ Receiver(t) \in Party
    BY ThreadFacts
  <1>2. Sent(Sender(t), t) \in Nat /\ Sent(Receiver(t), t) \in Nat
    BY <1>1, SentBounds DEF IInv, FlowInv
  <1>3. wire[t] \in Seq(Bit)
    BY DEF IInv, TypeOK, Threads
  <1>4. Len(wire[t]) \in Nat
    BY <1>3
  <1> QED
    BY <1>2, <1>3, <1>4 DEF FlowInv, WireInv

\* The peer of a party that is ahead is behind by one level, has sent all of
\* it, and its own first pass of the new level is all the party can have done.
LEMMA Ahead ==
  ASSUME IInv, FlowInv, NEW p \in Party, lev[p] > lev[Peer(p)]
  PROVE  /\ lev[p] = 2 * lev[Peer(p)]
         /\ pc[Peer(p)] \in {"exchange", "and2"}
         /\ pc[p] # "and2"
  <1> DEFINE r == Peer(p)
  <1>1. r \in Party /\ TypeOK /\ CountInv(p) /\ CountInv(r) /\ MovedInv(p) /\ MovedInv(r)
    BY PartyFacts DEF IInv, FlowInv
  <1>2. PICK t \in Threads : p = Receiver(t) /\ r = Sender(t)
    BY ThreadsOf
  <1>3. Sent(p, t) <= Sent(r, t) /\ Sent(p, t) \in Nat /\ Sent(r, t) \in Nat
    <2>1. Sent(r, t) = Sent(p, t) + Len(wire[t])
      BY <1>2 DEF FlowInv, WireInv
    <2>2. Len(wire[t]) \in Nat
      BY <1>1, ThreadFacts DEF TypeOK
    <2> QED
      BY <1>1, <2>1, <2>2, SentBounds
  <1>4. /\ lev[r] \in PowersOfTwo /\ lev[p] \in PowersOfTwo /\ lev[p] < 2 * NumDigits
        /\ lev[r] \in Nat /\ lev[p] \in Nat /\ NumDigits \in Nat
    BY <1>1, LevelFacts, NumDigitsRange
  <1>5. lev[r] \in InnerLevel
    <2>1. 2 * lev[r] <= lev[p]
      BY <1>4, SMTT(30) DEF PowersOfTwo
    <2> QED
      BY <1>4, <2>1 DEF InnerLevel
  <1>6. /\ Start(lev[r]) \in Nat /\ Start(2 * lev[r]) \in Nat /\ Start(lev[p]) \in Nat
        /\ Start(lev[r]) < Start(2 * lev[r])
        /\ Start(2 * lev[r]) <= Start(lev[p])
        /\ Start(2 * lev[r]) = Start(lev[p]) => lev[p] = 2 * lev[r]
    BY <1>4, <1>5, StartFacts, StartOrder
  <1>7. Sent(p, t) >= 2 * Start(lev[p]) /\ (pc[p] = "and2" => Sent(p, t) > 2 * Start(lev[p]))
    BY <1>1, SentBounds
  <1>8. pc[r] \in {"exchange", "and2"}
    <2>1. CASE pc[r] \notin {"exchange", "and2"}
      <3>1. Sent(r, t) = 2 * Start(lev[r])
        BY <1>1, <2>1, SentBounds
      <3> QED
        BY <1>3, <1>6, <1>7, <3>1
    <2> QED
      BY <2>1
  <1>9. Sent(r, t) <= 2 * Start(2 * lev[r])
    BY <1>1, <1>6, <1>8, SentBounds DEF Sent
  <1> HIDE DEF r
  <1>10. Start(lev[p]) = Start(2 * lev[r]) /\ pc[p] # "and2"
    BY <1>3, <1>6, <1>7, <1>9
  <1> QED
    BY <1>6, <1>8, <1>10 DEF r

\* The barrier and the blocking reads keep the parties within one level of
\* each other, although neither ever waits for the other's local work.
THEOREM StayInLockstep == Spec => []Lockstep
  <1>1. IInv /\ FlowInv => Lockstep
    BY Ahead DEF Lockstep
  <1> QED
    BY <1>1, Inductive, FlowInductive, PTL

\* A comparison leaves both sockets empty: what one party's threads sent, the
\* other's have received, and the next protocol reads none of it.
THEOREM SocketsDrained == Spec => []NothingLeft
  <1>1. IInv /\ FlowInv => NothingLeft
    <2> SUFFICES ASSUME IInv, FlowInv, Done, NEW t \in Threads
                 PROVE  wire[t] = <<>>
      BY DEF NothingLeft, Threads
    <2>1. PICK p, q : p = Sender(t) /\ q = Receiver(t)
      OBVIOUS
    <2>2. /\ p \in Party /\ q \in Party /\ Peer(p) = q /\ Peer(q) = p
          /\ pc[p] = "done" /\ pc[q] = "done"
      BY <2>1, ThreadFacts DEF Done, Receiver
    <2>3. lev[p] = lev[q]
      <3>1. ~(lev[p] > lev[q]) /\ ~(lev[q] > lev[p])
        BY <2>2, Ahead
      <3>2. lev[p] \in Nat /\ lev[q] \in Nat
        BY <2>2 DEF IInv, TypeOK
      <3> QED
        BY <3>1, <3>2
    <2>4. Sent(p, t) = 2 * Start(lev[p]) /\ Sent(q, t) = 2 * Start(lev[p])
      BY <2>2, <2>3, SentBounds DEF IInv, FlowInv
    <2>5. Len(wire[t]) = 0 /\ wire[t] \in Seq(Bit)
      BY <2>1, <2>2, <2>4, WireFacts, SentBounds DEF IInv, FlowInv
    <2> QED
      BY <2>5
  <1> QED
    BY <1>1, Inductive, FlowInductive, PTL

------------------------------------------------------------------------------
(* What is exchanged.                                                       *)

\* A unit's slot is one of its level, and each slot is a unit in e and in f.
LEMMA UnitSlots ==
  ASSUME NEW i \in InnerLevel, NEW n \in Nat, InLevel(i, n)
  PROVE  LevelSlot(i, SlotOf(i, n)) /\ SlotOf(i, n) \in Slots
         /\ FieldOf(i, n) \in {"e", "f"}
  <1>1. /\ CeilLog2(i) \in 0..(NumTriplesStd - 1) /\ StartCorr(i) \in Nat
        /\ StartCorr(2 * i) \in Nat /\ NumTriplesStd \in 1..6
        /\ StartCorr(2 * i) <= NumDigits - 1 - NumTriplesStd
        /\ StartCorr(i) <= StartCorr(2 * i)
        /\ NumDigits \in 2..64 /\ NumTriples = 2 * NumDigits - 2 - NumTriplesStd
        /\ Start(i) \in Nat /\ HalfOf(i) \in Nat
        /\ HalfOf(i) = 1 + 2 * (StartCorr(2 * i) - StartCorr(i))
        /\ Start(2 * i) = Start(i) + HalfOf(i)
    BY InnerLevels, StartFacts, TripleCounts DEF HalfOf
  <1>2. Offset(i, n) \in Nat /\ Offset(i, n) < HalfOf(i)
    BY <1>1 DEF InLevel, Offset
  <1>3. CASE Offset(i, n) = 0
    BY <1>1, <1>3 DEF SlotOf, LevelSlot, Slots, FieldOf
  <1>4. CASE Offset(i, n) # 0
    BY <1>1, <1>2, <1>4 DEF SlotOf, LevelSlot, Slots, FieldOf
  <1> QED
    BY <1>3, <1>4

LEMMA EverySlot ==
  ASSUME NEW i \in InnerLevel, NEW s \in Slots, LevelSlot(i, s), NEW h \in {"e", "f"}
  PROVE  \E n \in Nat : InLevel(i, n) /\ FieldOf(i, n) = h /\ SlotOf(i, n) = s
                       /\ (h = "e" => n < 2 * Start(i) + HalfOf(i))
  <1>1. /\ CeilLog2(i) \in 0..(NumTriplesStd - 1) /\ StartCorr(i) \in Nat
        /\ StartCorr(2 * i) \in Nat /\ NumTriplesStd \in 1..6
        /\ Start(i) \in Nat /\ HalfOf(i) \in Nat \ {0}
        /\ HalfOf(i) = 1 + 2 * (StartCorr(2 * i) - StartCorr(i))
        /\ Start(2 * i) = Start(i) + HalfOf(i)
        /\ s \in Nat
    BY InnerLevels, StartFacts DEF HalfOf, Slots
  <1> DEFINE r == IF s = CeilLog2(i) THEN 0
                  ELSE s - (NumTriplesStd + 2 * StartCorr(i)) + 1
             n == 2 * Start(i) + r + (IF h = "e" THEN 0 ELSE HalfOf(i))
  <1>2. r \in Nat /\ r < HalfOf(i)
    BY <1>1 DEF LevelSlot
  <1>3. r = 0 <=> s = CeilLog2(i)
    BY <1>1 DEF LevelSlot
  <1>4. r # 0 => NumTriplesStd + 2 * StartCorr(i) + (r - 1) = s
    BY <1>1
  <1> HIDE DEF r
  <1>5. /\ n \in Nat /\ InLevel(i, n) /\ Offset(i, n) = r /\ FieldOf(i, n) = h
        /\ h = "e" => n < 2 * Start(i) + HalfOf(i)
    BY <1>1, <1>2 DEF InLevel, Offset, FieldOf
  <1> HIDE DEF n
  <1>6. SlotOf(i, n) = s
    BY <1>3, <1>4, <1>5 DEF SlotOf
  <1> QED
    BY <1>5, <1>6

\* A unit that a party's level starts after is of a lower level, whose slots
\* the party's first pass does not touch.
LEMMA LowerSlots ==
  ASSUME NEW i \in InnerLevel, NEW m \in InnerLevel, Start(i) < Start(m),
         NEW s \in Slots, LevelSlot(i, s)
  PROVE  i < m /\ ~LevelSlot(m, s)
  <1>1. i \in PowersOfTwo /\ m \in PowersOfTwo /\ i \in Nat /\ m \in Nat
        /\ i < 2 * NumDigits /\ m < 2 * NumDigits
        /\ Start(i) \in Nat /\ Start(m) \in Nat
    BY StartFacts, InnerLevels DEF PowersOfTwo
  <1>2. ~(m < i)
    BY <1>1, StartOrder, StartFacts
  <1>3. i < m
    BY <1>1, <1>2
  <1> QED
    BY <1>3, LevelsApart

\* The first pass over a node changes what the party masked in slots of its
\* level only.
LEMMA MaskFrame ==
  ASSUME IInv, NEW p \in Party, AndStep1(p)
  PROVE  /\ pc[p] = "and1" /\ pc'[p] \in {"and1", "exchange"}
         /\ lev[p] \in InnerLevel /\ lev' = lev /\ moved' = moved /\ wire' = wire
         /\ opened' = opened
         /\ \A r \in Party : r # p => pc'[r] = pc[r] /\ own'[r] = own[r]
         /\ \A h \in {"e", "f"}, s \in Slots :
              ~LevelSlot(lev[p], s) => own'[p][h][s] = own[p][h][s]
  <1>t. TypeOK /\ CountInv(p)
    BY DEF IInv
  <1>1. /\ pc[p] = "and1" /\ pc'[p] \in {"and1", "exchange"}
        /\ lev' = lev /\ moved' = moved /\ wire' = wire /\ opened' = opened
    BY <1>t DEF AndStep1, TypeOK
  <1>2. \A r \in Party : r # p => pc'[r] = pc[r] /\ own'[r] = own[r]
    BY <1>t, LocalFrame DEF Local
  <1>3. lev[p] \in InnerLevel
    BY <1>t, <1>1, LevelFacts, SMTT(30)
  <1>4. ASSUME NEW h \in {"e", "f"}, NEW s \in Slots, s \notin NodeSlots(cnt[p], node[p])
        PROVE  own'[p][h][s] = own[p][h][s]
    BY <1>t, <1>4 DEF AndStep1, TypeOK
  <1>5. \A s \in NodeSlots(cnt[p], node[p]) : LevelSlot(lev[p], s)
    BY <1>t, <1>1, NodeMasks
  <1> QED
    BY <1>1, <1>2, <1>3, <1>4, <1>5

\* What is to be shown of a thread's receiver after a step.
LEMMA ReceivedAfter ==
  ASSUME NEW t \in Threads, NEW r \in Party, NEW i, Receiver(t) = r, lev'[r] = i,
         pc'[r] = "exchange" =>
           \A n \in Nat : InLevel(i, n) /\ n < Sent(r, t)' =>
             opened'[r][FieldOf(i, n)][SlotOf(i, n)]
               = own'[Peer(r)][FieldOf(i, n)][SlotOf(i, n)]
  PROVE  ReceivedInv(t)'
  <1>1. Receiver(t)' = r /\ Peer(r)' = Peer(r)
    BY DEF Receiver, Peer
  <1>2. PICK q, k, o, w, c : /\ q = Peer(r) /\ k = Sent(r, t)' /\ o = opened'[r]
                             /\ w = own'[q] /\ c = pc'[r]
    OBVIOUS
  <1>3. c = "exchange" =>
          \A n \in Nat : InLevel(i, n) /\ n < k =>
            o[FieldOf(i, n)][SlotOf(i, n)] = w[FieldOf(i, n)][SlotOf(i, n)]
    BY <1>2
  <1> QED
    BY <1>1, <1>2, <1>3, SMTT(60) DEF ReceivedInv

LEMMA MaskExchange ==
  ASSUME IInv, FlowInv, ExchangeInv, NEW p \in Party, AndStep1(p),
         \A r \in Party, t \in Threads : Sent(r, t)' = Sent(r, t)
  PROVE  ExchangeInv'
  <1>t. TypeOK /\ \A r \in Party : CountInv(r) /\ MovedInv(r)
    BY DEF IInv, FlowInv
  <1> DEFINE q == Peer(p)
             m == lev[p]
  <1>q. q \in Party /\ q # p /\ \A r \in Party : r = p \/ r = q
    BY PartyFacts DEF Party, Peer, ALICE, BOB
  <1>f. /\ pc[p] = "and1" /\ pc'[p] \in {"and1", "exchange"}
        /\ m \in InnerLevel /\ lev' = lev /\ moved' = moved /\ wire' = wire
        /\ opened' = opened
        /\ pc'[q] = pc[q] /\ own'[q] = own[q]
        /\ \A h \in {"e", "f"}, s \in Slots :
             ~LevelSlot(m, s) => own'[p][h][s] = own[p][h][s]
    BY <1>q, MaskFrame
  <1>s. \A t \in Threads : Sent(p, t) = 2 * Start(m) /\ Sent(q, t) \in Nat /\ Sent(p, t) \in Nat
    BY <1>t, <1>q, <1>f, SentBounds
  \* Party p has sent nothing of its level yet: no unit under way or received
  \* is in a slot that this step changes.
  <1>u. ASSUME NEW i \in InnerLevel, NEW n \in Nat, InLevel(i, n), n < 2 * Start(m)
        PROVE  own'[p][FieldOf(i, n)][SlotOf(i, n)] = own[p][FieldOf(i, n)][SlotOf(i, n)]
    <2>1. Start(i) < Start(m)
      BY <1>u, <1>f, StartFacts DEF InLevel
    <2> QED
      BY <1>u, <1>f, <2>1, UnitSlots, LowerSlots
  <1>1. ASSUME NEW t \in Threads
        PROVE  ContentInv(t)'
    <2>1. ASSUME NEW k \in 1..Len(wire[t]), NEW i \in InnerLevel,
                 InLevel(i, Sent(Receiver(t), t) + k - 1)
          PROVE  wire[t][k] = own'[Sender(t)][FieldOf(i, Sent(Receiver(t), t) + k - 1)]
                                             [SlotOf(i, Sent(Receiver(t), t) + k - 1)]
      <3> DEFINE n == Sent(Receiver(t), t) + k - 1
      <3>1. wire[t][k] = own[Sender(t)][FieldOf(i, n)][SlotOf(i, n)]
        BY <2>1 DEF ExchangeInv, ContentInv
      <3>2. CASE Sender(t) = q
        BY <3>1, <3>2, <1>f
      <3>3. CASE Sender(t) = p
        <4>1. /\ Sent(p, t) = Sent(Receiver(t), t) + Len(wire[t])
              /\ Sent(Receiver(t), t) \in Nat /\ Len(wire[t]) \in Nat
          BY <3>3, WireFacts
        <4>2. n \in Nat /\ n < 2 * Start(m)
          BY <4>1, <1>s, <2>1
        <4> QED
          BY <3>1, <3>3, <4>2, <2>1, <1>u
      <3> QED
        BY <1>q, <3>2, <3>3, ThreadFacts
    <2>2. \A r \in Party : Sent(r, t)' = Sent(r, t)
      OBVIOUS
    <2>3. Receiver(t)' = Receiver(t) /\ Receiver(t) \in Party
      BY ThreadFacts DEF Receiver
    <2> QED
      BY <1>f, <2>1, <2>2, <2>3
         DEF ContentInv
  <1>2. ASSUME NEW t \in Threads
        PROVE  ReceivedInv(t)'
    <2> DEFINE r == Receiver(t)
               i == lev[r]
    <2>1. /\ r \in Party /\ Peer(r) \in Party /\ Peer(r) # r /\ Peer(r) = Sender(t)
          /\ Sent(r, t)' = Sent(r, t)
      BY ThreadFacts, PartyFacts
    <2>2. CASE r = p
      <3>1. ASSUME NEW n \in Nat, InLevel(i, n), n < Sent(r, t)
            PROVE  FALSE
        BY <3>1, <2>2, <1>s, <1>f, StartFacts DEF InLevel
      <3> QED
        BY <3>1, <2>1, <1>f
           DEF ReceivedInv, Receiver, InLevel, Start, StartCorr
    <2>3. CASE r = q
      <3>1. ASSUME pc[r] = "exchange", NEW n \in Nat, InLevel(i, n), n < Sent(r, t)
            PROVE  opened[r][FieldOf(i, n)][SlotOf(i, n)]
                     = own'[Peer(r)][FieldOf(i, n)][SlotOf(i, n)]
        <4>1. opened[r][FieldOf(i, n)][SlotOf(i, n)]
                = own[Peer(r)][FieldOf(i, n)][SlotOf(i, n)]
          BY <3>1 DEF ExchangeInv, ReceivedInv
        <4>2. Peer(r) = p /\ Sender(t) = p
          BY <1>q, <2>1, <2>3
        <4>3. /\ Sent(p, t) = Sent(r, t) + Len(wire[t])
              /\ Len(wire[t]) \in Nat
          BY <4>2, WireFacts
        <4>4. n < 2 * Start(m)
          BY <1>s, <2>3, <3>1, <4>3
        <4>5. i \in InnerLevel
          BY <1>t, <2>1, <3>1, LevelFacts
        <4> QED
          BY <3>1, <4>1, <4>2, <4>4, <4>5, <1>u
      <3>2. Receiver(t)' = r /\ pc'[r] = pc[r] /\ lev'[r] = i /\ opened'[r] = opened[r]
        BY <2>3, <1>f DEF Receiver
      <3>3. Peer(r)' = Peer(r)
        BY DEF Peer
      <3> HIDE DEF r
      <3> QED
        BY <3>1, <3>2, <2>1, ReceivedAfter, ThreadFacts
    <2> QED
      BY <1>q, <2>1, <2>2, <2>3
  <1>3. ASSUME NEW r \in Party
        PROVE  OpenInv(r)'
    <2>1. CASE r = p
      BY <1>f, <2>1 DEF OpenInv
    <2>2. CASE r = q /\ pc[q] = "and2"
      <3>1. PICK t \in Threads : Sender(t) = p /\ Receiver(t) = q
        BY ThreadsOf
      <3>2. /\ Sent(p, t) = Sent(q, t) + Len(wire[t]) /\ Len(wire[t]) \in Nat
            /\ Sent(q, t) > 2 * Start(lev[q]) /\ lev[q] \in InnerLevel
        BY <1>t, <1>q, <2>2, <3>1, WireFacts, SentBounds, LevelFacts
      <3>3. Start(lev[q]) < Start(m)
        BY <1>s, <1>f, <3>2, StartFacts, SMTT(30)
      <3>4. ASSUME NEW s \in Slots, NEW h \in {"e", "f"}, LevelSlot(lev[q], s)
            PROVE  opened[q][h][s] = Xor(own'[ALICE][h][s], own'[BOB][h][s])
        <4>1. opened[q][h][s] = Xor(own[ALICE][h][s], own[BOB][h][s])
          BY <1>q, <2>2, <3>4 DEF ExchangeInv, OpenInv
        <4>2. own'[p][h][s] = own[p][h][s] /\ own'[q][h][s] = own[q][h][s]
          BY <1>f, <3>2, <3>3, <3>4, LowerSlots
        <4> QED
          BY <1>q, <4>1, <4>2, PartyFacts
      <3> QED
        BY <1>f, <2>2, <3>4 DEF OpenInv, LevelSlot, StartCorr
    <2>3. CASE r = q /\ pc[q] # "and2"
      BY <1>f, <2>3 DEF OpenInv
    <2> QED
      BY <1>q, <2>1, <2>2, <2>3
  <1> QED
    BY <1>1, <1>2, <1>3 DEF ExchangeInv

\* A unit is of one level.
LEMMA OneLevel ==
  ASSUME NEW i \in InnerLevel, NEW m \in InnerLevel, NEW n \in Nat,
         InLevel(i, n), InLevel(m, n)
  PROVE  i = m
  <1>1. i \in PowersOfTwo /\ m \in PowersOfTwo /\ i \in Nat /\ m \in Nat
        /\ i < 2 * NumDigits /\ m < 2 * NumDigits
    BY InnerLevels DEF PowersOfTwo
  <1>2. ~(i < m)
    BY <1>1, StartOrder, StartFacts DEF InLevel
  <1>3. ~(m < i)
    BY <1>1, StartOrder, StartFacts DEF InLevel
  <1> QED
    BY <1>1, <1>2, <1>3

\* The unit a thread is about to transfer.
LEMMA NextUnit ==
  ASSUME IInv, FlowInv, NEW p \in Party, pc[p] = "exchange", NEW t \in Threads,
         moved[p][t] < 2 * HalfSize(p)
  PROVE  LET i == lev[p]
             n == Sent(p, t)
         IN  /\ i \in InnerLevel /\ n \in Nat /\ InLevel(i, n)
             /\ UnitField(p, moved[p][t]) = FieldOf(i, n)
             /\ UnitSlot(p, moved[p][t]) = SlotOf(i, n)
  <1>1. TypeOK /\ CountInv(p) /\ MovedInv(p)
    BY DEF IInv, FlowInv
  <1>2. moved[p][t] \in Nat /\ lev[p] \in InnerLevel
    BY <1>1, SentBounds, LevelFacts
  <1>3. Sent(p, t) = 2 * Start(lev[p]) + moved[p][t]
    BY DEF Sent
  <1> QED
    BY <1>1, <1>2, <1>3, UnitIs

\* Only party p's thread t counts one more.
LEMMA ThreadSent ==
  ASSUME IInv, FlowInv, NEW p \in Party, NEW t \in Threads, Thread(p, t)
  PROVE  /\ Sent(p, t)' = Sent(p, t) + 1
         /\ \A r \in Party, u \in Threads : (r # p \/ u # t) => Sent(r, u)' = Sent(r, u)
  <1>1. TypeOK /\ CountInv(p) /\ MovedInv(p)
    BY DEF IInv, FlowInv
  <1>2. Start(lev[p]) \in Nat /\ moved[p][t] \in Nat
    BY <1>1, SentBounds
  <1>3. /\ pc' = pc /\ lev' = lev /\ pc[p] = "exchange"
        /\ \A r \in Party, u \in Threads :
             moved'[r][u] = IF r = p /\ u = t THEN moved[p][t] + 1 ELSE moved[r][u]
    BY <1>1, ThreadMoves
  <1>4. Sent(p, t)' = Sent(p, t) + 1
    <2>1. Sent(p, t)' = 2 * Start(lev[p]) + (moved[p][t] + 1)
      BY <1>3 DEF Sent, Start, StartCorr
    <2>2. Sent(p, t) = 2 * Start(lev[p]) + moved[p][t]
      BY <1>3 DEF Sent
    <2> QED
      BY <1>2, <2>1, <2>2
  <1>5. \A r \in Party, u \in Threads : (r # p \/ u # t) => Sent(r, u)' = Sent(r, u)
    BY <1>3 DEF Sent, Start, StartCorr
  <1> QED
    BY <1>4, <1>5

LEMMA SendExchange ==
  ASSUME IInv, FlowInv, ExchangeInv, NEW p \in Party, NEW t \in Threads, SendUnit(p, t)
  PROVE  ExchangeInv'
  <1>t. TypeOK /\ CountInv(p) /\ Thread(p, t)
    BY DEF IInv, Thread
  <1>r. p = Sender(t) /\ Receiver(t) # p /\ Receiver(t) \in Party
        /\ \A u \in Threads : Receiver(u) \in Party /\ Receiver(u)' = Receiver(u)
    BY ThreadFacts DEF SendUnit, Receiver
  <1>m. /\ pc' = pc /\ lev' = lev /\ own' = own /\ opened' = opened
        /\ pc[p] = "exchange" /\ moved[p][t] < 2 * HalfSize(p)
        /\ \A u \in Threads : u # t => wire'[u] = wire[u]
    BY <1>t, ThreadMoves DEF SendUnit, treeVars
  <1>s. \A u \in Threads : Sent(Receiver(u), u)' = Sent(Receiver(u), u)
    BY <1>t, <1>r, ThreadSent
  <1>1. ASSUME NEW u \in Threads
        PROVE  ContentInv(u)'
    <2>1. ASSUME NEW k \in 1..Len(wire'[u]), NEW i \in InnerLevel,
                 InLevel(i, Sent(Receiver(u), u) + k - 1)
          PROVE  wire'[u][k] = own[Sender(u)][FieldOf(i, Sent(Receiver(u), u) + k - 1)]
                                             [SlotOf(i, Sent(Receiver(u), u) + k - 1)]
      <3> DEFINE n == Sent(Receiver(u), u) + k - 1
      <3>1. CASE u # t
        BY <1>m, <2>1, <3>1 DEF ExchangeInv, ContentInv
      <3>2. CASE u = t
        <4> DEFINE b == own[p][UnitField(p, moved[p][t])][UnitSlot(p, moved[p][t])]
        <4>1. wire'[t] = Append(wire[t], b)
          BY <1>t DEF SendUnit, TypeOK, Threads
        <4>2. wire[t] \in Seq(Bit) /\ Len(wire[t]) \in Nat
              /\ Sent(p, t) = Sent(Receiver(t), t) + Len(wire[t])
              /\ Sent(p, t) \in Nat /\ Sent(Receiver(t), t) \in Nat
          BY <1>r, WireFacts
        <4>3. Len(wire'[t]) = Len(wire[t]) + 1
          BY <1>t, <1>r, ThreadMoves
        <4>4. CASE k <= Len(wire[t])
          <5>1. k \in 1..Len(wire[t])
            BY <4>2, <4>3, <4>4, <3>2
          <5> HIDE DEF b
          <5>2. wire'[t][k] = wire[t][k]
            BY <4>1, <4>2, <5>1
          <5> QED
            BY <2>1, <3>2, <5>1, <5>2 DEF ExchangeInv, ContentInv
        <4>5. CASE ~(k <= Len(wire[t]))
          <5>1. k = Len(wire[t]) + 1 /\ n = Sent(p, t)
            BY <4>2, <4>3, <4>5, <3>2
          <5>2. wire'[t][k] = b
            <6> HIDE DEF b
            <6> QED
              BY <4>1, <4>2, <5>1
          <5>3. /\ lev[p] \in InnerLevel /\ n \in Nat /\ InLevel(lev[p], n)
                /\ UnitField(p, moved[p][t]) = FieldOf(lev[p], n)
                /\ UnitSlot(p, moved[p][t]) = SlotOf(lev[p], n)
            BY <1>m, <5>1, NextUnit
          <5>4. i = lev[p]
            BY <2>1, <5>3, OneLevel
          <5> QED
            BY <1>r, <3>2, <5>2, <5>3, <5>4
        <4> QED
          BY <4>4, <4>5
      <3> QED
        BY <3>1, <3>2
    <2> QED
      BY <1>m, <1>r, <1>s, <2>1
         DEF ContentInv
  <1>2. ASSUME NEW u \in Threads
        PROVE  ReceivedInv(u)'
    <2>1. ReceivedInv(u)
      BY DEF ExchangeInv
    <2>2. Peer(Receiver(u))' = Peer(Receiver(u))
      BY <1>r DEF Peer
    <2> QED
      BY <1>m, <1>r, <1>s, <2>1, ReceivedAfter DEF ReceivedInv
  <1>3. \A r \in Party : OpenInv(r)'
    BY <1>m DEF ExchangeInv, OpenInv
  <1> QED
    BY <1>1, <1>2, <1>3 DEF ExchangeInv

LEMMA RecvExchange ==
  ASSUME IInv, FlowInv, ExchangeInv, NEW p \in Party, NEW t \in Threads, RecvUnit(p, t)
  PROVE  ExchangeInv'
  <1>t. TypeOK /\ CountInv(p) /\ Thread(p, t)
    BY DEF IInv, Thread
  <1>r. /\ p = Receiver(t) /\ Sender(t) = Peer(p) /\ Sender(t) \in Party /\ Sender(t) # p
        /\ \A u \in Threads : Receiver(u) \in Party /\ Receiver(u)' = Receiver(u)
                           /\ (u # t => Receiver(u) # p)
    <2>1. p # Sender(t)
      BY DEF RecvUnit
    <2>2. \A u \in Threads : u # t => Receiver(u) = Sender(t)
      BY DEF Threads, Receiver, Sender, Peer, ALICE, BOB
    <2> QED
      BY <2>1, <2>2, ThreadFacts DEF Receiver
  <1>m. /\ pc' = pc /\ lev' = lev /\ own' = own /\ pc[p] = "exchange"
        /\ moved[p][t] < 2 * HalfSize(p) /\ moved[p][t] \in Nat
        /\ \A u \in Threads : u # t => wire'[u] = wire[u]
        /\ wire[t] # <<>> /\ wire'[t] = Tail(wire[t])
    BY <1>t, <1>r, ThreadMoves
  <1>s. /\ Sent(p, t)' = Sent(p, t) + 1
        /\ \A u \in Threads : u # t => Sent(Receiver(u), u)' = Sent(Receiver(u), u)
    BY <1>t, <1>r, ThreadSent
  <1>w. /\ wire[t] \in Seq(Bit) /\ Len(wire[t]) \in Nat \ {0}
        /\ Len(wire'[t]) = Len(wire[t]) - 1
        /\ Sent(p, t) \in Nat
        /\ \A k \in 1..(Len(wire[t]) - 1) : wire'[t][k] = wire[t][k + 1]
    <2>1. wire[t] \in Seq(Bit) /\ Len(wire[t]) \in Nat /\ Sent(p, t) \in Nat
      BY <1>r, WireFacts
    <2> QED
      BY <1>m, <2>1
  <1>1. ASSUME NEW u \in Threads
        PROVE  ContentInv(u)'
    <2>1. CASE u # t
      BY <1>m, <1>r, <1>s, <2>1
         DEF ExchangeInv, ContentInv
    <2>2. CASE u = t
      <3>1. ASSUME NEW k \in 1..Len(wire'[t]), NEW i \in InnerLevel,
                   InLevel(i, Sent(p, t)' + k - 1)
            PROVE  wire'[t][k] = own[Sender(t)][FieldOf(i, Sent(p, t)' + k - 1)]
                                               [SlotOf(i, Sent(p, t)' + k - 1)]
        <4>1. /\ k + 1 \in 1..Len(wire[t]) /\ wire'[t][k] = wire[t][k + 1]
              /\ Sent(p, t)' + k - 1 = Sent(p, t) + (k + 1) - 1
          <5>1. PICK l, a, b : l = Len(wire[t]) /\ a = Sent(p, t) /\ b = Sent(p, t)'
            OBVIOUS
          <5>2. l \in Nat \ {0} /\ a \in Nat /\ b = a + 1 /\ k \in 1..(l - 1)
            BY <1>w, <1>s, <5>1
          <5>3. k + 1 \in 1..l /\ b + k - 1 = a + (k + 1) - 1
            BY <5>2
          <5> QED
            BY <1>w, <5>1, <5>2, <5>3
        <4> QED
          BY <1>r, <3>1, <4>1 DEF ExchangeInv, ContentInv
      <3>2. Receiver(u)' = p /\ Receiver(u) = p /\ wire'[u] = wire'[t]
            /\ Sent(p, u)' = Sent(p, t)' /\ Sender(u) = Sender(t)
        BY <1>r, <2>2
      <3>3. \A k \in 1..Len(wire'[u]), i \in InnerLevel :
              InLevel(i, Sent(p, u)' + k - 1) =>
                wire'[u][k] = own'[Sender(u)][FieldOf(i, Sent(p, u)' + k - 1)]
                                             [SlotOf(i, Sent(p, u)' + k - 1)]
        BY <1>m, <3>1, <3>2
      <3> QED
        BY <3>2, <3>3
           DEF ContentInv
    <2> QED
      BY <2>1, <2>2
  <1> DEFINE i == lev[p]
             n0 == Sent(p, t)
  <1>h. /\ i \in InnerLevel /\ n0 \in Nat /\ InLevel(i, n0)
        /\ opened' = [opened EXCEPT ![p][FieldOf(i, n0)][SlotOf(i, n0)] = Head(wire[t])]
        /\ Head(wire[t]) = own[Peer(p)][FieldOf(i, n0)][SlotOf(i, n0)]
    <2>1. /\ i \in InnerLevel /\ n0 \in Nat /\ InLevel(i, n0)
          /\ UnitField(p, moved[p][t]) = FieldOf(i, n0)
          /\ UnitSlot(p, moved[p][t]) = SlotOf(i, n0)
      BY <1>m, NextUnit
    <2>2. opened' = [opened EXCEPT ![p][UnitField(p, moved[p][t])][UnitSlot(p, moved[p][t])] =
                       Head(wire[t])]
      BY DEF RecvUnit
    <2>3. 1 \in 1..Len(wire[t]) /\ n0 + 1 - 1 = n0 /\ Head(wire[t]) = wire[t][1]
      BY <1>w, <1>m, <2>1
    <2>4. wire[t][1] = own[Sender(t)][FieldOf(i, n0)][SlotOf(i, n0)]
      BY <1>r, <2>1, <2>3 DEF ExchangeInv, ContentInv
    <2> QED
      BY <1>r, <2>1, <2>2, <2>3, <2>4
  <1>o. /\ \A r \in Party : r # p => opened'[r] = opened[r]
        /\ \A h \in {"e", "f"}, s \in Slots :
             opened'[p][h][s] = IF h = FieldOf(i, n0) /\ s = SlotOf(i, n0)
                                THEN Head(wire[t]) ELSE opened[p][h][s]
    <2>1. opened \in [Party -> [{"e", "f"} -> [Slots -> Bit]]]
      BY <1>t DEF TypeOK
    <2>2. PICK h0, s0 : h0 = FieldOf(i, n0) /\ s0 = SlotOf(i, n0)
      OBVIOUS
    <2>3. opened' = [opened EXCEPT ![p][h0][s0] = Head(wire[t])]
      BY <1>h, <2>2
    <2>4. h0 \in {"e", "f"} /\ s0 \in Slots
      BY <1>h, <2>2, UnitSlots
    <2>5. /\ \A r \in Party : r # p => opened'[r] = opened[r]
          /\ \A h \in {"e", "f"}, s \in Slots :
               opened'[p][h][s] = IF h = h0 /\ s = s0 THEN Head(wire[t]) ELSE opened[p][h][s]
      BY <2>1, <2>3, <2>4
    <2> QED
      BY <2>2, <2>5
  <1>2. ASSUME NEW u \in Threads
        PROVE  ReceivedInv(u)'
    <2>1. ReceivedInv(u)
      BY DEF ExchangeInv
    <2>2. Peer(Receiver(u))' = Peer(Receiver(u))
      BY <1>r DEF Peer
    <2>3. CASE u # t
      <3> HIDE DEF i, n0
      <3>1. PICK r : r = Receiver(u)
        OBVIOUS
      <3>2. /\ Receiver(u)' = r /\ opened'[r] = opened[r] /\ pc'[r] = pc[r]
            /\ lev'[r] = lev[r] /\ own' = own /\ Peer(r)' = Peer(r)
            /\ Sent(r, u)' = Sent(r, u)
        BY <1>m, <1>r, <1>s, <1>o, <2>2, <2>3, <3>1
      <3> QED
        BY <2>1, <3>1, <3>2, ReceivedAfter DEF ReceivedInv
    <2>4. CASE u = t
      <3>1. ASSUME NEW n \in Nat, InLevel(i, n), n < n0 + 1
            PROVE  opened'[p][FieldOf(i, n)][SlotOf(i, n)]
                     = own[Peer(p)][FieldOf(i, n)][SlotOf(i, n)]
        <4>1. FieldOf(i, n) \in {"e", "f"} /\ SlotOf(i, n) \in Slots
          BY <1>h, <3>1, UnitSlots
        <4>2. CASE FieldOf(i, n) = FieldOf(i, n0) /\ SlotOf(i, n) = SlotOf(i, n0)
          BY <1>o, <1>h, <4>1, <4>2
        <4>3. CASE ~(FieldOf(i, n) = FieldOf(i, n0) /\ SlotOf(i, n) = SlotOf(i, n0))
          <5>1. n # n0
            BY <4>3
          <5>2. n < Sent(p, t)
            BY <1>h, <3>1, <5>1
          <5>3. opened[p][FieldOf(i, n)][SlotOf(i, n)]
                  = own[Peer(p)][FieldOf(i, n)][SlotOf(i, n)]
            BY <1>m, <1>r, <2>1, <2>4, <3>1, <5>2 DEF ReceivedInv
          <5> QED
            BY <1>o, <4>1, <4>3, <5>3
        <4> QED
          BY <4>2, <4>3
      <3>2. /\ Peer(p)' = Peer(p) /\ Receiver(u)' = p /\ own' = own
            /\ lev'[p] = i /\ Sent(p, u)' = n0 + 1
        BY <1>m, <1>r, <1>s, <2>4 DEF Peer
      <3> HIDE DEF i, n0
      <3>3. \A n \in Nat : InLevel(i, n) /\ n < n0 + 1 =>
              opened'[p][FieldOf(i, n)][SlotOf(i, n)]
                = own'[Peer(p)'][FieldOf(i, n)][SlotOf(i, n)]
        BY <3>1, <3>2
      <3> QED
        BY <3>2, <3>3, ReceivedAfter
    <2> QED
      BY <2>3, <2>4
  <1>3. ASSUME NEW r \in Party
        PROVE  OpenInv(r)'
    <2>1. CASE r = p
      BY <1>m, <2>1 DEF OpenInv
    <2>2. CASE r # p
      BY <1>m, <1>o, <2>2 DEF ExchangeInv, OpenInv
    <2> QED
      BY <2>1, <2>2
  <1> QED
    BY <1>1, <1>2, <1>3 DEF ExchangeInv

\* The join opens the operands of the whole level.
LEMMA JoinOpens ==
  ASSUME IInv, FlowInv, ExchangeInv, NEW p \in Party, Join(p)
  PROVE  OpenInv(p)'
  <1>t. TypeOK /\ CountInv(p)
    BY DEF IInv
  <1> DEFINE i == lev[p]
  <1>1. /\ pc[p] = "exchange" /\ i \in InnerLevel /\ own' = own /\ lev' = lev
        /\ \A t \in Threads : moved[p][t] = 2 * HalfSize(p)
        /\ HalfSize(p) = HalfOf(i) /\ HalfOf(i) \in Nat
        /\ Start(i) \in Nat /\ Start(2 * i) = Start(i) + HalfOf(i)
    BY <1>t, LevelFacts, UnitsOfLevel, StartFacts DEF Join, AllArrived, Units, HalfOf
  <1>2. \A h \in {"e", "f"}, s \in Slots : s \in LevelSlots(p) =>
           opened'[p][h][s] = Xor(opened[p][h][s], own[p][h][s])
    BY <1>t DEF Join, TypeOK
  <1>3. PICK t \in Threads : p = Receiver(t)
    BY ThreadsOf
  <1>4. Sent(p, t) = 2 * Start(2 * i)
    BY <1>1 DEF Sent
  <1>5. ASSUME NEW s \in Slots, NEW h \in {"e", "f"}, LevelSlot(i, s)
        PROVE  opened'[p][h][s] = Xor(own[ALICE][h][s], own[BOB][h][s])
    <2>1. opened[p][h][s] = own[Peer(p)][h][s]
      <3>1. PICK n \in Nat : InLevel(i, n) /\ FieldOf(i, n) = h /\ SlotOf(i, n) = s
        BY <1>1, <1>5, EverySlot
      <3>2. n < Sent(p, t)
        BY <1>4, <3>1 DEF InLevel
      <3> QED
        BY <1>1, <1>3, <3>1, <3>2 DEF ExchangeInv, ReceivedInv
    <2>2. s \in LevelSlots(p)
      <3>1. PICK n \in Nat : /\ InLevel(i, n) /\ SlotOf(i, n) = s
                             /\ n < 2 * Start(i) + HalfOf(i)
        BY <1>1, <1>5, EverySlot
      <3> DEFINE k == n - 2 * Start(i)
      <3>2. k \in Nat /\ k < HalfSize(p) /\ k < 2 * HalfSize(p) /\ 2 * Start(i) + k = n
        BY <1>1, <3>1 DEF InLevel
      <3>3. UnitSlot(p, k) = s
        BY <1>t, <1>1, <3>1, <3>2, UnitIs
      <3>4. k \in 0..(HalfSize(p) - 1)
        BY <1>1, <3>2
      <3> QED
        BY <3>3, <3>4 DEF LevelSlots
    <2>3. opened'[p][h][s] = Xor(own[Peer(p)][h][s], own[p][h][s])
      BY <1>2, <2>1, <2>2
    <2> QED
      BY <2>3 DEF Xor, Party, Peer
  <1> QED
    BY <1>1, <1>5 DEF OpenInv, LevelSlot, StartCorr

LEMMA LocalExchange ==
  ASSUME IInv, IInv', FlowInv, ExchangeInv, NEW p \in Party, Local(p)
  PROVE  ExchangeInv'
  <1>t. TypeOK /\ CountInv(p) /\ MovedInv(p)
    BY DEF IInv, FlowInv
  <1>s. \A r \in Party, t \in Threads : Sent(r, t)' = Sent(r, t)
    <2>1. ASSUME NEW r \in Party, NEW t \in Threads
          PROVE  Sent(r, t)' = Sent(r, t)
      <3>1. CASE r = p
        BY <1>t, <3>1, LocalFlow
      <3>2. CASE r # p
        BY <1>t, <3>2, LocalFrame DEF Sent, Start, StartCorr
      <3> QED
        BY <3>1, <3>2
    <2> QED
      BY <2>1
  <1>1. CASE AndStep1(p)
    BY <1>1, <1>s, MaskExchange
  <1>2. CASE Generate(p) \/ Join(p) \/ AndStep2(p)
    <2>1. /\ own' = own /\ wire' = wire
          /\ pc'[p] # "exchange"
          /\ \A r \in Party : r # p =>
               pc'[r] = pc[r] /\ lev'[r] = lev[r] /\ opened'[r] = opened[r]
      <3>1. own' = own /\ wire' = wire
        BY <1>2 DEF Generate, Join, AndStep2, treeVars
      <3>2. pc'[p] # "exchange"
        BY <1>2, <1>t DEF Generate, Join, AndStep2, TypeOK
      <3>3. \A r \in Party : r # p =>
               pc'[r] = pc[r] /\ lev'[r] = lev[r] /\ opened'[r] = opened[r]
        BY <1>t, LocalFrame
      <3> QED
        BY <3>1, <3>2, <3>3
    <2>2. ASSUME NEW u \in Threads
          PROVE  ContentInv(u)' /\ ReceivedInv(u)'
      <3>1. ContentInv(u) /\ ReceivedInv(u)
        BY DEF ExchangeInv
      <3>2. /\ Receiver(u)' = Receiver(u) /\ Receiver(u) \in Party
            /\ Peer(Receiver(u))' = Peer(Receiver(u))
        BY ThreadFacts DEF Receiver, Peer
      <3>3. ContentInv(u)'
        BY <1>s, <2>1, <3>1, <3>2
           DEF ContentInv
      <3>4. ReceivedInv(u)'
        BY <1>s, <2>1, <3>1, <3>2, ReceivedAfter DEF ReceivedInv
      <3> QED
        BY <3>3, <3>4
    <2>3. ASSUME NEW r \in Party
          PROVE  OpenInv(r)'
      <3>1. CASE r # p
        BY <2>1, <3>1 DEF ExchangeInv, OpenInv
      <3>2. CASE r = p /\ Join(p)
        BY <3>2, JoinOpens
      <3>3. CASE r = p /\ Generate(p)
        BY <3>3, <1>t DEF Generate, TypeOK, OpenInv
      <3>4. CASE r = p /\ AndStep2(p)
        <4>1. pc[p] = "and2" /\ opened' = opened
          BY <3>4 DEF AndStep2
        <4>2. pc'[p] = "and2" => lev'[p] = lev[p]
          BY <3>4, <1>t DEF AndStep2, TypeOK
        <4> QED
          BY <2>1, <3>4, <4>1, <4>2 DEF ExchangeInv, OpenInv
      <3> QED
        BY <1>2, <3>1, <3>2, <3>3, <3>4
    <2> QED
      BY <2>2, <2>3 DEF ExchangeInv
  <1> QED
    BY <1>1, <1>2 DEF Local

LEMMA ExchangeInit == Init => ExchangeInv
  <1> SUFFICES ASSUME Init
               PROVE  ExchangeInv
    OBVIOUS
  <1>1. \A p \in Party : pc[p] = "leaf"
    BY DEF Init
  <1>2. \A t \in Threads : wire[t] = <<>>
    BY DEF Init, Threads
  <1>3. \A t \in Threads : Receiver(t) \in Party /\ 1..Len(wire[t]) = {}
    BY <1>2, ThreadFacts
  <1> QED
    BY <1>1, <1>3 DEF ExchangeInv, ContentInv, ReceivedInv, OpenInv

LEMMA ExchangeUnchanged ==
  ASSUME ExchangeInv, own' = own, opened' = opened, wire' = wire, lev' = lev,
         moved' = moved,
         \A p \in Party : \/ pc'[p] = pc[p]
                          \/ pc[p] = "leaf" /\ pc'[p] \in {"triples", "done"}
  PROVE  ExchangeInv'
  <1>1. \A p \in Party, t \in Threads : Sent(p, t)' = Sent(p, t)
    BY DEF Sent, Start, StartCorr
  <1>2. ASSUME NEW t \in Threads
        PROVE  ContentInv(t)' /\ ReceivedInv(t)'
    <2>1. ContentInv(t) /\ ReceivedInv(t)
      BY DEF ExchangeInv
    <2>2. PICK r : r = Receiver(t)
      OBVIOUS
    <2>3. /\ Receiver(t)' = r /\ r \in Party /\ Peer(r)' = Peer(r)
          /\ Sent(r, t)' = Sent(r, t)
      BY <1>1, <2>2, ThreadFacts DEF Receiver, Peer
    <2>4. ContentInv(t)'
      BY <2>1, <2>2, <2>3
         DEF ContentInv
    <2>5. ReceivedInv(t)'
      BY <2>1, <2>2, <2>3, ReceivedAfter DEF ReceivedInv
    <2> QED
      BY <2>4, <2>5
  <1>3. \A p \in Party : OpenInv(p)'
    BY DEF ExchangeInv, OpenInv
  <1> QED
    BY <1>2, <1>3 DEF ExchangeInv

LEMMA ExchangeStep ==
  ASSUME IInv, IInv', FlowInv, ExchangeInv, [Next]_vars
  PROVE  ExchangeInv'
  <1>t. TypeOK
    BY DEF IInv
  <1>1. CASE LeafAlice \/ LeafBob
    <2>1. /\ own' = own /\ opened' = opened /\ wire' = wire /\ lev' = lev /\ moved' = moved
          /\ \A p \in Party : \/ pc'[p] = pc[p]
                              \/ pc[p] = "leaf" /\ pc'[p] \in {"triples", "done"}
      BY <1>1, <1>t DEF LeafAlice, LeafBob, TypeOK
    <2> QED
      BY <2>1, ExchangeUnchanged
  <1>2. ASSUME NEW p \in Party, Local(p)
        PROVE  ExchangeInv'
    BY <1>2, LocalExchange
  <1>3. ASSUME NEW p \in Party, NEW t \in Threads, Thread(p, t)
        PROVE  ExchangeInv'
    BY <1>3, SendExchange, RecvExchange DEF Thread
  <1>4. CASE UNCHANGED vars
    BY <1>4, ExchangeUnchanged DEF vars, treeVars
  <1> QED
    BY <1>1, <1>2, <1>3, <1>4 DEF Next

LEMMA ExchangeInductive == Spec => []ExchangeInv
  <1>1. IInv /\ IInv' /\ FlowInv /\ ExchangeInv /\ [Next]_vars => ExchangeInv'
    BY ExchangeStep
  <1> QED
    BY <1>1, ExchangeInit, Inductive, FlowInductive, PTL DEF Spec

\* What AND_step_2 takes as e and f in any slot of its node is the xor of
\* what the two parties masked there, whatever order the four threads of the
\* exchange ran in and however far the peer has gone on.
THEOREM OperandsOpen == Spec => []OpenedAgree
  <1>1. IInv /\ ExchangeInv => OpenedAgree
    <2> SUFFICES ASSUME IInv, ExchangeInv
                 PROVE  OpenedAgree
      OBVIOUS
    <2>1. ASSUME NEW p \in Party, pc[p] = "and2",
                 NEW s \in NodeSlots(cnt[p], node[p]), NEW h \in {"e", "f"}
          PROVE  opened[p][h][s] = Xor(own[ALICE][h][s], own[BOB][h][s])
      <3>1. s \in Slots /\ LevelSlot(lev[p], s)
        BY <2>1, NodeMasks DEF IInv
      <3> QED
        BY <2>1, <3>1 DEF ExchangeInv, OpenInv
    <2> QED
      BY <2>1 DEF OpenedAgree
  <1> QED
    BY <1>1, Inductive, ExchangeInductive, PTL

------------------------------------------------------------------------------
(***************************************************************************)
(* The in-place merges of the AND tree: at every step of either party the  *)
(* shares of a node xor to the comparison, and to the equality, of the     *)
(* digits the node stands for, also when one party has merged the node and *)
(* the other has not.  Then the result: the digits of a number determine   *)
(* how it compares, so the root holds shares of the comparison of the      *)
(* inputs, and the protocol, short path included, is the ideal comparison. *)
(***************************************************************************)

\* The nodes of level i, and what the shares of one stand for.
NodesOf(i) == {j \in Digits : j % i = 0}
Greater(i, j) == BitOf(RangeBeats(j, RangeEnd(i, j)))
Equal(i, j) == BitOf(RangeEqual(j, RangeEnd(i, j)))

\* The level of party p's share of node j.
Reached(p, j) ==
  IF pc[p] = "and2" /\ j < node[p] THEN 2 * lev[p] ELSE lev[p]

\* The first slot of node j in level i.
FirstOf(i, j) ==
  IF j = 0 THEN CeilLog2(i)
  ELSE NumTriplesStd + 2 * (StartCorr(i) + (j \div (2 * i)) - 1)

\* The share that AND_step_2 will give party p of the product in slot s, once
\* the slot's operands are open.
NextShare(p, i, s) ==
  LET e == Xor(own[ALICE].e[s], own[BOB].e[s])
      f == Xor(own[ALICE].f[s], own[BOB].f[s])
      k == SlotTriple(i, s)
      ef == IF p = ALICE THEN And(e, f) ELSE 0
  IN  Xor(Xor(Xor(ef, And(f, tape.a[p][k])), And(e, tape.b[p][k])), TripleC(p, k))

\* Party p's shares of node j when its level i is over.
NextCmp(p, i, j) ==
  IF HasPartner(i, j) THEN Xor(NextShare(p, i, FirstOf(i, j)), cmp[p][j + i])
  ELSE cmp[p][j]
NextEq(p, i, j) ==
  IF HasPartner(i, j) THEN NextShare(p, i, FirstOf(i, j) + 1) ELSE eq[p][j]

\* Where both parties have the same level of a node, their shares agree.
LevelInv ==
  (\A p \in Party : pc[p] # "leaf") =>
    \A i \in PowersOfTwo : \A j \in NodesOf(i) :
      Reached(ALICE, j) = i /\ Reached(BOB, j) = i =>
        /\ Xor(cmp[ALICE][j], cmp[BOB][j]) = Greater(i, j)
        /\ j > 0 => Xor(eq[ALICE][j], eq[BOB][j]) = Equal(i, j)

\* Where one is a level ahead, its share agrees with the share that the other
\* is going to have.
AheadInv(p, q) ==
  \A i \in InnerLevel : \A j \in NodesOf(2 * i) :
    Reached(p, j) = 2 * i /\ Reached(q, j) = i =>
      /\ Xor(cmp[p][j], NextCmp(q, i, j)) = Greater(2 * i, j)
      /\ j > 0 => Xor(eq[p][j], NextEq(q, i, j)) = Equal(2 * i, j)

\* The nodes of its level that party p has masked and not yet merged.
Pending(p, j) ==
  /\ pc[p] \in {"and1", "exchange", "and2"}
  /\ j \in NodesOf(2 * lev[p]) /\ HasPartner(lev[p], j)
  /\ pc[p] = "and1" => j < node[p]
  /\ pc[p] = "and2" => j >= node[p]

\* What the first pass puts in slot s.
MaskedBy(p, s, x, y) ==
  /\ own[p].e[s] = Xor(tape.a[p][SlotTriple(lev[p], s)], x)
  /\ own[p].f[s] = Xor(tape.b[p][SlotTriple(lev[p], s)], y)

MaskInv(p) ==
  \A j \in Digits : Pending(p, j) =>
    LET i == lev[p]
        s == FirstOf(i, j)
    IN  /\ MaskedBy(p, s, cmp[p][j], eq[p][j + i])
        /\ j > 0 => MaskedBy(p, s + 1, eq[p][j], eq[p][j + i])

\* Bob's leaf needs Alice's, who does nothing else before it.
LeafInv ==
  /\ pc[ALICE] = "leaf" => pc[BOB] = "leaf"
  /\ pc[BOB] = "leaf" /\ pc[ALICE] # "leaf" =>
       /\ pc[ALICE] = IF IsShort THEN "done" ELSE "triples"
       /\ cmp[ALICE] = tape.maskCmp /\ eq[ALICE] = tape.maskEq

SharesInv ==
  /\ LeafInv
  /\ ~IsShort =>
       /\ LevelInv
       /\ \A p \in Party : MaskInv(p)
       /\ \A p, q \in Party : p # q => AheadInv(p, q)

------------------------------------------------------------------------------
(* Digits.                                                                  *)

\* The digits are numbers, so that nothing beats itself.
LEMMA DigitsBeat ==
  ASSUME TypeOK, NEW m \in Digits
  PROVE  /\ Digit(data[ALICE], m) \in Int /\ Digit(data[BOB], m) \in Int
         /\ Beats(Digit(data[ALICE], m), Digit(data[BOB], m)) =>
              Digit(data[ALICE], m) # Digit(data[BOB], m)
  <1>1. ASSUME NEW v \in Nat
        PROVE  Digit(v, m) \in Int
    <2> DEFINE w == IF m = NumDigits - 1 /\ LastWidth # 0 THEN 2^LastWidth ELSE 2^RadixBase
               d == 2^(m * RadixBase)
    <2>1. RadixBase \in Nat /\ LastWidth \in Nat /\ m * RadixBase \in Nat
      <3>1. RadixBase \in {1, 2, 3, 4, 5, 6, 7, 8} /\ m \in Nat
        BY WidthAssumption DEF Digits
      <3>2. m * RadixBase \in Nat
        BY <3>1
      <3>3. LastWidth \in Nat
        BY <3>1, WidthAssumption DEF LastWidth
      <3> QED
        BY <3>1, <3>2, <3>3
    <2>2. w \in Nat /\ w > 0 /\ d \in Nat /\ d > 0
      BY <2>1, PowerDouble
    <2> HIDE DEF w, d
    <2>3. (v \div d) % w \in Int
      BY <2>2
    <2> QED
      BY <2>3 DEF Digit, w, d
  <1>2. data[ALICE] \in Nat /\ data[BOB] \in Nat
    BY PartyFacts, InputAssumption DEF TypeOK
  <1> QED
    BY <1>1, <1>2 DEF Beats

\* A range of digits compares as its upper part, or as its lower part where
\* the upper part is equal.
LEMMA RangeSplit ==
  ASSUME TypeOK, NEW lo \in Digits, NEW mid \in Digits, lo < mid,
         NEW hi \in Nat, mid < hi, hi <= NumDigits
  PROVE  /\ BitOf(RangeEqual(lo, hi))
              = And(BitOf(RangeEqual(lo, mid)), BitOf(RangeEqual(mid, hi)))
         /\ BitOf(RangeBeats(lo, hi))
              = Xor(And(BitOf(RangeBeats(lo, mid)), BitOf(RangeEqual(mid, hi))),
                    BitOf(RangeBeats(mid, hi)))
  <1>1. /\ \A m \in lo..(hi - 1) : m \in Digits
        /\ lo..(hi - 1) = lo..(mid - 1) \cup mid..(hi - 1)
        /\ \A m \in Int : mid..m \subseteq lo..m
    BY NumDigitsRange DEF Digits
  <1>2. RangeEqual(lo, hi) <=> RangeEqual(lo, mid) /\ RangeEqual(mid, hi)
    BY <1>1 DEF RangeEqual
  <1>3. RangeBeats(mid, hi) => ~RangeEqual(mid, hi)
    BY <1>1, DigitsBeat DEF RangeBeats, RangeEqual
  <1>4. RangeBeats(mid, hi) => RangeBeats(lo, hi)
    BY <1>1 DEF RangeBeats
  <1>5. RangeBeats(lo, mid) /\ RangeEqual(mid, hi) => RangeBeats(lo, hi)
    <2> SUFFICES ASSUME RangeBeats(lo, mid), RangeEqual(mid, hi)
                 PROVE  RangeBeats(lo, hi)
      OBVIOUS
    <2>1. PICK m \in lo..(mid - 1) :
            /\ Beats(Digit(data[ALICE], m), Digit(data[BOB], m))
            /\ \A n \in (m + 1)..(mid - 1) : Digit(data[ALICE], n) = Digit(data[BOB], n)
      BY DEF RangeBeats
    <2>2. \A n \in (m + 1)..(hi - 1) : n \in (m + 1)..(mid - 1) \/ n \in mid..(hi - 1)
      BY DEF Digits
    <2>3. \A n \in (m + 1)..(hi - 1) : Digit(data[ALICE], n) = Digit(data[BOB], n)
      BY <2>1, <2>2 DEF RangeEqual
    <2> QED
      BY <1>1, <2>1, <2>3 DEF RangeBeats
  <1>6. RangeBeats(lo, hi) => \/ RangeBeats(mid, hi)
                              \/ RangeBeats(lo, mid) /\ RangeEqual(mid, hi)
    <2> SUFFICES ASSUME RangeBeats(lo, hi)
                 PROVE  \/ RangeBeats(mid, hi)
                        \/ RangeBeats(lo, mid) /\ RangeEqual(mid, hi)
      OBVIOUS
    <2>1. PICK m \in lo..(hi - 1) :
            /\ Beats(Digit(data[ALICE], m), Digit(data[BOB], m))
            /\ \A n \in (m + 1)..(hi - 1) : Digit(data[ALICE], n) = Digit(data[BOB], n)
      BY DEF RangeBeats
    <2>2. CASE m \in mid..(hi - 1)
      BY <2>1, <2>2 DEF RangeBeats
    <2>3. CASE m \in lo..(mid - 1)
      <3>1. \A n \in (m + 1)..(mid - 1) : n \in (m + 1)..(hi - 1)
        BY <2>3 DEF Digits
      <3>2. \A n \in mid..(hi - 1) : n \in (m + 1)..(hi - 1)
        BY <2>3 DEF Digits
      <3> QED
        BY <2>1, <2>3, <3>1, <3>2 DEF RangeBeats, RangeEqual
    <2> QED
      BY <1>1, <2>2, <2>3
  <1> HIDE DEF RangeBeats, RangeEqual
  <1> QED
    BY <1>2, <1>3, <1>4, <1>5, <1>6 DEF BitOf, And, Xor

\* A range of one digit.
LEMMA OneDigit ==
  ASSUME NEW j \in Digits
  PROVE  /\ RangeBeats(j, j + 1) <=> Beats(Digit(data[ALICE], j), Digit(data[BOB], j))
         /\ RangeEqual(j, j + 1) <=> Digit(data[ALICE], j) = Digit(data[BOB], j)
  <1>1. j..(j + 1 - 1) = {j} /\ (j + 1)..(j + 1 - 1) = {}
    BY DEF Digits
  <1>2. RangeBeats(j, j + 1) <=> Beats(Digit(data[ALICE], j), Digit(data[BOB], j))
    BY <1>1 DEF RangeBeats
  <1>3. RangeEqual(j, j + 1) <=> Digit(data[ALICE], j) = Digit(data[BOB], j)
    BY <1>1 DEF RangeEqual
  <1> QED
    BY <1>2, <1>3

------------------------------------------------------------------------------
(* Nodes and their slots.                                                   *)

LEMMA PeerFacts ==
  ASSUME NEW p \in Party
  PROVE  /\ Peer(p) \in Party /\ Peer(p) # p /\ Peer(Peer(p)) = p
         /\ \A r \in Party : r = p \/ r = Peer(p)
         /\ {p, Peer(p)} = {ALICE, BOB}
  BY DEF Party, Peer, ALICE, BOB

LEMMA NodeArith ==
  ASSUME NEW i \in InnerLevel, NEW j \in NodesOf(2 * i)
  PROVE  /\ j \in NodesOf(i) /\ j \in Nat /\ i \in Nat \ {0} /\ j \in Digits
         /\ 2 * i \in PowersOfTwo /\ 2 * i \in Nat /\ i # 2 * i
         /\ HasPartner(i, j) => /\ j + i \in NodesOf(i)
                                /\ RangeEnd(i, j) = j + i
                                /\ RangeEnd(2 * i, j) = RangeEnd(i, j + i)
                                /\ RangeEnd(2 * i, j) \in Nat
                                /\ j + i < RangeEnd(2 * i, j)
                                /\ RangeEnd(2 * i, j) <= NumDigits
         /\ ~HasPartner(i, j) => RangeEnd(2 * i, j) = RangeEnd(i, j)
         /\ \A k \in NodesOf(2 * i) : k # j + i /\ (j < k => j + 2 * i <= k)
  <1>1. i \in {1, 2, 4, 8, 16, 32} /\ NumDigits \in 1..64 /\ i < NumDigits
    BY NumDigitsRange, SMTT(30) DEF InnerLevel, PowersOfTwo
  <1>2. j \in Nat /\ j < NumDigits /\ j % (2 * i) = 0 /\ j \in Digits
    BY <1>1 DEF NodesOf, Digits
  <1>3. j % i = 0 /\ (j + i) % i = 0 /\ (j + i) % (2 * i) # 0
    BY <1>1, <1>2, SMTT(60)
  <1>4. \A k \in Nat : k % (2 * i) = 0 /\ j < k => j + 2 * i <= k
    BY <1>1, <1>2, SMTT(60)
  <1>5. /\ HasPartner(i, j) => /\ RangeEnd(i, j) = j + i
                               /\ RangeEnd(2 * i, j) = RangeEnd(i, j + i)
                               /\ RangeEnd(2 * i, j) \in Nat
                               /\ j + i < RangeEnd(2 * i, j)
                               /\ RangeEnd(2 * i, j) <= NumDigits
        /\ ~HasPartner(i, j) => RangeEnd(2 * i, j) = RangeEnd(i, j)
    BY <1>1, <1>2 DEF RangeEnd, HasPartner
  <1>6. 2 * i \in PowersOfTwo /\ 2 * i \in Nat /\ i # 2 * i
    BY <1>1 DEF PowersOfTwo
  <1>7. HasPartner(i, j) => j + i \in Digits
    BY <1>1, <1>2 DEF HasPartner, Digits
  <1>8. \A k \in NodesOf(2 * i) : k \in Nat /\ k % (2 * i) = 0
    BY <1>1 DEF NodesOf, Digits
  <1> QED
    BY <1>1, <1>2, <1>3, <1>4, <1>5, <1>6, <1>7, <1>8 DEF NodesOf

\* The slots of a node that has a partner are of its level, and no other
\* node's.
LEMMA NodeSlotsOf ==
  ASSUME NEW i \in InnerLevel, NEW j \in NodesOf(2 * i), HasPartner(i, j)
  PROVE  /\ FirstOf(i, j) \in Slots /\ LevelSlot(i, FirstOf(i, j))
         /\ SlotTriple(i, FirstOf(i, j)) \in Slots
         /\ j = 0 => FirstOf(i, j) = CeilLog2(i) /\ SlotTriple(i, FirstOf(i, j)) = Start(i)
         /\ j # 0 => /\ FirstOf(i, j) + 1 \in Slots /\ LevelSlot(i, FirstOf(i, j) + 1)
                     /\ SlotTriple(i, FirstOf(i, j) + 1) \in Slots
                     /\ SlotTriple(i, FirstOf(i, j) + 1) = SlotTriple(i, FirstOf(i, j)) + 1
                     /\ FirstOf(i, j) # CeilLog2(i) /\ FirstOf(i, j) + 1 # CeilLog2(i)
         /\ \A k \in NodesOf(2 * i) : HasPartner(i, k) /\ j < k =>
              /\ FirstOf(i, j) # FirstOf(i, k) /\ FirstOf(i, j) # FirstOf(i, k) + 1
              /\ j # 0 => FirstOf(i, j) + 1 < FirstOf(i, k)
  <1>1. i \in {1, 2, 4, 8, 16, 32} /\ NumDigits \in 2..64 /\ i < NumDigits
    BY InnerLevels, SMTT(30) DEF PowersOfTwo
  <1>2. j \in Nat /\ j % (2 * i) = 0 /\ j + i < NumDigits
    BY <1>1 DEF NodesOf, Digits, HasPartner
  <1>3. /\ CeilLog2(i) \in 0..(NumTriplesStd - 1) /\ StartCorr(i) \in Nat
        /\ StartCorr(2 * i) \in Nat /\ StartCorr(i) <= StartCorr(2 * i)
        /\ StartCorr(2 * i) <= NumDigits - 1 - NumTriplesStd
        /\ NumTriplesStd \in 1..6 /\ NumTriples = 2 * NumDigits - 2 - NumTriplesStd
    BY InnerLevels, TripleCounts
  <1> DEFINE q == j \div (2 * i)
             h == CeilLog2(i)
             m == StartCorr(i)
             l == NumTriplesStd
  <1>4. q \in Nat /\ j = 2 * i * q /\ (j # 0 => q > 0)
    BY <1>1, <1>2, SMTT(60)
  <1>5. j # 0 => m + q <= StartCorr(2 * i)
    BY <1>1, <1>2, <1>4, NodeInLevel DEF InnerLevel
  <1>6. CASE j = 0
    <2>1. FirstOf(i, j) = h /\ SlotTriple(i, h) = h + 2 * m
      BY <1>6 DEF FirstOf, SlotTriple, Start
    <2>2. /\ h \in Slots /\ LevelSlot(i, h) /\ h + 2 * m \in Slots
      BY <1>1, <1>3 DEF Slots, LevelSlot
    <2>3. ASSUME NEW k \in NodesOf(2 * i), HasPartner(i, k), j < k
          PROVE  h # FirstOf(i, k) /\ h # FirstOf(i, k) + 1
      <3>1. k \in Nat /\ k # 0 /\ k \div (2 * i) >= 1 /\ k \div (2 * i) \in Nat
        <4>1. k \in Nat /\ k % (2 * i) = 0 /\ k # 0
          BY <1>1, <1>2, <2>3 DEF NodesOf, Digits
        <4> QED
          BY <1>1, <4>1, SMTT(60)
      <3> DEFINE r == k \div (2 * i)
      <3> HIDE DEF r, h, m, l
      <3>2. FirstOf(i, k) = l + 2 * (m + r - 1) /\ r \in Nat /\ r >= 1
        BY <3>1 DEF FirstOf, l, m, r
      <3>3. h \in Nat /\ h < l /\ l \in Nat /\ m \in Nat
        BY <1>3 DEF h, l, m
      <3> QED
        BY <3>2, <3>3
    <2> QED
      BY <1>6, <2>1, <2>2, <2>3 DEF Start
  <1>7. CASE j # 0
    <2>1. FirstOf(i, j) = l + 2 * (m + q - 1)
      BY <1>7 DEF FirstOf
    <2> DEFINE s == l + 2 * (m + q - 1)
    <2>2. ASSUME NEW k \in NodesOf(2 * i), HasPartner(i, k), j < k
          PROVE  /\ s # FirstOf(i, k) /\ s # FirstOf(i, k) + 1 /\ s + 1 < FirstOf(i, k)
      <3>1. k \in Nat /\ k # 0 /\ k \div (2 * i) > q /\ k \div (2 * i) \in Nat
        <4>1. k \in Nat /\ k % (2 * i) = 0 /\ k # 0
          BY <1>1, <1>2, <2>2 DEF NodesOf, Digits
        <4> QED
          BY <1>1, <1>2, <2>2, <4>1, SMTT(60)
      <3> DEFINE r == k \div (2 * i)
      <3> HIDE DEF r, q, m, l
      <3>2. FirstOf(i, k) = l + 2 * (m + r - 1) /\ r \in Nat /\ r > q /\ q \in Nat
        BY <1>4, <3>1 DEF FirstOf, l, m, r
      <3>3. l \in Nat /\ m \in Nat
        BY <1>3 DEF l, m
      <3> QED
        BY <3>2, <3>3
    <2> HIDE DEF q, h, m, l
    <2>3. /\ h \in Nat /\ h < l /\ l \in Nat /\ m \in Nat /\ q \in Nat /\ q > 0
          /\ m + q <= StartCorr(2 * i) /\ StartCorr(2 * i) \in Nat
          /\ StartCorr(2 * i) <= NumDigits - 1 - l
          /\ NumTriples = 2 * NumDigits - 2 - l /\ NumDigits \in Nat
      BY <1>1, <1>3, <1>4, <1>5, <1>7 DEF h, l, m
    <2>4. /\ s \in 0..(NumTriples - 1) /\ s + 1 \in 0..(NumTriples - 1)
          /\ s # h /\ s + 1 # h
          /\ l + 2 * m <= s /\ s + 1 < l + 2 * StartCorr(2 * i)
          /\ h + 1 + (s - l) \in 0..(NumTriples - 1)
          /\ h + 1 + (s + 1 - l) \in 0..(NumTriples - 1)
          /\ h + 1 + (s + 1 - l) = h + 1 + (s - l) + 1
          /\ s < l + 2 * StartCorr(2 * i) /\ l + 2 * m <= s + 1
      BY <2>3
    <2> HIDE DEF s
    <2>5. /\ LevelSlot(i, s) /\ LevelSlot(i, s + 1)
      BY <2>4 DEF LevelSlot, h, m, l
    <2>6. SlotTriple(i, s) = h + 1 + (s - l) /\ SlotTriple(i, s + 1) = h + 1 + (s + 1 - l)
      <3>1. /\ s # CeilLog2(i) /\ s + 1 # CeilLog2(i)
            /\ s \in Int /\ CeilLog2(i) \in Int /\ NumTriplesStd \in Int
        BY <2>3, <2>4 DEF h, l
      <3> QED
        BY <3>1 DEF SlotTriple, h, l
    <2>7. FirstOf(i, j) = s
      BY <2>1 DEF s
    <2> QED
      BY <1>7, <2>2, <2>4, <2>5, <2>6, <2>7 DEF Slots, h
  <1> QED
    BY <1>6, <1>7

\* The node a party is at, by the closed form.
LEMMA NodeAt ==
  ASSUME IInv, NEW p \in Party, pc[p] \in {"and1", "and2"}
  PROVE  /\ lev[p] \in InnerLevel
         /\ node[p] \in NodesOf(2 * lev[p]) /\ HasPartner(lev[p], node[p])
         /\ FirstSlot(cnt[p], node[p]) = FirstOf(lev[p], node[p])
         /\ cnt[p].comb = SlotTriple(lev[p], FirstOf(lev[p], node[p]))
         /\ NodeSlots(cnt[p], node[p]) =
              IF node[p] = 0 THEN {FirstOf(lev[p], node[p])}
              ELSE {FirstOf(lev[p], node[p]), FirstOf(lev[p], node[p]) + 1}
  <1> DEFINE i == lev[p]
             j == node[p]
             h == CeilLog2(i)
             m == StartCorr(i)
             l == NumTriplesStd
             s == FirstOf(i, j)
  <1>0. TypeOK /\ CountInv(p)
    BY DEF IInv
  <1>1. PICK q \in Nat : j = 2 * i * q /\ Within(i, q, cnt[p])
    BY <1>0 DEF CountInv
  <1>2. i \in InnerLevel /\ j + i < NumDigits /\ LevelStart(i, old[p]) /\ i < NumDigits
    BY <1>0 DEF CountInv, InnerLevel
  <1>3. j \in NodesOf(2 * i) /\ j \div (2 * i) = q /\ HasPartner(i, j) /\ (q = 0 <=> j = 0)
    <2>1. i \in {1, 2, 4, 8, 16, 32, 64} /\ NumDigits \in 1..64
      BY <1>2, InnerLevels DEF PowersOfTwo
    <2>2. j \in Nat /\ j < NumDigits
      BY <1>0, <1>2, <2>1 DEF TypeOK
    <2>3. j % (2 * i) = 0 /\ j \div (2 * i) = q /\ (q = 0 <=> j = 0)
      BY <1>1, <2>1, SMTT(60)
    <2> QED
      BY <1>2, <2>1, <2>2, <2>3 DEF NodesOf, HasPartner, Digits
  <1>4. /\ h \in Nat /\ h < l /\ l \in Nat /\ m \in Nat
    BY <1>2, InnerLevels
  <1>5. CASE q = 0
    <2>1. cnt[p] = [std |-> h, corr |-> m, comb |-> h + 2 * m] /\ s = h
      BY <1>1, <1>3, <1>5 DEF Within, LevelStart, FirstOf
    <2>2. FirstSlot(cnt[p], j) = h /\ cnt[p].comb = h + 2 * m /\ NodeSlots(cnt[p], j) = {h}
      BY <1>3, <1>5, <2>1 DEF FirstSlot, StdSlot, NodeSlots
    <2>3. SlotTriple(i, h) = h + 2 * m
      BY DEF SlotTriple, Start
    <2> QED
      BY <1>2, <1>3, <1>5, <2>1, <2>2, <2>3
  <1>6. CASE q # 0
    <2>1. /\ cnt[p] = [std |-> h + 1, corr |-> m + (q - 1),
                       comb |-> h + 2 * m + 1 + 2 * (q - 1)]
          /\ s = l + 2 * (m + q - 1)
      BY <1>1, <1>3, <1>6 DEF Within, FirstOf
    <2>2. /\ FirstSlot(cnt[p], j) = l + 2 * (m + (q - 1))
          /\ cnt[p].comb = h + 2 * m + 1 + 2 * (q - 1)
          /\ NodeSlots(cnt[p], j) = {l + 2 * (m + (q - 1)), l + 2 * (m + (q - 1)) + 1}
      BY <1>3, <1>6, <2>1 DEF FirstSlot, CorrSlot, NodeSlots
    <2>3. s # h /\ s \in Int
      BY <1>4, <1>6, <2>1
    <2>4. SlotTriple(i, s) = h + 1 + (s - l)
      BY <1>4, <2>3 DEF SlotTriple
    <2> HIDE DEF h, l, m
    <2>5. l + 2 * (m + (q - 1)) = s /\ h + 2 * m + 1 + 2 * (q - 1) = h + 1 + (s - l)
      <3> HIDE DEF s
      <3> QED
        BY <1>4, <1>6, <2>1
    <2> QED
      BY <1>2, <1>3, <1>6, <2>2, <2>4, <2>5
  <1> QED
    BY <1>5, <1>6

\* Where the peer of a party that is in the second pass can be.
LEMMA Behind ==
  ASSUME IInv, FlowInv, NEW p \in Party, pc[p] = "and2", lev[Peer(p)] = lev[p]
  PROVE  pc[Peer(p)] \in {"exchange", "and2"}
  <1> DEFINE q == Peer(p)
  <1>1. q \in Party /\ TypeOK /\ CountInv(p) /\ CountInv(q) /\ MovedInv(p) /\ MovedInv(q)
    BY PartyFacts DEF IInv, FlowInv
  <1>2. PICK t \in Threads : p = Receiver(t) /\ q = Sender(t)
    BY ThreadsOf
  <1>3. Sent(q, t) = Sent(p, t) + Len(wire[t]) /\ Len(wire[t]) \in Nat /\ Sent(p, t) \in Nat
    BY <1>2, WireFacts
  <1>4. Sent(p, t) > 2 * Start(lev[p]) /\ Start(lev[p]) \in Nat
    BY <1>1, SentBounds
  <1>5. pc[q] \notin {"exchange", "and2"} => Sent(q, t) = 2 * Start(lev[p])
    BY <1>1, SentBounds
  <1> QED
    BY <1>3, <1>4, <1>5

\* A party whose share of a node is a level behind is in the exchange of that
\* level, or in its second pass before the node.
LEMMA Gap ==
  ASSUME IInv, FlowInv, NEW p \in Party, NEW j \in Digits, NEW i \in Nat \ {0},
         Reached(p, j) = 2 * i, Reached(Peer(p), j) = i
  PROVE  /\ lev[Peer(p)] = i /\ pc[Peer(p)] \in {"exchange", "and2"}
         /\ pc[Peer(p)] = "and2" => j >= node[Peer(p)]
         /\ \/ lev[p] = 2 * i /\ pc[p] # "and2"
            \/ lev[p] = i /\ pc[p] = "and2" /\ j < node[p]
  <1> DEFINE q == Peer(p)
  <1>1. q \in Party /\ Peer(q) = p /\ lev[p] \in Nat /\ lev[q] \in Nat
        /\ j \in Nat /\ node[p] \in Nat /\ node[q] \in Nat
    BY PeerFacts, NumDigitsRange DEF IInv, TypeOK, Digits
  <1>2. lev[p] > lev[q] => /\ lev[p] = 2 * lev[q] /\ pc[q] \in {"exchange", "and2"}
                           /\ pc[p] # "and2"
    BY Ahead
  <1>3. \/ lev[p] = 2 * i /\ ~(pc[p] = "and2" /\ j < node[p])
        \/ lev[p] = i /\ pc[p] = "and2" /\ j < node[p]
    BY <1>1 DEF Reached
  <1>4. \/ lev[q] = i /\ ~(pc[q] = "and2" /\ j < node[q])
        \/ 2 * lev[q] = i /\ pc[q] = "and2" /\ j < node[q]
    BY DEF Reached
  <1> HIDE DEF q
  <1>5. lev[q] = i /\ ~(pc[q] = "and2" /\ j < node[q])
    BY <1>1, <1>2, <1>3, <1>4
  <1>6. pc[q] \in {"exchange", "and2"}
    <2>1. CASE lev[p] = 2 * i
      BY <1>1, <1>2, <1>5, <2>1
    <2>2. CASE lev[p] = i /\ pc[p] = "and2"
      BY <1>5, <2>2, Behind DEF q
    <2> QED
      BY <1>3, <2>1, <2>2
  <1>7. lev[p] = 2 * i => pc[p] # "and2"
    BY <1>1, <1>2, <1>5
  <1> QED
    BY <1>1, <1>3, <1>5, <1>6, <1>7 DEF q

------------------------------------------------------------------------------
(* The merge of a node by the two parties.                                  *)

\* The slot's triple, and what the two parties masked in it, make their next
\* shares xor to the product of the operands they share.
LEMMA SlotProduct ==
  ASSUME TypeOK, NEW i, i = lev[ALICE], i = lev[BOB],
         NEW s \in Slots, SlotTriple(i, s) \in Slots,
         NEW x0 \in Bit, NEW x1 \in Bit, NEW y0 \in Bit, NEW y1 \in Bit,
         MaskedBy(ALICE, s, x0, y0), MaskedBy(BOB, s, x1, y1)
  PROVE  Xor(NextShare(ALICE, i, s), NextShare(BOB, i, s))
           = And(Xor(x0, x1), Xor(y0, y1))
  <1> DEFINE k == SlotTriple(i, s)
  <1>1. PICK a0 \in Bit, a1 \in Bit, b0 \in Bit, b1 \in Bit, c \in Bit :
          /\ a0 = tape.a[ALICE][k] /\ a1 = tape.a[BOB][k]
          /\ b0 = tape.b[ALICE][k] /\ b1 = tape.b[BOB][k] /\ c = tape.c[k]
    <2>1. /\ tape.a[ALICE][k] \in Bit /\ tape.a[BOB][k] \in Bit
          /\ tape.b[ALICE][k] \in Bit /\ tape.b[BOB][k] \in Bit
          /\ tape.c[k] \in Bit
      BY PartyFacts DEF TypeOK, TapeType
    <2> QED
      BY <2>1
  <1>2. PICK e, f : /\ e = Xor(own[ALICE].e[s], own[BOB].e[s])
                    /\ f = Xor(own[ALICE].f[s], own[BOB].f[s])
    OBVIOUS
  <1>3. e = Xor(Xor(a0, x0), Xor(a1, x1)) /\ f = Xor(Xor(b0, y0), Xor(b1, y1))
    BY <1>1, <1>2 DEF MaskedBy
  <1>4. NextShare(ALICE, i, s) = Xor(Xor(Xor(And(e, f), And(f, a0)), And(e, b0)), c)
    BY <1>1, <1>2 DEF NextShare, TripleC
  <1>5. NextShare(BOB, i, s) = Xor(Xor(Xor(0, And(f, a1)), And(e, b1)),
                                   Xor(c, And(Xor(a0, a1), Xor(b0, b1))))
    BY <1>1, <1>2 DEF NextShare, TripleC, ALICE, BOB
  <1> QED
    BY <1>3, <1>4, <1>5 DEF Xor, And, Bit

LEMMA XorSwap == \A a, b : Xor(a, b) = Xor(b, a)
  BY DEF Xor

LEMMA XorFour ==
  ASSUME NEW a \in Bit, NEW b \in Bit, NEW c \in Bit, NEW d \in Bit
  PROVE  Xor(Xor(a, b), Xor(c, d)) = Xor(Xor(a, c), Xor(b, d))
  BY DEF Xor, Bit

LEMMA ShareBits ==
  ASSUME TypeOK, NEW p \in Party, NEW j \in Digits
  PROVE  cmp[p][j] \in Bit /\ eq[p][j] \in Bit
  BY DEF TypeOK

LEMMA NextBit == \A p, i, s : NextShare(p, i, s) \in Bit
  BY BitFacts DEF NextShare

\* Both parties' shares of a node's two halves agree: so will those of the
\* node in the next level.
LEMMA MergeAgree ==
  ASSUME TypeOK, LevelInv, \A p \in Party : pc[p] # "leaf" /\ MaskInv(p),
         NEW i \in InnerLevel, NEW j \in NodesOf(2 * i),
         \A p \in Party : /\ Reached(p, j) = i
                          /\ HasPartner(i, j) => lev[p] = i /\ Pending(p, j)
  PROVE  /\ Xor(NextCmp(ALICE, i, j), NextCmp(BOB, i, j)) = Greater(2 * i, j)
         /\ j > 0 => Xor(NextEq(ALICE, i, j), NextEq(BOB, i, j)) = Equal(2 * i, j)
  <1>1. i \in PowersOfTwo /\ ALICE \in Party /\ BOB \in Party /\ j \in NodesOf(i) /\ j \in Digits
    BY InnerLevels, PartyFacts, NodeArith
  <1>2. /\ Xor(cmp[ALICE][j], cmp[BOB][j]) = Greater(i, j)
        /\ j > 0 => Xor(eq[ALICE][j], eq[BOB][j]) = Equal(i, j)
    BY <1>1 DEF LevelInv
  <1>3. CASE ~HasPartner(i, j)
    <2>1. Greater(2 * i, j) = Greater(i, j) /\ Equal(2 * i, j) = Equal(i, j)
      BY <1>3, NodeArith DEF Greater, Equal
    <2> QED
      BY <1>2, <1>3, <2>1 DEF NextCmp, NextEq
  <1>4. CASE HasPartner(i, j)
    <2> DEFINE k == j + i
               s == FirstOf(i, j)
    <2>1. /\ k \in NodesOf(i) /\ k \in Digits /\ j < k /\ k > 0 /\ j \in Nat
          /\ RangeEnd(i, j) = k /\ RangeEnd(2 * i, j) = RangeEnd(i, k)
          /\ RangeEnd(2 * i, j) \in Nat /\ k < RangeEnd(2 * i, j)
          /\ RangeEnd(2 * i, j) <= NumDigits /\ i \in Nat
      BY <1>4, NodeArith DEF NodesOf
    <2>2. \A p \in Party : Reached(p, k) = i
      <3>1. ASSUME NEW p \in Party
            PROVE  Reached(p, k) = i
        <4>1. lev[p] = i /\ (pc[p] = "and2" => j >= node[p]) /\ node[p] \in Nat
          BY <1>4 DEF Pending, TypeOK
        <4> QED
          BY <2>1, <4>1 DEF Reached
      <3> QED
        BY <3>1
    <2>3. /\ Xor(cmp[ALICE][k], cmp[BOB][k]) = Greater(i, k)
          /\ Xor(eq[ALICE][k], eq[BOB][k]) = Equal(i, k)
      BY <1>1, <2>1, <2>2 DEF LevelInv
    <2>4. /\ Equal(2 * i, j) = And(Equal(i, j), Equal(i, k))
          /\ Greater(2 * i, j) = Xor(And(Greater(i, j), Equal(i, k)), Greater(i, k))
      <3>1. PICK hi : hi = RangeEnd(2 * i, j)
        OBVIOUS
      <3>2. hi \in Nat /\ k < hi /\ hi <= NumDigits /\ hi = RangeEnd(i, k)
        BY <2>1, <3>1
      <3> HIDE DEF k
      <3>3. /\ BitOf(RangeEqual(j, hi)) = And(BitOf(RangeEqual(j, k)), BitOf(RangeEqual(k, hi)))
            /\ BitOf(RangeBeats(j, hi)) = Xor(And(BitOf(RangeBeats(j, k)), BitOf(RangeEqual(k, hi))),
                                              BitOf(RangeBeats(k, hi)))
        BY <1>1, <2>1, <3>2, RangeSplit
      <3> QED
        BY <2>1, <3>1, <3>2, <3>3 DEF Greater, Equal
    <2>5. /\ s \in Slots /\ SlotTriple(i, s) \in Slots
          /\ j # 0 => s + 1 \in Slots /\ SlotTriple(i, s + 1) \in Slots
      BY <1>4, NodeSlotsOf
    <2>6. \A p \in Party : /\ MaskedBy(p, s, cmp[p][j], eq[p][k])
                           /\ j > 0 => MaskedBy(p, s + 1, eq[p][j], eq[p][k])
      BY <1>1, <1>4 DEF MaskInv
    <2>7. \A p \in Party : /\ cmp[p][j] \in Bit /\ eq[p][j] \in Bit
                           /\ cmp[p][k] \in Bit /\ eq[p][k] \in Bit
      BY <1>1, <2>1, ShareBits
    <2>8. lev[ALICE] = i /\ lev[BOB] = i
      BY <1>1, <1>4
    <2> HIDE DEF k, s
    <2>9. Xor(NextShare(ALICE, i, s), NextShare(BOB, i, s))
            = And(Greater(i, j), Equal(i, k))
      BY <1>1, <1>2, <2>3, <2>5, <2>6, <2>7, <2>8, SlotProduct
    <2>10. j > 0 => Xor(NextShare(ALICE, i, s + 1), NextShare(BOB, i, s + 1))
                      = And(Equal(i, j), Equal(i, k))
      BY <1>1, <1>2, <2>1, <2>3, <2>5, <2>6, <2>7, <2>8, SlotProduct
    <2>11. \A p : /\ NextCmp(p, i, j) = Xor(NextShare(p, i, s), cmp[p][k])
                  /\ NextEq(p, i, j) = NextShare(p, i, s + 1)
      BY <1>4 DEF NextCmp, NextEq, k, s
    <2>12. Xor(NextCmp(ALICE, i, j), NextCmp(BOB, i, j))
             = Xor(And(Greater(i, j), Equal(i, k)), Greater(i, k))
      BY <1>1, <2>3, <2>7, <2>9, <2>11, NextBit, XorFour
    <2> QED
      BY <2>4, <2>10, <2>11, <2>12
  <1> QED
    BY <1>3, <1>4

------------------------------------------------------------------------------
(* What a step leaves alone.                                                *)

LEMMA InputFrame ==
  ASSUME [Next]_vars
  PROVE  /\ tape' = tape
         /\ \A i, j : Greater(i, j)' = Greater(i, j) /\ Equal(i, j)' = Equal(i, j)
  <1>1. data' = data /\ greater' = greater /\ tape' = tape
    <2>1. CASE LeafAlice \/ LeafBob
      BY <2>1, SMTT(30) DEF LeafAlice, LeafBob, inputVars
    <2>2. CASE \E p \in Party : Local(p)
      BY <2>2 DEF Local, Generate, AndStep1, Join, AndStep2, inputVars
    <2>3. CASE \E p \in Party, t \in Threads : Thread(p, t)
      BY <2>3 DEF Thread, SendUnit, RecvUnit, inputVars
    <2>4. CASE UNCHANGED vars
      BY <2>4 DEF vars, inputVars
    <2> QED
      BY <2>1, <2>2, <2>3, <2>4 DEF Next
  <1> QED
    BY <1>1 DEF Greater, Equal, RangeBeats, RangeEqual, Beats, Digit, RangeEnd

\* The slots that a node's next shares are read from.
NodeReads(i, j) ==
  IF j = 0 THEN {FirstOf(i, j)} ELSE {FirstOf(i, j), FirstOf(i, j) + 1}

LEMMA NextFrame ==
  ASSUME tape' = tape, NEW p \in Party, NEW i \in InnerLevel, NEW j \in NodesOf(2 * i),
         cmp'[p][j] = cmp[p][j], eq'[p][j] = eq[p][j],
         HasPartner(i, j) =>
           /\ cmp'[p][j + i] = cmp[p][j + i]
           /\ \A r \in Party, h \in {"e", "f"}, s \in NodeReads(i, j) :
                own'[r][h][s] = own[r][h][s]
  PROVE  /\ NextCmp(p, i, j)' = NextCmp(p, i, j)
         /\ j > 0 => NextEq(p, i, j)' = NextEq(p, i, j)
  <1>1. CASE ~HasPartner(i, j)
    BY <1>1 DEF NextCmp, NextEq, HasPartner
  <1>2. CASE HasPartner(i, j)
    <2>1. ASSUME NEW s \in NodeReads(i, j)
          PROVE  NextShare(p, i, s)' = NextShare(p, i, s)
      <3>1. /\ own'[ALICE].e[s] = own[ALICE].e[s] /\ own'[ALICE].f[s] = own[ALICE].f[s]
            /\ own'[BOB].e[s] = own[BOB].e[s] /\ own'[BOB].f[s] = own[BOB].f[s]
        BY <1>2, PartyFacts
      <3> QED
        BY <3>1 DEF NextShare, TripleC, SlotTriple, Start, StartCorr
    <2>2. FirstOf(i, j) \in NodeReads(i, j) /\ FirstOf(i, j)' = FirstOf(i, j)
          /\ (j > 0 => FirstOf(i, j) + 1 \in NodeReads(i, j))
      BY NodeArith DEF NodeReads, FirstOf, StartCorr
    <2>3. NextCmp(p, i, j)' = NextCmp(p, i, j)
      BY <1>2, <2>1, <2>2 DEF NextCmp, HasPartner
    <2>4. j > 0 => NextEq(p, i, j)' = NextEq(p, i, j)
      BY <1>2, <2>1, <2>2 DEF NextEq, HasPartner
    <2> QED
      BY <2>3, <2>4
  <1> QED
    BY <1>1, <1>2

\* A step that changes neither shares nor masks, and no party's place but
\* within a level, keeps the invariant.
LEMMA FrameShares ==
  ASSUME [Next]_vars, SharesInv,
         cmp' = cmp, eq' = eq, own' = own, lev' = lev,
         \A p \in Party, j \in Digits : Reached(p, j)' = Reached(p, j),
         \A p \in Party, j \in Digits : Pending(p, j)' => Pending(p, j),
         \A p \in Party : pc'[p] = "leaf" <=> pc[p] = "leaf",
         pc[BOB] = "leaf" => pc'[ALICE] = pc[ALICE]
  PROVE  SharesInv'
  <1>1. /\ tape' = tape
        /\ \A i, j : Greater(i, j)' = Greater(i, j) /\ Equal(i, j)' = Equal(i, j)
    BY InputFrame
  <1>2. LeafInv'
    BY <1>1, PartyFacts DEF SharesInv, LeafInv
  <1> SUFFICES ASSUME ~IsShort
               PROVE  /\ LevelInv'
                      /\ (\A p \in Party : MaskInv(p))'
                      /\ (\A p, q \in Party : p # q => AheadInv(p, q))'
    BY <1>2 DEF SharesInv, IsShort
  <1>3. LevelInv'
    <2>1. LevelInv
      BY DEF SharesInv
    <2>2. \A i \in PowersOfTwo : \A j \in NodesOf(i) : j \in Digits
      BY DEF NodesOf
    <2> QED
      BY <1>1, <2>1, <2>2, PartyFacts DEF LevelInv
  <1>4. ASSUME NEW p \in Party
        PROVE  MaskInv(p)'
    <2>1. MaskInv(p)
      BY DEF SharesInv
    <2>2. ASSUME NEW j \in Digits, Pending(p, j)'
          PROVE  (LET i == lev[p]
                      s == FirstOf(i, j)
                  IN  /\ MaskedBy(p, s, cmp[p][j], eq[p][j + i])
                      /\ j > 0 => MaskedBy(p, s + 1, eq[p][j], eq[p][j + i]))'
      BY <1>1, <2>1, <2>2 DEF MaskInv, MaskedBy
    <2> QED
      BY <2>2 DEF MaskInv, MaskedBy
  <1>5. ASSUME NEW p \in Party, NEW q \in Party, p # q
        PROVE  AheadInv(p, q)'
    <2>1. AheadInv(p, q)
      BY <1>5 DEF SharesInv
    <2>2. ASSUME NEW i \in InnerLevel, NEW j \in NodesOf(2 * i),
                 Reached(p, j)' = 2 * i, Reached(q, j)' = i
          PROVE  /\ Xor(cmp'[p][j], NextCmp(q, i, j)') = Greater(2 * i, j)'
                 /\ j > 0 => Xor(eq'[p][j], NextEq(q, i, j)') = Equal(2 * i, j)'
      <3>1. j \in Digits
        BY NodeArith
      <3>2. /\ Xor(cmp[p][j], NextCmp(q, i, j)) = Greater(2 * i, j)
            /\ j > 0 => Xor(eq[p][j], NextEq(q, i, j)) = Equal(2 * i, j)
        BY <2>1, <2>2, <3>1 DEF AheadInv
      <3>3. /\ NextCmp(q, i, j)' = NextCmp(q, i, j)
            /\ j > 0 => NextEq(q, i, j)' = NextEq(q, i, j)
        BY <1>1, NextFrame
      <3> QED
        BY <1>1, <3>2, <3>3
    <2> QED
      BY <2>2 DEF AheadInv
  <1> QED
    BY <1>3, <1>4, <1>5

------------------------------------------------------------------------------
(* The leaves.                                                              *)

LEMMA ShareLeafAlice ==
  ASSUME IInv, IInv', SharesInv, LeafAlice
  PROVE  SharesInv'
  <1>1. /\ pc[BOB] = "leaf" /\ pc'[BOB] = "leaf" /\ ALICE # BOB
        /\ pc'[ALICE] = IF IsShort THEN "done" ELSE "triples"
        /\ cmp'[ALICE] = tape.maskCmp /\ eq'[ALICE] = tape.maskEq /\ tape' = tape
    BY DEF LeafAlice, SharesInv, LeafInv, IInv, TypeOK, inputVars, Party, ALICE, BOB
  <1>2. LeafInv'
    BY <1>1 DEF LeafInv, IsShort
  <1> SUFFICES ASSUME ~IsShort
               PROVE  /\ LevelInv'
                      /\ (\A p \in Party : MaskInv(p))'
                      /\ (\A p, q \in Party : p # q => AheadInv(p, q))'
    BY <1>2 DEF SharesInv, IsShort
  <1>3. LevelInv'
    BY <1>1, PartyFacts DEF LevelInv
  <1>4. \A p \in Party : (\A j : Reached(p, j) = 1 /\ ~Pending(p, j))'
    <2>1. \A p \in Party : pc'[p] \in {"leaf", "triples"}
      BY <1>1 DEF Party
    <2> QED
      BY <2>1 DEF IInv, CountInv, Reached, Pending
  <1>5. \A p \in Party : MaskInv(p)'
    BY <1>4 DEF MaskInv
  <1>6. \A p, q \in Party : AheadInv(p, q)'
    <2>1. \A i \in InnerLevel : 2 * i # 1
      BY DEF InnerLevel, PowersOfTwo
    <2> QED
      BY <1>4, <2>1 DEF AheadInv
  <1> QED
    BY <1>3, <1>5, <1>6

\* The message that Bob obtains is the comparison and the equality of the
\* digit, each under Alice's mask.
LEMMA LeafShares ==
  ASSUME TypeOK, NEW j \in Digits
  PROVE  LET got == LeafMessage(j, Digit(data[BOB], j))
         IN  /\ Xor(tape.maskCmp[j], CmpBit(j, got)) = Greater(1, j)
             /\ j > 0 => Xor(tape.maskEq[j], EqBit(j, got)) = Equal(1, j)
  <1> DEFINE d == Digit(data[ALICE], j)
             k == Digit(data[BOB], j)
  <1>1. RangeEnd(1, j) = j + 1 /\ j \in Int /\ j >= 0
    BY NumDigitsRange DEF RangeEnd, Digits
  <1>2. Greater(1, j) = BitOf(Beats(d, k)) /\ Equal(1, j) = BitOf(d = k)
    <2>1. /\ RangeBeats(j, j + 1) <=> Beats(d, k)
          /\ RangeEqual(j, j + 1) <=> d = k
      BY OneDigit
    <2> HIDE DEF d, k
    <2> QED
      BY <1>1, <2>1 DEF Greater, Equal, BitOf
  <1>3. PICK g \in Bit, h \in Bit, m \in Bit, n \in Bit :
          /\ g = BitOf(Beats(d, k)) /\ h = BitOf(d = k)
          /\ m = tape.maskCmp[j] /\ n = tape.maskEq[j]
    <2>1. tape.maskCmp[j] \in Bit /\ tape.maskEq[j] \in Bit
      BY DEF TypeOK, TapeType
    <2> HIDE DEF d, k
    <2> QED
      BY <2>1, BitFacts
  <1>4. LeafMessage(j, k) = IF j = 0 THEN Xor(g, m) ELSE 2 * Xor(g, m) + Xor(h, n)
    BY <1>3 DEF LeafMessage
  <1> HIDE DEF d, k
  <1>5. Xor(m, Xor(g, m)) = g /\ Xor(n, Xor(h, n)) = h /\ Xor(g, m) \in Bit /\ Xor(h, n) \in Bit
    BY DEF Xor, Bit
  <1>6. PICK x \in Bit, y \in Bit : x = Xor(g, m) /\ y = Xor(h, n)
    BY <1>5
  <1>7. (2 * x + y) \div 2 = x /\ (2 * x + y) % 2 = y
    BY DEF Bit
  <1>8. /\ CmpBit(j, LeafMessage(j, k)) = x
        /\ j > 0 => EqBit(j, LeafMessage(j, k)) = y
    BY <1>1, <1>4, <1>6, <1>7 DEF CmpBit, EqBit
  <1> QED
    BY <1>2, <1>3, <1>5, <1>6, <1>8 DEF d, k

LEMMA ShareLeafBob ==
  ASSUME IInv, IInv', SharesInv, LeafBob
  PROVE  SharesInv'
  <1>1. /\ pc[BOB] = "leaf" /\ pc[ALICE] = (IF IsShort THEN "done" ELSE "triples")
        /\ cmp[ALICE] = tape.maskCmp /\ eq[ALICE] = tape.maskEq
    BY DEF LeafBob, SharesInv, LeafInv
  <1>2. /\ pc'[ALICE] = pc[ALICE] /\ pc'[ALICE] # "leaf"
        /\ pc'[BOB] = IF IsShort THEN "done" ELSE "triples"
    <2>1. pc' = [pc EXCEPT ![BOB] = IF IsShort THEN "done" ELSE "triples"]
      BY DEF LeafBob
    <2>2. DOMAIN pc = Party /\ ALICE # BOB
      BY DEF IInv, TypeOK, ALICE, BOB
    <2>3. pc'[ALICE] = pc[ALICE] /\ pc'[BOB] = IF IsShort THEN "done" ELSE "triples"
      BY <2>1, <2>2, PartyFacts
    <2> QED
      BY <1>1, <2>3
  <1>3. LeafInv'
    BY <1>2 DEF LeafInv
  <1> SUFFICES ASSUME ~IsShort
               PROVE  /\ LevelInv'
                      /\ (\A p \in Party : MaskInv(p))'
                      /\ (\A p, q \in Party : p # q => AheadInv(p, q))'
    BY <1>3 DEF SharesInv, IsShort
  <1>4. \A p \in Party : (\A j : Reached(p, j) = 1 /\ ~Pending(p, j))'
    <2>1. \A p \in Party : pc'[p] \in {"leaf", "triples"}
      BY <1>1, <1>2 DEF Party
    <2> QED
      BY <2>1 DEF IInv, CountInv, Reached, Pending
  <1>5. LevelInv'
    <2>1. \A j \in Digits :
            /\ Xor(cmp'[ALICE][j], cmp'[BOB][j]) = Greater(1, j)
            /\ j > 0 => Xor(eq'[ALICE][j], eq'[BOB][j]) = Equal(1, j)
      <3> SUFFICES ASSUME NEW j \in Digits
                   PROVE  /\ Xor(cmp'[ALICE][j], cmp'[BOB][j]) = Greater(1, j)
                          /\ j > 0 => Xor(eq'[ALICE][j], eq'[BOB][j]) = Equal(1, j)
        OBVIOUS
      <3>1. /\ cmp'[ALICE] = cmp[ALICE] /\ eq'[ALICE] = eq[ALICE]
            /\ cmp'[BOB][j] = CmpBit(j, LeafMessage(j, Digit(data[BOB], j)))
            /\ eq'[BOB][j] = EqBit(j, LeafMessage(j, Digit(data[BOB], j)))
        BY DEF LeafBob, IInv, TypeOK, Party, ALICE, BOB
      <3>2. /\ Xor(tape.maskCmp[j], CmpBit(j, LeafMessage(j, Digit(data[BOB], j)))) = Greater(1, j)
            /\ j > 0 => Xor(tape.maskEq[j], EqBit(j, LeafMessage(j, Digit(data[BOB], j)))) = Equal(1, j)
        BY LeafShares DEF IInv
      <3> QED
        BY <1>1, <3>1, <3>2
    <2>2. \A i, j : Greater(i, j)' = Greater(i, j) /\ Equal(i, j)' = Equal(i, j)
      BY InputFrame DEF Next
    <2>3. \A i \in PowersOfTwo : \A j \in NodesOf(i) : j \in Digits
      BY DEF NodesOf
    <2> QED
      BY <1>4, <2>1, <2>2, <2>3, PartyFacts DEF LevelInv
  <1>6. \A p \in Party : MaskInv(p)'
    BY <1>4 DEF MaskInv
  <1>7. \A p, q \in Party : AheadInv(p, q)'
    <2>1. \A i \in InnerLevel : 2 * i # 1
      BY DEF InnerLevel, PowersOfTwo
    <2> QED
      BY <1>4, <2>1 DEF AheadInv
  <1> QED
    BY <1>5, <1>6, <1>7

------------------------------------------------------------------------------
(* The first pass.                                                          *)

\* What it writes.
LEMMA MaskStep ==
  ASSUME IInv, NEW p \in Party, AndStep1(p)
  PROVE  LET i == lev[p]
             j == node[p]
             s == FirstOf(i, j)
         IN  /\ pc[p] = "and1" /\ cmp' = cmp /\ eq' = eq /\ tape' = tape
             /\ \/ pc'[p] = "and1" /\ node'[p] = j + 2 * i
                \/ pc'[p] = "exchange" /\ ~HasPartner(i, j + 2 * i)
             /\ own'[p].e[s] = Xor(tape.a[p][SlotTriple(i, s)], cmp[p][j])
             /\ own'[p].f[s] = Xor(tape.b[p][SlotTriple(i, s)], eq[p][j + i])
             /\ j > 0 =>
                  /\ own'[p].e[s + 1] = Xor(tape.a[p][SlotTriple(i, s + 1)], eq[p][j])
                  /\ own'[p].f[s + 1] = Xor(tape.b[p][SlotTriple(i, s + 1)], eq[p][j + i])
             /\ \A h \in {"e", "f"}, t \in Slots :
                  t # s /\ (j > 0 => t # s + 1) => own'[p][h][t] = own[p][h][t]
  <1> DEFINE i == lev[p]
             j == node[p]
             s == FirstOf(i, j)
             k == cnt[p].comb
             n == NodeSlots(cnt[p], j)
  <1>1. pc[p] = "and1" /\ TypeOK /\ j \in Nat
    BY DEF AndStep1, IInv, TypeOK
  <1>2. /\ i \in InnerLevel /\ j \in NodesOf(2 * i) /\ HasPartner(i, j)
        /\ FirstSlot(cnt[p], j) = s /\ k = SlotTriple(i, s)
        /\ n = IF j = 0 THEN {s} ELSE {s, s + 1}
    BY <1>1, NodeAt
  <1>3. /\ s \in Slots /\ SlotTriple(i, s) \in Slots
        /\ j # 0 => s + 1 \in Slots /\ SlotTriple(i, s + 1) = SlotTriple(i, s) + 1
    BY <1>2, NodeSlotsOf
  <1>4. \A t \in Slots :
          /\ own'[p].e[t] = IF t \in n
               THEN Xor(tape.a[p][k + (t - s)], IF t = s THEN cmp[p][j] ELSE eq[p][j])
               ELSE own[p].e[t]
          /\ own'[p].f[t] = IF t \in n
               THEN Xor(tape.b[p][k + (t - s)], eq[p][j + i])
               ELSE own[p].f[t]
    <2>1. /\ own \in [Party -> [{"e", "f"} -> [Slots -> Bit]]]
          /\ own' = [own EXCEPT
               ![p].e = [t \in Slots |-> IF t \in n
                 THEN Xor(tape.a[p][k + (t - s)], IF t = s THEN cmp[p][j] ELSE eq[p][j])
                 ELSE @[t]],
               ![p].f = [t \in Slots |-> IF t \in n
                 THEN Xor(tape.b[p][k + (t - s)], eq[p][j + i]) ELSE @[t]]]
      BY <1>1, <1>2 DEF AndStep1, TypeOK
    <2> HIDE DEF i, j, s, k, n
    <2> QED
      BY <2>1
  <1>5. k + (s - s) = k /\ (j # 0 => k + (s + 1 - s) = SlotTriple(i, s + 1) /\ s + 1 # s)
    BY <1>2, <1>3 DEF Slots
  <1>6. /\ cmp' = cmp /\ eq' = eq /\ tape' = tape
        /\ \/ pc'[p] = "and1" /\ node'[p] = j + 2 * i
           \/ pc'[p] = "exchange" /\ ~HasPartner(i, j + 2 * i)
    BY <1>1 DEF AndStep1, TypeOK, NextNode, inputVars
  <1> HIDE DEF i, j, s, k, n
  <1>7. /\ own'[p].e[s] = Xor(tape.a[p][SlotTriple(i, s)], cmp[p][j])
        /\ own'[p].f[s] = Xor(tape.b[p][SlotTriple(i, s)], eq[p][j + i])
    BY <1>2, <1>3, <1>4, <1>5
  <1>8. j > 0 => /\ own'[p].e[s + 1] = Xor(tape.a[p][SlotTriple(i, s + 1)], eq[p][j])
                 /\ own'[p].f[s + 1] = Xor(tape.b[p][SlotTriple(i, s + 1)], eq[p][j + i])
    <2>1. j # 0 => /\ s + 1 \in Slots /\ s + 1 \in n /\ s + 1 # s
                   /\ k + (s + 1 - s) = SlotTriple(i, s + 1)
      BY <1>2, <1>3, <1>5
    <2>2. j > 0 => j # 0
      BY <1>1
    <2>3. ASSUME j > 0, NEW t \in Slots, t = s + 1
          PROVE  /\ own'[p].e[t] = Xor(tape.a[p][SlotTriple(i, t)], eq[p][j])
                 /\ own'[p].f[t] = Xor(tape.b[p][SlotTriple(i, t)], eq[p][j + i])
      <3>1. t \in n /\ t # s /\ k + (t - s) = SlotTriple(i, t)
        <4>1. s \in Int /\ t - s = 1
          BY <1>3, <2>3 DEF Slots
        <4>2. k + 1 = SlotTriple(i, t)
          BY <1>2, <1>3, <2>2, <2>3
        <4> QED
          BY <2>1, <2>2, <2>3, <4>1, <4>2
      <3> QED
        BY <1>4, <3>1
    <2> QED
      BY <2>1, <2>2, <2>3
  <1>9. \A h \in {"e", "f"}, t \in Slots :
          t # s /\ (j > 0 => t # s + 1) => own'[p][h][t] = own[p][h][t]
    BY <1>1, <1>2, <1>4
  <1> QED
    BY <1>1, <1>6, <1>7, <1>8, <1>9 DEF i, j, s

LEMMA MaskShares ==
  ASSUME IInv, FlowInv, SharesInv, ~IsShort, NEW p \in Party, AndStep1(p)
  PROVE  MaskInv(p)'
  <1> DEFINE i == lev[p]
             n == node[p]
  <1>1. /\ pc[p] = "and1" /\ cmp' = cmp /\ eq' = eq /\ tape' = tape
        /\ \/ pc'[p] = "and1" /\ node'[p] = n + 2 * i
           \/ pc'[p] = "exchange" /\ ~HasPartner(i, n + 2 * i)
        /\ lev' = lev /\ MaskInv(p)
    BY MaskStep, MaskFrame DEF SharesInv
  <1>2. i \in InnerLevel /\ n \in NodesOf(2 * i) /\ HasPartner(i, n)
    BY <1>1, NodeAt
  <1>3. ASSUME NEW j \in Digits, Pending(p, j)'
        PROVE  /\ j \in NodesOf(2 * i) /\ HasPartner(i, j) /\ j <= n
               /\ j < n => Pending(p, j)
    <2>1. /\ j \in NodesOf(2 * i) /\ HasPartner(i, j)
          /\ pc'[p] = "and1" => j < node'[p]
      BY <1>1, <1>3 DEF Pending
    <2>2. j \in Nat /\ n \in Nat /\ i \in Nat \ {0} /\ NumDigits \in Nat
      BY <1>2, <2>1, NodeArith, NumDigitsRange
    <2>3. n < j => n + 2 * i <= j
      BY <1>2, <2>1, NodeArith
    <2>4. j <= n
      BY <1>1, <2>1, <2>2, <2>3 DEF HasPartner
    <2> QED
      BY <1>1, <2>1, <2>4 DEF Pending
  <1>4. ASSUME NEW j \in Digits, Pending(p, j)'
        PROVE  LET s == FirstOf(i, j)
               IN  /\ /\ own'[p].e[s] = Xor(tape.a[p][SlotTriple(i, s)], cmp[p][j])
                      /\ own'[p].f[s] = Xor(tape.b[p][SlotTriple(i, s)], eq[p][j + i])
                   /\ j > 0 =>
                      /\ own'[p].e[s + 1] = Xor(tape.a[p][SlotTriple(i, s + 1)], eq[p][j])
                      /\ own'[p].f[s + 1] = Xor(tape.b[p][SlotTriple(i, s + 1)], eq[p][j + i])
    <2> DEFINE s == FirstOf(i, j)
    <2>1. CASE j = n
      BY <2>1, MaskStep
    <2>2. CASE j < n
      <3>1. Pending(p, j) /\ j \in NodesOf(2 * i) /\ HasPartner(i, j)
        BY <1>3, <1>4, <2>2
      <3>2. /\ MaskedBy(p, s, cmp[p][j], eq[p][j + i])
            /\ j > 0 => MaskedBy(p, s + 1, eq[p][j], eq[p][j + i])
        BY <1>1, <3>1 DEF MaskInv
      <3>3. /\ s \in Slots /\ s # FirstOf(i, n) /\ s # FirstOf(i, n) + 1
            /\ j # 0 => s + 1 \in Slots /\ s + 1 < FirstOf(i, n)
            /\ FirstOf(i, n) \in Slots
        BY <1>2, <2>2, <3>1, NodeSlotsOf
      <3>4. j # 0 => s + 1 # FirstOf(i, n) /\ s + 1 # FirstOf(i, n) + 1
        <4> HIDE DEF s, i, n
        <4> QED
          BY <3>3 DEF Slots
      <3>5. \A h \in {"e", "f"}, t \in Slots :
              t # FirstOf(i, n) /\ t # FirstOf(i, n) + 1 => own'[p][h][t] = own[p][h][t]
        BY MaskStep
      <3> HIDE DEF s, i, n
      <3>6. /\ own'[p].e[s] = own[p].e[s] /\ own'[p].f[s] = own[p].f[s]
            /\ j # 0 => own'[p].e[s + 1] = own[p].e[s + 1] /\ own'[p].f[s + 1] = own[p].f[s + 1]
        BY <3>3, <3>4, <3>5
      <3>7. j > 0 => j # 0
        BY DEF Digits
      <3> QED
        BY <3>2, <3>6, <3>7 DEF MaskedBy, s, i
    <2>3. j <= n /\ j \in Int /\ n \in Int
      BY <1>2, <1>3, <1>4, NodeArith DEF Digits
    <2> QED
      BY <2>1, <2>2, <2>3
  <1> QED
    BY <1>1, <1>4 DEF MaskInv, MaskedBy

LEMMA ShareStep1 ==
  ASSUME IInv, FlowInv, SharesInv, NEW p \in Party, AndStep1(p)
  PROVE  SharesInv'
  <1>1. /\ tape' = tape /\ cmp' = cmp /\ eq' = eq /\ lev' = lev
        /\ \A i, j : Greater(i, j)' = Greater(i, j) /\ Equal(i, j)' = Equal(i, j)
        /\ pc[p] = "and1" /\ pc'[p] \in {"and1", "exchange"}
        /\ \A r \in Party : r # p => pc'[r] = pc[r] /\ own'[r] = own[r] /\ node'[r] = node[r]
        /\ p # ALICE => pc'[ALICE] = pc[ALICE]
        /\ p # BOB => pc'[BOB] = pc[BOB]
    <2>1. Next
      BY DEF Next, Local
    <2>2. Local(p) /\ TypeOK
      BY DEF Local, IInv
    <2>3. \A r \in Party : r # p => pc'[r] = pc[r] /\ own'[r] = own[r] /\ node'[r] = node[r]
      BY <2>2, LocalFrame
    <2> QED
      BY <2>1, <2>3, InputFrame, MaskStep, MaskFrame, PartyFacts
  <1>2. LeafInv'
    BY <1>1 DEF SharesInv, LeafInv, Party
  <1> SUFFICES ASSUME ~IsShort
               PROVE  /\ LevelInv'
                      /\ (\A r \in Party : MaskInv(r))'
                      /\ (\A r, q \in Party : r # q => AheadInv(r, q))'
    BY <1>2 DEF SharesInv, IsShort
  <1>3. \A r \in Party, j \in Digits : Reached(r, j)' = Reached(r, j)
    BY <1>1 DEF Reached
  <1>4. LevelInv'
    <2>1. LevelInv
      BY DEF SharesInv
    <2>2. \A i \in PowersOfTwo : \A j \in NodesOf(i) : j \in Digits
      BY DEF NodesOf
    <2>3. \A r \in Party : pc'[r] # "leaf" => pc[r] # "leaf"
      BY <1>1
    <2> QED
      BY <1>1, <1>3, <2>1, <2>2, <2>3, PartyFacts DEF LevelInv
  <1>5. ASSUME NEW r \in Party
        PROVE  MaskInv(r)'
    <2>1. CASE r = p
      BY <2>1, MaskShares
    <2>2. CASE r # p
      <3>1. \A j \in Digits : Pending(r, j)' => Pending(r, j)
        BY <1>1, <2>2 DEF Pending
      <3>2. MaskInv(r)
        BY DEF SharesInv
      <3> QED
        BY <1>1, <2>2, <3>1, <3>2
        DEF MaskInv, MaskedBy
    <2> QED
      BY <2>1, <2>2
  <1>6. ASSUME NEW r \in Party, NEW q \in Party, r # q
        PROVE  AheadInv(r, q)'
    <2>1. AheadInv(r, q) /\ q = Peer(r)
      BY <1>6, PeerFacts DEF SharesInv
    <2>2. ASSUME NEW i \in InnerLevel, NEW j \in NodesOf(2 * i),
                 Reached(r, j)' = 2 * i, Reached(q, j)' = i
          PROVE  /\ Xor(cmp'[r][j], NextCmp(q, i, j)') = Greater(2 * i, j)'
                 /\ j > 0 => Xor(eq'[r][j], NextEq(q, i, j)') = Equal(2 * i, j)'
      <3>1. j \in Digits /\ i \in Nat \ {0}
        BY NodeArith
      <3>2. Reached(r, j) = 2 * i /\ Reached(q, j) = i
        BY <1>3, <2>2, <3>1
      <3>3. /\ Xor(cmp[r][j], NextCmp(q, i, j)) = Greater(2 * i, j)
            /\ j > 0 => Xor(eq[r][j], NextEq(q, i, j)) = Equal(2 * i, j)
        BY <2>1, <3>2 DEF AheadInv
      <3>4. r = p /\ lev[p] = 2 * i
        <4>1. /\ pc[q] \in {"exchange", "and2"}
              /\ lev[r] = 2 * i \/ pc[r] = "and2"
          BY <2>1, <3>1, <3>2, Gap
        <4>2. r = p \/ q = p
          BY <2>1, PeerFacts
        <4> QED
          BY <1>1, <4>1, <4>2
      <3>5. ASSUME HasPartner(i, j), NEW s \in NodeReads(i, j), NEW h \in {"e", "f"}
            PROVE  \A x \in Party : own'[x][h][s] = own[x][h][s]
        <4>1. s \in Slots /\ LevelSlot(i, s)
          BY <3>5, NodeSlotsOf DEF NodeReads
        <4>2. 2 * i \in InnerLevel /\ i < 2 * i
          BY <3>1, <3>4, MaskFrame
        <4>3. ~LevelSlot(2 * i, s)
          BY <4>1, <4>2, LevelsApart
        <4> QED
          BY <1>1, <3>4, <4>1, <4>3, MaskFrame
      <3>6. /\ NextCmp(q, i, j)' = NextCmp(q, i, j)
            /\ j > 0 => NextEq(q, i, j)' = NextEq(q, i, j)
        BY <1>1, <3>5, NextFrame
      <3> QED
        BY <1>1, <3>3, <3>6
    <2> QED
      BY <2>2 DEF AheadInv
  <1> QED
    BY <1>4, <1>5, <1>6

------------------------------------------------------------------------------
(* The second pass.                                                         *)

\* What it writes.
LEMMA MergeStep ==
  ASSUME IInv, ExchangeInv, NEW p \in Party, AndStep2(p)
  PROVE  LET i == lev[p]
             j == node[p]
         IN  /\ pc[p] = "and2" /\ own' = own /\ tape' = tape
             /\ i \in InnerLevel /\ j \in NodesOf(2 * i) /\ HasPartner(i, j)
             /\ cmp'[p][j] = NextCmp(p, i, j)
             /\ j > 0 => eq'[p][j] = NextEq(p, i, j)
             /\ \A k \in Digits : k # j => cmp'[p][k] = cmp[p][k] /\ eq'[p][k] = eq[p][k]
             /\ \A r \in Party : r # p =>
                  /\ cmp'[r] = cmp[r] /\ eq'[r] = eq[r]
                  /\ pc'[r] = pc[r] /\ lev'[r] = lev[r] /\ node'[r] = node[r]
             /\ \/ pc'[p] = "and2" /\ lev'[p] = i /\ node'[p] = j + 2 * i
                \/ /\ pc'[p] \in {"and1", "done"} /\ lev'[p] = 2 * i /\ node'[p] = 0
                   /\ ~HasPartner(i, j + 2 * i)
  <1> DEFINE i == lev[p]
             j == node[p]
             s == FirstOf(i, j)
             k == cnt[p].comb
  <1>1. pc[p] = "and2" /\ TypeOK /\ j \in Nat
    BY DEF AndStep2, IInv, TypeOK
  <1>2. /\ i \in InnerLevel /\ j \in NodesOf(2 * i) /\ HasPartner(i, j)
        /\ FirstSlot(cnt[p], j) = s /\ k = SlotTriple(i, s)
    BY <1>1, NodeAt
  <1>3. j \in Digits
    BY <1>2, NodeArith
  <1>4. /\ s \in Slots /\ LevelSlot(i, s)
        /\ j > 0 => /\ s + 1 \in Slots /\ LevelSlot(i, s + 1)
                    /\ SlotTriple(i, s + 1) = k + 1
    BY <1>1, <1>2, NodeSlotsOf
  <1>5. ASSUME NEW t \in Slots, LevelSlot(i, t)
        PROVE  ProductShare(p, t, SlotTriple(i, t)) = NextShare(p, i, t)
    <2>1. OpenInv(p)
      BY DEF ExchangeInv
    <2>2. /\ opened[p].e[t] = Xor(own[ALICE].e[t], own[BOB].e[t])
          /\ opened[p].f[t] = Xor(own[ALICE].f[t], own[BOB].f[t])
      BY <1>1, <1>5, <2>1 DEF OpenInv
    <2> QED
      BY <2>2 DEF ProductShare, NextShare
  <1>6. /\ cmp'[p][j] = Xor(ProductShare(p, s, k), cmp[p][j + i])
        /\ j > 0 => eq'[p][j] = ProductShare(p, s + 1, k + 1)
    BY <1>1, <1>2, <1>3, SMTT(30) DEF AndStep2, TypeOK, Merged
  <1>7. /\ cmp'[p][j] = NextCmp(p, i, j)
        /\ j > 0 => eq'[p][j] = NextEq(p, i, j)
    <2> HIDE DEF i, j, s, k
    <2> QED
      BY <1>2, <1>4, <1>5, <1>6 DEF NextCmp, NextEq, s
  <1>8. \A n \in Digits : n # j => cmp'[p][n] = cmp[p][n] /\ eq'[p][n] = eq[p][n]
    BY <1>1 DEF AndStep2, TypeOK
  <1>9. /\ own' = own /\ tape' = tape
        /\ \/ pc'[p] = "and2" /\ lev'[p] = i /\ node'[p] = j + 2 * i
           \/ /\ pc'[p] \in {"and1", "done"} /\ lev'[p] = 2 * i /\ node'[p] = 0
              /\ ~HasPartner(i, j + 2 * i)
    BY <1>1 DEF AndStep2, TypeOK, NextNode, inputVars
  <1>10. \A r \in Party : r # p =>
           /\ cmp'[r] = cmp[r] /\ eq'[r] = eq[r]
           /\ pc'[r] = pc[r] /\ lev'[r] = lev[r] /\ node'[r] = node[r]
    BY <1>1, LocalFrame DEF Local
  <1> QED
    BY <1>1, <1>2, <1>7, <1>8, <1>9, <1>10

\* The nodes that it takes to the next level, and how it leaves the others.
LEMMA MergeReached ==
  ASSUME IInv, ExchangeInv, NEW p \in Party, AndStep2(p),
         NEW m \in Nat, NEW k \in NodesOf(m), Reached(p, k)' = m
  PROVE  \/ Reached(p, k) = m /\ cmp'[p][k] = cmp[p][k] /\ eq'[p][k] = eq[p][k]
         \/ /\ m = 2 * lev[p] /\ Reached(p, k) = lev[p]
            /\ cmp'[p][k] = NextCmp(p, lev[p], k)
            /\ k > 0 => eq'[p][k] = NextEq(p, lev[p], k)
            /\ HasPartner(lev[p], k) => k = node[p]
  <1>1. PICK i, j : i = lev[p] /\ j = node[p]
    OBVIOUS
  <1>2. /\ pc[p] = "and2" /\ i \in InnerLevel /\ j \in NodesOf(2 * i)
        /\ cmp'[p][j] = NextCmp(p, i, j)
        /\ j > 0 => eq'[p][j] = NextEq(p, i, j)
        /\ \A n \in Digits : n # j => cmp'[p][n] = cmp[p][n] /\ eq'[p][n] = eq[p][n]
        /\ \/ pc'[p] = "and2" /\ lev'[p] = i /\ node'[p] = j + 2 * i
           \/ /\ pc'[p] \in {"and1", "done"} /\ lev'[p] = 2 * i /\ node'[p] = 0
              /\ ~HasPartner(i, j + 2 * i)
    BY <1>1, MergeStep
  <1>3. /\ i \in Nat \ {0} /\ j \in Nat /\ k \in Nat /\ k \in Digits /\ NumDigits \in Nat
    BY <1>2, NodeArith, NumDigitsRange DEF NodesOf, Digits
  <1>4. Reached(p, k) = IF k < j THEN 2 * i ELSE i
    BY <1>1, <1>2 DEF Reached
  <1>5. \/ m = i /\ j < k
        \/ m = 2 * i /\ k \in NodesOf(2 * i) /\ k < j
        \/ m = 2 * i /\ k \in NodesOf(2 * i) /\ k = j
        \/ m = 2 * i /\ k \in NodesOf(2 * i) /\ j < k /\ ~HasPartner(i, k)
    <2>1. CASE pc'[p] = "and2"
      <3>1. lev'[p] = i /\ node'[p] = j + 2 * i
        BY <1>2, <2>1
      <3>2. m = IF k < j + 2 * i THEN 2 * i ELSE i
        BY <2>1, <3>1 DEF Reached
      <3>3. k \in NodesOf(2 * i) /\ j < k => j + 2 * i <= k
        BY <1>2, NodeArith
      <3> QED
        BY <1>3, <3>2, <3>3
    <2>2. CASE pc'[p] # "and2"
      <3>1. lev'[p] = 2 * i /\ ~HasPartner(i, j + 2 * i)
        BY <1>2, <2>2
      <3>2. m = 2 * i
        BY <2>2, <3>1 DEF Reached
      <3>3. j < k => j + 2 * i <= k
        BY <1>2, <3>2, NodeArith
      <3> QED
        BY <1>3, <3>1, <3>2, <3>3 DEF HasPartner
    <2> QED
      BY <2>1, <2>2
  <1>6. CASE m = i /\ j < k
    BY <1>2, <1>3, <1>4, <1>6
  <1>7. CASE m = 2 * i /\ k < j
    BY <1>2, <1>3, <1>4, <1>7
  <1>8. CASE m = 2 * i /\ k = j
    BY <1>1, <1>2, <1>3, <1>4, <1>8
  <1>9. CASE m = 2 * i /\ j < k /\ ~HasPartner(i, k)
    BY <1>1, <1>2, <1>3, <1>4, <1>9 DEF NextCmp, NextEq
  <1> QED
    BY <1>5, <1>6, <1>7, <1>8, <1>9

LEMMA MergeMasks ==
  ASSUME IInv, ExchangeInv, NEW p \in Party, AndStep2(p), NEW r \in Party, MaskInv(r)
  PROVE  MaskInv(r)'
  <1>1. /\ pc[p] = "and2" /\ own' = own /\ tape' = tape
        /\ lev[p] \in InnerLevel /\ node[p] \in NodesOf(2 * lev[p])
        /\ \A k \in Digits : k # node[p] => cmp'[p][k] = cmp[p][k] /\ eq'[p][k] = eq[p][k]
        /\ r # p => /\ cmp'[r] = cmp[r] /\ eq'[r] = eq[r]
                    /\ pc'[r] = pc[r] /\ lev'[r] = lev[r] /\ node'[r] = node[r]
        /\ \/ pc'[p] = "and2" /\ lev'[p] = lev[p] /\ node'[p] = node[p] + 2 * lev[p]
           \/ pc'[p] \in {"and1", "done"} /\ node'[p] = 0
    BY MergeStep
  <1>2. ASSUME NEW j \in Digits, Pending(r, j)'
        PROVE  /\ Pending(r, j) /\ lev'[r] = lev[r]
               /\ cmp'[r][j] = cmp[r][j] /\ eq'[r][j + lev[r]] = eq[r][j + lev[r]]
               /\ eq'[r][j] = eq[r][j]
    <2>1. CASE r # p
      BY <1>1, <1>2, <2>1 DEF Pending
    <2>2. CASE r = p
      <3>1. pc'[p] = "and2" /\ lev'[p] = lev[p] /\ node'[p] = node[p] + 2 * lev[p]
        BY <1>1, <1>2, <2>2 DEF Pending, Digits
      <3>2. j \in NodesOf(2 * lev[p]) /\ HasPartner(lev[p], j) /\ j >= node'[p]
        BY <1>2, <2>2, <3>1 DEF Pending
      <3>3. /\ j \in Nat /\ node[p] \in Nat /\ lev[p] \in Nat \ {0}
            /\ j + lev[p] \in Digits /\ node[p] # j + lev[p]
        BY <1>1, <3>2, NodeArith DEF NodesOf
      <3>4. j > node[p]
        BY <3>1, <3>2, <3>3
      <3>5. Pending(p, j)
        BY <1>1, <3>2, <3>3, <3>4 DEF Pending
      <3> QED
        BY <1>1, <2>2, <3>1, <3>3, <3>4, <3>5
    <2> QED
      BY <2>1, <2>2
  <1> QED
    BY <1>1, <1>2 DEF MaskInv, MaskedBy

\* While a party merges, the other has reached its level of the tree.
LEMMA MergePeer ==
  ASSUME IInv, FlowInv, SharesInv, NEW p \in Party, pc[p] = "and2"
  PROVE  /\ \A r \in Party : pc[r] # "leaf"
         /\ lev[Peer(p)] = lev[p] \/ lev[Peer(p)] = 2 * lev[p]
         /\ lev[Peer(p)] = 2 * lev[p] => pc[Peer(p)] # "and2"
         /\ lev[p] \in Nat \ {0}
  <1>1. PICK q : q = Peer(p) /\ q \in Party /\ Peer(q) = p
    BY PeerFacts
  <1>2. lev[q] \in Nat \ {0} /\ lev[p] \in Nat \ {0}
    BY <1>1 DEF IInv, TypeOK
  <1>3. lev[p] > lev[q] => pc[p] # "and2"
    BY <1>1, Ahead
  <1>4. lev[q] > lev[p] => lev[q] = 2 * lev[p] /\ pc[q] # "and2"
    BY <1>1, Ahead
  <1>5. \A r \in Party : pc[r] # "leaf"
    BY DEF SharesInv, LeafInv, Party
  <1> QED
    BY <1>1, <1>2, <1>3, <1>4, <1>5

\* The party that merges gets, level by level, what it promised.
LEMMA MergeLevels ==
  ASSUME IInv, FlowInv, ExchangeInv, SharesInv, ~IsShort, NEW p \in Party, AndStep2(p)
  PROVE  LevelInv'
  <1> DEFINE q == Peer(p)
  <1>1. pc[p] = "and2" /\ lev[p] \in InnerLevel
        /\ cmp'[q] = cmp[q] /\ eq'[q] = eq[q]
        /\ pc'[q] = pc[q] /\ lev'[q] = lev[q] /\ node'[q] = node[q]
    BY MergeStep, PeerFacts
  <1>2. LevelInv /\ AheadInv(q, p) /\ q \in Party /\ {p, q} = {ALICE, BOB}
    BY PeerFacts DEF SharesInv
  <1>3. \A i, j : Greater(i, j)' = Greater(i, j) /\ Equal(i, j)' = Equal(i, j)
    BY InputFrame DEF Next, Local
  <1>4. ASSUME NEW i \in PowersOfTwo, NEW j \in NodesOf(i), \A r \in Party : Reached(r, j)' = i
        PROVE  /\ Xor(cmp'[p][j], cmp'[q][j]) = Greater(i, j)
               /\ j > 0 => Xor(eq'[p][j], eq'[q][j]) = Equal(i, j)
    <2>1. Reached(q, j) = i /\ i \in Nat
      BY <1>1, <1>2, <1>4 DEF Reached, PowersOfTwo
    <2>2. CASE Reached(p, j) = i /\ cmp'[p][j] = cmp[p][j] /\ eq'[p][j] = eq[p][j]
      <3>1. \A r \in Party : pc[r] # "leaf"
        BY <1>1, MergePeer
      <3>2. Reached(ALICE, j) = i /\ Reached(BOB, j) = i
        BY <1>2, <2>1, <2>2
      <3>3. /\ Xor(cmp[ALICE][j], cmp[BOB][j]) = Greater(i, j)
            /\ j > 0 => Xor(eq[ALICE][j], eq[BOB][j]) = Equal(i, j)
        BY <1>2, <3>1, <3>2 DEF LevelInv
      <3>4. (p = ALICE /\ q = BOB) \/ (p = BOB /\ q = ALICE)
        BY <1>2
      <3> HIDE DEF q
      <3> QED
        BY <1>1, <2>2, <3>3, <3>4, XorSwap
    <2>3. CASE /\ i = 2 * lev[p] /\ Reached(p, j) = lev[p]
               /\ cmp'[p][j] = NextCmp(p, lev[p], j)
               /\ j > 0 => eq'[p][j] = NextEq(p, lev[p], j)
      <3>1. /\ Xor(cmp[q][j], NextCmp(p, lev[p], j)) = Greater(i, j)
            /\ j > 0 => Xor(eq[q][j], NextEq(p, lev[p], j)) = Equal(i, j)
        BY <1>1, <1>2, <2>1, <2>3 DEF AheadInv
      <3> HIDE DEF q
      <3> QED
        BY <1>1, <2>3, <3>1, XorSwap
    <2> QED
      BY <1>4, <2>1, <2>2, <2>3, MergeReached
  <1>5. ASSUME NEW i \in PowersOfTwo, NEW j \in NodesOf(i), \A r \in Party : Reached(r, j)' = i
        PROVE  /\ Xor(cmp'[ALICE][j], cmp'[BOB][j]) = Greater(i, j)
               /\ j > 0 => Xor(eq'[ALICE][j], eq'[BOB][j]) = Equal(i, j)
    <2>1. (p = ALICE /\ q = BOB) \/ (p = BOB /\ q = ALICE)
      BY <1>2
    <2> HIDE DEF q
    <2> QED
      BY <1>4, <1>5, <2>1, XorSwap
  <1> QED
    BY <1>3, <1>5 DEF LevelInv, Party

\* The party that has merged first.
LEMMA MergeFirst ==
  ASSUME IInv, FlowInv, ExchangeInv, SharesInv, ~IsShort, NEW p \in Party, AndStep2(p)
  PROVE  AheadInv(p, Peer(p))'
  <1> DEFINE q == Peer(p)
  <1>1. pc[p] = "and2" /\ lev[p] \in InnerLevel /\ own' = own /\ tape' = tape
        /\ cmp'[q] = cmp[q] /\ eq'[q] = eq[q]
        /\ pc'[q] = pc[q] /\ lev'[q] = lev[q] /\ node'[q] = node[q]
    BY MergeStep, PeerFacts
  <1>2. /\ LevelInv /\ AheadInv(p, q) /\ q \in Party /\ {p, q} = {ALICE, BOB} /\ q # p
        /\ \A r \in Party : MaskInv(r)
        /\ \A r \in Party : r = p \/ r = q
    BY PeerFacts DEF SharesInv
  <1>3. \A i, j : Greater(i, j)' = Greater(i, j) /\ Equal(i, j)' = Equal(i, j)
    BY InputFrame DEF Next, Local
  <1>4. ASSUME NEW i \in InnerLevel, NEW j \in NodesOf(2 * i),
               Reached(p, j)' = 2 * i, Reached(q, j)' = i
        PROVE  /\ Xor(cmp'[p][j], NextCmp(q, i, j)') = Greater(2 * i, j)'
               /\ j > 0 => Xor(eq'[p][j], NextEq(q, i, j)') = Equal(2 * i, j)'
    <2>1. Reached(q, j) = i /\ i \in Nat \ {0} /\ 2 * i \in Nat /\ j \in Digits /\ j \in Nat
      BY <1>1, <1>4, NodeArith DEF Reached
    <2>2. /\ NextCmp(q, i, j)' = NextCmp(q, i, j)
          /\ j > 0 => NextEq(q, i, j)' = NextEq(q, i, j)
      BY <1>1, <1>2, NextFrame
    <2>3. CASE Reached(p, j) = 2 * i /\ cmp'[p][j] = cmp[p][j] /\ eq'[p][j] = eq[p][j]
      <3>1. /\ Xor(cmp[p][j], NextCmp(q, i, j)) = Greater(2 * i, j)
            /\ j > 0 => Xor(eq[p][j], NextEq(q, i, j)) = Equal(2 * i, j)
        BY <1>2, <2>1, <2>3 DEF AheadInv
      <3> HIDE DEF q
      <3> QED
        BY <1>3, <2>2, <2>3, <3>1
    <2>4. CASE /\ 2 * i = 2 * lev[p] /\ Reached(p, j) = lev[p]
               /\ cmp'[p][j] = NextCmp(p, lev[p], j)
               /\ j > 0 => eq'[p][j] = NextEq(p, lev[p], j)
               /\ HasPartner(lev[p], j) => j = node[p]
      <3>1. lev[p] = i
        BY <1>1, <2>1, <2>4, MergePeer
      <3>2. \A r \in Party : pc[r] # "leaf"
        BY <1>1, MergePeer
      <3>3. lev[q] = i /\ pc[q] \in {"exchange", "and2"} /\ (pc[q] = "and2" => j >= node[q])
        <4>1. \/ lev[q] = lev[p]
              \/ lev[q] = 2 * lev[p] /\ pc[q] # "and2"
          BY <1>1, MergePeer
        <4>2. lev[q] = i
          BY <2>1, <3>1, <4>1 DEF Reached
        <4>3. pc[q] \in {"exchange", "and2"}
          BY <1>1, <3>1, <4>2, Behind
        <4>4. node[q] \in Nat /\ node[q] \in Int
          BY <1>2 DEF IInv, TypeOK
        <4> HIDE DEF q
        <4>5. pc[q] = "and2" => ~(j < node[q])
          BY <2>1, <4>2 DEF Reached
        <4> QED
          BY <2>1, <4>2, <4>3, <4>4, <4>5
      <3>4. \A r \in Party : /\ Reached(r, j) = i
                             /\ HasPartner(i, j) => lev[r] = i /\ Pending(r, j)
        <4>1. HasPartner(i, j) => Pending(p, j)
          BY <1>1, <2>1, <2>4, <3>1 DEF Pending
        <4>2. HasPartner(i, j) => Pending(q, j)
          BY <3>3 DEF Pending
        <4> QED
          BY <1>2, <2>1, <2>4, <3>1, <3>3, <4>1, <4>2
      <3>5. /\ Xor(NextCmp(ALICE, i, j), NextCmp(BOB, i, j)) = Greater(2 * i, j)
            /\ j > 0 => Xor(NextEq(ALICE, i, j), NextEq(BOB, i, j)) = Equal(2 * i, j)
        BY <1>2, <3>2, <3>4, MergeAgree DEF IInv
      <3>6. (p = ALICE /\ q = BOB) \/ (p = BOB /\ q = ALICE)
        BY <1>2
      <3> HIDE DEF q
      <3> QED
        BY <1>3, <2>2, <2>4, <3>1, <3>5, <3>6, XorSwap
    <2> QED
      BY <1>4, <2>1, <2>3, <2>4, MergeReached
  <1> QED
    BY <1>4 DEF AheadInv

\* The party that merges last.
LEMMA MergeLast ==
  ASSUME IInv, FlowInv, ExchangeInv, SharesInv, ~IsShort, NEW p \in Party, AndStep2(p)
  PROVE  AheadInv(Peer(p), p)'
  <1> DEFINE q == Peer(p)
  <1>1. /\ pc[p] = "and2" /\ lev[p] \in InnerLevel /\ own' = own /\ tape' = tape
        /\ node[p] \in NodesOf(2 * lev[p])
        /\ \A k \in Digits : k # node[p] => cmp'[p][k] = cmp[p][k] /\ eq'[p][k] = eq[p][k]
        /\ cmp'[q] = cmp[q] /\ eq'[q] = eq[q]
        /\ pc'[q] = pc[q] /\ lev'[q] = lev[q] /\ node'[q] = node[q]
    BY MergeStep, PeerFacts
  <1>2. AheadInv(q, p) /\ q \in Party /\ q # p /\ Peer(q) = p
    BY PeerFacts DEF SharesInv
  <1>3. \A i, j : Greater(i, j)' = Greater(i, j) /\ Equal(i, j)' = Equal(i, j)
    BY InputFrame DEF Next, Local
  <1>4. ASSUME NEW i \in InnerLevel, NEW j \in NodesOf(2 * i),
               Reached(q, j)' = 2 * i, Reached(p, j)' = i
        PROVE  /\ Xor(cmp'[q][j], NextCmp(p, i, j)') = Greater(2 * i, j)'
               /\ j > 0 => Xor(eq'[q][j], NextEq(p, i, j)') = Equal(2 * i, j)'
    <2>1. /\ Reached(q, j) = 2 * i /\ i \in Nat \ {0} /\ j \in NodesOf(i)
          /\ j \in Digits
      BY <1>1, <1>4, NodeArith DEF Reached
    <2>2. ~(i = 2 * lev[p] /\ Reached(p, j) = lev[p])
      <3>1. /\ lev[q] = lev[p] \/ lev[q] = 2 * lev[p]
            /\ lev[q] = 2 * lev[p] => pc[q] # "and2"
            /\ lev[p] \in Nat \ {0}
        BY <1>1, MergePeer
      <3> HIDE DEF q
      <3> QED
        BY <2>1, <3>1 DEF Reached
    <2>3. Reached(p, j) = i /\ cmp'[p][j] = cmp[p][j] /\ eq'[p][j] = eq[p][j]
      BY <1>4, <2>1, <2>2, MergeReached
    <2>4. /\ Xor(cmp[q][j], NextCmp(p, i, j)) = Greater(2 * i, j)
          /\ j > 0 => Xor(eq[q][j], NextEq(p, i, j)) = Equal(2 * i, j)
      BY <1>2, <2>1, <2>3 DEF AheadInv
    <2>5. lev[p] = i
      BY <1>2, <2>1, <2>3, Gap
    <2>6. HasPartner(i, j) => cmp'[p][j + i] = cmp[p][j + i]
      <3>1. HasPartner(i, j) => j + i \in Digits
        BY NodeArith DEF NodesOf
      <3>2. j + i # node[p]
        BY <1>1, <2>5, NodeArith
      <3> QED
        BY <1>1, <3>1, <3>2
    <2>7. /\ NextCmp(p, i, j)' = NextCmp(p, i, j)
          /\ j > 0 => NextEq(p, i, j)' = NextEq(p, i, j)
      BY <1>1, <2>3, <2>6, NextFrame
    <2> HIDE DEF q
    <2> QED
      BY <1>1, <1>3, <2>4, <2>7
  <1> QED
    BY <1>4 DEF AheadInv

LEMMA ShareStep2 ==
  ASSUME IInv, FlowInv, ExchangeInv, SharesInv, NEW p \in Party, AndStep2(p)
  PROVE  SharesInv'
  <1>1. /\ pc[p] = "and2" /\ pc'[p] # "leaf"
        /\ \A r \in Party : r # p => pc'[r] = pc[r]
        /\ \A r \in Party : pc[r] # "leaf"
    BY MergeStep, MergePeer
  <1>2. LeafInv'
    BY <1>1, PartyFacts DEF LeafInv
  <1> SUFFICES ASSUME ~IsShort
               PROVE  /\ LevelInv'
                      /\ (\A r \in Party : MaskInv(r))'
                      /\ (\A r, q \in Party : r # q => AheadInv(r, q))'
    BY <1>2 DEF SharesInv, IsShort
  <1>3. LevelInv'
    BY MergeLevels
  <1>4. \A r \in Party : MaskInv(r)'
    BY MergeMasks DEF SharesInv
  <1>5. ASSUME NEW r \in Party, NEW q \in Party, r # q
        PROVE  AheadInv(r, q)'
    <2>1. (r = p /\ q = Peer(p)) \/ (q = p /\ r = Peer(p))
      BY <1>5, PeerFacts
    <2> QED
      BY <2>1, MergeFirst, MergeLast
  <1> QED
    BY <1>3, <1>4, <1>5

------------------------------------------------------------------------------
(* The invariant.                                                           *)

LEMMA ShareGenerate ==
  ASSUME IInv, SharesInv, NEW p \in Party, Generate(p)
  PROVE  SharesInv'
  <1>1. /\ pc[p] = "triples" /\ pc'[p] = "and1" /\ pc[Peer(p)] # "leaf"
        /\ cmp' = cmp /\ eq' = eq /\ own' = own /\ lev' = lev /\ node' = node
        /\ \A r \in Party : r # p => pc'[r] = pc[r]
        /\ node[p] = 0
    BY DEF Generate, IInv, TypeOK, CountInv, treeVars
  <1>2. \A r \in Party, j \in Digits : Reached(r, j)' = Reached(r, j)
    BY <1>1 DEF Reached
  <1>3. \A r \in Party, j \in Digits : Pending(r, j)' => Pending(r, j)
    <2>1. \A j \in Digits : ~(j < 0)
      BY DEF Digits
    <2> QED
      BY <1>1, <2>1 DEF Pending
  <1>4. pc[BOB] = "leaf" => pc'[ALICE] = pc[ALICE]
    BY <1>1, PeerFacts, PartyFacts DEF Peer
  <1>5. \A r \in Party : pc'[r] = "leaf" <=> pc[r] = "leaf"
    BY <1>1
  <1>6. [Next]_vars
    BY DEF Next, Local
  <1> QED
    BY <1>1, <1>2, <1>3, <1>4, <1>5, <1>6, FrameShares

LEMMA ShareJoin ==
  ASSUME IInv, SharesInv, NEW p \in Party, Join(p)
  PROVE  SharesInv'
  <1>1. /\ pc[p] = "exchange" /\ pc'[p] = "and2"
        /\ cmp' = cmp /\ eq' = eq /\ own' = own /\ lev' = lev /\ node' = node
        /\ \A r \in Party : r # p => pc'[r] = pc[r]
        /\ node[p] = 0
    BY DEF Join, IInv, TypeOK, CountInv
  <1>2. \A j \in Digits : ~(j < 0) /\ j >= 0
    BY DEF Digits
  <1>3. \A r \in Party, j \in Digits : Reached(r, j)' = Reached(r, j)
    BY <1>1, <1>2 DEF Reached
  <1>4. \A r \in Party, j \in Digits : Pending(r, j)' => Pending(r, j)
    BY <1>1 DEF Pending
  <1>5. pc[BOB] = "leaf" => pc'[ALICE] = pc[ALICE]
    BY <1>1, PartyFacts DEF SharesInv, LeafInv, Party
  <1>6. \A r \in Party : pc'[r] = "leaf" <=> pc[r] = "leaf"
    BY <1>1
  <1>7. [Next]_vars
    BY DEF Next, Local
  <1> QED
    BY <1>1, <1>3, <1>4, <1>5, <1>6, <1>7, FrameShares

LEMMA ShareSame ==
  ASSUME [Next]_vars, SharesInv,
         cmp' = cmp, eq' = eq, own' = own, lev' = lev, node' = node, pc' = pc
  PROVE  SharesInv'
  <1>1. \A r \in Party, j \in Digits : Reached(r, j)' = Reached(r, j)
    BY DEF Reached
  <1>2. \A r \in Party, j \in Digits : Pending(r, j)' => Pending(r, j)
    BY DEF Pending
  <1> QED
    BY <1>1, <1>2, FrameShares

LEMMA SharesInit == Init => SharesInv
  <1> SUFFICES ASSUME Init
               PROVE  SharesInv
    OBVIOUS
  <1>1. \A p \in Party : pc[p] = "leaf" /\ lev[p] = 1
    BY DEF Init
  <1>2. LeafInv
    BY <1>1, PartyFacts DEF LeafInv
  <1>3. LevelInv
    BY <1>1, PartyFacts DEF LevelInv
  <1>4. \A p \in Party : MaskInv(p)
    BY <1>1 DEF MaskInv, Pending
  <1>5. \A p, q \in Party : AheadInv(p, q)
    <2>1. \A i \in InnerLevel : 2 * i # 1
      BY DEF InnerLevel, PowersOfTwo
    <2> QED
      BY <1>1, <2>1 DEF AheadInv, Reached
  <1> QED
    BY <1>2, <1>3, <1>4, <1>5 DEF SharesInv

LEMMA SharesStep ==
  ASSUME IInv, IInv', FlowInv, ExchangeInv, SharesInv, [Next]_vars
  PROVE  SharesInv'
  <1>1. CASE LeafAlice
    BY <1>1, ShareLeafAlice
  <1>2. CASE LeafBob
    BY <1>2, ShareLeafBob
  <1>3. ASSUME NEW p \in Party, Local(p)
        PROVE  SharesInv'
    BY <1>3, ShareGenerate, ShareStep1, ShareJoin, ShareStep2 DEF Local
  <1>4. ASSUME NEW p \in Party, NEW t \in Threads, Thread(p, t)
        PROVE  SharesInv'
    <2>1. pc' = pc /\ lev' = lev /\ node' = node /\ own' = own
      BY <1>4, ThreadMoves DEF IInv
    <2>2. cmp' = cmp /\ eq' = eq
      BY <1>4 DEF Thread, SendUnit, RecvUnit, treeVars
    <2> QED
      BY <2>1, <2>2, ShareSame
  <1>5. CASE UNCHANGED vars
    BY <1>5, ShareSame DEF vars, treeVars
  <1> QED
    BY <1>1, <1>2, <1>3, <1>4, <1>5 DEF Next

LEMMA SharesInductive == Spec => []SharesInv
  <1>1. IInv /\ IInv' /\ FlowInv /\ ExchangeInv /\ SharesInv /\ [Next]_vars => SharesInv'
    BY SharesStep
  <1> QED
    BY <1>1, SharesInit, Inductive, FlowInductive, ExchangeInductive, PTL DEF Spec

\* At every width, radix and input: whenever the parties stand at one level
\* of the tree, their shares of each live node xor to the comparison and the
\* equality of the digits that the node stands for.
THEOREM NodesAgree == Spec => []NodesReconstruct
  <1>1. IInv /\ SharesInv => NodesReconstruct
    <2> SUFFICES ASSUME IInv, SharesInv, ~IsShort, \A p \in Party : SharesOf(p),
                        lev[ALICE] = lev[BOB], NEW j \in Digits, j % lev[ALICE] = 0
                 PROVE  LET hi == RangeEnd(lev[ALICE], j)
                        IN  /\ Xor(cmp[ALICE][j], cmp[BOB][j]) = BitOf(RangeBeats(j, hi))
                            /\ j > 0 => Xor(eq[ALICE][j], eq[BOB][j]) = BitOf(RangeEqual(j, hi))
      BY DEF NodesReconstruct
    <2>1. lev[ALICE] \in PowersOfTwo /\ j \in NodesOf(lev[ALICE])
      BY PartyFacts DEF IInv, CountInv, NodesOf
    <2>2. \A p \in Party : pc[p] # "leaf" /\ pc[p] # "and2"
      BY DEF SharesOf
    <2>3. Reached(ALICE, j) = lev[ALICE] /\ Reached(BOB, j) = lev[ALICE]
      BY <2>2, PartyFacts DEF Reached
    <2>4. LevelInv
      BY DEF SharesInv
    <2> QED
      BY <2>1, <2>2, <2>3, <2>4 DEF LevelInv, Greater, Equal
  <1> QED
    BY <1>1, Inductive, SharesInductive, PTL

------------------------------------------------------------------------------
(* The result.                                                              *)

\* compare masks no input: they are numbers of the configured width.
InputsFit == \A v \in Inputs : v < 2^Bitlength

\* The one configuration that is excluded: uint8_t N = 1 << 8 is zero.
OverflowsN == IsShort /\ Bitlength = 8

\* What is left of v above its first m digits.
High(v, m) == v \div 2^(m * RadixBase)

------------------------------------------------------------------------------
(* The digits of a number.                                                  *)

LEMMA Widths ==
  ASSUME ~IsShort
  PROVE  /\ RadixBase \in 1..8 /\ NumDigits \in 2..64 /\ LastWidth \in 0..7
         /\ Bitlength = (NumDigits - 1) * RadixBase
                          + (IF LastWidth # 0 THEN LastWidth ELSE RadixBase)
  <1>1. Bitlength \in 1..64 /\ RadixBase \in {1, 2, 3, 4, 5, 6, 7, 8}
    BY WidthAssumption
  <1>2. LastWidth \in 0..7 /\ NumDigits \in Int
        /\ Bitlength = (NumDigits - 1) * RadixBase
                         + (IF LastWidth # 0 THEN LastWidth ELSE RadixBase)
    BY <1>1, SMTT(60) DEF LastWidth, NumDigits, CeilDiv
  <1> QED
    BY <1>1, <1>2, NumDigitsRange

\* A digit is the low part of what is above the digits before it, the last
\* one all of it.
LEMMA DigitHigh ==
  ASSUME ~IsShort, NEW v \in Nat, v < 2^Bitlength, NEW m \in Digits
  PROVE  /\ High(v, m) \in Nat
         /\ m = NumDigits - 1 => Digit(v, m) = High(v, m)
         /\ m < NumDigits - 1 =>
              /\ High(v, m + 1) = High(v, m) \div 2^RadixBase
              /\ Digit(v, m) = High(v, m) % 2^RadixBase
  <1> DEFINE r == RadixBase
             w == IF LastWidth # 0 THEN LastWidth ELSE RadixBase
  <1>1. /\ r \in 1..8 /\ NumDigits \in 2..64 /\ w \in 1..8
        /\ Bitlength = (NumDigits - 1) * r + w /\ m \in Nat /\ m < NumDigits
        /\ LastWidth \in 0..7
    BY Widths DEF Digits
  <1>2. m * r \in Nat /\ (m + 1) * r = m * r + r /\ (NumDigits - 1) * r \in Nat
    BY <1>1
  <1>3. PICK a \in Nat, b \in Nat : a > 0 /\ b > 0 /\ a = 2^(m * r) /\ b = 2^r
    BY <1>1, <1>2, PowerDouble
  <1>4. High(v, m) = v \div a
    BY <1>3 DEF High
  <1>5. High(v, m) \in Nat
    BY <1>3, <1>4, DivMod
  <1>6. ASSUME m = NumDigits - 1
        PROVE  Digit(v, m) = High(v, m)
    <2>1. PICK c \in Nat : c = 2^w /\ c > 0
      BY <1>1, PowerDouble
    <2>2. v < a * c
      <3>1. m * r + w = Bitlength
        BY <1>1, <1>6
      <3>2. PICK n \in Nat, k \in Nat : n = m * r /\ k = w
        BY <1>1, <1>2
      <3>3. 2^(n + k) = 2^n * 2^k
        BY PowerSum
      <3> HIDE DEF r, w
      <3> QED
        BY <1>3, <2>1, <3>1, <3>2, <3>3
    <2>3. High(v, m) < c
      BY <1>3, <1>4, <2>1, <2>2, DivBound
    <2>4. Digit(v, m) = High(v, m) % c
      BY <1>6, <2>1 DEF Digit, High
    <2> HIDE DEF w, r
    <2>5. High(v, m) = c * 0 + High(v, m)
      BY <1>5, <2>1
    <2>6. High(v, m) % c = High(v, m)
      BY <1>5, <2>1, <2>3, <2>5, DivUnique
    <2> QED
      BY <2>4, <2>6
  <1>7. ASSUME m < NumDigits - 1
        PROVE  /\ High(v, m + 1) = High(v, m) \div b
               /\ Digit(v, m) = High(v, m) % b
    <2>1. 2^((m + 1) * r) = a * b
      <3>1. 2^(m * r + r) = 2^(m * r) * 2^r
        BY <1>1, <1>2, PowerSum
      <3> QED
        BY <1>2, <1>3, <3>1
    <2>2. High(v, m + 1) = (v \div a) \div b
      BY <1>3, <2>1, DivDiv DEF High
    <2>3. m # NumDigits - 1
      BY <1>1, <1>7
    <2> QED
      BY <1>3, <1>4, <2>2, <2>3 DEF Digit, High
  <1> QED
    BY <1>3, <1>5, <1>6, <1>7

\* The digits from m on compare as what is left above the first m.
Compares(m) ==
  /\ RangeEqual(m, NumDigits) <=> High(data[ALICE], m) = High(data[BOB], m)
  /\ RangeBeats(m, NumDigits) <=> Beats(High(data[ALICE], m), High(data[BOB], m))

LEMMA ComparesTop ==
  ASSUME TypeOK, ~IsShort, InputsFit
  PROVE  Compares(NumDigits - 1)
  <1>1. PICK m : m = NumDigits - 1
    OBVIOUS
  <1>2. m \in Digits /\ m + 1 = NumDigits
    BY <1>1, Widths DEF Digits
  <1>3. \A p \in Party : data[p] \in Nat /\ data[p] < 2^Bitlength
    BY InputAssumption DEF TypeOK, InputsFit
  <1>4. /\ Digit(data[ALICE], m) = High(data[ALICE], m)
        /\ Digit(data[BOB], m) = High(data[BOB], m)
    BY <1>1, <1>2, <1>3, PartyFacts, DigitHigh
  <1>5. /\ RangeBeats(m, m + 1) <=> Beats(High(data[ALICE], m), High(data[BOB], m))
        /\ RangeEqual(m, m + 1) <=> High(data[ALICE], m) = High(data[BOB], m)
    BY <1>2, <1>4, OneDigit
  <1> QED
    BY <1>1, <1>2, <1>5 DEF Compares

LEMMA ComparesDown ==
  ASSUME TypeOK, ~IsShort, InputsFit,
         NEW m \in Nat, m < NumDigits - 1, Compares(m + 1)
  PROVE  Compares(m)
  <1>1. /\ m \in Digits /\ m + 1 \in Digits /\ NumDigits \in Nat
        /\ m + 1 < NumDigits /\ m < m + 1 /\ NumDigits <= NumDigits
    BY Widths DEF Digits
  <1>2. \A p \in Party : data[p] \in Nat /\ data[p] < 2^Bitlength
    BY InputAssumption DEF TypeOK, InputsFit
  <1>3. PICK b \in Nat : b = 2^RadixBase /\ b > 0
    BY Widths, PowerDouble
  <1>4. PICK x, y, x1, y1, d, k :
          /\ x \in Nat /\ y \in Nat
          /\ x = High(data[ALICE], m) /\ y = High(data[BOB], m)
          /\ x1 = High(data[ALICE], m + 1) /\ y1 = High(data[BOB], m + 1)
          /\ d = Digit(data[ALICE], m) /\ k = Digit(data[BOB], m)
          /\ x1 = x \div b /\ d = x % b /\ y1 = y \div b /\ k = y % b
    <2>1. /\ High(data[ALICE], m) \in Nat /\ High(data[BOB], m) \in Nat
          /\ High(data[ALICE], m + 1) = High(data[ALICE], m) \div b
          /\ High(data[BOB], m + 1) = High(data[BOB], m) \div b
          /\ Digit(data[ALICE], m) = High(data[ALICE], m) % b
          /\ Digit(data[BOB], m) = High(data[BOB], m) % b
      BY <1>1, <1>2, <1>3, PartyFacts, DigitHigh
    <2> QED
      BY <2>1
  <1>5. x1 \in Nat /\ y1 \in Nat /\ d \in Nat /\ k \in Nat
    BY <1>3, <1>4, DivMod
  <1>6. /\ x = y <=> x1 = y1 /\ d = k
        /\ x < y <=> x1 < y1 \/ (x1 = y1 /\ d < k)
        /\ y < x <=> y1 < x1 \/ (y1 = x1 /\ k < d)
    BY <1>3, <1>4, DivOrder
  <1>7. /\ RangeEqual(m + 1, NumDigits) <=> x1 = y1
        /\ RangeBeats(m + 1, NumDigits) <=> Beats(x1, y1)
        /\ RangeEqual(m, m + 1) <=> d = k
        /\ RangeBeats(m, m + 1) <=> Beats(d, k)
    BY <1>1, <1>4, OneDigit DEF Compares
  <1>8. /\ RangeEqual(m, NumDigits) <=> d = k /\ x1 = y1
        /\ RangeBeats(m, NumDigits) <=> Beats(x1, y1) \/ (Beats(d, k) /\ x1 = y1)
    <2>1. /\ BitOf(RangeEqual(m, NumDigits))
               = And(BitOf(RangeEqual(m, m + 1)), BitOf(RangeEqual(m + 1, NumDigits)))
          /\ BitOf(RangeBeats(m, NumDigits))
               = Xor(And(BitOf(RangeBeats(m, m + 1)), BitOf(RangeEqual(m + 1, NumDigits))),
                     BitOf(RangeBeats(m + 1, NumDigits)))
      BY <1>1, RangeSplit
    <2>2. Beats(x1, y1) => x1 # y1
      BY <1>5 DEF Beats
    <2> HIDE DEF RangeEqual, RangeBeats
    <2> QED
      BY <1>7, <2>1, <2>2 DEF BitOf, And, Xor
  <1>9. Beats(x, y) <=> Beats(x1, y1) \/ (Beats(d, k) /\ x1 = y1)
    BY <1>4, <1>5, <1>6 DEF Beats
  <1> QED
    BY <1>4, <1>6, <1>8, <1>9 DEF Compares

LEMMA ComparesAll ==
  ASSUME TypeOK, ~IsShort, InputsFit
  PROVE  Compares(0)
  <1> DEFINE Bad == {n \in Nat : n < NumDigits /\ ~Compares(NumDigits - 1 - n)}
  <1>1. NumDigits \in 2..64
    BY Widths
  <1>2. ASSUME Bad # {}
        PROVE  FALSE
    <2>1. PICK n \in Bad : \A l \in Bad : n <= l
      <3>1. Bad \subseteq Nat
        OBVIOUS
      <3> HIDE DEF Bad
      <3> QED
        BY <1>2, <3>1, LeastElement
    <2>2. n \in Nat /\ n < NumDigits /\ ~Compares(NumDigits - 1 - n)
      OBVIOUS
    <2>3. n # 0
      <3>1. NumDigits - 1 - 0 = NumDigits - 1
        BY <1>1
      <3> QED
        BY <2>2, <3>1, ComparesTop
    <2>4. PICK l \in Nat : l = n - 1 /\ l < n /\ l < NumDigits
      <3>1. n - 1 \in Nat /\ n - 1 < n /\ n - 1 < NumDigits
        BY <1>1, <2>2, <2>3
      <3> QED
        BY <3>1
    <2>5. l \notin Bad
      <3> HIDE DEF Bad
      <3> QED
        BY <2>1, <2>2, <2>4
    <2>6. PICK m \in Nat : /\ m = NumDigits - 1 - n /\ m < NumDigits - 1
                           /\ m + 1 = NumDigits - 1 - l
      <3>1. /\ NumDigits - 1 - n \in Nat /\ NumDigits - 1 - n < NumDigits - 1
            /\ NumDigits - 1 - n + 1 = NumDigits - 1 - l
        BY <1>1, <2>2, <2>3, <2>4
      <3> QED
        BY <3>1
    <2>7. Compares(m + 1)
      BY <2>4, <2>5, <2>6
    <2> QED
      BY <2>2, <2>6, <2>7, ComparesDown
  <1>3. PICK n \in Nat : n = NumDigits - 1 /\ n < NumDigits /\ NumDigits - 1 - n = 0
    <2>1. NumDigits - 1 \in Nat /\ NumDigits - 1 < NumDigits
          /\ NumDigits - 1 - (NumDigits - 1) = 0
      BY <1>1
    <2> QED
      BY <2>1
  <1>4. Compares(NumDigits - 1 - n)
    BY <1>2, <1>3
  <1> QED
    BY <1>3, <1>4

\* All the digits compare as the inputs do.
LEMMA WholeInputs ==
  ASSUME TypeOK, ~IsShort, InputsFit
  PROVE  BitOf(RangeBeats(0, NumDigits)) = BitOf(Beats(data[ALICE], data[BOB]))
  <1>1. data[ALICE] \in Nat /\ data[BOB] \in Nat
    BY PartyFacts, InputAssumption DEF TypeOK
  <1>2. ASSUME NEW v \in Nat
        PROVE  High(v, 0) = v
    <2>1. PICK d \in Nat : d = 2^(0 * RadixBase) /\ d = 1
      <3>1. 0 * RadixBase = 0 /\ 2^0 = 1
        BY Widths
      <3> QED
        BY <3>1
    <2>2. v = 1 * v + 0 /\ 0 < 1
      OBVIOUS
    <2>3. v \div 1 = v
      BY <2>2, DivUnique
    <2> QED
      BY <2>1, <2>3 DEF High
  <1>3. RangeBeats(0, NumDigits) <=> Beats(data[ALICE], data[BOB])
    BY <1>1, <1>2, ComparesAll DEF Compares
  <1> HIDE DEF RangeBeats, Beats
  <1> QED
    BY <1>3 DEF BitOf

------------------------------------------------------------------------------
(* The short path, where the leaves are all there is.                       *)

ShortInv ==
  IsShort =>
    /\ pc[ALICE] = "done" => cmp[ALICE] = tape.maskCmp
    /\ pc[BOB] = "done" =>
         /\ pc[ALICE] = "done"
         /\ cmp[BOB][0] = ShortMessage(data[BOB] % (ShortMask + 1))

LEMMA ShortPlaces ==
  ASSUME IInv, IsShort, NEW p \in Party
  PROVE  pc[p] \in {"leaf", "done"}
  <1>1. ASSUME NEW b \in 1..8, NEW l \in 1..8, l <= b
        PROVE  (l + b - 1) \div b = 1
    <2>1. b \in {1, 2, 3, 4, 5, 6, 7, 8}
      OBVIOUS
    <2> QED
      BY <1>1, <2>1, SMTT(60)
  <1>2. NumDigits = 1
    BY <1>1, WidthAssumption DEF IsShort, NumDigits, CeilDiv
  <1>3. lev[p] \in Nat \ {0}
    BY DEF IInv, TypeOK
  <1>4. pc[p] \notin {"triples", "and1", "exchange", "and2"}
    BY <1>2, <1>3 DEF IInv, CountInv
  <1> QED
    BY <1>4 DEF IInv, TypeOK

LEMMA ShortStep ==
  ASSUME IInv, ShortInv, [Next]_vars
  PROVE  ShortInv'
  <1> SUFFICES ASSUME IsShort
               PROVE  ShortInv'
    BY DEF ShortInv, IsShort
  <1>1. \A p \in Party : pc[p] \in {"leaf", "done"}
    BY ShortPlaces
  <1>2. CASE UNCHANGED vars
    BY <1>2 DEF vars, inputVars, treeVars, ShortInv, ShortMessage, Beats
  <1>3. CASE LeafAlice
    <2>1. pc[BOB] # "done" /\ pc'[BOB] = pc[BOB]
      BY <1>3, PartyFacts DEF LeafAlice, ShortInv, ALICE, BOB
    <2>2. cmp'[ALICE] = tape.maskCmp /\ tape' = tape
      BY <1>3, PartyFacts DEF LeafAlice, IInv, TypeOK, inputVars
    <2> QED
      BY <2>1, <2>2 DEF ShortInv
  <1>4. CASE LeafBob
    <2>1. pc[ALICE] = "done" /\ pc'[ALICE] = "done"
      BY <1>1, <1>4, PartyFacts DEF LeafBob, ALICE, BOB, IInv, TypeOK
    <2>2. /\ cmp'[ALICE] = cmp[ALICE] /\ data' = data /\ greater' = greater /\ tape' = tape
          /\ cmp'[BOB][0] = ShortMessage(data[BOB] % (ShortMask + 1))
      <3>1. 0 \in Digits /\ cmp \in [Party -> [Digits -> Bit]]
        BY NumDigitsRange DEF Digits, IInv, TypeOK
      <3> QED
        BY <1>4, <3>1, PartyFacts DEF LeafBob, inputVars, ALICE, BOB
    <2> QED
      BY <2>1, <2>2 DEF ShortInv, ShortMessage, Beats
  <1>5. ASSUME NEW p \in Party, Local(p)
        PROVE  FALSE
    BY <1>1, <1>5 DEF Local, Generate, AndStep1, Join, AndStep2
  <1>6. ASSUME NEW p \in Party, NEW t \in Threads, Thread(p, t)
        PROVE  FALSE
    BY <1>1, <1>6 DEF Thread, SendUnit, RecvUnit, InExchange
  <1> QED
    BY <1>2, <1>3, <1>4, <1>5, <1>6 DEF Next

LEMMA ShortInductive == Spec => []ShortInv
  <1>1. Init => ShortInv
    BY PartyFacts DEF Init, ShortInv
  <1>2. IInv /\ ShortInv /\ [Next]_vars => ShortInv'
    BY ShortStep
  <1> QED
    BY <1>1, <1>2, Inductive, PTL DEF Spec

\* Where 1 << bitlength fits a byte, Bob's message is the one for his input.
LEMMA ShortResult ==
  ASSUME IInv, ShortInv, InputsFit, IsShort, ~OverflowsN, Done
  PROVE  Xor(cmp[ALICE][0], cmp[BOB][0]) = BitOf(Beats(data[ALICE], data[BOB]))
  <1>1. /\ data[ALICE] \in Nat /\ data[ALICE] < 2^Bitlength
        /\ data[BOB] \in Nat /\ data[BOB] < 2^Bitlength
    BY PartyFacts, InputAssumption DEF IInv, TypeOK, InputsFit
  <1>2. PICK n \in Nat : n = 2^Bitlength /\ n > 0 /\ n < 256
    <2>1. Bitlength \in {1, 2, 3, 4, 5, 6, 7}
      BY WidthAssumption DEF IsShort, OverflowsN
    <2>2. /\ 2^1 = 2 /\ 2^2 = 4 /\ 2^3 = 8 /\ 2^4 = 16
          /\ 2^5 = 32 /\ 2^6 = 64 /\ 2^7 = 128
      OBVIOUS
    <2> SUFFICES 2^Bitlength \in {2, 4, 8, 16, 32, 64, 128}
      OBVIOUS
    <2>3. CASE Bitlength = 1
      BY <2>2, <2>3
    <2>4. CASE Bitlength = 2
      BY <2>2, <2>4
    <2>5. CASE Bitlength = 3
      BY <2>2, <2>5
    <2>6. CASE Bitlength = 4
      BY <2>2, <2>6
    <2>7. CASE Bitlength = 5
      BY <2>2, <2>7
    <2>8. CASE Bitlength = 6
      BY <2>2, <2>8
    <2>9. CASE Bitlength = 7
      BY <2>2, <2>9
    <2> QED
      BY <2>1, <2>3, <2>4, <2>5, <2>6, <2>7, <2>8, <2>9
  <1>3. ShortN = n /\ ShortMask + 1 = n
    BY <1>2 DEF ShortN, ShortMask
  <1>4. data[ALICE] % n = data[ALICE] /\ data[BOB] % n = data[BOB]
    BY <1>1, <1>2
  <1>5. ShortMessage(data[BOB]) = Xor(BitOf(Beats(data[ALICE], data[BOB])), tape.maskCmp[0])
    BY <1>1, <1>2, <1>3, <1>4 DEF ShortMessage
  <1>6. cmp[ALICE][0] = tape.maskCmp[0] /\ cmp[BOB][0] = ShortMessage(data[BOB])
    BY <1>3, <1>4, PartyFacts DEF Done, ShortInv
  <1>7. tape.maskCmp[0] \in Bit
    BY NumDigitsRange DEF IInv, TypeOK, TapeType, Digits
  <1> QED
    BY <1>5, <1>6, <1>7 DEF Xor, BitOf, Bit

------------------------------------------------------------------------------
(* The root.                                                                *)

\* Parties that are done stand at the same level, with one node left.
LEMMA RootShares ==
  ASSUME IInv, FlowInv, SharesInv, ~IsShort, Done
  PROVE  Xor(cmp[ALICE][0], cmp[BOB][0]) = BitOf(RangeBeats(0, NumDigits))
  <1>1. /\ pc[ALICE] = "done" /\ pc[BOB] = "done"
        /\ Peer(ALICE) = BOB /\ Peer(BOB) = ALICE
    BY PartyFacts DEF Done, Peer, ALICE, BOB
  <1>2. lev[ALICE] = lev[BOB]
    <2>1. ~(lev[ALICE] > lev[BOB]) /\ ~(lev[BOB] > lev[ALICE])
      BY <1>1, PartyFacts, Ahead
    <2>2. lev[ALICE] \in Nat /\ lev[BOB] \in Nat
      BY PartyFacts DEF IInv, TypeOK
    <2> QED
      BY <2>1, <2>2
  <1>3. PICK i \in PowersOfTwo : i = lev[ALICE] /\ i >= NumDigits
    BY <1>1, PartyFacts DEF IInv, CountInv
  <1>4. 0 \in NodesOf(i) /\ RangeEnd(i, 0) = NumDigits
    <2>1. i \in {1, 2, 4, 8, 16, 32, 64} /\ NumDigits \in 1..64
      BY NumDigitsRange DEF PowersOfTwo
    <2>2. 0 % i = 0 /\ 0 \in Digits /\ ~(0 + i < NumDigits)
      BY <1>3, <2>1, SMTT(30) DEF Digits
    <2> QED
      BY <2>2 DEF NodesOf, RangeEnd
  <1>5. Reached(ALICE, 0) = i /\ Reached(BOB, 0) = i
    BY <1>1, <1>2, <1>3 DEF Reached
  <1>6. \A p \in Party : pc[p] # "leaf"
    BY DEF Done
  <1> QED
    BY <1>3, <1>4, <1>5, <1>6 DEF SharesInv, LevelInv, Greater

LEMMA Outcome ==
  ASSUME IInv, FlowInv, SharesInv, ShortInv, InputsFit, ~OverflowsN
  PROVE  CompareCorrect
  <1>1. CASE IsShort
    BY <1>1, ShortResult DEF CompareCorrect
  <1>2. CASE ~IsShort
    BY <1>2, RootShares, WholeInputs DEF CompareCorrect, IInv
  <1> QED
    BY <1>1, <1>2

\* compare is correct at every bit length up to 64, every radix up to 8, and
\* for all inputs of that length, but for the short path of eight bits, which
\* 1 << bitlength in a uint8_t leaves with no messages.
THEOREM ComparesCorrectly ==
  ASSUME InputsFit, ~OverflowsN
  PROVE  Spec => []CompareCorrect
  <1>1. IInv /\ FlowInv /\ SharesInv /\ ShortInv => CompareCorrect
    BY Outcome
  <1> QED
    BY <1>1, Inductive, FlowInductive, SharesInductive, ShortInductive, PTL

------------------------------------------------------------------------------
(* The refinement of the ideal comparison.                                  *)

\* A party's output is its share of the root, once it is done.
OutOf(p) == IF pc[p] = "done" THEN cmp[p][0] ELSE NoShare

\* A step of one party, which is not done, changes at most its own output.
LEMMA OutStep ==
  ASSUME IInv, IInv', CompareCorrect', data' = data, greater' = greater,
         NEW p \in Party, pc[p] # "done",
         \A r \in Party : r # p => pc'[r] = pc[r] /\ cmp'[r] = cmp[r]
  PROVE  [Ideal!Next]_(Ideal!vars)
  <1> DEFINE q == Peer(p)
  <1>1. BitOf(Beats(data[ALICE], data[BOB]))' = BitOf(Beats(data[ALICE], data[BOB]))
    BY DEF Beats
  <1>2. q \in Party /\ q # p /\ OutOf(q)' = OutOf(q) /\ OutOf(p) = NoShare
    BY PeerFacts DEF OutOf
  <1>3. CASE pc'[p] # "done"
    <2>1. OutOf(p)' = OutOf(p)
      BY <1>2, <1>3 DEF OutOf
    <2>2. [r \in Party |-> OutOf(r)]' = [r \in Party |-> OutOf(r)]
      BY <1>2, <2>1, PeerFacts
    <2> QED
      BY <1>1, <2>2 DEF Ideal!vars, OutOf
  <1>4. CASE pc'[p] = "done"
    <2>1. PICK b \in Bit : b = cmp'[p][0] /\ b = OutOf(p)'
      <3>1. cmp' \in [Party -> [Digits -> Bit]]
        BY DEF IInv, TypeOK
      <3>2. 0 \in Digits
        BY NumDigitsRange DEF Digits
      <3>3. cmp'[p][0] \in Bit
        BY <3>1, <3>2
      <3> QED
        BY <1>4, <3>3 DEF OutOf
    <2>2. OutOf(q) # NoShare =>
            Xor(b, OutOf(q)) = BitOf(Beats(data[ALICE], data[BOB]))
      <3> SUFFICES ASSUME OutOf(q) # NoShare
                   PROVE  Xor(b, OutOf(q)) = BitOf(Beats(data[ALICE], data[BOB]))
        OBVIOUS
      <3>1. pc'[q] = "done" /\ OutOf(q) = cmp'[q][0]
        BY <1>2 DEF OutOf
      <3>2. Done'
        BY <1>4, <3>1, PeerFacts DEF Done
      <3>3. Xor(cmp'[ALICE][0], cmp'[BOB][0]) = BitOf(Beats(data[ALICE], data[BOB]))
        BY <1>1, <3>2 DEF CompareCorrect
      <3>4. (p = ALICE /\ q = BOB) \/ (p = BOB /\ q = ALICE)
        BY <1>2 DEF Party
      <3> HIDE DEF q
      <3>5. Xor(cmp'[p][0], cmp'[q][0]) = BitOf(Beats(data[ALICE], data[BOB]))
        BY <3>3, <3>4, XorSwap
      <3> QED
        BY <2>1, <3>1, <3>5
    <2>3. [r \in Party |-> OutOf(r)]' = [[r \in Party |-> OutOf(r)] EXCEPT ![p] = b]
      <3>1. \A r \in Party : OutOf(r)' = IF r = p THEN b ELSE OutOf(r)
        BY <1>2, <2>1, PeerFacts
      <3> HIDE DEF q
      <3> QED
        BY <3>1
    <2>4. \A r \in Party \ {p} : r = q
      BY PeerFacts
    <2>5. Ideal!Deliver(p)
      <3> DEFINE out == [r \in Party |-> OutOf(r)]
      <3>1. out[p] = NoShare /\ out[q] = OutOf(q)
        BY <1>2
      <3>2. \A r \in Party \ {p} : out[r] # NoShare =>
              Ideal!Xor(b, out[r]) = BitOf(Beats(data[ALICE], data[BOB]))
        BY <2>2, <2>4, <3>1 DEF Ideal!Xor, Xor
      <3>3. b \in Ideal!Bit
        BY DEF Ideal!Bit, Bit
      <3> HIDE DEF q
      <3> QED
        BY <1>1, <2>3, <3>1, <3>2, <3>3 DEF Ideal!Deliver, OutOf
    <2> QED
      BY <2>5 DEF Ideal!Next
  <1> QED
    BY <1>3, <1>4

\* Nothing that the caller sees changes.
LEMMA OutSame ==
  ASSUME data' = data, greater' = greater,
         \A p \in Party : OutOf(p)' = OutOf(p)
  PROVE  [Ideal!Next]_(Ideal!vars)
  <1>1. BitOf(Beats(data[ALICE], data[BOB]))' = BitOf(Beats(data[ALICE], data[BOB]))
    BY DEF Beats
  <1>2. [r \in Party |-> OutOf(r)]' = [r \in Party |-> OutOf(r)]
    OBVIOUS
  <1> QED
    BY <1>1, <1>2 DEF Ideal!vars, OutOf

LEMMA RefinesStep ==
  ASSUME IInv, IInv', CompareCorrect', [Next]_vars
  PROVE  [Ideal!Next]_(Ideal!vars)
  <1>1. CASE LeafAlice
    <2>1. /\ ALICE \in Party /\ pc[ALICE] # "done"
          /\ data' = data /\ greater' = greater
          /\ \A r \in Party : r # ALICE => pc'[r] = pc[r] /\ cmp'[r] = cmp[r]
      BY <1>1, PartyFacts DEF LeafAlice, IInv, TypeOK, inputVars
    <2> QED
      BY <2>1, OutStep
  <1>2. CASE LeafBob
    <2>1. /\ BOB \in Party /\ pc[BOB] # "done"
          /\ data' = data /\ greater' = greater
          /\ \A r \in Party : r # BOB => pc'[r] = pc[r] /\ cmp'[r] = cmp[r]
      <3>1. cmp \in [Party -> [Digits -> Bit]]
        BY DEF IInv, TypeOK
      <3>2. pc[BOB] = "leaf" /\ data' = data /\ greater' = greater
        BY <1>2 DEF LeafBob, inputVars
      <3>3. \A r \in Party : r # BOB => pc'[r] = pc[r]
        BY <1>2 DEF LeafBob, IInv, TypeOK
      <3>4. \A r \in Party : r # BOB => cmp'[r] = cmp[r]
        BY <1>2, <3>1 DEF LeafBob
      <3> QED
        BY <3>2, <3>3, <3>4, PartyFacts
    <2> QED
      BY <2>1, OutStep
  <1>3. ASSUME NEW p \in Party, Local(p)
        PROVE  [Ideal!Next]_(Ideal!vars)
    <2>1. /\ pc[p] # "done" /\ data' = data /\ greater' = greater
          /\ \A r \in Party : r # p => pc'[r] = pc[r] /\ cmp'[r] = cmp[r]
      <3>1. /\ pc \in [Party -> {"leaf", "triples", "and1", "exchange", "and2", "done"}]
            /\ cmp \in [Party -> [Digits -> Bit]]
        BY DEF IInv, TypeOK
      <3>2. CASE Generate(p)
        BY <3>1, <3>2 DEF Generate, treeVars, inputVars
      <3>3. CASE AndStep1(p)
        <4>1. pc[p] = "and1" /\ cmp' = cmp /\ data' = data /\ greater' = greater
          BY <3>3 DEF AndStep1, inputVars
        <4>2. \A r \in Party : r # p => pc'[r] = pc[r]
          BY <3>1, <3>3 DEF AndStep1
        <4> QED
          BY <4>1, <4>2
      <3>4. CASE Join(p)
        BY <3>1, <3>4 DEF Join, inputVars
      <3>5. CASE AndStep2(p)
        BY <3>1, <3>5 DEF AndStep2, inputVars
      <3> QED
        BY <1>3, <3>2, <3>3, <3>4, <3>5 DEF Local
    <2> QED
      BY <2>1, OutStep
  <1>4. ASSUME NEW p \in Party, NEW t \in Threads, Thread(p, t)
        PROVE  [Ideal!Next]_(Ideal!vars)
    <2>1. data' = data /\ greater' = greater /\ pc' = pc /\ cmp' = cmp
      BY <1>4 DEF Thread, SendUnit, RecvUnit, treeVars, inputVars
    <2> QED
      BY <2>1, OutSame DEF OutOf
  <1>5. CASE UNCHANGED vars
    <2>1. data' = data /\ greater' = greater /\ pc' = pc /\ cmp' = cmp
      BY <1>5 DEF vars, treeVars, inputVars
    <2> QED
      BY <2>1, OutSame DEF OutOf
  <1> QED
    BY <1>1, <1>2, <1>3, <1>4, <1>5 DEF Next

LEMMA RefinesInit == Init => Ideal!Init
  <1> SUFFICES ASSUME Init
               PROVE  Ideal!Init
    OBVIOUS
  <1>1. BitOf(Beats(data[ALICE], data[BOB])) \in Ideal!Bit
    BY DEF BitOf, Ideal!Bit
  <1>2. [p \in Party |-> IF pc[p] = "done" THEN cmp[p][0] ELSE NoShare]
          = [p \in Party |-> NoShare]
    BY DEF Init
  <1> QED
    BY <1>1, <1>2 DEF Ideal!Init

\* Seen from its caller, compare is the ideal comparison: the outcome is fixed
\* by the inputs, each party gets one output that never changes, and the
\* second output completes the first.
THEOREM RefinesIdeal ==
  ASSUME InputsFit, ~OverflowsN
  PROVE  Spec => ImplementsIdeal
  <1>1. IInv /\ IInv' /\ CompareCorrect' /\ [Next]_vars => [Ideal!Next]_(Ideal!vars)
    BY RefinesStep
  <1>2. Spec => []CompareCorrect
    BY ComparesCorrectly
  <1> QED
    BY <1>1, <1>2, RefinesInit, Inductive, PTL DEF Spec, ImplementsIdeal, Ideal!Spec
=============================================================================
