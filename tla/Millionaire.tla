---------------------------- MODULE Millionaire -----------------------------
(***************************************************************************)
(* MillionaireProtocol::compare for one comparison: the radix digits of    *)
(* the two inputs, the leaf OTs that give both parties shares of "digit    *)
(* greater" and "digit equal", and the AND tree that merges them, with     *)
(* the two threads that exchange the masked operands of one tree level.    *)
(*                                                                         *)
(* The code runs num_cmps comparisons bitwise in parallel; the model is    *)
(* one lane of it, so a run of num_cmps/8 bytes is one bit here.  The OTs  *)
(* and the bit triples are the functionalities that the modules SplitOT    *)
(* and BitTriples describe.  WAN_EXEC is defined in the source, so every   *)
(* triple is a standard one and every leaf OT has 2^beta messages.         *)
(***************************************************************************)
EXTENDS Bits, Sequences, FiniteSets

CONSTANTS
  Bitlength,   \* l, the width of the inputs
  RadixBase,   \* beta, the width of a digit
  Inputs,      \* the values the parties may hold
  Orders,      \* the values of greater_than to compare with
  Tapes,       \* the random bits the parties may draw
  Cap          \* how many units a socket holds before send_data blocks

ALICE == "ALICE"
BOB == "BOB"
Party == {ALICE, BOB}
Peer(p) == IF p = ALICE THEN BOB ELSE ALICE

------------------------------------------------------------------------------
\* configure(bitlength, radix_base)
NumDigits == CeilDiv(Bitlength, RadixBase)
NumTriplesStd == CeilLog2(NumDigits)
NumTriplesCorr == 2 * NumDigits - 2 - 2 * NumTriplesStd
NumTriplesOneLess == NumTriplesStd + NumTriplesCorr - 1
NumTriplesAllPairs == 2 * NumDigits - 2
NumTriples == NumTriplesStd + NumTriplesCorr
LastWidth == Bitlength % RadixBase

Digits == 0..(NumDigits - 1)
Slots == 0..(NumTriples - 1)

ASSUME WidthAssumption ==
  /\ RadixBase \in 1..8
  /\ Bitlength \in 1..64
  /\ Cap \in Nat \ {0}

\* What Alice's and Bob's PRGs produce in one execution, and the content of
\* freshly allocated memory.
TapeType ==
  [maskCmp : [Digits -> Bit], maskEq : [Digits -> Bit],
   a : [Party -> [Slots -> Bit]], b : [Party -> [Slots -> Bit]],
   c : [Slots -> Bit], junk : Bit]

ASSUME InputAssumption ==
  /\ Inputs \subseteq Nat
  /\ Orders \subseteq BOOLEAN
  /\ Tapes \subseteq TapeType

------------------------------------------------------------------------------
VARIABLES
  data,      \* each party's input
  greater,   \* greater_than, which both parties pass
  tape,      \* the random bits of this execution
  pc,        \* where each party is
  cmp, eq,   \* leaf_res_cmp, leaf_res_eq: each party's shares, by node
  own,       \* ei and fi: what each party sends, by slot
  opened,    \* e and f: what it receives, then the opened values, by slot
  cnt, old,  \* counter_std, counter_corr, counter_combined; old_counter_*
  lev, node, \* the loop variables i and j
  moved,     \* how many units each exchange thread has transferred
  wire,      \* the two sockets, in the direction the tree uses them
  pad        \* history: the triple that masked a slot, NoTriple before

inputVars == <<data, greater, tape>>
treeVars == <<cmp, eq, own, opened, cnt, old, lev, node, pad>>
vars == <<inputVars, pc, treeVars, moved, wire>>

NoTriple == -1
NoCount == [std |-> 0, corr |-> 0, comb |-> 0]

------------------------------------------------------------------------------
(* Leaves.                                                                 *)

\* The i-th digit of v from the least significant one.
Digit(v, i) ==
  (v \div 2^(i * RadixBase))
    % (IF i = NumDigits - 1 /\ LastWidth # 0 THEN 2^LastWidth ELSE 2^RadixBase)

Beats(d, k) == IF greater THEN d > k ELSE d < k


\* set_leaf_ot_messages: Alice's message for digit i if Bob's digit is k.
LeafMessage(i, k) ==
  LET d  == Digit(data[ALICE], i)
      c1 == Xor(BitOf(Beats(d, k)), tape.maskCmp[i])
      e1 == Xor(BitOf(d = k), tape.maskEq[i])
  IN  IF i = 0 THEN c1 ELSE 2 * c1 + e1

IsShort == Bitlength <= RadixBase

\* uint8_t N = 1 << bitlength, the number of messages of the short path.
ShortN == 2^Bitlength % 256
ShortMask == (ShortN - 1) % 256

\* The message for k of the short path.  Past the N messages that were
\* written Bob obtains whatever the allocation held.
ShortMessage(k) ==
  IF k < ShortN
  THEN Xor(BitOf(Beats(data[ALICE] % (ShortMask + 1), k)), tape.maskCmp[0])
  ELSE tape.junk

LeafAlice ==
  /\ pc[ALICE] = "leaf"
  /\ pc' = [pc EXCEPT ![ALICE] = IF IsShort THEN "done" ELSE "triples"]
  /\ cmp' = [cmp EXCEPT ![ALICE] = tape.maskCmp]
  /\ eq' = [eq EXCEPT ![ALICE] = tape.maskEq]
  /\ UNCHANGED <<inputVars, own, opened, cnt, old, lev, node, pad, moved, wire>>

\* The equality bit is the low bit of every message but the first digit's,
\* which has none (leaf_res_cmp >>= 1, from index num_cmps on).
CmpBitNoShift(i, m) == m
CmpBit(i, m) == IF i = 0 THEN m ELSE m \div 2
EqBit(i, m) == IF i = 0 THEN tape.junk ELSE m % 2

LeafBob ==
  LET got == [i \in Digits |-> LeafMessage(i, Digit(data[BOB], i))]
  IN  /\ pc[BOB] = "leaf" /\ pc[ALICE] # "leaf"
      /\ IF IsShort
         THEN /\ pc' = [pc EXCEPT ![BOB] = "done"]
              /\ cmp' = [cmp EXCEPT ![BOB][0] =
                           ShortMessage(data[BOB] % (ShortMask + 1))]
              /\ UNCHANGED eq
         ELSE /\ pc' = [pc EXCEPT ![BOB] = "triples"]
              /\ cmp' = [cmp EXCEPT ![BOB] = [i \in Digits |-> CmpBit(i, got[i])]]
              /\ eq' = [eq EXCEPT ![BOB] = [i \in Digits |-> EqBit(i, got[i])]]
      /\ UNCHANGED <<inputVars, own, opened, cnt, old, lev, node, pad, moved, wire>>

------------------------------------------------------------------------------
(* Bit triples: c0 ^ c1 = (a0 ^ a1) & (b0 ^ b1).                            *)

TripleC(p, k) ==
  LET product == And(Xor(tape.a[ALICE][k], tape.a[BOB][k]),
                     Xor(tape.b[ALICE][k], tape.b[BOB][k]))
  IN  IF p = ALICE THEN tape.c[k] ELSE Xor(tape.c[k], product)

\* triple_gen->generate needs both parties.
Generate(p) ==
  /\ pc[p] = "triples" /\ pc[Peer(p)] # "leaf"
  /\ pc' = [pc EXCEPT ![p] = "and1"]
  /\ UNCHANGED <<inputVars, treeVars, moved, wire>>

------------------------------------------------------------------------------
(* One level of the tree.  Node j merges the digits above j + i into those  *)
(* below.  Node 0 needs one AND and uses the slots from 0; the others need  *)
(* two and use the slots from num_triples_std.                              *)

HasPartner(i, j) == j + i < NumDigits

StdSlot(c) == c.std
CorrSlot(c) == NumTriplesStd + 2 * c.corr

\* The counters after the node j.
AdvanceOneTriple(c, j) ==
  IF j = 0 THEN [c EXCEPT !.std = @ + 1, !.comb = @ + 1]
           ELSE [c EXCEPT !.corr = @ + 1, !.comb = @ + 1]
Advance(c, j) ==
  IF j = 0 THEN [c EXCEPT !.std = @ + 1, !.comb = @ + 1]
           ELSE [c EXCEPT !.corr = @ + 1, !.comb = @ + 2]

\* The next node of the level, if there is one.
NextNode(i, j) == j + 2 * i

\* The slots node j's ANDs go through.
NodeSlots(c, j) == IF j = 0 THEN {StdSlot(c)} ELSE {CorrSlot(c), CorrSlot(c) + 1}
FirstSlot(c, j) == IF j = 0 THEN StdSlot(c) ELSE CorrSlot(c)

\* AND_step_1: slot t of the node masks its operands with the next unused
\* triple: cmp_j AND eq_{j+i} in the first slot, eq_j AND eq_{j+i} in the
\* second.
AndStep1(p) ==
  LET i == lev[p]
      j == node[p]
      c == cnt[p]
      s == FirstSlot(c, j)
      triple(t) == c.comb + (t - s)
      left(t) == IF t = s THEN cmp[p][j] ELSE eq[p][j]
      last == ~HasPartner(i, NextNode(i, j))
  IN
  /\ pc[p] = "and1"
  /\ own' = [own EXCEPT
       ![p].e = [t \in Slots |-> IF t \in NodeSlots(c, j)
                   THEN Xor(tape.a[p][triple(t)], left(t)) ELSE @[t]],
       ![p].f = [t \in Slots |-> IF t \in NodeSlots(c, j)
                   THEN Xor(tape.b[p][triple(t)], eq[p][j + i]) ELSE @[t]]]
  /\ pad' = [pad EXCEPT ![p] =
       [t \in Slots |-> IF t \in NodeSlots(c, j) THEN triple(t) ELSE @[t]]]
  /\ cnt' = [cnt EXCEPT ![p] = Advance(@, j)]
  /\ node' = [node EXCEPT ![p] = IF last THEN 0 ELSE NextNode(i, j)]
  /\ pc' = [pc EXCEPT ![p] = IF last THEN "exchange" ELSE "and1"]
  /\ UNCHANGED <<inputVars, cmp, eq, opened, old, lev, moved, wire>>

------------------------------------------------------------------------------
(* The exchange: a parallel region of two threads.  Each makes four         *)
(* transfers, of e and then f, for the standard and then the other slots    *)
(* of the level; io carries Alice's values and io_rev Bob's.                *)

OneThread == {"io"}
Threads == {"io", "rev"}
Sender(t) == IF t = "io" THEN ALICE ELSE BOB

SizeStd(p) == cnt[p].std - old[p].std
SizeCorr(p) == 2 * (cnt[p].corr - old[p].corr)
HalfSize(p) == SizeStd(p) + SizeCorr(p)

\* The array and the slot of the n-th unit a thread transfers.
UnitField(p, n) == IF n < HalfSize(p) THEN "e" ELSE "f"
UnitSlot(p, n) ==
  LET m == IF n < HalfSize(p) THEN n ELSE n - HalfSize(p)
  IN  IF m < SizeStd(p) THEN old[p].std + m
                        ELSE CorrSlot(old[p]) + (m - SizeStd(p))

\* How many units the four transfers of party p's thread t make.
UnitsReadLong(p, t) == IF p = Sender(t) THEN 2 * HalfSize(p) ELSE 2 * HalfSize(p) + 1
Units(p, t) == 2 * HalfSize(p)

InExchange(p, t) == pc[p] = "exchange" /\ moved[p][t] < Units(p, t)

SendUnit(p, t) ==
  LET n == moved[p][t]
  IN  /\ p = Sender(t)
      /\ InExchange(p, t)
      /\ Len(wire[t]) < Cap
      /\ wire' = [wire EXCEPT ![t] =
                    Append(@, own[p][UnitField(p, n)][UnitSlot(p, n)])]
      /\ moved' = [moved EXCEPT ![p][t] = n + 1]
      /\ UNCHANGED <<inputVars, pc, treeVars>>

RecvUnit(p, t) ==
  LET n == moved[p][t]
  IN  /\ p # Sender(t)
      /\ InExchange(p, t)
      /\ wire[t] # <<>>
      /\ opened' = [opened EXCEPT ![p][UnitField(p, n)][UnitSlot(p, n)] =
                      Head(wire[t])]
      /\ wire' = [wire EXCEPT ![t] = Tail(@)]
      /\ moved' = [moved EXCEPT ![p][t] = n + 1]
      /\ UNCHANGED <<inputVars, pc, cmp, eq, own, cnt, old, lev, node, pad>>

\* The slots of the level party p is in.
LevelSlots(p) == {UnitSlot(p, n) : n \in 0..(HalfSize(p) - 1)}

\* The barrier at the end of the parallel region.
OneArrived(p) == \E t \in Threads : moved[p][t] = Units(p, t)
AllArrived(p) == \A t \in Threads : moved[p][t] = Units(p, t)

\* After the parallel region: e ^= ei and f ^= fi over the level, and
\* the counters go back for the second pass.
Join(p) ==
  /\ pc[p] = "exchange"
  /\ AllArrived(p)
  /\ opened' = [opened EXCEPT ![p] =
       [h \in {"e", "f"} |-> [s \in Slots |->
          IF s \in LevelSlots(p) THEN Xor(opened[p][h][s], own[p][h][s])
                                 ELSE opened[p][h][s]]]]
  /\ cnt' = [cnt EXCEPT ![p] = old[p]]
  /\ moved' = [moved EXCEPT ![p] = [t \in {"io", "rev"} |-> 0]]
  /\ pc' = [pc EXCEPT ![p] = "and2"]
  /\ UNCHANGED <<inputVars, cmp, eq, own, old, lev, node, wire, pad>>

------------------------------------------------------------------------------
(* AND_step_2: the party's share of the product masked in slot s by the     *)
(* triple k, and the merge of the partner's comparison share.               *)

ProductShareBoth(p, s, k) ==
  LET e == opened[p].e[s]
      f == opened[p].f[s]
  IN  Xor(Xor(Xor(And(e, f), And(f, tape.a[p][k])), And(e, tape.b[p][k])), TripleC(p, k))
ProductShare(p, s, k) ==
  LET e == opened[p].e[s]
      f == opened[p].f[s]
      ef == IF p = ALICE THEN And(e, f) ELSE 0
  IN  Xor(Xor(Xor(ef, And(f, tape.a[p][k])), And(e, tape.b[p][k])), TripleC(p, k))

\* leaf_res_cmp[j] ^= leaf_res_cmp[j + i], after the product is stored.
Merged(product, partner) == Xor(product, partner)

AndStep2(p) ==
  LET i == lev[p]
      j == node[p]
      k == cnt[p].comb
      s == FirstSlot(cnt[p], j)
      last == ~HasPartner(i, NextNode(i, j))
      top == 2 * i >= NumDigits
  IN
  /\ pc[p] = "and2"
  /\ cmp' = [cmp EXCEPT ![p][j] = Merged(ProductShare(p, s, k), cmp[p][j + i])]
  /\ eq' = IF j = 0 THEN eq ELSE [eq EXCEPT ![p][j] = ProductShare(p, s + 1, k + 1)]
  /\ cnt' = [cnt EXCEPT ![p] = Advance(@, j)]
  /\ node' = [node EXCEPT ![p] = IF last THEN 0 ELSE NextNode(i, j)]
  /\ IF last
     THEN /\ old' = [old EXCEPT ![p] = Advance(cnt[p], j)]
          /\ lev' = [lev EXCEPT ![p] = 2 * i]
          /\ pc' = [pc EXCEPT ![p] = IF top THEN "done" ELSE "and1"]
     ELSE UNCHANGED <<old, lev, pc>>
  /\ UNCHANGED <<inputVars, own, opened, moved, wire, pad>>

------------------------------------------------------------------------------
Init ==
  /\ data \in [Party -> Inputs]
  /\ greater \in Orders
  /\ tape \in Tapes
  /\ pc = [p \in Party |-> "leaf"]
  /\ cmp = [p \in Party |-> [i \in Digits |-> tape.junk]]
  /\ eq = [p \in Party |-> [i \in Digits |-> tape.junk]]
  /\ own = [p \in Party |-> [h \in {"e", "f"} |-> [s \in Slots |-> tape.junk]]]
  /\ opened = [p \in Party |-> [h \in {"e", "f"} |-> [s \in Slots |-> tape.junk]]]
  /\ cnt = [p \in Party |-> NoCount]
  /\ old = [p \in Party |-> NoCount]
  /\ lev = [p \in Party |-> 1]
  /\ node = [p \in Party |-> 0]
  /\ moved = [p \in Party |-> [t \in {"io", "rev"} |-> 0]]
  /\ wire = [t \in {"io", "rev"} |-> <<>>]
  /\ pad = [p \in Party |-> [s \in Slots |-> NoTriple]]

Local(p) == Generate(p) \/ AndStep1(p) \/ Join(p) \/ AndStep2(p)

Thread(p, t) == SendUnit(p, t) \/ RecvUnit(p, t)

Done == \A p \in Party : pc[p] = "done"

Next ==
  \/ LeafAlice
  \/ LeafBob
  \/ \E p \in Party : Local(p)
  \/ \E p \in Party, t \in Threads : Thread(p, t)

\* Every party and every thread is a running thread of its process, and a
\* blocking send or receive that can complete does.
Fairness ==
  /\ WF_vars(LeafAlice)
  /\ WF_vars(LeafBob)
  /\ \A p \in Party : WF_vars(Local(p))
  /\ \A p \in Party, t \in Threads : WF_vars(Thread(p, t))

Spec == Init /\ [][Next]_vars
FairSpec == Spec /\ Fairness

------------------------------------------------------------------------------
(* Properties.                                                              *)

\* Every variable stays in its domain, whatever the interleaving of the four
\* exchange threads.
TypeOK ==
  /\ data \in [Party -> Inputs]
  /\ greater \in BOOLEAN
  /\ tape \in TapeType
  /\ pc \in [Party -> {"leaf", "triples", "and1", "exchange", "and2", "done"}]
  /\ cmp \in [Party -> [Digits -> Bit]]
  /\ eq \in [Party -> [Digits -> Bit]]
  /\ own \in [Party -> [{"e", "f"} -> [Slots -> Bit]]]
  /\ opened \in [Party -> [{"e", "f"} -> [Slots -> Bit]]]
  /\ cnt \in [Party -> [std : Nat, corr : Nat, comb : Nat]]
  /\ old \in [Party -> [std : Nat, corr : Nat, comb : Nat]]
  /\ lev \in [Party -> Nat \ {0}]
  /\ node \in [Party -> Nat]
  /\ moved \in [Party -> [{"io", "rev"} -> Nat]]
  /\ wire \in [{"io", "rev"} -> Seq(Bit)]
  /\ pad \in [Party -> [Slots -> Nat \cup {NoTriple}]]

\* The comparison and the equality of the digits lo..hi-1 of the two inputs.
RangeBeats(lo, hi) ==
  \E m \in lo..(hi - 1) :
    /\ Beats(Digit(data[ALICE], m), Digit(data[BOB], m))
    /\ \A n \in (m + 1)..(hi - 1) : Digit(data[ALICE], n) = Digit(data[BOB], n)
RangeEqual(lo, hi) ==
  \A m \in lo..(hi - 1) : Digit(data[ALICE], m) = Digit(data[BOB], m)

RangeEnd(i, j) == IF j + i < NumDigits THEN j + i ELSE NumDigits

\* Whenever the two parties stand at the same level of the tree, their shares
\* of each live node j xor to the comparison (and, but for node 0, to the
\* equality) of the digits that node stands for: the in-place merges of
\* traverse_and_compute_ANDs never mix two levels or two nodes.
SharesOf(p) == pc[p] \in {"triples", "and1", "exchange", "done"}
NodesReconstruct ==
  (~IsShort /\ (\A p \in Party : SharesOf(p)) /\ lev[ALICE] = lev[BOB]) =>
    \A j \in Digits : j % lev[ALICE] = 0 =>
      LET hi == RangeEnd(lev[ALICE], j)
      IN  /\ Xor(cmp[ALICE][j], cmp[BOB][j]) = BitOf(RangeBeats(j, hi))
          /\ j > 0 => Xor(eq[ALICE][j], eq[BOB][j]) = BitOf(RangeEqual(j, hi))

\* compare leaves the parties with shares of data_A > data_B, or of
\* data_A < data_B, as greater_than asks.
CompareCorrect ==
  Done => Xor(cmp[ALICE][0], cmp[BOB][0]) = BitOf(Beats(data[ALICE], data[BOB]))

\* The value a party uses as e (f) in AND_step_2 is the xor of what the two
\* parties masked: nothing stale, unread or of another slot is opened.
OpenedAgree ==
  \A p \in Party : pc[p] = "and2" =>
    \A s \in NodeSlots(cnt[p], node[p]), h \in {"e", "f"} :
      opened[p][h][s] = Xor(own[ALICE][h][s], own[BOB][h][s])

\* A triple masks at most one slot, both parties mask a slot with the same
\* triple, and AND_step_2 finishes a slot with the triple that masked it,
\* although the counters were rewound in between.
OneTimePad ==
  /\ \A p \in Party : \A s, t \in Slots :
       s # t /\ pad[p][s] # NoTriple => pad[p][s] # pad[p][t]
  /\ \A s \in Slots : \/ NoTriple \in {pad[ALICE][s], pad[BOB][s]}
                      \/ pad[ALICE][s] = pad[BOB][s]
  /\ \A p \in Party : pc[p] = "and2" =>
       \A s \in NodeSlots(cnt[p], node[p]) :
         pad[p][s] = cnt[p].comb + (s - FirstSlot(cnt[p], node[p]))

\* Whatever the shape of the tree, the ANDs of a node stay inside the arrays
\* of num_triples elements, in the two passes and in the exchange, and a
\* node's partner is a digit.
InBounds ==
  \A p \in Party :
    /\ pc[p] \in {"and1", "and2"} =>
         /\ NodeSlots(cnt[p], node[p]) \subseteq Slots
         /\ \A s \in NodeSlots(cnt[p], node[p]) :
              cnt[p].comb + (s - FirstSlot(cnt[p], node[p])) \in Slots
         /\ node[p] + lev[p] \in Digits
    /\ pc[p] = "exchange" =>
         \A n \in 0..(2 * HalfSize(p) - 1) : UnitSlot(p, n) \in Slots

\* The tree consumes exactly the triples that were generated: the assertion
\* counter_combined == num_triples at the end of the traversal.
TriplesExhausted ==
  \A p \in Party : pc[p] = "done" /\ ~IsShort => cnt[p].comb = NumTriples

\* A party is at most one level ahead, and only of a party that has sent all
\* its own values and is still receiving or combining.
Lockstep ==
  \A p \in Party : lev[p] > lev[Peer(p)] =>
    /\ lev[p] = 2 * lev[Peer(p)]
    /\ pc[Peer(p)] \in {"exchange", "and2"}
    /\ pc[p] # "and2"

\* Both parties transfer the same number of units: nothing is left in a
\* socket for the next protocol to read.
NothingLeft == Done => \A t \in {"io", "rev"} : wire[t] = <<>>

\* The comparison ends: the four blocking threads never wait on each other
\* in a cycle, however small the sockets' buffers are.
Termination == <>Done

NoShare == 2
Ideal == INSTANCE IdealCompare WITH
  truth <- BitOf(Beats(data[ALICE], data[BOB])),
  out <- [p \in Party |-> IF pc[p] = "done" THEN cmp[p][0] ELSE NoShare]

\* Seen from its caller, compare is the ideal comparison: an output appears
\* once and never changes, and the second one completes the first.
ImplementsIdeal == Ideal!Spec
=============================================================================
