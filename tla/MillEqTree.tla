----------------------------- MODULE MillEqTree -----------------------------
(***************************************************************************)
(* MillionaireWithEquality::compare_with_eq for one lane: one run of the   *)
(* protocol gives the parties shares of "greater" and of "equal".  Every   *)
(* node of the tree has two ANDs, cmp_j AND eq_{j+i} and eq_j AND eq_{j+i},*)
(* which use a pair of correlated triples: the pair has one b, because     *)
(* the second operand is the same.                                         *)
(***************************************************************************)
EXTENDS Bits, Sequences, FiniteSets

CONSTANTS
  Bitlength,   \* l, the width of the inputs
  RadixBase,   \* beta, the width of a digit
  Inputs,      \* the values the parties may hold
  Orders,      \* the values of greater_than to compare with
  Tapes,       \* the random bits the parties may draw
  Cap          \* how many chunks a socket holds before send_data blocks

ALICE == "ALICE"
BOB == "BOB"
Party == {ALICE, BOB}
Peer(p) == IF p = ALICE THEN BOB ELSE ALICE

------------------------------------------------------------------------------
\* configure
NumDigits == CeilDiv(Bitlength, RadixBase)
NumTriples == 2 * NumDigits - 2
Rest == Bitlength % RadixBase
BetaPow == 2^RadixBase

Digits == 0..(NumDigits - 1)
Slots == 0..(NumTriples - 1)
Halves == {"e", "f"}

\* The slots 2k and 2k + 1 hold a correlated pair: the triples are
\* generated with offset num_cmps, and b[k] is the factor of both.
Pairs == 0..(NumDigits - 2)
Pair(s) == s \div 2

TapeType ==
  [maskCmp : [Digits -> Bit], maskEq : [Digits -> Bit],
   a : [Party -> [Slots -> Bit]], b : [Party -> [Pairs -> Bit]],
   c : [Slots -> Bit], junk : Bit]

MillEqAssumption ==
  /\ RadixBase \in 1..8
  /\ Bitlength \in 1..64
  /\ Cap \in Nat \ {0}
  /\ Inputs \subseteq Nat
  /\ Orders \subseteq BOOLEAN
  /\ Tapes \subseteq TapeType

VARIABLES
  data,      \* each party's input
  greater,   \* greater_than, which both parties pass
  tape,      \* the random bits of this execution
  pc,        \* where each party is
  cmp, eq,   \* leaf_res_cmp, leaf_res_eq: each party's shares, by node
  own,       \* ei and fi, by slot
  opened,    \* e and f: what a party receives, then the opened values
  cnt, old,  \* counter_triples_used, old_counter_triples_used: pairs
  lev, node, \* the loop variables i and j
  moved,     \* how many of its four transfers each exchange thread made
  wire       \* the two sockets, in the direction the tree uses them

inputVars == <<data, greater, tape>>
vars == <<inputVars, pc, cmp, eq, own, opened, cnt, old, lev, node, moved, wire>>

------------------------------------------------------------------------------
(* Leaves.                                                                 *)

Digit(v, i) ==
  (v \div 2^(i * RadixBase))
    % (IF i = NumDigits - 1 /\ Rest # 0 THEN 2^Rest ELSE BetaPow)

Beats(d, k) == IF greater THEN d > k ELSE d < k

\* mill->set_leaf_ot_messages with eq = true: two bits, comparison first.
LeafMessage(digit, k, i) ==
  2 * Xor(BitOf(Beats(digit, k)), tape.maskCmp[i])
    + Xor(BitOf(digit = k), tape.maskEq[i])

IsShort == Bitlength <= RadixBase

\* uint8_t N = 1 << bitlength, the number of messages of bitlen_lt_beta.
ShortN == 2^Bitlength % 256
ShortMask == (ShortN - 1) % 256

\* Past the N messages that were written Bob obtains what the allocation held.
ShortMessage(k) ==
  IF k < ShortN
  THEN LeafMessage(data[ALICE] % (ShortMask + 1), k, 0)
  ELSE 3 * tape.junk

\* Bob's shares in a message: res_eq = res_cmp & 1, then res_cmp >>= 1.
EqBit(m) == m % 2
CmpBitUnshifted(m) == m
CmpBit(m) == m \div 2

\* Alice draws her shares and offers the messages; the leaf OT is done when
\* Bob has made his choices.
LeafAlice ==
  /\ pc[ALICE] = "leaf"
  /\ cmp' = [cmp EXCEPT ![ALICE] = tape.maskCmp]
  /\ eq' = [eq EXCEPT ![ALICE] = tape.maskEq]
  /\ pc' = [pc EXCEPT ![ALICE] = IF IsShort THEN "done" ELSE "triples"]
  /\ UNCHANGED <<inputVars, own, opened, cnt, old, lev, node, moved, wire>>

LeafBob ==
  /\ pc[BOB] = "leaf" /\ pc[ALICE] # "leaf"
  /\ LET got == [i \in Digits |->
                   IF IsShort THEN ShortMessage(data[BOB] % (ShortMask + 1))
                   ELSE LeafMessage(Digit(data[ALICE], i), Digit(data[BOB], i), i)]
     IN  /\ cmp' = [cmp EXCEPT ![BOB] = [i \in Digits |-> CmpBit(got[i])]]
         /\ eq' = [eq EXCEPT ![BOB] = [i \in Digits |-> EqBit(got[i])]]
  /\ pc' = [pc EXCEPT ![BOB] = IF IsShort THEN "done" ELSE "triples"]
  /\ UNCHANGED <<inputVars, own, opened, cnt, old, lev, node, moved, wire>>

------------------------------------------------------------------------------
(* traverse_and_compute_ANDs.                                              *)

TripleC(p, k) ==
  IF p = ALICE THEN tape.c[k]
  ELSE Xor(tape.c[k], And(Xor(tape.a[ALICE][k], tape.a[BOB][k]),
                          Xor(tape.b[ALICE][Pair(k)], tape.b[BOB][Pair(k)])))

Generate(p) ==
  /\ pc[p] = "triples" /\ pc[Peer(p)] # "leaf"
  /\ pc' = [pc EXCEPT ![p] = "and1"]
  /\ UNCHANGED <<inputVars, cmp, eq, own, opened, cnt, old, lev, node, moved, wire>>

HasPartner(i, j) == j < NumDigits /\ j + i < NumDigits

NextNode(i, j) == j + 2 * i
LastOfLevel(p) == ~HasPartner(lev[p], NextNode(lev[p], node[p]))

\* The slots of the two ANDs of the node that the counter c stands for.
CmpSlot(c) == 2 * c
EqSlotHalf(c) == c + NumTriples \div 2
EqSlot(c) == 2 * c + 1

\* AND_step_1 for CMP_j and for EQ_j.
AndStep1(p) ==
  LET c == cnt[p]
      j == node[p]
      left(s) == IF s = CmpSlot(c) THEN cmp[p][j] ELSE eq[p][j]
      ofNode(s) == s \in {CmpSlot(c), EqSlot(c)}
  IN
  /\ pc[p] = "and1"
  /\ own' = [own EXCEPT
       ![p].e = [s \in Slots |-> IF ofNode(s) THEN Xor(tape.a[p][s], left(s)) ELSE @[s]],
       ![p].f = [s \in Slots |-> IF ofNode(s)
                   THEN Xor(tape.b[p][Pair(s)], eq[p][j + lev[p]]) ELSE @[s]]]
  /\ cnt' = [cnt EXCEPT ![p] = c + 1]
  /\ node' = [node EXCEPT ![p] = IF LastOfLevel(p) THEN 0 ELSE NextNode(lev[p], j)]
  /\ pc' = [pc EXCEPT ![p] = IF LastOfLevel(p) THEN "exchange" ELSE "and1"]
  /\ UNCHANGED <<inputVars, cmp, eq, opened, old, lev, moved, wire>>

\* The slots of a level: size_used of them from offset on.
SizeUsed(p) == 2 * (cnt[p] - old[p])
LevelSlots(p) == (2 * old[p])..(2 * cnt[p] - 1)

Threads == {"io", "rev"}
Sender(t) == IF t = "io" THEN ALICE ELSE BOB

\* Each thread transfers e twice and then f twice.
Transfers(p, t) == 4
ChunkHalf(n) == IF n < 2 THEN "e" ELSE "f"

SendChunk(p, t) ==
  LET h == ChunkHalf(moved[p][t])
  IN  /\ p = Sender(t) /\ pc[p] = "exchange" /\ moved[p][t] < Transfers(p, t)
      /\ Len(wire[t]) < Cap
      /\ wire' = [wire EXCEPT ![t] = Append(@,
                    [n \in 1..SizeUsed(p) |-> own[p][h][2 * old[p] + n - 1]])]
      /\ moved' = [moved EXCEPT ![p][t] = @ + 1]
      /\ UNCHANGED <<inputVars, pc, cmp, eq, own, opened, cnt, old, lev, node>>

\* The n-th element of a chunk; the two sizes agree while Lockstep holds.
Byte(chunk, n) == IF n <= Len(chunk) THEN chunk[n] ELSE tape.junk

RecvChunk(p, t) ==
  LET h == ChunkHalf(moved[p][t])
  IN  /\ p # Sender(t) /\ pc[p] = "exchange" /\ moved[p][t] < Transfers(p, t)
      /\ wire[t] # <<>>
      /\ opened' = [opened EXCEPT ![p][h] = [s \in Slots |->
           IF s \in LevelSlots(p) THEN Byte(Head(wire[t]), s - 2 * old[p] + 1) ELSE @[s]]]
      /\ wire' = [wire EXCEPT ![t] = Tail(@)]
      /\ moved' = [moved EXCEPT ![p][t] = @ + 1]
      /\ UNCHANGED <<inputVars, pc, cmp, eq, own, cnt, old, lev, node>>

\* The end of the parallel region, "Reconstruct e and f", and the rewind.
Arrived(p, t) == moved[p][t] = Transfers(p, t)
AllArrived(p) == \A t \in Threads : Arrived(p, t)

Join(p) ==
  /\ pc[p] = "exchange"
  /\ AllArrived(p)
  /\ opened' = [opened EXCEPT ![p] = [h \in Halves |-> [s \in Slots |->
       IF s \in LevelSlots(p) THEN Xor(@[h][s], own[p][h][s]) ELSE @[h][s]]]]
  /\ cnt' = [cnt EXCEPT ![p] = old[p]]
  /\ moved' = [moved EXCEPT ![p] = [t \in Threads |-> 0]]
  /\ pc' = [pc EXCEPT ![p] = "and2"]
  /\ UNCHANGED <<inputVars, cmp, eq, own, old, lev, node, wire>>

\* AND_step_2: the party's share of the product of slot s.
Product(p, s) ==
  LET e == opened[p].e[s]
      f == opened[p].f[s]
      ef == IF p = ALICE THEN And(e, f) ELSE 0
  IN  Xor(Xor(Xor(ef, And(f, tape.a[p][s])), And(e, tape.b[p][Pair(s)])), TripleC(p, s))

\* After the last node of a level old_counter_triples_used catches up.
OldAfter(p) == cnt[p] + 1

\* leaf_res_cmp[j] ^= leaf_res_cmp[j + i].
Merged(product, partner) == Xor(product, partner)

AndStep2(p) ==
  /\ pc[p] = "and2"
  /\ cmp' = [cmp EXCEPT ![p][node[p]] =
       Merged(Product(p, CmpSlot(cnt[p])), cmp[p][node[p] + lev[p]])]
  /\ eq' = [eq EXCEPT ![p][node[p]] = Product(p, EqSlot(cnt[p]))]
  /\ cnt' = [cnt EXCEPT ![p] = @ + 1]
  /\ node' = [node EXCEPT ![p] = IF LastOfLevel(p) THEN 0 ELSE NextNode(lev[p], @)]
  /\ IF LastOfLevel(p)
     THEN /\ old' = [old EXCEPT ![p] = OldAfter(p)]
          /\ lev' = [lev EXCEPT ![p] = 2 * @]
          /\ pc' = [pc EXCEPT ![p] = IF 2 * lev[p] >= NumDigits THEN "done" ELSE "and1"]
     ELSE UNCHANGED <<old, lev, pc>>
  /\ UNCHANGED <<inputVars, own, opened, moved, wire>>

------------------------------------------------------------------------------
Init ==
  /\ data \in [Party -> Inputs]
  /\ greater \in Orders
  /\ tape \in Tapes
  /\ pc = [p \in Party |-> "leaf"]
  /\ cmp = [p \in Party |-> [i \in Digits |-> tape.junk]]
  /\ eq = cmp
  /\ own = [p \in Party |-> [h \in Halves |-> [s \in Slots |-> tape.junk]]]
  /\ opened = own
  /\ cnt = [p \in Party |-> 0] /\ old = cnt /\ node = cnt
  /\ lev = [p \in Party |-> 1]
  /\ moved = [p \in Party |-> [t \in Threads |-> 0]]
  /\ wire = [t \in Threads |-> <<>>]

Local(p) == Generate(p) \/ AndStep1(p) \/ Join(p) \/ AndStep2(p)
Thread(p, t) == SendChunk(p, t) \/ RecvChunk(p, t)
Done == \A p \in Party : pc[p] = "done"

Next ==
  \/ LeafAlice
  \/ LeafBob
  \/ \E p \in Party : Local(p)
  \/ \E p \in Party, t \in Threads : Thread(p, t)

\* Every party and every thread is a running thread of its process.
Fairness ==
  /\ WF_vars(LeafAlice) /\ WF_vars(LeafBob)
  /\ \A p \in Party : WF_vars(Local(p))
  /\ \A p \in Party, t \in Threads : WF_vars(Thread(p, t))

Spec == Init /\ [][Next]_vars
FairSpec == Spec /\ Fairness

------------------------------------------------------------------------------
\* Every variable stays in its domain, so no AND of either pass and no chunk
\* leaves the arrays of num_triples slots, whatever the shape of the tree.
TypeOK ==
  /\ data \in [Party -> Inputs]
  /\ greater \in BOOLEAN
  /\ tape \in TapeType
  /\ pc \in [Party -> {"leaf", "triples", "and1", "exchange", "and2", "done"}]
  /\ cmp \in [Party -> [Digits -> Bit]]
  /\ eq \in [Party -> [Digits -> Bit]]
  /\ own \in [Party -> [Halves -> [Slots -> Bit]]]
  /\ opened \in [Party -> [Halves -> [Slots -> Bit]]]
  /\ cnt \in [Party -> 0..(NumDigits - 1)]
  /\ old \in [Party -> 0..(NumDigits - 1)]
  /\ lev \in [Party -> 1..(2 * NumDigits)]
  /\ node \in [Party -> Digits]
  /\ moved \in [Party -> [Threads -> 0..4]]
  /\ \A t \in Threads : Len(wire[t]) <= Cap
  /\ \A p \in Party : pc[p] \in {"and1", "and2"} =>
       {CmpSlot(cnt[p]), EqSlot(cnt[p])} \subseteq Slots /\ node[p] + lev[p] \in Digits

RangeBeats(lo, hi) ==
  \E m \in lo..(hi - 1) :
    /\ Beats(Digit(data[ALICE], m), Digit(data[BOB], m))
    /\ \A n \in (m + 1)..(hi - 1) : Digit(data[ALICE], n) = Digit(data[BOB], n)
RangeEqual(lo, hi) ==
  \A m \in lo..(hi - 1) : Digit(data[ALICE], m) = Digit(data[BOB], m)

\* At the same level of the tree the shares of every live node, node 0
\* included, xor to the comparison and to the equality of the digits it
\* stands for, although both are replaced in place.
NodesReconstruct ==
  ~IsShort /\ lev[ALICE] = lev[BOB]
    /\ (\A p \in Party : pc[p] \in {"triples", "and1", "exchange", "done"}) =>
  \A j \in Digits : j % lev[ALICE] = 0 =>
    LET hi == IF j + lev[ALICE] < NumDigits THEN j + lev[ALICE] ELSE NumDigits
    IN  /\ Xor(cmp[ALICE][j], cmp[BOB][j]) = BitOf(RangeBeats(j, hi))
        /\ Xor(eq[ALICE][j], eq[BOB][j]) = BitOf(RangeEqual(j, hi))

\* A correlated pair has one factor b.  Both of its slots must mask the same
\* share with it: if they masked two different ones, the two values f that
\* are sent would reveal the xor of the shares.
SharedMask ==
  \A p \in Party : \A s, t \in Slots :
    Pair(s) = Pair(t) => own[p].f[s] = own[p].f[t]

\* The tree uses up the triples: assert(2 * counter_triples_used == num_triples).
TriplesExhausted ==
  \A p \in Party : pc[p] = "done" /\ ~IsShort => 2 * cnt[p] = NumTriples

\* Both parties end, however little the sockets hold.
Termination == <>Done

NoShare == 2
Out(share) == [p \in Party |-> IF pc[p] = "done" THEN share[p][0] ELSE NoShare]
Order == INSTANCE IdealCompare WITH
  truth <- BitOf(Beats(data[ALICE], data[BOB])), out <- Out(cmp)
Equal == INSTANCE IdealCompare WITH
  truth <- BitOf(data[ALICE] = data[BOB]), out <- Out(eq)

=============================================================================
