---------------------------- MODULE EqualityTree ----------------------------
(***************************************************************************)
(* Equality::check_equality for one lane: the leaf OTs that give the       *)
(* parties shares of "digit equal", and the tree of ANDs over them, each   *)
(* level masked with fresh triples and opened by two exchange threads.     *)
(*                                                                         *)
(* The tree of the equality test has one AND in every node, so slots,      *)
(* triples and the counter counter_triples_used all run together.  An      *)
(* element of a wire is one send_data, the chunk of a whole level; the     *)
(* unit-by-unit transfer is what Millionaire models.                       *)
(***************************************************************************)
EXTENDS Bits, Sequences, FiniteSets

CONSTANTS
  Bitlength,   \* l, the width of the inputs
  RadixBase,   \* beta, the width of a digit
  Inputs,      \* the values the parties may hold
  Tapes,       \* the random bits the parties may draw
  Cap          \* how many chunks a socket holds before send_data blocks

ALICE == "ALICE"
BOB == "BOB"
Party == {ALICE, BOB}
Peer(p) == IF p = ALICE THEN BOB ELSE ALICE

------------------------------------------------------------------------------
\* configure
NumDigits == CeilDiv(Bitlength, RadixBase)
NumTriples == NumDigits - 1
Rest == Bitlength % RadixBase
BetaPow == 2^RadixBase

Digits == 0..(NumDigits - 1)
Slots == 0..(NumTriples - 1)
Halves == {"e", "f"}

TapeType ==
  [mask : [Digits -> Bit], a : [Party -> [Slots -> Bit]],
   b : [Party -> [Slots -> Bit]], c : [Slots -> Bit], junk : Bit]

EqualityAssumption ==
  /\ RadixBase \in 1..8
  /\ Bitlength \in 1..64
  /\ Cap \in Nat \ {0}
  /\ Inputs \subseteq Nat
  /\ Tapes \subseteq TapeType

VARIABLES
  data,      \* each party's input
  tape,      \* the random bits of this execution
  pc,        \* where each party is
  eq,        \* leaf_res_eq: each party's shares, by node
  own,       \* ei and fi, by slot
  opened,    \* e and f: what a party receives, then the opened values
  cnt, old,  \* counter_triples_used, old_counter_triples_used
  lev, node, \* the loop variables i and j
  moved,     \* how many of its four transfers each exchange thread made
  wire       \* the two sockets, in the direction the tree uses them

inputVars == <<data, tape>>
vars == <<inputVars, pc, eq, own, opened, cnt, old, lev, node, moved, wire>>

------------------------------------------------------------------------------
(* Leaves.                                                                 *)

DigitNarrow(v, i) ==
  (v \div 2^(i * RadixBase)) % (IF Rest # 0 THEN 2^Rest ELSE BetaPow)
Digit(v, i) ==
  (v \div 2^(i * RadixBase))
    % (IF i = NumDigits - 1 /\ Rest # 0 THEN 2^Rest ELSE BetaPow)

\* set_leaf_ot_messages: the message for k of a digit.
LeafMessage(digit, k, mask) == Xor(BitOf(digit = k), mask)

IsShort == Bitlength <= RadixBase

\* uint8_t N = 1 << bitlength, the number of messages of bitlen_lt_beta.
ShortN == 2^Bitlength % 256
ShortMask == (ShortN - 1) % 256

\* Past the N messages that were written Bob obtains what the allocation held.
ShortMessage(k) ==
  IF k < ShortN
  THEN LeafMessage(data[ALICE] % (ShortMask + 1), k, tape.mask[0])
  ELSE tape.junk

\* Alice draws her shares and offers the messages; the leaf OT is done when
\* Bob has made his choices.
LeafAlice ==
  /\ pc[ALICE] = "leaf"
  /\ eq' = [eq EXCEPT ![ALICE] = tape.mask]
  /\ pc' = [pc EXCEPT ![ALICE] = IF IsShort THEN "done" ELSE "triples"]
  /\ UNCHANGED <<inputVars, own, opened, cnt, old, lev, node, moved, wire>>

LeafBob ==
  /\ pc[BOB] = "leaf" /\ pc[ALICE] # "leaf"
  /\ eq' = [eq EXCEPT ![BOB] =
       IF IsShort
       THEN [@ EXCEPT ![0] = ShortMessage(data[BOB] % (ShortMask + 1))]
       ELSE [i \in Digits |-> LeafMessage(Digit(data[ALICE], i),
                                          Digit(data[BOB], i), tape.mask[i])]]
  /\ pc' = [pc EXCEPT ![BOB] = IF IsShort THEN "done" ELSE "triples"]
  /\ UNCHANGED <<inputVars, own, opened, cnt, old, lev, node, moved, wire>>

------------------------------------------------------------------------------
(* traverse_and_compute_ANDs.                                              *)

TripleC(p, k) ==
  IF p = ALICE THEN tape.c[k]
  ELSE Xor(tape.c[k], And(Xor(tape.a[ALICE][k], tape.a[BOB][k]),
                          Xor(tape.b[ALICE][k], tape.b[BOB][k])))

Generate(p) ==
  /\ pc[p] = "triples" /\ pc[Peer(p)] # "leaf"
  /\ pc' = [pc EXCEPT ![p] = "and1"]
  /\ UNCHANGED <<inputVars, eq, own, opened, cnt, old, lev, node, moved, wire>>

HasPartner(i, j) == j < NumDigits /\ j + i < NumDigits

NextNode(i, j) == j + 2 * i
LastOfLevel(p) == ~HasPartner(lev[p], NextNode(lev[p], node[p]))

\* AND_step_1 for EQ_j: e = a + eq_j and f = b + eq_{j+i}.
AndStep1(p) ==
  LET c == cnt[p]
      j == node[p]
  IN
  /\ pc[p] = "and1"
  /\ own' = [own EXCEPT ![p].e[c] = Xor(tape.a[p][c], eq[p][j]),
                        ![p].f[c] = Xor(tape.b[p][c], eq[p][j + lev[p]])]
  /\ cnt' = [cnt EXCEPT ![p] = c + 1]
  /\ node' = [node EXCEPT ![p] = IF LastOfLevel(p) THEN 0 ELSE NextNode(lev[p], j)]
  /\ pc' = [pc EXCEPT ![p] = IF LastOfLevel(p) THEN "exchange" ELSE "and1"]
  /\ UNCHANGED <<inputVars, eq, opened, old, lev, moved, wire>>

\* The slots of a level: size_used of them from offset on.
SizeUsed(p) == cnt[p] - old[p]
LevelSlots(p) == old[p]..(cnt[p] - 1)

Threads == {"io", "rev"}
Sender(t) == IF t = "io" THEN ALICE ELSE BOB

\* Each thread transfers e twice and then f twice.
TransfersUnread(p, t) == IF p = Sender(t) THEN 4 ELSE 3
Transfers(p, t) == 4
ChunkHalf(n) == IF n < 2 THEN "e" ELSE "f"

SendChunk(p, t) ==
  LET h == ChunkHalf(moved[p][t])
  IN  /\ p = Sender(t) /\ pc[p] = "exchange" /\ moved[p][t] < Transfers(p, t)
      /\ Len(wire[t]) < Cap
      /\ wire' = [wire EXCEPT ![t] = Append(@,
                    [n \in 1..SizeUsed(p) |-> own[p][h][old[p] + n - 1]])]
      /\ moved' = [moved EXCEPT ![p][t] = @ + 1]
      /\ UNCHANGED <<inputVars, pc, eq, own, opened, cnt, old, lev, node>>

\* The n-th element of a chunk; the two sizes agree while Lockstep holds.
Byte(chunk, n) == IF n <= Len(chunk) THEN chunk[n] ELSE tape.junk

RecvChunk(p, t) ==
  LET h == ChunkHalf(moved[p][t])
  IN  /\ p # Sender(t) /\ pc[p] = "exchange" /\ moved[p][t] < Transfers(p, t)
      /\ wire[t] # <<>>
      /\ opened' = [opened EXCEPT ![p][h] = [s \in Slots |->
           IF s \in LevelSlots(p) THEN Byte(Head(wire[t]), s - old[p] + 1) ELSE @[s]]]
      /\ wire' = [wire EXCEPT ![t] = Tail(@)]
      /\ moved' = [moved EXCEPT ![p][t] = @ + 1]
      /\ UNCHANGED <<inputVars, pc, eq, own, cnt, old, lev, node>>

\* The end of the parallel region, "Reconstruct e and f", and the rewind.
Arrived(p, t) == moved[p][t] = Transfers(p, t)
AllArrived(p) == \A t \in Threads : Arrived(p, t)

Join(p) ==
  /\ pc[p] = "exchange"
  /\ AllArrived(p)
  /\ opened' = [opened EXCEPT ![p] = [h \in Halves |-> [s \in Slots |->
       IF s \in LevelSlots(p) THEN Xor(@[h][s], own[p][h][s]) ELSE @[h][s]]]]
  /\ cnt' = [cnt EXCEPT ![p] = old[p]]
  /\ moved' = [moved EXCEPT ![p] = [t \in Threads |-> 0]]
  /\ pc' = [pc EXCEPT ![p] = "and2"]
  /\ UNCHANGED <<inputVars, eq, own, old, lev, node, wire>>

\* AND_step_2: the party's share of eq_j AND eq_{j+i}.
Product(p, s) ==
  LET e == opened[p].e[s]
      f == opened[p].f[s]
      ef == IF p = ALICE THEN And(e, f) ELSE 0
  IN  Xor(Xor(Xor(ef, And(f, tape.a[p][s])), And(e, tape.b[p][s])), TripleC(p, s))

\* After the last node of a level old_counter_triples_used catches up.
OldAfter(p) == cnt[p] + 1

AndStep2(p) ==
  /\ pc[p] = "and2"
  /\ eq' = [eq EXCEPT ![p][node[p]] = Product(p, cnt[p])]
  /\ cnt' = [cnt EXCEPT ![p] = @ + 1]
  /\ node' = [node EXCEPT ![p] = IF LastOfLevel(p) THEN 0 ELSE NextNode(lev[p], @)]
  /\ IF LastOfLevel(p)
     THEN /\ old' = [old EXCEPT ![p] = OldAfter(p)]
          /\ lev' = [lev EXCEPT ![p] = 2 * @]
          /\ pc' = [pc EXCEPT ![p] = IF 2 * lev[p] >= NumDigits THEN "done" ELSE "and1"]
     ELSE UNCHANGED <<old, lev, pc>>
  /\ UNCHANGED <<inputVars, own, opened, moved, wire>>

------------------------------------------------------------------------------
Init ==
  /\ data \in [Party -> Inputs]
  /\ tape \in Tapes
  /\ pc = [p \in Party |-> "leaf"]
  /\ eq = [p \in Party |-> [i \in Digits |-> tape.junk]]
  /\ own = [p \in Party |-> [h \in Halves |-> [s \in Slots |-> tape.junk]]]
  /\ opened = own
  /\ cnt = [p \in Party |-> 0] /\ old = cnt /\ node = cnt
  /\ lev = [p \in Party |-> 1]
  /\ moved = [p \in Party |-> [t \in Threads |-> 0]]
  /\ wire = [t \in Threads |-> <<>>]

Local(p) == Generate(p) \/ AndStep1(p) \/ Join(p) \/ AndStep2(p)
Thread(p, t) == SendChunk(p, t) \/ RecvChunk(p, t)
Done == \A p \in Party : pc[p] = "done"

Next ==
  \/ LeafAlice
  \/ LeafBob
  \/ \E p \in Party : Local(p)
  \/ \E p \in Party, t \in Threads : Thread(p, t)

\* Every party and every thread is a running thread of its process.
Fairness ==
  /\ WF_vars(LeafAlice) /\ WF_vars(LeafBob)
  /\ \A p \in Party : WF_vars(Local(p))
  /\ \A p \in Party, t \in Threads : WF_vars(Thread(p, t))

Spec == Init /\ [][Next]_vars
FairSpec == Spec /\ Fairness

------------------------------------------------------------------------------
\* Every variable stays in its domain, so no AND of either pass and no chunk
\* leaves the arrays of num_triples slots, whatever the shape of the tree.
TypeOK ==
  /\ data \in [Party -> Inputs]
  /\ tape \in TapeType
  /\ pc \in [Party -> {"leaf", "triples", "and1", "exchange", "and2", "done"}]
  /\ eq \in [Party -> [Digits -> Bit]]
  /\ own \in [Party -> [Halves -> [Slots -> Bit]]]
  /\ opened \in [Party -> [Halves -> [Slots -> Bit]]]
  /\ cnt \in [Party -> 0..NumTriples]
  /\ old \in [Party -> 0..NumTriples]
  /\ lev \in [Party -> 1..(2 * NumDigits)]
  /\ node \in [Party -> Digits]
  /\ moved \in [Party -> [Threads -> 0..4]]
  /\ \A t \in Threads : Len(wire[t]) <= Cap
  /\ \A p \in Party : pc[p] \in {"and1", "and2"} =>
       cnt[p] \in Slots /\ node[p] + lev[p] \in Digits

\* The digits lo..hi-1 of the two inputs are equal.
RangeEqual(lo, hi) ==
  \A m \in lo..(hi - 1) : Digit(data[ALICE], m) = Digit(data[BOB], m)

\* At the same level of the tree the shares of every live node xor to the
\* equality of the digits it stands for: the in-place products of
\* traverse_and_compute_ANDs never mix nodes, levels or triples.
NodesReconstruct ==
  ~IsShort /\ lev[ALICE] = lev[BOB]
    /\ (\A p \in Party : pc[p] \in {"triples", "and1", "exchange", "done"}) =>
  \A j \in Digits : j % lev[ALICE] = 0 =>
    Xor(eq[ALICE][j], eq[BOB][j])
      = BitOf(RangeEqual(j, IF j + lev[ALICE] < NumDigits THEN j + lev[ALICE]
                            ELSE NumDigits))

\* check_equality leaves the parties with shares of data_A = data_B.
EqualityCorrect ==
  Done => Xor(eq[ALICE][0], eq[BOB][0]) = BitOf(data[ALICE] = data[BOB])

\* A party that has left the parallel region has the values both parties
\* masked: a chunk sent twice is also consumed twice, so the duplicate of e
\* is never read as f and none is left for the next level.
OpenedAgree ==
  /\ \A p \in Party : pc[p] = "and2" =>
       \A h \in Halves : opened[p][h][cnt[p]]
          = Xor(own[ALICE][h][cnt[p]], own[BOB][h][cnt[p]])
  /\ Done => \A t \in Threads : wire[t] = <<>>

\* The levels of the tree use up the triples that were generated: the
\* assertion counter_triples_used == num_triples at the end.
TriplesExhausted == \A p \in Party : pc[p] = "done" /\ ~IsShort => cnt[p] = NumTriples

\* A party leaves a level only when the other has sent all of its values for
\* it: it never opens a value with a chunk of another level.
Lockstep ==
  \A p \in Party : lev[p] > lev[Peer(p)] =>
    lev[p] = 2 * lev[Peer(p)] /\ pc[Peer(p)] \in {"exchange", "and2"} /\ pc[p] # "and2"

\* Both parties end, however little the sockets hold.
Termination == <>Done
=============================================================================
