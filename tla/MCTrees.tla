------------------------------ MODULE MCTrees ------------------------------
(***************************************************************************)
(* Instances of the three protocols that fold a tree of digits, for TLC:   *)
(* Millionaire, EqualityTree and MillEqTree.  A behaviour is one of them,  *)
(* of the size that "on" names; they never meet, and what a protocol does  *)
(* not use stays Off.                                                      *)
(***************************************************************************)
EXTENDS Bits, Sequences, FiniteSets

VARIABLES on, data, greater, tape, pc, cmp, eq, own, opened, cnt, old, lev, node,
          moved, wire, pad

vars == <<on, data, greater, tape, pc, cmp, eq, own, opened, cnt, old, lev, node,
          moved, wire, pad>>

Off == "off"

\* Random bits of one execution with n digits and m slots: a fixed irregular
\* pattern, so that no share, mask or triple is constant.
Pattern(seed, k) == ((seed * (k + 3) * (k + 3) + k + seed) \div 3) % 2
Bits(seed, n) == [k \in 0..(n - 1) |-> Pattern(seed, k)]
Both(x, y, n) == [p \in {"ALICE", "BOB"} |-> Bits(IF p = "ALICE" THEN x ELSE y, n)]
MillTape(seed, n) ==
  LET m == 2 * n - 2 - CeilLog2(n)
  IN  [maskCmp |-> Bits(seed, n), maskEq |-> Bits(seed + 1, n),
       a |-> Both(seed + 2, seed + 5, m), b |-> Both(seed + 3, seed + 7, m),
       c |-> Bits(seed + 4, m), junk |-> seed % 2]
EqTape(seed, n) ==
  [mask |-> Bits(seed, n), a |-> Both(seed + 2, seed + 5, n - 1),
   b |-> Both(seed + 3, seed + 7, n - 1), c |-> Bits(seed + 4, n - 1), junk |-> seed % 2]
MillEqTape(seed, n) ==
  [maskCmp |-> Bits(seed, n), maskEq |-> Bits(seed + 1, n),
   a |-> Both(seed + 2, seed + 5, 2 * n - 2), b |-> Both(seed + 3, seed + 7, n - 1),
   c |-> Bits(seed + 4, 2 * n - 2), junk |-> seed % 2]

MillTwo(n) == {MillTape(2, n), MillTape(7, n)}
EqTwo(n) == {EqTape(1, n), EqTape(3, n)}
MillEqTwo(n) == {MillEqTape(1, n), MillEqTape(3, n)}

Some == {0, 1, 5, 9, 13, 21, 29, 31}
Ends == {0, 1, 16, 31}

\* Two digits of two bits and one of a single bit.
MillUneven == INSTANCE Millionaire WITH Bitlength <- 5, RadixBase <- 2, Inputs <- Some,
  Orders <- BOOLEAN, Tapes <- MillTwo(3), Cap <- 2
EqUneven == INSTANCE EqualityTree WITH Bitlength <- 5, RadixBase <- 2, Inputs <- Some,
  Tapes <- EqTwo(3), Cap <- 2
MillEqUneven == INSTANCE MillEqTree WITH Bitlength <- 5, RadixBase <- 2, Inputs <- Some,
  Orders <- BOOLEAN, Tapes <- MillEqTwo(3), Cap <- 1
\* Five digits, three levels of the tree, and sockets of one message.
MillDeep == INSTANCE Millionaire WITH Bitlength <- 5, RadixBase <- 1, Inputs <- Ends,
  Orders <- {TRUE}, Tapes <- {MillTape(7, 5)}, Cap <- 1
EqDeep == INSTANCE EqualityTree WITH Bitlength <- 5, RadixBase <- 1, Inputs <- Ends,
  Tapes <- EqTwo(5), Cap <- 1
MillEqDeep == INSTANCE MillEqTree WITH Bitlength <- 5, RadixBase <- 1, Inputs <- Ends,
  Orders <- {TRUE}, Tapes <- MillEqTwo(5), Cap <- 1
\* An input of a single digit, which takes the short path.
MillShort == INSTANCE Millionaire WITH Bitlength <- 3, RadixBase <- 4, Inputs <- 0..7,
  Orders <- BOOLEAN, Tapes <- MillTwo(1), Cap <- 1

ASSUME MillUneven!WidthAssumption /\ MillUneven!InputAssumption
ASSUME MillDeep!WidthAssumption /\ MillDeep!InputAssumption
ASSUME MillShort!WidthAssumption /\ MillShort!InputAssumption
ASSUME EqUneven!EqualityAssumption /\ EqDeep!EqualityAssumption
ASSUME MillEqUneven!MillEqAssumption /\ MillEqDeep!MillEqAssumption

Init ==
  \/ on = "MillUneven" /\ MillUneven!Init
  \/ on = "MillDeep" /\ MillDeep!Init
  \/ on = "MillShort" /\ MillShort!Init
  \/ on = "EqUneven" /\ EqUneven!Init /\ greater = Off /\ cmp = Off /\ pad = Off
  \/ on = "EqDeep" /\ EqDeep!Init /\ greater = Off /\ cmp = Off /\ pad = Off
  \/ on = "MillEqUneven" /\ MillEqUneven!Init /\ pad = Off
  \/ on = "MillEqDeep" /\ MillEqDeep!Init /\ pad = Off

LeafAlice ==
  \/ on = "MillUneven" /\ MillUneven!LeafAlice /\ UNCHANGED on
  \/ on = "MillDeep" /\ MillDeep!LeafAlice /\ UNCHANGED on
  \/ on = "MillShort" /\ MillShort!LeafAlice /\ UNCHANGED on
  \/ on = "EqUneven" /\ EqUneven!LeafAlice /\ UNCHANGED <<on, greater, cmp, pad>>
  \/ on = "EqDeep" /\ EqDeep!LeafAlice /\ UNCHANGED <<on, greater, cmp, pad>>
  \/ on = "MillEqUneven" /\ MillEqUneven!LeafAlice /\ UNCHANGED <<on, pad>>
  \/ on = "MillEqDeep" /\ MillEqDeep!LeafAlice /\ UNCHANGED <<on, pad>>

LeafBob ==
  \/ on = "MillUneven" /\ MillUneven!LeafBob /\ UNCHANGED on
  \/ on = "MillDeep" /\ MillDeep!LeafBob /\ UNCHANGED on
  \/ on = "MillShort" /\ MillShort!LeafBob /\ UNCHANGED on
  \/ on = "EqUneven" /\ EqUneven!LeafBob /\ UNCHANGED <<on, greater, cmp, pad>>
  \/ on = "EqDeep" /\ EqDeep!LeafBob /\ UNCHANGED <<on, greater, cmp, pad>>
  \/ on = "MillEqUneven" /\ MillEqUneven!LeafBob /\ UNCHANGED <<on, pad>>
  \/ on = "MillEqDeep" /\ MillEqDeep!LeafBob /\ UNCHANGED <<on, pad>>

\* A single digit has no tree.
Local(p) ==
  \/ on = "MillUneven" /\ MillUneven!Local(p) /\ UNCHANGED on
  \/ on = "MillDeep" /\ MillDeep!Local(p) /\ UNCHANGED on
  \/ on = "EqUneven" /\ EqUneven!Local(p) /\ UNCHANGED <<on, greater, cmp, pad>>
  \/ on = "EqDeep" /\ EqDeep!Local(p) /\ UNCHANGED <<on, greater, cmp, pad>>
  \/ on = "MillEqUneven" /\ MillEqUneven!Local(p) /\ UNCHANGED <<on, pad>>
  \/ on = "MillEqDeep" /\ MillEqDeep!Local(p) /\ UNCHANGED <<on, pad>>

Thread(p, t) ==
  \/ on = "MillUneven" /\ MillUneven!Thread(p, t) /\ UNCHANGED on
  \/ on = "MillDeep" /\ MillDeep!Thread(p, t) /\ UNCHANGED on
  \/ on = "EqUneven" /\ EqUneven!Thread(p, t) /\ UNCHANGED <<on, greater, cmp, pad>>
  \/ on = "EqDeep" /\ EqDeep!Thread(p, t) /\ UNCHANGED <<on, greater, cmp, pad>>
  \/ on = "MillEqUneven" /\ MillEqUneven!Thread(p, t) /\ UNCHANGED <<on, pad>>
  \/ on = "MillEqDeep" /\ MillEqDeep!Thread(p, t) /\ UNCHANGED <<on, pad>>

Party == {"ALICE", "BOB"}
Next ==
  \/ LeafAlice
  \/ LeafBob
  \/ \E p \in Party : Local(p)
  \/ \E p \in Party, t \in {"io", "rev"} : Thread(p, t)

Spec == Init /\ [][Next]_vars
\* The fairness of the three modules.
FairSpec ==
  /\ Spec
  /\ WF_vars(LeafAlice) /\ WF_vars(LeafBob)
  /\ \A p \in Party : WF_vars(Local(p))
  /\ \A p \in Party, t \in {"io", "rev"} : WF_vars(Thread(p, t))

------------------------------------------------------------------------------
\* At the same level the two parties' shares of every live node xor to the
\* comparison and the equality of the digits it stands for, although the trees
\* replace them in place; and what a protocol leaves is a sharing of its result,
\* for one short digit and for a last digit that is narrower than the others.
SharesCorrect ==
  /\ on = "MillUneven" => MillUneven!NodesReconstruct /\ MillUneven!CompareCorrect
  /\ on = "MillDeep" => MillDeep!NodesReconstruct /\ MillDeep!CompareCorrect
  /\ on = "MillShort" => MillShort!CompareCorrect
  /\ on = "EqUneven" => EqUneven!NodesReconstruct /\ EqUneven!EqualityCorrect
  /\ on = "EqDeep" => EqDeep!NodesReconstruct /\ EqDeep!EqualityCorrect
  /\ on = "MillEqUneven" => MillEqUneven!NodesReconstruct
  /\ on = "MillEqDeep" => MillEqDeep!NodesReconstruct

\* The parties stay in step: a value that is opened is the xor of what both
\* masked for the same AND, a chunk that check_equality sends twice is consumed
\* twice, a party leaves a level only when the other has sent all of it, and
\* the tree uses up the triples that were generated, no more and no fewer.
InStep ==
  /\ on = "MillUneven" =>
       /\ MillUneven!TypeOK /\ MillUneven!OpenedAgree /\ MillUneven!NothingLeft
       /\ MillUneven!TriplesExhausted
  /\ on = "MillDeep" =>
       /\ MillDeep!TypeOK /\ MillDeep!OpenedAgree /\ MillDeep!NothingLeft
       /\ MillDeep!Lockstep /\ MillDeep!TriplesExhausted
  /\ on = "EqUneven" =>
       /\ EqUneven!TypeOK /\ EqUneven!OpenedAgree /\ EqUneven!Lockstep
       /\ EqUneven!TriplesExhausted
  /\ on = "EqDeep" =>
       /\ EqDeep!TypeOK /\ EqDeep!OpenedAgree /\ EqDeep!Lockstep /\ EqDeep!TriplesExhausted
  /\ on = "MillEqUneven" => MillEqUneven!TypeOK /\ MillEqUneven!TriplesExhausted
  /\ on = "MillEqDeep" => MillEqDeep!TypeOK /\ MillEqDeep!TriplesExhausted

\* The two slots of a correlated pair mask the same share with their common
\* factor: two different ones would reveal their xor.
SharedMask ==
  /\ on = "MillEqUneven" => MillEqUneven!SharedMask
  /\ on = "MillEqDeep" => MillEqDeep!SharedMask

\* Seen from its caller, compare is the ideal comparison, and one run of
\* compare_with_eq the ideal comparison and the ideal equality test at once: an
\* output appears once, never changes, and the second one completes the first.
ImplementsIdeals ==
  /\ on = "MillUneven" => MillUneven!Ideal!Init
  /\ on = "MillEqUneven" => MillEqUneven!Order!Init /\ MillEqUneven!Equal!Init
  /\ [][/\ on = "MillUneven" => [MillUneven!Ideal!Next]_(MillUneven!Ideal!vars)
        /\ on = "MillEqUneven" =>
             /\ [MillEqUneven!Order!Next]_(MillEqUneven!Order!vars)
             /\ [MillEqUneven!Equal!Next]_(MillEqUneven!Equal!vars)]_vars

\* Both parties of every protocol end, however little the sockets hold.
Termination == <>(\A p \in Party : pc[p] = "done")
=============================================================================
