---------------------------- MODULE IdealCompare ----------------------------
(***************************************************************************)
(* What a comparison protocol promises to its caller: each party ends,     *)
(* once, with one bit, and the two bits xor to the outcome of the          *)
(* comparison of the two private inputs.  The outcome is fixed before      *)
(* anybody has an output; the share that is delivered first is any bit.    *)
(***************************************************************************)
EXTENDS Bits

CONSTANTS
  Party,     \* the two parties
  NoShare    \* the output of a party that has not finished

VARIABLES
  truth,     \* the outcome of the comparison, a bit
  out        \* each party's output

vars == <<truth, out>>

Init ==
  /\ truth \in Bit
  /\ out = [p \in Party |-> NoShare]

Deliver(p) ==
  /\ out[p] = NoShare
  /\ \E b \in Bit :
       /\ \A q \in Party \ {p} : out[q] # NoShare => Xor(b, out[q]) = truth
       /\ out' = [out EXCEPT ![p] = b]
  /\ UNCHANGED truth

Next == \E p \in Party : Deliver(p)

Spec == Init /\ [][Next]_vars
=============================================================================
