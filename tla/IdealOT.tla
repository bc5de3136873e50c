------------------------------ MODULE IdealOT -------------------------------
(***************************************************************************)
(* What a session of 1-out-of-N oblivious transfers promises (OTIdeal,     *)
(* ideal.h): call after call, the receiver obtains, of each OT, the        *)
(* message that its choice names, and nothing of the others.               *)
(***************************************************************************)
EXTENDS Naturals, Sequences

VARIABLES
  program,  \* the calls of the session
  choice,   \* the receiver's choices: choice[c][i] for the i-th OT of call c
  results   \* what the receiver has obtained, call after call

vars == <<program, choice, results>>

\* Message k of the i-th OT of call c.
Message(c, i, k) == <<c, i, k>>

Chosen(c) == [i \in DOMAIN choice[c] |-> Message(c, i, choice[c][i])]

Init == results = <<>>

Deliver ==
  /\ Len(results) < Len(program)
  /\ results' = Append(results, Chosen(Len(results) + 1))
  /\ UNCHANGED <<program, choice>>

Spec == Init /\ [][Deliver]_vars
=============================================================================
