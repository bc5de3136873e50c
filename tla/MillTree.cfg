SPECIFICATION Spec
CONSTANTS
  Bitlength = 4
  RadixBase = 1
  Inputs <- MCAllInputs
  Orders = {TRUE, FALSE}
  Tapes <- MCTapes
  Cap = 1
INVARIANT TypeOK
INVARIANT NodesReconstruct
INVARIANT OpenedAgree
INVARIANT OneTimePad
INVARIANT Lockstep
INVARIANT InBounds
INVARIANT TriplesExhausted
CHECK_DEADLOCK FALSE
