SPECIFICATION Spec
CONSTANTS
  Bitlength = 8
  RadixBase = 8
  Inputs <- MCBoundary
  Orders = {TRUE}
  Tapes <- MCTapes
  Cap = 1
INVARIANT CompareCorrect
CHECK_DEADLOCK FALSE
