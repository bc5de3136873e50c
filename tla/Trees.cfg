\* The trees of the comparison, of the equality test and of both at once.
SPECIFICATION FairSpec
INVARIANTS SharesCorrect InStep SharedMask
PROPERTIES ImplementsIdeals Termination
CHECK_DEADLOCK FALSE
