SPECIFICATION FairSpec
CONSTANTS
  KKOT_TYPES = 2
  Lambda = 1
  Order = 5
  Exponents = {3}
  BufferSize = 2
INVARIANTS RoundsCounted
CHECK_DEADLOCK FALSE
