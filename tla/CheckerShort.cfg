SPECIFICATION FairSpec
CONSTANTS
  Commands <- MCShort
  BatchSize = 8
  ByteW = 2
  Row <- MCRow
PROPERTY Reports
CHECK_DEADLOCK FALSE
