SPECIFICATION Spec
CONSTANTS
  N = 4
  Programs <- MCWide
  Choices <- MCWideChoices
  BlockSize = 2
  RowUnit = 2
  OnlineChunk = 3
  SendChunk = 2
  RecvChunk = 2
PROPERTY ImplementsIdeal
CHECK_DEADLOCK FALSE
