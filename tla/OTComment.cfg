SPECIFICATION Spec
CONSTANTS
  N = 2
  Programs <- MCResize
  Choices <- MCResizeChoices
  BlockSize = 2
  RowUnit = 1
  OnlineChunk = 4
  SendChunk = 2
  RecvChunk = 2
INVARIANT UnusedCount
CHECK_DEADLOCK FALSE
