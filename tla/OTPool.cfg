\* Sessions that set, use, refill and resize the pool of the split OT.
SPECIFICATION FairSpec
CONSTANTS
  N = 2
  Programs <- MCPrograms
  Choices <- MCProgramChoices
  BlockSize = 2
  RowUnit = 1
  OnlineChunk = 1
  SendChunk = 1
  RecvChunk = 2
INVARIANTS OneTime SlotsHeld PoolsAgree InStep
PROPERTIES Termination
CHECK_DEADLOCK FALSE
