SPECIFICATION Spec
CONSTANTS
  Elements <- MCField
  Zero = 0
  Plus <- MCPlus
  MulConst <- MCMulConst
  ByteW = 2
  Lanes = 2
  BufferBytes = 5
  U64 = 4096
  Configs <- MCCodes
  Inputs <- MCInputs
  Coeff <- MCCoeff
  UniDraw <- MCUni
  RegDraw <- MCReg
INVARIANT PublishedRows
CHECK_DEADLOCK FALSE
