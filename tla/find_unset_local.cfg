CONSTANTS
  Repertoires <- MCRepertoires
  Module <- MCModule
  Signature <- MCSignature
  Locals <- MCNoDefault
  Blocks <- MCBlocks
  NullHeaps = {"nofunc"}
  MaxVals = 3
  MaxSize = 7
  MaxDrift = 1

SPECIFICATION Spec
INVARIANTS
  OperandsFit
CHECK_DEADLOCK FALSE
