CONSTANTS
  Repertoires <- MCRepertoires
  Module <- MCModule
  Signature <- MCSignature
  Locals <- MCLocals
  Blocks <- MCBlocks
  NullHeaps = {"nofunc"}
  MaxVals = 3
  MaxSize = 7
  MaxDrift = 1

SPECIFICATION Spec
INVARIANTS
  TypeOK
  OperandsFit
  StackFits
  LabelsReceive
  DroppedCodeIsDead
CHECK_DEADLOCK FALSE
