SPECIFICATION Spec
CONSTANTS
  Bits = 2
  MaxOps = 6
  Repertoires <- MCRepertoires
INVARIANTS
  FusionKeepsMeaning
CHECK_DEADLOCK FALSE
