SPECIFICATION Spec
CONSTANTS
  Sections <- MCSections
  Arguments <- MCArguments
  PlainFunc <- MCPlainFunc
  MemSize = 64
  Fuels = {2, 20}
  MaxCalls = 3
  Flats <- FlatCounts
  Lowering <- LowerArguments
  Lifting <- LiftResults
INVARIANTS
  AnswersEcho
  PausedIsLifted
  RefusedForAReason
CHECK_DEADLOCK FALSE
