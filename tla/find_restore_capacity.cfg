SPECIFICATION RestoreSpec
CONSTANTS
  Func <- MCFunc
  HostFunc <- MCHostFunc
  Params <- StructuredParams
  Results <- StructuredResults
  Code <- StructuredCode
  Tag <- MCTag
  TagArity <- MCTagArity
  Handler <- MCHandler
  Clauses <- StructuredClauses
  Site <- StructuredSite
  Height <- StructuredHeight
  Scope <- StructuredScope
  MaxHeight <- StructuredMaxHeight
  MaxCallDepth = 3
  MinCapacity = 2
  FuelAmounts = {2}
  Exported = {1, 3}
  MaxExceptions = 2
  MaxCatchFrames = 8
CONSTRAINT Bounded
INVARIANTS
  NeverOverflows
CHECK_DEADLOCK FALSE
