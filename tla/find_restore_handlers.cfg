SPECIFICATION RestoreSpec
CONSTANTS
  Func <- MCFunc
  HostFunc <- MCHostFunc
  Params <- StructuredParams
  Results <- StructuredResults
  Code <- StructuredCode
  Tag <- MCTag
  TagArity <- MCTagArity
  Handler <- MCHandler
  Clauses <- StructuredClauses
  Site <- StructuredSite
  Height <- StructuredHeight
  Scope <- StructuredScope
  MaxHeight <- StructuredMaxHeight
  MaxCallDepth = 3
  MinCapacity = 2
  FuelAmounts = {2}
  Exported = {1}
  MaxExceptions = 2
  MaxCatchFrames = 8
CONSTRAINT Bounded
PROPERTIES
  ImplementsWasm
CHECK_DEADLOCK FALSE
