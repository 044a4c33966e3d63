SPECIFICATION Spec
CONSTANTS
  Func <- MCFunc
  HostFunc <- MCHostFunc
  Params <- EscapingParams
  Results <- EscapingResults
  Code <- EscapingCode
  Tag <- MCTag
  TagArity <- MCTagArity
  Handler <- MCHandler
  Clauses <- EscapingClauses
  Site <- EscapingSite
  Height <- EscapingHeight
  Scope <- EscapingScope
  MaxHeight <- EscapingMaxHeight
  MaxCallDepth = 3
  MinCapacity = 2
  FuelAmounts = {2}
  Exported = {1, 3}
  MaxExceptions = 2
  MaxCatchFrames = 3
CONSTRAINT Bounded
PROPERTIES
  FueledRunReturns
CHECK_DEADLOCK FALSE
