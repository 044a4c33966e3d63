SPECIFICATION Spec
CONSTANTS
  Func <- MCFunc
  HostFunc <- MCHostFunc
  Params <- TryParamParams
  Results <- TryParamResults
  Code <- TryParamCode
  Tag <- MCTag
  TagArity <- MCTagArity
  Handler <- MCHandler
  Clauses <- TryParamClauses
  Site <- TryParamSite
  Height <- TryParamHeight
  Scope <- TryParamScope
  MaxHeight <- TryParamMaxHeight
  MaxCallDepth = 3
  MinCapacity = 2
  FuelAmounts = {2}
  Exported = {1}
  MaxExceptions = 2
  MaxCatchFrames = 8
CONSTRAINT Bounded
INVARIANTS
  NeverOverflows
CHECK_DEADLOCK FALSE
