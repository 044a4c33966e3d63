SPECIFICATION Spec
CONSTANTS
  Func <- MCFunc
  HostFunc <- MCHostFunc
  Params <- RethrowParams
  Results <- RethrowResults
  Code <- RethrowCode
  Tag <- MCTag
  TagArity <- MCTagArity
  Handler <- MCHandler
  Clauses <- RethrowClauses
  Site <- RethrowSite
  Height <- RethrowHeight
  Scope <- RethrowScope
  MaxHeight <- RethrowMaxHeight
  MaxCallDepth = 3
  MinCapacity = 2
  FuelAmounts = {2}
  Exported = {1, 2}
  MaxExceptions = 2
  MaxCatchFrames = 8
CONSTRAINT Bounded
INVARIANTS
  NeverOverflows
CHECK_DEADLOCK FALSE
