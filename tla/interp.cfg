SPECIFICATION Spec
CONSTANTS
  Func <- MCFunc
  HostFunc <- MCHostFunc
  Params <- StructuredParams
  Results <- StructuredResults
  Code <- StructuredCode
  Tag <- MCTag
  TagArity <- MCTagArity
  Handler <- MCHandler
  Clauses <- StructuredClauses
  Site <- StructuredSite
  Height <- StructuredHeight
  Scope <- StructuredScope
  MaxHeight <- StructuredMaxHeight
  MaxCallDepth = 3
  MinCapacity = 2
  FuelAmounts = {2}
  Exported = {0, 1, 3, 4, 5, 7}
  MaxExceptions = 2
  MaxCatchFrames = 8
CONSTRAINT Bounded
INVARIANTS
  TypeOK NeverOverflows NeverAborts CatchStackIsLexical ExnRefsResolve
PROPERTIES
  ImplementsWasm
