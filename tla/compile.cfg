SPECIFICATION Spec
CONSTANTS
  MaxInstrs = 4
  MaxNesting = 3
INVARIANTS
  BranchesLandAtTheirHeight MaxHeightCovers TryTablesBalance
CHECK_DEADLOCK FALSE
