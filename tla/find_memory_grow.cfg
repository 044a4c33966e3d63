SPECIFICATION Spec
CONSTANTS
  W32 = 4
  W64 = 5
  PageSize = 2
  MaxPages = 3
  Allocatable = 3
  Stores <- MCStores
  Operands <- MCOperands
  Offsets = {0, 1, 31}
  AnyGrowth = TRUE
PROPERTY NeverShrinks
