SPECIFICATION Spec
CONSTANTS
  Names = {"log", "read"}
  Types <- MCTypes
  Modules <- MCModules
  None = None
  Careful = TRUE
  StartsSettle = FALSE
  AllowShadowing = FALSE
  MaxDepth = 3
  MaxHosts = 3
  MaxInstances = 2
INVARIANTS
  OneExecution
