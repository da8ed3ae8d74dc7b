SPECIFICATION BootFairSpec
CONSTANTS
  MaxProcesses = 3
  NProc = 3
  MaxDepth = 2
  Quiet = {"esp0", "save", "saved"}
INVARIANTS WildOnlyHalfBuilt LostOnlyBeforeCurrent HandedOver
PROPERTY BootResolves
CHECK_DEADLOCK FALSE
