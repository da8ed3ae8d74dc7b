SPECIFICATION BootSpec
CONSTANTS
  MaxProcesses = 3
  NProc = 2
  MaxDepth = 3
  Quiet = {"esp0", "save", "saved"}
INVARIANT NeverWild
