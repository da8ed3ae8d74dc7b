SPECIFICATION Spec
CONSTANTS
  MaxProcesses = 3
  NProc = 2
  MaxDepth = 3
  Quiet = {}
INVARIANT SavedContextsIntact
