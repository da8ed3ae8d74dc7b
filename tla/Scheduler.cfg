SPECIFICATION Spec
CONSTANTS
  MaxProcesses = 3
  NProc = 3
  MaxDepth = 2
  Quiet = {"esp0", "save", "saved"}
INVARIANTS IInv SavedContextsIntact CurrentProcess PicInService
PROPERTIES PreemptedUntouched ImplementsMultitasking
