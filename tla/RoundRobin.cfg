SPECIFICATION RRFairSpec
CONSTANTS
  MaxProcesses = 4
  NProc = 3
  MaxDepth = 2
  Quiet = {"eoi", "cur", "next", "test", "run", "pid", "esp0", "save", "saved", "ret"}
INVARIANT RoundRobin
PROPERTIES EveryProcessRuns KeyboardReleased
