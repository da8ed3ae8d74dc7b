SPECIFICATION MachineSpec
CONSTANTS
  Parts = {"startup", "serial", "clock", "graphics", "console"}
  Lines = {0, 1, 12}
  Faults = {13, 14, 17}
  MaxNest = 2
  TssAddress <- MCTssAddress
  TagLists <- MCTagLists
  EarlyKeys = FALSE
  Writers <- MCWriters
  Message <- MCMessage
  FifoDepth = 4
  Callers = {shell, blinky}
  Times <- MCTimes
  Painters = {"shell", "blinky"}
  Calls <- MCCalls
  fb_width = 12
  fb_height = 3
  fb_pitch = 52
  Word = 256
  FontWidth = 9
  FontHeight = 2
  Glyphs <- MCGlyphs
  VGA_SCREEN_WIDTH = 4
  VGA_SCREEN_HEIGHT = 2
  Formats <- MCFormats
  Colors = {9}
  MaxPrints = 5
INVARIANTS EoisMatch TagsWalked NoOverrun Undamaged TimeWasTrue DrawnExactly ScreenShowsPaper
PROPERTIES LostIffMisframed ContextRestored KeysDrained
CHECK_DEADLOCK FALSE
