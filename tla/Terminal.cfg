SPECIFICATION MCSpec
CONSTANTS
  Processes = {shell, blinky}
  Shell = shell
  RingSize = 3
  MaxKeys = 5
  MaxHandlers = 1
  MaxUnread = 2
  SHELL_MAX_INPUT = 5
  SHELL_Y = 2
  CHAR_HEIGHT = 3
  ScreenHeight = 16
  Columns = 5
  Prompt <- MCPrompt
  Letters = {"h", "c"}
  Help <- MCHelp
  Clear <- MCClear
  About <- MCAbout
  scancode_map <- MCscancode_map
INVARIANTS InOrder ScreenShown MCLineFollowsTyping
PROPERTIES TypingShown ImplementsLineEditor
