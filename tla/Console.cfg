SPECIFICATION ConsoleFairSpec
CONSTANTS
  KEYBOARD_BUFFER_SIZE = 4
  Scancodes = {"e0", "x", "enter", "bs", "release"}
  E0 = "e0"
  Chars = {"a", "up", "nl", "bs"}
  NoChar = "none"
  Ascii <- MCAscii
  Extended <- MCExtended
  MaxKeys = 7
  FRAMEBUFFER_WIDTH = 3
  FRAMEBUFFER_HEIGHT = 3
  Glyphs = {"a", "b", "up", "$", "f", "p", " "}
  Blank = " "
  Newline = "nl"
  Backspace = "bs"
  MaxInput = 4
  PromptText <- MCPrompt
  Banner <- MCBanner
  BootText <- MCBoot
  Outputs <- MCOutputs
INVARIANTS LineOnScreen NothingBelow ClearClears
PROPERTIES ImplementsQueue EntersTaken
