\* Three rows of five: a full line with its prompt is two rows, and scrolls
\* when it begins in the last.
CONSTANTS
  COLS = 5
  ROWS = 3
  Glyphs = {"0", "1", "2", "x", "X"}
  Space = " "
  NL = "nl"
  BS = "bs"
  Ignored = "tab"
  NUL = "nul"
  LINE_MAX = 10
  SHELL_MAX_ARGS = 4
  DecDigits <- MCDec
  HexDigits <- MCHex
  HexPrefix <- MCHexPrefix
  Lower <- MCLower
  MaxHexDigits = 2
  WordMax = 15
  Prompt <- MCPrompt
  EchoName <- MCEcho
  ClearName <- MCClear
  WriteName <- MCWrite
  RdsectName <- MCRdsect
  WrsectName <- MCWrsect
  DiskNames <- MCDisks
  DefaultDisk <- MCDefault
  SECTOR_SIZE = 3
  Rows0 = {0, 2}
  Typed0 <- MCTyped
  MaxKeys = 6
SPECIFICATION PSpec
INVARIANTS SeenIsLine ExecutesWhatIsSeen SectorAsTyped ParsesExactly
CHECK_DEADLOCK FALSE
