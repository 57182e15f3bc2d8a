CONSTANTS
  COLS = 2
  ROWS = 2
  Glyphs = {g}
  Space = Space
  NL = NL
  BS = BS
  Ignored = Ignored
  Task = {shell, a}
  Clearer = {shell}
  FIFO_DEPTH = 2
  LowBase = 2
SPECIFICATION Spec
INVARIANT CursorAtMostOneBehind
