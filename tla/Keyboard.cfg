CONSTANTS
  Scancodes <- MCScancodes
  NormalTable <- MCNormalTable
  ShiftTable <- MCShiftTable
  Size = 3
  ReadSizes = {2}
  Nothing = Nothing
  MaxBytes = 5
SPECIFICATION FairSpec
INVARIANTS
  DecodesStream
PROPERTIES
  KeysKept
  ReaderServed
