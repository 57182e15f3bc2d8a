CONSTANTS
  Scancodes <- MCScancodes
  NormalTable <- MCNormalTable
  ShiftTable <- MCShiftTable
  Size = 4
  ReadSizes = {2}
  Nothing = Nothing
  MaxBytes = 4
SPECIFICATION Spec
INVARIANT HeldShiftApplies
