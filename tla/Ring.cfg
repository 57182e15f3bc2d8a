CONSTANTS
  Values = {k1, k2}
  Nothing = Nothing
  Size = 4
SPECIFICATION Spec
INVARIANTS
  IInv
  NoSlotRace
PROPERTY ImplementsQueue
