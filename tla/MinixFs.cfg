SPECIFICATION Spec
CONSTANTS
  NInodes = 4
  NZones = 4
  MAX_INODES = 3
  ZONE_DIRETTE = 1
  PTR_PER_BLOCCO = 2
  PerBlock = 3
  Names = {a, b}
  Offsets = {2, 8}
  Lengths = {2}
  MaxFaults = 1
  MaxCrashes = 1
INVARIANTS
  ZonesSound
  TreeSound
  CreatedIsSaved
PROPERTIES
  OnlyTargetChanges
SYMMETRY Symmetry
CHECK_DEADLOCK FALSE
