CONSTANTS
  MAX_TASKS = 3
  Creations = 3
  MaxNest = 2
  TickWidth = 2
SPECIFICATION FairSpec
INVARIANTS
  IInv
  CurrentOwnsStack
  ReadyIsResumable
  FlagBelongsToTask
  BoundedBypass
PROPERTIES
  NoPreemptionInCritical
  TasksProgress
