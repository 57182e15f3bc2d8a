SPECIFICATION SSpec
CONSTANTS
  Task <- MCTask
  Drivers <- MCDrivers
  Boot <- MCBoot
  DEV_MAX = 4
  DEV_NAME_MAX = 3
  SECTOR_SIZE = 4
  MAX_TASKS = 4
  Digits <- MCDigits
  PROC_STATUS_MAX = 8
  Esps = {"e1", "e2"}
  Commands <- NamesCommands
  TASK_FDS = 1
  BUF = 7
  DIRENT_NAME = 2
  Keys = {"a", "nl"}
  TypedAhead <- MCTypedAhead
  MaxEvents = 2
INVARIANT OneNamePerTask
