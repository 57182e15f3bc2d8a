CONSTANTS
  Tasks = {0, 1}
  MAX_OPEN_FILES = 3
  TASK_FDS = 2
  reg = reg
  dev = dev
  dir = dir
  Inodes = {reg, dir}
  Dirs = {dir}
  Regular = {reg}
  NoRead = {}
  NoWrite = {dir}
  NoInode = NoInode
  OpenFlags = {2}
  Amounts = {1}
  Seeks <- MCSeeks
  Size <- MCSize
  MaxSize = 1
  OffWidth = 4
SPECIFICATION Spec
INVARIANTS
  IInv
  OneOwner
  FailedOpenLeavesNothing
PROPERTY ImplementsDescriptors
