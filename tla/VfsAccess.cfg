CONSTANTS
  Tasks = {0}
  MAX_OPEN_FILES = 1
  TASK_FDS = 1
  reg = reg
  dev = dev
  dir = dir
  Inodes = {reg, dev, dir}
  Dirs = {dir}
  Regular = {reg}
  NoRead = {}
  NoWrite = {dev, dir}
  NoInode = NoInode
  OpenFlags = {0, 1, 2, 64, 65, 66}
  Amounts = {1}
  Seeks = {}
  Size <- MCSize
  MaxSize = 1
  OffWidth = 4
SPECIFICATION Spec
INVARIANT AccessModeHonoured
