CONSTANTS
  Tasks = {0, 1}
  MAX_OPEN_FILES = 2
  TASK_FDS = 2
  reg = reg
  dev = dev
  dir = dir
  Inodes = {reg, dev, dir}
  Dirs = {dir}
  Regular = {reg}
  NoRead = {}
  NoWrite = {dev, dir}
  NoInode = NoInode
  OpenFlags = {0}
  Amounts = {1}
  Seeks = {}
  Size <- MCSize
  MaxSize = 1
  OffWidth = 4
SPECIFICATION Spec
PROPERTY CloseFreesBoth
