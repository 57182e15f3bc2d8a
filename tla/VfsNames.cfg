CONSTANTS
  disk = disk
  subdir = subdir
  half = half
  free = free
  devdir = devdir
  procdir = procdir
  otherdir = otherdir
  kbd = kbd
  fourth = fourth
  piddir = piddir
  NoInode = NoInode
  Names <- MCNames
  Dot = "."
  DotDot = ".."
  NameLen <- MCNameLen
  Paths <- MCPaths
  VFS_PATH_MAX = 8
  VFS_NAME_MAX = 3
  MAX_MOUNTS = 4
  Inodes <- MCInodes
  Root = disk
  Disk <- MCDisk
  Roots <- MCRoots
  Kind0 <- MCKind0
  Entry0 <- MCEntry0
SYMMETRY MCSymmetry
SPECIFICATION Spec
CHECK_DEADLOCK FALSE
INVARIANTS
  CreatedIsFound
  MountTableSound
PROPERTY CoveredUntouched
