\* Three sectors of two bytes on each disk: from offset 1 three bytes are part of
\* a sector and the next whole, from 4 they are cut at the end, 6 is the end.
CONSTANTS
  SECTOR_SIZE = 2
  NSectors = 3
  MaxTransfer = 2
  MaxFaults = 1
  MaxCalls = 2
  Starts = {1, 4, 6}
  Counts = {0, 1, 3}
SPECIFICATION Spec
INVARIANTS DrivesSound TransferExact BytesExact
PROPERTIES CallReturns
\* The callers may stop calling.
CHECK_DEADLOCK FALSE
