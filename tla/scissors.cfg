SPECIFICATION Spec
CONSTANTS
  WordSize = 16
  RR_MAX_QUEUE_LEN = 4
  Shapes <- EntryShapes
  MaxEntries = 3
  MaxCount = 4
  MaxTB = 2
  Garbage = Garbage
INVARIANTS  WellEnded
 
CHECK_DEADLOCK FALSE
