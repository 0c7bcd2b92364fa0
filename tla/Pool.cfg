SPECIFICATION FairSpec
CONSTANTS
  MaxSize = 3
  MaxTasks = 5
INVARIANTS ContiguousUnlessRegrown WithinSizeUnlessRegrown WithinPeak
PROPERTIES ResizeTerminates
CHECK_DEADLOCK FALSE
