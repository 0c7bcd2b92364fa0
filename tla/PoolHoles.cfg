SPECIFICATION Spec
CONSTANTS
  MaxSize = 3
  MaxTasks = 5
INVARIANTS RemovesLast
CHECK_DEADLOCK FALSE
