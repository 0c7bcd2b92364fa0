SPECIFICATION Spec
CONSTANTS
  StringKeys = {s1}
  Hole = Hole
  MinSize = 2
  MaxIndex = 3
INVARIANTS TakesFirst
PROPERTIES TakesLast
CHECK_DEADLOCK FALSE
