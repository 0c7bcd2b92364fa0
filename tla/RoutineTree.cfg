SPECIFICATION FairSpec
CONSTANTS
  a = a
  b = b
  c = c
  Threads = {a, b, c}
  Main = Main
  NoOne = NoOne
  Creator <- Tree
  Kept = {c}
INVARIANTS CountExact ExitAfterSync FreedAfterEnd OutlivedByCreator
PROPERTIES CallsReturn
CHECK_DEADLOCK FALSE
