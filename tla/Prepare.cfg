CONSTANTS
  Base = Base
  Task = Task
  Iface = Iface
  Enum = Enum
  Suit = Suit
  Anon = Anon
  Shared1 = Shared1
  Shared2 = Shared2
  None = None
  Classes = {Base, Task, Iface, Enum, Suit, Anon, Shared1, Shared2}
  Parent <- MCParent
  Interfaces <- MCInterfaces
  Enums = {Enum, Suit}
  Values <- MCValues
  Constants <- MCConstants
  Static = {Base, Anon}
  Traits = {Task}
  Anonymous = {Anon}
  Immutable = {Shared1, Shared2}
  Types <- MCTypes
  Globals <- MCGlobals
  ThreadClass = Task
  Ordered = TRUE
SPECIFICATION Spec
INVARIANTS
  NothingForeign
  CopiedOnce
  StartedComplete
  EnumCasesRestored
PROPERTY
  Terminates
CHECK_DEADLOCK FALSE
