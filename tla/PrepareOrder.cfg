CONSTANTS
  Base = Base
  Task = Task
  Iface = Iface
  Enum = Enum
  Suit = Suit
  Anon = Anon
  Shared1 = Shared1
  Shared2 = Shared2
  None = None
  Classes = {Base, Task, Iface, Enum}
  Parent <- MCParent
  Interfaces <- MCInterfaces
  Enums = {Enum}
  Values <- NoValues
  Constants <- OrderConstants
  Static = {Base}
  Traits = {Task}
  Anonymous = {}
  Immutable = {}
  Types <- MCTypes
  Globals <- MCGlobals
  ThreadClass = Task
  Ordered = FALSE
SPECIFICATION Spec
INVARIANT
  EnumCasesRestored
CHECK_DEADLOCK FALSE
