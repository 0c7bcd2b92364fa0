SPECIFICATION Spec
CONSTANTS
  Threads = {t1, t2}
  Keys = {k1, k2}
  Objects = {o}
  Plains = {p}
  Strings = {s}
  NoValue = NoValue
  Nobody = Nobody
  NoCall = NoCall
  MaxModCount = 2
SYMMETRY Symmetry
INVARIANT StringsHeld
PROPERTY CacheFresh
CHECK_DEADLOCK FALSE
