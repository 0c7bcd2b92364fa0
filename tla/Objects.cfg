SPECIFICATION Spec
CONSTANTS
  Threads = {t, u, w}
  Addrs = {a, b, c}
  Boxes = {p, q}
  Leaves = {x}
  None = none
SYMMETRY Symmetry
CHECK_DEADLOCK FALSE
INVARIANTS RefcountExact OneConnection StoredReachable DestroyedUnlocked
