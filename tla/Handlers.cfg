SPECIFICATION Spec
CONSTANTS
  Threads = {t}
  px = px
  ph = ph
  pv = pv
  Names = {px, ph, pv}
  Declared <- MCDeclared
  Magic = {{}, {"get", "set", "isset", "unset"}}
  MaxDepth = 3
  Dynamic = dynamic
  Wrong = wrong
  Nothing = nothing
INVARIANTS GuardsMatchCalls TypesKept PrivateStays HooksRespected
