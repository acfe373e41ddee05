SPECIFICATION Spec
CONSTANTS
  Nobody = Nobody
  Procs = {p1, p2, p3}
  Crashing = {p1}
  Sees <- OneHost
  Writers = {p1, p2, p3}
  Serial = FALSE
CHECK_DEADLOCK FALSE
INVARIANT MutualExclusion
