SPECIFICATION FairSpec
CONSTANTS
  Nobody = Nobody
  Procs = {p1, p2, p3, p4}
  Crashing = {p1, p2, p3, p4}
  Sees <- OneHost
  Writers = {p1, p2, p3}
  Serial = TRUE
CHECK_DEADLOCK FALSE
INVARIANT MutualExclusion
PROPERTY AcquireReturns
