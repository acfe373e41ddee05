SPECIFICATION Spec
CONSTANTS
  Jobs = {j1, j2, j3}
  Kinds = {"verify", "anchor", "cut"}
  Keeps = {1}
  MaxSeq = 3
SYMMETRY Alike
CHECK_DEADLOCK FALSE
INVARIANT CutIsAttested
INVARIANT NothingDestroyed
INVARIANT RestartContinues
INVARIANT NoFalseAlarm
