SPECIFICATION Spec
CONSTANTS
  Jobs = {j1, j2}
  Kinds = {"anchor", "cut"}
  Keeps = {1}
  MaxSeq = 3
SYMMETRY Alike
CHECK_DEADLOCK FALSE
INVARIANT AnchorFileUsable
