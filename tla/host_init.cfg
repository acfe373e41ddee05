SPECIFICATION Spec
CONSTANTS
  Processes = {p1, p2}
  Paths = {a}
  Classes = {"unclassified"}
  Masters = {1}
  Commands = {"init", "put"}
  None = None
  MaxVersion = 1
  MaxCommands = 3
SYMMETRY Alike
CHECK_DEADLOCK FALSE
INVARIANT NothingOrphaned
