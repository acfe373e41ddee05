SPECIFICATION Spec
CONSTANTS
  Processes = {p1, p2}
  Paths = {a, b}
  Classes = {"unclassified", "breaks-data"}
  Masters = {1, 2}
  Commands = {"init", "put", "import", "get", "export", "dump", "delete", "undelete", "destroy", "rotation", "bait", "issue", "revoke", "revoke-all", "rotate-master-key"}
  None = None
  MaxVersion = 2
  MaxCommands = 4
SYMMETRY Alike
CHECK_DEADLOCK FALSE
INVARIANT SecretsReadable
INVARIANT RevokesWhatItRecorded
INVARIANT DumpIsWhole
PROPERTY ShredIsFinal
PROPERTY NothingUnrecorded
