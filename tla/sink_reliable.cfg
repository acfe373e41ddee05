SPECIFICATION Spec
CONSTANTS
  Devices = {1, 2, 3}
  Sqlite = 1
  Failing = {2, 3}
  Rotating = {3}
  TornWrites = FALSE
  CliDevices <- StoreAndFile
  MaxEncoded = 5
  MaxStarts = 3
CHECK_DEADLOCK FALSE
INVARIANT CopiesVerify
INVARIANT SameHistory
PROPERTY ImplementsTrail
