SPECIFICATION Spec
CONSTANTS
  Devices = {1, 2}
  Sqlite = 1
  Failing = {1, 2}
  Rotating = {2}
  TornWrites = FALSE
  CliDevices <- StoreAndFile
  MaxEncoded = 5
  MaxStarts = 3
CHECK_DEADLOCK FALSE
INVARIANT AcceptedIsKept
