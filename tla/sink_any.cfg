SPECIFICATION Spec
CONSTANTS
  Devices = {1, 2, 3}
  Sqlite = 2
  Failing = {1, 2, 3}
  Rotating = {1}
  TornWrites = TRUE
  CliDevices <- StoreAlone
  MaxEncoded = 4
  MaxStarts = 2
CHECK_DEADLOCK FALSE
INVARIANT StoreTrailVerifies
INVARIANT LastDeviceStanding
