SPECIFICATION Spec
CONSTANTS
  Paths <- MCPaths
  NameOf <- MCNameOf
  NotAName = NotAName
  Control = {"PATH"}
  Values = {"line", "lines", "blank", "binary"}
  Jobs <- MCJobs
  Stores <- MCStores
  Denials <- MCDenials
  Hidings <- MCHidings
  None = None
  Size <- MCSize
  MaxExport = 2
  MaxBytes = 3
  MaxEdits = 2
INVARIANT TypeOK
INVARIANT StartsComplete
INVARIANT MasksFirst
INVARIANT RefusedNamesCostNothing
INVARIANT NoControlNames
INVARIANT TrailIsTrue
 
 
