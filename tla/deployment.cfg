SPECIFICATION Spec
CONSTANTS
  none = none
  notWhole = notWhole
  None = none
  NotWhole = notWhole
  Nfc <- MCNfc
  Rank <- MCRank
  MaxSegments = 4
  MaxTime = 1000
  MaxBytes = 1000000000
  Builds <- MCBuilds
  Hosts <- MCHosts
  BaseFiles <- MCBaseFiles
  Audits <- MCAudits
  Surfaces <- MCSurfaces
  Oidcs <- MCOidcs
  PolicyFiles <- MCPolicyFiles
  RawRules <- MCRawRules
  RawPaths <- MCRawPaths
  IdTokens <- MCIdTokens
  Asked <- MCAsked
  MaxEdits = 1
  MaxClock = 2
  MaxTrail = 2
INVARIANT TypeOK
INVARIANT ServesWhatItRecorded
INVARIANT StartedInAgreement
INVARIANT DecisionIsDocumented
PROPERTY CheckPredictsStart
PROPERTY MintIsJustified
PROPERTY RuleEditIsContained
