SPECIFICATION Spec
CONSTANTS
  Reqs = {r1, r2}
  secret = secret
  absent = absent
  trap = trap
  admin = admin
  guest = guest
  lure = lure
  minted = minted
  Sys = Sys
  None = None
  Jobs <- SmallJobs
  Paths = {secret, absent, trap}
  Tokens = {admin, guest, lure, minted}
  Grants <- SmallGrants
  Issued = {admin, guest, lure}
  Stored = {secret, trap}
  Bait = {trap, lure}
  MaxVersion = 2
SYMMETRY Alike
INVARIANT TypeOK
INVARIANT NothingUnrecorded
INVARIANT FailureChangesNothing
INVARIANT TrailIsHonest
INVARIANT OneRevoker
INVARIANT ClaimsAreBacked
INVARIANT TripsAreRecorded
INVARIANT ClassIsNewest
