CONSTANTS
  r1 = r1
  r2 = r2
  r3 = r3
  ann = ann
  ben = ben
  eve = eve
  Reqs = {r1, r2, r3}
  Users = {ann, ben, eve}
  External = {eve}
  Allowed = {ben}
  Names = {"admin", "reviewer", "user", "owner"}
  AppRoles = {"admin", "reviewer", "user"}
  Keep = Keep
  Nobody = Nobody
  Rank <- MCRank
  Start <- MCStart
  Jobs <- MCJobs
SPECIFICATION MCSpec
INVARIANTS
  RolesOfLastChange
  AdminRemains
  DeadlockNeedsSync
PROPERTIES
  RevokedStaysOut
  EveryRequestEnds
CHECK_DEADLOCK FALSE
