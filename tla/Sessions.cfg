CONSTANTS
  r1 = r1
  r2 = r2
  r3 = r3
  r4 = r4
  r5 = r5
  ann = ann
  ben = ben
  Reqs = {r1, r2, r3, r4, r5}
  Users = {ann, ben}
  None = None
SPECIFICATION Spec
SYMMETRY MCSymmetry
INVARIANTS
  LoginCompletes
  LogoutSticks
  AuditTrail
CHECK_DEADLOCK FALSE
