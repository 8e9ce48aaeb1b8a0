CONSTANTS
  s1 = s1
  s2 = s2
  a = a
  b = b
  r1 = r1
  r2 = r2
  RequestIds = {r1, r2}
  NoRequest = NoRequest
  Reviewers = {a, b}
  Disciplines = {x}
  Submits = {s1, s2}
  Admin = Admin
  UserOf <- MCUserOf
  Keys = {k1}
  QcKey = k1
  MaxVersion = 2
SPECIFICATION Spec
SYMMETRY MCSymmetry
INVARIANTS
  SubmittedIffSaved
  OneRequestEach
  RosterSynced
PROPERTIES
  SubmittedIsFinal
  ClosedStays
  BarredStaysOut
