CONSTANTS
  d1 = d1
  d2 = d2
  d3 = d3
  e1 = e1
  e2 = e2
  q1 = q1
  q2 = q2
  Deliveries = {d1, d2, d3}
  Events = {e1, e2}
  Qcs = {q1, q2}
  EventOf <- MCEventOf
  QcOf <- MCQcOf
  NoEvent = NoEvent
  NoQc = NoQc
  Limit = 1
  PoolSize = 1
  Modes = {"sync", "queue"}
  MaxEdits <- MCMaxEdits
SPECIFICATION FairSpec
INVARIANTS
  LimiterExact
  PoolExact
  AckedIsStored
  QueuedHasJob
  ProcessingIsOwned
PROPERTIES
  SettledStays
  NoRegression
  MirrorsErp
  EveryDeliveryAnswered
CHECK_DEADLOCK FALSE
