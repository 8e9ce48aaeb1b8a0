CONSTANTS
  t1 = t1
  t2 = t2
  t3 = t3
  q1 = q1
  q2 = q2
  p1 = p1
  p2 = p2
  p3 = p3
  w1 = w1
  w2 = w2
  w3 = w3
  a = a
  b = b
  x = x
  Txs = {t1, t2, t3}
  Qcs = {q1, q2}
  Peps = {p1, p2, p3}
  Wbs = {w1, w2, w3}
  Contacts = {a, b}
  Disciplines = {x}
  None = None
  Payloads <- MCPayloads
  Order <- MCOrder
SPECIFICATION MCSpec
INVARIANTS
  TwinsDiffer
  OnePayload
  DeadlockNeedsDisorder
PROPERTIES
  UpsertsAreAtomic
  EveryUpsertEnds
CHECK_DEADLOCK FALSE
