CONSTANTS
  c1 = c1
  c2 = c2
  c3 = c3
  c4 = c4
  k1 = k1
  k2 = k2
  Saves = {c1, c2, c3, c4}
  Keys = {k1, k2}
  KeyOf <- MCKeyOf
  Seed = Seed
  Nobody = Nobody
SPECIFICATION SeedSpec
PROPERTY SafeToRerun
CHECK_DEADLOCK FALSE
