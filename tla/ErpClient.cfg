CONSTANTS
  f1 = f1
  f2 = f2
  Fetches = {f1, f2}
  Lives = {1, 2, 4}
  Margin = 1
  MinLife = 2
  MaxWait = 1
  NoToken = NoToken
  MaxTime = 5
SPECIFICATION FairSpec
INVARIANTS
  CacheSafe
  AnswersRespected
PROPERTIES
  RefreshHelps
  EveryFetchEnds
CHECK_DEADLOCK FALSE
