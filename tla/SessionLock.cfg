SPECIFICATION FairSpec
CONSTANTS
  t1 = t1 t2 = t2 t3 = t3 t4 = t4
  NoTab = NoTab
  Tabs = {t1, t2, t3, t4}
  Expiry = 3
  PingInterval = 1
  Prompt = TRUE
  MaxWindBack = 1
  MaxCrashes = 2
INVARIANTS
  SleepIsBounded
  MutualExclusion
PROPERTIES
  NewestGetsIn
  OnlyOlderStop
