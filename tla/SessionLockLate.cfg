SPECIFICATION Spec
CONSTANTS
  t1 = t1 t2 = t2 t3 = t3 t4 = t4
  NoTab = NoTab
  Tabs = {t1, t2, t3}
  Expiry = 3
  PingInterval = 1
  Prompt = FALSE
  MaxWindBack = 0
  MaxCrashes = 1
INVARIANTS
  MutualExclusion
