\* The pages of the dashboard, two requests at a time, one of which may fail.
SPECIFICATION FairSpec
CONSTANTS
  c1 = c1
  c2 = c2
  t1 = t1
  t2 = t2
  a1 = a1
  a2 = a2
  Calls = {c1, c2}
  MaxActiveKeys = 2
  MaxKeys = 3
  MaxFailures = 1
  MaxPolls = 2
  Tasks = {t1, t2}
  MaxItems = 1
  MaxLapses = 1
  l1 = l1
  l2 = l2
  Asks = {a1, a2}
  Loads = {l1, l2}
  MaxOrders = 3
  MaxSlips = 2
  MaxElsewhere = 1
  MaxTyped = 3
  MaxChanges = 2
  MaxToggles = 3
  MaxMisses = 1
  Scenes <- Tabs
INVARIANTS
  KeysWithinPlan
  ShownIsStored
PROPERTIES
  LastKeyKept
  PollsCatchUp
CONSTRAINT FewEvents
CHECK_DEADLOCK FALSE
