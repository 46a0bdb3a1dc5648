SPECIFICATION ServiceSpec
CONSTANTS
  NoKey = NoKey
  NoLeaf = NoLeaf
  NoMessage = NoMessage
  NoEvent = NoEvent
  System = System
  Proc = {"a1"}
  Api = {"a1"}
  Decision = {"d1", "d2"}
  Metric = {"m1"}
  Value = {"v1"}
  Evidence = {"e1"}
  Key = {"k1", "k2", "k3"}
  Task = {t1}
  Message <- MCProposed
  MaxLeaves = 2
  MaxSeconds = 1
  MaxTime = 1
  MaxFaults = 0
  MaxStops = 1
INVARIANTS
  StagingSurvivesRestart
CHECK_DEADLOCK FALSE
