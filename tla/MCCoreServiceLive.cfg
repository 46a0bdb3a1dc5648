SPECIFICATION ServiceSpec
CONSTANTS
  NoKey = NoKey
  NoLeaf = NoLeaf
  NoMessage = NoMessage
  NoEvent = NoEvent
  System = System
  Proc = {"a1", "a2"}
  Api = {"a1", "a2"}
  Decision = {"d1", "d2"}
  Metric = {"m1"}
  Value = {"v1"}
  Evidence = {"e1"}
  Key = {"k1", "k2", "k3"}
  Task = {t1, t2}
  Message <- MCBothPaths
  MaxLeaves = 2
  MaxSeconds = 1
  MaxTime = 2
  MaxFaults = 0
  MaxStops = 0
PROPERTIES
  EventuallyAnchored
CHECK_DEADLOCK FALSE
