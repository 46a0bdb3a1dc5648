SPECIFICATION CHSpec
CONSTANTS
  NoKey = NoKey
  NoLeaf = NoLeaf
  NoMessage = NoMessage
  NoEvent = NoEvent
  System = System
  Proc = {"api", "grpc"}
  Api = {"api"}
  Decision = {"d1", "d2"}
  Metric = {"m1"}
  Value = {"v1", "v2"}
  Evidence = {"e1"}
  Key = {"k1", "k2"}
  Task = {t1, t2}
  Message <- MCAllMessage
  MaxLeaves = 2
  MaxSeconds = 1
  MaxTime = 2
  MaxFaults = 0
PROPERTIES
  LifecycleMovesForward
CHECK_DEADLOCK FALSE
