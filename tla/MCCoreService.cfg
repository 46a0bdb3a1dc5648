SPECIFICATION ServiceSpec
CONSTANTS
  NoKey = NoKey
  NoLeaf = NoLeaf
  NoMessage = NoMessage
  NoEvent = NoEvent
  System = System
  Proc = {"a1"}
  Api = {"a1"}
  Decision = {"d1", "d2"}
  Metric = {"m1"}
  Value = {"v1"}
  Evidence = {"e1"}
  Key = {"k1", "k2", "k3"}
  Task = {t1, t2, t3}
  Message <- MCBothPaths
  MaxLeaves = 2
  MaxSeconds = 1
  MaxTime = 1
  MaxFaults = 1
  MaxStops = 1
SYMMETRY TaskSymmetry
INVARIANTS
  ProofRowsVerify
  RootCountsRows
  BatchedIsProvable
  LeafHeldOnce
  NoLeafLost
PROPERTIES
  ProofsArePermanent
  UsesAuditTrail
CHECK_DEADLOCK FALSE
