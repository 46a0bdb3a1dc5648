SPECIFICATION KafkaSpec
CONSTANTS
  NoKey = NoKey
  NoLeaf = NoLeaf
  NoMessage = NoMessage
  NoEvent = NoEvent
  Nobody = Nobody
  System = System
  Proc = {"a", "b"}
  Api = {"a", "b"}
  Decision = {"d1", "d2"}
  Metric = {"m1"}
  Value = {"v1"}
  Evidence = {"e1"}
  Key = {"k1", "k2"}
  Task <- MCTask
  Message <- MCReconciled
  PartOf <- MCPartOf
  Payload <- MCPayload
  MaxPublished = 2
  MaxLeaves = 2
  MaxSeconds = 0
  MaxTime = 0
  MaxFaults = 1
INVARIANTS
  OffsetIsDurable
  PartitionInOrder
  RepeatsNeedFailures
PROPERTY
  EveryMessageSettled
CHECK_DEADLOCK FALSE
