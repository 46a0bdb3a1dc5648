SPECIFICATION PgSpec
CONSTANTS
  NoKey = NoKey
  NoEvent = NoEvent
  Client = {c1, c2}
  Decision = {"d1"}
  Event <- MCEvent
  PoolSize = 2
  MaxLost = 0
PROPERTIES
  ReadsExtend
CHECK_DEADLOCK FALSE
