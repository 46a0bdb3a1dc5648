SPECIFICATION PgSpec
CONSTANTS
  NoKey = NoKey
  NoEvent = NoEvent
  Client = {c1, c2, c3}
  Decision = {"d1", "d2"}
  Event <- MCEvent
  PoolSize = 2
  MaxLost = 1
INVARIANTS
  ResultNamesRow
  OneWinnerPerKey
  ReplayKeepsCallOrder
PROPERTIES
  ImplementsPort
  EveryAppendReturns
CHECK_DEADLOCK FALSE
