SPECIFICATION MemSpec
CONSTANTS
  NoKey = NoKey
  Decision = {"d1", "d2"}
  Event <- MCEvent
  MaxEvents = 4
INVARIANTS
  ViewsMatchLog
PROPERTIES
  ImplementsPort
CHECK_DEADLOCK FALSE
