SPECIFICATION SbSpec
CONSTANTS
  Text = Text
  NoRow = NoRow
  Client = {}
  Input <- MCInputSupersede
  Metric = {"m1", "m2"}
  Required = {"m2"}
  Configurations = {TRUE}
  MaxEvents = 4
INVARIANTS
  NoScoreFromIncomplete
CHECK_DEADLOCK FALSE
