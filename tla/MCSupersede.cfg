SPECIFICATION SbSpec
CONSTANTS
  Text = Text
  NoRow = NoRow
  Client = {}
  Input <- MCInputSupersede
  Metric = {"m1", "m2"}
  Required = {"m1"}
  Configurations = {TRUE}
  MaxEvents = 3
INVARIANTS
  CurrentStateIsShown
CHECK_DEADLOCK FALSE
