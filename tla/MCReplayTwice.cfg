SPECIFICATION SbSpec
CONSTANTS
  Text = Text
  NoRow = NoRow
  Client = {c1, c2}
  Input <- MCInputRoots
  Metric = {"m1", "m2"}
  Required = {"m1"}
  Configurations = {TRUE, FALSE}
  MaxEvents = 3
INVARIANTS
  ReplayIsDeterministic
CHECK_DEADLOCK FALSE
