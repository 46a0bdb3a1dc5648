SPECIFICATION SbSpec
CONSTANTS
  Text = Text
  NoRow = NoRow
  Client = {c1, c2}
  Input <- MCInput
  Metric = {"m1", "m2"}
  Required = {"m1", "m2"}
  Configurations = {TRUE}
  MaxEvents = 3
SYMMETRY ClientSymmetry
INVARIANTS
  ScoreNeedsCommits
  CommitsStayShown
PROPERTIES
  RiskOnlyLowers
  ReadyIsStable
CHECK_DEADLOCK FALSE
