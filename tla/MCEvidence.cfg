SPECIFICATION SbSpec
CONSTANTS
  Text = Text
  NoRow = NoRow
  Client = {}
  Input <- MCInputEvidence
  Metric = {"m1"}
  Required = {"m1"}
  Configurations = {TRUE}
  MaxEvents = 2
INVARIANTS
  EvidenceIsKnown
CHECK_DEADLOCK FALSE
