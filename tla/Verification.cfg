SPECIFICATION MCSpec
CONSTANTS
  None = None
  test = test
  other = other
  Kinds = {"verify", "attest", "baseline", "candidate"}
  Targets <- OneOrBoth
  Commands = {test, other}
  Totals = {2, 3}
  Timeouts = {2}
  Overrun = 1
  MaxCommands = 3
  MaxEdits = 2
  MaxFaults = 1
INVARIANTS
  SpendingCharged NeverOverspent PassesStand PreservationShown
PROPERTIES
  EvidenceKept
CHECK_DEADLOCK FALSE
