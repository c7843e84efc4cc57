SPECIFICATION FairSpec
CONSTANTS
  None = None
  Attested = Attested
  p1 = p1
  p2 = p2
  Processes = {p1, p2}
  Sections = {1, 2}
  Clash = {}
  Graphs <- Two
  Modes = {"auto", "strict", "advisory", "off"}
  Lean = TRUE
  Captured = {}
  MaxEdits = 1
  MaxFaults = 1
PROPERTY EveryRetryResolves
CHECK_DEADLOCK FALSE
