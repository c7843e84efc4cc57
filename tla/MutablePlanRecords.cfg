SPECIFICATION Spec
CONSTANTS
  None = None
  Attested = Attested
  p1 = p1
  p2 = p2
  Processes = {p1, p2}
  Sections = {1, 2, 3}
  Clash <- Siblings
  Graphs <- Indexes
  Modes = {"auto", "strict", "advisory", "off"}
  Lean = TRUE
  Captured = {2}
  MaxEdits = 1
  MaxFaults = 2
SYMMETRY ProcessSymmetry
INVARIANTS
  NothingCountsEarly RunsSpeakForContracts LayersAreSound
PROPERTIES
  ImplementsLedger PendingWaitsForChecks
CHECK_DEADLOCK FALSE
