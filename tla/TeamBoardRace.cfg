SPECIFICATION Spec
CONSTANTS
  c1 = c1
  c2 = c2
  src = src
  auth = auth
  docs = docs
  plan = plan
  other = other
  one = one
  two = two
  NoPlan = NoPlan
  Paths <- MCPaths
  Clones <- MCClones
  Steady = {}
  Checkouts = {1}
  Under <- MCUnder
  Scopes <- NoScope
  Plans = {}
  MaxSessions = 3
  MaxBindings = 1
  MaxAttempts = 2
  MaxLeaves = 0
  Requested = {"start", "recover"}
  Versions = {1}
  MaxRev = 4
SYMMETRY MCSymmetry
INVARIANTS
  DiscardedNeverLands ConsentIsExact
CHECK_DEADLOCK FALSE
