SPECIFICATION FairSpec
CONSTANTS
  c1 = c1
  c2 = c2
  src = src
  auth = auth
  docs = docs
  plan = plan
  other = other
  one = one
  two = two
  NoPlan = NoPlan
  Paths <- MCPaths
  Clones <- MCClones
  Steady <- MCSteady
  Checkouts = {1}
  Under <- MCUnder
  Scopes <- OneScope
  Plans = {}
  MaxSessions = 3
  MaxBindings = 1
  MaxAttempts = 1
  MaxLeaves = 0
  Requested = {"start", "recover"}
  Versions = {2}
  MaxRev = 3
INVARIANT ExclusiveClaims
PROPERTIES
  ReceiptSettles
CHECK_DEADLOCK FALSE
