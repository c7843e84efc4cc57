SPECIFICATION Spec
CONSTANTS
  c1 = c1
  c2 = c2
  src = src
  auth = auth
  docs = docs
  plan = plan
  other = other
  one = one
  two = two
  NoPlan = NoPlan
  Paths <- MCPaths
  Clones <- OneClone
  Steady = {}
  Checkouts <- Worktrees
  Under <- MCUnder
  Scopes <- Planned
  Plans <- MCPlans
  MaxSessions = 3
  MaxBindings = 1
  MaxAttempts = 2
  MaxLeaves = 1
  Requested = {"start", "update", "finish", "recover"}
  Versions = {1}
  MaxRev = 3
SYMMETRY PlanSymmetry
INVARIANTS
  BeliefWasPublished LeaveIsClean
PROPERTY ImplementsReservations
CHECK_DEADLOCK FALSE
