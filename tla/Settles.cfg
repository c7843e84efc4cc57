SPECIFICATION BothSpec
CONSTANTS
    manifest = manifest
    runtime = runtime
    helper = helper
    Manifest = manifest
    Files <- TwoFiles
    Declares <- Growing
    MaxRevision = 2
    MaxFaults = 3
    None = None
    Attested = Attested
    p1 = p1
    p2 = p2
    Processes = {p1, p2}
    Sections = {1, 2}
    Clash = {}
    Modes = {"auto", "strict", "advisory", "off"}
    Lean = TRUE
    Captured = {}
    MaxEdits = 2
    PlanFaults = 2
INVARIANTS SuccessIsFresh
PROPERTIES ImplementsPlugin CacheConverges RetryResolves
CHECK_DEADLOCK FALSE
