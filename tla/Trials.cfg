SPECIFICATION Spec
CONSTANTS
    c = c
    d = d
    Processes = {c, d}
    k1 = k1
    k2 = k2
    BreakAttempts = {k1, k2}
    BreakCommands = 2
    AttemptJobs = 3
    LastRow = 2
    ReviewJobs = 3
    FormEdits = 1
    ForBoth = {1}
    Declines = {2, 3}
    ResumeOptions = {"own", "codex"}
SYMMETRY TrialSymmetry
INVARIANTS SuiteHonest SessionsHonest
CHECK_DEADLOCK FALSE
