SPECIFICATION Spec
CONSTANTS
    c = c
    d = d
    Commands = {c, d}
    Clones = {c, d}
    Parts = {"handoff", "setup", "state", "board", "identity", "plan", "guard", "install", "cache"}
    SourceVersions = {1, 2}
    HandoffJobs = 1
    HandoffDrifts = 2
    Plans = {1, 2}
    SetupJobs = 3
    SetupDrifts = 1
    Writers = {"writer"}
    Readers = {"reader"}
    FileVersions = {1, 2}
    Rows = {1}
    Kinds = {"plain", "public"}
    StateJobs = 3
    StateEdits = 2
    NoPlan = NoPlan
    MaxBoards = 2
    MaxRevisions = 3
    MaxSetups = 5
    Worktrees = 2
    WhereMoved = 2
    Records = 3
    Drawn = 7
    Contents = {1, 2}
    Commits = 4
    PlanJobs = 2
    PlanEdits = 2
    PlanMoves = 3
    Tasks = {"t1", "t2"}
    Warnings = 1
    GuardMoves = 3
    SettingsWritten = 1
    LastRelease = 2
    Installations = 3
    Edited = 2
    Calls = 3
SYMMETRY CommandSymmetry
INVARIANTS HandoffHonest SetupSound CompleteIsTrue OneBoard WorkIsKept PreparedIsRooted StepsApart InstallSound ReuseIsFresh
PROPERTIES FinalStands
CHECK_DEADLOCK FALSE
