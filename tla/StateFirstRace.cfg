SPECIFICATION Spec
CONSTANTS
    c = c
    d = d
    Commands = {c, d}
    Clones = {c, d}
    Parts = {"state"}
    SourceVersions = {1, 2}
    HandoffJobs = 0
    HandoffDrifts = 0
    Plans = {1}
    SetupJobs = 0
    SetupDrifts = 0
    Writers = {"c", "d"}
    Readers = {}
    FileVersions = {1, 2}
    Rows = {1}
    Kinds = {"plain"}
    StateJobs = 4
    StateEdits = 2
    NoPlan = NoPlan
    MaxBoards = 1
    MaxRevisions = 1
    MaxSetups = 0
    Worktrees = 1
    WhereMoved = 1
    Records = 1
    Drawn = 1
    Contents = {1}
    Commits = 2
    PlanJobs = 0
    PlanEdits = 0
    PlanMoves = 0
    Tasks = {"t1"}
    Warnings = 1
    GuardMoves = 0
    SettingsWritten = 0
    LastRelease = 1
    Installations = 0
    Edited = 0
    Calls = 0
INVARIANT BegunStay
CHECK_DEADLOCK FALSE
