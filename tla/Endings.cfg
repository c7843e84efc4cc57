SPECIFICATION AllSpec
CONSTANTS
    one = one
    two = two
    None = None
    Contents <- Two
    Tears <- AnyTear
    MaxRecords = 3
    MaxFaults = 3
    MaxDrifts = 2
    Procs = {L, a, b}
    L = L
    a = a
    b = b
    Leader = L
    Pipes = {out}
    out = out
    MayRefuse = TRUE
    t = t
    u = u
    Threads = {t, u}
    Ids = {1, 2}
    MaxNumber = 2
INVARIANTS HonestOutcome ExchangeIsFaithful HonestAnswer
PROPERTIES Answers TransactionSettles ImplementsStore RollbackNeverPromotes
CHECK_DEADLOCK FALSE
