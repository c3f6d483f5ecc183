SPECIFICATION FairSpec
CONSTANTS
    p1 = p1
    p2 = p2
    k1 = k1
    k2 = k2
    r2 = r2
    d1 = d1
    Proc = {p1, p2}
    NoProc = NoProc
    Orphan = Orphan
    Thread = {k1, k2, r2, d1}
    Ticker = {k1, k2}
    Decider = {d1}
    Home <- MCHome
    Serving = {p1}
    NoThread = NoThread
    Master = p1
    MaxFaults = 1
INVARIANTS GuardInv OnePassPerSession LockImpliesPass SleepMissesNothing
PROPERTIES ImplementsExclusivePass WorkIsLookedAt
