SPECIFICATION FairSpec
CONSTANTS
    Voter = {a, m}
    Manager = {m}
    Recipients = 2
    Required = 2
    Items = 2
    Watched = {2}
    Proc = {p1, p2}
    Worlds <- Surroundings
    MaxFaults = 1
INVARIANTS AppliedByConsent StopsAtFailure OutcomeIsTrue WatchIsTrue
PROPERTIES ImplementsRollout EveryBundleEnds EveryWatchEnds
CHECK_DEADLOCK FALSE
