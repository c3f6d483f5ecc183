SPECIFICATION FairSpec
CONSTANTS
    cleanup = cleanup
    mail = mail
    hook = hook
    Proc = {p1, p2}
    Cleanups = {cleanup}
    Messages = {mail, hook}
    WhenOf <- Triggers
    Worlds <- Surroundings
    MaxAttempts = 2
    MaxInFlight = 1
    Workers = 1
    MaxFaults = 1
INVARIANTS SentForTheResult AttemptsBounded
PROPERTIES NeverRepeated FinalIsFinal ImplementsDelivery EveryMessageEnds
CHECK_DEADLOCK FALSE
