SPECIFICATION FairSpec
CONSTANTS
    Task = {1, 2}
    Grouped = {2}
    Request = {1, 2}
    MaxConcurrent = 1
    Worlds <- Surroundings
    MaxFaults = 1
INVARIANTS RunAtMostOnce SuccessIsEarned ClaimedWithinCapacity
PROPERTIES KeepsContract ClaimsEnd EveryTaskIsTaken
CHECK_DEADLOCK FALSE
