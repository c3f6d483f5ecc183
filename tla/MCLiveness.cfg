SPECIFICATION FairSpec
CONSTANTS
    Build = {1, 2}
    Service <- OneService
    ServiceCap <- CapOne
    Runner = {"r1"}
    Capacity <- RoomForOne
    Plans <- LoneThenOff
    Modes = {"parallel"}
    NoBuild = NoBuild
    NoRunner = NoRunner
    MaxFaults = 1
PROPERTY EveryBuildEnds
CHECK_DEADLOCK FALSE
