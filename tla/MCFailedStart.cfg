SPECIFICATION Spec
CONSTANTS
    Build = {1}
    Service <- OneService
    ServiceCap <- CapOne
    Runner = {"r1"}
    Capacity <- RoomForOne
    Plans <- LoneTwice
    Modes = {"parallel"}
    NoBuild = NoBuild
    NoRunner = NoRunner
    MaxFaults = 1
PROPERTY FailureEndsBuild
CHECK_DEADLOCK FALSE
