SPECIFICATION Spec
CONSTANTS
    Build = {1}
    Service <- OneService
    ServiceCap <- CapOne
    Runner = {"r1"}
    Capacity <- RoomForOne
    Plans <- Short
    Modes = {"parallel"}
    NoBuild = NoBuild
    NoRunner = NoRunner
    MaxFaults = 0
INVARIANT NoStageOutlivesBuild
CHECK_DEADLOCK FALSE
