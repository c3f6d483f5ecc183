SPECIFICATION Spec
CONSTANTS
    Build = {1}
    Service <- OneService
    ServiceCap <- CapOne
    Runner = {"r1"}
    Capacity <- RoomForTwo
    Plans <- OneOfEach
    Modes = {"parallel", "sequential"}
    NoBuild = NoBuild
    NoRunner = NoRunner
    MaxFaults = 2
INVARIANTS NothingLeftRunning StepsAreBarriers OutcomeIsHonest TasksMatchStages
PROPERTIES NothingStartsAfterFailure KeepsContract
CHECK_DEADLOCK FALSE
