SPECIFICATION Spec
CONSTANTS
    Build = {1, 2, 3}
    Service <- LastApart
    ServiceCap <- OneAndTwo
    Runner = {"r1"}
    Capacity <- RoomForTwo
    Plans <- ServersAndOff
    Modes = {"parallel"}
    NoBuild = NoBuild
    NoRunner = NoRunner
    MaxFaults = 0
INVARIANTS SlotsAccounted ServiceCapRespected
PROPERTIES OutcomeIsFinal KeepsTheQueue
CHECK_DEADLOCK FALSE
