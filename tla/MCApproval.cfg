SPECIFICATION Spec
CONSTANTS
    ann = ann
    bob = bob
    eve = eve
    s1 = s1
    s2 = s2
    User = {ann, bob, eve}
    Requester = eve
    AllowSelf = FALSE
    Required = 2
    Site = {s1, s2}
    HomeOf <- AllAtOne
    NoUser = NoUser
    NoSite = NoSite
    Pass = Pass
    MaxFaults = 1
SYMMETRY EitherApprover
INVARIANTS GateInv NothingPastTheGate RejectionStands
PROPERTIES ImplementsVerdict
CHECK_DEADLOCK FALSE
