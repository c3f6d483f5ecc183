SPECIFICATION Spec
CONSTANTS
    Voter = {a, m}
    Manager = {m}
    Recipients = 2
    Required = 1
    Items = 1
    Watched = {}
    Proc = {p1}
    Worlds <- AsItShouldBe
    MaxFaults = 0
PROPERTY RejectedIsNotApplied
CHECK_DEADLOCK FALSE
