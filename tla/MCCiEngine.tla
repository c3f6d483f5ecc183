---------------------------- MODULE MCCiEngine ----------------------------
(* The pipelines and fleets the engine is checked on.                      *)
EXTENDS CiEngine

AgentStage(g, ff, go) == [kind |-> "agent", group |-> g, failFast |-> ff, goOn |-> go]
Lone   == AgentStage(0, FALSE, FALSE)
Lax    == AgentStage(0, FALSE, TRUE)
Server == [Lone EXCEPT !.kind = "server"]
Off    == [Lone EXCEPT !.kind = "unsupported"]

FastGroup == <<AgentStage(1, TRUE, FALSE), AgentStage(1, TRUE, FALSE), Lone>>
SlowGroup == <<AgentStage(1, FALSE, FALSE), AgentStage(1, FALSE, TRUE), Server>>
Line      == <<Lax, Off, Lone>>
Pair      == <<Lone, Server>>

\* What each build of a run may be.
OneOfEach   == [b \in Build |-> {FastGroup, SlowGroup, Line, Pair}]
LoneTwice   == [b \in Build |-> {<<Lone, Lone>>}]
Short       == [b \in Build |-> {<<Lone>>}]
ServersAndOff == [b \in Build |-> IF b = 3 THEN {<<Off>>} ELSE {<<Server>>}]
LoneThenOff == [b \in Build |-> IF b = 1 THEN {<<Lone>>} ELSE {<<Off>>}]

OneService == [b \in Build |-> 1]
LastApart  == [b \in Build |-> IF b = 3 THEN 2 ELSE 1]

CapOne     == <<1>>
OneAndTwo  == <<1, 2>>
RoomForOne == [r \in Runner |-> 1]
RoomForTwo == [r \in Runner |-> 2]
============================================================================
