---------------------------- MODULE MCAgentTasks ----------------------------
EXTENDS AgentTasks

Calm == [cuts |-> FALSE, losses |-> FALSE, slow |-> FALSE]
OnlyCuts == [Calm EXCEPT !.cuts = TRUE]
OnlyLosses == [Calm EXCEPT !.losses = TRUE]

\* Each half of what can go wrong, and losses with claims that overlap.
Surroundings == {OnlyCuts, OnlyLosses, [OnlyLosses EXCEPT !.slow = TRUE]}
=============================================================================
