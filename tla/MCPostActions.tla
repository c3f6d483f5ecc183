--------------------------- MODULE MCPostActions ---------------------------
EXTENDS PostActions, TLC

CONSTANTS cleanup, mail, hook

Triggers == (cleanup :> "failure") @@ (mail :> "fixed") @@ (hook :> "always")

\* As it should be, and each thing that can be otherwise.
Usual == [whole |-> FALSE, fixed |-> TRUE, overlap |-> FALSE, slow |-> FALSE]
Surroundings == {Usual, [Usual EXCEPT !.overlap = TRUE, !.fixed = FALSE], [Usual EXCEPT !.slow = TRUE],
                 [Usual EXCEPT !.whole = TRUE, !.fixed = FALSE]}
=============================================================================
