--------------------------- MODULE MCChangeBundle ---------------------------
EXTENDS ChangeBundle

Usual == [stop |-> TRUE, overlap |-> FALSE, slow |-> FALSE, unnamed |-> {}]
AsItShouldBe == {Usual}

\* As it should be; and with managers who have no address: where a failure does
\* not stop the rest, and with a lost session and a slow item.
NoAddress == [Usual EXCEPT !.unnamed = Manager]
Surroundings ==
    {Usual, [NoAddress EXCEPT !.stop = FALSE], [NoAddress EXCEPT !.overlap = TRUE, !.slow = TRUE]}
=============================================================================
