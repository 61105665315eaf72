--------------------------- MODULE MCSessionReport ---------------------------
(* Values of SessionReport's constants for TLC.                            *)
EXTENDS SessionReport

CONSTANTS j1, j2

TheOther == [j \in {j1, j2} |-> IF j = j1 THEN j2 ELSE j1]

\* Nothing, one content at two lines, another content.
SomeAnswers == {<<>>, <<10, 11>>, <<20>>}

\* Three reviews of what is found, or two with requests to the model.
SomeLimits == {[reviews |-> 3, requests |-> 0], [reviews |-> 2, requests |-> 2]}
=============================================================================
