-------------------------- MODULE MCGridController --------------------------
(* A small instance of GridController for TLC.                             *)
EXTENDS GridController, TLC
CONSTANTS n1, n2, v1, v2, svc, p1, p2

\* Both nodes of one value, or each of its own.
Together == [n \in {n1, n2} |-> v1]
Apart == [n \in {n1, n2} |-> IF n = n1 THEN v1 ELSE v2]
StartValues == {<<TRUE, Apart>>, <<TRUE, Together>>, <<FALSE, Together>>}

\* The template a grid is made with, and edits of it: of what updates carry over and
\* the rest (a user's objects are alike), without a key, of the selector.
Edited(carried, selector, other) == [carried |-> carried, selector |-> selector, other |-> other]
AsMade == Edited(p1, p1, p1)
NoKey == {Edited(p2, p1, p1)}
Theirs == {Edited(p2, p1, p2)}
Templates == {AsMade, Edited(p1, p2, p1)} \cup Theirs \cup NoKey
=============================================================================
