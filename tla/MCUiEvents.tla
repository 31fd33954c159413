----------------------------- MODULE MCUiEvents -----------------------------
(* One browser session and two agents on two workers. *)
EXTENDS UiEvents

CONSTANTS s1, a1, a2, w1, w2

MCSession == {s1}
MCAgent == {a1, a2}
MCWorker == {w1, w2}

\* The session shares its worker with one of the agents.
MCPickWorker == [k \in {s1, a1, a2} |-> IF k = a2 THEN w2 ELSE w1]
=============================================================================
