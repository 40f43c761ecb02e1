---------------------------- MODULE MCTaskGraph ----------------------------
(* Small instances of TaskGraph for TLC. *)
EXTENDS TaskGraph

CONSTANTS t1, t2, t3, q1, q2

ThreeTasks == {t1, t2, t3}
TwoRequests == {q1, q2}
OneRequest == {q1}
One == {1}

Move(parent) == [parent |-> parent, limit |-> Same, status |-> Same]
Retitle == Move(Same)
Cancel == [Retitle EXCEPT !.status = "cancelled"]

\* A task is moved or made a root, or another field of it is changed.
Moves == {Move(parent) : parent \in Parents} \cup {Retitle}
MovesAndCancel == Moves \cup {Cancel}
=============================================================================
