----------------------------- MODULE LeaseQueue -----------------------------
(***************************************************************************)
(* What the run queue promises the code around it: an item is added once,  *)
(* is held by at most one holder at a time, comes back when its holder     *)
(* gives it back or disappears, and once settled is never handed out       *)
(* again.  How often it comes back is left open (at least once delivery).  *)
(***************************************************************************)
EXTENDS FiniteSets

CONSTANTS Items, Holders

VARIABLES state,  \* state[i]: where item i is
          held    \* held[h]: the items in the hands of h, at most one

Init ==
    /\ state = [i \in Items |-> "absent"]
    /\ held = [h \in Holders |-> {}]

Add(i) ==
    /\ state[i] = "absent"
    /\ state' = [state EXCEPT ![i] = "ready"]
    /\ UNCHANGED held

Take(i, h) ==
    /\ state[i] \in {"ready", "orphaned"}
    /\ held[h] = {}
    /\ state' = [state EXCEPT ![i] = "held"]
    /\ held' = [held EXCEPT ![h] = {i}]

\* The holder is done with the item, for good or until it is taken again.
GiveUp(i, h, to) ==
    /\ held[h] = {i}
    /\ state' = [state EXCEPT ![i] = to]
    /\ held' = [held EXCEPT ![h] = {}]

\* Some holders disappear; what they held waits for another one.
Vanish(H) ==
    LET lost == UNION {held[h] : h \in H} IN
    /\ state' = [i \in Items |-> IF i \in lost THEN "orphaned" ELSE state[i]]
    /\ held' = [h \in Holders |-> IF h \in H THEN {} ELSE held[h]]

Next ==
    \/ \E i \in Items : Add(i)
    \/ \E i \in Items, h \in Holders : Take(i, h)
    \/ \E i \in Items, h \in Holders, to \in {"ready", "settled"} : GiveUp(i, h, to)
    \/ \E H \in SUBSET Holders : Vanish(H)

Spec == Init /\ [][Next]_<<state, held>>
=============================================================================
