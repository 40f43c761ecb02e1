---------------------------- MODULE MCRunWorker ----------------------------
(* Small instances of RunWorker for TLC. *)
EXTENDS RunWorker, TLC

CONSTANTS a1, op1, op2, w1, w2, s1, s2

\* One agent and two operations, or one operation sent twice.
OneAgent == {a1}
TwoOps == {op1, op2}
OneOp == {op1}
Target == [op \in Ops |-> a1]

\* One process with two slots, or two processes with one slot each.
OneProcess == {w1}
TwoProcesses == {w1, w2}
TwoSlots == {s1, s2}
SlotSymmetry == Permutations({s1, s2})
SlotsOfOneProcess == [s \in Slots |-> w1]
SlotPerProcess == [s \in Slots |-> IF s = s1 THEN w1 ELSE w2]
=============================================================================
