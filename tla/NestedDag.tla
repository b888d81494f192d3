------------------------------ MODULE NestedDag -----------------------------
(***************************************************************************)
(* What the parallel execution of a graph promises, whatever the threads:  *)
(* in each run a task executes exactly once, after all its predecessors    *)
(* have ended, and a task that forks ends after all that it forked.        *)
(***************************************************************************)
EXTENDS TaskTree

VARIABLE phase      \* [Tasks -> {"waiting", "executing", "done"}]

Init == phase = [t \in Tasks |-> "done"]

(* The root starts a run, or an executing task forks.                      *)
Fork(p) ==
    /\ phase[p] = IF p = Root THEN "done" ELSE "executing"
    /\ \A c \in Children(p) : phase[c] = "done"
    /\ phase' = [t \in Tasks |->
                    IF t = p THEN "executing"
                    ELSE IF t \in Children(p) THEN "waiting" ELSE phase[t]]

Begin(t) ==
    /\ phase[t] = "waiting"
    /\ \A s \in Predecessors(t) : phase[s] = "done"
    /\ phase' = [phase EXCEPT ![t] = "executing"]

End(t) ==
    /\ phase[t] = "executing"
    /\ \A c \in Children(t) : phase[c] = "done"
    /\ phase' = [phase EXCEPT ![t] = "done"]

Next == \E t \in Tasks : Fork(t) \/ Begin(t) \/ End(t)

Spec == Init /\ [][Next]_phase
=============================================================================
