------------------------------ MODULE TaskTree ------------------------------
(***************************************************************************)
(* The work given to ossia::task_pool: a tree of tasks.  The root is a     *)
(* call of executor::run (src/src/ossia/dataflow/graph/                    *)
(* graph_parallel_impl.hpp) on the execution thread and its children are   *)
(* the nodes of the data-flow graph; the children of any other task are    *)
(* the slices of the task_pool::fork_n it calls.  Tasks with the same      *)
(* parent form a batch, whose members are ordered by the graph edges.      *)
(***************************************************************************)
EXTENDS Naturals, FiniteSets

CONSTANTS
    Tasks,          \* the root, the nodes of the graph and their slices
    Root,           \* executor::run
    Parent,         \* the task that waits for this one
    Before          \* task::precede: pairs <<predecessor, successor>>

ASSUME TreeAssumption ==
    /\ IsFiniteSet(Tasks) /\ Root \in Tasks
    /\ Parent \in [Tasks \ {Root} -> Tasks]
    /\ Before \subseteq (Tasks \ {Root}) \X (Tasks \ {Root})
    /\ \A e \in Before : Parent[e[1]] = Parent[e[2]]

Children(p) == {t \in Tasks \ {Root} : Parent[t] = p}

(* task::m_precedes, and the tasks counted by task::m_dependencies.        *)
Successors(t) == {s \in Tasks : <<t, s>> \in Before}
Predecessors(t) == {s \in Tasks : <<s, t>> \in Before}
=============================================================================
