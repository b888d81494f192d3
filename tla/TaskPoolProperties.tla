------------------------- MODULE TaskPoolProperties -------------------------
(***************************************************************************)
(* What the task pool and the parallel executor must guarantee.            *)
(***************************************************************************)
EXTENDS TaskPool

TypeOK ==
    /\ running \in BOOLEAN
    /\ queue \subseteq Tasks \ {Root} /\ owner_queue \subseteq OwnerOnly
    /\ unchanged \subseteq Threads /\ wakes \subseteq Threads
    /\ at \in [Threads -> {"check", "owner look", "look", "read", "recheck",
                           "owner look again", "look again", "wait", "exited"}]
    /\ stack \in [Threads -> Seq(Tasks)]
    /\ step \in [Tasks -> {"idle", "body", "forked", "release"}]
    /\ todo \in [Tasks -> SUBSET (Tasks \ {Root})]
    /\ remaining \in [Tasks -> Nat] /\ dependencies \in [Tasks -> Nat]
    /\ phase \in [Tasks -> {"waiting", "executing", "done"}]

(* A thread whose m_epoch.wait() blocks.                                   *)
Asleep(th) == Looping(th) /\ at[th] = "wait" /\ th \in unchanged

(* exec_pool.hpp:64-82, 220-228: the threads never miss a wake(): when     *)
(* nobody is about to call it, a sleeping thread has nothing to run and    *)
(* nothing to return from.                                                 *)
NoLostWakeup ==
    \A th \in Threads :
        Asleep(th) /\ wakes = {} =>
            /\ queue = {} /\ ~Over(th)
            /\ th = Owner => owner_queue = {}

(* graph_node.hpp, not_threadable(): such a node is executed by the thread *)
(* that runs the graph, even when a worker released it last.               *)
OwnedByOwner ==
    \A th \in Workers, i \in 1..Cardinality(Tasks) :
        i <= Len(stack[th]) => stack[th][i] \notin OwnerOnly

(* graph_parallel_impl.hpp:70-73 and :178-185: in each run every task      *)
(* executes once, after its predecessors, and run() returns at the end.    *)
Dag == INSTANCE NestedDag
ImplementsDag == Dag!Spec

(* ExecPoolTest.cpp:39-51: a run returns, also when workers block in       *)
(* nested joins.                                                           *)
RunReturns == phase[Root] = "executing" ~> phase[Root] = "done"

(* exec_pool.hpp:165-172: the destructor joins all the workers.            *)
WorkersExit == ~running ~> \A th \in Workers : at[th] = "exited"

(* What is left to do of the batch that p forked: task_batch::remaining.   *)
Unfinished(p) ==
    {t \in Children(p) : phase[t] # "done" \/ step[t] = "release"}

(* The predecessors of t that have not told it that they ended yet.        *)
Unreleased(t) ==
    {s \in Predecessors(t) :
        phase[s] # "done" \/ (step[s] = "release" /\ t \in todo[s])}

Submitted == queue \cup owner_queue

StepInv ==
    /\ queue \cap OwnerOnly = {}
    /\ step[Root] \in {"idle", "forked"}
    /\ \A t \in Tasks :
          /\ step[t] = "idle" =>
                IF t = Root THEN phase[t] = "done"
                ELSE phase[t] \in {"waiting", "done"}
          /\ step[t] \in {"body", "forked"} => phase[t] = "executing"
          /\ step[t] = "release" => phase[t] = "done"
          /\ step[t] \in {"idle", "body"} => todo[t] = {}
          /\ step[t] = "release" => todo[t] \subseteq Successors(t)
          /\ step[t] # "forked" => \A c \in Children(t) :
                phase[c] = "done" /\ step[c] = "idle"

(* A run in progress is at the bottom of the stack of the owner.           *)
RootInv ==
    step[Root] = "forked" => stack[Owner] # <<>> /\ stack[Owner][1] = Root

CounterInv ==
    \A p \in Tasks : step[p] = "forked" =>
        /\ remaining[p] = Cardinality(Unfinished(p))
        /\ \A t \in Children(p) :
              dependencies[t] = Cardinality(Unreleased(t))

SubmitInv ==
    /\ \A t \in Tasks \ {Root} : phase[t] # "waiting" => Unreleased(t) = {}
    /\ \A t \in Submitted : phase[t] = "waiting" /\ Unreleased(t) = {}
    /\ \A p \in Tasks : step[p] = "forked" => \A t \in todo[p] :
          /\ t \in Children(p) /\ Predecessors(t) = {}
          /\ phase[t] = "waiting" /\ t \notin Submitted

(* The stacks hold the tasks that are executing, each of them once.        *)
FrameInv ==
    /\ \A th \in Threads : \A i \in 1..Len(stack[th]) :
          /\ step[stack[th][i]] # "idle"
          /\ stack[th][i] \in OwnerOnly \cup {Root} => th = Owner
          /\ \A th2 \in Threads : \A j \in 1..Len(stack[th2]) :
                stack[th2][j] = stack[th][i] => th2 = th /\ j = i

(* What a thread that read the current value of m_epoch has seen.          *)
SleepInv ==
    /\ \A th \in Threads :
          (IF stack[th] = <<>> THEN th = Owner ELSE ~Joining(Top(th)))
             => at[th] = "check"
    /\ \A th \in Workers : at[th] \notin {"owner look", "owner look again"}
    /\ wakes = {} => \A th \in unchanged :
          /\ at[th] \in {"owner look again", "look again", "wait"} => ~Over(th)
          /\ at[th] \in {"look again", "wait"} /\ th = Owner =>
                owner_queue = {}
          /\ at[th] = "wait" => queue = {}

(* The inductive invariant: each counter counts what its comment says.     *)
DagInv == TypeOK /\ StepInv /\ CounterInv /\ SubmitInv
Inv == DagInv /\ RootInv /\ FrameInv /\ SleepInv

=============================================================================
