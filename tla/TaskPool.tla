------------------------------ MODULE TaskPool ------------------------------
(***************************************************************************)
(* ossia::task_pool (src/src/ossia/dataflow/exec_pool.hpp) and the graph   *)
(* executor that drives it (graph_parallel_impl.hpp).  Worker threads and  *)
(* the execution thread take tasks from two lock-free queues; a thread     *)
(* that waits for a batch runs other tasks meanwhile, on top of the one    *)
(* that waits, so each thread has a stack of tasks; a thread that finds    *)
(* nothing sleeps on m_epoch, which every enqueuing increments.            *)
(*                                                                         *)
(* Each atomic operation is a step.  Two things are left out of the state: *)
(* the value of the 32-bit m_epoch, of which only whether it changed since *)
(* a thread read it matters (unchanged), and the order of the queues,      *)
(* which moodycamel::ConcurrentQueue keeps per producer only.              *)
(***************************************************************************)
EXTENDS TaskTree, Sequences

CONSTANTS
    Workers,        \* m_workers
    Owner,          \* the thread that calls executor::run
    OwnerOnly,      \* graph_node::not_threadable
    OwnerCapacity   \* number of tasks that m_owner_queue has room for

Threads == Workers \cup {Owner}

ASSUME PoolAssumption ==
    /\ Owner \notin Workers
    /\ OwnerOnly \subseteq Children(Root)
    /\ OwnerCapacity \in Nat

VARIABLES
    running,        \* m_running
    queue,          \* m_queue
    owner_queue,    \* m_owner_queue
    unchanged,      \* threads since whose reading m_epoch has not changed
    wakes,          \* threads that are about to call wake()
    at,             \* where a thread is in worker_run or corun_until
    stack,          \* the tasks a thread executes, the innermost last
    step,           \* where the execution of a task is
    todo,           \* tasks still to submit, or successors to release
    remaining,      \* task_batch::remaining of what a task forked
    dependencies,   \* m_remaining_dependencies
    phase           \* history: what each task did in the current run

batches == <<todo, remaining, dependencies>>
queues == <<queue, owner_queue>>
vars == <<running, queues, unchanged, wakes, at, stack, step, batches, phase>>

Init ==
    /\ running = TRUE
    /\ queue = {} /\ owner_queue = {}
    /\ unchanged = {} /\ wakes = {}
    /\ at = [th \in Threads |-> "check"]
    /\ stack = [th \in Threads |-> <<>>]
    /\ step = [t \in Tasks |-> "idle"]
    /\ todo = [t \in Tasks |-> {}]
    /\ remaining = [t \in Tasks |-> 0]
    /\ dependencies = [t \in Tasks |-> 0]
    /\ phase = [t \in Tasks |-> "done"]

-----------------------------------------------------------------------------
Idle(th) == stack[th] = <<>> /\ th \notin wakes
Busy(th) == stack[th] # <<>> /\ th \notin wakes
Top(th) == stack[th][Len(stack[th])]
Popped(th) == [stack EXCEPT ![th] = SubSeq(@, 1, Len(@) - 1)]

(* A thread is in the loop of corun_until when the innermost task has      *)
(* submitted all it forked, and in that of worker_run when it has no task. *)
Joining(t) == step[t] = "forked" /\ todo[t] = {}
Looping(th) == \/ Idle(th) /\ th \in Workers
               \/ Busy(th) /\ Joining(Top(th))

(* The condition that ends the loop.                                       *)
Over(th) == IF stack[th] = <<>> THEN ~running ELSE remaining[Top(th)] = 0

(* pool_task::execute, called from a loop or from submit().                *)
Execute(th, t) ==
    /\ stack' = [stack EXCEPT ![th] = Append(@, t)]
    /\ step' = [step EXCEPT ![t] = "body"]
    /\ phase' = [phase EXCEPT ![t] = "executing"]

(* executor::enqueue and task_pool::submit: the queue has no room for the  *)
(* task, or takes it.  submit_owner_only() waits for room.                 *)
Submit(th, t) ==
    \/ /\ t \notin OwnerOnly
       /\ Execute(th, t)
       /\ UNCHANGED <<queues, wakes>>
    \/ /\ IF t \in OwnerOnly
          THEN /\ Cardinality(owner_queue) < OwnerCapacity
               /\ owner_queue' = owner_queue \cup {t}
               /\ queue' = queue
          ELSE /\ queue' = queue \cup {t}
               /\ owner_queue' = owner_queue
       /\ wakes' = wakes \cup {th}
       /\ UNCHANGED <<stack, step, phase>>

(* Mutant: run() does not set the counters again.                          *)
Fork_KeepsCounters(th, p) ==
    /\ Children(p) # {}
    /\ remaining' = [remaining EXCEPT ![p] = Cardinality(Children(p))]
    /\ dependencies' = dependencies
    /\ todo' = [todo EXCEPT ![p] = {t \in Children(p) : Predecessors(t) = {}}]
    /\ step' = [step EXCEPT ![p] = "forked"]
    /\ phase' = [t \in Tasks |->
                    IF t = p THEN "executing"
                    ELSE IF t \in Children(p) THEN "waiting" ELSE phase[t]]
    /\ UNCHANGED <<running, queues, unchanged, wakes, at>>

(* Mutant: run() submits all the tasks, ready or not.                      *)
Fork_AllTasks(th, p) ==
    /\ Children(p) # {}
    /\ remaining' = [remaining EXCEPT ![p] = Cardinality(Children(p))]
    /\ dependencies' = [t \in Tasks |-> IF t \in Children(p)
                                        THEN Cardinality(Predecessors(t))
                                        ELSE dependencies[t]]
    /\ todo' = [todo EXCEPT ![p] = Children(p)]
    /\ step' = [step EXCEPT ![p] = "forked"]
    /\ phase' = [t \in Tasks |->
                    IF t = p THEN "executing"
                    ELSE IF t \in Children(p) THEN "waiting" ELSE phase[t]]
    /\ UNCHANGED <<running, queues, unchanged, wakes, at>>

(* The part of run() and fork_n() that prepares a batch.                   *)
Fork(th, p) ==
    /\ Children(p) # {}
    /\ remaining' = [remaining EXCEPT ![p] = Cardinality(Children(p))]
    /\ dependencies' = [t \in Tasks |-> IF t \in Children(p)
                                        THEN Cardinality(Predecessors(t))
                                        ELSE dependencies[t]]
    /\ todo' = [todo EXCEPT ![p] = {t \in Children(p) : Predecessors(t) = {}}]
    /\ step' = [step EXCEPT ![p] = "forked"]
    /\ phase' = [t \in Tasks |->
                    IF t = p THEN "executing"
                    ELSE IF t \in Children(p) THEN "waiting" ELSE phase[t]]
    /\ UNCHANGED <<running, queues, unchanged, wakes, at>>

-----------------------------------------------------------------------------
(* The execution thread: executor::run, and the destructor at exit.        *)

Run ==
    /\ running /\ Idle(Owner)
    /\ Fork(Owner, Root)
    /\ stack' = [stack EXCEPT ![Owner] = Append(@, Root)]

(* Mutant: the destructor does not wake the workers.                       *)
Shutdown_NoWake ==
    /\ running /\ Idle(Owner)
    /\ running' = FALSE
    /\ wakes' = wakes
    /\ UNCHANGED <<queues, unchanged, at, stack, step, batches, phase>>

Shutdown ==
    /\ running /\ Idle(Owner)
    /\ running' = FALSE
    /\ wakes' = wakes \cup {Owner}
    /\ UNCHANGED <<queues, unchanged, at, stack, step, batches, phase>>

-----------------------------------------------------------------------------
(* The tasks: the function of a node or a slice, which may fork once, then *)
(* process_done: the successors are released, and the batch is told.       *)

ForkN(th) ==
    /\ Busy(th) /\ step[Top(th)] = "body"
    /\ Fork(th, Top(th))
    /\ UNCHANGED stack

SubmitNext(th) ==
    /\ Busy(th)
    /\ LET p == Top(th)
       IN  /\ step[p] = "forked"
           /\ \E t \in todo[p] :
                 /\ todo' = [todo EXCEPT ![p] = @ \ {t}]
                 /\ Submit(th, t)
    /\ UNCHANGED <<running, unchanged, at, remaining, dependencies>>

EndBody(th) ==
    /\ Busy(th)
    /\ LET t == Top(th)
       IN  /\ step[t] = "body" /\ Children(t) = {}
           /\ step' = [step EXCEPT ![t] = "release"]
           /\ todo' = [todo EXCEPT ![t] = Successors(t)]
           /\ phase' = [phase EXCEPT ![t] = "done"]
    /\ UNCHANGED <<running, queues, unchanged, wakes, at, stack, remaining,
                   dependencies>>

Release(th) ==
    /\ Busy(th)
    /\ LET t == Top(th)
       IN  /\ step[t] = "release"
           /\ \E s \in todo[t] :
                 /\ todo' = [todo EXCEPT ![t] = @ \ {s}]
                 /\ dependencies' = [dependencies EXCEPT ![s] = @ - 1]
                 /\ IF dependencies[s] = 1
                    THEN Submit(th, s)
                    ELSE UNCHANGED <<queues, wakes, stack, step, phase>>
    /\ UNCHANGED <<running, unchanged, at, remaining>>

(* Mutant: the end of a batch wakes nobody.                                *)
Finish_NoWake(th) ==
    /\ Busy(th)
    /\ LET t == Top(th)
           p == Parent[t]
       IN  /\ step[t] = "release" /\ todo[t] = {}
           /\ step' = [step EXCEPT ![t] = "idle"]
           /\ remaining' = [remaining EXCEPT ![p] = @ - 1]
           /\ wakes' = wakes
    /\ stack' = Popped(th)
    /\ UNCHANGED <<running, queues, unchanged, at, todo, dependencies, phase>>

Finish(th) ==
    /\ Busy(th)
    /\ LET t == Top(th)
           p == Parent[t]
       IN  /\ step[t] = "release" /\ todo[t] = {}
           /\ step' = [step EXCEPT ![t] = "idle"]
           /\ remaining' = [remaining EXCEPT ![p] = @ - 1]
           /\ wakes' = IF remaining[p] = 1 THEN wakes \cup {th} ELSE wakes
    /\ stack' = Popped(th)
    /\ UNCHANGED <<running, queues, unchanged, at, todo, dependencies, phase>>

(* m_epoch.fetch_add and notify_all: no sleeper has the current value.     *)
Wake(th) ==
    /\ th \in wakes
    /\ wakes' = wakes \ {th}
    /\ unchanged' = {}
    /\ UNCHANGED <<running, queues, at, stack, step, batches, phase>>

-----------------------------------------------------------------------------
(* The loops of worker_run and corun_until: test the condition, try to run *)
(* a task, read m_epoch, test again, try again, and sleep if m_epoch still *)
(* has the value read.  Only the owner looks into the owner queue.         *)

Goto(th, place) == at' = [at EXCEPT ![th] = place]

(* Mutant: the queue is not tried again after reading m_epoch.             *)
Continue_NoSecondTry(th) ==
    /\ Looping(th) /\ ~Over(th)
    /\ \/ /\ at[th] = "check"
          /\ Goto(th, IF th = Owner THEN "owner look" ELSE "look")
       \/ /\ at[th] = "recheck"
          /\ Goto(th, "wait")
    /\ UNCHANGED <<running, queues, unchanged, wakes, stack, step, batches,
                   phase>>

(* Mutant: the workers look into the owner queue too.                      *)
Continue_AsOwner(th) ==
    /\ Looping(th) /\ ~Over(th)
    /\ \/ /\ at[th] = "check"
          /\ Goto(th, "owner look")
       \/ /\ at[th] = "recheck"
          /\ Goto(th, IF th = Owner THEN "owner look again" ELSE "look again")
    /\ UNCHANGED <<running, queues, unchanged, wakes, stack, step, batches,
                   phase>>

Continue(th) ==
    /\ Looping(th) /\ ~Over(th)
    /\ \/ /\ at[th] = "check"
          /\ Goto(th, IF th = Owner THEN "owner look" ELSE "look")
       \/ /\ at[th] = "recheck"
          /\ Goto(th, IF th = Owner THEN "owner look again" ELSE "look again")
    /\ UNCHANGED <<running, queues, unchanged, wakes, stack, step, batches,
                   phase>>

Exit(th) ==
    /\ Idle(th) /\ th \in Workers
    /\ Over(th) /\ at[th] \in {"check", "recheck"}
    /\ Goto(th, "exited")
    /\ UNCHANGED <<running, queues, unchanged, wakes, stack, step, batches,
                   phase>>

(* corun_until returns to run() or to the function that forked.            *)
Joined(th) ==
    /\ Busy(th)
    /\ Over(th) /\ at[th] \in {"check", "recheck"}
    /\ Goto(th, "check")
    /\ LET t == Top(th)
       IN  /\ Joining(t)
           /\ phase' = [phase EXCEPT ![t] = "done"]
           /\ IF t = Root
              THEN /\ step' = [step EXCEPT ![t] = "idle"]
                   /\ stack' = Popped(th)
                   /\ UNCHANGED todo
              ELSE /\ step' = [step EXCEPT ![t] = "release"]
                   /\ todo' = [todo EXCEPT ![t] = Successors(t)]
                   /\ UNCHANGED stack
    /\ UNCHANGED <<running, queues, unchanged, wakes, remaining, dependencies>>

TakeOwned(th) ==
    /\ Looping(th) /\ at[th] \in {"owner look", "owner look again"}
    /\ \E t \in owner_queue :
          /\ owner_queue' = owner_queue \ {t}
          /\ Execute(th, t)
    /\ Goto(th, "check")
    /\ UNCHANGED <<running, queue, unchanged, wakes, batches>>

Take(th) ==
    /\ Looping(th) /\ at[th] \in {"look", "look again"}
    /\ \E t \in queue :
          /\ queue' = queue \ {t}
          /\ Execute(th, t)
    /\ Goto(th, "check")
    /\ UNCHANGED <<running, owner_queue, unchanged, wakes, batches>>

FindNothing(th) ==
    /\ Looping(th)
    /\ \/ at[th] = "owner look" /\ owner_queue = {} /\ Goto(th, "look")
       \/ /\ at[th] = "owner look again" /\ owner_queue = {}
          /\ Goto(th, "look again")
       \/ at[th] = "look" /\ queue = {} /\ Goto(th, "read")
       \/ at[th] = "look again" /\ queue = {} /\ Goto(th, "wait")
    /\ UNCHANGED <<running, queues, unchanged, wakes, stack, step, batches,
                   phase>>

ReadEpoch(th) ==
    /\ Looping(th) /\ at[th] = "read"
    /\ unchanged' = unchanged \cup {th}
    /\ Goto(th, "recheck")
    /\ UNCHANGED <<running, queues, wakes, stack, step, batches, phase>>

(* m_epoch.wait: returns when the value is not the one read.               *)
Wait(th) ==
    /\ Looping(th) /\ at[th] = "wait" /\ th \notin unchanged
    /\ Goto(th, "check")
    /\ UNCHANGED <<running, queues, unchanged, wakes, stack, step, batches,
                   phase>>

-----------------------------------------------------------------------------
Thread(th) ==
    \/ ForkN(th) \/ SubmitNext(th) \/ EndBody(th) \/ Release(th) \/ Finish(th)
    \/ Wake(th) \/ Continue(th) \/ Exit(th) \/ Joined(th) \/ TakeOwned(th)
    \/ Take(th) \/ FindNothing(th) \/ ReadEpoch(th) \/ Wait(th)

Next == Run \/ Shutdown \/ \E th \in Threads : Thread(th)

Spec == Init /\ [][Next]_vars

(* The system schedules every thread and the functions of the nodes end;   *)
(* nothing obliges the execution thread to call run() or to exit.          *)
FairSpec == Spec /\ \A th \in Threads : WF_vars(Thread(th))
=============================================================================
