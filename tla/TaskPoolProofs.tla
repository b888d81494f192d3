--------------------------- MODULE TaskPoolProofs ---------------------------
(***************************************************************************)
(* Proofs about TaskPool, for every tree of tasks, every set of workers    *)
(* and every capacity of the owner queue.                                  *)
(*                                                                         *)
(* The inductive invariant has two halves.  DagInv gives the order of the  *)
(* tasks: each counter is the size of the set of tasks that have not yet   *)
(* told, so the thread that takes it to zero knows that all of them ended. *)
(* ThreadInv gives where they run and who sleeps; with DagInv it is        *)
(* inductive, and DagInv needs from it that a run in progress is on the    *)
(* stack of the owner (RootInv).                                           *)
(***************************************************************************)
EXTENDS TaskPoolProperties, FiniteSetTheorems, TLAPS

-----------------------------------------------------------------------------
(* The tree of tasks.                                                      *)

(* What the assumptions say, in the form in which the proofs use them.     *)
LEMMA Tree ==
    /\ \A p : Children(p) \subseteq Tasks \ {Root}
    /\ \A t \in Tasks \ {Root} :
          Parent[t] \in Tasks /\ t \in Children(Parent[t])
    /\ \A p : \A t \in Children(p) : Parent[t] = p
    /\ \A t : Predecessors(t) \subseteq Tasks \ {Root}
    /\ \A t : Successors(t) \subseteq Tasks \ {Root}
    /\ \A t, s \in Tasks : s \in Successors(t) <=> t \in Predecessors(s)
    /\ \A t, s \in Tasks : s \in Successors(t) => Parent[s] = Parent[t]
    /\ OwnerOnly \subseteq Tasks \ {Root}
  BY TreeAssumption, PoolAssumption DEF Children, Predecessors, Successors

(* All the sets whose size a counter holds are finite.                     *)
LEMMA Finite ==
    \A S \in SUBSET Tasks : IsFiniteSet(S) /\ Cardinality(S) \in Nat
  BY TreeAssumption, FS_Subset, FS_CardinalityType

(* One atomic decrement: the counter of a set that loses an element.       *)
LEMMA Decrement ==
  ASSUME NEW S \in SUBSET Tasks, NEW x \in S
  PROVE  /\ Cardinality(S) \in Nat \ {0}
         /\ Cardinality(S \ {x}) = Cardinality(S) - 1
         /\ Cardinality(S) = 1 <=> S \ {x} = {}
<1>1. IsFiniteSet(S) /\ Cardinality(S) \in Nat
  BY Finite
<1>2. IsFiniteSet(S \ {x}) /\ Cardinality(S \ {x}) \in Nat
  BY Finite
<1>3. Cardinality(S \ {x}) = Cardinality(S) - 1
  BY <1>1, FS_RemoveElement
<1>4. Cardinality(S \ {x}) = 0 <=> S \ {x} = {}
  BY <1>2, FS_EmptySet
<1> QED BY <1>1, <1>2, <1>3, <1>4

-----------------------------------------------------------------------------
(* DagInv: one lemma per action, or per group of actions that do the same. *)

dag == <<queue, owner_queue, step, phase, todo, remaining, dependencies>>

(* A task that is submitted has not begun, and its batch is in progress.   *)
LEMMA Waiting ==
  ASSUME DagInv, NEW t \in Tasks, phase[t] = "waiting"
  PROVE  /\ t # Root /\ step[t] = "idle" /\ todo[t] = {}
         /\ Parent[t] \in Tasks /\ step[Parent[t]] = "forked"
         /\ Parent[t] # t /\ t \in Children(Parent[t])
<1>1. t # Root /\ step[t] = "idle" /\ todo[t] = {}
  BY DEF DagInv, StepInv, TypeOK
<1>2. Parent[t] \in Tasks /\ t \in Children(Parent[t])
  BY <1>1, Tree
<1>3. step[Parent[t]] = "forked"
  BY <1>2 DEF DagInv, StepInv, TypeOK
<1> QED BY <1>1, <1>2, <1>3

(* A thread takes a task out of a queue and executes it.                   *)
LEMMA TakeDag ==
  ASSUME DagInv, TypeOK', NEW t \in Submitted,
         queue' = queue \ {t}, owner_queue' = owner_queue \ {t},
         step' = [step EXCEPT ![t] = "body"],
         phase' = [phase EXCEPT ![t] = "executing"],
         todo' = todo, remaining' = remaining, dependencies' = dependencies
  PROVE  DagInv'
<1>1. /\ t \in Tasks \ {Root} /\ phase[t] = "waiting" /\ Unreleased(t) = {}
      /\ step[t] = "idle" /\ todo[t] = {}
  BY Waiting, Tree DEF DagInv, SubmitInv, Submitted, TypeOK
<1>2. /\ step \in [Tasks -> {"idle", "body", "forked", "release"}]
      /\ phase \in [Tasks -> {"waiting", "executing", "done"}]
  BY DEF DagInv, TypeOK
<1>3. \A p \in Tasks : Unfinished(p)' = Unfinished(p)
  BY <1>1, <1>2, Tree DEF Unfinished
<1>4. \A u \in Tasks : Unreleased(u)' = Unreleased(u)
  BY <1>1, <1>2, Tree DEF Unreleased
<1>5. StepInv'
  BY <1>1, <1>2, Tree DEF DagInv, StepInv
<1>6. CounterInv'
  BY <1>1, <1>2, <1>3, <1>4, Tree DEF DagInv, CounterInv
<1>7. SubmitInv'
  <2>1. \A u \in Tasks \ {Root} : phase'[u] # "waiting" => Unreleased(u)' = {}
    BY <1>1, <1>2, <1>4 DEF DagInv, SubmitInv
  <2>2. Submitted' = Submitted \ {t}
    BY DEF Submitted
  <2>3. \A u \in Submitted' : u \in Tasks /\ phase'[u] = "waiting"
    BY <1>1, <1>2, <2>2, Tree DEF DagInv, SubmitInv, Submitted, TypeOK
  <2>4. \A u \in Submitted' : Unreleased(u)' = {}
    BY <1>4, <2>2, <2>3 DEF DagInv, SubmitInv
  <2>5. \A p \in Tasks : step'[p] = "forked" => \A u \in todo'[p] :
            /\ u \in Children(p) /\ Predecessors(u) = {}
            /\ phase'[u] = "waiting" /\ u \notin Submitted'
    BY <1>1, <1>2, <2>2, Tree DEF DagInv, SubmitInv
  <2> QED BY <2>1, <2>3, <2>4, <2>5 DEF SubmitInv
<1> QED BY <1>5, <1>6, <1>7 DEF DagInv

(* The end of the function of a task: EndBody, and Joined below the root.  *)
LEMMA EndDag ==
  ASSUME DagInv, TypeOK', NEW t \in Tasks \ {Root},
         \/ step[t] = "body" /\ Children(t) = {}
         \/ step[t] = "forked" /\ Unfinished(t) = {},
         queue' = queue, owner_queue' = owner_queue,
         step' = [step EXCEPT ![t] = "release"],
         phase' = [phase EXCEPT ![t] = "done"],
         todo' = [todo EXCEPT ![t] = Successors(t)],
         remaining' = remaining, dependencies' = dependencies
  PROVE  DagInv'
<1>1. /\ step \in [Tasks -> {"idle", "body", "forked", "release"}]
      /\ phase \in [Tasks -> {"waiting", "executing", "done"}]
      /\ todo \in [Tasks -> SUBSET (Tasks \ {Root})]
  BY DEF DagInv, TypeOK
<1>2. phase[t] = "executing"
  BY DEF DagInv, StepInv
<1>3. \A p \in Tasks : Unfinished(p)' = Unfinished(p)
  BY <1>1, <1>2, Tree DEF Unfinished
<1>4. \A u \in Tasks : Unreleased(u)' = Unreleased(u)
  BY <1>1, <1>2, Tree DEF Unreleased
<1>5. \A c \in Children(t) : c # t /\ phase[c] = "done" /\ step[c] = "idle"
  BY <1>1, <1>2, Tree DEF Unfinished, DagInv, StepInv
<1>6. StepInv'
  BY <1>1, <1>2, <1>5, Tree DEF DagInv, StepInv
<1>7. CounterInv'
  BY <1>1, <1>3, <1>4, Tree DEF DagInv, CounterInv
<1>8. SubmitInv'
  <2>1. Submitted' = Submitted /\ t \notin Submitted
    BY <1>2 DEF Submitted, DagInv, SubmitInv
  <2>2. \A u \in Tasks \ {Root} : phase'[u] # "waiting" => Unreleased(u)' = {}
    BY <1>1, <1>2, <1>4 DEF DagInv, SubmitInv
  <2>3. \A u \in Submitted' : phase'[u] = "waiting" /\ Unreleased(u)' = {}
    <3>1. \A u \in Submitted : u \in Tasks
      BY Tree DEF Submitted, DagInv, TypeOK
    <3> QED BY <1>1, <1>4, <2>1, <3>1 DEF DagInv, SubmitInv
  <2>4. \A p \in Tasks : step'[p] = "forked" => \A u \in todo'[p] :
            /\ u \in Children(p) /\ Predecessors(u) = {}
            /\ phase'[u] = "waiting" /\ u \notin Submitted'
    BY <1>1, <1>2, <2>1, Tree DEF DagInv, SubmitInv
  <2> QED BY <2>2, <2>3, <2>4 DEF SubmitInv
<1> QED BY <1>6, <1>7, <1>8 DEF DagInv

(* What process_done leaves behind: the batch has one task less to wait    *)
(* for, and the task can be submitted again by the next run.               *)
LEMMA FinishDag ==
  ASSUME DagInv, TypeOK', NEW t \in Tasks \ {Root},
         step[t] = "release", todo[t] = {},
         queue' = queue, owner_queue' = owner_queue,
         step' = [step EXCEPT ![t] = "idle"], phase' = phase, todo' = todo,
         remaining' = [remaining EXCEPT ![Parent[t]] = @ - 1],
         dependencies' = dependencies
  PROVE  DagInv'
<1> DEFINE p == Parent[t]
<1>1. /\ step \in [Tasks -> {"idle", "body", "forked", "release"}]
      /\ remaining \in [Tasks -> Nat]
  BY DEF DagInv, TypeOK
<1>2. phase[t] = "done" /\ t \in Unfinished(p)
  BY Tree DEF DagInv, StepInv, Unfinished
<1>3. p \in Tasks /\ step[p] = "forked" /\ p # t
  BY Tree, <1>1 DEF DagInv, StepInv
<1>4. Unfinished(p)' = Unfinished(p) \ {t}
  BY <1>1, <1>2, <1>3, Tree DEF Unfinished
<1>5. \A q \in Tasks \ {p} : Unfinished(q)' = Unfinished(q)
  BY <1>1, Tree DEF Unfinished
<1>6. \A u \in Tasks : Unreleased(u)' = Unreleased(u)
  BY <1>1, Tree DEF Unreleased
<1>7. StepInv'
  BY <1>1, <1>2, <1>3, Tree DEF DagInv, StepInv
<1>8. CounterInv'
  <2>1. Cardinality(Unfinished(p) \ {t}) = Cardinality(Unfinished(p)) - 1
    BY <1>2, Decrement, Tree DEF Unfinished
  <2>2. ASSUME NEW q \in Tasks, step'[q] = "forked"
        PROVE  remaining'[q] = Cardinality(Unfinished(q)')
    <3>1. step[q] = "forked"
      BY <1>1, <2>2
    <3>2. remaining[q] = Cardinality(Unfinished(q))
      BY <3>1 DEF DagInv, CounterInv
    <3> QED BY <1>1, <1>3, <1>4, <1>5, <2>1, <3>2
  <2>3. ASSUME NEW q \in Tasks, step'[q] = "forked", NEW c \in Children(q)
        PROVE  dependencies'[c] = Cardinality(Unreleased(c)')
    BY <1>1, <1>6, <2>3, Tree DEF DagInv, CounterInv
  <2> QED BY <2>2, <2>3 DEF CounterInv
<1>9. SubmitInv'
  <2>1. Submitted' = Submitted
    BY DEF Submitted
  <2>2. \A u \in Submitted' : phase'[u] = "waiting" /\ Unreleased(u)' = {}
    BY <1>6, <2>1, Tree DEF DagInv, SubmitInv, Submitted, TypeOK
  <2>3. \A q \in Tasks : step'[q] = "forked" => step[q] = "forked"
    BY <1>1
  <2>4. \A u \in Tasks \ {Root} : phase'[u] # "waiting" => Unreleased(u)' = {}
    BY <1>6 DEF DagInv, SubmitInv
  <2> QED BY <2>1, <2>2, <2>3, <2>4 DEF DagInv, SubmitInv
<1> QED BY <1>7, <1>8, <1>9 DEF DagInv

(* run() and fork_n(): the counters of the batch are set.                  *)
LEMMA ForkDag ==
  ASSUME DagInv, TypeOK', NEW th \in Threads, NEW p \in Tasks, Fork(th, p),
         step[p] = IF p = Root THEN "idle" ELSE "body"
  PROVE  DagInv'
<1>1. /\ step \in [Tasks -> {"idle", "body", "forked", "release"}]
      /\ phase \in [Tasks -> {"waiting", "executing", "done"}]
      /\ todo \in [Tasks -> SUBSET (Tasks \ {Root})]
      /\ remaining \in [Tasks -> Nat] /\ dependencies \in [Tasks -> Nat]
      /\ queue' = queue /\ owner_queue' = owner_queue
      /\ Submitted \subseteq Tasks
  BY Tree DEF DagInv, TypeOK, Fork, queues, Submitted
<1>2. \A c \in Children(p) :
         c # p /\ phase[c] = "done" /\ step[c] = "idle" /\ todo[c] = {}
  BY Tree DEF DagInv, StepInv
<1>3. /\ phase'[p] = "executing" /\ step'[p] = "forked"
      /\ \A c \in Children(p) : phase'[c] = "waiting" /\ step'[c] = "idle"
      /\ \A u \in Tasks \ ({p} \cup Children(p)) : phase'[u] = phase[u]
      /\ \A u \in Tasks \ {p} : step'[u] = step[u] /\ todo'[u] = todo[u]
      /\ todo'[p] = {t \in Children(p) : Predecessors(t) = {}}
  BY <1>1, <1>2, Tree DEF Fork
<1>4. Unfinished(p)' = Children(p)
  BY <1>3, Tree DEF Unfinished
<1>5. \A q \in Tasks \ {p} : Unfinished(q)' = Unfinished(q)
  <2> SUFFICES ASSUME NEW q \in Tasks \ {p} PROVE Unfinished(q)' = Unfinished(q)
    OBVIOUS
  <2>1. \A c \in Children(q) : c \notin Children(p)
    BY Tree
  <2>2. p \in Children(q) => phase[p] # "done"
    BY Tree DEF DagInv, StepInv
  <2> QED BY <1>3, <2>1, <2>2, Tree DEF Unfinished
<1>6. \A c \in Children(p) : Unreleased(c)' = Predecessors(c)
  <2> SUFFICES ASSUME NEW c \in Children(p), NEW s \in Predecessors(c)
               PROVE  phase'[s] # "done"
    BY DEF Unreleased
  <2>1. s \in Children(p)
    BY Tree DEF Predecessors, Successors
  <2> QED BY <1>3, <2>1
<1>7. \A u \in Tasks \ Children(p) : Unreleased(u)' = Unreleased(u)
  <2> SUFFICES ASSUME NEW u \in Tasks \ Children(p), NEW s \in Predecessors(u)
               PROVE  /\ phase'[s] # "done" <=> phase[s] # "done"
                      /\ step'[s] = "release" <=> step[s] = "release"
                      /\ s # p => todo'[s] = todo[s]
                      /\ s = p => step[s] # "release"
    BY <1>3, Tree DEF Unreleased
  <2>1. s \in Tasks \ {Root} /\ s \notin Children(p)
    BY Tree
  <2>2. s = p => phase[p] = "executing"
    BY <2>1 DEF DagInv, StepInv
  <2> QED BY <1>1, <1>3, <2>1, <2>2, Tree
<1>8. StepInv'
  <2>1. queue' \cap OwnerOnly = {} /\ step'[Root] \in {"idle", "forked"}
    BY <1>1, <1>3, TreeAssumption DEF DagInv, StepInv
  <2>2. ASSUME NEW t \in Tasks, step'[t] # "forked", NEW c \in Children(t)
        PROVE  phase'[c] = "done" /\ step'[c] = "idle"
    <3>1. t # p /\ c \notin Children(p) /\ step[t] # "forked"
      BY <2>2, <1>3, Tree
    <3>2. phase[c] = "done" /\ step[c] = "idle" /\ c \in Tasks \ {Root}
      BY <3>1, Tree DEF DagInv, StepInv
    <3>3. c # p
      BY <3>2
    <3> QED BY <1>3, <3>1, <3>2, <3>3
  <2>3. ASSUME NEW t \in Tasks
        PROVE  /\ step'[t] = "idle" =>
                     IF t = Root THEN phase'[t] = "done"
                     ELSE phase'[t] \in {"waiting", "done"}
               /\ step'[t] \in {"body", "forked"} => phase'[t] = "executing"
               /\ step'[t] = "release" => phase'[t] = "done"
               /\ step'[t] \in {"idle", "body"} => todo'[t] = {}
               /\ step'[t] = "release" => todo'[t] \subseteq Successors(t)
    BY <1>2, <1>3, Tree DEF DagInv, StepInv
  <2> QED BY <2>1, <2>2, <2>3 DEF StepInv
<1>9. CounterInv'
  <2>1. /\ remaining'[p] = Cardinality(Children(p))
        /\ \A q \in Tasks \ {p} : remaining'[q] = remaining[q]
        /\ \A c \in Children(p) :
              dependencies'[c] = Cardinality(Predecessors(c))
        /\ \A u \in Tasks \ Children(p) : dependencies'[u] = dependencies[u]
    BY <1>1, Tree DEF Fork
  <2>2. \A q \in Tasks \ {p} : \A c \in Children(q) : c \notin Children(p)
    BY Tree
  <2> QED BY <1>3, <1>4, <1>5, <1>6, <1>7, <2>1, <2>2, Tree
          DEF DagInv, CounterInv
<1>10. SubmitInv'
  <2>1. \A u \in Submitted : u \notin Children(p) /\ u # p
    BY <1>1, <1>2, Tree DEF DagInv, SubmitInv, StepInv
  <2>2. Submitted' = Submitted
    BY <1>1 DEF Submitted
  <2>3. \A u \in Tasks \ {Root} : phase'[u] # "waiting" => Unreleased(u)' = {}
    <3> SUFFICES ASSUME NEW u \in Tasks \ {Root}, phase'[u] # "waiting"
                 PROVE  Unreleased(u)' = {}
      OBVIOUS
    <3>1. u \notin Children(p)
      BY <1>3
    <3>2. phase[u] # "waiting"
      BY <1>3, <3>1 DEF DagInv, StepInv
    <3> QED BY <1>7, <3>1, <3>2 DEF DagInv, SubmitInv
  <2>4. \A u \in Submitted' : phase'[u] = "waiting" /\ Unreleased(u)' = {}
    BY <1>1, <1>3, <1>7, <2>1, <2>2 DEF DagInv, SubmitInv
  <2>5. ASSUME NEW q \in Tasks, step'[q] = "forked", NEW t \in todo'[q]
        PROVE  /\ t \in Children(q) /\ Predecessors(t) = {}
               /\ phase'[t] = "waiting" /\ t \notin Submitted'
    <3>1. CASE q = p
      BY <3>1, <1>3, <2>1, <2>2
    <3>2. CASE q # p
      <4>1. step[q] = "forked" /\ t \in todo[q]
        BY <3>2, <2>5, <1>3
      <4>2. /\ t \in Children(q) /\ Predecessors(t) = {}
            /\ phase[t] = "waiting" /\ t \notin Submitted
        BY <4>1 DEF DagInv, SubmitInv
      <4>3. t \in Tasks \ {Root} /\ t \notin Children(p) /\ t # p
        BY <4>2, <3>2, Tree DEF DagInv, StepInv
      <4> QED BY <1>3, <2>2, <4>2, <4>3
    <3> QED BY <3>1, <3>2
  <2> QED BY <2>3, <2>4, <2>5 DEF SubmitInv
<1> QED BY <1>8, <1>9, <1>10 DEF DagInv

(* SubmitNext: a task without predecessors is executed at once, or goes    *)
(* into a queue.                                                           *)
LEMMA SubmitNextDag ==
  ASSUME DagInv, TypeOK', NEW p \in Tasks, step[p] = "forked",
         NEW t \in todo[p], todo' = [todo EXCEPT ![p] = @ \ {t}],
         \/ /\ Submitted' = Submitted
            /\ queue' = queue /\ owner_queue' = owner_queue
            /\ step' = [step EXCEPT ![t] = "body"]
            /\ phase' = [phase EXCEPT ![t] = "executing"]
         \/ /\ Submitted' = Submitted \cup {t}
            /\ queue' \cap OwnerOnly = {}
            /\ step' = step /\ phase' = phase,
         remaining' = remaining, dependencies' = dependencies
  PROVE  DagInv'
<1>1. /\ step \in [Tasks -> {"idle", "body", "forked", "release"}]
      /\ phase \in [Tasks -> {"waiting", "executing", "done"}]
      /\ todo \in [Tasks -> SUBSET (Tasks \ {Root})]
  BY DEF DagInv, TypeOK
<1>2. /\ t \in Children(p) /\ Predecessors(t) = {} /\ Unreleased(t) = {}
      /\ t \in Tasks \ {Root} /\ phase[t] = "waiting" /\ t \notin Submitted
  BY <1>1, Tree DEF DagInv, SubmitInv, Unreleased
<1>3. step[t] = "idle" /\ todo[t] = {} /\ t # p
  BY <1>2, Waiting, Tree
<1>4. \A q \in Tasks : Unfinished(q)' = Unfinished(q)
  BY <1>1, <1>2, <1>3, Tree DEF Unfinished
<1>5. \A u \in Tasks : Unreleased(u)' = Unreleased(u)
  BY <1>1, <1>2, <1>3, Tree DEF Unreleased
<1>6. /\ \A q \in Tasks \ {p} : todo'[q] = todo[q]
      /\ todo'[p] = todo[p] \ {t}
      /\ \A u \in Tasks \ {t} : step'[u] = step[u] /\ phase'[u] = phase[u]
      /\ \/ step'[t] = "body" /\ phase'[t] = "executing"
         \/ step'[t] = "idle" /\ phase'[t] = "waiting"
  BY <1>1, <1>2, <1>3
<1>7. StepInv'
  <2>1. queue' \cap OwnerOnly = {} /\ step'[Root] \in {"idle", "forked"}
    BY <1>2, <1>6, TreeAssumption DEF DagInv, StepInv
  <2>2. ASSUME NEW u \in Tasks, step'[u] # "forked", NEW c \in Children(u)
        PROVE  phase'[c] = "done" /\ step'[c] = "idle"
    <3>1. step[u] # "forked"
      BY <1>3, <1>6, <2>2
    <3> QED BY <1>2, <1>6, <3>1, Tree DEF DagInv, StepInv
  <2>3. ASSUME NEW u \in Tasks
        PROVE  /\ step'[u] = "idle" =>
                     IF u = Root THEN phase'[u] = "done"
                     ELSE phase'[u] \in {"waiting", "done"}
               /\ step'[u] \in {"body", "forked"} => phase'[u] = "executing"
               /\ step'[u] = "release" => phase'[u] = "done"
               /\ step'[u] \in {"idle", "body"} => todo'[u] = {}
               /\ step'[u] = "release" => todo'[u] \subseteq Successors(u)
    BY <1>2, <1>3, <1>6 DEF DagInv, StepInv
  <2> QED BY <2>1, <2>2, <2>3 DEF StepInv
<1>8. CounterInv'
  <2>1. \A q \in Tasks : step'[q] = "forked" => step[q] = "forked"
    BY <1>3, <1>6
  <2> QED BY <1>4, <1>5, <2>1, Tree DEF DagInv, CounterInv
<1>9. SubmitInv'
  <2>1. \A u \in Tasks \ {Root} : phase'[u] # "waiting" => Unreleased(u)' = {}
    BY <1>2, <1>5, <1>6 DEF DagInv, SubmitInv
  <2>2. ASSUME NEW u \in Submitted'
        PROVE  phase'[u] = "waiting" /\ Unreleased(u)' = {}
    <3>1. Submitted \subseteq Tasks
      BY Tree DEF Submitted, DagInv, TypeOK
    <3>2. CASE u \in Submitted
      BY <1>2, <1>5, <1>6, <3>1, <3>2 DEF DagInv, SubmitInv
    <3>3. CASE u \notin Submitted
      BY <1>2, <1>5, <2>2, <3>3
    <3> QED BY <3>2, <3>3
  <2>3. ASSUME NEW q \in Tasks, step'[q] = "forked", NEW u \in todo'[q]
        PROVE  /\ u \in Children(q) /\ Predecessors(u) = {}
               /\ phase'[u] = "waiting" /\ u \notin Submitted'
    <3>1. step[q] = "forked" /\ u \in todo[q]
      BY <1>3, <1>6, <2>3
    <3>2. /\ u \in Children(q) /\ Predecessors(u) = {}
          /\ phase[u] = "waiting" /\ u \notin Submitted
      BY <3>1 DEF DagInv, SubmitInv
    <3>3. u # t
      BY <1>2, <1>6, <2>3, <3>2, Tree
    <3> QED BY <1>6, <3>2, <3>3, Tree
  <2> QED BY <2>1, <2>2, <2>3 DEF SubmitInv
<1> QED BY <1>7, <1>8, <1>9 DEF DagInv

(* Release: the decrement of a successor's counter, which is submitted by  *)
(* the thread that finds 1 there and by no other.                          *)
LEMMA ReleaseDag ==
  ASSUME DagInv, TypeOK', NEW r \in Tasks, step[r] = "release",
         NEW s \in todo[r], todo' = [todo EXCEPT ![r] = @ \ {s}],
         \/ /\ dependencies[s] = 1 /\ Submitted' = Submitted
            /\ queue' = queue /\ owner_queue' = owner_queue
            /\ step' = [step EXCEPT ![s] = "body"]
            /\ phase' = [phase EXCEPT ![s] = "executing"]
         \/ /\ dependencies[s] = 1 /\ Submitted' = Submitted \cup {s}
            /\ queue' \cap OwnerOnly = {}
            /\ step' = step /\ phase' = phase
         \/ /\ dependencies[s] # 1 /\ Submitted' = Submitted
            /\ queue' = queue /\ owner_queue' = owner_queue
            /\ step' = step /\ phase' = phase,
         remaining' = remaining,
         dependencies' = [dependencies EXCEPT ![s] = @ - 1]
  PROVE  DagInv'
<1>1. /\ step \in [Tasks -> {"idle", "body", "forked", "release"}]
      /\ phase \in [Tasks -> {"waiting", "executing", "done"}]
      /\ todo \in [Tasks -> SUBSET (Tasks \ {Root})]
      /\ dependencies \in [Tasks -> Nat]
      /\ Submitted \subseteq Tasks
  BY Tree DEF DagInv, TypeOK, Submitted
<1>2. /\ s \in Tasks \ {Root} /\ r \in Predecessors(s) /\ r # Root
      /\ Parent[s] = Parent[r] /\ phase[r] = "done" /\ r \in Unreleased(s)
  BY <1>1, Tree DEF DagInv, StepInv, Unreleased
<1>3. phase[s] = "waiting"
  BY <1>2 DEF DagInv, SubmitInv
<1>4. /\ step[s] = "idle" /\ todo[s] = {} /\ s # r
      /\ Parent[s] \in Tasks /\ step[Parent[s]] = "forked"
      /\ s \in Children(Parent[s])
  BY <1>2, <1>3, Waiting
<1>5. /\ \A q \in Tasks \ {r} : todo'[q] = todo[q]
      /\ todo'[r] = todo[r] \ {s}
      /\ \A u \in Tasks \ {s} : /\ step'[u] = step[u] /\ phase'[u] = phase[u]
                                /\ dependencies'[u] = dependencies[u]
      /\ \/ step'[s] = "body" /\ phase'[s] = "executing"
         \/ step'[s] = "idle" /\ phase'[s] = "waiting"
      /\ dependencies'[s] = dependencies[s] - 1
  BY <1>1, <1>2, <1>3, <1>4
<1>6. Unreleased(s)' = Unreleased(s) \ {r}
  BY <1>1, <1>2, <1>3, <1>4, <1>5, Tree DEF Unreleased
<1>7. \A u \in Tasks \ {s} : Unreleased(u)' = Unreleased(u)
  BY <1>1, <1>3, <1>4, <1>5, Tree DEF Unreleased
<1>8. \A q \in Tasks : Unfinished(q)' = Unfinished(q)
  BY <1>1, <1>3, <1>4, <1>5, Tree DEF Unfinished
<1>9. /\ dependencies[s] = Cardinality(Unreleased(s))
      /\ Cardinality(Unreleased(s)') = dependencies'[s]
      /\ dependencies[s] = 1 <=> Unreleased(s)' = {}
  <2>1. dependencies[s] = Cardinality(Unreleased(s))
    BY <1>4 DEF DagInv, CounterInv
  <2>2. Unreleased(s) \in SUBSET Tasks
    BY Tree DEF Unreleased
  <2> QED BY <1>2, <1>5, <1>6, <2>1, <2>2, Decrement
<1>10. StepInv'
  <2>1. queue' \cap OwnerOnly = {} /\ step'[Root] \in {"idle", "forked"}
    BY <1>2, <1>5, TreeAssumption DEF DagInv, StepInv
  <2>2. ASSUME NEW u \in Tasks, step'[u] # "forked", NEW c \in Children(u)
        PROVE  phase'[c] = "done" /\ step'[c] = "idle"
    <3>1. step[u] # "forked"
      BY <1>4, <1>5, <2>2
    <3>2. phase[c] = "done" /\ step[c] = "idle" /\ c \in Tasks
      BY <3>1, Tree DEF DagInv, StepInv
    <3> QED BY <1>3, <1>5, <3>2
  <2>3. ASSUME NEW u \in Tasks
        PROVE  /\ step'[u] = "idle" =>
                     IF u = Root THEN phase'[u] = "done"
                     ELSE phase'[u] \in {"waiting", "done"}
               /\ step'[u] \in {"body", "forked"} => phase'[u] = "executing"
               /\ step'[u] = "release" => phase'[u] = "done"
               /\ step'[u] \in {"idle", "body"} => todo'[u] = {}
               /\ step'[u] = "release" => todo'[u] \subseteq Successors(u)
    BY <1>2, <1>4, <1>5 DEF DagInv, StepInv
  <2> QED BY <2>1, <2>2, <2>3 DEF StepInv
<1>11. CounterInv'
  <2>1. \A q \in Tasks : step'[q] = "forked" => step[q] = "forked"
    BY <1>4, <1>5
  <2>2. \A q \in Tasks : step[q] = "forked" =>
           \A u \in Children(q) : dependencies'[u] = Cardinality(Unreleased(u)')
    BY <1>5, <1>7, <1>9, Tree DEF DagInv, CounterInv
  <2> QED BY <1>8, <2>1, <2>2 DEF DagInv, CounterInv
<1>12. SubmitInv'
  <2>1. s \notin Submitted
    BY <1>2 DEF DagInv, SubmitInv
  <2>2. ASSUME NEW u \in Tasks \ {Root}, phase'[u] # "waiting"
        PROVE  Unreleased(u)' = {}
    <3>1. CASE u = s
      BY <1>3, <1>9, <2>2, <3>1
    <3>2. CASE u # s
      BY <1>5, <1>7, <2>2, <3>2 DEF DagInv, SubmitInv
    <3> QED BY <3>1, <3>2
  <2>3. ASSUME NEW u \in Submitted'
        PROVE  phase'[u] = "waiting" /\ Unreleased(u)' = {}
    <3>1. CASE u \in Submitted
      BY <1>1, <1>5, <1>7, <2>1, <3>1 DEF DagInv, SubmitInv
    <3>2. CASE u \notin Submitted
      BY <1>3, <1>9, <2>3, <3>2
    <3> QED BY <3>1, <3>2
  <2>4. ASSUME NEW q \in Tasks, step'[q] = "forked", NEW u \in todo'[q]
        PROVE  /\ u \in Children(q) /\ Predecessors(u) = {}
               /\ phase'[u] = "waiting" /\ u \notin Submitted'
    <3>1. step[q] = "forked" /\ u \in todo[q]
      BY <1>4, <1>5, <2>4
    <3>2. /\ u \in Children(q) /\ Predecessors(u) = {}
          /\ phase[u] = "waiting" /\ u \notin Submitted
      BY <3>1 DEF DagInv, SubmitInv
    <3>3. u # s /\ u \in Tasks
      BY <1>2, <3>2, Tree
    <3> QED BY <1>5, <3>2, <3>3
  <2> QED BY <2>2, <2>3, <2>4 DEF SubmitInv
<1> QED BY <1>10, <1>11, <1>12 DEF DagInv

(* run() returns.                                                          *)
LEMMA ReturnDag ==
  ASSUME DagInv, TypeOK', step[Root] = "forked", todo[Root] = {},
         Unfinished(Root) = {},
         queue' = queue, owner_queue' = owner_queue,
         step' = [step EXCEPT ![Root] = "idle"],
         phase' = [phase EXCEPT ![Root] = "done"],
         todo' = todo, remaining' = remaining, dependencies' = dependencies
  PROVE  DagInv'
<1>1. /\ step \in [Tasks -> {"idle", "body", "forked", "release"}]
      /\ phase \in [Tasks -> {"waiting", "executing", "done"}]
      /\ Root \in Tasks
  BY TreeAssumption DEF DagInv, TypeOK
<1>2. \A u \in Tasks \ {Root} : step'[u] = step[u] /\ phase'[u] = phase[u]
  BY <1>1
<1>3. \A p \in Tasks : Unfinished(p)' = Unfinished(p)
  BY <1>2, Tree DEF Unfinished
<1>4. \A u \in Tasks : Unreleased(u)' = Unreleased(u)
  BY <1>2, Tree DEF Unreleased
<1>5. \A c \in Children(Root) : phase[c] = "done" /\ step[c] = "idle"
  BY <1>1, Tree DEF Unfinished, DagInv, StepInv
<1>6. StepInv'
  BY <1>1, <1>5, Tree DEF DagInv, StepInv
<1>7. CounterInv'
  BY <1>1, <1>3, <1>4, Tree DEF DagInv, CounterInv
<1>8. SubmitInv'
  <2>1. Submitted' = Submitted /\ Submitted \subseteq Tasks \ {Root}
    BY Tree DEF Submitted, DagInv, TypeOK
  <2>2. \A u \in Tasks \ {Root} : phase'[u] # "waiting" => Unreleased(u)' = {}
    BY <1>2, <1>4 DEF DagInv, SubmitInv
  <2>3. \A u \in Submitted' : phase'[u] = "waiting" /\ Unreleased(u)' = {}
    BY <1>2, <1>4, <2>1 DEF DagInv, SubmitInv
  <2>4. \A p \in Tasks : step'[p] = "forked" => \A u \in todo'[p] :
            /\ u \in Children(p) /\ Predecessors(u) = {}
            /\ phase'[u] = "waiting" /\ u \notin Submitted'
    BY <1>1, <1>2, <2>1, Tree DEF DagInv, SubmitInv
  <2> QED BY <2>2, <2>3, <2>4 DEF SubmitInv
<1> QED BY <1>6, <1>7, <1>8 DEF DagInv

(* The invariant depends on the variables of dag only.                     *)
LEMMA SameDag ==
  ASSUME DagInv, TypeOK', UNCHANGED dag
  PROVE  DagInv'
<1>1. /\ \A p : Unfinished(p)' = Unfinished(p)
      /\ \A u : Unreleased(u)' = Unreleased(u)
  BY DEF dag, Unfinished, Unreleased
<1> QED BY <1>1 DEF dag, DagInv, StepInv, CounterInv, SubmitInv, Submitted

-----------------------------------------------------------------------------
(* Type correctness.                                                       *)

Places == {"check", "owner look", "look", "read", "recheck",
           "owner look again", "look again", "wait", "exited"}

(* The stacks are sequences of tasks: what is on top of them, what is      *)
(* under it and what is pushed on them.                                    *)
LEMMA Stacks ==
  ASSUME TypeOK, NEW th \in Threads
  PROVE  /\ Len(stack[th]) \in Nat
         /\ stack[th] # <<>> => Top(th) \in Tasks /\ Len(stack[th]) > 0
         /\ stack[th] # <<>> => Popped(th) \in [Threads -> Seq(Tasks)]
         /\ \A t \in Tasks :
               [stack EXCEPT ![th] = Append(@, t)] \in [Threads -> Seq(Tasks)]
<1>1. stack \in [Threads -> Seq(Tasks)] /\ stack[th] \in Seq(Tasks)
  BY DEF TypeOK
<1>2. Len(stack[th]) \in Nat
  BY <1>1
<1>3. stack[th] # <<>> => Top(th) \in Tasks /\ Len(stack[th]) > 0
  BY <1>1 DEF Top
<1>4. stack[th] # <<>> =>
         SubSeq(stack[th], 1, Len(stack[th]) - 1) \in Seq(Tasks)
  BY <1>1, <1>3
<1>5. stack[th] # <<>> => Popped(th) \in [Threads -> Seq(Tasks)]
  BY <1>1, <1>4 DEF Popped
<1>6. \A t \in Tasks :
         [stack EXCEPT ![th] = Append(@, t)] \in [Threads -> Seq(Tasks)]
  BY <1>1
<1> QED BY <1>2, <1>3, <1>5, <1>6

(* What the two outcomes of a submission change.                           *)
LEMMA SubmitEffect ==
  ASSUME TypeOK, NEW th \in Threads, NEW t \in Tasks \ {Root}, Submit(th, t),
         queue \cap OwnerOnly = {}
  PROVE  /\ \/ /\ Submitted' = Submitted
               /\ queue' = queue /\ owner_queue' = owner_queue
               /\ step' = [step EXCEPT ![t] = "body"]
               /\ phase' = [phase EXCEPT ![t] = "executing"]
            \/ /\ Submitted' = Submitted \cup {t}
               /\ queue' \cap OwnerOnly = {}
               /\ step' = step /\ phase' = phase
         /\ queue' \subseteq Tasks \ {Root} /\ owner_queue' \subseteq OwnerOnly
         /\ wakes' \subseteq Threads
         /\ stack' \in [Threads -> Seq(Tasks)]
         /\ step' \in [Tasks -> {"idle", "body", "forked", "release"}]
         /\ phase' \in [Tasks -> {"waiting", "executing", "done"}]
<1>1. CASE /\ t \notin OwnerOnly
           /\ Execute(th, t)
           /\ UNCHANGED <<queues, wakes>>
  BY <1>1, Stacks DEF Execute, queues, Submitted, TypeOK
<1>2. CASE /\ IF t \in OwnerOnly
              THEN /\ Cardinality(owner_queue) < OwnerCapacity
                   /\ owner_queue' = owner_queue \cup {t}
                   /\ queue' = queue
              ELSE /\ queue' = queue \cup {t}
                   /\ owner_queue' = owner_queue
           /\ wakes' = wakes \cup {th}
           /\ UNCHANGED <<stack, step, phase>>
  BY <1>2 DEF Submitted, TypeOK
<1> QED BY <1>1, <1>2 DEF Submit

(* Every variable keeps its type; the counters never go below zero.        *)
LEMMA TypeStep == DagInv /\ [Next]_vars => TypeOK'
<1> SUFFICES ASSUME DagInv, [Next]_vars PROVE TypeOK'
  OBVIOUS
<1>0. TypeOK /\ Owner \in Threads /\ Root \in Tasks
  BY TreeAssumption DEF DagInv, Threads
<1>1. ASSUME NEW th \in Threads, NEW p \in Tasks, Fork(th, p),
             stack' \in [Threads -> Seq(Tasks)]
      PROVE  TypeOK'
  <2>1. Cardinality(Children(p)) \in Nat
    BY Finite, Tree
  <2>2. \A t \in Tasks : Cardinality(Predecessors(t)) \in Nat
    BY Finite, Tree
  <2>3. {t \in Children(p) : Predecessors(t) = {}} \in SUBSET (Tasks \ {Root})
    BY Tree
  <2>4. remaining' \in [Tasks -> Nat] /\ dependencies' \in [Tasks -> Nat]
    BY <1>0, <1>1, <2>1, <2>2 DEF TypeOK, Fork
  <2>5. todo' \in [Tasks -> SUBSET (Tasks \ {Root})]
    BY <1>0, <1>1, <2>3 DEF TypeOK, Fork
  <2> QED BY <1>0, <1>1, <2>4, <2>5 DEF TypeOK, Fork, queues
<1>2. CASE Run
  BY <1>0, <1>1, <1>2, Stacks DEF Run
<1>3. CASE Shutdown
  BY <1>0, <1>3 DEF Shutdown, TypeOK, queues, batches
<1>4. ASSUME NEW th \in Threads, Thread(th)
      PROVE  TypeOK'
  <2> DEFINE t == Top(th)
  <2>1. CASE ForkN(th)
    BY <1>0, <1>1, <2>1, Stacks DEF ForkN, Busy, TypeOK
  <2>2. CASE SubmitNext(th)
    <3>1. t \in Tasks
      BY <1>0, <2>2, Stacks DEF SubmitNext, Busy
    <3>2. PICK u \in todo[t] : /\ todo' = [todo EXCEPT ![t] = @ \ {u}]
                               /\ Submit(th, u)
      BY <2>2 DEF SubmitNext
    <3>3. u \in Tasks \ {Root}
      BY <1>0, <3>1, <3>2 DEF TypeOK
    <3>4. queue \cap OwnerOnly = {}
      BY DEF DagInv, StepInv
    <3>5. todo' \in [Tasks -> SUBSET (Tasks \ {Root})]
      BY <1>0, <3>1, <3>2 DEF TypeOK
    <3> QED BY <1>0, <2>2, <3>2, <3>3, <3>4, <3>5, SubmitEffect
            DEF SubmitNext, TypeOK
  <2>3. CASE EndBody(th)
    <3>1. t \in Tasks
      BY <1>0, <2>3, Stacks DEF EndBody, Busy
    <3>2. Successors(t) \in SUBSET (Tasks \ {Root})
      BY Tree
    <3> QED BY <1>0, <2>3, <3>1, <3>2 DEF EndBody, TypeOK, queues
  <2>4. CASE Release(th)
    <3>1. t \in Tasks /\ step[t] = "release"
      BY <1>0, <2>4, Stacks DEF Release, Busy
    <3>2. PICK s \in todo[t] :
             /\ todo' = [todo EXCEPT ![t] = @ \ {s}]
             /\ dependencies' = [dependencies EXCEPT ![s] = @ - 1]
             /\ IF dependencies[s] = 1
                THEN Submit(th, s)
                ELSE UNCHANGED <<queues, wakes, stack, step, phase>>
      BY <2>4 DEF Release
    <3>3. s \in Tasks \ {Root} /\ queue \cap OwnerOnly = {}
      BY <1>0, <3>1, <3>2 DEF DagInv, StepInv, TypeOK
    <3>4. todo' \in [Tasks -> SUBSET (Tasks \ {Root})]
      BY <1>0, <3>1, <3>2 DEF TypeOK
    <3>5. dependencies[s] \in Nat \ {0}
      <4>1. t \in Unreleased(s) /\ s \in Successors(t)
        BY <3>1, <3>2, <3>3, Tree DEF DagInv, StepInv, Unreleased
      <4>2. phase[s] = "waiting"
        BY <3>3, <4>1 DEF DagInv, SubmitInv
      <4>3. dependencies[s] = Cardinality(Unreleased(s))
        BY <3>3, <4>2, Waiting DEF DagInv, CounterInv
      <4>4. Unreleased(s) \in SUBSET Tasks
        BY Tree DEF Unreleased
      <4> QED BY <4>1, <4>3, <4>4, Decrement
    <3>6. dependencies' \in [Tasks -> Nat]
      <4>1. dependencies[s] - 1 \in Nat
        BY <3>5
      <4> QED BY <1>0, <3>2, <4>1 DEF TypeOK
    <3>7. CASE dependencies[s] = 1
      BY <1>0, <2>4, <3>2, <3>3, <3>4, <3>6, <3>7, SubmitEffect
         DEF Release, TypeOK
    <3>8. CASE dependencies[s] # 1
      BY <1>0, <2>4, <3>2, <3>4, <3>6, <3>8 DEF Release, TypeOK, queues
    <3> QED BY <3>7, <3>8
  <2>5. CASE Finish(th)
    <3>1. t \in Tasks /\ step[t] = "release" /\ stack[th] # <<>>
      BY <1>0, <2>5, Stacks DEF Finish, Busy
    <3>2. t # Root /\ Parent[t] \in Tasks /\ t \in Unfinished(Parent[t])
          /\ step[Parent[t]] = "forked"
      BY <1>0, <3>1, Tree DEF DagInv, StepInv, Unfinished
    <3>3. remaining[Parent[t]] \in Nat \ {0}
      <4>1. Unfinished(Parent[t]) \in SUBSET Tasks
        BY Tree DEF Unfinished
      <4>2. remaining[Parent[t]] = Cardinality(Unfinished(Parent[t]))
        BY <3>2 DEF DagInv, CounterInv
      <4>3. Cardinality(Unfinished(Parent[t])) \in Nat \ {0}
        BY <3>2, <4>1, Decrement
      <4> QED BY <4>2, <4>3
    <3>4. remaining' \in [Tasks -> Nat]
      <4>1. remaining[Parent[t]] - 1 \in Nat
        BY <3>3
      <4> QED BY <1>0, <2>5, <4>1 DEF Finish, TypeOK
    <3>5. stack' \in [Threads -> Seq(Tasks)]
      BY <1>0, <2>5, <3>1, Stacks DEF Finish
    <3> QED BY <1>0, <2>5, <3>1, <3>4, <3>5 DEF Finish, TypeOK, queues
  <2>6. CASE Wake(th)
    BY <1>0, <2>6 DEF Wake, TypeOK, queues, batches
  <2>7. CASE Continue(th)
    BY <1>0, <2>7 DEF Continue, Goto, TypeOK, queues, batches
  <2>8. CASE Exit(th)
    BY <1>0, <2>8 DEF Exit, Goto, TypeOK, queues, batches
  <2>9. CASE Joined(th)
    <3>1. t \in Tasks /\ stack[th] # <<>>
      BY <1>0, <2>9, Stacks DEF Joined, Busy
    <3>2. Successors(t) \in SUBSET (Tasks \ {Root})
      BY Tree
    <3>3. stack' \in [Threads -> Seq(Tasks)]
      <4>1. stack' = Popped(th) \/ stack' = stack
        BY <2>9 DEF Joined
      <4> QED BY <1>0, <3>1, <4>1, Stacks DEF TypeOK
    <3>4. todo' \in [Tasks -> SUBSET (Tasks \ {Root})]
      BY <1>0, <2>9, <3>1, <3>2 DEF Joined, TypeOK
    <3>5. /\ step' \in [Tasks -> {"idle", "body", "forked", "release"}]
          /\ phase' \in [Tasks -> {"waiting", "executing", "done"}]
      BY <1>0, <2>9, <3>1 DEF Joined, TypeOK
    <3> QED BY <1>0, <2>9, <3>3, <3>4, <3>5 DEF Joined, Goto, TypeOK, queues
  <2>10. CASE TakeOwned(th)
    <3>1. PICK u \in owner_queue : /\ owner_queue' = owner_queue \ {u}
                                   /\ Execute(th, u)
      BY <2>10 DEF TakeOwned
    <3>2. u \in Tasks
      BY <1>0, <3>1, Tree DEF TypeOK
    <3> QED BY <1>0, <2>10, <3>1, <3>2, Stacks
            DEF TakeOwned, Execute, Goto, TypeOK, batches
  <2>11. CASE Take(th)
    <3>1. PICK u \in queue : queue' = queue \ {u} /\ Execute(th, u)
      BY <2>11 DEF Take
    <3>2. u \in Tasks
      BY <1>0, <3>1 DEF TypeOK
    <3> QED BY <1>0, <2>11, <3>1, <3>2, Stacks
            DEF Take, Execute, Goto, TypeOK, batches
  <2>12. CASE FindNothing(th)
    BY <1>0, <2>12 DEF FindNothing, Goto, TypeOK, queues, batches
  <2>13. CASE ReadEpoch(th)
    BY <1>0, <2>13 DEF ReadEpoch, Goto, TypeOK, queues, batches
  <2>14. CASE Wait(th)
    BY <1>0, <2>14 DEF Wait, Goto, TypeOK, queues, batches
  <2> QED BY <1>4, <2>1, <2>2, <2>3, <2>4, <2>5, <2>6, <2>7, <2>8, <2>9,
             <2>10, <2>11, <2>12, <2>13, <2>14 DEF Thread
<1>5. CASE UNCHANGED vars
  BY <1>0, <1>5 DEF vars, queues, batches, TypeOK
<1> QED BY <1>2, <1>3, <1>4, <1>5 DEF Next

-----------------------------------------------------------------------------
(* The counters, the queues and the tasks agree in every reachable state.  *)

(* corun_until returns when the counter of the batch is zero: nothing of   *)
(* the batch is left to do.                                                *)
LEMMA BatchOver ==
  ASSUME DagInv, NEW p \in Tasks, step[p] = "forked", remaining[p] = 0
  PROVE  Unfinished(p) = {}
<1>1. Unfinished(p) \in SUBSET Tasks /\ Cardinality(Unfinished(p)) = 0
  BY Tree DEF Unfinished, DagInv, CounterInv
<1> QED BY <1>1, Finite, FS_EmptySet

(* All the queues and counters are empty when the pool is created.         *)
LEMMA DagInit == Init => DagInv
<1> SUFFICES ASSUME Init PROVE DagInv
  OBVIOUS
<1>1. TypeOK
  BY DEF Init, TypeOK, Threads
<1>2. \A t : Unreleased(t) = {}
  BY Tree DEF Init, Unreleased
<1> QED BY <1>1, <1>2, Tree, TreeAssumption
        DEF Init, DagInv, StepInv, CounterInv, SubmitInv, Submitted

(* A thread at work has a task on top of its stack.                        *)
LEMMA Working ==
  ASSUME TypeOK, NEW th \in Threads, Busy(th)
  PROVE  Top(th) \in Tasks
  BY Stacks DEF Busy

(* Every step of every thread preserves DagInv.                            *)
LEMMA DagStep == DagInv /\ RootInv /\ [Next]_vars => DagInv'
<1> SUFFICES ASSUME DagInv, RootInv, [Next]_vars PROVE DagInv'
  OBVIOUS
<1>0. TypeOK /\ TypeOK' /\ Owner \in Threads /\ Root \in Tasks
  BY TypeStep, TreeAssumption DEF DagInv, Threads
<1>1. CASE Run
  <2>1. step[Root] = "idle"
    BY <1>1 DEF Run, Idle, RootInv, DagInv, StepInv
  <2> QED BY <1>0, <1>1, <2>1, ForkDag DEF Run
<1>2. CASE Shutdown
  BY <1>0, <1>2, SameDag DEF Shutdown, dag, queues, batches
<1>3. ASSUME NEW th \in Threads, Thread(th)
      PROVE  DagInv'
  <2> DEFINE t == Top(th)
  <2>1. CASE ForkN(th)
    <3>1. t \in Tasks /\ step[t] = "body" /\ t # Root
      BY <1>0, <2>1, Working DEF ForkN, DagInv, StepInv
    <3> QED BY <1>0, <2>1, <3>1, ForkDag DEF ForkN
  <2>2. CASE SubmitNext(th)
    <3>1. t \in Tasks /\ step[t] = "forked"
      BY <1>0, <2>2, Working DEF SubmitNext
    <3>2. PICK u \in todo[t] : /\ todo' = [todo EXCEPT ![t] = @ \ {u}]
                               /\ Submit(th, u)
      BY <2>2 DEF SubmitNext
    <3>3. u \in Tasks \ {Root} /\ queue \cap OwnerOnly = {}
      BY <1>0, <3>1, <3>2 DEF DagInv, StepInv, TypeOK
    <3>4. remaining' = remaining /\ dependencies' = dependencies
      BY <2>2 DEF SubmitNext
    <3> QED BY <1>0, <3>1, <3>2, <3>3, <3>4, SubmitEffect, SubmitNextDag
  <2>3. CASE EndBody(th)
    <3>1. t \in Tasks /\ step[t] = "body" /\ Children(t) = {} /\ t # Root
      BY <1>0, <2>3, Working DEF EndBody, DagInv, StepInv
    <3> QED BY <1>0, <2>3, <3>1, EndDag DEF EndBody, queues
  <2>4. CASE Release(th)
    <3>1. t \in Tasks /\ step[t] = "release"
      BY <1>0, <2>4, Working DEF Release
    <3>2. PICK s \in todo[t] :
             /\ todo' = [todo EXCEPT ![t] = @ \ {s}]
             /\ dependencies' = [dependencies EXCEPT ![s] = @ - 1]
             /\ IF dependencies[s] = 1
                THEN Submit(th, s)
                ELSE UNCHANGED <<queues, wakes, stack, step, phase>>
      BY <2>4 DEF Release
    <3>3. s \in Tasks \ {Root} /\ queue \cap OwnerOnly = {}
      BY <1>0, <3>1, <3>2 DEF DagInv, StepInv, TypeOK
    <3>4. remaining' = remaining
      BY <2>4 DEF Release
    <3>5. CASE dependencies[s] = 1
      BY <1>0, <3>1, <3>2, <3>3, <3>4, <3>5, SubmitEffect, ReleaseDag
    <3>6. CASE dependencies[s] # 1
      <4>1. /\ queue' = queue /\ owner_queue' = owner_queue
            /\ step' = step /\ phase' = phase /\ Submitted' = Submitted
        BY <3>2, <3>6 DEF queues, Submitted
      <4> QED BY <1>0, <3>1, <3>2, <3>4, <3>6, <4>1, ReleaseDag
    <3> QED BY <3>5, <3>6
  <2>5. CASE Finish(th)
    <3>1. t \in Tasks /\ step[t] = "release" /\ todo[t] = {} /\ t # Root
      BY <1>0, <2>5, Working DEF Finish, DagInv, StepInv
    <3> QED BY <1>0, <2>5, <3>1, FinishDag DEF Finish, queues
  <2>6. CASE Wake(th)
    BY <1>0, <2>6, SameDag DEF Wake, dag, queues, batches
  <2>7. CASE Continue(th)
    BY <1>0, <2>7, SameDag DEF Continue, dag, queues, batches
  <2>8. CASE Exit(th)
    BY <1>0, <2>8, SameDag DEF Exit, dag, queues, batches
  <2>9. CASE Joined(th)
    <3>1. t \in Tasks /\ step[t] = "forked" /\ todo[t] = {}
      BY <1>0, <2>9, Working DEF Joined, Joining
    <3>2. Unfinished(t) = {}
      BY <2>9, <3>1, BatchOver DEF Joined, Busy, Over
    <3>3. CASE t = Root
      BY <1>0, <2>9, <3>1, <3>2, <3>3, ReturnDag DEF Joined, queues
    <3>4. CASE t # Root
      BY <1>0, <2>9, <3>1, <3>2, <3>4, EndDag DEF Joined, queues
    <3> QED BY <3>3, <3>4
  <2>10. CASE TakeOwned(th)
    <3>1. PICK u \in owner_queue : /\ owner_queue' = owner_queue \ {u}
                                   /\ Execute(th, u)
      BY <2>10 DEF TakeOwned
    <3>2. u \in Submitted /\ queue' = queue \ {u}
      <4>1. queue \cap OwnerOnly = {} /\ owner_queue \subseteq OwnerOnly
        BY <1>0 DEF DagInv, StepInv, TypeOK
      <4>2. queue' = queue
        BY <2>10 DEF TakeOwned
      <4> QED BY <4>1, <4>2 DEF Submitted
    <3>3. owner_queue' = owner_queue \ {u}
      BY <3>1
    <3>4. /\ step' = [step EXCEPT ![u] = "body"]
          /\ phase' = [phase EXCEPT ![u] = "executing"]
      BY <3>1 DEF Execute
    <3>5. todo' = todo /\ remaining' = remaining /\ dependencies' = dependencies
      BY <2>10 DEF TakeOwned, batches
    <3> QED BY <1>0, <3>2, <3>3, <3>4, <3>5, TakeDag
  <2>11. CASE Take(th)
    <3>1. PICK u \in queue : queue' = queue \ {u} /\ Execute(th, u)
      BY <2>11 DEF Take
    <3>2. u \in Submitted /\ owner_queue' = owner_queue \ {u}
      <4>1. queue \cap OwnerOnly = {} /\ owner_queue \subseteq OwnerOnly
        BY <1>0 DEF DagInv, StepInv, TypeOK
      <4>2. owner_queue' = owner_queue
        BY <2>11 DEF Take
      <4> QED BY <4>1, <4>2 DEF Submitted
    <3>3. queue' = queue \ {u}
      BY <3>1
    <3>4. /\ step' = [step EXCEPT ![u] = "body"]
          /\ phase' = [phase EXCEPT ![u] = "executing"]
      BY <3>1 DEF Execute
    <3>5. todo' = todo /\ remaining' = remaining /\ dependencies' = dependencies
      BY <2>11 DEF Take, batches
    <3> QED BY <1>0, <3>2, <3>3, <3>4, <3>5, TakeDag
  <2>12. CASE FindNothing(th)
    BY <1>0, <2>12, SameDag DEF FindNothing, dag, queues, batches
  <2>13. CASE ReadEpoch(th)
    BY <1>0, <2>13, SameDag DEF ReadEpoch, dag, queues, batches
  <2>14. CASE Wait(th)
    BY <1>0, <2>14, SameDag DEF Wait, dag, queues, batches
  <2> QED BY <1>3, <2>1, <2>2, <2>3, <2>4, <2>5, <2>6, <2>7, <2>8, <2>9,
             <2>10, <2>11, <2>12, <2>13, <2>14 DEF Thread
<1>4. CASE UNCHANGED vars
  BY <1>0, <1>4, SameDag DEF vars, dag, queues, batches
<1> QED BY <1>1, <1>2, <1>3, <1>4 DEF Next

-----------------------------------------------------------------------------
(* The stacks: who executes a task.                                        *)

(* execute() puts a task that no thread executes on top of a stack.        *)
LEMMA PushFrame ==
  ASSUME TypeOK, TypeOK', FrameInv, NEW x \in Threads, NEW t \in Tasks,
         step[t] = "idle", t \in OwnerOnly \cup {Root} => x = Owner,
         stack' = [stack EXCEPT ![x] = Append(@, t)], step'[t] # "idle",
         \A u \in Tasks : step[u] # "idle" => step'[u] # "idle"
  PROVE  FrameInv'
<1>1. \A th \in Threads : stack[th] \in Seq(Tasks)
  BY DEF TypeOK
<1>2. \A th \in Threads \ {x} : stack'[th] = stack[th]
  BY DEF TypeOK
<1>3. /\ stack[x] \in Seq(Tasks) /\ stack'[x] = Append(stack[x], t)
      /\ Len(stack'[x]) = Len(stack[x]) + 1 /\ Len(stack[x]) \in Nat
      /\ stack'[x][Len(stack[x]) + 1] = t
      /\ \A i \in 1..Len(stack[x]) : stack'[x][i] = stack[x][i]
  <2>1. stack[x] \in Seq(Tasks) /\ stack'[x] = Append(stack[x], t)
    BY <1>1 DEF TypeOK
  <2> QED BY <2>1
<1>4. ASSUME NEW th \in Threads, NEW i \in 1..Len(stack'[th])
      PROVE  \/ th = x /\ i = Len(stack[x]) + 1 /\ stack'[th][i] = t
             \/ i \in 1..Len(stack[th]) /\ stack'[th][i] = stack[th][i]
  BY <1>2, <1>3
<1>5. ASSUME NEW th \in Threads, NEW i \in 1..Len(stack[th])
      PROVE  stack[th][i] # t /\ stack[th][i] \in Tasks
  BY <1>1 DEF FrameInv
<1>6. ASSUME NEW th \in Threads, NEW i \in 1..Len(stack'[th])
      PROVE  /\ step'[stack'[th][i]] # "idle"
             /\ stack'[th][i] \in OwnerOnly \cup {Root} => th = Owner
  BY <1>4, <1>5 DEF FrameInv
<1>7. ASSUME NEW th \in Threads, NEW i \in 1..Len(stack'[th]),
             NEW th2 \in Threads, NEW j \in 1..Len(stack'[th2]),
             stack'[th2][j] = stack'[th][i]
      PROVE  th2 = th /\ j = i
  BY <1>4, <1>5, <1>7 DEF FrameInv
<1> QED BY <1>6, <1>7 DEF FrameInv

(* The end of execute() removes the only frame of a task.                  *)
LEMMA PopFrame ==
  ASSUME TypeOK, FrameInv, NEW x \in Threads, stack[x] # <<>>,
         stack' = Popped(x),
         \A u \in Tasks \ {Top(x)} : step[u] # "idle" => step'[u] # "idle"
  PROVE  FrameInv'
<1>1. \A th \in Threads : stack[th] \in Seq(Tasks)
  BY DEF TypeOK
<1>2. \A th \in Threads \ {x} : stack'[th] = stack[th]
  BY DEF TypeOK, Popped
<1> DEFINE n == Len(stack[x])
<1>3. n \in Nat \ {0} /\ stack[x][n] = Top(x)
  BY <1>1 DEF Top
<1>4. stack'[x] = SubSeq(stack[x], 1, n - 1)
  BY DEF TypeOK, Popped
<1>5. /\ Len(stack'[x]) = n - 1
      /\ \A i \in 1..(n - 1) : stack'[x][i] = stack[x][i]
  BY <1>1, <1>3, <1>4
<1>6. ASSUME NEW th \in Threads, NEW i \in 1..Len(stack'[th])
      PROVE  /\ i \in 1..Len(stack[th]) /\ stack'[th][i] = stack[th][i]
             /\ ~(th = x /\ i = n)
  BY <1>2, <1>3, <1>5
<1>7. ASSUME NEW th \in Threads, NEW i \in 1..Len(stack'[th])
      PROVE  stack[th][i] \in Tasks \ {Top(x)}
  <2>1. stack[th][i] \in Tasks
    BY <1>1, <1>6, <1>7
  <2>2. n \in 1..Len(stack[x])
    BY <1>3
  <2>3. stack[th][i] = stack[x][n] => th = x /\ i = n
    BY <1>6, <1>7, <2>2 DEF FrameInv
  <2> QED BY <1>3, <1>6, <1>7, <2>1, <2>3
<1>8. ASSUME NEW th \in Threads, NEW i \in 1..Len(stack'[th])
      PROVE  /\ step'[stack'[th][i]] # "idle"
             /\ stack'[th][i] \in OwnerOnly \cup {Root} => th = Owner
  <2>1. /\ step[stack[th][i]] # "idle"
        /\ stack[th][i] \in OwnerOnly \cup {Root} => th = Owner
    BY <1>6, <1>8 DEF FrameInv
  <2> QED BY <1>6, <1>7, <1>8, <2>1
<1>9. ASSUME NEW th \in Threads, NEW i \in 1..Len(stack'[th]),
             NEW th2 \in Threads, NEW j \in 1..Len(stack'[th2]),
             stack'[th2][j] = stack'[th][i]
      PROVE  th2 = th /\ j = i
  <2>1. /\ i \in 1..Len(stack[th]) /\ j \in 1..Len(stack[th2])
        /\ stack[th2][j] = stack[th][i]
    BY <1>6, <1>9
  <2> QED BY <2>1 DEF FrameInv
<1> QED BY <1>8, <1>9 DEF FrameInv

(* The other steps leave the stacks alone.                                 *)
LEMMA SameFrame ==
  ASSUME TypeOK, FrameInv, stack' = stack,
         \A u \in Tasks : step[u] # "idle" => step'[u] # "idle"
  PROVE  FrameInv'
<1>1. \A th \in Threads : stack[th] \in Seq(Tasks)
  BY DEF TypeOK
<1>2. \A th \in Threads : \A i \in 1..Len(stack[th]) : stack[th][i] \in Tasks
  BY <1>1
<1> QED BY <1>2 DEF FrameInv

(* The top of a stack is the frame of a task that no other thread has.     *)
LEMMA TopFrame ==
  ASSUME TypeOK, FrameInv, NEW th \in Threads, stack[th] # <<>>
  PROVE  /\ Top(th) \in Tasks /\ step[Top(th)] # "idle"
         /\ \A x \in Threads \ {th} : stack[x] # <<>> => Top(x) # Top(th)
<1>1. \A x \in Threads : stack[x] # <<>> =>
         Len(stack[x]) \in 1..Len(stack[x]) /\ Top(x) \in Tasks
  BY Stacks
<1> QED BY <1>1 DEF FrameInv, Top

-----------------------------------------------------------------------------
(* The sleeping threads.                                                   *)

(* A step of x that leaves it at the beginning of a loop, and that either  *)
(* is followed by wake() or gives nobody anything to do.                   *)
LEMMA SleepStep ==
  ASSUME TypeOK, TypeOK', FrameInv, SleepInv, NEW x \in Threads,
         \A th \in Threads \ {x} : stack'[th] = stack[th] /\ at'[th] = at[th],
         \A u \in Tasks : step[u] # "idle" /\ (stack[x] # <<>> => u # Top(x))
            => step'[u] = step[u] /\ todo'[u] = todo[u],
         at'[x] = "check",
         \/ wakes' # {}
         \/ /\ wakes' = wakes /\ unchanged' = unchanged /\ running' = running
            /\ queue' \subseteq queue /\ owner_queue' \subseteq owner_queue
            /\ \A u \in Tasks : step[u] = "forked" /\ remaining'[u] = 0
                  => remaining[u] = 0
  PROVE  SleepInv'
<1>1. ASSUME NEW th \in Threads \ {x}
      PROVE  /\ stack[th] # <<>> =>
                   /\ Top(th)' = Top(th) /\ Top(th) \in Tasks
                   /\ Joining(Top(th))' <=> Joining(Top(th))
             /\ stack'[th] = stack[th]
  <2>1. stack[th] # <<>> => /\ Top(th) \in Tasks /\ step[Top(th)] # "idle"
                            /\ stack[x] # <<>> => Top(x) # Top(th)
    BY TopFrame
  <2>2. stack'[th] = stack[th] /\ Top(th)' = Top(th)
    BY DEF Top
  <2>3. stack[th] # <<>> => /\ step'[Top(th)] = step[Top(th)]
                            /\ todo'[Top(th)] = todo[Top(th)]
    BY <2>1
  <2> QED BY <2>1, <2>2, <2>3 DEF Joining
<1>2. ASSUME NEW th \in Threads,
             IF stack'[th] = <<>> THEN th = Owner ELSE ~Joining(Top(th))'
      PROVE  at'[th] = "check"
  BY <1>1, <1>2 DEF SleepInv
<1>3. ASSUME NEW th \in Workers
      PROVE  at'[th] \notin {"owner look", "owner look again"}
  BY DEF SleepInv, Threads
<1>4. ASSUME wakes' = {}, NEW th \in unchanged'
      PROVE  /\ at'[th] \in {"owner look again", "look again", "wait"} =>
                   ~Over(th)'
             /\ at'[th] \in {"look again", "wait"} /\ th = Owner =>
                   owner_queue' = {}
             /\ at'[th] = "wait" => queue' = {}
  <2>1. /\ wakes = {} /\ th \in unchanged /\ running' = running
        /\ queue' \subseteq queue /\ owner_queue' \subseteq owner_queue
        /\ th \in Threads
    BY <1>4 DEF TypeOK
  <2>2. CASE th = x
    BY <2>2
  <2>3. CASE th # x
    <3>1. at'[th] = at[th] /\ stack'[th] = stack[th]
      BY <2>1, <2>3
    <3>2. ASSUME at[th] \in {"owner look again", "look again", "wait"}
          PROVE  ~Over(th)'
      <4>1. ~Over(th)
        BY <2>1, <3>2 DEF SleepInv
      <4>2. CASE stack[th] = <<>>
        BY <2>1, <3>1, <4>1, <4>2 DEF Over
      <4>3. CASE stack[th] # <<>>
        <5>1. Joining(Top(th))
          BY <2>1, <3>2, <4>3 DEF SleepInv
        <5>2. Top(th)' = Top(th) /\ Top(th) \in Tasks
          BY <1>1, <2>1, <2>3, <4>3
        <5>3. remaining[Top(th)] # 0
          BY <4>1, <4>3 DEF Over
        <5>4. remaining'[Top(th)] # 0
          BY <1>4, <5>1, <5>2, <5>3 DEF Joining
        <5> QED BY <3>1, <4>3, <5>2, <5>4 DEF Over
      <4> QED BY <4>2, <4>3
    <3> QED BY <2>1, <3>1, <3>2 DEF SleepInv
  <2> QED BY <2>2, <2>3
<1> QED BY <1>2, <1>3, <1>4 DEF SleepInv

(* A step inside a loop: only the place of the thread changes.             *)
LEMMA LoopStep ==
  ASSUME TypeOK, SleepInv, NEW x \in Threads, Looping(x),
         UNCHANGED <<running, queue, owner_queue, wakes, stack, step, todo,
                     remaining>>,
         \/ Continue(x) \/ Exit(x) \/ FindNothing(x) \/ ReadEpoch(x)
  PROVE  SleepInv'
<1>1. /\ at \in [Threads -> Places] /\ Workers \subseteq Threads
      /\ unchanged \subseteq Threads
  BY DEF TypeOK, Places, Threads
<1>2. \A th \in Threads \ {x} : at'[th] = at[th]
  BY <1>1 DEF Continue, Exit, FindNothing, ReadEpoch, Goto
<1>3. /\ \A th : Top(th)' = Top(th) /\ (Over(th)' <=> Over(th))
      /\ \A t : Joining(t)' <=> Joining(t)
  BY DEF Top, Over, Joining
<1>4. ~(IF stack[x] = <<>> THEN x = Owner ELSE ~Joining(Top(x)))
  BY PoolAssumption DEF Looping, Idle, Busy
<1>5. \A th \in Threads :
        (IF stack'[th] = <<>> THEN th = Owner ELSE ~Joining(Top(th))')
           => at'[th] = "check"
  BY <1>2, <1>3, <1>4 DEF SleepInv
<1>6. ASSUME NEW th \in Workers
      PROVE  at'[th] \notin {"owner look", "owner look again"}
  <2>1. CASE th # x
    BY <1>1, <1>2, <2>1 DEF SleepInv
  <2>2. CASE th = x
    BY <1>1, <2>2, PoolAssumption
       DEF Continue, Exit, FindNothing, ReadEpoch, Goto
  <2> QED BY <2>1, <2>2
<1>7. ASSUME wakes' = {}, NEW th \in unchanged'
      PROVE  /\ at'[th] \in {"owner look again", "look again", "wait"} =>
                   ~Over(th)'
             /\ at'[th] \in {"look again", "wait"} /\ th = Owner =>
                   owner_queue' = {}
             /\ at'[th] = "wait" => queue' = {}
  <2>1. CASE th # x
    <3>1. th \in unchanged
      BY <1>7, <2>1 DEF Continue, Exit, FindNothing, ReadEpoch
    <3> QED BY <1>1, <1>2, <1>3, <1>7, <2>1, <3>1 DEF SleepInv
  <2>2. CASE th = x /\ Continue(x)
    BY <1>1, <1>3, <2>2 DEF Continue, Goto
  <2>3. CASE th = x /\ Exit(x)
    BY <1>1, <2>3 DEF Exit, Goto
  <2>4. CASE th = x /\ FindNothing(x)
    <3>1. x \in unchanged
      BY <1>7, <2>4 DEF FindNothing
    <3> QED BY <1>1, <1>3, <1>7, <2>4, <3>1 DEF FindNothing, Goto, SleepInv
  <2>5. CASE th = x /\ ReadEpoch(x)
    BY <1>1, <2>5 DEF ReadEpoch, Goto
  <2> QED BY <2>1, <2>2, <2>3, <2>4, <2>5
<1> QED BY <1>5, <1>6, <1>7 DEF SleepInv

-----------------------------------------------------------------------------
(* The invariant of the pool and of the executor.                          *)

(* A thread that is not in a loop enters the next one at its beginning.    *)
LEMMA AtCheck ==
  ASSUME SleepInv, NEW x \in Threads, stack[x] # <<>>, ~Joining(Top(x))
  PROVE  at[x] = "check"
  BY DEF SleepInv

(* The run stays at the bottom of its stack until run() returns.           *)
LEMMA RootStep ==
  ASSUME TypeOK, RootInv, NEW x \in Threads,
         step'[Root] = "forked" => step[Root] = "forked",
         \/ stack' = stack
         \/ \E t \in Tasks : stack' = [stack EXCEPT ![x] = Append(@, t)]
         \/ stack' = Popped(x) /\ stack[x] # <<>> /\ Top(x) # Root
  PROVE  RootInv'
<1> SUFFICES ASSUME step'[Root] = "forked"
             PROVE  stack'[Owner] # <<>> /\ stack'[Owner][1] = Root
  BY DEF RootInv
<1>1. /\ stack[Owner] \in Seq(Tasks) /\ Owner \in Threads
      /\ stack[Owner] # <<>> /\ stack[Owner][1] = Root
      /\ stack \in [Threads -> Seq(Tasks)]
  BY DEF RootInv, TypeOK, Threads
<1>2. CASE x # Owner \/ stack' = stack
  BY <1>1, <1>2 DEF Popped
<1>3. CASE x = Owner /\ \E t \in Tasks :
             stack' = [stack EXCEPT ![x] = Append(@, t)]
  <2>1. PICK t \in Tasks : stack'[Owner] = Append(stack[Owner], t)
    BY <1>1, <1>3
  <2> QED BY <1>1, <2>1
<1>4. CASE x = Owner /\ stack' = Popped(x) /\ Top(x) # Root
  <2>1. stack'[Owner] = SubSeq(stack[Owner], 1, Len(stack[Owner]) - 1)
    BY <1>1, <1>4 DEF Popped
  <2>2. ASSUME NEW s \in Seq(Tasks), s # <<>>, s[Len(s)] # s[1]
        PROVE  LET q == SubSeq(s, 1, Len(s) - 1)
               IN  q # <<>> /\ q[1] = s[1]
    <3>1. Len(s) \in Nat /\ Len(s) # 0 /\ Len(s) # 1
      BY <2>2
    <3>2. Len(s) - 1 \in Nat /\ Len(s) - 1 >= 1 /\ Len(s) - 1 <= Len(s)
      <4>1. \A n \in Nat \ {0, 1} : n - 1 \in Nat /\ n - 1 >= 1 /\ n - 1 <= n
        OBVIOUS
      <4> QED BY <3>1, <4>1
    <3>3. Len(SubSeq(s, 1, Len(s) - 1)) = Len(s) - 1
      BY <3>2
    <3>4. SubSeq(s, 1, Len(s) - 1)[1] = s[1]
      BY <3>2
    <3>5. SubSeq(s, 1, Len(s) - 1) # <<>>
      <4>1. Len(SubSeq(s, 1, Len(s) - 1)) # 0
        BY <3>2, <3>3
      <4>2. Len(<<>>) = 0
        OBVIOUS
      <4> QED BY <4>1, <4>2, Zenon
    <3> QED BY <3>4, <3>5
  <2>3. stack[Owner][Len(stack[Owner])] # stack[Owner][1]
    BY <1>1, <1>4 DEF Top
  <2> QED BY <1>1, <2>1, <2>2, <2>3
<1> QED BY <1>2, <1>3, <1>4

ThreadInv == RootInv /\ FrameInv /\ SleepInv

(* A step that executes t on the thread x, out of a queue or at once.      *)
LEMMA ExecuteStep ==
  ASSUME TypeOK, TypeOK', DagInv, ThreadInv, NEW x \in Threads, NEW t \in Tasks,
         phase[t] = "waiting", t \in OwnerOnly => x = Owner,
         Execute(x, t), at' = [at EXCEPT ![x] = "check"],
         UNCHANGED <<running, unchanged, wakes, remaining>>,
         queue' \subseteq queue, owner_queue' \subseteq owner_queue,
         \A u \in Tasks : step[u] # "idle" /\ (stack[x] # <<>> => u # Top(x))
            => todo'[u] = todo[u]
  PROVE  ThreadInv'
<1>1. step[t] = "idle" /\ t # Root
  BY Waiting
<1>2. step \in [Tasks -> {"idle", "body", "forked", "release"}]
  BY DEF TypeOK
<1>3. /\ step'[t] = "body"
      /\ \A u \in Tasks \ {t} : step'[u] = step[u]
      /\ stack' = [stack EXCEPT ![x] = Append(@, t)]
  BY <1>2 DEF Execute
<1>4. \A th \in Threads \ {x} : stack'[th] = stack[th] /\ at'[th] = at[th]
  BY <1>3 DEF TypeOK
<1>5. at'[x] = "check"
  BY DEF TypeOK
<1>6. RootInv'
  BY <1>1, <1>3, RootStep, TreeAssumption DEF ThreadInv
<1>7. FrameInv'
  BY <1>1, <1>3, PushFrame DEF ThreadInv
<1>8. SleepInv'
  <2>1. \A u \in Tasks : step[u] # "idle" /\ (stack[x] # <<>> => u # Top(x))
           => step'[u] = step[u] /\ todo'[u] = todo[u]
    BY <1>1, <1>3
  <2> QED BY <1>4, <1>5, <2>1, SleepStep DEF ThreadInv
<1> QED BY <1>6, <1>7, <1>8 DEF ThreadInv

(* A step of the task on top of x that leaves the stacks alone, and that   *)
(* either is followed by wake() or leaves the queues and counters alone.   *)
LEMMA TaskStep ==
  ASSUME TypeOK, TypeOK', DagInv, ThreadInv, NEW x \in Threads,
         stack[x] # <<>>, stack' = stack, at' = [at EXCEPT ![x] = "check"],
         \A u \in Tasks \ {Top(x)} : step'[u] = step[u],
         step'[Top(x)] # "idle",
         step'[Root] = "forked" => step[Root] = "forked",
         \A u \in Tasks : step[u] # "idle" /\ u # Top(x) => todo'[u] = todo[u],
         \/ x \in wakes'
         \/ /\ UNCHANGED <<running, unchanged, wakes, queue, owner_queue>>
            /\ \A u \in Tasks : step[u] = "forked" =>
                  remaining'[u] = remaining[u]
  PROVE  ThreadInv'
<1>1. Top(x) \in Tasks
  BY Stacks
<1>2. \A th \in Threads \ {x} : stack'[th] = stack[th] /\ at'[th] = at[th]
  BY DEF TypeOK
<1>3. at'[x] = "check"
  BY DEF TypeOK
<1>4. RootInv'
  BY RootStep DEF ThreadInv
<1>5. FrameInv'
  BY <1>1, SameFrame DEF ThreadInv
<1>6. SleepInv'
  BY <1>2, <1>3, SleepStep DEF ThreadInv
<1> QED BY <1>4, <1>5, <1>6 DEF ThreadInv

(* A step that leaves the threads where they are.                          *)
LEMMA StillStep ==
  ASSUME ThreadInv, UNCHANGED <<at, stack, step, todo>>,
         \/ wakes' # {}
         \/ unchanged' = {}
         \/ UNCHANGED <<running, queue, owner_queue, unchanged, wakes,
                        remaining>>
  PROVE  ThreadInv'
<1>1. /\ \A th : Top(th)' = Top(th)
      /\ \A t : Joining(t)' <=> Joining(t)
  BY DEF Top, Joining
<1>2. RootInv' /\ FrameInv'
  BY DEF ThreadInv, RootInv, FrameInv
<1>3. /\ \A th \in Threads :
            (IF stack'[th] = <<>> THEN th = Owner ELSE ~Joining(Top(th))')
               => at'[th] = "check"
      /\ \A th \in Workers : at'[th] \notin {"owner look", "owner look again"}
  BY <1>1 DEF ThreadInv, SleepInv
<1>4. CASE wakes' # {} \/ unchanged' = {}
  BY <1>2, <1>3, <1>4 DEF ThreadInv, SleepInv
<1>5. CASE UNCHANGED <<running, queue, owner_queue, unchanged, wakes,
                       remaining>>
  <2>1. \A th : Over(th)' <=> Over(th)
    BY <1>1, <1>5 DEF Over
  <2> QED BY <1>2, <1>3, <1>5, <2>1 DEF ThreadInv, SleepInv
<1> QED BY <1>4, <1>5

(* What a fork leaves alone.                                               *)
LEMMA ForkEffect ==
  ASSUME TypeOK, NEW th \in Threads, NEW p \in Tasks, Fork(th, p)
  PROVE  /\ \A u \in Tasks \ {p} : /\ step'[u] = step[u]
                                   /\ todo'[u] = todo[u]
                                   /\ remaining'[u] = remaining[u]
         /\ step'[p] = "forked" /\ at' = at
         /\ UNCHANGED <<running, queue, owner_queue, unchanged, wakes>>
<1>1. \A u \in Tasks \ {p} : step'[u] = step[u] /\ step'[p] = "forked"
  BY DEF Fork, TypeOK
<1>2. \A u \in Tasks \ {p} : todo'[u] = todo[u]
  BY DEF Fork, TypeOK
<1>3. \A u \in Tasks \ {p} : remaining'[u] = remaining[u]
  BY DEF Fork, TypeOK
<1>4. step'[p] = "forked"
  BY DEF Fork, TypeOK
<1> QED BY <1>1, <1>2, <1>3, <1>4 DEF Fork, queues

(* The threads keep the invariant of their stacks and of their sleep.      *)
LEMMA ThreadStep == DagInv /\ ThreadInv /\ [Next]_vars => ThreadInv'
<1> SUFFICES ASSUME DagInv, ThreadInv, [Next]_vars PROVE ThreadInv'
  OBVIOUS
<1>0. /\ TypeOK /\ TypeOK' /\ RootInv /\ FrameInv /\ SleepInv
      /\ Owner \in Threads /\ Root \in Tasks
      /\ step \in [Tasks -> {"idle", "body", "forked", "release"}]
      /\ at \in [Threads -> Places]
      /\ todo \in [Tasks -> SUBSET (Tasks \ {Root})]
      /\ remaining \in [Tasks -> Nat] /\ remaining' \in [Tasks -> Nat]
      /\ stack \in [Threads -> Seq(Tasks)]
  BY TypeStep, TreeAssumption DEF DagInv, ThreadInv, Threads, TypeOK, Places
<1>1. CASE Run
  <2>1. step[Root] = "idle"
    BY <1>0, <1>1 DEF Run, Idle, DagInv, StepInv, RootInv
  <2>2. /\ stack[Owner] = <<>> /\ Fork(Owner, Root)
        /\ stack' = [stack EXCEPT ![Owner] = Append(@, Root)]
    BY <1>1 DEF Run, Idle
  <2>a. /\ \A u \in Tasks \ {Root} : /\ step'[u] = step[u]
                                     /\ todo'[u] = todo[u]
                                     /\ remaining'[u] = remaining[u]
        /\ step'[Root] = "forked" /\ at' = at
        /\ UNCHANGED <<running, queue, owner_queue, unchanged, wakes>>
    BY <1>0, <2>2, ForkEffect
  <2>b. at'[Owner] = "check"
    BY <1>0, <2>2, <2>a DEF SleepInv
  <2>3. stack'[Owner] # <<>> /\ stack'[Owner][1] = Root
    <3>1. stack'[Owner] = Append(<<>>, Root)
      BY <1>0, <2>2
    <3> QED BY <3>1
  <2>4. FrameInv'
    BY <1>0, <2>1, <2>2, <2>a, PushFrame
  <2>5. \A th \in Threads \ {Owner} : stack'[th] = stack[th]
    BY <1>0, <2>2 DEF TypeOK
  <2>6. SleepInv'
    BY <1>0, <2>1, <2>2, <2>a, <2>b, <2>5, SleepStep
  <2> QED BY <2>3, <2>4, <2>6 DEF ThreadInv, RootInv
<1>2. CASE Shutdown
  <2>1. wakes' # {} /\ UNCHANGED <<at, stack, step, todo>>
    BY <1>2 DEF Shutdown, batches
  <2> QED BY <2>1, StillStep
<1>3. ASSUME NEW th \in Threads, Thread(th)
      PROVE  ThreadInv'
  <2> DEFINE t == Top(th)
  <2>0. ASSUME Busy(th), step[t] # "forked" \/ todo[t] # {}
        PROVE  /\ t \in Tasks /\ stack[th] # <<>>
               /\ at = [at EXCEPT ![th] = "check"]
    <3>1. t \in Tasks /\ stack[th] # <<>> /\ at[th] = "check"
      BY <1>0, <2>0, AtCheck, Working DEF Busy, Joining
    <3> QED BY <1>0, <3>1
  <2>1. CASE ForkN(th)
    <3>1. /\ Busy(th) /\ step[t] = "body" /\ stack' = stack /\ Fork(th, t)
      BY <2>1 DEF ForkN
    <3>2. /\ t \in Tasks /\ stack[th] # <<>>
          /\ at = [at EXCEPT ![th] = "check"]
      BY <2>0, <3>1
    <3>3. t # Root
      BY <1>0, <3>1 DEF DagInv, StepInv
    <3>4. /\ \A u \in Tasks \ {t} : /\ step'[u] = step[u]
                                    /\ todo'[u] = todo[u]
                                    /\ remaining'[u] = remaining[u]
          /\ step'[t] = "forked" /\ at' = at
          /\ UNCHANGED <<running, queue, owner_queue, unchanged, wakes>>
      BY <1>0, <3>1, <3>2, ForkEffect
    <3>5. /\ \A u \in Tasks : step[u] = "forked" => remaining'[u] = remaining[u]
          /\ \A u \in Tasks : step[u] # "idle" /\ u # t => todo'[u] = todo[u]
          /\ step'[Root] = "forked" => step[Root] = "forked"
          /\ step'[t] # "idle" /\ at' = [at EXCEPT ![th] = "check"]
      BY <1>0, <3>1, <3>2, <3>3, <3>4
    <3> QED BY <1>0, <3>1, <3>2, <3>4, <3>5, TaskStep
  <2>2. CASE SubmitNext(th)
    <3>1. PICK u \in todo[t] : /\ todo' = [todo EXCEPT ![t] = @ \ {u}]
                               /\ Submit(th, u)
      BY <2>2 DEF SubmitNext
    <3>2. /\ t \in Tasks /\ step[t] = "forked" /\ stack[th] # <<>>
          /\ at' = [at EXCEPT ![th] = "check"]
          /\ UNCHANGED <<running, unchanged, remaining>>
      BY <1>0, <2>0, <2>2, <3>1, Working DEF SubmitNext, Busy
    <3>3. u \in Tasks /\ phase[u] = "waiting"
      BY <1>0, <3>1, <3>2, Tree DEF DagInv, SubmitInv
    <3>4. \A v \in Tasks \ {t} : todo'[v] = todo[v]
      <4>1. todo \in [Tasks -> SUBSET (Tasks \ {Root})]
        BY <1>0 DEF TypeOK
      <4> QED BY <3>1, <4>1
    <3>5. CASE /\ u \notin OwnerOnly /\ Execute(th, u)
               /\ UNCHANGED <<queues, wakes>>
      <4>1. queue' = queue /\ owner_queue' = owner_queue /\ wakes' = wakes
        BY <3>5 DEF queues
      <4>2. \A v \in Tasks :
               step[v] # "idle" /\ (stack[th] # <<>> => v # Top(th))
                 => todo'[v] = todo[v]
        BY <3>2, <3>4
      <4>3. queue' \subseteq queue /\ owner_queue' \subseteq owner_queue
        BY <4>1
      <4>4. UNCHANGED <<running, unchanged, wakes, remaining>>
        BY <3>2, <4>1
      <4>5. u \in OwnerOnly => th = Owner
        BY <3>5
      <4> QED BY <1>0, <3>2, <3>3, <3>5, <4>2, <4>3, <4>4, <4>5, ExecuteStep
    <3>6. CASE wakes' = wakes \cup {th} /\ UNCHANGED <<stack, step, phase>>
      BY <1>0, <3>2, <3>4, <3>6, TaskStep
    <3> QED BY <3>1, <3>5, <3>6 DEF Submit
  <2>3. CASE EndBody(th)
    <3>0. /\ Busy(th) /\ step[t] = "body" /\ at' = at /\ stack' = stack
          /\ step' = [step EXCEPT ![t] = "release"]
          /\ todo' = [todo EXCEPT ![t] = Successors(t)]
          /\ UNCHANGED <<running, unchanged, wakes, queue, owner_queue,
                         remaining>>
      BY <2>3 DEF EndBody, queues
    <3>1. /\ t \in Tasks /\ stack[th] # <<>>
          /\ at' = [at EXCEPT ![th] = "check"]
      BY <2>0, <3>0
    <3>2. /\ \A u \in Tasks \ {t} : step'[u] = step[u] /\ todo'[u] = todo[u]
          /\ step'[t] = "release"
      BY <1>0, <3>0, <3>1
    <3>3. step'[Root] = "forked" => step[Root] = "forked"
      BY <1>0, <3>2
    <3> QED BY <1>0, <3>0, <3>1, <3>2, <3>3, TaskStep
  <2>4. CASE Release(th)
    <3>1. PICK s \in todo[t] :
             /\ todo' = [todo EXCEPT ![t] = @ \ {s}]
             /\ IF dependencies[s] = 1
                THEN Submit(th, s)
                ELSE UNCHANGED <<queues, wakes, stack, step, phase>>
      BY <2>4 DEF Release
    <3>2. /\ t \in Tasks /\ step[t] = "release" /\ stack[th] # <<>>
          /\ at' = [at EXCEPT ![th] = "check"]
          /\ UNCHANGED <<running, unchanged, remaining>>
      BY <1>0, <2>0, <2>4, Working DEF Release, Busy
    <3>3. s \in Tasks /\ phase[s] = "waiting"
      <4>1. s \in Tasks \ {Root} /\ s \in Successors(t) /\ phase[t] = "done"
        BY <1>0, <3>1, <3>2 DEF DagInv, StepInv, TypeOK
      <4>2. t \in Unreleased(s)
        BY <3>1, <3>2, <4>1, Tree DEF Unreleased
      <4> QED BY <4>1, <4>2 DEF DagInv, SubmitInv
    <3>4. \A v \in Tasks \ {t} : todo'[v] = todo[v]
      BY <1>0, <3>1
    <3>5. CASE /\ s \notin OwnerOnly /\ Execute(th, s)
               /\ UNCHANGED <<queues, wakes>>
      <4>1. queue' = queue /\ owner_queue' = owner_queue /\ wakes' = wakes
        BY <3>5 DEF queues
      <4>2. \A v \in Tasks :
               step[v] # "idle" /\ (stack[th] # <<>> => v # Top(th))
                 => todo'[v] = todo[v]
        BY <3>2, <3>4
      <4>3. queue' \subseteq queue /\ owner_queue' \subseteq owner_queue
        BY <4>1
      <4>4. UNCHANGED <<running, unchanged, wakes, remaining>>
        BY <3>2, <4>1
      <4>5. s \in OwnerOnly => th = Owner
        BY <3>5
      <4> QED BY <1>0, <3>2, <3>3, <3>5, <4>2, <4>3, <4>4, <4>5, ExecuteStep
    <3>6. CASE wakes' = wakes \cup {th} /\ UNCHANGED <<stack, step, phase>>
      BY <1>0, <3>2, <3>4, <3>6, TaskStep
    <3>7. CASE UNCHANGED <<queues, wakes, stack, step, phase>>
      BY <1>0, <3>2, <3>4, <3>7, TaskStep DEF queues
    <3> QED BY <3>1, <3>5, <3>6, <3>7 DEF Submit
  <2>5. CASE Finish(th)
    <3>1. /\ t \in Tasks /\ step[t] = "release" /\ stack[th] # <<>> /\ t # Root
          /\ at' = at /\ at[th] = "check" /\ stack' = Popped(th)
          /\ todo' = todo
      BY <1>0, <2>0, <2>5, Working, AtCheck
         DEF Finish, Busy, Joining, DagInv, StepInv
    <3>2. \A u \in Tasks \ {t} : step'[u] = step[u]
      BY <1>0, <2>5, <3>1 DEF Finish
    <3>3. \A x \in Threads \ {th} : stack'[x] = stack[x]
      BY <1>0, <3>1 DEF TypeOK, Popped
    <3>4. RootInv'
      BY <1>0, <3>1, <3>2, RootStep
    <3>5. FrameInv'
      BY <1>0, <3>1, <3>2, PopFrame
    <3>6. \/ wakes' # {}
          \/ /\ wakes' = wakes /\ unchanged' = unchanged /\ running' = running
             /\ queue' \subseteq queue /\ owner_queue' \subseteq owner_queue
             /\ \A u \in Tasks : step[u] = "forked" /\ remaining'[u] = 0
                   => remaining[u] = 0
      <4>1. CASE remaining[Parent[t]] = 1
        BY <2>5, <4>1 DEF Finish
      <4>2. CASE remaining[Parent[t]] # 1
        <5>1. /\ wakes' = wakes
              /\ remaining' = [remaining EXCEPT ![Parent[t]] = @ - 1]
          BY <2>5, <4>2 DEF Finish
        <5>2. Parent[t] \in Tasks
          BY <3>1, TreeAssumption
        <5>3. ASSUME NEW u \in Tasks, remaining'[u] = 0
              PROVE  remaining[u] = 0
          <6>1. CASE u # Parent[t]
            BY <1>0, <5>1, <5>3, <6>1
          <6>2. CASE u = Parent[t]
            <7>1. remaining'[u] = remaining[u] - 1 /\ remaining[u] \in Nat
              BY <1>0, <5>1, <5>2, <6>2
            <7> QED BY <4>2, <5>3, <6>2, <7>1
          <6> QED BY <6>1, <6>2
        <5> QED BY <2>5, <5>1, <5>3 DEF Finish, queues
      <4> QED BY <4>1, <4>2
    <3>7. SleepInv'
      BY <1>0, <3>1, <3>2, <3>3, <3>6, SleepStep
    <3> QED BY <3>4, <3>5, <3>7 DEF ThreadInv
  <2>6. CASE Wake(th)
    <3>1. unchanged' = {} /\ UNCHANGED <<at, stack, step, todo>>
      BY <2>6 DEF Wake, batches
    <3> QED BY <3>1, StillStep
  <2>7. CASE Continue(th) \/ Exit(th) \/ FindNothing(th) \/ ReadEpoch(th)
    <3>1. /\ UNCHANGED <<running, queue, owner_queue, wakes, stack, step, todo,
                         remaining>>
          /\ Looping(th)
      BY <2>7 DEF Continue, Exit, FindNothing, ReadEpoch, Looping, queues,
                  batches
    <3>2. SleepInv'
      BY <1>0, <2>7, <3>1, LoopStep
    <3>3. RootInv' /\ FrameInv'
      BY <1>0, <3>1 DEF RootInv, FrameInv
    <3> QED BY <3>2, <3>3 DEF ThreadInv
  <2>8. CASE Joined(th)
    <3>1. /\ t \in Tasks /\ step[t] = "forked" /\ stack[th] # <<>>
          /\ at' = [at EXCEPT ![th] = "check"]
          /\ UNCHANGED <<running, queue, owner_queue, unchanged, wakes,
                         remaining>>
      BY <1>0, <2>8, Working DEF Joined, Joining, Busy, Goto, queues
    <3>2. \A u \in Tasks \ {t} : step'[u] = step[u] /\ todo'[u] = todo[u]
      <4>1. CASE t = Root
        <5>1. step' = [step EXCEPT ![t] = "idle"] /\ todo' = todo
          BY <2>8, <4>1 DEF Joined
        <5> QED BY <1>0, <5>1
      <4>2. CASE t # Root
        <5>1. /\ step' = [step EXCEPT ![t] = "release"]
              /\ todo' = [todo EXCEPT ![t] = Successors(t)]
          BY <2>8, <4>2 DEF Joined
        <5> QED BY <1>0, <5>1
      <4> QED BY <4>1, <4>2
    <3>3. CASE t = Root
      <4>1. step'[Root] = "idle" /\ stack' = Popped(th) /\ todo' = todo
        BY <1>0, <2>8, <3>3 DEF Joined
      <4>2. \A x \in Threads \ {th} : stack'[x] = stack[x] /\ at'[x] = at[x]
        BY <1>0, <3>1, <4>1 DEF TypeOK, Popped
      <4>3. at'[th] = "check"
        BY <1>0, <3>1
      <4>4. FrameInv'
        BY <1>0, <3>1, <3>2, <4>1, PopFrame
      <4>5. SleepInv'
        BY <1>0, <3>1, <3>2, <4>2, <4>3, SleepStep
      <4> QED BY <4>1, <4>4, <4>5 DEF ThreadInv, RootInv
    <3>4. CASE t # Root
      <4>1. step'[t] = "release" /\ stack' = stack
        BY <1>0, <2>8, <3>1, <3>4 DEF Joined
      <4> QED BY <1>0, <3>1, <3>2, <3>4, <4>1, TaskStep
    <3> QED BY <3>3, <3>4
  <2>9. CASE TakeOwned(th)
    <3>1. PICK u \in owner_queue : /\ owner_queue' = owner_queue \ {u}
                                   /\ Execute(th, u)
      BY <2>9 DEF TakeOwned
    <3>2. u \in Tasks /\ phase[u] = "waiting"
      BY <1>0, <3>1, Tree DEF TypeOK, DagInv, SubmitInv, Submitted
    <3>3. th = Owner
      BY <1>0, <2>9 DEF TakeOwned, SleepInv, Threads
    <3> QED BY <1>0, <2>9, <3>1, <3>2, <3>3, ExecuteStep
            DEF TakeOwned, Goto, batches
  <2>10. CASE Take(th)
    <3>1. PICK u \in queue : queue' = queue \ {u} /\ Execute(th, u)
      BY <2>10 DEF Take
    <3>2. u \in Tasks /\ phase[u] = "waiting" /\ u \notin OwnerOnly
      BY <1>0, <3>1 DEF TypeOK, DagInv, StepInv, SubmitInv, Submitted
    <3> QED BY <1>0, <2>10, <3>1, <3>2, ExecuteStep DEF Take, Goto, batches
  <2>11. CASE Wait(th)
    <3>1. /\ UNCHANGED <<running, queue, owner_queue, unchanged, wakes, stack,
                         step, todo, remaining>>
          /\ at' = [at EXCEPT ![th] = "check"]
      BY <2>11 DEF Wait, Goto, queues, batches
    <3>2. RootInv' /\ FrameInv'
      BY <1>0, <3>1 DEF RootInv, FrameInv
    <3>3. at'[th] = "check" /\ \A x \in Threads \ {th} : at'[x] = at[x]
      BY <1>0, <3>1
    <3>4. SleepInv'
      BY <1>0, <3>1, <3>3, SleepStep
    <3> QED BY <3>2, <3>4 DEF ThreadInv
  <2> QED BY <1>3, <2>1, <2>2, <2>3, <2>4, <2>5, <2>6, <2>7, <2>8, <2>9,
             <2>10, <2>11 DEF Thread
<1>4. CASE UNCHANGED vars
  BY <1>4, StillStep DEF vars, queues, batches
<1> QED BY <1>1, <1>2, <1>3, <1>4 DEF Next

-----------------------------------------------------------------------------
(* The theorems.                                                           *)

(* The pool starts with its invariant.                                     *)
LEMMA InitInv == Init => Inv
<1> SUFFICES ASSUME Init PROVE Inv
  OBVIOUS
<1>1. DagInv
  BY DagInit
<1>2. \A th \in Threads : stack[th] = <<>> /\ at[th] = "check"
  BY DEF Init
<1>3. RootInv
  BY TreeAssumption DEF Init, RootInv
<1>4. FrameInv
  BY <1>2 DEF FrameInv
<1>5. SleepInv
  BY <1>2 DEF Init, SleepInv, Threads
<1> QED BY <1>1, <1>3, <1>4, <1>5 DEF Inv

(* The counters, queues and stacks agree, and the threads that sleep have  *)
(* nothing to do, in every reachable state: the tasks of a batch are       *)
(* counted by remaining, the predecessors by m_remaining_dependencies.     *)
THEOREM Invariance == Spec => []Inv
<1>1. Inv /\ [Next]_vars => Inv'
  BY DagStep, ThreadStep DEF Inv, ThreadInv
<1> QED BY InitInv, <1>1, PTL DEF Spec

(* No wake() is lost: a thread that m_epoch.wait() blocks while nobody is  *)
(* about to wake it has no task to run and no end to return from.          *)
THEOREM NeverLost == Spec => []NoLostWakeup
<1>1. Inv => NoLostWakeup
  BY DEF Inv, SleepInv, NoLostWakeup, Asleep
<1> QED BY Invariance, <1>1, PTL

(* A node that is not threadable is executed by the owner.                 *)
THEOREM NeverStolen == Spec => []OwnedByOwner
<1>1. Inv => OwnedByOwner
  <2> SUFFICES ASSUME Inv, NEW th \in Workers, NEW i \in 1..Cardinality(Tasks),
                      i <= Len(stack[th])
               PROVE  stack[th][i] \notin OwnerOnly
    BY DEF OwnedByOwner
  <2>1. th \in Threads /\ th # Owner /\ stack \in [Threads -> Seq(Tasks)]
    BY PoolAssumption DEF Threads, Inv, DagInv, TypeOK
  <2>2. Len(stack[th]) \in Nat /\ Cardinality(Tasks) \in Nat
    BY <2>1, Finite
  <2>3. i \in 1..Len(stack[th])
    BY <2>2
  <2> QED BY <2>1, <2>3 DEF Inv, FrameInv
<1> QED BY Invariance, <1>1, PTL

(* A step of the pool is a step of the abstract execution, or none.        *)
LEMMA Refines == Inv /\ [Next]_vars => [Dag!Next]_phase
<1> SUFFICES ASSUME Inv, [Next]_vars, phase' # phase PROVE Dag!Next
  OBVIOUS
<1>0. /\ TypeOK /\ DagInv /\ RootInv /\ Root \in Tasks
      /\ \A p : Dag!Children(p) = Children(p)
      /\ \A p : Dag!Predecessors(p) = Predecessors(p)
  BY TreeAssumption DEF Inv, DagInv, Children, Predecessors,
                        Dag!Children, Dag!Predecessors
<1>1. ASSUME NEW p \in Tasks, NEW th, Fork(th, p), step[p] # "forked",
             phase[p] = IF p = Root THEN "done" ELSE "executing"
      PROVE  Dag!Next
  <2>1. \A c \in Children(p) : phase[c] = "done"
    BY <1>0, <1>1 DEF DagInv, StepInv
  <2>2. Dag!Fork(p)
    BY <1>0, <1>1, <2>1 DEF Fork, Dag!Fork
  <2> QED BY <2>2 DEF Dag!Next
<1>2. ASSUME NEW u \in Tasks, phase[u] = "waiting",
             \A s \in Predecessors(u) : phase[s] = "done",
             phase' = [phase EXCEPT ![u] = "executing"]
      PROVE  Dag!Next
  BY <1>0, <1>2 DEF Dag!Begin, Dag!Next
<1>3. ASSUME NEW t \in Tasks, phase[t] = "executing",
             \A c \in Children(t) : phase[c] = "done",
             phase' = [phase EXCEPT ![t] = "done"]
      PROVE  Dag!Next
  BY <1>0, <1>3 DEF Dag!End, Dag!Next
<1>4. ASSUME NEW th \in Threads, NEW u, Submit(th, u)
      PROVE  phase' = [phase EXCEPT ![u] = "executing"]
  BY <1>4 DEF Submit, Execute
<1>5. CASE Run
  <2>1. step[Root] = "idle" /\ phase[Root] = "done"
    BY <1>0, <1>5 DEF Run, Idle, RootInv, DagInv, StepInv
  <2> QED BY <1>0, <1>1, <1>5, <2>1 DEF Run
<1>6. ASSUME NEW th \in Threads, Thread(th)
      PROVE  Dag!Next
  <2> DEFINE t == Top(th)
  <2>1. CASE ForkN(th)
    <3>1. t \in Tasks /\ step[t] = "body" /\ Fork(th, t)
      BY <1>0, <2>1, Working DEF ForkN
    <3>2. t # Root /\ phase[t] = "executing"
      BY <1>0, <3>1 DEF DagInv, StepInv
    <3> QED BY <1>1, <3>1, <3>2
  <2>2. CASE SubmitNext(th)
    <3>1. t \in Tasks /\ step[t] = "forked"
      BY <1>0, <2>2, Working DEF SubmitNext
    <3>2. PICK u \in todo[t] : Submit(th, u)
      BY <2>2 DEF SubmitNext
    <3>3. u \in Tasks /\ phase[u] = "waiting" /\ Predecessors(u) = {}
      BY <1>0, <3>1, <3>2, Tree DEF DagInv, SubmitInv
    <3> QED BY <1>2, <1>4, <3>2, <3>3
  <2>3. CASE EndBody(th)
    <3>1. /\ t \in Tasks /\ step[t] = "body" /\ Children(t) = {}
          /\ phase' = [phase EXCEPT ![t] = "done"]
      BY <1>0, <2>3, Working DEF EndBody
    <3>2. phase[t] = "executing"
      BY <1>0, <3>1 DEF DagInv, StepInv
    <3> QED BY <1>3, <3>1, <3>2
  <2>4. CASE Release(th)
    <3>1. t \in Tasks /\ step[t] = "release"
      BY <1>0, <2>4, Working DEF Release
    <3>2. PICK s \in todo[t] : dependencies[s] = 1 /\ Submit(th, s)
      BY <2>4 DEF Release
    <3>3. s \in Tasks \ {Root} /\ s \in Successors(t) /\ phase[t] = "done"
      BY <1>0, <3>1, <3>2 DEF DagInv, StepInv, TypeOK
    <3>4. t \in Unreleased(s) /\ phase[s] = "waiting"
      <4>1. t \in Unreleased(s)
        BY <3>1, <3>2, <3>3, Tree DEF Unreleased
      <4> QED BY <1>0, <3>3, <4>1 DEF DagInv, SubmitInv
    <3>5. Cardinality(Unreleased(s)) = 1 /\ Unreleased(s) \in SUBSET Tasks
      BY <1>0, <3>2, <3>3, <3>4, Waiting, Tree
         DEF DagInv, CounterInv, Unreleased
    <3>6. Unreleased(s) \ {t} = {}
      BY <3>4, <3>5, Decrement
    <3>7. \A r \in Predecessors(s) : phase[r] = "done"
      BY <3>3, <3>6 DEF Unreleased
    <3> QED BY <1>2, <1>4, <3>2, <3>3, <3>4, <3>7
  <2>5. CASE Joined(th)
    <3>1. /\ t \in Tasks /\ step[t] = "forked"
          /\ phase' = [phase EXCEPT ![t] = "done"]
      BY <1>0, <2>5, Working DEF Joined, Joining
    <3>2. phase[t] = "executing"
      BY <1>0, <3>1 DEF DagInv, StepInv
    <3>3. Unfinished(t) = {}
      BY <1>0, <2>5, <3>1, BatchOver DEF Joined, Busy, Over
    <3>4. \A c \in Children(t) : phase[c] = "done"
      BY <3>3 DEF Unfinished
    <3> QED BY <1>3, <3>1, <3>2, <3>4
  <2>6. CASE TakeOwned(th) \/ Take(th)
    <3>1. PICK u \in Submitted : Execute(th, u)
      BY <2>6 DEF TakeOwned, Take, Submitted
    <3>2. u \in Tasks /\ phase[u] = "waiting" /\ Unreleased(u) = {}
      BY <1>0, <3>1, Tree DEF DagInv, SubmitInv, Submitted, TypeOK
    <3>3. \A s \in Predecessors(u) : phase[s] = "done"
      BY <3>2 DEF Unreleased
    <3> QED BY <1>2, <3>1, <3>2, <3>3 DEF Execute
  <2>7. CASE \/ Finish(th) \/ Wake(th) \/ Continue(th) \/ Exit(th)
             \/ FindNothing(th) \/ ReadEpoch(th) \/ Wait(th)
    BY <2>7 DEF Finish, Wake, Continue, Exit, FindNothing, ReadEpoch, Wait
  <2> QED BY <1>6, <2>1, <2>2, <2>3, <2>4, <2>5, <2>6, <2>7 DEF Thread
<1>7. CASE Shutdown \/ UNCHANGED vars
  BY <1>7 DEF Shutdown, vars
<1> QED BY <1>5, <1>6, <1>7 DEF Next

(* The pool implements the abstract execution of a graph of tasks: in each *)
(* run every task executes exactly once, after its predecessors.           *)
THEOREM Implementation == Spec => ImplementsDag
<1>1. Init => Dag!Init
  BY DEF Init, Dag!Init
<1> QED BY <1>1, Refines, Invariance, PTL DEF Spec, ImplementsDag, Dag!Spec
=============================================================================
