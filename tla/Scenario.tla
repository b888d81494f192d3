------------------------------ MODULE Scenario ------------------------------
(***************************************************************************)
(* The execution of an ossia::scenario: what scenario::state_impl does at  *)
(* each tick of the execution thread (scenario_execution.cpp,              *)
(* scenario_sync_execution.cpp, scenario_sync_musical_execution.cpp), with *)
(* start, stop, the play and stop buttons of an interval, and the trigger  *)
(* requests another thread raises at any time.                             *)
(*                                                                         *)
(* A tick is a sequence of steps, one for each interval or sync that the   *)
(* loops of state_impl visit: everything but the trigger_request flags     *)
(* belongs to the execution thread, and the steps are cut where that       *)
(* thread reads or clears a flag.  The flat_sets are ordered by address,   *)
(* so a loop may visit their elements in any order.                        *)
(***************************************************************************)
EXTENDS ScenarioGraph

CONSTANTS
    ExclusiveModes, \* the values set_exclusive may give m_exclusive
    Ticks,          \* the lengths a tick may have
    Quanta,         \* where the first quantization point of a tick may be
    Clickable,      \* the syncs whose trigger is requested in this instance
    Playable,       \* the intervals with play and stop buttons in this instance
    MaxDate         \* bound on the time the scenario is played for

None == "none"  \* no sync

ASSUME ScenarioAssumption ==
    /\ None \notin Syncs
    /\ ExclusiveModes \subseteq BOOLEAN
    /\ Ticks \subseteq Nat /\ Quanta \subseteq Nat
    /\ Clickable \subseteq Syncs /\ Playable \subseteq Intervals
    \* make_dispose throws on an event that a button made HAPPENED.
    /\ Playable = {} \/ Conditional = {}
    /\ MaxDate \in Nat /\ MaxDate < Infinite

VARIABLES
    event_status,   \* event -> its m_status, with the FINISHED bit
    itv,            \* interval -> m_date, m_offset, m_running
    sync,           \* sync -> its execution flags
    request,        \* sync -> trigger_request, the atomic flag
    running,        \* m_runningIntervals
    waiting,        \* m_waitingNodes
    end_nodes,      \* m_endNodes
    retry,          \* m_retry_syncs
    max_reached,    \* m_maxReachedEvents
    overticks,      \* m_overticks: sync -> its maximum
    end_map,        \* m_itv_end_map: interval -> date it must end at
    to_start, to_stop,  \* m_itv_to_start, m_itv_to_stop
    last_date,      \* m_last_date
    exclusive,      \* m_exclusive, set before the scenario starts
    tick,           \* the token_request: length, quantization point
    pc              \* the loop of state_impl being run

(* What a command or the start of a tick sets, and everything but pc.      *)
commands == <<to_start, to_stop, last_date, exclusive, tick>>
scenario_vars == <<event_status, itv, sync, request, running, waiting,
                   end_nodes, retry, max_reached, overticks, end_map, commands>>
vars == <<scenario_vars, pc>>

Statuses == {"NONE", "PENDING", "HAPPENED", "DISPOSED",
             "HAPPENED_FINISHED", "DISPOSED_FINISHED"}
Finished == {"HAPPENED_FINISHED", "DISPOSED_FINISHED"}  \* is_finished
Disposed == {"DISPOSED", "DISPOSED_FINISHED"}           \* is_disposed

NoDate == -1
NoOvertick == -1

(* What a loop has left to do, and the sync process_this is busy with.     *)
Phases == {"stopped", "idle", "roots", "waiting", "start", "stop", "musical",
           "run", "propagate", "sync"}
Loop(phase, todo) == [phase |-> phase, todo |-> todo, cur |-> None,
                      decided |-> FALSE, pending |-> {}, max |-> FALSE]
Visited(x) == Loop(pc.phase, pc.todo \ {x})
In(phase) == pc.phase = phase /\ pc.cur = None

StoppedInterval == [date |-> 0, offset |-> 0, running |-> FALSE]
ResetSync == [evaluating |-> FALSE, observing |-> FALSE,
              triggering |-> FALSE, dated |-> FALSE]

(* time_interval::start                                                    *)
StartedInterval(i, offset) ==
    IF Nominal[i] <= offset THEN StoppedInterval
    ELSE [date |-> offset, offset |-> offset, running |-> TRUE]

Init ==
    /\ event_status = [e \in Events |-> "NONE"]
    /\ itv = [i \in Intervals |-> StoppedInterval]
    /\ sync = [n \in Syncs |-> ResetSync]
    /\ request = [n \in Syncs |-> FALSE]
    /\ running = {} /\ waiting = {} /\ end_nodes = {} /\ retry = {}
    /\ max_reached = {}
    /\ overticks = [n \in Syncs |-> NoOvertick]
    /\ end_map = [i \in Intervals |-> Infinite]
    /\ to_start = {} /\ to_stop = {}
    /\ last_date = Infinite /\ exclusive \in ExclusiveModes
    /\ tick = [length |-> 0, quantum |-> NoDate]
    /\ pc = Loop("stopped", {})

-----------------------------------------------------------------------------
(* Another thread: the user clicks on a trigger, or the expression a start *)
(* sync observes becomes true.                                             *)
StartTriggerRequest(n) ==
    /\ ~request[n]
    /\ request' = [request EXCEPT ![n] = TRUE]
    /\ UNCHANGED <<event_status, itv, sync, running, waiting, end_nodes, retry,
                   max_reached, overticks, end_map, commands, pc>>

-----------------------------------------------------------------------------
(* Between two ticks, on the execution thread.                             *)

Start ==
    /\ In("stopped")
    /\ waiting' = waiting \cup StartSyncs
    /\ sync' = [n \in Syncs |-> ResetSync]
    /\ event_status' = [e \in Events |-> "NONE"]
    /\ pc' = Loop("idle", {})
    /\ UNCHANGED <<itv, request, running, end_nodes, retry, max_reached,
                   overticks, end_map, commands>>

Stop ==
    /\ In("idle")
    /\ itv' = [i \in Intervals |-> StoppedInterval]
    /\ sync' = [n \in Syncs |-> ResetSync]
    /\ event_status' = [e \in Events |-> "NONE"]
    /\ running' = {} /\ waiting' = {} /\ to_start' = {} /\ to_stop' = {}
    /\ max_reached' = {}
    /\ overticks' = [n \in Syncs |-> NoOvertick]
    /\ end_map' = [i \in Intervals |-> Infinite]
    /\ pc' = Loop("stopped", {})
    /\ last_date' = Infinite
    /\ UNCHANGED <<request, end_nodes, retry, exclusive, tick>>

(* The buttons of an interval; quantized tells whether the ratio is > 0.   *)
(* Bounds: one request to start and one to stop wait at a time.            *)
RequestStartInterval(i, quantized, from) ==
    /\ In("idle") /\ to_start = {}
    /\ to_start' = {[interval |-> i, quantized |-> quantized, from |-> from]}
    /\ UNCHANGED <<event_status, itv, sync, request, running, waiting,
                   end_nodes, retry, max_reached, overticks, end_map, to_stop,
                   last_date, exclusive, tick, pc>>

RequestStopInterval(i, quantized) ==
    /\ In("idle") /\ to_stop = {}
    /\ to_stop' = {[interval |-> i, quantized |-> quantized]}
    /\ UNCHANGED <<event_status, itv, sync, request, running, waiting,
                   end_nodes, retry, max_reached, overticks, end_map, to_start,
                   last_date, exclusive, tick, pc>>

(* Mutant: also those whose end is PENDING.                                *)
Over_Pending(i) == event_status[EndEv[i]] # "NONE"

(* The intervals a tick forgets: by then a button made their end HAPPENED.  *)
Over(i) == event_status[EndEv[i]] = "HAPPENED"

(* state_impl is entered with a token_request of the given length, which   *)
(* has its first quantization point at quantum, if it has one at all.      *)
BeginTick(length, quantum) ==
    /\ In("idle")
    /\ quantum < length
    /\ last_date' = (IF last_date = Infinite THEN 0 ELSE last_date) + length
    /\ last_date' <= MaxDate
    /\ tick' = [length |-> length, quantum |-> quantum]
    /\ overticks' = [n \in Syncs |-> NoOvertick]
    /\ end_nodes' = {} /\ retry' = {} /\ max_reached' = {}
    /\ running' = {i \in running : ~Over(i)}
    /\ pc' = Loop("roots", StartSyncs)
    /\ UNCHANGED <<event_status, itv, sync, request, waiting, end_map,
                   to_start, to_stop, exclusive>>

-----------------------------------------------------------------------------
(* The start syncs: a request on one that has executed restarts its        *)
(* component.                                                              *)

(* The effect of reset_component on every component of a set of syncs.     *)
Resetting(S) ==
    LET C == UNION {Component[n] : n \in S}
    IN  [syncs |-> C, intervals |-> AdjacentIntervals(C)]

(* Mutant: is_evaluating stays false, and the request is forgotten.        *)
RestartedSync_Waits(n) == ResetSync

(* With autotrigger, the request is kept by the evaluation that follows.   *)
RestartedSync(n) ==
    IF n \in Autotrigger THEN [ResetSync EXCEPT !.evaluating = TRUE]
    ELSE ResetSync

VisitRoot(n) ==
    /\ In("roots") /\ n \in pc.todo
    /\ LET observed == [sync EXCEPT ![n].observing = @ \/ Trigger[n] = "expr"]
           r == Resetting({n})
       IN  \/ /\ ~request[n] \/ n \in waiting
              /\ sync' = observed
              /\ UNCHANGED <<event_status, itv, running, waiting, end_map>>
           \/ /\ request[n] /\ n \notin waiting
              /\ event_status' = [e \in Events |->
                    IF SyncOf[e] \in r.syncs THEN "NONE" ELSE event_status[e]]
              /\ sync' = [m \in Syncs |->
                    IF m = n THEN RestartedSync(n)
                    ELSE IF m \in r.syncs THEN ResetSync ELSE sync[m]]
              /\ itv' = [i \in Intervals |->
                    IF i \in r.intervals THEN StoppedInterval ELSE itv[i]]
              /\ running' = running \ r.intervals
              /\ end_map' = [i \in Intervals |->
                    IF i \in r.intervals THEN Infinite ELSE end_map[i]]
              /\ waiting' = waiting \cup {n}
    /\ pc' = Visited(n)
    /\ UNCHANGED <<request, end_nodes, retry, max_reached, overticks,
                   commands>>

RootsVisited ==
    /\ In("roots") /\ pc.todo = {}
    /\ pc' = Loop("waiting", waiting)
    /\ UNCHANGED scenario_vars

-----------------------------------------------------------------------------
(* process_this and process_this_musical, in three steps: is the sync      *)
(* ready, is it triggered now, and its execution.                          *)

(* Mutant: the minimal duration of the previous intervals is not tested.   *)
MinReached_AnyDate(e) ==
    \A i \in PreviousIntervals(e) \ Graphal :
        event_status[StartEv[i]] # "NONE"

(* is_timesync_ready: the events that are, or become, PENDING.             *)
MinReached(e) ==
    \A i \in PreviousIntervals(e) \ Graphal :
        \/ event_status[StartEv[i]] \in Disposed
        \/ event_status[StartEv[i]] # "NONE" /\ itv[i].date >= Min[i]
PendingEvents(n) ==
    {e \in EventsOf(n) :
        \/ event_status[e] = "PENDING"
        \/ event_status[e] \in Finished \cup {"NONE"} /\ MinReached(e)}
ActiveEvents(n) == {e \in EventsOf(n) : event_status[e] # "DISPOSED"}
IsReady(n) == PendingEvents(n) = ActiveEvents(n)

(* Mutant: the date must be past the maximal duration.                     *)
MaxReached_Past(n) ==
    \E e \in PendingEvents(n) : \E i \in PreviousIntervals(e) :
        itv[i].date > Max[i]

MaxReached(n) ==
    \E e \in PendingEvents(n) : \E i \in PreviousIntervals(e) :
        itv[i].date >= Max[i]

(* Mutant: the request is cleared at each evaluation.                      *)
KeepsRequest_Never(n) == FALSE

(* A sync that is not ready leaves the evaluation; one that enters it      *)
(* forgets the requests made before.                                       *)
KeepsRequest(n) == sync[n].evaluating = IsReady(n)
CheckReady(n, todo) ==
    /\ event_status' = [e \in Events |->
          IF e \in PendingEvents(n) THEN "PENDING" ELSE event_status[e]]
    /\ sync' = [sync EXCEPT ![n].evaluating = IsReady(n)]
    /\ request' = [request EXCEPT ![n] = @ /\ KeepsRequest(n)]
    /\ \/ /\ IsReady(n)
          /\ pc' = [phase |-> pc.phase, todo |-> todo, cur |-> n,
                    decided |-> FALSE, pending |-> PendingEvents(n),
                    max |-> MaxReached(n)]
       \/ /\ ~IsReady(n)
          /\ pc' = Loop(pc.phase, todo)
    /\ UNCHANGED <<itv, running, waiting, retry, max_reached, overticks,
                   end_map, commands>>

VisitSync(n) ==
    /\ In("waiting") \/ In("sync")
    /\ n \in pc.todo
    /\ CheckReady(n, pc.todo \ {n})
    /\ UNCHANGED end_nodes

(* Before the intervals run: the quantized syncs that are past their       *)
(* minimum already get the date they will trigger at.                      *)
VisitMusical(i) ==
    /\ In("musical") /\ i \in pc.todo
    /\ \/ /\ itv[i].date >= Min[i] /\ EndSync(i) \in Rated
          /\ end_nodes' = end_nodes \cup {EndSync(i)}
          /\ CheckReady(EndSync(i), pc.todo \ {i})
       \/ /\ ~(itv[i].date >= Min[i] /\ EndSync(i) \in Rated)
          /\ pc' = Visited(i)
          /\ UNCHANGED scenario_vars

Deciding(n) == pc.cur = n /\ ~pc.decided
Interactive(n) == Trigger[n] # "auto" /\ ~pc.max
Committed(n) == sync[n].dated \/ sync[n].triggering
Return == pc' = Loop(pc.phase, pc.todo)
Execute(max) == pc' = [pc EXCEPT !.decided = TRUE, !.max = max]
Incoming(n) == {i \in Intervals : EndSync(i) = n}

Quantizing(n) == n \in Rated

(* The sync is going to trigger; its expression is observed from here on.  *)
CommittedSync(n) ==
    [sync EXCEPT ![n].triggering = TRUE,
                 ![n].observing = @ \/ (Trigger[n] = "expr" /\ ~Committed(n))]

(* quantize_time_sync: the intervals must end one before the quantization  *)
(* point.                                                                  *)
Quantize(n) ==
    /\ tick.quantum # NoDate
    /\ sync' = [sync EXCEPT ![n] =
          [@ EXCEPT !.triggering = TRUE, !.dated = TRUE, !.observing = FALSE]]
    /\ end_map' = [i \in Intervals |->
          IF i \in Incoming(n) /\ end_map[i] = Infinite
          THEN itv[i].date + tick.quantum - 1 ELSE end_map[i]]
    /\ retry' = IF pc.phase = "sync" THEN retry \cup {n} ELSE retry
    /\ Return

(* trigger_quantified_time_sync: have the intervals ended there?  Only the *)
(* start events that are HAPPENED and not FINISHED are looked at.          *)
AtFakeMax(n) ==
    \A i \in Incoming(n) :
        event_status[StartEv[i]] = "HAPPENED" /\ end_map[i] # Infinite
            => itv[i].date = end_map[i]

(* No trigger, or the maximal duration is reached: execute.                *)
TriggerAtMax(n) ==
    /\ Deciding(n) /\ ~Interactive(n)
    /\ IF pc.phase = "musical" THEN Return ELSE Execute(pc.max)
    /\ UNCHANGED scenario_vars

(* Neither a request nor a true expression: keep evaluating.               *)
NotTriggered(n) ==
    /\ Deciding(n) /\ Interactive(n) /\ ~Committed(n)
    /\ ~request[n]
    /\ sync' = [sync EXCEPT ![n].observing = @ \/ Trigger[n] = "expr"]
    /\ Return
    /\ UNCHANGED <<event_status, itv, request, running, waiting, end_nodes,
                   retry, max_reached, overticks, end_map, commands>>

(* A request, a true expression, or an earlier one of them that waits for  *)
(* its quantization point.                                                 *)
Triggered(n) ==
    /\ Deciding(n) /\ Interactive(n)
    /\ Committed(n) \/ request[n] \/ Trigger[n] = "expr"
    /\ request' = [request EXCEPT ![n] = @ /\ Committed(n)]
    /\ \/ /\ sync[n].dated /\ pc.phase # "musical"
          /\ sync' = CommittedSync(n)
          /\ \/ /\ AtFakeMax(n)
                /\ end_map' = [i \in Intervals |->
                      IF i \in Incoming(n) THEN Infinite ELSE end_map[i]]
                /\ Execute(TRUE)
             \/ ~AtFakeMax(n) /\ Return /\ UNCHANGED end_map
          /\ UNCHANGED retry
       \/ /\ sync[n].dated /\ pc.phase = "musical"
          /\ Return /\ UNCHANGED <<sync, retry, end_map>>
       \/ ~sync[n].dated /\ Quantizing(n) /\ Quantize(n)
       \/ /\ ~sync[n].dated /\ Quantizing(n) /\ tick.quantum = NoDate
          /\ sync' = CommittedSync(n)
          /\ Return /\ UNCHANGED <<retry, end_map>>
       \/ /\ ~sync[n].dated /\ ~Quantizing(n)
          /\ sync' = CommittedSync(n)
          /\ Execute(FALSE) /\ UNCHANGED <<retry, end_map>>
    /\ UNCHANGED <<event_status, itv, running, waiting, end_nodes, max_reached,
                   overticks, commands>>

(* make_dispose: the event, and the events after it all of whose starts    *)
(* are on the way from it.  FINISHED is only set on the way back, and only *)
(* an event that is DISPOSED and not FINISHED counts as disposed here.     *)
(* Ways(e, k): the intervals followed, k of them, one after the other.     *)
Ways(e, k) ==
    {p \in [1..k -> Intervals \ Graphal] :
        \A j \in 1..k :
            /\ StartEv[p[j]] = IF j = 1 THEN e ELSE EndEv[p[j-1]]
            /\ \A i \in PreviousIntervals(EndEv[p[j]]) :
                  \/ StartEv[i] \in {e} \cup {EndEv[p[l]] : l \in 1..(j-1)}
                  \/ event_status[StartEv[i]] = "DISPOSED"}
Disposal(e) ==
    {e} \cup UNION {{EndEv[p[k]] : p \in Ways(e, k)} :
                    k \in 1..(Cardinality(Events) - 1)}

StoppedBy(events) == {i \in Intervals : EndEv[i] \in events}

NextOf(events) == {i \in Intervals : StartEv[i] \in events}

(* Mutant: the disposed events too.                                        *)
Carried_Pending(happened) == IF pc.max THEN pc.pending ELSE {}

(* The events after which the rest of the tick is played.                  *)
Carried(happened) == IF pc.max THEN happened ELSE {}

(* Mutant: the components that play are left alone.                        *)
OtherActive_Triggering(n) ==
    IF ~exclusive THEN {} ELSE {m \in Syncs \ Component[n] : sync[m].triggering}

(* reset_all_components_except(n), in an exclusive scenario: the other     *)
(* components that have something running or triggering.                   *)
OtherActive(n) ==
    IF ~exclusive THEN {}
    ELSE {m \in Syncs \ Component[n] :
            \/ sync[m].triggering
            \/ \E i \in AdjacentIntervals({m}) : itv[i].running}

(* Mutant: the sync stays evaluating.                                      *)
ExecutedSync_Evaluating == [ResetSync EXCEPT !.evaluating = TRUE]

ExecutedSync == ResetSync

(* The end of trigger_sync: the pending events whose expression is true    *)
(* happen, the others are disposed.  The flags that state_impl sets once   *)
(* more after the sync loop are already those of this step.                *)
TriggerSync(n, happened) ==
    /\ pc.cur = n /\ pc.decided
    /\ happened \subseteq pc.pending
    /\ pc.pending \ happened \subseteq Conditional
    /\ LET disposed == UNION {Disposal(e) : e \in pc.pending \ happened}
           stopped == StoppedBy(happened \cup disposed)
           started == NextOf(happened)
           r == Resetting(OtherActive(n))
       IN  /\ event_status' = [e \in Events |->
                 IF SyncOf[e] \in r.syncs THEN "NONE"
                 ELSE IF e \in disposed THEN "DISPOSED_FINISHED"
                 ELSE IF e \in happened THEN "HAPPENED_FINISHED"
                 ELSE event_status[e]]
           /\ itv' = [i \in Intervals |->
                 IF i \in r.intervals THEN StoppedInterval
                 ELSE IF i \in started THEN StartedInterval(i, itv[i].offset)
                 ELSE IF i \in stopped THEN StoppedInterval
                 ELSE itv[i]]
           /\ running' = ((running \ stopped) \cup started) \ r.intervals
           /\ sync' = [m \in Syncs |->
                 IF m \in r.syncs THEN ResetSync
                 ELSE IF m = n THEN ExecutedSync ELSE sync[m]]
           /\ end_map' = [i \in Intervals |->
                 IF i \in r.intervals THEN Infinite ELSE end_map[i]]
    /\ request' = [request EXCEPT ![n] = FALSE]
    /\ max_reached' = max_reached \cup Carried(happened)
    /\ waiting' = IF pc.phase = "waiting" THEN waiting \ {n} ELSE waiting
    /\ retry' = IF pc.phase = "sync" THEN retry \ {n} ELSE retry
    /\ Return
    /\ UNCHANGED <<end_nodes, overticks, commands>>

WaitingVisited ==
    /\ In("waiting") /\ pc.todo = {}
    /\ pc' = Loop("start", to_start)
    /\ UNCHANGED scenario_vars

-----------------------------------------------------------------------------
(* The play and stop buttons, once their quantization point is reached.    *)
Due(r) == tick.length # 0 /\ (r.quantized => tick.quantum # NoDate)

Played(r) ==
    LET i == r.interval
        from == IF r.from >= Nominal[i] /\ Nominal[i] > 0
                THEN Nominal[i] - 1 ELSE r.from
    IN  IF from > 0
        THEN [StartedInterval(i, from) EXCEPT !.date = from, !.offset = from]
        ELSE StartedInterval(i, 0)

VisitToStart(r) ==
    /\ In("start") /\ r \in pc.todo
    /\ LET i == r.interval IN
       \/ ~Due(r) /\ pc' = Visited(r)
          /\ UNCHANGED <<event_status, itv, running, to_start>>
       \/ /\ Due(r)
          /\ event_status' = [event_status EXCEPT ![StartEv[i]] = "HAPPENED",
                                                  ![EndEv[i]] = "NONE"]
          /\ \/ /\ exclusive
                /\ itv' = [j \in Intervals |->
                      IF j = i \/ j \in running THEN StoppedInterval
                      ELSE itv[j]]
                /\ running' = {} /\ to_start' = {}
                /\ pc' = Loop("start", {})
             \/ /\ ~exclusive
                /\ itv' = [itv EXCEPT ![i] = Played(r)]
                /\ running' = running \cup {i}
                /\ to_start' = to_start \ {r}
                /\ pc' = Visited(r)
    /\ UNCHANGED <<sync, request, waiting, end_nodes, retry, max_reached,
                   overticks, end_map, to_stop, last_date, exclusive, tick>>

ToStartVisited ==
    /\ In("start") /\ pc.todo = {}
    /\ pc' = Loop("stop", to_stop)
    /\ UNCHANGED scenario_vars

VisitToStop(r) ==
    /\ In("stop") /\ r \in pc.todo
    /\ \/ /\ Due(r)
          /\ itv' = [itv EXCEPT ![r.interval] =
                IF @.running \/ r.interval \in running THEN StoppedInterval
                ELSE @]
          /\ running' = running \ {r.interval}
          /\ to_stop' = to_stop \ {r}
       \/ ~Due(r) /\ UNCHANGED <<itv, running, to_stop>>
    /\ pc' = Visited(r)
    /\ UNCHANGED <<event_status, sync, request, waiting, end_nodes, retry,
                   max_reached, overticks, end_map, to_start, last_date,
                   exclusive, tick>>

ToStopVisited ==
    /\ In("stop") /\ pc.todo = {}
    /\ pc' = Loop("musical", running)
    /\ UNCHANGED scenario_vars

MusicalVisited ==
    /\ In("musical") /\ pc.todo = {}
    /\ pc' = Loop("run", running)
    /\ UNCHANGED scenario_vars

-----------------------------------------------------------------------------
(* run_interval: advance by t without going over the maximum, or over the  *)
(* date a quantized trigger has fixed; what is left is the overtick of the *)
(* end sync.                                                               *)

NonNegative(d) == IF d < 0 THEN 0 ELSE d

(* Mutant: the maximal duration is forgotten.                              *)
EndDate_Quantized(i) == end_map[i]

(* Mutant: the date that quantization fixed is forgotten.                  *)
EndDate_Maximum(i) == Max[i]

EndDate(i) == IF end_map[i] < Max[i] THEN end_map[i] ELSE Max[i]

(* Mutant: what is left is in the time of the interval.                    *)
Overshoot_Local(i, t) ==
    LET diff == itv[i].date + t * Speed[i] - EndDate(i)
    IN  IF EndDate(i) = Infinite \/ Speed[i] < 0 \/ diff <= 0 THEN NoOvertick
        ELSE diff

(* What an advance of t leaves, in the time of the scenario.               *)
Overshoot(i, t) ==
    LET diff == itv[i].date + t * Speed[i] - EndDate(i)
    IN  IF EndDate(i) = Infinite \/ Speed[i] < 0 \/ diff <= 0 THEN NoOvertick
        ELSE IF Speed[i] = 0 THEN diff ELSE diff \div Speed[i]

(* Graphal intervals always enable what is after them.                     *)
EnabledBy(i) == IF i \in Graphal THEN EventsOf(EndSync(i)) ELSE {}

RunInterval(i, t) ==
    LET n == EndSync(i)
        ot == Overshoot(i, t)
        date == IF ot = NoOvertick THEN NonNegative(itv[i].date + t * Speed[i])
                ELSE NonNegative(EndDate(i))
    IN  /\ itv' = [itv EXCEPT ![i].date = date]
        /\ overticks' = [overticks EXCEPT ![n] = IF ot > @ THEN ot ELSE @]
        /\ \/ /\ date >= Min[i]
              /\ end_nodes' = end_nodes \cup {n}
              /\ event_status' = [e \in Events |->
                    IF e \in EnabledBy(i) THEN "PENDING"
                    ELSE event_status[e]]
           \/ date < Min[i] /\ UNCHANGED <<end_nodes, event_status>>
        /\ pc' = Visited(i)
        /\ UNCHANGED <<sync, request, running, waiting, retry, max_reached,
                       end_map, commands>>

VisitRunning(i) ==
    /\ In("run") /\ i \in pc.todo
    /\ RunInterval(i, tick.length)

(* The intervals that follow an event which happened because a maximum was *)
(* reached start with what is left of the tick.                            *)
VisitNext(i) ==
    /\ In("propagate") /\ i \in pc.todo
    /\ \/ /\ overticks[StartSync(i)] # NoOvertick
          /\ RunInterval(i, overticks[StartSync(i)])
       \/ /\ overticks[StartSync(i)] = NoOvertick
          /\ pc' = Visited(i)
          /\ UNCHANGED scenario_vars

RunVisited ==
    /\ In("run") /\ pc.todo = {}
    /\ pc' = Loop("propagate", NextOf(max_reached))
    /\ UNCHANGED scenario_vars

(* Mutant: the events that reached their maximum are not cleared.          *)
NextVisited_Again ==
    /\ In("propagate") /\ pc.todo = {}
    /\ pc' = Loop("sync", end_nodes)
    /\ UNCHANGED scenario_vars

NextVisited ==
    /\ In("propagate") /\ pc.todo = {}
    /\ max_reached' = {}
    /\ pc' = Loop("sync", end_nodes)
    /\ UNCHANGED <<event_status, itv, sync, request, running, waiting,
                   end_nodes, retry, overticks, end_map, commands>>

(* The do-while loop of state_impl: again for the events that just reached *)
(* their maximum and for the syncs that just got a date.                   *)
SyncsVisited ==
    /\ In("sync") /\ pc.todo = {}
    /\ end_nodes' = retry /\ retry' = {}
    /\ pc' = IF max_reached = {} /\ retry = {} THEN Loop("idle", {})
             ELSE Loop("propagate", NextOf(max_reached))
    /\ UNCHANGED <<event_status, itv, sync, request, running, waiting,
                   max_reached, overticks, end_map, commands>>

-----------------------------------------------------------------------------
(* The rest of a tick: what the execution thread does by itself.           *)
TickStep ==
    \/ \E n \in Syncs :
          \/ VisitRoot(n) \/ VisitSync(n)
          \/ TriggerAtMax(n) \/ NotTriggered(n) \/ Triggered(n)
          \/ \E happened \in SUBSET pc.pending : TriggerSync(n, happened)
    \/ \E i \in Intervals : VisitMusical(i) \/ VisitRunning(i) \/ VisitNext(i)
    \/ \E r \in to_start : VisitToStart(r)
    \/ \E r \in to_stop : VisitToStop(r)
    \/ RootsVisited \/ WaitingVisited \/ ToStartVisited \/ ToStopVisited
    \/ MusicalVisited \/ RunVisited \/ NextVisited \/ SyncsVisited

Command ==
    \/ Start \/ Stop
    \/ \E length \in Ticks, quantum \in {NoDate} \cup Quanta :
          BeginTick(length, quantum)
    \/ \E i \in Playable, quantized \in BOOLEAN :
          \/ \E from \in {0, Nominal[i]} :
                RequestStartInterval(i, quantized, from)
          \/ RequestStopInterval(i, quantized)

Next == TickStep \/ Command \/ \E n \in Clickable : StartTriggerRequest(n)

Spec == Init /\ [][Next]_vars

(* The execution thread finishes the tick it has begun.                    *)
FairSpec == Spec /\ WF_vars(TickStep)
=============================================================================
