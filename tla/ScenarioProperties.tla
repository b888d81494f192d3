------------------------- MODULE ScenarioProperties -------------------------
(***************************************************************************)
(* What a scenario promises to the score it plays.  Idle is the state      *)
(* between two ticks: the one the rest of the program observes.            *)
(***************************************************************************)
EXTENDS Scenario

Idle == In("idle")

(* The loop being run, and what it has left to do.                         *)
PcTypes ==
    /\ pc.phase \in Phases /\ pc.cur \in Syncs \cup {None}
    /\ pc.todo \subseteq CASE In("start") -> to_start
                        [] In("stop") -> to_stop
                        [] OTHER -> Syncs \cup Intervals
    /\ pc.pending \subseteq Events
    /\ pc.decided \in BOOLEAN /\ pc.max \in BOOLEAN

(* Every variable keeps its type.  run_interval ticks "without going over  *)
(* the max", so that a process is never given a position before its        *)
(* beginning or past its end, however the tick is shared between the       *)
(* intervals it goes through.                                              *)
TypeOK ==
    /\ event_status \in [Events -> Statuses]
    /\ itv \in [Intervals -> [date : Nat, offset : Nat, running : BOOLEAN]]
    /\ \A i \in Intervals : Max[i] < Infinite => itv[i].date <= Max[i]
    /\ sync \in [Syncs -> [evaluating : BOOLEAN, observing : BOOLEAN,
                           triggering : BOOLEAN, dated : BOOLEAN]]
    /\ request \in [Syncs -> BOOLEAN]
    /\ running \subseteq Intervals
    /\ waiting \subseteq Syncs /\ end_nodes \subseteq Syncs
    /\ retry \subseteq Syncs
    /\ max_reached \subseteq Events
    /\ overticks \in [Syncs -> Nat \cup {NoOvertick}]
    /\ end_map \in [Intervals -> Int]
    /\ to_start \subseteq [interval : Playable, quantized : BOOLEAN, from : Nat]
    /\ to_stop \subseteq [interval : Playable, quantized : BOOLEAN]
    /\ last_date \in Nat /\ exclusive \in BOOLEAN
    /\ tick \in [length : Nat, quantum : Nat \cup {NoDate}]
    /\ PcTypes

-----------------------------------------------------------------------------
(* Dates.                                                                  *)

(* The time an interval lasts in the scenario; one that plays backwards    *)
(* never ends.                                                             *)
Length(i) == IF Speed[i] > 0 THEN Max[i] \div Speed[i] ELSE Infinite

(* time_sync::get_date: where the score writes the sync, following the     *)
(* first interval that precedes it.                                        *)
SyncDate ==
    LET date[k \in 0..Cardinality(Syncs)] == [m \in Syncs |->
          LET before == {i \in Incoming(m) : i \notin Graphal}
          IN  IF k = 0 \/ before = {} THEN 0
              ELSE LET i == CHOOSE i \in before : TRUE
                   IN  Length(i) + date[k-1][StartSync(i)]]
    IN  date[Cardinality(Syncs)]

(* The length of the loop that goes through an interval, closed by a       *)
(* graphal interval; Infinite when there is none.                          *)
Loops(i) ==
    {l \in Graphal : /\ StartSync(l) \in Component[StartSync(i)]
                     /\ SyncDate[StartSync(i)] \in
                            SyncDate[EndSync(l)]..SyncDate[StartSync(l)]}
Period == [i \in Intervals |->
    IF Loops(i) = {} THEN Infinite
    ELSE LET l == CHOOSE l \in Loops(i) : TRUE
         IN  SyncDate[StartSync(l)] + Length(l) - SyncDate[EndSync(l)]]

(* In a rigid score the overticks lose and duplicate no time: between two  *)
(* ticks an interval plays iff the date of the scenario is inside it, and  *)
(* its own date is the time elapsed since its start, or since the last     *)
(* time a loop went through it.                                            *)
Punctual ==
    Idle /\ last_date # Infinite => \A i \in Intervals :
        LET elapsed == (last_date - SyncDate[StartSync(i)]) % Period[i]
            begun == last_date >= SyncDate[StartSync(i)]
        IN  /\ i \in running <=> begun /\ elapsed < Length(i)
            /\ i \in running => itv[i].date = NonNegative(elapsed * Speed[i])

(* The do-while loop goes on until nothing is left to execute: after a     *)
(* tick no sync is ready with an interval that reached its maximum.        *)
NothingLate ==
    Idle => \A n \in Syncs : \A i \in Incoming(n) \cap running :
        itv[i].date >= Max[i] => ~IsReady(n)

-----------------------------------------------------------------------------
(* Intervals.                                                              *)

(* m_runningIntervals and the intervals agree: the processes that were     *)
(* started are those of the intervals that the ticks advance and that will *)
(* be stopped.                                                             *)
NoZombie == Idle => \A i \in Intervals : itv[i].running <=> i \in running

(* A stopped interval is at its beginning: the rest of a tick is given only*)
(* to intervals that the sync started.  (An interval with no minimal       *)
(* duration may be stopped by the sync that follows it before the rest of  *)
(* the tick reaches it.)                                                   *)
StoppedStayAtZero ==
    Idle => \A i \in Intervals \ running :
        Min[i] > 0 /\ ~itv[i].running => itv[i].date = 0

-----------------------------------------------------------------------------
(* Events.                                                                 *)

(* A sync executes only when each interval that leads to one of its        *)
(* events, but those that start on a disposed event, has played for its    *)
(* minimal duration; quantization takes back at most one instant of it,    *)
(* when the grid point is the first instant of the tick.                   *)
TakenBack(n) == IF sync[n].dated THEN 1 ELSE 0
ReadyWhenExecuting ==
    pc.decided => \A i \in Incoming(pc.cur) \ Graphal :
        \/ event_status[StartEv[i]] \in Disposed
        \/ itv[i].date >= Min[i] - TakenBack(pc.cur)

-----------------------------------------------------------------------------
(* Triggers.                                                               *)

Executes(n) == pc.cur = n /\ pc.decided

(* A click on a sync that is being evaluated is not lost: the request is   *)
(* cleared when the sync is committed to trigger, when it executes, or     *)
(* when it is no longer evaluated.                                         *)
RequestConsumed ==
    [][ \A n \in Syncs : request[n] /\ ~request'[n] /\ sync[n].evaluating =>
          Executes(n) \/ Committed(n)' \/ ~sync'[n].evaluating ]_vars

(* A sync shown as evaluating is one the next tick visits: it waits, or an *)
(* interval past its minimum runs to it.  Otherwise a click would never be *)
(* looked at.                                                              *)
EvaluatingReachable ==
    Idle => \A n \in Syncs : sync[n].evaluating =>
        \/ n \in waiting
        \/ \E i \in Incoming(n) \cap running : itv[i].date >= Min[i]

(* With a quantization rate, a trigger that is not at its maximum executes *)
(* only in a tick that holds a grid point.  One that got its date before   *)
(* the intervals ran executes on the grid: whatever their positions, they  *)
(* all end one instant before the grid point, so that the rest of the tick *)
(* for what follows is AfterGrid, never the overtick of another interval.  *)
(* One that got it once they have run has no overtick: it executes at the  *)
(* end of the tick, off the grid (QuantizedEnd).  A start sync that waits  *)
(* for its grid point is visited again only in the next tick.              *)
AtMaximum(n) == \E i \in Incoming(n) : itv[i].date >= Max[i]
AfterGrid == tick.length - (tick.quantum - 1)
OnGrid ==
    \A n \in Rated \ StartSyncs : Trigger[n] # "auto" /\ ~AtMaximum(n) =>
        /\ Executes(n) => /\ tick.quantum # NoDate
                          /\ overticks[n] \in {NoOvertick, AfterGrid}
        /\ pc.phase = "run" /\ sync[n].dated =>
              \A i \in Incoming(n) \cap running :
                  i \in pc.todo \/ overticks[n] = AfterGrid

(* "Auto-trigger timesyncs ... will directly restart their following graph *)
(* upon triggering": a click on one that has executed plays it again.      *)
AutotriggerRestarts ==
    \A n \in Autotrigger :
        pc.phase = "roots" /\ n \in pc.todo /\ request[n] /\ n \notin waiting
            ~> Executes(n)

-----------------------------------------------------------------------------
(* An exclusive scenario plays one connected component at a time.          *)
ExclusiveOne ==
    exclusive /\ Idle =>
        \A i, j \in running : StartSync(j) \in Component[StartSync(i)]

-----------------------------------------------------------------------------
(* The tick ends: the do-while loop and the cascades terminate.            *)
TickEnds == (pc.phase \notin {"idle", "stopped"}) ~> Idle

-----------------------------------------------------------------------------
(* What the comments of the code say, and the code does not do.            *)

(* "the fake max date at which intervals must end for this to work": when  *)
(* a quantized sync executes, the intervals before it are at that date.    *)
QuantizedEnd ==
    [][ \A n \in Syncs : Deciding(n) /\ Executes(n)' /\ sync[n].dated =>
          pc.max \/ \A i \in Incoming(n) \cap running :
                      end_map[i] # Infinite => itv[i].date = end_map[i] ]_vars
=============================================================================
