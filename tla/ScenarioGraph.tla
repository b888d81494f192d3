--------------------------- MODULE ScenarioGraph ----------------------------
(***************************************************************************)
(* The static structure an ossia::scenario executes: time_syncs hold       *)
(* time_events, and each time_interval goes from one event to another.     *)
(* Durations are in ticks of an abstract clock.                            *)
(***************************************************************************)
EXTENDS Integers, FiniteSets

CONSTANTS
    Syncs, Events, Intervals,
    SyncOf,         \* event -> the time_sync that holds it
    StartEv, EndEv, \* interval -> get_start_event(), get_end_event()
    Graphal,        \* the intervals with graphal = true (loops of the graph)
    Min, Nominal, Max,  \* interval -> its durations
    Speed,          \* interval -> m_speed (no tempo curve)
    Infinite,       \* ossia::Infinite: larger than every date
    StartSyncs,     \* the syncs with is_start()
    Autotrigger,    \* the syncs with is_autotrigger()
    Trigger,        \* sync -> kind of m_expression, see TriggerKinds
    Rated,          \* the syncs with has_sync_rate()
    Conditional     \* the events whose expression is not constantly true

(* "auto": the constant true; "click": the constant false, so that only a  *)
(* request triggers the sync; "expr": an observed expression.              *)
TriggerKinds == {"auto", "click", "expr"}

ASSUME GraphAssumption ==
    /\ IsFiniteSet(Syncs) /\ IsFiniteSet(Events)
    /\ SyncOf \in [Events -> Syncs]
    /\ StartEv \in [Intervals -> Events] /\ EndEv \in [Intervals -> Events]
    /\ \A i \in Intervals : SyncOf[StartEv[i]] # SyncOf[EndEv[i]]
    /\ Graphal \subseteq Intervals
    /\ Infinite \in Nat
    /\ Min \in [Intervals -> Nat] /\ Nominal \in [Intervals -> Nat]
    /\ Max \in [Intervals -> Nat]
    /\ \A i \in Intervals : Min[i] <= Nominal[i] /\ Nominal[i] <= Max[i]
                            /\ Max[i] <= Infinite
    /\ Speed \in [Intervals -> Int]
    /\ StartSyncs \subseteq Syncs /\ Autotrigger \subseteq Syncs
    /\ Rated \subseteq Syncs /\ Conditional \subseteq Events
    /\ Trigger \in [Syncs -> TriggerKinds]

EventsOf(n) == {e \in Events : SyncOf[e] = n}
PreviousIntervals(e) == {i \in Intervals : EndEv[i] = e}
NextIntervals(e) == {i \in Intervals : StartEv[i] = e}
StartSync(i) == SyncOf[StartEv[i]]
EndSync(i) == SyncOf[EndEv[i]]
AdjacentIntervals(S) ==
    {i \in Intervals : StartSync(i) \in S \/ EndSync(i) \in S}

(* Each interval has both of its ends in S, or none.                       *)
Closed(S) == \A i \in Intervals : StartSync(i) \in S <=> EndSync(i) \in S

(* The syncs connected to n by intervals, whatever their direction: what   *)
(* the stack and cache traversal of reset_component visits.                *)
Component == [n \in Syncs |->
    {m \in Syncs : \A S \in SUBSET Syncs : n \in S /\ Closed(S) => m \in S}]
=============================================================================
