--------------------------- MODULE ScenarioProofs ---------------------------
(***************************************************************************)
(* Proofs about Scenario.  The first part holds for every score that       *)
(* ScenarioGraph describes and every sequence of ticks, clicks and         *)
(* commands.  BaseInv is what types need: which sync a loop is busy with,  *)
(* and which intervals it has left.  RunningInv is about the intervals a   *)
(* tick advances and those that play, and OneInv carries the choice of a   *)
(* component through the steps of a tick.                                  *)
(*                                                                         *)
(* The second part is about the scores that are played forward once        *)
(* (Straight).  ScoreInv says in which order intervals and events go       *)
(* through their states, and what each loop of a tick may count on; the    *)
(* dates (DateInv), the evaluations (EvalInv), the quantized triggers      *)
(* (GridInv) and the maxima (LateInv) rest on it.                          *)
(*                                                                         *)
(* The third part adds that the score is Rigid: then PunctualInv gives the *)
(* date of every interval at every step of a tick, and Complete says which *)
(* intervals run when the tick has ended.                                  *)
(*                                                                         *)
(* The last part is the measure by which a tick of a Straight score ends.  *)
(***************************************************************************)
EXTENDS ScenarioProperties, IntervalLemmas, TLAPS

(* What a loop has left to do, and the sync it is busy with.               *)
PcInv ==
    /\ pc = [phase |-> pc.phase, todo |-> pc.todo, cur |-> pc.cur,
             decided |-> pc.decided, pending |-> pc.pending, max |-> pc.max]
    /\ pc.cur # None =>
          /\ pc.phase \in {"waiting", "musical", "sync"}
          /\ pc.todo \subseteq Syncs \cup Intervals
    /\ pc.pending \subseteq {e \in Events : SyncOf[e] = pc.cur}

(* The play button of an interval gives a position inside it.              *)
FromInv == \A r \in to_start : r.from <= Nominal[r.interval]

(* The flags of a sync, the advance of an interval, and dates that do not  *)
(* go past the end.                                                        *)
Flags == [evaluating : BOOLEAN, observing : BOOLEAN,
          triggering : BOOLEAN, dated : BOOLEAN]
Advance == [date : Nat, offset : Nat, running : BOOLEAN]
Dated(f) ==
    /\ f \in [Intervals -> Advance]
    /\ \A i \in Intervals : Max[i] < Infinite => f[i].date <= Max[i]

BaseInv == TypeOK /\ PcInv /\ FromInv

-----------------------------------------------------------------------------

(* The flags that the steps give to a sync.                                *)
LEMMA FlagSteps ==
  /\ ResetSync \in Flags
  /\ \A n \in Syncs : RestartedSync(n) \in Flags
  /\ \A f \in [Syncs -> Flags], n \in Syncs, b \in BOOLEAN :
        /\ [f EXCEPT ![n].observing = b] \in [Syncs -> Flags]
        /\ [f EXCEPT ![n].evaluating = b] \in [Syncs -> Flags]
        /\ [f EXCEPT ![n].triggering = TRUE, ![n].observing = b] \in [Syncs -> Flags]
        /\ [f EXCEPT ![n] = [@ EXCEPT !.triggering = TRUE, !.dated = TRUE,
                                      !.observing = FALSE]] \in [Syncs -> Flags]
<1>1. ResetSync \in Flags
  BY DEF ResetSync, Flags
<1>2. ASSUME NEW n \in Syncs PROVE RestartedSync(n) \in Flags
  BY <1>1 DEF RestartedSync, ResetSync, Flags
<1>3. ASSUME NEW f \in [Syncs -> Flags], NEW n \in Syncs, NEW b \in BOOLEAN
      PROVE  /\ [f EXCEPT ![n].observing = b] \in [Syncs -> Flags]
             /\ [f EXCEPT ![n].evaluating = b] \in [Syncs -> Flags]
             /\ [f EXCEPT ![n].triggering = TRUE, ![n].observing = b]
                   \in [Syncs -> Flags]
             /\ [f EXCEPT ![n] = [@ EXCEPT !.triggering = TRUE, !.dated = TRUE,
                                           !.observing = FALSE]] \in [Syncs -> Flags]
  BY DEF Flags
<1> QED BY <1>1, <1>2, <1>3

(* A stopped interval is at its beginning.                                 *)
LEMMA StopsDated ==
  ASSUME NEW f, NEW g, Dated(f), g = [i \in Intervals |-> g[i]],
         \A i \in Intervals : g[i] \in {f[i], StoppedInterval}
  PROVE  Dated(g)
<1>1. StoppedInterval \in Advance /\ StoppedInterval.date = 0
  BY DEF StoppedInterval, Advance
<1>2. \A i \in Intervals : g[i] \in Advance
  BY <1>1 DEF Dated
<1>3. \A i \in Intervals : Max[i] < Infinite => g[i].date <= Max[i]
  BY <1>1, GraphAssumption DEF Dated
<1> QED BY <1>2, <1>3 DEF Dated

(* The advance of an interval: its date never goes past its maximum.       *)
LEMMA AdvanceType ==
  ASSUME TypeOK, NEW i \in Intervals, NEW t \in Nat
  PROVE  /\ Overshoot(i, t) \in Nat \cup {NoOvertick}
         /\ EndDate(i) \in Int
         /\ NonNegative(itv[i].date + t * Speed[i]) \in Nat
         /\ NonNegative(EndDate(i)) \in Nat
         /\ Max[i] < Infinite =>
              IF Overshoot(i, t) = NoOvertick
              THEN NonNegative(itv[i].date + t * Speed[i]) <= Max[i]
              ELSE NonNegative(EndDate(i)) <= Max[i]
<1> DEFINE d == itv[i].date
           s == Speed[i]
           m == Max[i]
           e == end_map[i]
           E == EndDate(i)
<1>1. d \in Nat /\ s \in Int /\ m \in Nat /\ e \in Int /\ Infinite \in Nat
  BY GraphAssumption DEF Dated, Flags, Advance, TypeOK
<1>2. E \in Int /\ E <= m
  BY <1>1 DEF EndDate
<1>3. PICK p \in Int : p = t * s
  BY <1>1
<1>4. s < 0 => p <= 0
  BY <1>1, <1>3
<1>5. s > 0 /\ d + p - E > 0 => (d + p - E) \div s \in Nat
  BY <1>1, <1>2
<1>6. Overshoot(i, t) =
        IF E = Infinite \/ s < 0 \/ d + p - E <= 0 THEN NoOvertick
        ELSE IF s = 0 THEN d + p - E ELSE (d + p - E) \div s
  BY <1>3 DEF Overshoot
<1>7. Overshoot(i, t) \in Nat \cup {NoOvertick}
  BY <1>1, <1>2, <1>5, <1>6 DEF NoOvertick
<1>8. Overshoot(i, t) = NoOvertick => E = Infinite \/ s < 0 \/ d + p <= E
  BY <1>1, <1>2, <1>5, <1>6 DEF NoOvertick
<1>9. m < Infinite => d <= m
  BY DEF Dated, Flags, Advance, TypeOK
<1> HIDE DEF d, s, m, e, E
<1>10. d + p \in Int
  BY <1>1
<1> QED
  BY <1>1, <1>2, <1>3, <1>4, <1>7, <1>8, <1>9, <1>10 DEF NonNegative, d, s, m, E

(* run_interval keeps the types.                                           *)
LEMMA RunIntervalType ==
  ASSUME BaseInv, NEW i \in Intervals, NEW t \in Nat, pc.cur = None,
         pc.phase \in {"run", "propagate"}, RunInterval(i, t)
  PROVE  BaseInv'
<1> USE GraphAssumption DEF BaseInv
<1>1. EndSync(i) \in Syncs
  BY DEF EndSync
<1>a. PICK d \in Nat : /\ itv' = [itv EXCEPT ![i].date = d]
                       /\ Max[i] < Infinite => d <= Max[i]
  <2> DEFINE d == IF Overshoot(i, t) = NoOvertick
                  THEN NonNegative(itv[i].date + t * Speed[i])
                  ELSE NonNegative(EndDate(i))
  <2>1. d \in Nat /\ (Max[i] < Infinite => d <= Max[i])
    BY AdvanceType
  <2>2. itv' = [itv EXCEPT ![i].date = d]
    BY DEF RunInterval
  <2> QED BY <2>1, <2>2
<1>2. itv' \in [Intervals -> Advance]
  BY ZenonT(60), <1>a DEF Dated, Flags, Advance, TypeOK
<1>3. \A j \in Intervals : Max[j] < Infinite => itv'[j].date <= Max[j]
  BY <1>a DEF Dated, Flags, Advance, TypeOK
<1>4. overticks' \in [Syncs -> Nat \cup {NoOvertick}]
  BY AdvanceType, <1>1 DEF RunInterval, TypeOK
<1>5. event_status' \in [Events -> Statuses]
  BY DEF RunInterval, TypeOK, Statuses
<1>6. end_nodes' \subseteq Syncs
  BY <1>1 DEF RunInterval, TypeOK
<1>7. pc' = Visited(i)
  BY DEF RunInterval
<1>8. PcInv' /\ FromInv'
  BY <1>7 DEF Visited, Loop, PcInv, RunInterval, commands, FromInv, TypeOK
<1>9. TypeOK'
  BY <1>2, <1>3, <1>4, <1>5, <1>6, <1>7
     DEF Dated, Flags, Advance, TypeOK, PcTypes, RunInterval, Visited, Loop, commands, In, None, Phases
<1> QED BY <1>8, <1>9

(* The decision about a sync keeps the types of the loop.                  *)
LEMMA DecisionType ==
  ASSUME BaseInv, NEW n \in Syncs, pc.cur = n,
         \/ Return
         \/ \E max \in BOOLEAN : Execute(max),
         UNCHANGED <<to_start, to_stop>>
  PROVE  PcInv' /\ FromInv' /\ PcTypes'
<1> USE ScenarioAssumption
<1>1. /\ pc.cur # None /\ pc.todo \subseteq Syncs \cup Intervals
      /\ pc.phase \in {"waiting", "musical", "sync"}
      /\ pc.decided \in BOOLEAN /\ pc.max \in BOOLEAN /\ pc.pending \subseteq Events
      /\ pc = [phase |-> pc.phase, todo |-> pc.todo, cur |-> pc.cur,
               decided |-> pc.decided, pending |-> pc.pending, max |-> pc.max]
  BY DEF BaseInv, TypeOK, PcTypes, PcInv
<1>2. FromInv'
  BY DEF BaseInv, FromInv
<1>3. CASE Return
  BY <1>1, <1>2, <1>3 DEF PcTypes, PcInv, Return, Loop, In, Phases
<1>4. ASSUME NEW max \in BOOLEAN, Execute(max) PROVE PcInv' /\ PcTypes'
  <2>1. pc' = [phase |-> pc.phase, todo |-> pc.todo, cur |-> pc.cur,
               decided |-> TRUE, pending |-> pc.pending, max |-> max]
    BY <1>1, <1>4 DEF Execute
  <2>2. PcInv'
    BY <1>1, <2>1 DEF PcInv, BaseInv
  <2> QED BY <1>1, <2>1, <2>2 DEF PcTypes, In, Phases
<1> QED BY <1>2, <1>3, <1>4

(* The evaluation of a sync keeps the types.                               *)
LEMMA CheckReadyType ==
  ASSUME BaseInv, NEW n \in Syncs, NEW todo \in SUBSET (Syncs \cup Intervals),
         pc.phase \in {"waiting", "musical", "sync"},
         CheckReady(n, todo), end_nodes' \subseteq Syncs
  PROVE  BaseInv'
<1> USE GraphAssumption DEF BaseInv
<1>1. event_status' \in [Events -> Statuses]
  BY DEF Dated, Flags, Advance, TypeOK, CheckReady, Statuses
<1>2. /\ IsReady(n) \in BOOLEAN /\ MaxReached(n) \in BOOLEAN
      /\ KeepsRequest(n) \in BOOLEAN
  BY DEF IsReady, MaxReached, KeepsRequest
<1>3. sync' \in [Syncs -> Flags]
  BY ZenonT(60), <1>2 DEF Dated, Flags, Advance, TypeOK, CheckReady
<1>4. request' \in [Syncs -> BOOLEAN]
  BY <1>2 DEF Dated, Flags, Advance, TypeOK, CheckReady
<1>5. PcInv' /\ FromInv' /\ PcTypes'
  <2>1. FromInv'
    BY DEF FromInv, CheckReady, commands
  <2>2. \/ pc' = [phase |-> pc.phase, todo |-> todo, cur |-> n, decided |-> FALSE,
                  pending |-> PendingEvents(n), max |-> MaxReached(n)]
        \/ pc' = Loop(pc.phase, todo)
    BY DEF CheckReady
  <2>3. PendingEvents(n) \subseteq {e \in Events : SyncOf[e] = n}
    BY DEF PendingEvents, EventsOf
  <2>4. PcInv'
    BY <2>2, <2>3 DEF PcInv, Loop
  <2> QED
    <3>1. /\ pc'.phase = pc.phase /\ pc'.todo = todo /\ pc'.cur \in Syncs \cup {None}
          /\ pc'.decided = FALSE /\ pc'.max \in BOOLEAN /\ pc'.pending \subseteq Events
      <4>1. CASE pc' = Loop(pc.phase, todo)
        BY <4>1 DEF Loop
      <4>2. CASE pc' = [phase |-> pc.phase, todo |-> todo, cur |-> n,
                        decided |-> FALSE, pending |-> PendingEvents(n),
                        max |-> MaxReached(n)]
        BY <1>2, <2>3, <4>2
      <4> QED BY <2>2, <4>1, <4>2
    <3>2. PcTypes'
      BY <3>1 DEF PcTypes, In, Phases
    <3> QED BY <2>1, <2>4, <3>2
<1> QED BY <1>1, <1>3, <1>4, <1>5 DEF Dated, Flags, Advance, TypeOK, CheckReady, commands

(* Every step keeps the types.                                             *)
LEMMA BaseInductive == BaseInv /\ [Next]_vars => BaseInv'
<1> SUFFICES ASSUME BaseInv, [Next]_vars PROVE BaseInv'
  OBVIOUS
<1> USE GraphAssumption, ScenarioAssumption
    DEF BaseInv, TypeOK, PcTypes, PcInv, FromInv, In, Loop, Visited, commands, Dated,
        Flags, Advance
<1>1. ASSUME NEW n \in Clickable, StartTriggerRequest(n) PROVE BaseInv'
  BY <1>1 DEF StartTriggerRequest
<1>2. CASE Start
  BY <1>2 DEF Start, ResetSync, Statuses, Phases, None
<1>3. CASE Stop
  BY <1>3 DEF Stop, ResetSync, StoppedInterval, Statuses, Phases, NoOvertick, None
<1>4. ASSUME NEW i \in Playable, NEW q \in BOOLEAN, NEW f \in {0, Nominal[i]},
             RequestStartInterval(i, q, f)
      PROVE  BaseInv'
  BY <1>4 DEF RequestStartInterval
<1>5. ASSUME NEW i \in Playable, NEW q \in BOOLEAN, RequestStopInterval(i, q)
      PROVE  BaseInv'
  BY <1>5 DEF RequestStopInterval
<1>6. ASSUME NEW l \in Ticks, NEW q \in {NoDate} \cup Quanta, BeginTick(l, q)
      PROVE  BaseInv'
  BY <1>6 DEF BeginTick, Phases, NoOvertick, None, NoDate
<1>7. ASSUME NEW n \in Syncs, VisitRoot(n) PROVE BaseInv'
  <2>1. PcInv' /\ FromInv'
    BY <1>7 DEF VisitRoot, None
  <2>2. sync' \in [Syncs -> Flags]
    <3>1. RestartedSync(n) \in Flags /\ ResetSync \in Flags
      BY FlagSteps
    <3>3. CASE sync' = [sync EXCEPT ![n].observing = @ \/ Trigger[n] = "expr"]
      <4>1. PICK b \in BOOLEAN : sync' = [sync EXCEPT ![n].observing = b]
        BY <3>3
      <4> QED BY ZenonT(60), <4>1, FlagSteps
    <3>4. CASE sync' = [m \in Syncs |->
                    IF m = n THEN RestartedSync(n)
                    ELSE IF m \in Resetting({n}).syncs THEN ResetSync ELSE sync[m]]
      BY <3>1, <3>4
    <3> QED BY <1>7, <3>3, <3>4 DEF VisitRoot
  <2>3. Dated(itv')
    <3>1. \/ itv' = itv
          \/ itv' = [i \in Intervals |->
                IF i \in Resetting({n}).intervals THEN StoppedInterval ELSE itv[i]]
      BY <1>7 DEF VisitRoot
    <3>2. /\ itv' = [i \in Intervals |-> itv'[i]]
          /\ \A i \in Intervals : itv'[i] \in {itv[i], StoppedInterval}
      BY <3>1
    <3> QED BY <3>2, StopsDated
  <2>4. /\ event_status' \in [Events -> Statuses] /\ end_map' \in [Intervals -> Int]
        /\ running' \subseteq Intervals /\ waiting' \subseteq Syncs
    BY <1>7 DEF VisitRoot, Statuses
  <2>5. pc' = Loop("roots", pc.todo \ {n}) /\ pc.todo \subseteq Syncs \cup Intervals
    BY <1>7 DEF VisitRoot, None
  <2> QED
    BY <1>7, <2>1, <2>2, <2>3, <2>4, <2>5 DEF VisitRoot, Phases, None
<1>8. CASE RootsVisited \/ WaitingVisited \/ ToStartVisited \/ ToStopVisited
           \/ MusicalVisited
  <2>1. CASE RootsVisited
    BY <2>1 DEF RootsVisited, scenario_vars, Phases, None
  <2>2. CASE WaitingVisited
    BY <2>2 DEF WaitingVisited, scenario_vars, Phases, None
  <2>3. CASE ToStartVisited
    BY <2>3 DEF ToStartVisited, scenario_vars, Phases, None
  <2>4. CASE ToStopVisited
    BY <2>4 DEF ToStopVisited, scenario_vars, Phases, None
  <2>5. CASE MusicalVisited
    BY <2>5 DEF MusicalVisited, scenario_vars, Phases, None
  <2> QED BY <1>8, <2>1, <2>2, <2>3, <2>4, <2>5
<1>9. ASSUME NEW n \in Syncs, VisitSync(n) PROVE BaseInv'
  BY <1>9, CheckReadyType DEF VisitSync, None
<1>10. ASSUME NEW i \in Intervals, VisitMusical(i) PROVE BaseInv'
  <2>1. EndSync(i) \in Syncs
    BY DEF EndSync
  <2>2. CASE CheckReady(EndSync(i), pc.todo \ {i})
             /\ end_nodes' = end_nodes \cup {EndSync(i)}
    BY ZenonT(60), <1>10, <2>1, <2>2, CheckReadyType DEF VisitMusical, None
  <2>3. CASE pc' = Visited(i) /\ UNCHANGED scenario_vars
    BY <1>10, <2>3 DEF VisitMusical, scenario_vars, Phases, None
  <2> QED BY <1>10, <2>2, <2>3 DEF VisitMusical
<1>11. ASSUME NEW n \in Syncs, TriggerAtMax(n) PROVE BaseInv'
  <2>1. UNCHANGED scenario_vars /\ (Return \/ Execute(pc.max)) /\ pc.cur = n
    BY <1>11 DEF TriggerAtMax, Deciding
  <2> QED BY <2>1, DecisionType DEF scenario_vars
<1>12. ASSUME NEW n \in Syncs, NotTriggered(n) PROVE BaseInv'
  <2>1. pc.cur = n
    BY <1>12 DEF NotTriggered, Deciding
  <2>2. sync' \in [Syncs -> Flags]
    <3>1. PICK b \in BOOLEAN : sync' = [sync EXCEPT ![n].observing = b]
      BY <1>12 DEF NotTriggered
    <3> QED BY ZenonT(60), <3>1, FlagSteps
  <2> QED BY <1>12, <2>1, <2>2, DecisionType DEF NotTriggered
<1>13. ASSUME NEW n \in Syncs, Triggered(n) PROVE BaseInv'
  <2>1. pc.cur = n
    BY <1>13 DEF Triggered, Deciding
  <2>2. sync' \in [Syncs -> Flags]
    <3>1. CASE sync' = CommittedSync(n)
      <4>1. PICK b \in BOOLEAN :
              sync' = [sync EXCEPT ![n].triggering = TRUE, ![n].observing = b]
        BY <3>1 DEF CommittedSync
      <4> QED BY <4>1, FlagSteps
    <3>2. CASE Quantize(n)
      BY <3>2, FlagSteps DEF Quantize
    <3>3. CASE UNCHANGED sync
      BY <3>3
    <3> QED BY <1>13, <3>1, <3>2, <3>3 DEF Triggered
  <2>3. /\ request' \in [Syncs -> BOOLEAN] /\ retry' \subseteq Syncs
        /\ Return \/ Execute(TRUE) \/ Execute(FALSE)
    BY <1>13 DEF Triggered, Quantize
  <2>4. end_map' \in [Intervals -> Int]
    <3>1. CASE Quantize(n)
      <4>1. tick.quantum \in Nat
        BY <3>1 DEF Quantize
      <4> QED BY <3>1, <4>1 DEF Quantize
    <3>2. CASE end_map' = [i \in Intervals |->
                      IF i \in Incoming(n) THEN Infinite ELSE end_map[i]]
      BY <3>2
    <3>3. CASE UNCHANGED end_map
      BY <3>3
    <3> QED BY <1>13, <3>1, <3>2, <3>3 DEF Triggered
  <2> QED BY <1>13, <2>1, <2>2, <2>3, <2>4, DecisionType DEF Triggered
<1>14. ASSUME NEW n \in Syncs, NEW happened \in SUBSET pc.pending,
              TriggerSync(n, happened)
       PROVE  BaseInv'
  BY <1>14 DEF TriggerSync, Return, Phases, None, Carried, StartedInterval,
     StoppedInterval, ExecutedSync, ResetSync, Statuses, StoppedBy, NextOf
<1>15. ASSUME NEW r \in to_start, VisitToStart(r) PROVE BaseInv'
  <2>1. r.interval \in Intervals /\ r.from \in Nat /\ r.from <= Nominal[r.interval]
    OBVIOUS
  <2>2. /\ Played(r) \in Advance
        /\ Played(r).date <= Max[r.interval]
    <3> DEFINE i == r.interval
               from == IF r.from >= Nominal[i] /\ Nominal[i] > 0
                       THEN Nominal[i] - 1 ELSE r.from
    <3>1. /\ from \in Nat /\ from <= Nominal[i] /\ Nominal[i] \in Nat
          /\ Max[i] \in Nat /\ Nominal[i] <= Max[i]
      BY <2>1
    <3> HIDE DEF from
    <3>2. \A o \in Nat :
            /\ StartedInterval(i, o) \in Advance
            /\ StartedInterval(i, o).date <= Max[i]
      BY <3>1 DEF StartedInterval, StoppedInterval
    <3>3. Played(r) = IF from > 0
            THEN [StartedInterval(i, from) EXCEPT !.date = from, !.offset = from]
            ELSE StartedInterval(i, 0)
      BY DEF Played, from
    <3>4. CASE from > 0
      <4>1. /\ Played(r) \in Advance
            /\ Played(r).date = from
        BY ZenonT(60), <3>1, <3>2, <3>3, <3>4
      <4> QED BY <3>1, <4>1
    <3>5. CASE ~(from > 0)
      <4>1. Played(r) = StartedInterval(i, 0)
        BY <3>3, <3>5
      <4>2. /\ StartedInterval(i, 0) \in Advance
            /\ StartedInterval(i, 0).date <= Max[i]
        BY <3>2
      <4> QED BY <4>1, <4>2
    <3> QED BY <3>4, <3>5
  <2>3. Dated(itv')
    <3>1. \/ itv' = itv
          \/ itv' = [j \in Intervals |->
                      IF j = r.interval \/ j \in running THEN StoppedInterval
                      ELSE itv[j]]
          \/ itv' = [itv EXCEPT ![r.interval] = Played(r)]
      BY <1>15 DEF VisitToStart
    <3>2. CASE itv' = [itv EXCEPT ![r.interval] = Played(r)]
      BY <2>1, <2>2, <3>2
    <3>3. CASE itv' # [itv EXCEPT ![r.interval] = Played(r)]
      <4>1. /\ itv' = [i \in Intervals |-> itv'[i]]
            /\ \A i \in Intervals : itv'[i] \in {itv[i], StoppedInterval}
        BY <3>1, <3>3
      <4> QED BY <4>1, StopsDated
    <3> QED BY <3>2, <3>3
  <2>4. /\ event_status' \in [Events -> Statuses]
        /\ running' \subseteq Intervals /\ to_start' \subseteq to_start
    <3>1. \/ event_status' = event_status
          \/ event_status' = [event_status EXCEPT ![StartEv[r.interval]] = "HAPPENED",
                                                  ![EndEv[r.interval]] = "NONE"]
      BY <1>15 DEF VisitToStart
    <3>2. /\ \/ running' = running \/ running' = {}
             \/ running' = running \cup {r.interval}
          /\ to_start' \subseteq to_start
      BY <1>15 DEF VisitToStart
    <3> QED BY <2>1, <3>1, <3>2 DEF Statuses
  <2>5. /\ \E T \in SUBSET to_start' : pc' = Loop("start", T)
        /\ UNCHANGED to_stop
    BY <1>15 DEF VisitToStart, None
  <2>6. PcInv' /\ FromInv' /\ PcTypes'
    BY <2>4, <2>5 DEF Phases, None
  <2> QED
    BY <1>15, <2>3, <2>4, <2>6 DEF VisitToStart
<1>16. ASSUME NEW r \in to_stop, VisitToStop(r) PROVE BaseInv'
  <2>1. Dated(itv')
    <3>1. itv' = itv \/ itv' = [itv EXCEPT ![r.interval] = StoppedInterval]
      <4>1. r.interval \in Intervals
        OBVIOUS
      <4>2. itv' = itv \/ itv' = [itv EXCEPT ![r.interval] =
                IF itv[r.interval].running \/ r.interval \in running
                THEN StoppedInterval ELSE itv[r.interval]]
        BY <1>16 DEF VisitToStop
      <4> QED BY <4>1, <4>2
    <3>2. /\ itv' = [i \in Intervals |-> itv'[i]]
          /\ \A i \in Intervals : itv'[i] \in {itv[i], StoppedInterval}
      BY <3>1
    <3> QED BY <3>2, StopsDated
  <2>2. running' \subseteq Intervals /\ to_stop' \subseteq to_stop
    BY <1>16 DEF VisitToStop
  <2>3. /\ \E T \in SUBSET to_stop' : pc' = Loop("stop", T)
        /\ UNCHANGED to_start
    BY <1>16 DEF VisitToStop, None
  <2>4. PcInv' /\ FromInv' /\ PcTypes'
    BY <2>2, <2>3 DEF Phases, None
  <2> QED
    BY <1>16, <2>1, <2>2, <2>4 DEF VisitToStop
<1>17. ASSUME NEW i \in Intervals, VisitRunning(i) PROVE BaseInv'
  BY <1>17, RunIntervalType DEF VisitRunning
<1>18. ASSUME NEW i \in Intervals, VisitNext(i) PROVE BaseInv'
  <2>1. StartSync(i) \in Syncs
    BY DEF StartSync
  <2>2. CASE overticks[StartSync(i)] # NoOvertick
    BY <1>18, <2>1, <2>2, RunIntervalType DEF VisitNext
  <2>3. CASE overticks[StartSync(i)] = NoOvertick
    <3>1. /\ UNCHANGED scenario_vars /\ pc.todo \subseteq Syncs \cup Intervals
          /\ pc' = Loop("propagate", pc.todo \ {i})
      BY <1>18, <2>3 DEF VisitNext, None
    <3> QED BY <3>1 DEF scenario_vars, Phases, None
  <2> QED BY <2>2, <2>3
<1>19. CASE RunVisited
  BY <1>19 DEF RunVisited, scenario_vars, NextOf, Phases, None
<1>20. CASE NextVisited
  BY <1>20 DEF NextVisited, Phases, None
<1>21. CASE SyncsVisited
  BY <1>21 DEF SyncsVisited, NextOf, Phases, None
<1>22. CASE UNCHANGED vars
  BY <1>22 DEF vars, scenario_vars
<1> QED
  BY SMTT(60), <1>1, <1>2, <1>3, <1>4, <1>5, <1>6, <1>7, <1>8, <1>9, <1>10, <1>11, <1>12,
     <1>13, <1>14, <1>15, <1>16, <1>17, <1>18, <1>19, <1>20, <1>21, <1>22
     DEF Next, Command, TickStep

(* A scenario is made without anything that plays.                         *)
LEMMA BaseInit == Init => BaseInv
<1> SUFFICES ASSUME Init PROVE BaseInv
  OBVIOUS
<1> USE GraphAssumption, ScenarioAssumption DEF Init
<1>1. sync \in [Syncs -> Flags]
  BY FlagSteps
<1>2. Dated(itv)
  BY DEF Dated, Advance, StoppedInterval
<1>3. PcInv /\ FromInv /\ PcTypes
  BY DEF PcInv, FromInv, PcTypes, Loop, Phases, None, In
<1>4. /\ event_status \in [Events -> Statuses]
      /\ overticks \in [Syncs -> Nat \cup {NoOvertick}]
      /\ tick \in [length : Nat, quantum : Nat \cup {NoDate}]
  BY DEF Statuses
<1> QED
  BY <1>1, <1>2, <1>3, <1>4 DEF BaseInv, TypeOK, Dated, Advance, Flags

(* The invariant behind all the others.                                    *)
LEMMA BaseHolds == Spec => []BaseInv
  BY BaseInit, BaseInductive, PTL DEF Spec

(* In every score, whatever the ticks and the commands, no process is ever *)
(* given a position past the end of its interval (run_interval).           *)
THEOREM TypeCorrect == Spec => []TypeOK
<1>1. BaseInv => TypeOK
  BY DEF BaseInv
<1> QED BY <1>1, BaseHolds, PTL

-----------------------------------------------------------------------------
(* Triggers.                                                               *)

(* A click is forgotten only for a reason, in every score: the sync is     *)
(* committed, executes, or is no longer evaluated (trigger_request).       *)
THEOREM RequestConsumedHolds == Spec => RequestConsumed
<1> DEFINE Lost(n) == request[n] /\ ~request'[n] /\ sync[n].evaluating
           Reason(n) == Executes(n) \/ Committed(n)' \/ ~sync'[n].evaluating
<1>1. ASSUME BaseInv, [Next]_vars, NEW n \in Syncs, Lost(n) PROVE Reason(n)
  <2> USE GraphAssumption DEF BaseInv, TypeOK
  <2>1. ASSUME NEW m \in Syncs, NEW todo, CheckReady(m, todo) PROVE Reason(n)
    <3>1. /\ request' = [request EXCEPT ![m] = @ /\ KeepsRequest(m)]
          /\ sync' = [sync EXCEPT ![m].evaluating = IsReady(m)]
      BY <2>1 DEF CheckReady
    <3>2. m = n /\ ~KeepsRequest(m)
      BY <1>1, <3>1
    <3> QED BY <1>1, <3>1, <3>2 DEF KeepsRequest
  <2>2. ASSUME NEW m \in Syncs, Triggered(m) PROVE Reason(n)
    <3>1. request' = [request EXCEPT ![m] = @ /\ Committed(m)]
      BY <2>2 DEF Triggered
    <3>2. m = n /\ ~Committed(m)
      BY <1>1, <3>1
    <3>3. sync' = CommittedSync(n) \/ Quantize(n)
      BY <2>2, <3>2 DEF Triggered, Committed
    <3>4. sync'[n].triggering
      <4>1. CASE sync' = CommittedSync(n)
        <5>1. PICK b : sync' =
                [sync EXCEPT ![n].triggering = TRUE, ![n].observing = b]
          BY <4>1 DEF CommittedSync
        <5> QED BY <1>1, <5>1
      <4>2. CASE Quantize(n)
        BY <1>1, <4>2 DEF Quantize
      <4> QED BY <3>3, <4>1, <4>2
    <3> QED BY <3>4 DEF Committed
  <2>3. ASSUME NEW m \in Syncs, NEW happened, TriggerSync(m, happened)
        PROVE  Reason(n)
    BY <1>1, <2>3 DEF TriggerSync, Executes
  <2>4. CASE request'[n] = request[n] \/ request'[n]
    BY <1>1, <2>4
  <2>5. CASE \/ \E m \in Syncs : VisitRoot(m) \/ TriggerAtMax(m) \/ NotTriggered(m)
             \/ \E i \in Intervals : VisitRunning(i) \/ VisitNext(i)
             \/ \E r \in to_start : VisitToStart(r)
             \/ \E r \in to_stop : VisitToStop(r)
    BY <2>4, <2>5 DEF VisitRoot, TriggerAtMax, NotTriggered, VisitRunning, VisitNext,
       RunInterval, VisitToStart, VisitToStop, scenario_vars
  <2>6. CASE \/ RootsVisited \/ WaitingVisited \/ ToStartVisited \/ ToStopVisited
             \/ MusicalVisited \/ RunVisited \/ NextVisited \/ SyncsVisited
    BY <2>4, <2>6 DEF RootsVisited, WaitingVisited, ToStartVisited, ToStopVisited,
       MusicalVisited, RunVisited, NextVisited, SyncsVisited, scenario_vars
  <2>7. CASE Command
    BY <2>4, <2>7 DEF Command, Start, Stop, BeginTick, RequestStartInterval,
       RequestStopInterval
  <2>8. CASE UNCHANGED vars
    BY <2>4, <2>8 DEF vars, scenario_vars
  <2>9. CASE \E m \in Clickable : StartTriggerRequest(m)
    <3>1. PICK m \in Syncs : request' = [request EXCEPT ![m] = TRUE]
      BY <2>9, ScenarioAssumption DEF StartTriggerRequest
    <3> QED BY <1>1, <2>4, <3>1
  <2>10. CASE \E m \in Syncs : VisitSync(m)
    BY <2>1, <2>10 DEF VisitSync
  <2>11. CASE \E i \in Intervals : VisitMusical(i)
    <3>1. PICK i \in Intervals : VisitMusical(i)
      BY <2>11
    <3>2. EndSync(i) \in Syncs
      BY DEF EndSync
    <3> QED BY <2>1, <2>4, <3>1, <3>2 DEF VisitMusical, scenario_vars
  <2> QED
    BY <1>1, <2>2, <2>3, <2>5, <2>6, <2>7, <2>8, <2>9, <2>10, <2>11
       DEF Next, TickStep
<1>2. BaseInv /\ [Next]_vars =>
        [\A n \in Syncs : Lost(n) => Reason(n)]_vars
  BY <1>1
<1> QED BY <1>2, BaseHolds, PTL DEF Spec, RequestConsumed

-----------------------------------------------------------------------------
(* The intervals that run.                                                 *)

(* What a step may do to the intervals and to the commands: most of them   *)
(* only change dates, or nothing.                                          *)
SameRunning ==
    /\ UNCHANGED <<running, to_start, to_stop>>
    /\ \A i \in Intervals : /\ itv'[i].running = itv[i].running
                            /\ itv'[i].offset = itv[i].offset
    /\ \A e \in Events : event_status'[e] = "HAPPENED" => event_status[e] = "HAPPENED"

(* The other steps, listed.                                                *)
LEMMA RunningCases ==
  ASSUME BaseInv, [Next]_vars
  PROVE  /\ UNCHANGED exclusive
         /\ \/ SameRunning
            \/ Stop
            \/ \E i \in Playable, quantized \in BOOLEAN :
                  \/ \E from \in {0, Nominal[i]} :
                        RequestStartInterval(i, quantized, from)
                  \/ RequestStopInterval(i, quantized)
            \/ \E length \in Ticks, quantum \in {NoDate} \cup Quanta :
                  BeginTick(length, quantum)
            \/ \E n \in Syncs : VisitRoot(n)
            \/ \E n \in Syncs, happened \in SUBSET pc.pending :
                  TriggerSync(n, happened)
            \/ \E r \in to_start : VisitToStart(r)
            \/ \E r \in to_stop : VisitToStop(r)
<1> USE DEF commands, scenario_vars
<1>1. ASSUME NEW i \in Intervals, NEW t, RunInterval(i, t)
      PROVE  SameRunning /\ UNCHANGED exclusive
  <2>1. PICK d : itv' = [itv EXCEPT ![i].date = d]
    BY <1>1 DEF RunInterval
  <2>2. \A j \in Intervals : /\ itv'[j].running = itv[j].running
                            /\ itv'[j].offset = itv[j].offset
    BY <2>1 DEF BaseInv, TypeOK
  <2> QED BY <1>1, <2>2 DEF RunInterval, SameRunning, BaseInv, TypeOK
<1>2. ASSUME NEW n \in Syncs, NEW todo, CheckReady(n, todo)
      PROVE  SameRunning /\ UNCHANGED exclusive
  BY <1>2 DEF CheckReady, SameRunning, BaseInv, TypeOK
<1>3. ASSUME NEW i \in Intervals, VisitMusical(i)
      PROVE  SameRunning /\ UNCHANGED exclusive
  <2>1. EndSync(i) \in Syncs
    BY GraphAssumption DEF EndSync
  <2> QED BY <1>2, <1>3, <2>1 DEF VisitMusical, SameRunning
<1>4. CASE \/ \E n \in Syncs : \/ VisitSync(n) \/ TriggerAtMax(n) \/ NotTriggered(n)
                              \/ Triggered(n)
           \/ \E i \in Intervals : VisitMusical(i) \/ VisitRunning(i) \/ VisitNext(i)
  <2>1. ASSUME NEW n \in Syncs, VisitSync(n)
        PROVE  SameRunning /\ UNCHANGED exclusive
    BY <1>2, <2>1 DEF VisitSync
  <2>2. ASSUME NEW n \in Syncs, TriggerAtMax(n) \/ NotTriggered(n) \/ Triggered(n)
        PROVE  SameRunning /\ UNCHANGED exclusive
    BY <2>2 DEF TriggerAtMax, NotTriggered, Triggered, SameRunning
  <2>3. ASSUME NEW i \in Intervals, VisitRunning(i) \/ VisitNext(i)
        PROVE  SameRunning /\ UNCHANGED exclusive
    BY <1>1, <2>3 DEF VisitRunning, VisitNext, SameRunning
  <2> QED BY <1>3, <1>4, <2>1, <2>2, <2>3
<1>5. CASE \/ RootsVisited \/ WaitingVisited \/ ToStartVisited \/ ToStopVisited
           \/ MusicalVisited \/ RunVisited \/ NextVisited \/ SyncsVisited
  BY <1>5 DEF RootsVisited, WaitingVisited, ToStartVisited, ToStopVisited,
     MusicalVisited, RunVisited, NextVisited, SyncsVisited, SameRunning
<1>6. CASE \/ \E n \in Clickable : StartTriggerRequest(n)
           \/ UNCHANGED vars \/ Start
  BY <1>6 DEF StartTriggerRequest, vars, Start, SameRunning
<1>7. CASE \/ Stop
           \/ \E i \in Playable, quantized \in BOOLEAN :
                 \/ \E from \in {0, Nominal[i]} :
                       RequestStartInterval(i, quantized, from)
                 \/ RequestStopInterval(i, quantized)
           \/ \E length \in Ticks, quantum \in {NoDate} \cup Quanta :
                 BeginTick(length, quantum)
  BY <1>7 DEF Stop, RequestStartInterval, RequestStopInterval, BeginTick
<1>8. CASE \E n \in Syncs : VisitRoot(n)
  BY <1>8 DEF VisitRoot
<1>9. CASE \E n \in Syncs, happened \in SUBSET pc.pending : TriggerSync(n, happened)
  BY <1>9 DEF TriggerSync
<1>10. CASE \E r \in to_start : VisitToStart(r)
  BY <1>10 DEF VisitToStart
<1>11. CASE \E r \in to_stop : VisitToStop(r)
  BY <1>11 DEF VisitToStop
<1> QED
  BY <1>4, <1>5, <1>6, <1>7, <1>8, <1>9, <1>10, <1>11 DEF Next, TickStep, Command

(* Without buttons, or in an exclusive scenario, an interval is never      *)
(* started after its beginning, and those that the ticks advance play.     *)
RunningInv ==
    /\ Playable = {} => /\ to_start = {} /\ to_stop = {}
                        /\ \A e \in Events : event_status[e] # "HAPPENED"
                        /\ \A i \in Intervals : itv[i].running => i \in running
    /\ Playable = {} \/ exclusive => \A i \in Intervals :
          itv[i].offset = 0 /\ (i \in running => itv[i].running)

(* TriggerSync, interval by interval: it is reset, started or stopped.     *)
LEMMA TriggerEffect ==
  ASSUME BaseInv, NEW n \in Syncs, NEW happened \in SUBSET pc.pending,
         TriggerSync(n, happened)
  PROVE  \E disposed :
         LET reset == Resetting(OtherActive(n)).intervals
             started == NextOf(happened)
             stopped == StoppedBy(happened \cup disposed)
         IN  /\ running' = ((running \ stopped) \cup started) \ reset
             /\ \A i \in Intervals :
                  /\ i \in reset => itv'[i] = StoppedInterval
                  /\ i \in started \ reset =>
                        itv'[i] = StartedInterval(i, itv[i].offset)
                  /\ i \in stopped \ (started \cup reset) => itv'[i] = StoppedInterval
                  /\ i \notin started \cup stopped \cup reset => itv'[i] = itv[i]
             /\ \A e \in Events :
                  event_status'[e] = "HAPPENED" => event_status[e] = "HAPPENED"
<1> DEFINE disposed == UNION {Disposal(e) : e \in pc.pending \ happened}
<1> HIDE DEF disposed
<1>1. \A e \in Events :
        event_status'[e] = "HAPPENED" => event_status[e] = "HAPPENED"
  BY DEF TriggerSync
<1>2. running' = ((running \ StoppedBy(happened \cup disposed)) \cup NextOf(happened))
                 \ Resetting(OtherActive(n)).intervals
  BY DEF TriggerSync, disposed
<1>3. itv' = [i \in Intervals |->
                 IF i \in Resetting(OtherActive(n)).intervals THEN StoppedInterval
                 ELSE IF i \in NextOf(happened)
                 THEN StartedInterval(i, itv[i].offset)
                 ELSE IF i \in StoppedBy(happened \cup disposed) THEN StoppedInterval
                 ELSE itv[i]]
  BY DEF TriggerSync, disposed
<1> QED BY <1>1, <1>2, <1>3

(* Every step preserves it, if no interval is empty.                       *)
LEMMA RunningStep ==
  ASSUME \A i \in Intervals : Nominal[i] > 0, BaseInv, RunningInv, [Next]_vars
  PROVE  RunningInv'
<1> USE GraphAssumption, ScenarioAssumption DEF commands
<1>0. UNCHANGED exclusive
  BY RunningCases
<1>1. CASE SameRunning
  BY <1>0, <1>1 DEF SameRunning, RunningInv
<1>2. CASE Stop
  BY <1>0, <1>2 DEF Stop, RunningInv, StoppedInterval
<1>3. ASSUME NEW i \in Playable, NEW quantized, NEW from,
             \/ RequestStartInterval(i, quantized, from)
             \/ RequestStopInterval(i, quantized)
      PROVE  RunningInv'
  BY <1>0, <1>3 DEF RequestStartInterval, RequestStopInterval, RunningInv
<1>4. ASSUME NEW length, NEW quantum, BeginTick(length, quantum) PROVE RunningInv'
  BY <1>0, <1>4 DEF BeginTick, Over, RunningInv
<1>5. ASSUME NEW n \in Syncs, VisitRoot(n) PROVE RunningInv'
  <2>1. \/ UNCHANGED <<event_status, itv, running>>
        \/ /\ \A i \in Intervals :
                itv'[i] = IF i \in Resetting({n}).intervals THEN StoppedInterval
                          ELSE itv[i]
           /\ running' = running \ Resetting({n}).intervals
           /\ \A e \in Events :
                event_status'[e] = "HAPPENED" => event_status[e] = "HAPPENED"
    <3>1. CASE UNCHANGED <<event_status, itv, running>>
      BY <3>1
    <3>2. CASE ~UNCHANGED <<event_status, itv, running>>
      <4>1. /\ itv' = [i \in Intervals |->
                 IF i \in Resetting({n}).intervals THEN StoppedInterval ELSE itv[i]]
            /\ running' = running \ Resetting({n}).intervals
            /\ event_status' = [e \in Events |->
                 IF SyncOf[e] \in Resetting({n}).syncs THEN "NONE"
                 ELSE event_status[e]]
        BY <1>5, <3>2 DEF VisitRoot
      <4> QED BY <4>1
    <3> QED BY <3>1, <3>2
  <2>2. UNCHANGED <<to_start, to_stop>>
    BY <1>5 DEF VisitRoot
  <2>3. StoppedInterval.running = FALSE /\ StoppedInterval.offset = 0
    BY DEF StoppedInterval
  <2>4. CASE UNCHANGED <<event_status, itv, running>>
    BY <1>0, <2>2, <2>4 DEF RunningInv
  <2>5. CASE ~UNCHANGED <<event_status, itv, running>>
    <3>1. ASSUME NEW i \in Intervals
          PROVE  \/ itv'[i] = StoppedInterval /\ i \notin running'
                 \/ itv'[i] = itv[i] /\ (i \in running' <=> i \in running)
      BY <2>1, <2>5
    <3>2. \A e \in Events :
            event_status'[e] = "HAPPENED" => event_status[e] = "HAPPENED"
      BY <2>1, <2>5
    <3> QED BY <1>0, <2>2, <2>3, <3>1, <3>2 DEF RunningInv
  <2> QED BY <2>4, <2>5
<1>6. ASSUME NEW n \in Syncs, NEW happened \in SUBSET pc.pending,
             TriggerSync(n, happened)
      PROVE  RunningInv'
  <2>1. \A i \in Intervals : itv[i].offset = 0 =>
          /\ StartedInterval(i, itv[i].offset).running
          /\ StartedInterval(i, itv[i].offset).offset = 0
    BY DEF StartedInterval
  <2>2. UNCHANGED <<to_start, to_stop>>
    BY <1>6 DEF TriggerSync
  <2>3. StoppedInterval.running = FALSE /\ StoppedInterval.offset = 0
    BY DEF StoppedInterval
  <2>4. PICK disposed :
         LET reset == Resetting(OtherActive(n)).intervals
             started == NextOf(happened)
             stopped == StoppedBy(happened \cup disposed)
         IN  /\ running' = ((running \ stopped) \cup started) \ reset
             /\ \A i \in Intervals :
                  /\ i \in reset => itv'[i] = StoppedInterval
                  /\ i \in started \ reset =>
                        itv'[i] = StartedInterval(i, itv[i].offset)
                  /\ i \in stopped \ (started \cup reset) => itv'[i] = StoppedInterval
                  /\ i \notin started \cup stopped \cup reset => itv'[i] = itv[i]
             /\ \A e \in Events :
                  event_status'[e] = "HAPPENED" => event_status[e] = "HAPPENED"
    BY <1>6, TriggerEffect
  <2>5. ASSUME NEW i \in Intervals
        PROVE  \/ itv'[i] = StoppedInterval /\ i \notin running'
               \/ itv'[i] = StartedInterval(i, itv[i].offset) /\ i \in running'
               \/ itv'[i] = itv[i] /\ (i \in running' <=> i \in running)
    BY <2>4
  <2>6. \A e \in Events :
          event_status'[e] = "HAPPENED" => event_status[e] = "HAPPENED"
    BY <2>4
  <2> QED BY <1>0, <2>1, <2>2, <2>3, <2>5, <2>6 DEF RunningInv
<1>7. ASSUME NEW r \in to_start, VisitToStart(r) PROVE RunningInv'
  <2>1. CASE UNCHANGED <<event_status, itv, running, to_start>>
    BY <1>0, <1>7, <2>1 DEF VisitToStart, RunningInv
  <2>2. CASE ~exclusive
    BY <1>0, <2>2 DEF RunningInv
  <2>3. CASE exclusive /\ ~UNCHANGED <<event_status, itv, running, to_start>>
    <3>1. /\ running' = {}
          /\ itv' = [j \in Intervals |->
                      IF j = r.interval \/ j \in running THEN StoppedInterval
                      ELSE itv[j]]
      BY <1>7, <2>3 DEF VisitToStart
    <3> QED BY <1>0, <3>1 DEF RunningInv, StoppedInterval
  <2> QED BY <2>1, <2>2, <2>3
<1>8. ASSUME NEW r \in to_stop, VisitToStop(r) PROVE RunningInv'
  <2>1. r.interval \in Intervals
    BY DEF BaseInv, TypeOK
  <2>2. /\ running' = running \ {r.interval} \/ UNCHANGED running
        /\ running' = running => UNCHANGED itv \/ r.interval \notin running
        /\ \A j \in Intervals \ {r.interval} : itv'[j] = itv[j]
        /\ itv'[r.interval] \in {itv[r.interval], StoppedInterval}
        /\ UNCHANGED <<event_status, to_start>>
    BY <1>8, <2>1 DEF VisitToStop, BaseInv, TypeOK
  <2>3. StoppedInterval.running = FALSE /\ StoppedInterval.offset = 0
    BY DEF StoppedInterval
  <2> QED BY <1>0, <2>1, <2>2, <2>3 DEF RunningInv
<1> QED
  BY <1>1, <1>2, <1>3, <1>4, <1>5, <1>6, <1>7, <1>8, RunningCases

(* In every score without buttons and without empty intervals, what the    *)
(* ticks advance is what plays (m_runningIntervals).                       *)
THEOREM NoZombieHolds ==
  ASSUME Playable = {}, \A i \in Intervals : Nominal[i] > 0
  PROVE  Spec => []NoZombie
<1>1. Init => RunningInv
  BY DEF Init, RunningInv, StoppedInterval
<1>2. RunningInv => NoZombie
  BY DEF RunningInv, NoZombie
<1>3. BaseInv /\ RunningInv /\ [Next]_vars => RunningInv'
  BY RunningStep
<1> QED BY <1>1, <1>2, <1>3, BaseHolds, PTL DEF Spec

-----------------------------------------------------------------------------
(* The components of an exclusive scenario.                                *)

(* The components are the classes of an equivalence.                       *)
LEMMA Components ==
  /\ \A n \in Syncs : n \in Component[n] /\ Closed(Component[n])
  /\ \A m, n \in Syncs : m \in Component[n] => n \in Component[m]
  /\ \A l, m, n \in Syncs :
        m \in Component[n] /\ l \in Component[m] => l \in Component[n]
<1> USE GraphAssumption
<1>1. \A i \in Intervals : StartSync(i) \in Syncs /\ EndSync(i) \in Syncs
  BY DEF StartSync, EndSync
<1>2. \A m, n \in Syncs : m \in Component[n] <=>
         \A S \in SUBSET Syncs : n \in S /\ Closed(S) => m \in S
  BY DEF Component
<1>3. \A n \in Syncs : n \in Component[n] /\ Closed(Component[n])
                      /\ Component[n] \subseteq Syncs
  <2>1. ASSUME NEW n \in Syncs, NEW i \in Intervals
        PROVE  StartSync(i) \in Component[n] <=> EndSync(i) \in Component[n]
    BY <1>1, <1>2 DEF Closed
  <2> QED BY <1>2, <2>1 DEF Closed, Component
<1>4. ASSUME NEW m \in Syncs, NEW n \in Syncs, m \in Component[n]
      PROVE  n \in Component[m]
  <2>1. SUFFICES ASSUME n \notin Component[m] PROVE FALSE
    OBVIOUS
  <2>2. Closed(Syncs \ Component[m])
    BY <1>1, <1>3 DEF Closed
  <2> QED BY <1>2, <1>3, <1>4, <2>1, <2>2
<1>5. ASSUME NEW l \in Syncs, NEW m \in Syncs, NEW n \in Syncs,
             m \in Component[n], l \in Component[m]
      PROVE  l \in Component[n]
  BY <1>2, <1>3, <1>5
<1> QED BY <1>3, <1>4, <1>5

(* What runs is in one component, also inside of a tick.                   *)
OneInv == exclusive => \A i, j \in running :
             StartSync(j) \in Component[StartSync(i)]

(* Every step preserves it: the sync that executes resets the components   *)
(* where something runs.                                                   *)
LEMMA OneStep ==
  ASSUME BaseInv, RunningInv, OneInv, [Next]_vars PROVE OneInv'
<1> USE GraphAssumption, ScenarioAssumption DEF commands
<1>0. UNCHANGED exclusive
  BY RunningCases
<1>1. CASE running' \subseteq running
  BY <1>0, <1>1 DEF OneInv
<1>2. ASSUME NEW n \in Syncs, NEW happened \in SUBSET pc.pending,
             TriggerSync(n, happened), exclusive
      PROVE  OneInv'
  <2>1. PICK stopped : running' = ((running \ stopped) \cup NextOf(happened))
                                  \ Resetting(OtherActive(n)).intervals
    BY <1>2, TriggerEffect
  <2>2. \A i \in NextOf(happened) : i \in Intervals /\ StartSync(i) = n
    BY <1>2 DEF NextOf, StartSync, TriggerSync, BaseInv, PcInv
  <2>3. ASSUME NEW i \in running' PROVE StartSync(i) \in Component[n]
    <3>1. CASE i \in NextOf(happened)
      BY <2>2, <3>1, Components
    <3>2. CASE i \in running /\ StartSync(i) \notin Component[n]
      <4>1. i \in Intervals /\ StartSync(i) \in Syncs /\ itv[i].running
        BY <1>2, <3>2 DEF BaseInv, TypeOK, StartSync, RunningInv
      <4>2. StartSync(i) \in OtherActive(n)
        BY <1>2, <3>2, <4>1 DEF OtherActive, AdjacentIntervals
      <4>3. StartSync(i) \in UNION {Component[m] : m \in OtherActive(n)}
        BY <4>1, <4>2, Components
      <4>4. i \in Resetting(OtherActive(n)).intervals
        BY <4>1, <4>3 DEF Resetting, AdjacentIntervals
      <4> QED BY <2>1, <2>3, <4>4
    <3> QED BY <2>1, <2>3, <3>1, <3>2
  <2>4. \A i \in running' : StartSync(i) \in Syncs
    BY <2>1, <2>2 DEF BaseInv, TypeOK, StartSync
  <2> QED BY <2>3, <2>4, Components DEF OneInv
<1>3. ASSUME NEW r \in to_start, VisitToStart(r) PROVE OneInv'
  BY <1>0, <1>1, <1>3 DEF VisitToStart, OneInv
<1>4. CASE ~exclusive
  BY <1>0, <1>4 DEF OneInv
<1>5. CASE SameRunning
  BY <1>1, <1>5 DEF SameRunning
<1>6. CASE \/ Stop
           \/ \E i \in Playable, quantized \in BOOLEAN :
                 \/ \E from \in {0, Nominal[i]} :
                       RequestStartInterval(i, quantized, from)
                 \/ RequestStopInterval(i, quantized)
           \/ \E length \in Ticks, quantum \in {NoDate} \cup Quanta :
                 BeginTick(length, quantum)
           \/ \E n \in Syncs : VisitRoot(n)
           \/ \E r \in to_stop : VisitToStop(r)
  BY <1>1, <1>6 DEF Stop, RequestStartInterval, RequestStopInterval, BeginTick,
     VisitRoot, VisitToStop
<1> QED BY <1>2, <1>3, <1>4, <1>5, <1>6, RunningCases

(* In every exclusive scenario without empty intervals, one component      *)
(* plays at a time, also with the buttons (reset_all_components_except).   *)
THEOREM ExclusiveOneHolds ==
  ASSUME \A i \in Intervals : Nominal[i] > 0
  PROVE  Spec => []ExclusiveOne
<1>1. Init => RunningInv /\ OneInv
  BY DEF Init, RunningInv, OneInv, StoppedInterval
<1>2. OneInv => ExclusiveOne
  BY DEF OneInv, ExclusiveOne
<1>3. BaseInv /\ RunningInv /\ OneInv /\ [Next]_vars => RunningInv' /\ OneInv'
  BY RunningStep, OneStep
<1> QED BY <1>1, <1>2, <1>3, BaseHolds, PTL DEF Spec

-----------------------------------------------------------------------------
(* Scores that are played forward once.                                    *)

(* The intervals that lead to a sync lead to the same event of it.         *)
Joined == \A i, j \in Intervals :
             EndSync(i) = EndSync(j) => EndEv[i] = EndEv[j]

(* No buttons, no loops, no exclusive scenario; every interval has a       *)
(* minimal duration, and none leads to a start sync.  A condition may not  *)
(* be on the way to a sync that another event of it can bring to execute.  *)
Straight ==
    /\ Playable = {} /\ ExclusiveModes = {FALSE} /\ Graphal = {}
    /\ \A i \in Intervals : Min[i] > 0 /\ EndSync(i) \notin StartSyncs
    /\ Conditional = {} \/ Joined

Done(e) == event_status[e] \in Finished
Reached(n) == Incoming(n) \cap running # {}

(* An interval plays between the execution of its start and that of its    *)
(* end, and is at its beginning the rest of the time; its end is touched   *)
(* only after its start is executed or disposed.  The events of a sync are *)
(* executed together, but those disposed from afar.                        *)
IntervalInv(i) ==
    LET s == event_status[StartEv[i]]
        t == event_status[EndEv[i]]
    IN  /\ i \in running => s = "HAPPENED_FINISHED" /\ t \in {"NONE", "PENDING"}
        /\ i \notin running => itv[i].date = 0
        /\ t # "NONE" => s \in Finished
        /\ t = "PENDING" => s = "DISPOSED_FINISHED" \/ i \in running
        /\ itv[i].offset = 0
StatusInv ==
    /\ \A e \in Events : event_status[e] \notin {"HAPPENED", "DISPOSED"}
    /\ Conditional = {} => \A e \in Events : event_status[e] # "DISPOSED_FINISHED"
    /\ \A e, f \in Events :
          SyncOf[e] = SyncOf[f] /\ Done(e) /\ ~Done(f) =>
              Conditional # {} /\ PreviousIntervals(e) # {}
CausalInv ==
    /\ \A i \in Intervals : IntervalInv(i)
    /\ StatusInv
    /\ ~exclusive /\ to_start = {} /\ to_stop = {}

(* A loop visits the start syncs that wait, the intervals that run, and    *)
(* the syncs an interval runs to; the sync it is busy with has all of its  *)
(* events pending; what an event carried has started in this pass.         *)
WaitInv ==
    /\ waiting \subseteq StartSyncs
    /\ \A e \in Events : SyncOf[e] \in waiting => ~Done(e)
    /\ pc.phase = "stopped" => running = {} /\ waiting = {}
    /\ pc.phase = "roots" => pc.todo \subseteq StartSyncs
    /\ pc.phase = "waiting" => pc.todo \subseteq waiting /\ pc.cur \in waiting \cup {None}
BeforeRun == {"roots", "waiting", "start", "stop"}
Running == {"musical", "run", "propagate"}
ReachInv ==
    /\ pc.phase \in BeforeRun => end_nodes = {} /\ retry = {}
    /\ pc.phase \in Running => /\ pc.todo \subseteq running /\ retry = {}
                               /\ \A n \in end_nodes : Reached(n)
    /\ pc.phase = "musical" => ~pc.decided /\ pc.cur \in (end_nodes \cap Rated) \cup {None}
    /\ pc.phase = "sync" =>
          /\ pc.todo \subseteq Syncs
          /\ \A n \in pc.todo \cup retry \cup {pc.cur} : n # None => Reached(n)
BusyInv ==
    /\ pc.cur = None => ~pc.decided
    /\ pc.phase \in {"waiting", "sync"} => pc.cur \notin pc.todo
    /\ pc.cur # None => /\ \A e \in EventsOf(pc.cur) : event_status[e] = "PENDING"
                        /\ pc.pending = EventsOf(pc.cur)
CarriedInv ==
    /\ pc.phase \in {"stopped", "idle", "roots"} => max_reached = {}
    /\ \A i \in NextOf(max_reached) :
          /\ i \in running
          /\ pc.phase \notin {"run", "propagate"} =>
                itv[i].date = 0 /\ event_status[EndEv[i]] = "NONE"
VisitInv == WaitInv /\ ReachInv /\ BusyInv /\ CarriedInv

ScoreInv == Straight /\ BaseInv /\ CausalInv /\ VisitInv

-----------------------------------------------------------------------------

(* What make_dispose reaches beyond the event itself: events whose starts  *)
(* are all reached, and on the way no event is touched twice.              *)
LEMMA DisposalFacts ==
  ASSUME ScoreInv, NEW e \in Events, event_status[e] \in {"NONE", "PENDING"},
         NEW f \in Disposal(e), f # e
  PROVE  /\ f \in Events /\ event_status[f] = "NONE"
         /\ PreviousIntervals(f) # {}
         /\ \A i \in PreviousIntervals(f) : StartEv[i] \in Disposal(e)
<1> USE GraphAssumption
<1>0. Cardinality(Events) \in Nat
  BY FS_CardinalityType
<1>1. PICK k \in 1..(Cardinality(Events) - 1) : \E p \in Ways(e, k) : f = EndEv[p[k]]
  BY DEF Disposal
<1>2. PICK p \in Ways(e, k) : f = EndEv[p[k]]
  BY <1>1
<1>3. /\ k \in Nat /\ k >= 1 /\ k <= Cardinality(Events) - 1
      /\ p \in [1..k -> Intervals]
      /\ \A j \in 1..k : StartEv[p[j]] = IF j = 1 THEN e ELSE EndEv[p[j-1]]
      /\ \A j \in 1..k : \A i \in PreviousIntervals(EndEv[p[j]]) :
            \/ StartEv[i] \in {e} \cup {EndEv[p[l]] : l \in 1..(j-1)}
            \/ event_status[StartEv[i]] = "DISPOSED"
  BY <1>0, <1>2 DEF Ways, Straight, ScoreInv
<1>4. \A j \in 1..k : EndEv[p[j]] \in Disposal(e)
  <2> SUFFICES ASSUME NEW j \in 1..k PROVE EndEv[p[j]] \in Disposal(e)
    OBVIOUS
  <2> DEFINE q == [l \in 1..j |-> p[l]]
  <2>1. j \in Nat /\ j >= 1 /\ j <= k
    OBVIOUS
  <2>2. q \in Ways(e, j)
    <3>1. q \in [1..j -> Intervals \ Graphal]
      <4>1. \A l \in 1..j : p[l] \in Intervals \ Graphal
        BY <1>3, <2>1 DEF ScoreInv, Straight
      <4> QED BY <4>1
    <3>2. \A l \in 1..j : /\ l \in 1..k /\ q[l] = p[l]
                          /\ l # 1 => l - 1 \in 1..j /\ q[l-1] = p[l-1]
                          /\ \A m \in 1..(l-1) : m \in 1..j /\ q[m] = p[m]
      BY <2>1
    <3> HIDE DEF q
    <3>3. ASSUME NEW l \in 1..j
          PROVE  {EndEv[p[m]] : m \in 1..(l-1)} \subseteq {EndEv[q[m]] : m \in 1..(l-1)}
      <4> SUFFICES ASSUME NEW m \in 1..(l-1)
                   PROVE  EndEv[p[m]] \in {EndEv[q[x]] : x \in 1..(l-1)}
        OBVIOUS
      <4>1. EndEv[p[m]] = EndEv[q[m]]
        BY <3>2
      <4> QED BY <4>1
    <3>4. ASSUME NEW l \in 1..j
          PROVE  StartEv[q[l]] = IF l = 1 THEN e ELSE EndEv[q[l-1]]
      <4>1. l \in 1..k /\ q[l] = p[l] /\ (l # 1 => q[l-1] = p[l-1])
        BY <3>2
      <4>2. StartEv[p[l]] = IF l = 1 THEN e ELSE EndEv[p[l-1]]
        BY <1>3, <4>1
      <4> QED BY <4>1, <4>2
    <3>5. \A l \in 1..j : \A i \in PreviousIntervals(EndEv[q[l]]) :
            \/ StartEv[i] \in {e} \cup {EndEv[q[m]] : m \in 1..(l-1)}
            \/ event_status[StartEv[i]] = "DISPOSED"
      BY <1>3, <3>2, <3>3
    <3> QED BY <3>1, <3>4, <3>5 DEF Ways
  <2>3. j \in 1..(Cardinality(Events) - 1) /\ q[j] = p[j]
    BY <1>0, <1>3, <2>1
  <2> HIDE DEF q
  <2>4. EndEv[p[j]] \in {EndEv[r[j]] : r \in Ways(e, j)}
    BY <2>2, <2>3
  <2> QED BY <2>3, <2>4 DEF Disposal
<1>5. \A j \in 1..k : event_status[EndEv[p[j]]] = "NONE"
  <2> DEFINE T == {j \in 1..k : event_status[EndEv[p[j]]] # "NONE"}
  <2> SUFFICES ASSUME T # {} PROVE FALSE
    OBVIOUS
  <2>1. PICK j \in T : \A l \in T : j <= l
    <3>1. T \in SUBSET (1..k)
      OBVIOUS
    <3> HIDE DEF T
    <3> QED BY <1>3, <3>1, LeastIndex
  <2>2. j \in 1..k /\ event_status[EndEv[p[j]]] # "NONE"
    BY <2>1
  <2>3. event_status[StartEv[p[j]]] \in {"NONE", "PENDING"}
    <3>1. CASE j = 1
      BY <1>3, <2>2, <3>1
    <3>2. CASE j # 1
      <4>1. j - 1 \in 1..k /\ ~(j <= j - 1)
        BY <1>3, <2>2, <3>2
      <4>2. event_status[EndEv[p[j-1]]] = "NONE"
        BY <2>1, <4>1
      <4>3. StartEv[p[j]] = EndEv[p[j-1]]
        BY <1>3, <2>2, <3>2
      <4> QED BY <4>2, <4>3
    <3> QED BY <3>1, <3>2
  <2>4. p[j] \in Intervals
    BY <1>3, <2>2
  <2> QED BY <2>2, <2>3, <2>4 DEF ScoreInv, CausalInv, IntervalInv, Finished
<1>6. k \in 1..k /\ p[k] \in Intervals
  BY <1>3
<1>7. f \in Events /\ p[k] \in PreviousIntervals(f)
  BY <1>2, <1>6 DEF PreviousIntervals
<1>8. ASSUME NEW i \in PreviousIntervals(f) PROVE StartEv[i] \in Disposal(e)
  <2>1. event_status[StartEv[i]] # "DISPOSED"
    BY <1>8 DEF PreviousIntervals, ScoreInv, CausalInv, StatusInv
  <2>2. StartEv[i] \in {e} \cup {EndEv[p[l]] : l \in 1..(k-1)}
    BY <1>2, <1>3, <1>6, <2>1
  <2>3. \A l \in 1..(k-1) : l \in 1..k
    BY <1>3
  <2>4. e \in Disposal(e)
    BY DEF Disposal
  <2> QED BY <1>4, <2>2, <2>3, <2>4
<1> QED BY <1>2, <1>5, <1>6, <1>7, <1>8

(* A sync that a loop may visit has not executed.                          *)
LEMMA Fresh ==
  ASSUME ScoreInv, NEW n \in Syncs, Reached(n) \/ n \in waiting
  PROVE  \A e \in EventsOf(n) : ~Done(e)
<1> USE GraphAssumption DEF ScoreInv, EventsOf
<1>1. CASE n \in waiting
  BY <1>1 DEF VisitInv, WaitInv
<1>2. CASE Reached(n)
  <2>1. PICK i \in running : i \in Intervals /\ EndSync(i) = n
    BY <1>2 DEF Reached, Incoming
  <2>2. EndEv[i] \in Events /\ SyncOf[EndEv[i]] = n /\ ~Done(EndEv[i])
    BY <2>1 DEF EndSync, CausalInv, IntervalInv, Done, Finished
  <2>3. SUFFICES ASSUME NEW e \in Events, SyncOf[e] = n, Done(e) PROVE FALSE
    OBVIOUS
  <2>4. Conditional # {} /\ PreviousIntervals(e) # {}
    BY <2>2, <2>3 DEF CausalInv, StatusInv
  <2>5. PICK j \in Intervals : EndEv[j] = e
    BY <2>4 DEF PreviousIntervals
  <2>6. EndEv[j] = EndEv[i]
    BY <2>1, <2>3, <2>4, <2>5 DEF Straight, Joined, EndSync
  <2> QED BY <2>2, <2>3, <2>5, <2>6
<1> QED BY <1>1, <1>2

(* An event that is, or becomes, PENDING when its sync is visited.         *)
LEMMA PendingFacts ==
  ASSUME ScoreInv, NEW n \in Syncs, Reached(n) \/ n \in waiting,
         NEW e \in PendingEvents(n)
  PROVE  /\ e \in Events /\ SyncOf[e] = n
         /\ event_status[e] \in {"NONE", "PENDING"}
         /\ \A i \in PreviousIntervals(e) :
              /\ i \in running \/ event_status[StartEv[i]] = "DISPOSED_FINISHED"
              /\ event_status[e] = "NONE" =>
                   \/ event_status[StartEv[i]] = "DISPOSED_FINISHED"
                   \/ itv[i].date >= Min[i]
<1> USE GraphAssumption DEF ScoreInv
<1>1. e \in Events /\ SyncOf[e] = n /\ ~Done(e)
  BY Fresh DEF PendingEvents, EventsOf
<1>2. event_status[e] \in {"NONE", "PENDING"}
  BY <1>1 DEF PendingEvents, Done
<1>3. ASSUME NEW i \in PreviousIntervals(e)
      PROVE  /\ i \in running \/ event_status[StartEv[i]] = "DISPOSED_FINISHED"
             /\ event_status[e] = "NONE" =>
                  \/ event_status[StartEv[i]] = "DISPOSED_FINISHED"
                  \/ itv[i].date >= Min[i]
  <2>1. i \in Intervals /\ EndEv[i] = e /\ i \notin Graphal /\ Min[i] > 0 /\ Min[i] \in Nat
    BY <1>3 DEF PreviousIntervals, Straight
  <2>2. event_status[StartEv[i]] # "DISPOSED"
    BY <2>1 DEF CausalInv, StatusInv
  <2>3. CASE event_status[e] = "PENDING"
    BY <2>1, <2>3 DEF CausalInv, IntervalInv
  <2>4. CASE event_status[e] = "NONE"
    <3>1. MinReached(e)
      BY <2>4 DEF PendingEvents
    <3>2. \/ event_status[StartEv[i]] = "DISPOSED_FINISHED"
          \/ itv[i].date >= Min[i]
      BY <1>3, <2>1, <2>2, <3>1 DEF MinReached, Disposed
    <3>3. itv[i].date >= Min[i] => i \in running
      BY <2>1 DEF CausalInv, IntervalInv
    <3> QED BY <3>2, <3>3
  <2> QED BY <1>2, <2>3, <2>4
<1> QED BY <1>1, <1>2, <1>3

(* What CausalInv is about.                                                *)
causal_vars == <<event_status, itv, running, exclusive, to_start, to_stop>>

(* The evaluation of a sync.                                               *)
LEMMA CheckReadyCausal ==
  ASSUME ScoreInv, NEW n \in Syncs, Reached(n) \/ n \in waiting,
         NEW todo, CheckReady(n, todo)
  PROVE  CausalInv'
<1> USE GraphAssumption
<1> DEFINE P == PendingEvents(n)
<1>1. /\ \A e \in Events : event_status'[e] = IF e \in P THEN "PENDING" ELSE event_status[e]
      /\ UNCHANGED <<itv, running, exclusive, to_start, to_stop>>
  BY DEF CheckReady, commands
<1>2. \A e \in P : /\ e \in Events /\ SyncOf[e] = n
                    /\ event_status[e] \in {"NONE", "PENDING"}
                    /\ \A i \in PreviousIntervals(e) :
                          i \in running \/ event_status[StartEv[i]] = "DISPOSED_FINISHED"
  BY PendingFacts
<1> HIDE DEF P
<1>3. \A e \in Events : Done(e)' <=> Done(e)
  BY <1>1, <1>2 DEF Done, Finished
<1>4. StatusInv'
  BY <1>1, <1>2, <1>3 DEF ScoreInv, CausalInv, StatusInv
<1>5. ASSUME NEW i \in Intervals PROVE IntervalInv(i)'
  <2>1. IntervalInv(i) /\ StartEv[i] \in Events /\ EndEv[i] \in Events
        /\ SyncOf[StartEv[i]] # SyncOf[EndEv[i]]
    BY DEF ScoreInv, CausalInv
  <2>2. CASE StartEv[i] \in P
    BY <1>1, <1>2, <2>1, <2>2 DEF IntervalInv, Finished
  <2>3. CASE EndEv[i] \in P
    <3>1. i \in running \/ event_status[StartEv[i]] = "DISPOSED_FINISHED"
      BY <1>2, <2>3 DEF PreviousIntervals
    <3> QED BY <1>1, <1>2, <2>1, <2>3, <3>1 DEF IntervalInv, Finished
  <2>4. CASE StartEv[i] \notin P /\ EndEv[i] \notin P
    BY <1>1, <2>1, <2>4 DEF IntervalInv
  <2> QED BY <2>2, <2>3, <2>4
<1> QED BY <1>1, <1>4, <1>5 DEF ScoreInv, CausalInv

(* trigger_sync, event by event and interval by interval, when it disposes *)
(* of some events.                                                         *)
Outcome(n, happened, disposed) ==
    /\ happened \subseteq EventsOf(n)
    /\ EventsOf(n) \subseteq happened \cup disposed
    /\ happened \cap disposed = {}
    /\ Conditional = {} => disposed = {}
    /\ \A e \in EventsOf(n) : event_status[e] = "PENDING"
    /\ \A e \in disposed \ EventsOf(n) :
          /\ event_status[e] = "NONE" /\ PreviousIntervals(e) # {}
          /\ \A i \in PreviousIntervals(e) : StartEv[i] \in disposed
    /\ \A e \in Events : event_status'[e] =
          IF e \in disposed THEN "DISPOSED_FINISHED"
          ELSE IF e \in happened THEN "HAPPENED_FINISHED" ELSE event_status[e]
    /\ running' = (running \ StoppedBy(happened \cup disposed)) \cup NextOf(happened)
    /\ \A i \in Intervals : itv'[i] =
          IF i \in NextOf(happened) THEN StartedInterval(i, 0)
          ELSE IF i \in StoppedBy(happened \cup disposed) THEN StoppedInterval
          ELSE itv[i]

LEMMA TriggerFacts ==
  ASSUME ScoreInv, NEW n \in Syncs, NEW happened \in SUBSET pc.pending,
         TriggerSync(n, happened)
  PROVE  \E disposed \in SUBSET Events : Outcome(n, happened, disposed)
<1> USE GraphAssumption, ScenarioAssumption
<1> DEFINE D == UNION {Disposal(e) : e \in pc.pending \ happened}
<1>1. /\ pc.cur = n /\ pc.pending \ happened \subseteq Conditional
      /\ pc.pending = EventsOf(n)
      /\ \A e \in EventsOf(n) : event_status[e] = "PENDING"
  BY DEF TriggerSync, ScoreInv, VisitInv, BusyInv
<1>2. Resetting(OtherActive(n)).syncs = {} /\ Resetting(OtherActive(n)).intervals = {}
  <2>1. OtherActive(n) = {}
    BY DEF OtherActive, ScoreInv, CausalInv
  <2> QED BY <2>1 DEF Resetting, AdjacentIntervals
<1>3. \A e \in pc.pending \ happened : e \in D
  BY DEF Disposal
<1>4. ASSUME NEW f \in D
      PROVE  \/ f \in pc.pending \ happened
             \/ /\ f \in Events /\ event_status[f] = "NONE"
                /\ PreviousIntervals(f) # {}
                /\ \A i \in PreviousIntervals(f) : StartEv[i] \in D
  <2>1. PICK e \in pc.pending \ happened : f \in Disposal(e)
    BY <1>4
  <2>2. e \in Events /\ event_status[e] \in {"NONE", "PENDING"}
    BY <1>1 DEF EventsOf
  <2>3. Disposal(e) \subseteq D
    OBVIOUS
  <2> HIDE DEF D
  <2> QED BY <2>1, <2>2, <2>3, DisposalFacts
<1>5. pc.pending \ happened = {} => D = {}
  OBVIOUS
<1>6. /\ event_status' = [e \in Events |->
            IF SyncOf[e] \in Resetting(OtherActive(n)).syncs THEN "NONE"
            ELSE IF e \in D THEN "DISPOSED_FINISHED"
            ELSE IF e \in happened THEN "HAPPENED_FINISHED" ELSE event_status[e]]
      /\ itv' = [i \in Intervals |->
            IF i \in Resetting(OtherActive(n)).intervals THEN StoppedInterval
            ELSE IF i \in NextOf(happened) THEN StartedInterval(i, itv[i].offset)
            ELSE IF i \in StoppedBy(happened \cup D) THEN StoppedInterval
            ELSE itv[i]]
      /\ running' = ((running \ StoppedBy(happened \cup D)) \cup NextOf(happened))
                    \ Resetting(OtherActive(n)).intervals
  BY DEF TriggerSync
<1>7. \A i \in Intervals : itv[i].offset = 0
  BY DEF ScoreInv, CausalInv, IntervalInv
<1> HIDE DEF D
<1>8. /\ \A e \in Events : event_status'[e] =
            IF e \in D THEN "DISPOSED_FINISHED"
            ELSE IF e \in happened THEN "HAPPENED_FINISHED" ELSE event_status[e]
      /\ \A i \in Intervals : itv'[i] =
            IF i \in NextOf(happened) THEN StartedInterval(i, 0)
            ELSE IF i \in StoppedBy(happened \cup D) THEN StoppedInterval
            ELSE itv[i]
      /\ running' = (running \ StoppedBy(happened \cup D)) \cup NextOf(happened)
  BY <1>2, <1>6, <1>7
<1>9. D \in SUBSET Events
  BY <1>1, <1>4 DEF EventsOf
<1>10. happened \cap D = {}
  BY <1>1, <1>4
<1>11. Conditional = {} => D = {}
  BY <1>1, <1>5
<1>12. \A e \in D \ EventsOf(n) :
         /\ event_status[e] = "NONE" /\ PreviousIntervals(e) # {}
         /\ \A i \in PreviousIntervals(e) : StartEv[i] \in D
  BY <1>1, <1>4
<1>13. happened \subseteq EventsOf(n) /\ EventsOf(n) \subseteq happened \cup D
  BY <1>1, <1>3
<1> QED BY <1>1, <1>8, <1>9, <1>10, <1>11, <1>12, <1>13 DEF Outcome

(* The execution of a sync: its events are done, what led to it is stopped *)
(* and what follows starts.                                                *)
LEMMA TriggerCausal ==
  ASSUME ScoreInv, NEW n \in Syncs, NEW happened \in SUBSET pc.pending,
         TriggerSync(n, happened)
  PROVE  CausalInv'
<1> USE GraphAssumption
<1>1. PICK disposed \in SUBSET Events : Outcome(n, happened, disposed)
  BY TriggerFacts
<1> USE DEF Outcome
<1>2. UNCHANGED <<exclusive, to_start, to_stop>>
  BY DEF TriggerSync, commands
<1>3. StatusInv'
  <2>1. \A e \in Events : Done(e) => Done(e)' \/ e \in disposed \cup happened
    BY <1>1 DEF Done
  <2>2. \A e \in disposed \cup happened : Done(e)'
    BY <1>1 DEF Done, Finished, EventsOf
  <2>3. \A e \in Events \ (disposed \cup happened) : event_status'[e] = event_status[e]
    BY <1>1
  <2>4. /\ \A e \in Events : event_status'[e] \notin {"HAPPENED", "DISPOSED"}
        /\ Conditional = {} => \A e \in Events : event_status'[e] # "DISPOSED_FINISHED"
    BY <1>1 DEF ScoreInv, CausalInv, StatusInv
  <2>5. ASSUME NEW e \in Events, NEW f \in Events, SyncOf[e] = SyncOf[f],
               Done(e)', ~Done(f)'
        PROVE  Conditional # {} /\ PreviousIntervals(e) # {}
    <3>1. f \notin disposed \cup happened /\ f \notin EventsOf(n)
      BY <1>1, <2>2, <2>5
    <3>2. ~Done(f) /\ SyncOf[e] # n
      BY <2>3, <2>5, <3>1 DEF Done, EventsOf
    <3>3. e \notin happened
      BY <1>1, <3>2 DEF EventsOf
    <3>4. CASE e \in disposed
      BY <1>1, <3>2, <3>4 DEF EventsOf
    <3>5. CASE e \notin disposed
      <4>1. Done(e)
        BY <2>3, <2>5, <3>3, <3>5 DEF Done
      <4> QED BY <2>5, <3>2, <4>1 DEF ScoreInv, CausalInv, StatusInv
    <3> QED BY <3>4, <3>5
  <2> QED BY <2>4, <2>5 DEF StatusInv
<1>4. ASSUME NEW i \in Intervals PROVE IntervalInv(i)'
  <2>1. IntervalInv(i) /\ StartEv[i] \in Events /\ EndEv[i] \in Events
        /\ SyncOf[StartEv[i]] # SyncOf[EndEv[i]] /\ Nominal[i] > 0
    BY DEF ScoreInv, CausalInv, Straight
  <2>2. /\ StartedInterval(i, 0).date = 0 /\ StartedInterval(i, 0).offset = 0
        /\ StoppedInterval.date = 0 /\ StoppedInterval.offset = 0
    BY <2>1 DEF StartedInterval, StoppedInterval
  <2>3. /\ i \in NextOf(happened) <=> StartEv[i] \in happened
        /\ i \in StoppedBy(happened \cup disposed) <=> EndEv[i] \in happened \cup disposed
    BY DEF NextOf, StoppedBy
  <2>4. EndEv[i] \in disposed \ EventsOf(n) => StartEv[i] \in disposed
    BY <1>1 DEF PreviousIntervals
  <2>5. \A e \in happened \cup disposed : event_status[e] \in {"NONE", "PENDING"}
    BY <1>1
  <2>6. /\ event_status'[StartEv[i]] =
              IF StartEv[i] \in disposed THEN "DISPOSED_FINISHED"
              ELSE IF StartEv[i] \in happened THEN "HAPPENED_FINISHED"
              ELSE event_status[StartEv[i]]
        /\ event_status'[EndEv[i]] =
              IF EndEv[i] \in disposed THEN "DISPOSED_FINISHED"
              ELSE IF EndEv[i] \in happened THEN "HAPPENED_FINISHED"
              ELSE event_status[EndEv[i]]
        /\ i \in running' <=> \/ StartEv[i] \in happened
                              \/ i \in running /\ EndEv[i] \notin happened \cup disposed
        /\ itv'[i] = IF StartEv[i] \in happened THEN StartedInterval(i, 0)
                     ELSE IF EndEv[i] \in happened \cup disposed THEN StoppedInterval
                     ELSE itv[i]
    BY <1>1, <2>1, <2>3
  <2>7. CASE StartEv[i] \in happened
    <3>1. event_status[StartEv[i]] = "PENDING" /\ event_status[EndEv[i]] = "NONE"
      BY <1>1, <2>1, <2>7 DEF IntervalInv, Finished
    <3>2. EndEv[i] \notin happened \cup disposed /\ StartEv[i] \notin disposed
      BY <1>1, <2>4, <2>7, <3>1
    <3> QED BY <2>2, <2>6, <2>7, <3>1, <3>2 DEF IntervalInv, Finished
  <2>8. CASE StartEv[i] \in disposed
    <3>1. StartEv[i] \notin happened /\ i \notin running /\ event_status[EndEv[i]] = "NONE"
      BY <1>1, <2>1, <2>5, <2>8 DEF IntervalInv, Finished
    <3>2. EndEv[i] \notin happened
      BY <1>1, <3>1
    <3> QED BY <2>1, <2>2, <2>6, <2>8, <3>1, <3>2 DEF IntervalInv, Finished
  <2>9. CASE StartEv[i] \notin happened \cup disposed
    <3>1. CASE EndEv[i] \in happened \cup disposed
      <4>1. event_status[EndEv[i]] = "PENDING" /\ event_status[StartEv[i]] \in Finished
        BY <1>1, <2>1, <2>4, <2>9, <3>1 DEF IntervalInv
      <4> QED BY <2>1, <2>2, <2>6, <2>9, <3>1, <4>1 DEF IntervalInv, Finished
    <3>2. CASE EndEv[i] \notin happened \cup disposed
      BY <2>1, <2>6, <2>9, <3>2 DEF IntervalInv
    <3> QED BY <3>1, <3>2
  <2> QED BY <2>7, <2>8, <2>9
<1> QED BY <1>2, <1>3, <1>4 DEF ScoreInv, CausalInv

(* run_interval only moves an interval that runs.                          *)
LEMMA RunCausal ==
  ASSUME ScoreInv, NEW i \in running, NEW t \in Nat, RunInterval(i, t)
  PROVE  /\ CausalInv' /\ UNCHANGED <<event_status, running>>
         /\ \A j \in Intervals \ {i} : itv'[j] = itv[j]
<1> USE GraphAssumption DEF ScoreInv
<1>1. i \in Intervals /\ EnabledBy(i) = {}
  BY DEF BaseInv, TypeOK, Straight, EnabledBy
<1>2. UNCHANGED <<event_status, running, exclusive, to_start, to_stop>>
  <2>1. event_status = [e \in Events |-> event_status[e]]
    BY DEF BaseInv, TypeOK
  <2>2. event_status' = event_status
    BY <1>1, <2>1 DEF RunInterval
  <2> QED BY <2>2 DEF RunInterval, commands
<1>3. PICK d : itv' = [itv EXCEPT ![i].date = d]
  BY DEF RunInterval
<1>4. /\ \A j \in Intervals \ {i} : itv'[j] = itv[j]
      /\ \A j \in Intervals : itv'[j].offset = itv[j].offset
  BY <1>1, <1>3 DEF BaseInv, TypeOK
<1>5. \A j \in Intervals : IntervalInv(j)'
  BY <1>2, <1>4 DEF CausalInv, IntervalInv
<1>6. StatusInv'
  BY <1>2 DEF CausalInv, StatusInv, Done
<1> QED BY <1>2, <1>4, <1>5, <1>6 DEF CausalInv

(* A component that restarts is as it was before it played.                *)
LEMMA RestartCausal ==
  ASSUME ScoreInv, NEW n \in Syncs, VisitRoot(n)
  PROVE  /\ CausalInv'
         /\ \/ UNCHANGED <<event_status, itv, running, waiting, end_map>>
            \/ /\ \A e \in Events : event_status'[e] =
                    IF SyncOf[e] \in Component[n] THEN "NONE" ELSE event_status[e]
               /\ \A i \in Intervals :
                    IF EndSync(i) \in Component[n]
                    THEN itv'[i] = StoppedInterval /\ i \notin running' /\ end_map'[i] = Infinite
                    ELSE itv'[i] = itv[i] /\ end_map'[i] = end_map[i]
                         /\ (i \in running' <=> i \in running)
               /\ waiting' = waiting \cup {n} /\ n \in Component[n]
               /\ \A i \in Intervals :
                    StartSync(i) \in Component[n] <=> EndSync(i) \in Component[n]
               /\ sync' = [m \in Syncs |->
                    IF m = n THEN RestartedSync(n)
                    ELSE IF m \in Component[n] THEN ResetSync ELSE sync[m]]
<1> USE GraphAssumption DEF ScoreInv
<1>1. n \in Component[n] /\ Closed(Component[n])
  BY Components
<1>2. /\ Resetting({n}).syncs = Component[n]
      /\ Resetting({n}).intervals = AdjacentIntervals(Component[n])
  BY DEF Resetting
<1>3. \A i \in Intervals :
        /\ i \in AdjacentIntervals(Component[n]) <=> EndSync(i) \in Component[n]
        /\ StartSync(i) \in Component[n] <=> EndSync(i) \in Component[n]
  BY <1>1 DEF Closed, AdjacentIntervals
<1>4. UNCHANGED <<exclusive, to_start, to_stop>>
  BY DEF VisitRoot, commands
<1>5. CASE UNCHANGED <<event_status, itv, running, waiting, end_map>>
  <2>1. StatusInv'
    BY <1>5 DEF CausalInv, StatusInv, Done
  <2>2. \A j \in Intervals : IntervalInv(j)'
    BY <1>5 DEF CausalInv, IntervalInv
  <2> QED BY <1>4, <1>5, <2>1, <2>2 DEF CausalInv
<1>6. CASE ~UNCHANGED <<event_status, itv, running, waiting, end_map>>
  <2>1. /\ event_status' = [e \in Events |->
              IF SyncOf[e] \in Component[n] THEN "NONE" ELSE event_status[e]]
        /\ itv' = [i \in Intervals |->
              IF i \in AdjacentIntervals(Component[n]) THEN StoppedInterval ELSE itv[i]]
        /\ end_map' = [i \in Intervals |->
              IF i \in AdjacentIntervals(Component[n]) THEN Infinite ELSE end_map[i]]
        /\ running' = running \ AdjacentIntervals(Component[n])
        /\ waiting' = waiting \cup {n}
        /\ sync' = [m \in Syncs |->
                    IF m = n THEN RestartedSync(n)
                    ELSE IF m \in Component[n] THEN ResetSync ELSE sync[m]]
    <3>1. /\ event_status' = [e \in Events |->
                IF SyncOf[e] \in Resetting({n}).syncs THEN "NONE" ELSE event_status[e]]
          /\ itv' = [i \in Intervals |->
                IF i \in Resetting({n}).intervals THEN StoppedInterval ELSE itv[i]]
          /\ end_map' = [i \in Intervals |->
                IF i \in Resetting({n}).intervals THEN Infinite ELSE end_map[i]]
          /\ running' = running \ Resetting({n}).intervals
          /\ waiting' = waiting \cup {n}
          /\ sync' = [m \in Syncs |->
                IF m = n THEN RestartedSync(n)
                ELSE IF m \in Resetting({n}).syncs THEN ResetSync ELSE sync[m]]
      BY <1>6 DEF VisitRoot
    <3> QED BY <1>2, <3>1
  <2>2. \A e \in Events : event_status'[e] =
           IF SyncOf[e] \in Component[n] THEN "NONE" ELSE event_status[e]
    BY <2>1
  <2>3. \A i \in Intervals :
           IF EndSync(i) \in Component[n]
           THEN itv'[i] = StoppedInterval /\ i \notin running' /\ end_map'[i] = Infinite
           ELSE itv'[i] = itv[i] /\ end_map'[i] = end_map[i]
                /\ (i \in running' <=> i \in running)
    BY <1>3, <2>1
  <2>4. StatusInv'
    BY <2>2 DEF CausalInv, StatusInv, Done, Finished
  <2>5. ASSUME NEW i \in Intervals PROVE IntervalInv(i)'
    <3>1. IntervalInv(i) /\ StartEv[i] \in Events /\ EndEv[i] \in Events
      BY DEF CausalInv
    <3>2. StoppedInterval.date = 0 /\ StoppedInterval.offset = 0
      BY DEF StoppedInterval
    <3>3. CASE EndSync(i) \in Component[n]
      <4>1. event_status'[StartEv[i]] = "NONE" /\ event_status'[EndEv[i]] = "NONE"
        BY <1>3, <2>2, <3>1, <3>3 DEF StartSync, EndSync
      <4> QED BY <2>3, <3>2, <3>3, <4>1 DEF IntervalInv
    <3>4. CASE EndSync(i) \notin Component[n]
      <4>1. /\ event_status'[StartEv[i]] = event_status[StartEv[i]]
            /\ event_status'[EndEv[i]] = event_status[EndEv[i]]
        BY <1>3, <2>2, <3>1, <3>4 DEF StartSync, EndSync
      <4> QED BY <2>3, <3>1, <3>4, <4>1 DEF IntervalInv
    <3> QED BY <3>3, <3>4
  <2> QED BY <1>1, <1>3, <1>4, <2>1, <2>2, <2>3, <2>4, <2>5 DEF CausalInv
<1> QED BY <1>5, <1>6

-----------------------------------------------------------------------------

(* The evaluation of a sync keeps what the loops know.                     *)
LEMMA CheckReadyFacts ==
  ASSUME ScoreInv, NEW n \in Syncs, Reached(n) \/ n \in waiting,
         NEW todo, CheckReady(n, todo),
         pc.phase = "musical" \/ todo \subseteq Syncs \ {n}
  PROVE  /\ \A e \in Events : Done(e)' <=> Done(e)
         /\ \A e \in Events : event_status[e] = "PENDING" => event_status'[e] = "PENDING"
         /\ UNCHANGED <<itv, running, waiting, retry, max_reached>>
         /\ BusyInv'
         /\ \A i \in running : itv[i].date = 0 /\ event_status[EndEv[i]] = "NONE" =>
               event_status'[EndEv[i]] = "NONE"
         /\ pc'.phase = pc.phase /\ pc'.todo = todo /\ pc'.cur \in {n, None} /\ ~pc'.decided
<1> USE GraphAssumption
<1>1. /\ event_status' = [e \in Events |->
            IF e \in PendingEvents(n) THEN "PENDING" ELSE event_status[e]]
      /\ UNCHANGED <<itv, running, waiting, retry, max_reached>>
      /\ \/ /\ IsReady(n)
            /\ pc' = [phase |-> pc.phase, todo |-> todo, cur |-> n,
                      decided |-> FALSE, pending |-> PendingEvents(n),
                      max |-> MaxReached(n)]
         \/ pc' = Loop(pc.phase, todo)
  BY DEF CheckReady
<1>2. \A e \in PendingEvents(n) : event_status[e] \in {"NONE", "PENDING"}
  BY PendingFacts
<1>3. /\ \A e \in Events : Done(e)' <=> Done(e)
      /\ \A e \in Events : event_status[e] = "PENDING" => event_status'[e] = "PENDING"
  BY <1>1, <1>2 DEF Done, Finished
<1>4. ASSUME NEW i \in running, itv[i].date = 0, event_status[EndEv[i]] = "NONE"
      PROVE  event_status'[EndEv[i]] = "NONE"
  <2>1. /\ i \in Intervals /\ EndEv[i] \in Events /\ Min[i] \in Nat /\ Min[i] > 0
        /\ event_status[StartEv[i]] = "HAPPENED_FINISHED"
    BY DEF ScoreInv, BaseInv, TypeOK, Straight, CausalInv, IntervalInv
  <2>2. EndEv[i] \notin PendingEvents(n)
    <3>1. SUFFICES ASSUME EndEv[i] \in PendingEvents(n) PROVE FALSE
      OBVIOUS
    <3>2. i \in PreviousIntervals(EndEv[i])
      BY <2>1 DEF PreviousIntervals
    <3>3. itv[i].date >= Min[i]
      BY <1>4, <2>1, <3>1, <3>2, PendingFacts
    <3> QED BY <1>4, <2>1, <3>3
  <2> QED BY <1>1, <1>4, <2>1, <2>2
<1>5. /\ pc'.phase = pc.phase /\ pc'.todo = todo /\ pc'.cur \in {n, None} /\ ~pc'.decided
      /\ pc'.cur # None => pc'.cur = n /\ IsReady(n) /\ pc'.pending = PendingEvents(n)
  BY <1>1 DEF Loop
<1>6. IsReady(n) => PendingEvents(n) = EventsOf(n)
  <2>1. ActiveEvents(n) = EventsOf(n)
    BY DEF ActiveEvents, EventsOf, ScoreInv, CausalInv, StatusInv
  <2> QED BY <2>1 DEF IsReady
<1>7. \A e \in PendingEvents(n) : event_status'[e] = "PENDING"
  BY <1>1 DEF PendingEvents, EventsOf
<1>8. BusyInv'
  BY <1>5, <1>6, <1>7, ScenarioAssumption DEF BusyInv, EventsOf
<1> QED BY <1>1, <1>3, <1>4, <1>5, <1>8

(* The visit of a sync, and of a quantized interval.                       *)
LEMMA VisitStep ==
  ASSUME ScoreInv,
         \/ \E n \in Syncs : VisitSync(n)
         \/ \E i \in Intervals : VisitMusical(i)
  PROVE  CausalInv' /\ VisitInv'
<1> USE GraphAssumption, ScenarioAssumption
<1>1. ASSUME NEW n \in Syncs, VisitSync(n) PROVE CausalInv' /\ VisitInv'
  <2>1. /\ pc.phase \in {"waiting", "sync"} /\ n \in pc.todo
        /\ CheckReady(n, pc.todo \ {n}) /\ UNCHANGED end_nodes
    BY <1>1 DEF VisitSync, In
  <2>2. /\ pc.phase = "waiting" => n \in waiting
        /\ pc.phase = "sync" => Reached(n)
    BY <2>1 DEF ScoreInv, VisitInv, WaitInv, ReachInv, None
  <2>3. /\ \A e \in Events : Done(e)' <=> Done(e)
        /\ UNCHANGED <<itv, running, waiting, retry, max_reached>>
        /\ BusyInv'
        /\ \A i \in running : itv[i].date = 0 /\ event_status[EndEv[i]] = "NONE" =>
               event_status'[EndEv[i]] = "NONE"
        /\ pc'.phase = pc.phase /\ pc'.todo = pc.todo \ {n} /\ pc'.cur \in {n, None}
    <3>1. pc.todo \subseteq Syncs
      BY <2>1 DEF ScoreInv, BaseInv, TypeOK, VisitInv, WaitInv, ReachInv
    <3> QED BY <2>1, <2>2, <3>1, CheckReadyFacts
  <2>4. CausalInv'
    BY <2>1, <2>2, CheckReadyCausal
  <2>6. WaitInv' /\ CarriedInv'
    BY <2>1, <2>2, <2>3 DEF ScoreInv, VisitInv, WaitInv, CarriedInv, NextOf
  <2>7. ReachInv'
    BY <2>1, <2>2, <2>3 DEF ScoreInv, VisitInv, ReachInv, Reached, BeforeRun, Running
  <2> QED BY <2>3, <2>4, <2>6, <2>7 DEF VisitInv
<1>2. ASSUME NEW i \in Intervals, VisitMusical(i) PROVE CausalInv' /\ VisitInv'
  <2>1. /\ pc.phase = "musical" /\ pc.cur = None /\ i \in pc.todo /\ i \in running
    BY <1>2 DEF VisitMusical, In, ScoreInv, VisitInv, ReachInv, Running
  <2>2. EndSync(i) \in Syncs /\ Reached(EndSync(i))
    BY <2>1 DEF EndSync, Reached, Incoming
  <2>3. CASE /\ EndSync(i) \in Rated /\ end_nodes' = end_nodes \cup {EndSync(i)}
             /\ CheckReady(EndSync(i), pc.todo \ {i})
    <3>1. /\ \A e \in Events : Done(e)' <=> Done(e)
          /\ UNCHANGED <<itv, running, waiting, retry, max_reached>>
          /\ BusyInv'
          /\ \A j \in running : itv[j].date = 0 /\ event_status[EndEv[j]] = "NONE" =>
                 event_status'[EndEv[j]] = "NONE"
          /\ pc'.phase = pc.phase /\ pc'.todo = pc.todo \ {i}
          /\ pc'.cur \in {EndSync(i), None} /\ ~pc'.decided
      BY <2>1, <2>2, <2>3, CheckReadyFacts
    <3>2. CausalInv'
      BY <2>2, <2>3, CheckReadyCausal
    <3>3. WaitInv' /\ CarriedInv'
      BY <2>1, <3>1 DEF ScoreInv, VisitInv, WaitInv, CarriedInv, NextOf
    <3>4. ReachInv'
      BY <2>1, <2>2, <2>3, <3>1
         DEF ScoreInv, VisitInv, ReachInv, Reached, BeforeRun, Running
    <3> QED BY <3>1, <3>2, <3>3, <3>4 DEF VisitInv
  <2>4. CASE pc' = Visited(i) /\ UNCHANGED scenario_vars
    <3>1. /\ UNCHANGED <<event_status, itv, running, exclusive, to_start, to_stop,
                         waiting, retry, max_reached, end_nodes>>
          /\ pc'.phase = "musical" /\ pc'.todo = pc.todo \ {i} /\ pc'.cur = None
          /\ ~pc'.decided
      BY <2>1, <2>4 DEF scenario_vars, commands, Visited, Loop
    <3>2. CausalInv'
      BY <3>1 DEF ScoreInv, CausalInv, IntervalInv, StatusInv, Done
    <3>3. WaitInv' /\ CarriedInv'
      BY <2>1, <3>1 DEF ScoreInv, VisitInv, WaitInv, CarriedInv, NextOf, Done
    <3>4. ReachInv' /\ BusyInv'
      BY <2>1, <3>1 DEF ScoreInv, VisitInv, ReachInv, BusyInv, Reached, BeforeRun, Running
    <3> QED BY <3>2, <3>3, <3>4 DEF VisitInv
  <2> QED BY <1>2, <2>3, <2>4 DEF VisitMusical
<1> QED BY <1>1, <1>2

(* The execution of a sync.                                                *)
LEMMA TriggerVisit ==
  ASSUME ScoreInv, NEW n \in Syncs, NEW happened \in SUBSET pc.pending,
         TriggerSync(n, happened)
  PROVE  VisitInv'
<1> USE GraphAssumption, ScenarioAssumption
<1>1. PICK disposed \in SUBSET Events : Outcome(n, happened, disposed)
  BY TriggerFacts
<1> USE DEF Outcome
<1>2. /\ pc.cur = n /\ pc.decided /\ UNCHANGED end_nodes
      /\ max_reached' = max_reached \cup Carried(happened)
      /\ waiting' = IF pc.phase = "waiting" THEN waiting \ {n} ELSE waiting
      /\ retry' = IF pc.phase = "sync" THEN retry \ {n} ELSE retry
      /\ pc' = Loop(pc.phase, pc.todo)
  BY DEF TriggerSync, Return
<1>3. pc.phase \in {"waiting", "sync"} /\ n \notin pc.todo
  BY <1>2 DEF ScoreInv, BaseInv, PcInv, VisitInv, ReachInv, BusyInv
<1>4. ASSUME NEW i \in running
      PROVE  /\ i \in Intervals /\ EndEv[i] \notin disposed \ EventsOf(n)
             /\ StartEv[i] \notin happened
             /\ EndSync(i) # n => i \in running' /\ itv'[i] = itv[i]
                                  /\ event_status'[EndEv[i]] = event_status[EndEv[i]]
  <2>1. /\ i \in Intervals /\ EndEv[i] \in Events
        /\ event_status[StartEv[i]] = "HAPPENED_FINISHED"
    BY DEF ScoreInv, BaseInv, TypeOK, CausalInv, IntervalInv
  <2>2. EndEv[i] \notin disposed \ EventsOf(n)
    <3>1. \A e \in disposed : event_status[e] # "HAPPENED_FINISHED"
      BY <1>1
    <3> QED BY <1>1, <2>1, <3>1 DEF PreviousIntervals
  <2>3. StartEv[i] \notin happened
    BY <1>1, <2>1
  <2>4. ASSUME EndSync(i) # n
        PROVE  i \in running' /\ itv'[i] = itv[i]
               /\ event_status'[EndEv[i]] = event_status[EndEv[i]]
    <3>1. EndEv[i] \notin happened \cup disposed
      BY <1>1, <2>1, <2>2, <2>4 DEF EndSync, EventsOf
    <3> QED BY <1>1, <2>1, <2>3, <3>1 DEF StoppedBy, NextOf
  <2> QED BY <2>1, <2>2, <2>3, <2>4
<1>5. WaitInv'
  <2>1. \A e \in Events : SyncOf[e] \in waiting' => ~Done(e)'
    <3> SUFFICES ASSUME NEW e \in Events, SyncOf[e] \in waiting' PROVE ~Done(e)'
      OBVIOUS
    <3>1. SyncOf[e] \in waiting /\ ~Done(e) /\ SyncOf[e] \in StartSyncs
      BY <1>2 DEF ScoreInv, VisitInv, WaitInv
    <3>2. SyncOf[e] # n
      <4>1. CASE pc.phase = "waiting"
        BY <1>2, <4>1
      <4>2. CASE pc.phase = "sync"
        <5>1. PICK i \in Intervals : EndSync(i) = n
          BY <1>2, <4>2 DEF ScoreInv, VisitInv, ReachInv, Reached, Incoming
        <5> QED BY <3>1, <5>1 DEF ScoreInv, Straight
      <4> QED BY <1>3, <4>1, <4>2
    <3>3. e \notin disposed
      <4>1. SUFFICES ASSUME e \in disposed PROVE FALSE
        OBVIOUS
      <4>2. PICK i \in Intervals : EndEv[i] = e
        BY <1>1, <3>2, <4>1 DEF EventsOf, PreviousIntervals
      <4> QED BY <3>1, <4>2 DEF ScoreInv, Straight, EndSync
    <3> QED BY <1>1, <3>1, <3>2, <3>3 DEF Done, EventsOf
  <2> QED
    BY <1>2, <1>3, <2>1 DEF Loop, ScoreInv, VisitInv, WaitInv
<1>6. ReachInv'
  <2>1. CASE pc.phase = "waiting"
    BY <1>2, <2>1 DEF Loop, ScoreInv, VisitInv, ReachInv, BeforeRun, Running
  <2>2. CASE pc.phase = "sync"
    <3>1. ASSUME NEW m \in pc.todo \cup retry, m # n, m # None PROVE Reached(m)'
      <4>1. PICK i \in running : i \in Incoming(m)
        BY <2>2, <3>1 DEF ScoreInv, VisitInv, ReachInv, Reached
      <4>2. EndSync(i) = m /\ i \in running'
        BY <1>4, <3>1, <4>1 DEF Incoming
      <4> QED BY <4>1, <4>2 DEF Reached, Incoming
    <3> QED
      BY <1>2, <1>3, <2>2, <3>1 DEF Loop, ScoreInv, VisitInv, ReachInv, BeforeRun, Running
  <2> QED BY <1>3, <2>1, <2>2
<1>7. BusyInv'
  <2>1. pc.phase \in {"waiting", "sync"} => None \notin pc.todo
    BY DEF ScoreInv, BaseInv, TypeOK, VisitInv, WaitInv, ReachInv
  <2> QED BY <1>2, <1>3, <2>1 DEF Loop, BusyInv
<1>8. CarriedInv'
  <2>1. ASSUME NEW i \in NextOf(max_reached)
        PROVE  i \in running' /\ itv'[i].date = 0 /\ event_status'[EndEv[i]] = "NONE"
    <3>1. i \in running /\ itv[i].date = 0 /\ event_status[EndEv[i]] = "NONE"
      BY <1>3, <2>1 DEF ScoreInv, VisitInv, CarriedInv
    <3>2. EndSync(i) # n
      BY <1>1, <1>4, <3>1 DEF EndSync, EventsOf
    <3> QED BY <1>4, <3>1, <3>2
  <2>2. ASSUME NEW i \in NextOf(happened)
        PROVE  i \in running' /\ itv'[i].date = 0 /\ event_status'[EndEv[i]] = "NONE"
    <3>1. /\ i \in Intervals /\ StartEv[i] \in happened /\ EndEv[i] \in Events
          /\ StartEv[i] \in Events
      BY <2>2 DEF NextOf
    <3>2. event_status'[EndEv[i]] = "NONE"
      <4>1. event_status[StartEv[i]] = "PENDING" /\ event_status[EndEv[i]] = "NONE"
        BY <1>1, <3>1 DEF ScoreInv, CausalInv, IntervalInv, Finished
      <4>2. EndEv[i] \notin happened \cup EventsOf(n)
        BY <1>1, <4>1
      <4>3. EndEv[i] \notin disposed
        <5>1. SUFFICES ASSUME EndEv[i] \in disposed PROVE FALSE
          OBVIOUS
        <5>2. StartEv[i] \in disposed
          BY <1>1, <3>1, <4>2, <5>1 DEF PreviousIntervals
        <5>3. event_status'[StartEv[i]] = "DISPOSED_FINISHED"
          BY <1>1, <3>1, <5>2
        <5>4. CausalInv'
          BY TriggerCausal
        <5>5. i \in running'
          BY <1>1, <2>2
        <5> QED BY <3>1, <5>3, <5>4, <5>5 DEF CausalInv, IntervalInv
      <4> QED BY <1>1, <3>1, <4>1, <4>2, <4>3
    <3>3. i \in running' /\ itv'[i] = StartedInterval(i, 0)
      BY <1>1, <2>2, <3>1
    <3> QED BY <3>2, <3>3 DEF StartedInterval, StoppedInterval
  <2>3. NextOf(max_reached') \subseteq NextOf(max_reached) \cup NextOf(happened)
    BY <1>2 DEF NextOf, Carried
  <2> QED BY <1>2, <1>3, <2>1, <2>2, <2>3 DEF Loop, CarriedInv
<1> QED BY <1>5, <1>6, <1>7, <1>8 DEF VisitInv

(* The decision about a sync.                                              *)
LEMMA DecideStep ==
  ASSUME ScoreInv, NEW n \in Syncs,
         TriggerAtMax(n) \/ NotTriggered(n) \/ Triggered(n)
  PROVE  CausalInv' /\ VisitInv'
<1> USE GraphAssumption, ScenarioAssumption
<1>1. /\ UNCHANGED <<event_status, itv, running, exclusive, to_start, to_stop,
                     waiting, end_nodes, max_reached>>
      /\ \/ UNCHANGED retry
         \/ pc.phase = "sync" /\ retry' = retry \cup {n} /\ Return
      /\ pc.cur = n
      /\ Return \/ \E max \in BOOLEAN : Execute(max)
  BY DEF TriggerAtMax, NotTriggered, Triggered, Quantize, Deciding, scenario_vars,
     commands, ScoreInv, BaseInv, TypeOK, PcTypes
<1>2. pc.phase = "musical" => Return
  <2>1. pc.phase = "musical" => n \in Rated
    BY <1>1 DEF ScoreInv, VisitInv, ReachInv
  <2> QED BY <2>1 DEF TriggerAtMax, NotTriggered, Triggered, Quantize, Quantizing
<1>3. CausalInv'
  BY <1>1 DEF ScoreInv, CausalInv, IntervalInv, StatusInv, Done
<1>4. pc'.phase = pc.phase /\ pc'.todo = pc.todo /\ pc'.cur \in {n, None}
      /\ (pc'.cur = n => pc.phase # "musical" /\ pc'.pending = pc.pending)
      /\ (pc'.cur = None => ~pc'.decided)
  <2>1. CASE Return
    BY <2>1 DEF Return, Loop
  <2>2. ASSUME NEW max \in BOOLEAN, Execute(max), ~Return
        PROVE  /\ pc'.phase = pc.phase /\ pc'.todo = pc.todo /\ pc'.cur = n
               /\ pc.phase # "musical" /\ pc'.pending = pc.pending
    <3>1. pc = [phase |-> pc.phase, todo |-> pc.todo, cur |-> pc.cur,
                decided |-> pc.decided, pending |-> pc.pending, max |-> pc.max]
      BY DEF ScoreInv, BaseInv, PcInv
    <3> QED BY <1>1, <1>2, <2>2, <3>1 DEF Execute
  <2> QED BY <1>1, <2>1, <2>2
<1>5. WaitInv' /\ CarriedInv'
  BY <1>1, <1>4 DEF ScoreInv, VisitInv, WaitInv, CarriedInv, NextOf, Done
<1>6. ReachInv'
  BY <1>1, <1>4 DEF ScoreInv, VisitInv, ReachInv, Reached, BeforeRun, Running
<1>7. BusyInv'
  <2>1. pc.phase \in {"waiting", "sync"} => None \notin pc.todo
    BY DEF ScoreInv, BaseInv, TypeOK, VisitInv, WaitInv, ReachInv
  <2> QED BY <1>1, <1>4, <2>1 DEF ScoreInv, VisitInv, BusyInv
<1> QED BY <1>3, <1>5, <1>6, <1>7 DEF VisitInv

(* An interval that advances.                                              *)
LEMMA RunStep ==
  ASSUME ScoreInv, NEW i \in Intervals, VisitRunning(i) \/ VisitNext(i)
  PROVE  CausalInv' /\ VisitInv'
<1> USE GraphAssumption, ScenarioAssumption
<1>1. /\ pc.phase \in {"run", "propagate"} /\ pc.cur = None
      /\ i \in pc.todo /\ i \in running
  BY DEF VisitRunning, VisitNext, In, ScoreInv, VisitInv, ReachInv, Running
<1>2. ASSUME NEW t \in Nat, RunInterval(i, t) PROVE CausalInv' /\ VisitInv'
  <2>1. CausalInv' /\ UNCHANGED <<event_status, running>>
    BY <1>1, <1>2, RunCausal
  <2>2. /\ pc' = Visited(i) /\ UNCHANGED <<waiting, retry, max_reached>>
        /\ UNCHANGED end_nodes \/ end_nodes' = end_nodes \cup {EndSync(i)}
    BY <1>2 DEF RunInterval
  <2>3. Reached(EndSync(i))
    BY <1>1 DEF Reached, Incoming
  <2>4. WaitInv' /\ CarriedInv' /\ BusyInv'
    BY <1>1, <2>1, <2>2
       DEF ScoreInv, VisitInv, WaitInv, CarriedInv, BusyInv, NextOf, Done, Visited, Loop
  <2>5. ReachInv'
    BY <1>1, <2>1, <2>2, <2>3
       DEF ScoreInv, VisitInv, ReachInv, Reached, BeforeRun, Running, Visited, Loop
  <2> QED BY <2>1, <2>4, <2>5 DEF VisitInv
<1>3. CASE pc' = Visited(i) /\ UNCHANGED scenario_vars
  <2>1. UNCHANGED <<event_status, itv, running, exclusive, to_start, to_stop,
                    waiting, retry, max_reached, end_nodes>>
    BY <1>3 DEF scenario_vars, commands
  <2>2. CausalInv'
    BY <2>1 DEF ScoreInv, CausalInv, IntervalInv, StatusInv, Done
  <2>3. WaitInv' /\ CarriedInv' /\ BusyInv'
    BY <1>1, <1>3, <2>1
       DEF ScoreInv, VisitInv, WaitInv, CarriedInv, BusyInv, NextOf, Done, Visited, Loop
  <2>4. ReachInv'
    BY <1>1, <1>3, <2>1
       DEF ScoreInv, VisitInv, ReachInv, Reached, BeforeRun, Running, Visited, Loop
  <2> QED BY <2>2, <2>3, <2>4 DEF VisitInv
<1>4. CASE VisitRunning(i)
  BY <1>2, <1>4 DEF VisitRunning, ScoreInv, BaseInv, TypeOK
<1>5. CASE VisitNext(i)
  <2>1. StartSync(i) \in Syncs
    BY DEF StartSync
  <2>2. overticks[StartSync(i)] \in Nat \cup {NoOvertick}
    BY <2>1 DEF ScoreInv, BaseInv, TypeOK
  <2> QED BY <1>2, <1>3, <1>5, <2>2 DEF VisitNext
<1> QED BY <1>4, <1>5

(* The loops that begin and end.                                           *)
LEMMA LoopStep ==
  ASSUME ScoreInv,
         \/ RootsVisited \/ WaitingVisited \/ ToStartVisited \/ ToStopVisited
         \/ MusicalVisited \/ RunVisited \/ NextVisited \/ SyncsVisited
  PROVE  CausalInv' /\ VisitInv'
<1> USE GraphAssumption, ScenarioAssumption
<1>1. UNCHANGED <<event_status, itv, running, exclusive, to_start, to_stop, waiting>>
  BY DEF RootsVisited, WaitingVisited, ToStartVisited, ToStopVisited, MusicalVisited,
     RunVisited, NextVisited, SyncsVisited, scenario_vars, commands
<1>2. CausalInv'
  BY <1>1 DEF ScoreInv, CausalInv, IntervalInv, StatusInv, Done
<1> USE DEF ScoreInv, VisitInv, WaitInv, ReachInv, BusyInv, CarriedInv, Done, Reached,
        BeforeRun, Running, In, Loop, scenario_vars, commands
<1>3. waiting \subseteq Syncs /\ None \notin waiting /\ end_nodes \subseteq Syncs
  BY DEF BaseInv, TypeOK
<1>4. CASE RootsVisited
  BY <1>1, <1>2, <1>3, <1>4 DEF RootsVisited, NextOf
<1>5. CASE WaitingVisited
  BY <1>1, <1>2, <1>5 DEF WaitingVisited, NextOf
<1>6. CASE ToStartVisited
  BY <1>1, <1>2, <1>6 DEF ToStartVisited, NextOf
<1>7. CASE ToStopVisited
  BY <1>1, <1>2, <1>7 DEF ToStopVisited, NextOf
<1>8. CASE MusicalVisited
  BY <1>1, <1>2, <1>8 DEF MusicalVisited, NextOf
<1>9. CASE RunVisited
  BY <1>1, <1>2, <1>9 DEF RunVisited, NextOf
<1>10. CASE NextVisited
  BY <1>1, <1>2, <1>3, <1>10 DEF NextVisited, NextOf
<1>11. CASE SyncsVisited
  <2>1. /\ end_nodes' = retry /\ retry' = {} /\ UNCHANGED max_reached
        /\ pc.phase = "sync"
        /\ pc' = IF max_reached = {} /\ retry = {} THEN Loop("idle", {})
                 ELSE Loop("propagate", NextOf(max_reached))
    BY <1>11 DEF SyncsVisited
  <2>0. \A n \in retry : n # None
    BY DEF BaseInv, TypeOK
  <2>2. \A n \in retry : Reached(n)
    BY <2>0, <2>1
  <2>3. CASE max_reached = {} /\ retry = {}
    BY <1>1, <1>2, <2>1, <2>3 DEF NextOf
  <2>4. CASE ~(max_reached = {} /\ retry = {})
    BY <1>1, <1>2, <2>1, <2>2, <2>4 DEF NextOf
  <2> QED BY <2>3, <2>4
<1> QED BY <1>4, <1>5, <1>6, <1>7, <1>8, <1>9, <1>10, <1>11

(* The start, the end and the first loop of a tick, and the requests.      *)
LEMMA CommandStep ==
  ASSUME ScoreInv,
         \/ Start \/ Stop \/ UNCHANGED vars
         \/ \E n \in Clickable : StartTriggerRequest(n)
         \/ \E length \in Ticks, quantum \in {NoDate} \cup Quanta :
               BeginTick(length, quantum)
         \/ \E n \in Syncs : VisitRoot(n)
  PROVE  CausalInv' /\ VisitInv'
<1> USE GraphAssumption, ScenarioAssumption
<1>1. CASE UNCHANGED vars \/ \E n \in Clickable : StartTriggerRequest(n)
  <2>1. UNCHANGED <<event_status, itv, running, exclusive, to_start, to_stop,
                    waiting, retry, max_reached, end_nodes, pc>>
    BY <1>1 DEF StartTriggerRequest, vars, scenario_vars, commands
  <2>2. CausalInv'
    BY <2>1 DEF ScoreInv, CausalInv, IntervalInv, StatusInv, Done
  <2>3. WaitInv' /\ CarriedInv' /\ BusyInv'
    BY <2>1 DEF ScoreInv, VisitInv, WaitInv, CarriedInv, BusyInv, NextOf, Done
  <2>4. ReachInv'
    BY <2>1 DEF ScoreInv, VisitInv, ReachInv, Reached, BeforeRun, Running
  <2> QED BY <2>2, <2>3, <2>4 DEF VisitInv
<1>2. CASE Start \/ Stop
  <2>1. /\ \A e \in Events : event_status'[e] = "NONE"
        /\ UNCHANGED exclusive /\ to_start' = {} /\ to_stop' = {}
        /\ running' = {} /\ waiting' \subseteq StartSyncs /\ max_reached' = {}
        /\ \/ pc' = Loop("idle", {})
           \/ pc' = Loop("stopped", {}) /\ waiting' = {}
    <3>1. CASE Start
      <4>1. /\ event_status' = [e \in Events |-> "NONE"] /\ pc' = Loop("idle", {})
            /\ pc.phase = "stopped" /\ waiting' = waiting \cup StartSyncs
            /\ UNCHANGED <<exclusive, to_start, to_stop, running, max_reached>>
        BY <3>1 DEF Start, In, commands
      <4> QED BY <4>1 DEF ScoreInv, CausalInv, VisitInv, WaitInv, CarriedInv
    <3>2. CASE Stop
      BY <3>2 DEF Stop, ScoreInv, CausalInv
    <3> QED BY <1>2, <3>1, <3>2
  <2>2. \A i \in Intervals : itv'[i].date = 0 /\ itv'[i].offset = 0
    BY <1>2 DEF Start, Stop, In, StoppedInterval, ScoreInv, CausalInv, IntervalInv, VisitInv, WaitInv
  <2>3. CausalInv'
    <3>1. \A i \in Intervals : IntervalInv(i)'
      BY <2>1, <2>2 DEF IntervalInv
    <3>2. StatusInv'
      BY <2>1 DEF StatusInv, Done, Finished
    <3> QED BY <2>1, <3>1, <3>2 DEF ScoreInv, CausalInv
  <2>4. VisitInv'
    BY <2>1 DEF VisitInv, WaitInv, CarriedInv, BusyInv, ReachInv, NextOf, Done, Finished,
       BeforeRun, Running, Loop
  <2> QED BY <2>3, <2>4
<1>3. ASSUME NEW length \in Ticks, NEW quantum, BeginTick(length, quantum)
      PROVE  CausalInv' /\ VisitInv'
  <2>1. /\ UNCHANGED <<event_status, itv, exclusive, to_start, to_stop, waiting>>
        /\ end_nodes' = {} /\ retry' = {} /\ max_reached' = {}
        /\ running' = {i \in running : ~Over(i)}
        /\ pc' = Loop("roots", StartSyncs)
    BY <1>3 DEF BeginTick
  <2>2. UNCHANGED running
    BY <2>1 DEF Over, ScoreInv, BaseInv, TypeOK, CausalInv, StatusInv
  <2>3. CausalInv'
    BY <2>1, <2>2 DEF ScoreInv, CausalInv, IntervalInv, StatusInv, Done
  <2>4. VisitInv'
    BY <2>1, <2>2 DEF ScoreInv, VisitInv, WaitInv, CarriedInv, BusyInv, ReachInv, NextOf,
       Done, BeforeRun, Running, Loop
  <2> QED BY <2>3, <2>4
<1>4. ASSUME NEW n \in Syncs, VisitRoot(n) PROVE CausalInv' /\ VisitInv'
  <2>1. /\ pc.phase = "roots" /\ n \in pc.todo /\ pc' = Visited(n)
        /\ UNCHANGED <<end_nodes, retry, max_reached>>
    BY <1>4 DEF VisitRoot, In
  <2>2. CausalInv'
    BY <1>4, RestartCausal
  <2>3. /\ waiting' \subseteq StartSyncs
        /\ \A e \in Events : SyncOf[e] \in waiting' => ~Done(e)'
    <3>1. CASE UNCHANGED <<event_status, itv, running, waiting, end_map>>
      BY <3>1 DEF ScoreInv, VisitInv, WaitInv, Done
    <3>2. CASE /\ \A e \in Events : event_status'[e] =
                    IF SyncOf[e] \in Component[n] THEN "NONE" ELSE event_status[e]
               /\ waiting' = waiting \cup {n} /\ n \in Component[n]
      BY <2>1, <3>2 DEF ScoreInv, VisitInv, WaitInv, Done, Finished
    <3> QED BY <1>4, <3>1, <3>2, RestartCausal
  <2>4. VisitInv'
    BY <2>1, <2>3 DEF ScoreInv, VisitInv, WaitInv, CarriedInv, BusyInv, ReachInv, NextOf,
       BeforeRun, Running, Visited, Loop
  <2> QED BY <2>2, <2>4
<1> QED BY <1>1, <1>2, <1>3, <1>4

(* Every step of such a score preserves it.                                *)
LEMMA ScoreStep == ScoreInv /\ [Next]_vars => ScoreInv'
<1> SUFFICES ASSUME ScoreInv, [Next]_vars PROVE ScoreInv'
  OBVIOUS
<1>1. BaseInv'
  BY BaseInductive DEF ScoreInv
<1>2. Straight'
  BY DEF ScoreInv, Straight, Joined, EndSync, StartSync
<1>3. CausalInv' /\ VisitInv'
  <2>1. Playable = {} /\ to_start = {} /\ to_stop = {}
    BY DEF ScoreInv, Straight, CausalInv
  <2>2. CASE \E n \in Syncs, happened \in SUBSET pc.pending : TriggerSync(n, happened)
    BY <2>2, TriggerCausal, TriggerVisit
  <2>3. CASE \E n \in Syncs : TriggerAtMax(n) \/ NotTriggered(n) \/ Triggered(n)
    BY <2>3, DecideStep
  <2>4. CASE \/ \E n \in Syncs : VisitSync(n)
             \/ \E i \in Intervals : VisitMusical(i)
    BY <2>4, VisitStep
  <2>5. CASE \E i \in Intervals : VisitRunning(i) \/ VisitNext(i)
    BY <2>5, RunStep
  <2>6. CASE \/ RootsVisited \/ WaitingVisited \/ ToStartVisited \/ ToStopVisited
             \/ MusicalVisited \/ RunVisited \/ NextVisited \/ SyncsVisited
    BY <2>6, LoopStep
  <2>7. CASE \/ Start \/ Stop \/ UNCHANGED vars
             \/ \E n \in Clickable : StartTriggerRequest(n)
             \/ \E length \in Ticks, quantum \in {NoDate} \cup Quanta :
                   BeginTick(length, quantum)
             \/ \E n \in Syncs : VisitRoot(n)
    BY <2>7, CommandStep
  <2> QED BY <2>1, <2>2, <2>3, <2>4, <2>5, <2>6, <2>7 DEF Next, TickStep, Command
<1> QED BY <1>1, <1>2, <1>3 DEF ScoreInv

LEMMA ScoreInit == ASSUME Straight PROVE Init => ScoreInv
<1> SUFFICES ASSUME Init PROVE ScoreInv
  OBVIOUS
<1> USE GraphAssumption, ScenarioAssumption
<1>1. BaseInv
  BY BaseInit
<1>2. CausalInv
  <2>1. \A i \in Intervals : IntervalInv(i)
    BY DEF Init, IntervalInv, StoppedInterval
  <2>2. StatusInv
    BY DEF Init, StatusInv, Done, Finished
  <2> QED BY <2>1, <2>2 DEF Init, CausalInv, Straight
<1>3. VisitInv
  BY DEF Init, VisitInv, WaitInv, CarriedInv, BusyInv, ReachInv, NextOf, BeforeRun, Running, Loop
<1> QED BY <1>1, <1>2, <1>3 DEF ScoreInv

LEMMA ScoreHolds == ASSUME Straight PROVE Spec => []ScoreInv
BY ScoreInit, ScoreStep, PTL DEF Spec

(* A score without loops and buttons, whose intervals have a minimal       *)
(* duration, leaves every interval that is not played at its beginning.    *)
THEOREM StoppedStayAtZeroHolds ==
  ASSUME Straight PROVE Spec => []StoppedStayAtZero
<1>1. ScoreInv => StoppedStayAtZero
  BY DEF ScoreInv, CausalInv, IntervalInv, StoppedStayAtZero
<1> QED BY <1>1, ScoreHolds, PTL

-----------------------------------------------------------------------------
(* Minimal durations, in a score that does not play backwards.             *)
Forward == \A i \in Intervals : Speed[i] >= 0

(* The end of an interval is PENDING only past its minimum, less the       *)
(* instant that quantization takes back; no interval is given an earlier   *)
(* date to end at, and one that is given the last instant before its       *)
(* minimum has reached that minimum before.                                *)
Taken(i) == IF sync[EndSync(i)].dated THEN 1 ELSE 0
EndInv(i) ==
    event_status[StartEv[i]] # "DISPOSED_FINISHED" =>
        /\ event_status[EndEv[i]] = "PENDING" => itv[i].date >= Min[i] - Taken(i)
        /\ end_map[i] >= Min[i] - 1
        /\ end_map[i] < Min[i] =>
              \/ event_status[EndEv[i]] = "PENDING" /\ sync[EndSync(i)].dated
              \/ event_status[EndEv[i]] \in Finished
DateInv ==
    /\ pc.phase = "stopped" => \A i \in Intervals : end_map[i] = Infinite
    /\ \A i \in Intervals : EndInv(i)

(* What DateInv is about, apart from the loop.                             *)
LEMMA DateTypes ==
  ASSUME ScoreInv, NEW i \in Intervals
  PROVE  /\ StartEv[i] \in Events /\ EndEv[i] \in Events /\ EndSync(i) \in Syncs
         /\ Min[i] \in Nat /\ Max[i] \in Nat /\ Min[i] <= Max[i] /\ Min[i] <= Infinite
         /\ Min[i] > 0 /\ Infinite \in Nat /\ end_map[i] \in Int /\ itv[i].date \in Nat
         /\ Speed[i] \in Int
BY GraphAssumption DEF ScoreInv, Straight, BaseInv, TypeOK, EndSync

(* An interval that advances.                                              *)
LEMMA DateRun ==
  ASSUME ScoreInv, Forward, DateInv, NEW i \in running, NEW t \in Nat,
         RunInterval(i, t), pc.phase # "stopped"
  PROVE  DateInv'
<1> USE GraphAssumption
<1>1. /\ UNCHANGED <<event_status, sync, end_map>> /\ pc'.phase = pc.phase
      /\ \A j \in Intervals \ {i} : itv'[j] = itv[j]
      /\ i \in Intervals
  BY RunCausal DEF RunInterval, Visited, Loop, ScoreInv, BaseInv, TypeOK
<1>2. ASSUME NEW j \in Intervals \ {i} PROVE EndInv(j)'
  BY <1>1, <1>2 DEF DateInv, EndInv, Taken
<1>3. /\ itv'[i].date >= itv[i].date \/ itv'[i].date >= EndDate(i)
      /\ itv'[i].date \in Nat
  <2>1. /\ itv[i].date \in Nat /\ Speed[i] \in Nat /\ EndDate(i) \in Int
    BY <1>1, AdvanceType, DateTypes DEF Forward, ScoreInv, BaseInv
  <2>2. PICK p \in Nat : p = t * Speed[i]
    BY <2>1
  <2>3. itv'[i].date = IF Overshoot(i, t) = NoOvertick
                       THEN NonNegative(itv[i].date + t * Speed[i])
                       ELSE NonNegative(EndDate(i))
    BY <1>1 DEF RunInterval, ScoreInv, BaseInv, TypeOK
  <2>4. itv'[i].date \in Nat
    BY <1>1, <2>3, AdvanceType DEF ScoreInv, BaseInv
  <2> QED BY <2>1, <2>2, <2>3, <2>4 DEF NonNegative
<1>4. EndInv(i)'
  <2>1. EndInv(i) /\ event_status[StartEv[i]] = "HAPPENED_FINISHED"
        /\ event_status[EndEv[i]] \notin Finished
    BY <1>1 DEF DateInv, ScoreInv, CausalInv, IntervalInv, Finished
  <2> QED BY <1>1, <1>3, <2>1, DateTypes DEF EndInv, Taken, EndDate
<1> QED BY <1>1, <1>2, <1>4 DEF DateInv

(* The evaluation of a sync.                                               *)
LEMMA DateCheck ==
  ASSUME ScoreInv, DateInv, NEW n \in Syncs, Reached(n) \/ n \in waiting,
         NEW todo, CheckReady(n, todo), pc.phase # "stopped"
  PROVE  DateInv'
<1> USE GraphAssumption
<1>1. /\ \A e \in Events : event_status'[e] =
            IF e \in PendingEvents(n) THEN "PENDING" ELSE event_status[e]
      /\ UNCHANGED <<itv, end_map>>
      /\ sync' = [sync EXCEPT ![n].evaluating = IsReady(n)]
      /\ pc'.phase = pc.phase
  BY DEF CheckReady, Loop
<1>2. \A m \in Syncs : sync'[m].dated = sync[m].dated
  BY <1>1 DEF ScoreInv, BaseInv, TypeOK
<1>3. ASSUME NEW i \in Intervals PROVE EndInv(i)'
  <2>1. /\ StartEv[i] \in Events /\ EndEv[i] \in Events /\ EndSync(i) \in Syncs
        /\ EndInv(i) /\ IntervalInv(i)
    BY DateTypes DEF DateInv, ScoreInv, CausalInv
  <2>2. CASE EndEv[i] \in PendingEvents(n)
    <3>1. i \in PreviousIntervals(EndEv[i])
      BY DEF PreviousIntervals
    <3>2. /\ event_status[EndEv[i]] \in {"NONE", "PENDING"}
          /\ event_status[EndEv[i]] = "NONE" =>
                \/ event_status[StartEv[i]] = "DISPOSED_FINISHED"
                \/ itv[i].date >= Min[i]
          /\ i \in running \/ event_status[StartEv[i]] = "DISPOSED_FINISHED"
      BY <2>2, <3>1, PendingFacts
    <3>3. i \in running => event_status[StartEv[i]] = "HAPPENED_FINISHED"
      BY <2>1 DEF IntervalInv
    <3>4. StartEv[i] \notin PendingEvents(n)
      <4>1. SUFFICES ASSUME StartEv[i] \in PendingEvents(n) PROVE FALSE
        OBVIOUS
      <4> QED BY <2>2, <4>1, PendingFacts
    <3> QED BY <1>1, <1>2, <2>1, <2>2, <3>2, <3>3, <3>4, DateTypes DEF EndInv, Taken, Finished
  <2>3. CASE EndEv[i] \notin PendingEvents(n)
    <3>1. event_status'[StartEv[i]] # "DISPOSED_FINISHED" =>
             event_status[StartEv[i]] # "DISPOSED_FINISHED"
      <4>1. StartEv[i] \in PendingEvents(n) =>
               event_status[StartEv[i]] \in {"NONE", "PENDING"}
        BY PendingFacts
      <4> QED BY <1>1, <2>1, <4>1
    <3> QED BY <1>1, <1>2, <2>1, <2>3, <3>1 DEF EndInv, Taken
  <2> QED BY <2>2, <2>3
<1> QED BY <1>1, <1>3 DEF DateInv

(* The decision about a sync.                                              *)
LEMMA DateDecide ==
  ASSUME ScoreInv, DateInv, NEW n \in Syncs,
         TriggerAtMax(n) \/ NotTriggered(n) \/ Triggered(n)
  PROVE  DateInv'
<1> USE GraphAssumption, ScenarioAssumption
<1>1. /\ UNCHANGED <<event_status, itv>> /\ pc.cur = n
      /\ pc.phase # "stopped" /\ pc'.phase = pc.phase
  <2>1. /\ UNCHANGED <<event_status, itv>> /\ pc.cur = n
        /\ Return \/ \E max \in BOOLEAN : Execute(max)
    BY DEF TriggerAtMax, NotTriggered, Triggered, Quantize, Deciding, scenario_vars,
       ScoreInv, BaseInv, TypeOK, PcTypes
  <2>2. /\ pc = [phase |-> pc.phase, todo |-> pc.todo, cur |-> pc.cur,
               decided |-> pc.decided, pending |-> pc.pending, max |-> pc.max]
        /\ pc.phase # "stopped"
    BY <2>1 DEF ScoreInv, BaseInv, PcInv
  <2>3. \A max : Execute(max) => pc'.phase = pc.phase
    BY <2>2 DEF Execute
  <2>4. Return => pc'.phase = pc.phase
    BY DEF Return, Loop
  <2> QED BY <2>1, <2>2, <2>3, <2>4
<1>2. /\ \A m \in Syncs : sync'[m].dated = sync[m].dated \/ (m = n /\ sync'[m].dated)
      /\ \A i \in Intervals :
            \/ end_map'[i] \in {end_map[i], Infinite}
            \/ /\ EndSync(i) = n /\ sync'[n].dated /\ ~sync[n].dated
               /\ end_map'[i] \in Int /\ end_map'[i] >= itv[i].date - 1
  <2>1. \A m \in Syncs : CommittedSync(n)[m].dated = sync[m].dated
    BY DEF CommittedSync, ScoreInv, BaseInv, TypeOK
  <2>2. CASE UNCHANGED <<sync, end_map>>
    BY <2>2
  <2>3. CASE NotTriggered(n)
    BY <2>3 DEF NotTriggered, ScoreInv, BaseInv, TypeOK
  <2>4. CASE sync' = CommittedSync(n) /\ (UNCHANGED end_map \/
              end_map' = [i \in Intervals |->
                      IF i \in Incoming(n) THEN Infinite ELSE end_map[i]])
    BY <2>1, <2>4
  <2>5. CASE Quantize(n) /\ ~sync[n].dated
    <3>1. /\ \A m \in Syncs \ {n} : sync'[m].dated = sync[m].dated
          /\ sync'[n].dated
      BY <2>5 DEF Quantize, ScoreInv, BaseInv, TypeOK
    <3>2. tick.quantum \in Nat
      BY <2>5 DEF Quantize, ScoreInv, BaseInv, TypeOK
    <3>3. ASSUME NEW i \in Intervals
          PROVE  \/ end_map'[i] \in {end_map[i], Infinite}
                 \/ /\ EndSync(i) = n /\ sync'[n].dated /\ ~sync[n].dated
                    /\ end_map'[i] \in Int /\ end_map'[i] >= itv[i].date - 1
      <4>1. end_map'[i] = IF i \in Incoming(n) /\ end_map[i] = Infinite
                          THEN itv[i].date + tick.quantum - 1 ELSE end_map[i]
        BY <2>5 DEF Quantize
      <4> QED BY <2>5, <3>1, <3>2, <4>1, DateTypes DEF Incoming
    <3> QED BY <3>1, <3>3
  <2>6. CASE Triggered(n)
    <3>1. \/ UNCHANGED <<sync, end_map>>
          \/ /\ sync' = CommittedSync(n)
             /\ \/ UNCHANGED end_map
                \/ end_map' = [i \in Intervals |->
                        IF i \in Incoming(n) THEN Infinite ELSE end_map[i]]
          \/ Quantize(n) /\ ~sync[n].dated
      BY <2>6 DEF Triggered
    <3> QED BY <2>2, <2>4, <2>5, <3>1
  <2> QED BY <2>2, <2>3, <2>6 DEF TriggerAtMax, scenario_vars
<1>3. ASSUME NEW i \in Intervals PROVE EndInv(i)'
  <2>1. EndInv(i) /\ EndSync(i) \in Syncs
    BY DateTypes DEF DateInv
  <2>2. EndSync(i) = n => event_status[EndEv[i]] = "PENDING"
    BY <1>1, DateTypes DEF ScoreInv, VisitInv, BusyInv, EventsOf, EndSync
  <2>3. \/ sync'[EndSync(i)].dated = sync[EndSync(i)].dated
        \/ EndSync(i) = n /\ sync'[EndSync(i)].dated
    BY <1>2, <2>1
  <2> QED BY <1>1, <1>2, <2>1, <2>2, <2>3, DateTypes DEF EndInv, Taken
<1> QED BY <1>1, <1>3 DEF DateInv

(* A scenario that is not exclusive resets nothing when a sync executes.   *)
LEMMA TriggerFlags ==
  ASSUME ScoreInv, NEW n \in Syncs, NEW happened, TriggerSync(n, happened)
  PROVE  /\ sync' = [m \in Syncs |-> IF m = n THEN ExecutedSync ELSE sync[m]]
         /\ \A i \in Intervals : end_map'[i] = end_map[i]
<1>1. Resetting(OtherActive(n)).syncs = {} /\ Resetting(OtherActive(n)).intervals = {}
  <2>1. OtherActive(n) = {}
    BY DEF OtherActive, ScoreInv, CausalInv
  <2> QED BY <2>1 DEF Resetting, AdjacentIntervals
<1>2. /\ sync' = [m \in Syncs |->
            IF m \in Resetting(OtherActive(n)).syncs THEN ResetSync
            ELSE IF m = n THEN ExecutedSync ELSE sync[m]]
      /\ end_map' = [i \in Intervals |->
            IF i \in Resetting(OtherActive(n)).intervals THEN Infinite ELSE end_map[i]]
  BY DEF TriggerSync
<1> QED BY <1>1, <1>2

(* The execution of a sync.                                                *)
LEMMA DateTrigger ==
  ASSUME ScoreInv, DateInv, NEW n \in Syncs, NEW happened \in SUBSET pc.pending,
         TriggerSync(n, happened)
  PROVE  DateInv'
<1> USE GraphAssumption, ScenarioAssumption
<1>1. PICK disposed \in SUBSET Events : Outcome(n, happened, disposed)
  BY TriggerFacts
<1> USE DEF Outcome
<1>2. pc.phase # "stopped" /\ pc'.phase = pc.phase
  BY DEF TriggerSync, Return, Loop, ScoreInv, BaseInv, PcInv
<1>3. /\ \A m \in Syncs \ {n} : sync'[m] = sync[m]
      /\ \A i \in Intervals : end_map'[i] = end_map[i]
  BY TriggerFlags
<1>4. ASSUME NEW i \in Intervals PROVE EndInv(i)'
  <2>1. EndInv(i) /\ IntervalInv(i) /\ EndSync(i) = SyncOf[EndEv[i]]
    BY DEF DateInv, ScoreInv, CausalInv, EndSync
  <2>2. SUFFICES ASSUME event_status'[StartEv[i]] # "DISPOSED_FINISHED" PROVE EndInv(i)'
    BY DEF EndInv
  <2>3. event_status[StartEv[i]] # "DISPOSED_FINISHED" /\ StartEv[i] \notin disposed
    BY <1>1, <2>2, DateTypes
  <2>4. CASE EndEv[i] \in happened \cup disposed
    <3>1. event_status'[EndEv[i]] \in Finished
      BY <1>1, <2>4, DateTypes DEF Finished
    <3> QED BY <1>3, <2>1, <2>3, <3>1 DEF EndInv, Finished
  <2>5. CASE EndEv[i] \notin happened \cup disposed
    <3>1. EndSync(i) # n
      BY <1>1, <2>1, <2>5, DateTypes DEF EventsOf
    <3>2. event_status'[EndEv[i]] = event_status[EndEv[i]]
      BY <1>1, <2>5, DateTypes
    <3>3. event_status[EndEv[i]] = "PENDING" => itv'[i] = itv[i]
      <4>1. event_status[EndEv[i]] = "PENDING" => StartEv[i] \notin happened
        BY <1>1, <2>1 DEF IntervalInv, Finished
      <4> QED BY <1>1, <2>5, <4>1 DEF NextOf, StoppedBy
    <3> QED BY <1>3, <2>1, <2>3, <3>1, <3>2, <3>3, DateTypes DEF EndInv, Taken
  <2> QED BY <2>4, <2>5
<1> QED BY <1>2, <1>4 DEF DateInv

(* The commands, and the visit of a start sync.                            *)
LEMMA DateCommand ==
  ASSUME ScoreInv, DateInv,
         \/ Start \/ Stop \/ UNCHANGED vars
         \/ \E n \in Clickable : StartTriggerRequest(n)
         \/ \E length \in Ticks, quantum \in {NoDate} \cup Quanta :
               BeginTick(length, quantum)
         \/ \E n \in Syncs : VisitRoot(n)
  PROVE  DateInv'
<1> USE GraphAssumption, ScenarioAssumption
<1>1. CASE UNCHANGED vars \/ \E n \in Clickable : StartTriggerRequest(n)
  <2>1. UNCHANGED <<event_status, itv, sync, end_map, pc>>
    BY <1>1 DEF StartTriggerRequest, vars, scenario_vars
  <2> QED BY <2>1 DEF DateInv, EndInv, Taken
<1>2. CASE Start \/ Stop
  <2>1. \A e \in Events : event_status'[e] = "NONE"
    BY <1>2 DEF Start, Stop
  <2>2. \A i \in Intervals : end_map'[i] = Infinite
    BY <1>2 DEF Start, Stop, In, DateInv
  <2> QED BY <2>1, <2>2, DateTypes DEF DateInv, EndInv, Taken
<1>3. CASE \E length \in Ticks, quantum \in {NoDate} \cup Quanta :
               BeginTick(length, quantum)
  <2>1. UNCHANGED <<event_status, itv, sync, end_map>> /\ pc'.phase = "roots"
    BY <1>3 DEF BeginTick, Loop
  <2> QED BY <2>1 DEF DateInv, EndInv, Taken
<1>4. ASSUME NEW n \in Syncs, VisitRoot(n) PROVE DateInv'
  <2>1. pc'.phase = "roots"
    BY <1>4 DEF VisitRoot, Visited, In, Loop
  <2>2. CASE UNCHANGED <<event_status, itv, running, waiting, end_map>>
    <3>1. \A m \in Syncs : sync'[m].dated = sync[m].dated
      <4>1. sync' = [sync EXCEPT ![n].observing = @ \/ Trigger[n] = "expr"]
        BY <1>4, <2>2 DEF VisitRoot
      <4> QED BY <4>1 DEF ScoreInv, BaseInv, TypeOK
    <3> QED BY <2>1, <2>2, <3>1, DateTypes DEF DateInv, EndInv, Taken
  <2>3. CASE /\ \A e \in Events : event_status'[e] =
                    IF SyncOf[e] \in Component[n] THEN "NONE" ELSE event_status[e]
             /\ \A i \in Intervals :
                    IF EndSync(i) \in Component[n]
                    THEN itv'[i] = StoppedInterval /\ i \notin running' /\ end_map'[i] = Infinite
                    ELSE itv'[i] = itv[i] /\ end_map'[i] = end_map[i]
                         /\ (i \in running' <=> i \in running)
             /\ n \in Component[n]
             /\ \A i \in Intervals :
                    StartSync(i) \in Component[n] <=> EndSync(i) \in Component[n]
             /\ sync' = [m \in Syncs |->
                    IF m = n THEN RestartedSync(n)
                    ELSE IF m \in Component[n] THEN ResetSync ELSE sync[m]]
    <3>1. ASSUME NEW i \in Intervals PROVE EndInv(i)'
      <4>1. CASE EndSync(i) \in Component[n]
        BY <2>3, <4>1, DateTypes DEF EndInv, EndSync
      <4>2. CASE EndSync(i) \notin Component[n]
        <5>1. /\ event_status'[StartEv[i]] = event_status[StartEv[i]]
              /\ event_status'[EndEv[i]] = event_status[EndEv[i]]
          BY <2>3, <4>2, DateTypes DEF StartSync, EndSync
        <5>2. sync'[EndSync(i)] = sync[EndSync(i)]
          BY <2>3, <4>2, DateTypes
        <5> QED BY <2>3, <4>2, <5>1, <5>2 DEF DateInv, EndInv, Taken
      <4> QED BY <4>1, <4>2
    <3> QED BY <2>1, <3>1 DEF DateInv
  <2> QED BY <1>4, <2>2, <2>3, RestartCausal
<1> QED BY <1>1, <1>2, <1>3, <1>4

(* Every step preserves it.                                                *)
LEMMA DateStep ==
  ASSUME Forward PROVE ScoreInv /\ DateInv /\ [Next]_vars => DateInv'
<1> SUFFICES ASSUME ScoreInv, DateInv, [Next]_vars PROVE DateInv'
  OBVIOUS
<1> USE GraphAssumption, ScenarioAssumption
<1>1. Playable = {} /\ to_start = {} /\ to_stop = {}
  BY DEF ScoreInv, Straight, CausalInv
<1>2. CASE UNCHANGED <<event_status, itv, sync, end_map>>
           /\ pc'.phase # "stopped"
  BY <1>2 DEF DateInv, EndInv, Taken
<1>3. CASE \E n \in Syncs, happened \in SUBSET pc.pending : TriggerSync(n, happened)
  BY <1>3, DateTrigger
<1>4. CASE \E n \in Syncs : TriggerAtMax(n) \/ NotTriggered(n) \/ Triggered(n)
  BY <1>4, DateDecide
<1>5. ASSUME NEW n \in Syncs, VisitSync(n) PROVE DateInv'
  <2>1. /\ pc.phase \in {"waiting", "sync"} /\ n \in pc.todo
        /\ CheckReady(n, pc.todo \ {n})
    BY <1>5 DEF VisitSync, In
  <2>2. Reached(n) \/ n \in waiting
    BY <2>1 DEF ScoreInv, VisitInv, WaitInv, ReachInv
  <2> QED BY <2>1, <2>2, DateCheck
<1>6. ASSUME NEW i \in Intervals, VisitMusical(i) PROVE DateInv'
  <2>1. pc.phase = "musical" /\ i \in running
    BY <1>6 DEF VisitMusical, In, ScoreInv, VisitInv, ReachInv, Running
  <2>2. EndSync(i) \in Syncs /\ Reached(EndSync(i))
    BY <2>1 DEF EndSync, Reached, Incoming
  <2>3. CASE pc' = Visited(i) /\ UNCHANGED scenario_vars
    BY <1>2, <2>1, <2>3 DEF Visited, Loop, scenario_vars
  <2> QED BY <1>6, <2>1, <2>2, <2>3, DateCheck DEF VisitMusical
<1>7. ASSUME NEW i \in Intervals, VisitRunning(i) \/ VisitNext(i) PROVE DateInv'
  <2>1. /\ pc.phase \in {"run", "propagate"} /\ i \in running
        /\ StartSync(i) \in Syncs /\ tick.length \in Nat
        /\ overticks[StartSync(i)] \in Nat \cup {NoOvertick}
    <3>1. StartSync(i) \in Syncs
      BY DEF StartSync
    <3>2. pc.phase \in {"run", "propagate"} /\ i \in running
      BY <1>7 DEF VisitRunning, VisitNext, In, ScoreInv, VisitInv, ReachInv, Running
    <3> QED BY <3>1, <3>2 DEF ScoreInv, BaseInv, TypeOK
  <2>2. CASE pc' = Visited(i) /\ UNCHANGED scenario_vars
    BY <1>2, <2>1, <2>2 DEF Visited, Loop, scenario_vars
  <2>3. CASE VisitRunning(i)
    BY <2>1, <2>3, DateRun DEF VisitRunning
  <2>4. CASE VisitNext(i)
    BY <2>1, <2>2, <2>4, DateRun DEF VisitNext
  <2> QED BY <1>7, <2>3, <2>4
<1>8. CASE \/ RootsVisited \/ WaitingVisited \/ ToStartVisited \/ ToStopVisited
           \/ MusicalVisited \/ RunVisited \/ NextVisited \/ SyncsVisited
  <2>1. UNCHANGED <<event_status, itv, sync, end_map>> /\ pc'.phase # "stopped"
    BY <1>8 DEF RootsVisited, WaitingVisited, ToStartVisited, ToStopVisited,
       MusicalVisited, RunVisited, NextVisited, SyncsVisited, scenario_vars, Loop
  <2> QED BY <1>2, <2>1
<1>9. CASE \/ Start \/ Stop \/ UNCHANGED vars
           \/ \E n \in Clickable : StartTriggerRequest(n)
           \/ \E length \in Ticks, quantum \in {NoDate} \cup Quanta :
                 BeginTick(length, quantum)
           \/ \E n \in Syncs : VisitRoot(n)
  BY <1>9, DateCommand
<1> QED BY <1>1, <1>3, <1>4, <1>5, <1>6, <1>7, <1>8, <1>9 DEF Next, TickStep, Command

LEMMA DateHolds ==
  ASSUME Straight, Forward PROVE Spec => []ScoreInv /\ []DateInv
<1>1. Init => DateInv
  <2> SUFFICES ASSUME Init PROVE DateInv
    OBVIOUS
  <2>1. ASSUME NEW i \in Intervals PROVE EndInv(i)
    BY ScoreInit, DateTypes, GraphAssumption DEF Init, EndInv
  <2> QED BY <2>1 DEF Init, DateInv
<1> QED BY <1>1, ScoreHolds, DateStep, PTL DEF Spec

(* A sync of such a score executes only when each interval that leads to   *)
(* it has played for its minimal duration, whatever is clicked, quantized  *)
(* or disposed (is_timesync_ready, quantize_time_sync).                    *)
THEOREM ReadyWhenExecutingHolds ==
  ASSUME Straight, Forward PROVE Spec => []ReadyWhenExecuting
<1>1. ScoreInv /\ DateInv => ReadyWhenExecuting
  <2> SUFFICES ASSUME ScoreInv, DateInv, pc.decided, NEW i \in Incoming(pc.cur)
               PROVE  \/ event_status[StartEv[i]] \in Disposed
                      \/ itv[i].date >= Min[i] - TakenBack(pc.cur)
    BY DEF ReadyWhenExecuting
  <2>1. i \in Intervals /\ EndSync(i) = pc.cur /\ event_status[EndEv[i]] = "PENDING"
    BY DateTypes, GraphAssumption, ScenarioAssumption
       DEF Incoming, ScoreInv, VisitInv, BusyInv, EventsOf, EndSync
  <2> QED BY <2>1 DEF DateInv, EndInv, Taken, TakenBack, Disposed
<1> QED BY <1>1, DateHolds, PTL

-----------------------------------------------------------------------------
(* Evaluations, in such a score.                                           *)

(* A sync that is evaluated waits, or an interval that runs leads to it;   *)
(* one that has a date to trigger at is met again in the tick that set it. *)
Visits(n) ==
    \/ pc.phase \in Running /\ n \in end_nodes
    \/ pc.phase = "sync" /\ n \in pc.todo \cup retry \cup {pc.cur}
AllPending(n) == \A e \in EventsOf(n) : event_status[e] = "PENDING"
SyncInv(n) ==
    /\ sync[n].evaluating => Reached(n) /\ AllPending(n)
    /\ sync[n].dated => Visits(n) /\ AllPending(n)
EvalInv == \A n \in Syncs \ waiting : SyncInv(n)

(* The evaluation of a sync.                                               *)
LEMMA EvalCheck ==
  ASSUME ScoreInv, EvalInv, NEW n \in Syncs, NEW todo, CheckReady(n, todo),
         \/ pc.phase = "waiting" /\ n \in waiting
         \/ pc.phase = "sync" /\ Reached(n)
         \/ pc.phase = "musical" /\ Reached(n) /\ end_nodes' = end_nodes \cup {n},
         pc.phase = "musical" \/ (todo = pc.todo \ {n} /\ todo \subseteq Syncs),
         pc.cur = None
  PROVE  EvalInv'
<1> USE GraphAssumption, ScenarioAssumption
<1>1. /\ \A e \in Events : event_status[e] = "PENDING" => event_status'[e] = "PENDING"
      /\ UNCHANGED <<running, waiting, retry>>
      /\ pc'.phase = pc.phase /\ pc'.todo = todo /\ pc'.cur \in {n, None}
  BY CheckReadyFacts
<1>2. /\ sync' = [sync EXCEPT ![n].evaluating = IsReady(n)]
      /\ IsReady(n) => pc'.cur = n /\ pc'.pending = PendingEvents(n)
      /\ IsReady(n) \in BOOLEAN
  BY DEF CheckReady, IsReady
<1>3. /\ \A m \in Syncs \ {n} : sync'[m] = sync[m]
      /\ sync'[n].evaluating = IsReady(n) /\ sync'[n].dated = sync[n].dated
  BY <1>2 DEF ScoreInv, BaseInv, TypeOK
<1>4. BusyInv'
  BY CheckReadyFacts
<1>5. AllPending(n) => IsReady(n)
  BY DEF AllPending, IsReady, PendingEvents, ActiveEvents, EventsOf
<1>6. ASSUME NEW m \in Syncs \ waiting, m # n PROVE SyncInv(m)'
  <2>1. SyncInv(m)
    BY <1>6 DEF EvalInv
  <2>2. AllPending(m) => AllPending(m)'
    BY <1>1 DEF AllPending, EventsOf
  <2>3. Visits(m) => Visits(m)'
    BY <1>1, <1>6 DEF Visits, Running
  <2> QED BY <1>1, <1>3, <1>6, <2>1, <2>2, <2>3 DEF SyncInv, Reached
<1>7. ASSUME n \notin waiting PROVE SyncInv(n)'
  <2>1. SyncInv(n) /\ Reached(n)
    BY <1>7 DEF EvalInv
  <2>2. IsReady(n) => AllPending(n)'
    BY <1>2, <1>4 DEF BusyInv, AllPending
  <2>3. sync[n].dated => AllPending(n)' /\ IsReady(n)
    BY <1>5, <2>1, <2>2 DEF SyncInv
  <2>4. IsReady(n) => Visits(n)'
    BY <1>1, <1>2, <1>7 DEF Visits, Running
  <2> QED BY <1>1, <1>3, <2>1, <2>2, <2>3, <2>4 DEF SyncInv, Reached
<1> QED BY <1>1, <1>6, <1>7 DEF EvalInv

(* The decision about a sync.                                              *)
LEMMA EvalDecide ==
  ASSUME ScoreInv, EvalInv, NEW n \in Syncs,
         TriggerAtMax(n) \/ NotTriggered(n) \/ Triggered(n)
  PROVE  EvalInv'
<1> USE GraphAssumption, ScenarioAssumption
<1>1. /\ UNCHANGED <<event_status, running, waiting, end_nodes>>
      /\ pc.cur = n /\ retry \subseteq retry'
      /\ Return \/ \E max \in BOOLEAN : Execute(max)
  BY DEF TriggerAtMax, NotTriggered, Triggered, Quantize, Deciding, scenario_vars,
     ScoreInv, BaseInv, TypeOK, PcTypes
<1>2. pc = [phase |-> pc.phase, todo |-> pc.todo, cur |-> pc.cur,
            decided |-> pc.decided, pending |-> pc.pending, max |-> pc.max]
  BY DEF ScoreInv, BaseInv, PcInv
<1>3. /\ \A max : Execute(max) => pc'.phase = pc.phase /\ pc'.todo = pc.todo /\ pc'.cur = n
      /\ Return => pc'.phase = pc.phase /\ pc'.todo = pc.todo /\ pc'.cur = None
  <2>1. \A max : Execute(max) => pc'.phase = pc.phase /\ pc'.todo = pc.todo /\ pc'.cur = n
    BY <1>1, <1>2 DEF Execute
  <2> QED BY <2>1 DEF Return, Loop
<1>4. AtFakeMax(n)
  BY DEF AtFakeMax, Incoming, ScoreInv, CausalInv, StatusInv
<1>5. /\ \A m \in Syncs \ {n} : sync'[m] = sync[m]
      /\ sync'[n].evaluating = sync[n].evaluating
      /\ sync'[n].dated /\ pc.phase = "sync" => n \in retry' \/ pc'.cur = n
  <2>1. CASE TriggerAtMax(n)
    BY <1>1, <1>3, <2>1 DEF TriggerAtMax, scenario_vars
  <2>2. CASE NotTriggered(n)
    BY <2>2 DEF NotTriggered, Committed, ScoreInv, BaseInv, TypeOK
  <2>3. /\ \A m \in Syncs \ {n} : CommittedSync(n)[m] = sync[m]
        /\ CommittedSync(n)[n].evaluating = sync[n].evaluating
        /\ CommittedSync(n)[n].dated = sync[n].dated
    BY DEF CommittedSync, ScoreInv, BaseInv, TypeOK
  <2>4. CASE Triggered(n)
    <3>1. CASE Quantize(n)
      BY <3>1 DEF Quantize, ScoreInv, BaseInv, TypeOK
    <3>2. CASE UNCHANGED sync /\ pc.phase = "musical"
      BY <3>2
    <3>3. CASE /\ sync' = CommittedSync(n)
               /\ (\E max \in BOOLEAN : Execute(max)) \/ ~sync[n].dated
      BY <1>3, <2>3, <3>3
    <3> QED BY <1>4, <2>4, <3>1, <3>2, <3>3 DEF Triggered
  <2> QED BY <2>1, <2>2, <2>4
<1>6. pc.phase \in {"waiting", "musical", "sync"} /\ AllPending(n)
      /\ (pc.phase = "musical" => n \in end_nodes)
      /\ (pc.phase = "waiting" => n \in waiting)
  BY <1>1 DEF ScoreInv, BaseInv, PcInv, VisitInv, WaitInv, ReachInv, BusyInv, AllPending
<1>7. ASSUME NEW m \in Syncs \ waiting PROVE SyncInv(m)'
  <2>1. SyncInv(m) /\ (AllPending(m) => AllPending(m)') /\ (Reached(m) => Reached(m)')
    BY <1>1 DEF EvalInv, AllPending, EventsOf, Reached
  <2>2. CASE m # n
    <3>1. Visits(m) => Visits(m)'
      BY <1>1, <1>3, <2>2 DEF Visits, Running
    <3> QED BY <1>5, <2>1, <2>2, <3>1 DEF SyncInv
  <2>3. CASE m = n
    <3>1. sync'[n].dated => Visits(n)'
      BY <1>1, <1>3, <1>5, <1>6, <2>3 DEF Visits, Running
    <3> QED BY <1>5, <1>6, <2>1, <2>3, <3>1 DEF SyncInv
  <2> QED BY <2>2, <2>3
<1> QED BY <1>1, <1>7 DEF EvalInv

(* The execution of a sync.                                                *)
LEMMA EvalTrigger ==
  ASSUME ScoreInv, EvalInv, NEW n \in Syncs, NEW happened \in SUBSET pc.pending,
         TriggerSync(n, happened)
  PROVE  EvalInv'
<1> USE GraphAssumption, ScenarioAssumption
<1>1. PICK disposed \in SUBSET Events : Outcome(n, happened, disposed)
  BY TriggerFacts
<1> USE DEF Outcome
<1>2. /\ pc.cur = n /\ UNCHANGED end_nodes
      /\ pc'.phase = pc.phase /\ pc'.todo = pc.todo
      /\ waiting \subseteq waiting' \cup {n} /\ retry \subseteq retry' \cup {n}
  BY DEF TriggerSync, Return, Loop
<1>3. /\ \A m \in Syncs \ {n} : sync'[m] = sync[m]
      /\ ~sync'[n].evaluating /\ ~sync'[n].dated
  BY TriggerFlags DEF ExecutedSync, ResetSync
<1>4. ASSUME NEW m \in Syncs \ waiting, m # n PROVE SyncInv(m)'
  <2>1. AllPending(m) => AllPending(m)'
    <3>1. \A e \in EventsOf(m) : e \in Events /\ e \notin EventsOf(n)
      BY <1>4 DEF EventsOf
    <3>2. \A e \in EventsOf(m) : event_status[e] = "PENDING" => event_status'[e] = "PENDING"
      BY <1>1, <3>1
    <3> QED BY <3>2 DEF AllPending, EventsOf
  <2>2. Reached(m) /\ AllPending(m) => Reached(m)'
    <3>1. ASSUME NEW i \in Incoming(m) \cap running, AllPending(m) PROVE i \in running'
      <4>1. i \in Intervals /\ EndEv[i] \in EventsOf(m) /\ EndEv[i] \notin EventsOf(n)
        BY <1>4 DEF Incoming, EndSync, EventsOf
      <4>2. EndEv[i] \notin happened \cup disposed
        BY <1>1, <3>1, <4>1 DEF AllPending
      <4> QED BY <1>1, <4>2 DEF StoppedBy
    <3> QED BY <3>1 DEF Reached, Incoming
  <2>3. Visits(m) => Visits(m)'
    BY <1>2, <1>4 DEF Visits, Running
  <2> QED BY <1>3, <1>4, <2>1, <2>2, <2>3 DEF EvalInv, SyncInv
<1>5. SyncInv(n)'
  BY <1>3 DEF SyncInv
<1>6. \A m \in Syncs \ waiting' : m = n \/ m \notin waiting
  BY <1>2
<1> QED BY <1>4, <1>5, <1>6 DEF EvalInv

(* The commands, and the visit of a start sync.                            *)
LEMMA EvalCommand ==
  ASSUME ScoreInv, EvalInv,
         \/ Start \/ Stop \/ UNCHANGED vars
         \/ \E n \in Clickable : StartTriggerRequest(n)
         \/ \E length \in Ticks, quantum \in {NoDate} \cup Quanta :
               BeginTick(length, quantum)
         \/ \E n \in Syncs : VisitRoot(n)
  PROVE  EvalInv'
<1> USE GraphAssumption, ScenarioAssumption
<1>1. CASE UNCHANGED vars \/ \E n \in Clickable : StartTriggerRequest(n)
  <2>1. UNCHANGED <<event_status, running, sync, waiting, end_nodes, retry, pc>>
    BY <1>1 DEF StartTriggerRequest, vars, scenario_vars
  <2> QED BY <2>1 DEF EvalInv, SyncInv, AllPending, Visits, Reached
<1>2. CASE Start \/ Stop
  <2>1. \A n \in Syncs : ~sync'[n].evaluating /\ ~sync'[n].dated
    BY <1>2 DEF Start, Stop, ResetSync
  <2> QED BY <2>1 DEF EvalInv, SyncInv
<1>3. CASE \E length \in Ticks, quantum \in {NoDate} \cup Quanta :
               BeginTick(length, quantum)
  <2>1. /\ UNCHANGED <<event_status, sync, waiting>> /\ pc.phase = "idle"
        /\ running' = {i \in running : ~Over(i)}
    BY <1>3 DEF BeginTick, In
  <2>2. UNCHANGED running
    BY <2>1 DEF Over, ScoreInv, BaseInv, TypeOK, CausalInv, StatusInv
  <2> QED BY <2>1, <2>2 DEF EvalInv, SyncInv, AllPending, Visits, Running, Reached
<1>4. ASSUME NEW n \in Syncs, VisitRoot(n) PROVE EvalInv'
  <2>1. pc.phase = "roots"
    BY <1>4 DEF VisitRoot, In
  <2>2. CASE UNCHANGED <<event_status, itv, running, waiting, end_map>>
    <3>1. \A m \in Syncs : sync'[m].dated = sync[m].dated
                           /\ sync'[m].evaluating = sync[m].evaluating
      <4>1. sync' = [sync EXCEPT ![n].observing = @ \/ Trigger[n] = "expr"]
        BY <1>4, <2>2 DEF VisitRoot
      <4> QED BY <4>1 DEF ScoreInv, BaseInv, TypeOK
    <3> QED BY <2>1, <2>2, <3>1 DEF EvalInv, SyncInv, AllPending, Visits, Running, Reached
  <2>3. CASE /\ \A e \in Events : event_status'[e] =
                    IF SyncOf[e] \in Component[n] THEN "NONE" ELSE event_status[e]
             /\ \A i \in Intervals :
                    IF EndSync(i) \in Component[n]
                    THEN itv'[i] = StoppedInterval /\ i \notin running' /\ end_map'[i] = Infinite
                    ELSE itv'[i] = itv[i] /\ end_map'[i] = end_map[i]
                         /\ (i \in running' <=> i \in running)
             /\ waiting' = waiting \cup {n} /\ n \in Component[n]
             /\ sync' = [m \in Syncs |->
                    IF m = n THEN RestartedSync(n)
                    ELSE IF m \in Component[n] THEN ResetSync ELSE sync[m]]
    <3>1. ASSUME NEW m \in Syncs \ waiting' PROVE SyncInv(m)'
      <4>1. CASE m \in Component[n]
        BY <2>3, <3>1, <4>1 DEF SyncInv, ResetSync
      <4>2. CASE m \notin Component[n]
        <5>1. SyncInv(m) /\ sync'[m] = sync[m]
          BY <2>3, <3>1, <4>2 DEF EvalInv
        <5>2. AllPending(m) => AllPending(m)'
          BY <2>3, <4>2 DEF AllPending, EventsOf
        <5>3. Reached(m) => Reached(m)'
          BY <2>3, <4>2 DEF Reached, Incoming
        <5> QED BY <2>1, <5>1, <5>2, <5>3 DEF SyncInv, Visits, Running
      <4> QED BY <4>1, <4>2
    <3> QED BY <3>1 DEF EvalInv
  <2> QED BY <1>4, <2>2, <2>3, RestartCausal
<1> QED BY <1>1, <1>2, <1>3, <1>4

(* Every step preserves it.                                                *)
LEMMA EvalStep == ScoreInv /\ EvalInv /\ [Next]_vars => EvalInv'
<1> SUFFICES ASSUME ScoreInv, EvalInv, [Next]_vars PROVE EvalInv'
  OBVIOUS
<1> USE GraphAssumption, ScenarioAssumption
<1>1. Playable = {} /\ to_start = {} /\ to_stop = {}
  BY DEF ScoreInv, Straight, CausalInv
<1>2. ASSUME UNCHANGED <<event_status, running, sync, waiting>>,
             \A m \in Syncs : Visits(m) => Visits(m)'
      PROVE  EvalInv'
  BY <1>2 DEF EvalInv, SyncInv, AllPending, Reached
<1>3. CASE \E n \in Syncs, happened \in SUBSET pc.pending : TriggerSync(n, happened)
  BY <1>3, EvalTrigger
<1>4. CASE \E n \in Syncs : TriggerAtMax(n) \/ NotTriggered(n) \/ Triggered(n)
  BY <1>4, EvalDecide
<1>5. ASSUME NEW n \in Syncs, VisitSync(n) PROVE EvalInv'
  <2>1. /\ pc.phase \in {"waiting", "sync"} /\ n \in pc.todo /\ pc.cur = None
        /\ CheckReady(n, pc.todo \ {n})
    BY <1>5 DEF VisitSync, In
  <2>2. /\ pc.phase = "waiting" => n \in waiting /\ pc.todo \subseteq Syncs
        /\ pc.phase = "sync" => Reached(n) /\ pc.todo \subseteq Syncs
    BY <2>1 DEF ScoreInv, BaseInv, TypeOK, VisitInv, WaitInv, ReachInv
  <2> QED BY <2>1, <2>2, EvalCheck
<1>6. ASSUME NEW i \in Intervals, VisitMusical(i) PROVE EvalInv'
  <2>1. pc.phase = "musical" /\ pc.cur = None /\ i \in running
    BY <1>6 DEF VisitMusical, In, ScoreInv, VisitInv, ReachInv, Running
  <2>2. EndSync(i) \in Syncs /\ Reached(EndSync(i))
    BY <2>1 DEF EndSync, Reached, Incoming
  <2>3. CASE pc' = Visited(i) /\ UNCHANGED scenario_vars
    BY <1>2, <2>1, <2>3 DEF Visited, Loop, scenario_vars, Visits, Running
  <2> QED BY <1>6, <2>1, <2>2, <2>3, EvalCheck DEF VisitMusical
<1>7. ASSUME NEW i \in Intervals, VisitRunning(i) \/ VisitNext(i) PROVE EvalInv'
  <2>1. /\ pc.phase \in {"run", "propagate"} /\ i \in running
        /\ tick.length \in Nat
        /\ overticks[StartSync(i)] \in Nat \cup {NoOvertick}
    <3>1. StartSync(i) \in Syncs
      BY DEF StartSync
    <3>2. pc.phase \in {"run", "propagate"} /\ i \in running
      BY <1>7 DEF VisitRunning, VisitNext, In, ScoreInv, VisitInv, ReachInv, Running
    <3> QED BY <3>1, <3>2 DEF ScoreInv, BaseInv, TypeOK
  <2>2. CASE pc' = Visited(i) /\ UNCHANGED scenario_vars
    BY <1>2, <2>1, <2>2 DEF Visited, Loop, scenario_vars, Visits, Running
  <2>3. ASSUME NEW t \in Nat, RunInterval(i, t) PROVE EvalInv'
    <3>1. UNCHANGED <<event_status, running>>
      BY <2>1, <2>3, RunCausal
    <3>2. /\ UNCHANGED <<sync, waiting>> /\ pc'.phase = pc.phase
          /\ end_nodes \subseteq end_nodes'
      BY <2>3 DEF RunInterval, Visited, Loop
    <3> QED BY <1>2, <2>1, <3>1, <3>2 DEF Visits, Running
  <2>4. CASE VisitRunning(i)
    BY <2>1, <2>3, <2>4 DEF VisitRunning
  <2>5. CASE VisitNext(i)
    BY <2>1, <2>2, <2>3, <2>5 DEF VisitNext
  <2> QED BY <1>7, <2>4, <2>5
<1>8. CASE \/ RootsVisited \/ WaitingVisited \/ ToStartVisited \/ ToStopVisited
           \/ MusicalVisited \/ RunVisited \/ NextVisited \/ SyncsVisited
  <2>1. UNCHANGED <<event_status, running, sync, waiting>>
    BY <1>8 DEF RootsVisited, WaitingVisited, ToStartVisited, ToStopVisited,
       MusicalVisited, RunVisited, NextVisited, SyncsVisited, scenario_vars
  <2>2. ASSUME NEW m \in Syncs, Visits(m) PROVE Visits(m)'
    <3>1. CASE \/ RootsVisited \/ WaitingVisited \/ ToStartVisited \/ ToStopVisited
               \/ MusicalVisited \/ RunVisited
      BY <2>2, <3>1 DEF RootsVisited, WaitingVisited, ToStartVisited, ToStopVisited,
         MusicalVisited, RunVisited, Visits, Running, Loop, In, scenario_vars
    <3>2. CASE NextVisited
      BY <2>2, <3>2 DEF NextVisited, Visits, Running, Loop, In
    <3>3. CASE SyncsVisited
      BY <2>2, <3>3 DEF SyncsVisited, Visits, Running, Loop, In
    <3> QED BY <1>8, <3>1, <3>2, <3>3
  <2> QED BY <1>2, <2>1, <2>2
<1>9. CASE \/ Start \/ Stop \/ UNCHANGED vars
           \/ \E n \in Clickable : StartTriggerRequest(n)
           \/ \E length \in Ticks, quantum \in {NoDate} \cup Quanta :
                 BeginTick(length, quantum)
           \/ \E n \in Syncs : VisitRoot(n)
  BY <1>9, EvalCommand
<1> QED BY <1>1, <1>3, <1>4, <1>5, <1>6, <1>7, <1>8, <1>9 DEF Next, TickStep, Command

(* In such a score a sync shown as evaluating is one that the next tick    *)
(* visits: a click on it is looked at, whatever was quantized before.      *)
THEOREM EvaluatingReachableHolds ==
  ASSUME Straight, Forward PROVE Spec => []EvaluatingReachable
<1>1. Init => EvalInv
  BY DEF Init, EvalInv, SyncInv, ResetSync
<1>2. ScoreInv /\ DateInv /\ EvalInv => EvaluatingReachable
  <2> SUFFICES ASSUME ScoreInv, DateInv, EvalInv, In("idle"),
                      NEW n \in Syncs \ waiting, sync[n].evaluating
               PROVE  \E i \in Incoming(n) \cap running : itv[i].date >= Min[i]
    BY DEF EvaluatingReachable, Idle
  <2>1. SyncInv(n) /\ ~sync[n].dated
    BY DEF EvalInv, SyncInv, Visits, Running, In
  <2>2. PICK i \in Incoming(n) \cap running : i \in Intervals
    BY <2>1 DEF SyncInv, Reached, Incoming
  <2>3. EndSync(i) = n /\ event_status[EndEv[i]] = "PENDING"
    BY <2>1, <2>2, DateTypes DEF Incoming, SyncInv, AllPending, EventsOf, EndSync
  <2>4. event_status[StartEv[i]] = "HAPPENED_FINISHED"
    BY <2>2 DEF ScoreInv, CausalInv, IntervalInv
  <2> QED BY <2>1, <2>2, <2>3, <2>4, DateTypes DEF DateInv, EndInv, Taken
<1> QED BY <1>1, <1>2, DateHolds, EvalStep, PTL DEF Spec

-----------------------------------------------------------------------------
(* The grid, in such a score.                                              *)

(* What a trigger leads to lasts as long in the scenario as in its own     *)
(* time: the grid is that of the scenario.                                 *)
UnitSpeed == \A i \in Intervals : EndSync(i) \in Rated => Speed[i] = 1

(* What process_this knows of the maximum is still true when it decides,   *)
(* and a quantized sync that it executes has a date.                       *)
DecideInv ==
    /\ \A n \in Syncs : Deciding(n) => (pc.max <=> AtMaximum(n))
    /\ \A n \in Rated : Executes(n) /\ Trigger[n] # "auto" =>
          sync[n].dated \/ AtMaximum(n)

(* A date comes from the grid point of this tick, an interval has one only *)
(* until its end is executed, and none moves before all of them are set.   *)
ToRun(i) == pc.phase = "musical" \/ (pc.phase = "run" /\ i \in pc.todo)
GridDates ==
    /\ tick.quantum < tick.length
    /\ pc.phase = "stopped" => \A i \in Intervals : end_map[i] = Infinite
    /\ \A n \in Syncs \ StartSyncs : sync[n].dated => tick.quantum # NoDate
    /\ \A i \in Intervals :
          end_map[i] # Infinite /\ ~Done(EndEv[i]) => sync[EndSync(i)].dated
    /\ \A i \in running : sync[EndSync(i)].dated /\ ToRun(i) =>
          end_map[i] = itv[i].date + tick.quantum - 1 /\ itv[i].date < Max[i]

(* What an interval that ends on the grid leaves of the tick.  The rest of *)
(* a tick is given to intervals whose end has no date.                     *)
Open(n) == \A e \in EventsOf(n) : ~Done(e)
GridRest(n) ==
    /\ pc.phase \in {"run", "propagate", "sync"} /\ Open(n) =>
          AtMaximum(n) \/ overticks[n] \in {NoOvertick, AfterGrid}
    /\ pc.phase = "run" /\ sync[n].dated =>
          \A i \in Incoming(n) \cap running :
              i \in pc.todo \/ AtMaximum(n) \/ overticks[n] = AfterGrid
GridOverticks ==
    /\ \A n \in StartSyncs : overticks[n] = NoOvertick
    /\ pc.phase \in BeforeRun \cup {"musical"} =>
          \A n \in Syncs : overticks[n] = NoOvertick
    /\ pc.phase \in BeforeRun \cup {"musical", "run"} =>
          \A e \in max_reached : SyncOf[e] \in StartSyncs
    /\ pc.phase = "propagate" => \A i \in pc.todo :
          StartSync(i) \in StartSyncs \/ event_status[EndEv[i]] = "NONE"
    /\ \A n \in Rated \ StartSyncs : GridRest(n)
GridInv == DecideInv /\ GridDates /\ GridOverticks

(* What a step may do to the sync that the loop is busy with.              *)
LEMMA BusySteps ==
  ASSUME BaseInv, [Next]_vars
  PROVE  \/ pc'.cur = None
         \/ UNCHANGED <<pc, itv, sync>>
         \/ \E n \in Syncs, todo \in SUBSET (Syncs \cup Intervals) :
               CheckReady(n, todo)
         \/ \E n \in Syncs : TriggerAtMax(n) \/ NotTriggered(n) \/ Triggered(n)
<1> USE DEF In, Loop, Visited
<1>1. ASSUME NEW n \in Syncs, VisitSync(n)
      PROVE  \E todo \in SUBSET (Syncs \cup Intervals) : CheckReady(n, todo)
  <2>1. pc.todo \subseteq Syncs \cup Intervals /\ CheckReady(n, pc.todo \ {n})
    BY <1>1 DEF VisitSync, BaseInv, TypeOK, PcTypes
  <2> QED BY <2>1
<1>2. ASSUME NEW i \in Intervals, VisitMusical(i)
      PROVE  \/ pc'.cur = None
             \/ \E n \in Syncs, todo \in SUBSET (Syncs \cup Intervals) :
                   CheckReady(n, todo)
  <2>1. pc.todo \subseteq Syncs \cup Intervals
    BY <1>2 DEF VisitMusical, BaseInv, TypeOK, PcTypes
  <2>2. EndSync(i) \in Syncs
    BY GraphAssumption DEF EndSync
  <2> QED BY <1>2, <2>1, <2>2 DEF VisitMusical
<1>3. CASE \E n \in Syncs, happened \in SUBSET pc.pending : TriggerSync(n, happened)
  BY <1>3 DEF TriggerSync, Return
<1>4. CASE Command
  BY <1>4 DEF Command, Start, Stop, BeginTick, RequestStartInterval,
     RequestStopInterval
<1>5. CASE \E n \in Clickable : StartTriggerRequest(n)
  BY <1>5 DEF StartTriggerRequest
<1>6. CASE \/ \E n \in Syncs : VisitRoot(n)
           \/ \E i \in Intervals : VisitRunning(i) \/ VisitNext(i)
           \/ \E r \in to_start : VisitToStart(r)
           \/ \E r \in to_stop : VisitToStop(r)
  <2>1. ASSUME NEW n \in Syncs, VisitRoot(n) PROVE pc'.cur = None
    BY <2>1 DEF VisitRoot
  <2>2. ASSUME NEW i \in Intervals, VisitRunning(i) \/ VisitNext(i)
        PROVE  pc'.cur = None
    BY <2>2 DEF VisitRunning, VisitNext, RunInterval
  <2>3. ASSUME NEW r \in to_start, VisitToStart(r) PROVE pc'.cur = None
    BY <2>3 DEF VisitToStart
  <2>4. ASSUME NEW r \in to_stop, VisitToStop(r) PROVE pc'.cur = None
    BY <2>4 DEF VisitToStop
  <2> QED BY <1>6, <2>1, <2>2, <2>3, <2>4
<1>7. CASE \/ RootsVisited \/ WaitingVisited \/ ToStartVisited \/ ToStopVisited
           \/ MusicalVisited \/ RunVisited \/ NextVisited \/ SyncsVisited
  BY <1>7 DEF RootsVisited, WaitingVisited, ToStartVisited, ToStopVisited,
     MusicalVisited, RunVisited, NextVisited, SyncsVisited
<1>8. CASE UNCHANGED vars
  BY <1>8 DEF vars, scenario_vars
<1> QED
  BY <1>1, <1>2, <1>3, <1>4, <1>5, <1>6, <1>7, <1>8 DEF Next, TickStep

(* The decision of process_this.                                           *)
LEMMA GridDecision == ScoreInv /\ DecideInv /\ [Next]_vars => DecideInv'
<1> SUFFICES ASSUME ScoreInv, DecideInv, [Next]_vars PROVE DecideInv'
  OBVIOUS
<1> USE GraphAssumption, ScenarioAssumption
<1>0. BaseInv
  BY DEF ScoreInv
<1>1. CASE pc'.cur = None
  BY <1>1 DEF DecideInv, Deciding, Executes
<1>2. CASE UNCHANGED <<pc, itv, sync>>
  BY <1>2 DEF DecideInv, Deciding, Executes, AtMaximum, Incoming
<1>3. ASSUME NEW n \in Syncs, NEW todo \in SUBSET (Syncs \cup Intervals),
             CheckReady(n, todo)
      PROVE  DecideInv'
  <2>1. IsReady(n) => (MaxReached(n) <=> AtMaximum(n))
    <3>1. IsReady(n) => PendingEvents(n) = EventsOf(n)
      BY DEF IsReady, ActiveEvents, EventsOf, ScoreInv, CausalInv, StatusInv
    <3> QED BY <3>1 DEF MaxReached, AtMaximum, Incoming, EventsOf, PreviousIntervals, EndSync
  <2>2. /\ pc'.decided = FALSE /\ pc'.cur \in {n, None}
        /\ pc'.cur = n => pc'.max = MaxReached(n) /\ IsReady(n)
    BY <1>3 DEF CheckReady, Loop
  <2>3. UNCHANGED itv
    BY <1>3 DEF CheckReady
  <2> QED BY <2>1, <2>2, <2>3 DEF DecideInv, Deciding, Executes, AtMaximum, Incoming
<1>4. ASSUME NEW n \in Syncs, TriggerAtMax(n) \/ NotTriggered(n) \/ Triggered(n)
      PROVE  DecideInv'
  <2>1. /\ pc.cur = n /\ ~pc.decided /\ UNCHANGED itv
        /\ pc = [phase |-> pc.phase, todo |-> pc.todo, cur |-> pc.cur,
                 decided |-> pc.decided, pending |-> pc.pending, max |-> pc.max]
    BY <1>0, <1>4 DEF TriggerAtMax, NotTriggered, Triggered, Deciding, scenario_vars,
       BaseInv, PcInv
  <2>2. AtMaximum(n)' <=> AtMaximum(n)
    BY <2>1 DEF AtMaximum, Incoming
  <2>3. CASE Return
    BY <1>1, <2>3 DEF Return, Loop
  <2>4. ASSUME NEW max, Execute(max) PROVE pc'.cur = n /\ pc'.decided
    BY <2>1, <2>4 DEF Execute
  <2>5. CASE TriggerAtMax(n) /\ ~Return
    <3>1. pc'.cur = n /\ pc'.decided
      BY <2>4, <2>5 DEF TriggerAtMax
    <3>2. Trigger[n] = "auto" \/ AtMaximum(n)
      BY <2>1, <2>5 DEF TriggerAtMax, Interactive, DecideInv, Deciding
    <3> QED BY <2>2, <3>1, <3>2 DEF DecideInv, Deciding, Executes
  <2>6. CASE NotTriggered(n) /\ ~Return
    BY <2>6 DEF NotTriggered
  <2>7. CASE Triggered(n) /\ ~Return
    <3>1. pc'.cur = n /\ pc'.decided
      BY <2>4, <2>7 DEF Triggered, Quantize
    <3>2. n \notin Rated \/ sync'[n].dated
      <4>1. CASE sync[n].dated
        <5>1. sync' = CommittedSync(n)
          BY <2>7, <4>1 DEF Triggered
        <5> QED BY <1>0, <4>1, <5>1 DEF CommittedSync, BaseInv, TypeOK
      <4>2. CASE ~sync[n].dated
        BY <2>7, <4>2 DEF Triggered, Quantizing, Quantize
      <4> QED BY <4>1, <4>2
    <3> QED BY <3>1, <3>2 DEF DecideInv, Deciding, Executes
  <2> QED BY <1>4, <2>3, <2>5, <2>6, <2>7
<1> QED BY <1>0, <1>1, <1>2, <1>3, <1>4, BusySteps

(* The steps that move no interval and leave the dates alone.              *)
LEMMA GridStill ==
  ASSUME ScoreInv, GridDates, GridOverticks,
         UNCHANGED <<itv, running, overticks, end_map, max_reached, tick>>,
         \A n \in Syncs : sync'[n].dated = sync[n].dated,
         \A e \in Events : Done(e)' <=> Done(e),
         pc.phase = "propagate" => UNCHANGED event_status,
         pc'.phase = pc.phase,
         pc.phase \in {"run", "propagate"} => pc'.todo \subseteq pc.todo,
         pc.phase # "run"
  PROVE  GridDates' /\ GridOverticks'
<1> USE GraphAssumption, ScenarioAssumption
<1>1. \A i \in Intervals : EndSync(i) \in Syncs /\ EndEv[i] \in Events
  BY DateTypes
<1>2. GridDates'
  <2>1. running \subseteq Intervals
    BY DEF ScoreInv, BaseInv, TypeOK
  <2> QED BY <1>1, <2>1 DEF GridDates, ToRun
<1>3. ASSUME NEW n \in Rated \ StartSyncs PROVE GridRest(n)'
  <2>1. GridRest(n)
    BY DEF GridOverticks
  <2>2. (Open(n)' => Open(n)) /\ (AtMaximum(n)' <=> AtMaximum(n)) /\ AfterGrid' = AfterGrid
    BY DEF Open, EventsOf, AtMaximum, Incoming, AfterGrid
  <2> QED BY <2>1, <2>2 DEF GridRest
<1>4. GridOverticks'
  BY <1>3 DEF GridOverticks
<1> QED BY <1>2, <1>4

(* The decision about a sync.                                              *)
LEMMA GridDecide ==
  ASSUME ScoreInv, GridInv, NEW n \in Syncs,
         TriggerAtMax(n) \/ NotTriggered(n) \/ Triggered(n)
  PROVE  GridDates' /\ GridOverticks'
<1> USE GraphAssumption, ScenarioAssumption
<1>1. /\ UNCHANGED <<event_status, itv, running, overticks, max_reached, tick>>
      /\ pc.cur = n /\ pc.phase \in {"waiting", "musical", "sync"} /\ pc'.phase = pc.phase
  <2>1. /\ UNCHANGED <<event_status, itv, running, overticks, max_reached, tick>>
        /\ pc.cur = n
        /\ Return \/ \E max \in BOOLEAN : Execute(max)
    BY DEF TriggerAtMax, NotTriggered, Triggered, Quantize, Deciding, scenario_vars, commands,
       ScoreInv, BaseInv, TypeOK, PcTypes
  <2>2. /\ pc = [phase |-> pc.phase, todo |-> pc.todo, cur |-> pc.cur,
               decided |-> pc.decided, pending |-> pc.pending, max |-> pc.max]
        /\ pc.phase \in {"waiting", "musical", "sync"}
    BY <2>1 DEF ScoreInv, BaseInv, PcInv
  <2>3. \A max : Execute(max) => pc'.phase = pc.phase
    BY <2>2 DEF Execute
  <2>4. Return => pc'.phase = pc.phase
    BY DEF Return, Loop
  <2> QED BY <2>1, <2>2, <2>3, <2>4
<1>2. /\ running \subseteq Intervals
      /\ \A i \in Intervals : EndSync(i) \in Syncs /\ EndEv[i] \in Events
  BY DateTypes DEF ScoreInv, BaseInv, TypeOK
<1>3. GridOverticks'
  <2>1. ASSUME NEW m \in Rated \ StartSyncs PROVE GridRest(m)'
    <3>1. GridRest(m)
      BY DEF GridInv, GridOverticks
    <3>2. (Open(m)' => Open(m)) /\ (AtMaximum(m)' <=> AtMaximum(m)) /\ AfterGrid' = AfterGrid
      BY <1>1 DEF Open, Done, EventsOf, AtMaximum, Incoming, AfterGrid
    <3> QED BY <1>1, <3>1, <3>2 DEF GridRest
  <2> QED BY <1>1, <2>1 DEF GridInv, GridOverticks, BeforeRun
<1> SUFFICES GridDates'
  BY <1>3
<1>4. ASSUME \A m \in Syncs : sync'[m].dated = sync[m].dated,
             \A i \in Intervals : \/ end_map'[i] = end_map[i]
                                  \/ end_map'[i] = Infinite /\ pc.phase # "musical"
      PROVE  GridDates'
  BY <1>1, <1>2, <1>4 DEF GridInv, GridDates, ToRun, Done
<1>5. CASE Quantize(n) /\ Deciding(n) /\ Interactive(n) /\ ~sync[n].dated
  <2>1. /\ \A m \in Syncs \ {n} : sync'[m].dated = sync[m].dated
        /\ sync'[n].dated /\ tick.quantum # NoDate
        /\ \A i \in Intervals : end_map'[i] =
              IF i \in Incoming(n) /\ end_map[i] = Infinite
              THEN itv[i].date + tick.quantum - 1 ELSE end_map[i]
    BY <1>5 DEF Quantize, ScoreInv, BaseInv, TypeOK
  <2>2. ASSUME NEW i \in Intervals, end_map'[i] # Infinite, ~Done(EndEv[i])
        PROVE  sync'[EndSync(i)].dated
    <3>1. EndSync(i) # n => end_map'[i] = end_map[i]
      BY <2>1 DEF Incoming
    <3> QED BY <1>2, <2>1, <2>2, <3>1 DEF GridInv, GridDates
  <2>3. ASSUME NEW i \in running, sync'[EndSync(i)].dated, pc.phase = "musical"
        PROVE  end_map'[i] = itv[i].date + tick.quantum - 1 /\ itv[i].date < Max[i]
    <3>1. CASE EndSync(i) # n
      BY <1>2, <2>1, <2>3, <3>1 DEF GridInv, GridDates, ToRun, Incoming
    <3>2. CASE EndSync(i) = n
      <4>1. ~Done(EndEv[i])
        BY <1>2 DEF Done, Finished, ScoreInv, CausalInv, IntervalInv
      <4>2. end_map[i] = Infinite
        BY <1>2, <1>5, <3>2, <4>1 DEF GridInv, GridDates
      <4>3. i \in Incoming(n) /\ i \in Intervals
        BY <1>2, <3>2 DEF Incoming
      <4>4. ~AtMaximum(n)
        BY <1>5 DEF GridInv, DecideInv, Interactive
      <4>5. itv[i].date < Max[i]
        BY <4>3, <4>4, DateTypes DEF AtMaximum
      <4> QED BY <2>1, <4>2, <4>3, <4>5
    <3> QED BY <3>1, <3>2
  <2> QED BY <1>1, <1>2, <2>1, <2>2, <2>3 DEF GridInv, GridDates, ToRun, Done
<1>6. \A m \in Syncs : CommittedSync(n)[m].dated = sync[m].dated
  BY DEF CommittedSync, ScoreInv, BaseInv, TypeOK
<1>7. CASE TriggerAtMax(n)
  BY <1>4, <1>7 DEF TriggerAtMax, scenario_vars
<1>8. CASE NotTriggered(n)
  <2>1. \A m \in Syncs : sync'[m].dated = sync[m].dated
    BY <1>8 DEF NotTriggered, ScoreInv, BaseInv, TypeOK
  <2> QED BY <1>4, <1>8, <2>1 DEF NotTriggered
<1>9. CASE Triggered(n)
  <2>1. CASE UNCHANGED <<sync, end_map>>
    BY <1>4, <2>1
  <2>2. CASE sync' = CommittedSync(n) /\ UNCHANGED end_map
    BY <1>4, <1>6, <2>2
  <2>3. CASE /\ sync' = CommittedSync(n) /\ pc.phase # "musical"
             /\ end_map' = [i \in Intervals |->
                   IF i \in Incoming(n) THEN Infinite ELSE end_map[i]]
    BY <1>4, <1>6, <2>3
  <2> QED BY <1>5, <1>9, <2>1, <2>2, <2>3 DEF Triggered
<1> QED BY <1>7, <1>8, <1>9

(* The execution of a sync.                                                *)
LEMMA GridTrigger ==
  ASSUME ScoreInv, GridDates, GridOverticks, NEW n \in Syncs,
         NEW happened \in SUBSET pc.pending, TriggerSync(n, happened)
  PROVE  GridDates' /\ GridOverticks'
<1> USE GraphAssumption, ScenarioAssumption
<1>1. PICK disposed \in SUBSET Events : Outcome(n, happened, disposed)
  BY TriggerFacts
<1> USE DEF Outcome
<1>2. /\ pc.cur = n /\ pc'.phase = pc.phase /\ UNCHANGED <<overticks, tick>>
      /\ pc.phase \in {"waiting", "sync"}
      /\ pc.phase = "waiting" => n \in StartSyncs
      /\ max_reached' \subseteq max_reached \cup happened
  BY DEF TriggerSync, Return, Loop, Carried, commands, ScoreInv, BaseInv, PcInv, VisitInv,
     ReachInv, WaitInv
<1>3. /\ \A m \in Syncs \ {n} : sync'[m] = sync[m]
      /\ ~sync'[n].dated
      /\ \A i \in Intervals : end_map'[i] = end_map[i]
  BY TriggerFlags DEF ExecutedSync, ResetSync
<1>4. \A e \in Events : /\ Done(e) => Done(e)'
                        /\ e \in happened \cup disposed => Done(e)'
  BY <1>1 DEF Done, Finished
<1>5. GridDates'
  <2>1. ASSUME NEW i \in Intervals, end_map'[i] # Infinite, ~Done(EndEv[i])'
        PROVE  sync'[EndSync(i)].dated
    <3>1. EndEv[i] \notin EventsOf(n) /\ ~Done(EndEv[i])
      BY <1>1, <1>4, <2>1, DateTypes
    <3>2. EndSync(i) \in Syncs \ {n}
      BY <3>1, DateTypes DEF EventsOf, EndSync
    <3> QED BY <1>3, <2>1, <3>1, <3>2 DEF GridDates
  <2>2. \A m \in Syncs : sync'[m].dated => sync[m].dated
    BY <1>3
  <2> QED BY <1>2, <2>1, <2>2 DEF GridDates, ToRun
<1>6. ASSUME NEW m \in Rated \ StartSyncs PROVE GridRest(m)'
  <2> SUFFICES ASSUME Open(m)', pc.phase = "sync"
               PROVE  AtMaximum(m)' \/ overticks[m] \in {NoOvertick, AfterGrid}
    BY <1>2 DEF GridRest, AfterGrid
  <2>1. Open(m)
    BY <1>4 DEF Open, EventsOf
  <2>2. ASSUME NEW i \in Incoming(m), itv[i].date >= Max[i] PROVE itv'[i] = itv[i]
    <3>1. i \in Intervals /\ EndEv[i] \in EventsOf(m) /\ EndEv[i] \in Events
      BY DateTypes DEF Incoming, EndSync, EventsOf
    <3>2. i \in running
      BY <2>2, <3>1, DateTypes DEF ScoreInv, CausalInv, IntervalInv
    <3>3. i \notin NextOf(happened)
      BY <1>1, <3>1, <3>2 DEF NextOf, ScoreInv, CausalInv, IntervalInv
    <3>4. i \notin StoppedBy(happened \cup disposed)
      BY <1>4, <3>1 DEF StoppedBy, Open, EventsOf
    <3> QED BY <1>1, <3>1, <3>3, <3>4
  <2>3. AtMaximum(m) => AtMaximum(m)'
    BY <2>2 DEF AtMaximum, Incoming
  <2> QED BY <2>1, <2>3 DEF GridOverticks, GridRest
<1>7. \A e \in happened : SyncOf[e] = n
  BY <1>1 DEF EventsOf
<1> QED BY <1>2, <1>5, <1>6, <1>7 DEF GridOverticks, BeforeRun

(* An interval that leads to a quantized sync and advances.                *)
LEMMA GridAdvance ==
  ASSUME ScoreInv, GridDates, NEW i \in running, NEW t \in Nat, RunInterval(i, t),
         Speed[i] = 1, EndSync(i) \notin StartSyncs,
         sync[EndSync(i)].dated => t = tick.length /\ ToRun(i)
  PROVE  \/ itv'[i].date >= Max[i]
         \/ /\ itv[i].date < Max[i]
            /\ \/ Overshoot(i, t) = AfterGrid
               \/ Overshoot(i, t) = NoOvertick /\ ~sync[EndSync(i)].dated
<1> USE GraphAssumption
<1> DEFINE d == itv[i].date
           m == Max[i]
           e == end_map[i]
           E == EndDate(i)
           q == tick.quantum
           dated == sync[EndSync(i)].dated
<1>1. /\ i \in Intervals /\ d \in Nat /\ m \in Nat /\ m <= Infinite /\ Infinite \in Nat
      /\ e \in Int /\ t \in Nat /\ tick.length \in Nat /\ q \in Nat \cup {-1}
      /\ EndSync(i) \in Syncs
  BY DateTypes DEF ScoreInv, BaseInv, TypeOK, NoDate
<1>2. e # Infinite => dated
  <2>1. ~Done(EndEv[i])
    BY <1>1 DEF Done, Finished, ScoreInv, CausalInv, IntervalInv
  <2> QED BY <1>1, <2>1 DEF GridDates
<1>3. dated => t = tick.length /\ e = d + q - 1 /\ d < m /\ q < t /\ q \in Nat
  BY <1>1 DEF GridDates, NoDate
<1>4. itv'[i].date = IF Overshoot(i, t) = NoOvertick THEN NonNegative(d + t)
                     ELSE NonNegative(E)
  BY <1>1 DEF RunInterval, ScoreInv, BaseInv, TypeOK
<1>5. Overshoot(i, t) = IF E = Infinite \/ d + t - E <= 0 THEN NoOvertick
                        ELSE (d + t - E)
  <2>1. E \in Int
    BY <1>1 DEF EndDate
  <2>2. d + t * Speed[i] - E = d + t - E /\ (d + t - E) \div 1 = d + t - E
    BY <1>1, <2>1
  <2> QED BY <1>1, <2>2 DEF Overshoot
<1>6. E = IF e < m THEN e ELSE m
  BY DEF EndDate
<1> HIDE DEF d, m, e, E, q, dated
<1>7. CASE e < m
  <2>1. dated /\ E = d + q - 1 /\ d < m
    BY <1>1, <1>2, <1>3, <1>6, <1>7
  <2>2. E # Infinite /\ d + t - E = tick.length - (q - 1) /\ d + t - E > 0
    BY <1>1, <1>3, <1>6, <1>7, <2>1
  <2>3. Overshoot(i, t) = AfterGrid
    BY <1>1, <1>5, <2>2 DEF AfterGrid, q
  <2> QED BY <2>1, <2>3 DEF d, m
<1>8. CASE ~(e < m)
  <2>1. E = m
    BY <1>6, <1>8
  <2>2. CASE m = Infinite \/ d + t - m <= 0
    <3>1. Overshoot(i, t) = NoOvertick /\ itv'[i].date = d + t
      BY <1>1, <1>4, <1>5, <2>1, <2>2 DEF NonNegative
    <3>2. dated => d + t >= m
      BY <1>1, <1>3, <1>8
    <3> QED BY <1>1, <3>1, <3>2 DEF d, m, dated
  <2>3. CASE ~(m = Infinite \/ d + t - m <= 0)
    <3>1. Overshoot(i, t) # NoOvertick
      BY <1>1, <1>5, <2>1, <2>3 DEF NoOvertick
    <3>2. itv'[i].date = m
      BY <1>1, <1>4, <2>1, <3>1 DEF NonNegative
    <3> QED BY <1>1, <3>2 DEF m
  <2> QED BY <2>2, <2>3
<1> QED BY <1>7, <1>8

(* An interval that advances.                                              *)
LEMMA GridRun ==
  ASSUME UnitSpeed, ScoreInv, EvalInv, GridDates, GridOverticks,
         NEW i \in running, i \in pc.todo, NEW t \in Nat, RunInterval(i, t),
         \/ pc.phase = "run" /\ t = tick.length
         \/ pc.phase = "propagate" /\ t = overticks[StartSync(i)]
  PROVE  GridDates' /\ GridOverticks'
<1> USE GraphAssumption, ScenarioAssumption
<1>1. /\ UNCHANGED <<event_status, running, sync, end_map, tick, max_reached>>
      /\ \A j \in Intervals \ {i} : itv'[j] = itv[j]
      /\ pc'.phase = pc.phase /\ pc'.todo = pc.todo \ {i}
      /\ i \in Intervals /\ running \subseteq Intervals
  BY RunCausal DEF RunInterval, Visited, Loop, commands, ScoreInv, BaseInv, TypeOK
<1>2. GridDates'
  BY <1>1 DEF GridDates, ToRun, Done
<1>3. EndSync(i) \in Syncs \ StartSyncs /\ StartSync(i) \in Syncs
  BY <1>1, DateTypes DEF StartSync, ScoreInv, Straight
<1>4. /\ \A n \in Syncs \ {EndSync(i)} : overticks'[n] = overticks[n]
      /\ overticks'[EndSync(i)] = IF Overshoot(i, t) > overticks[EndSync(i)]
                                  THEN Overshoot(i, t) ELSE overticks[EndSync(i)]
  BY <1>3 DEF RunInterval, ScoreInv, BaseInv, TypeOK
<1>5. pc.phase = "propagate" => ~sync[EndSync(i)].dated
  <2> SUFFICES ASSUME pc.phase = "propagate", sync[EndSync(i)].dated PROVE FALSE
    OBVIOUS
  <2>1. StartSync(i) \notin StartSyncs
    BY DEF GridOverticks, NoOvertick
  <2>2. event_status[EndEv[i]] = "NONE"
    BY <2>1 DEF GridOverticks
  <2>3. EndSync(i) \notin waiting
    BY <1>3 DEF ScoreInv, VisitInv, WaitInv
  <2>4. event_status[EndEv[i]] = "PENDING"
    BY <1>1, <1>3, <2>3, DateTypes DEF EvalInv, SyncInv, AllPending, EventsOf, EndSync
  <2> QED BY <2>2, <2>4
<1>6. ASSUME NEW n \in Rated \ StartSyncs PROVE GridRest(n)'
  <2>1. GridRest(n) /\ Open(n)' = Open(n) /\ AfterGrid' = AfterGrid /\ n \in Syncs
    BY <1>1 DEF GridOverticks, Open, Done, AfterGrid
  <2>2. CASE n # EndSync(i)
    <3>1. AtMaximum(n)' <=> AtMaximum(n)
      BY <1>1, <2>2 DEF AtMaximum, Incoming
    <3>2. overticks'[n] = overticks[n] /\ i \notin Incoming(n)
      BY <1>4, <2>1, <2>2 DEF Incoming
    <3> QED BY <1>1, <2>1, <3>1, <3>2 DEF GridRest, Incoming
  <2>3. CASE n = EndSync(i)
    <3>1. i \in Incoming(n) /\ Speed[i] = 1
      BY <1>1, <2>3 DEF Incoming, UnitSpeed
    <3>2. /\ sync[n].dated => t = tick.length /\ ToRun(i)
          /\ sync[n].dated => pc.phase = "run"
      BY <1>5, <2>3 DEF ToRun
    <3>3. \/ AtMaximum(n)'
          \/ /\ itv[i].date < Max[i]
             /\ \/ Overshoot(i, t) = AfterGrid
                \/ Overshoot(i, t) = NoOvertick /\ ~sync[n].dated
      BY <1>3, <2>3, <3>1, <3>2, GridAdvance DEF AtMaximum, Incoming
    <3>4. ASSUME ~AtMaximum(n)' PROVE ~AtMaximum(n)
      <4>1. itv[i].date < Max[i] /\ itv[i].date \in Nat /\ Max[i] \in Nat
        BY <1>1, <3>3, <3>4, DateTypes
      <4> QED BY <1>1, <3>4, <4>1 DEF AtMaximum, Incoming
    <3>5. /\ overticks[n] \in Nat \cup {NoOvertick} /\ NoOvertick = -1
          /\ Overshoot(i, t) \in Nat \cup {NoOvertick}
      BY <1>1, <2>1, AdvanceType DEF ScoreInv, BaseInv, TypeOK, NoOvertick
    <3>6. ASSUME ~AtMaximum(n)', overticks[n] \in {NoOvertick, AfterGrid}
          PROVE  /\ overticks'[n] \in {NoOvertick, AfterGrid}
                 /\ overticks[n] = AfterGrid \/ Overshoot(i, t) = AfterGrid =>
                       overticks'[n] = AfterGrid
      BY <1>4, <2>3, <3>3, <3>5, <3>6
    <3>7. sync[n].dated => Open(n)
      <4>1. n \notin waiting
        BY DEF ScoreInv, VisitInv, WaitInv
      <4> QED BY <2>1, <4>1 DEF EvalInv, SyncInv, AllPending, Open, Done, Finished
    <3>8. pc.phase \in {"run", "propagate", "sync"}
      OBVIOUS
    <3>9. ASSUME Open(n)' PROVE AtMaximum(n)' \/ overticks'[n] \in {NoOvertick, AfterGrid}
      BY <2>1, <3>4, <3>6, <3>8, <3>9 DEF GridRest
    <3>10. ASSUME sync[n].dated, NEW j \in Incoming(n) \cap running, j \notin pc.todo \ {i},
                  ~AtMaximum(n)'
           PROVE  overticks'[n] = AfterGrid
      <4>1. pc.phase = "run" /\ ~AtMaximum(n) /\ overticks[n] \in {NoOvertick, AfterGrid}
        BY <2>1, <3>2, <3>4, <3>7, <3>10 DEF GridRest
      <4>2. j = i \/ overticks[n] = AfterGrid
        BY <2>1, <3>10, <4>1 DEF GridRest
      <4>3. j = i => Overshoot(i, t) = AfterGrid
        BY <3>3, <3>10
      <4> QED BY <3>6, <3>10, <4>1, <4>2, <4>3
    <3>11. Incoming(n)' = Incoming(n)
      BY DEF Incoming
    <3> QED BY <1>1, <2>1, <3>9, <3>10, <3>11 DEF GridRest
  <2> QED BY <2>2, <2>3
<1>7. \A n \in StartSyncs : overticks'[n] = overticks[n]
  BY <1>3, <1>4
<1> QED BY <1>1, <1>2, <1>6, <1>7 DEF GridOverticks, BeforeRun

(* The loops that begin and end.                                           *)
LEMMA GridLoop ==
  ASSUME ScoreInv, EvalInv, GridDates, GridOverticks,
         \/ RootsVisited \/ WaitingVisited \/ ToStartVisited \/ ToStopVisited
         \/ MusicalVisited \/ RunVisited \/ NextVisited \/ SyncsVisited
  PROVE  GridDates' /\ GridOverticks'
<1> USE GraphAssumption, ScenarioAssumption
<1>1. /\ UNCHANGED <<event_status, itv, running, sync, overticks, end_map, tick>>
      /\ max_reached' \subseteq max_reached
  BY DEF RootsVisited, WaitingVisited, ToStartVisited, ToStopVisited, MusicalVisited,
     RunVisited, NextVisited, SyncsVisited, scenario_vars, commands
<1>2. /\ running \subseteq Intervals
      /\ \A i \in Intervals : EndSync(i) \in Syncs \ (StartSyncs \cup waiting)
  BY DateTypes DEF ScoreInv, Straight, BaseInv, TypeOK, VisitInv, WaitInv
<1>3. pc.phase = "stop" => \A i \in running : ~sync[EndSync(i)].dated
  BY <1>2 DEF EvalInv, SyncInv, Visits, Running
<1>4. /\ pc'.phase # "stopped"
      /\ pc'.phase = "musical" => pc.phase = "stop"
      /\ pc'.phase = "run" => pc.phase = "musical" /\ pc'.todo = running
  BY DEF RootsVisited, WaitingVisited, ToStartVisited, ToStopVisited, MusicalVisited,
     RunVisited, NextVisited, SyncsVisited, In, Loop
<1>5. GridDates'
  BY <1>1, <1>3, <1>4 DEF GridDates, ToRun, Done
<1>6. ASSUME NEW n \in Rated \ StartSyncs PROVE GridRest(n)'
  <2>1. /\ GridRest(n) /\ Open(n)' = Open(n) /\ AfterGrid' = AfterGrid /\ n \in Syncs
        /\ AtMaximum(n)' = AtMaximum(n)
    BY <1>1 DEF GridOverticks, Open, Done, AfterGrid, AtMaximum, Incoming
  <2>2. \/ overticks[n] = NoOvertick
        \/ pc'.phase \in {"run", "propagate", "sync"} =>
              pc.phase \in {"run", "propagate", "sync"}
    BY <2>1 DEF RootsVisited, WaitingVisited, ToStartVisited, ToStopVisited, MusicalVisited,
       RunVisited, NextVisited, SyncsVisited, In, Loop, GridOverticks, BeforeRun
  <2> QED BY <1>1, <1>4, <2>1, <2>2 DEF GridRest
<1>7. pc'.phase \in BeforeRun \cup {"musical", "run"} =>
         pc.phase \in BeforeRun \cup {"musical"}
  BY DEF RootsVisited, WaitingVisited, ToStartVisited, ToStopVisited, MusicalVisited,
     RunVisited, NextVisited, SyncsVisited, In, Loop, BeforeRun
<1>8. ASSUME pc'.phase = "propagate", NEW i \in pc'.todo
      PROVE  StartSync(i) \in StartSyncs \/ event_status[EndEv[i]] = "NONE"
  <2>1. /\ pc.phase \in {"run", "sync"} /\ i \in NextOf(max_reached)
    BY <1>8 DEF RootsVisited, WaitingVisited, ToStartVisited, ToStopVisited, MusicalVisited,
       RunVisited, NextVisited, SyncsVisited, In, Loop
  <2>2. CASE pc.phase = "run"
    BY <2>1, <2>2 DEF GridOverticks, NextOf, StartSync
  <2>3. CASE pc.phase = "sync"
    BY <2>1, <2>3 DEF ScoreInv, VisitInv, CarriedInv
  <2> QED BY <2>1, <2>2, <2>3
<1> QED BY <1>1, <1>5, <1>6, <1>7, <1>8 DEF GridOverticks, BeforeRun, StartSync

(* The start, the end and the first loop of a tick, and the requests.      *)
LEMMA GridCommand ==
  ASSUME ScoreInv, EvalInv, GridDates, GridOverticks,
         \/ Start \/ Stop \/ UNCHANGED vars
         \/ \E n \in Clickable : StartTriggerRequest(n)
         \/ \E length \in Ticks, quantum \in {NoDate} \cup Quanta :
               BeginTick(length, quantum)
         \/ \E n \in Syncs : VisitRoot(n)
  PROVE  GridDates' /\ GridOverticks'
<1> USE GraphAssumption, ScenarioAssumption
<1>1. CASE UNCHANGED vars \/ \E n \in Clickable : StartTriggerRequest(n)
  <2>1. UNCHANGED <<event_status, itv, sync, running, overticks, end_map, max_reached, tick, pc>>
    BY <1>1 DEF StartTriggerRequest, vars, scenario_vars, commands
  <2>2. GridDates'
    BY <2>1 DEF GridDates, ToRun, Done
  <2>3. \A n \in Rated \ StartSyncs : GridRest(n)'
    BY <2>1 DEF GridOverticks, GridRest, Open, Done, AtMaximum, AfterGrid, Incoming
  <2> QED BY <2>1, <2>2, <2>3 DEF GridOverticks
<1>2. CASE Start \/ Stop
  <2>1. /\ UNCHANGED tick /\ pc'.phase \in {"idle", "stopped"}
        /\ \A n \in Syncs : ~sync'[n].dated
        /\ \A n \in Syncs : overticks'[n] \in {overticks[n], NoOvertick}
    BY <1>2 DEF Start, Stop, In, ResetSync, commands, Loop
  <2>2. \A i \in Intervals : end_map'[i] = Infinite
    BY <1>2 DEF Start, Stop, In, GridDates
  <2>3. running' \subseteq Intervals /\ \A i \in Intervals : EndSync(i) \in Syncs
    BY <1>2, DateTypes DEF Start, Stop, ScoreInv, BaseInv, TypeOK
  <2>4. GridDates'
    BY <2>1, <2>2, <2>3 DEF GridDates, ToRun
  <2>5. \A n \in Rated \ StartSyncs : GridRest(n)'
    BY <2>1 DEF GridRest
  <2> QED BY <2>1, <2>4, <2>5 DEF GridOverticks, BeforeRun
<1>3. ASSUME NEW length \in Ticks, NEW quantum, BeginTick(length, quantum)
      PROVE  GridDates' /\ GridOverticks'
  <2>1. /\ UNCHANGED <<event_status, itv, sync, end_map>> /\ max_reached' = {}
        /\ pc.phase = "idle" /\ pc'.phase = "roots"
        /\ tick'.quantum < tick'.length
        /\ \A n \in Syncs : overticks'[n] = NoOvertick
    BY <1>3 DEF BeginTick, In, Loop
  <2>2. \A n \in Syncs \ StartSyncs : ~sync[n].dated
    BY <2>1 DEF EvalInv, SyncInv, Visits, Running, ScoreInv, VisitInv, WaitInv
  <2>3. GridDates'
    BY <2>1, <2>2 DEF GridDates, ToRun, Done
  <2>4. \A n \in Rated \ StartSyncs : GridRest(n)'
    BY <2>1 DEF GridRest
  <2> QED BY <2>1, <2>3, <2>4 DEF GridOverticks, BeforeRun
<1>4. ASSUME NEW n \in Syncs, VisitRoot(n) PROVE GridDates' /\ GridOverticks'
  <2>1. pc.phase = "roots" /\ pc'.phase = "roots" /\ UNCHANGED <<overticks, max_reached, tick>>
    BY <1>4 DEF VisitRoot, In, Visited, Loop, commands
  <2>2. CASE UNCHANGED <<event_status, itv, running, waiting, end_map>>
    <3>1. \A m \in Syncs : sync'[m].dated = sync[m].dated
      <4>1. sync' = [sync EXCEPT ![n].observing = @ \/ Trigger[n] = "expr"]
        BY <1>4, <2>2 DEF VisitRoot
      <4> QED BY <4>1 DEF ScoreInv, BaseInv, TypeOK
    <3>2. \A e \in Events : Done(e)' <=> Done(e)
      BY <2>2 DEF Done
    <3> QED BY <2>1, <2>2, <3>1, <3>2, GridStill
  <2>3. CASE /\ \A e \in Events : event_status'[e] =
                    IF SyncOf[e] \in Component[n] THEN "NONE" ELSE event_status[e]
             /\ \A i \in Intervals :
                    IF EndSync(i) \in Component[n]
                    THEN itv'[i] = StoppedInterval /\ i \notin running' /\ end_map'[i] = Infinite
                    ELSE itv'[i] = itv[i] /\ end_map'[i] = end_map[i]
                         /\ (i \in running' <=> i \in running)
             /\ sync' = [m \in Syncs |->
                    IF m = n THEN RestartedSync(n)
                    ELSE IF m \in Component[n] THEN ResetSync ELSE sync[m]]
             /\ n \in Component[n]
    <3>1. \A m \in Syncs : ~sync'[m].dated \/ (m \notin Component[n] /\ sync'[m] = sync[m])
      BY <2>3 DEF RestartedSync, ResetSync
    <3>2. ASSUME NEW i \in Intervals, end_map'[i] # Infinite, ~Done(EndEv[i])'
          PROVE  sync'[EndSync(i)].dated
      <4>1. /\ EndSync(i) \notin Component[n] /\ end_map'[i] = end_map[i]
            /\ event_status'[EndEv[i]] = event_status[EndEv[i]]
        BY <2>3, <3>2, DateTypes DEF EndSync
      <4> QED BY <2>3, <3>2, <4>1, DateTypes DEF GridDates, Done
    <3>3. GridDates'
      BY <2>1, <3>1, <3>2 DEF GridDates, ToRun
    <3>4. \A m \in Rated \ StartSyncs : GridRest(m)'
      BY <2>1 DEF GridRest
    <3> QED BY <2>1, <3>3, <3>4 DEF GridOverticks
  <2> QED BY <1>4, <2>2, <2>3, RestartCausal
<1> QED BY <1>1, <1>2, <1>3, <1>4

(* Every step preserves it.                                                *)
LEMMA GridStep ==
  ASSUME UnitSpeed PROVE ScoreInv /\ EvalInv /\ GridInv /\ [Next]_vars => GridInv'
<1> SUFFICES ASSUME ScoreInv, EvalInv, GridInv, [Next]_vars PROVE GridInv'
  OBVIOUS
<1> USE GraphAssumption, ScenarioAssumption
<1>0. DecideInv' /\ GridDates /\ GridOverticks
  BY GridDecision DEF GridInv
<1>1. Playable = {} /\ to_start = {} /\ to_stop = {}
  BY DEF ScoreInv, Straight, CausalInv
<1>2. SUFFICES GridDates' /\ GridOverticks'
  BY <1>0 DEF GridInv
<1>3. CASE \E n \in Syncs, happened \in SUBSET pc.pending : TriggerSync(n, happened)
  BY <1>0, <1>3, GridTrigger
<1>4. CASE \E n \in Syncs : TriggerAtMax(n) \/ NotTriggered(n) \/ Triggered(n)
  BY <1>4, GridDecide
<1>5. ASSUME NEW n \in Syncs, NEW todo, CheckReady(n, todo), Reached(n) \/ n \in waiting,
             pc.phase \in {"waiting", "musical", "sync"},
             pc.phase = "musical" \/ todo \subseteq Syncs \ {n}
      PROVE  GridDates' /\ GridOverticks'
  <2>1. /\ \A e \in Events : Done(e)' <=> Done(e)
        /\ UNCHANGED <<itv, running, max_reached>> /\ pc'.phase = pc.phase
    BY <1>5, CheckReadyFacts
  <2>2. UNCHANGED <<overticks, end_map, tick>>
    BY <1>5 DEF CheckReady, commands
  <2>3. \A m \in Syncs : sync'[m].dated = sync[m].dated
    <3>1. sync' = [sync EXCEPT ![n].evaluating = IsReady(n)]
      BY <1>5 DEF CheckReady
    <3> QED BY <3>1 DEF ScoreInv, BaseInv, TypeOK
  <2> QED BY <1>0, <1>5, <2>1, <2>2, <2>3, GridStill
<1>6. ASSUME NEW n \in Syncs, VisitSync(n) PROVE GridDates' /\ GridOverticks'
  <2>1. /\ pc.phase \in {"waiting", "sync"} /\ n \in pc.todo
        /\ CheckReady(n, pc.todo \ {n})
    BY <1>6 DEF VisitSync, In
  <2>2. (Reached(n) \/ n \in waiting) /\ pc.todo \subseteq Syncs
    BY <2>1 DEF ScoreInv, BaseInv, TypeOK, VisitInv, WaitInv, ReachInv
  <2> QED BY <1>5, <2>1, <2>2
<1>7. ASSUME NEW i \in Intervals, VisitMusical(i) PROVE GridDates' /\ GridOverticks'
  <2>1. pc.phase = "musical" /\ i \in running
    BY <1>7 DEF VisitMusical, In, ScoreInv, VisitInv, ReachInv, Running
  <2>2. EndSync(i) \in Syncs /\ Reached(EndSync(i))
    BY <2>1 DEF EndSync, Reached, Incoming
  <2>3. CASE pc' = Visited(i) /\ UNCHANGED scenario_vars
    <3>1. /\ UNCHANGED <<event_status, itv, running, overticks, end_map, max_reached, tick, sync>>
          /\ pc'.phase = pc.phase
      BY <2>3 DEF Visited, Loop, scenario_vars, commands
    <3>2. \A e \in Events : Done(e)' <=> Done(e)
      BY <3>1 DEF Done
    <3> QED BY <1>0, <2>1, <3>1, <3>2, GridStill
  <2> QED BY <1>5, <1>7, <2>1, <2>2, <2>3 DEF VisitMusical
<1>8. ASSUME NEW i \in Intervals, VisitRunning(i) PROVE GridDates' /\ GridOverticks'
  <2>1. /\ pc.phase = "run" /\ i \in pc.todo /\ RunInterval(i, tick.length)
        /\ i \in running /\ tick.length \in Nat
    BY <1>8 DEF VisitRunning, In, ScoreInv, BaseInv, TypeOK, VisitInv, ReachInv, Running
  <2> QED BY <1>0, <2>1, GridRun
<1>9. ASSUME NEW i \in Intervals, VisitNext(i) PROVE GridDates' /\ GridOverticks'
  <2>1. pc.phase = "propagate" /\ i \in pc.todo /\ i \in running /\ StartSync(i) \in Syncs
    BY <1>9 DEF VisitNext, In, ScoreInv, VisitInv, ReachInv, Running, StartSync
  <2>2. CASE pc' = Visited(i) /\ UNCHANGED scenario_vars
    <3>1. /\ UNCHANGED <<event_status, itv, running, overticks, end_map, max_reached, tick, sync>>
          /\ pc'.phase = pc.phase /\ pc'.todo \subseteq pc.todo
      BY <2>2 DEF Visited, Loop, scenario_vars, commands
    <3>2. \A e \in Events : Done(e)' <=> Done(e)
      BY <3>1 DEF Done
    <3> QED BY <1>0, <2>1, <3>1, <3>2, GridStill
  <2>3. CASE /\ overticks[StartSync(i)] # NoOvertick
             /\ RunInterval(i, overticks[StartSync(i)])
    <3>1. overticks[StartSync(i)] \in Nat
      BY <2>1, <2>3 DEF ScoreInv, BaseInv, TypeOK
    <3> QED BY <1>0, <2>1, <2>3, <3>1, GridRun
  <2> QED BY <1>9, <2>2, <2>3 DEF VisitNext
<1>10. CASE \/ RootsVisited \/ WaitingVisited \/ ToStartVisited \/ ToStopVisited
            \/ MusicalVisited \/ RunVisited \/ NextVisited \/ SyncsVisited
  BY <1>0, <1>10, GridLoop
<1>11. CASE \/ Start \/ Stop \/ UNCHANGED vars
            \/ \E n \in Clickable : StartTriggerRequest(n)
            \/ \E length \in Ticks, quantum \in {NoDate} \cup Quanta :
                  BeginTick(length, quantum)
            \/ \E n \in Syncs : VisitRoot(n)
  BY <1>0, <1>11, GridCommand
<1> QED BY <1>1, <1>3, <1>4, <1>6, <1>7, <1>8, <1>9, <1>10, <1>11
        DEF Next, TickStep, Command

(* In such a score, where the intervals before the quantized triggers have *)
(* the speed of the scenario: a trigger that is not at its maximum         *)
(* executes only in a tick that holds a grid point, and when it has its    *)
(* date before the intervals run, what follows is given the rest of the    *)
(* tick from that point, neither more nor less (quantize_time_sync,        *)
(* run_interval).                                                          *)
THEOREM OnGridHolds ==
  ASSUME Straight, UnitSpeed PROVE Spec => []OnGrid
<1> USE GraphAssumption, ScenarioAssumption
<1>1. Init => EvalInv /\ GridInv
  <2> SUFFICES ASSUME Init PROVE EvalInv /\ GridInv
    OBVIOUS
  <2>1. EvalInv /\ DecideInv /\ pc.phase = "stopped"
    BY DEF Init, EvalInv, SyncInv, ResetSync, DecideInv, Deciding, Executes, Loop
  <2>2. GridDates
    BY DEF Init, GridDates, ToRun, ResetSync, NoDate, Loop
  <2>3. GridOverticks
    BY <2>1 DEF Init, GridOverticks, GridRest, BeforeRun
  <2> QED BY <2>1, <2>2, <2>3 DEF GridInv
<1>2. ScoreInv /\ EvalInv /\ GridInv => OnGrid
  <2> SUFFICES ASSUME ScoreInv, EvalInv, GridInv, NEW n \in Rated \ StartSyncs,
                      Trigger[n] # "auto", ~AtMaximum(n)
               PROVE  /\ Executes(n) => /\ tick.quantum # NoDate
                                        /\ overticks[n] \in {NoOvertick, AfterGrid}
                      /\ pc.phase = "run" /\ sync[n].dated =>
                            \A i \in Incoming(n) \cap running :
                                i \in pc.todo \/ overticks[n] = AfterGrid
    BY DEF OnGrid
  <2>1. GridRest(n)
    BY DEF GridInv, GridOverticks
  <2>2. ASSUME Executes(n)
        PROVE  tick.quantum # NoDate /\ overticks[n] \in {NoOvertick, AfterGrid}
    <3>1. sync[n].dated
      BY <2>2 DEF GridInv, DecideInv
    <3>2. pc.phase = "sync"
      BY <2>2 DEF Executes, ScoreInv, BaseInv, PcInv, VisitInv, WaitInv, ReachInv
    <3>3. Open(n)
      BY <2>2 DEF Executes, ScoreInv, VisitInv, BusyInv, Open, Done, Finished
    <3> QED BY <2>1, <3>1, <3>2, <3>3 DEF GridInv, GridDates, GridRest
  <2> QED BY <2>1, <2>2 DEF GridRest
<1> QED BY <1>1, <1>2, ScoreHolds, EvalStep, GridStep, PTL DEF Spec

-----------------------------------------------------------------------------
(* Maxima, in such a score when it has no conditions.                      *)

(* A sync with an interval at its maximum, and one whose events are each   *)
(* PENDING or reached by intervals past their minimum.                     *)
LateRunning(n) == \E i \in Incoming(n) \cap running : itv[i].date >= Max[i]
Ripe(n) == \A e \in EventsOf(n) :
    \/ event_status[e] = "PENDING"
    \/ \A i \in PreviousIntervals(e) : i \in running /\ itv[i].date >= Min[i]

(* Once the intervals have run, a sync that is ripe and late is among      *)
(* those the rest of the tick visits, or it is being executed.             *)
LateInv ==
    /\ pc.phase = "run" => \A i \in running :
          itv[i].date >= Max[i] => i \in pc.todo \/ EndSync(i) \in end_nodes
    /\ pc.phase \in {"propagate", "sync", "idle"} => \A n \in Syncs :
          LateRunning(n) /\ Ripe(n) =>
             \/ pc.phase = "propagate" /\ n \in end_nodes
             \/ pc.phase = "sync" /\ n \in pc.todo
             \/ pc.phase = "sync" /\ pc.cur = n /\ pc.max

(* Then ripe is what is_timesync_ready tests.                              *)
LEMMA RipeReady ==
  ASSUME ScoreInv, Conditional = {}, NEW n \in Syncs, Reached(n)
  PROVE  Ripe(n) <=> IsReady(n)
<1> USE GraphAssumption
<1>1. \A e \in EventsOf(n) : /\ e \in Events /\ ~Done(e)
                             /\ event_status[e] \in {"NONE", "PENDING"}
  BY Fresh DEF EventsOf, ScoreInv, BaseInv, TypeOK, CausalInv, StatusInv, Statuses, Done, Finished
<1>2. ASSUME NEW i \in Intervals
      PROVE  /\ i \notin Graphal /\ StartEv[i] \in Events
             /\ event_status[StartEv[i]] \notin Disposed
             /\ event_status[StartEv[i]] # "NONE" /\ itv[i].date >= Min[i] <=>
                   i \in running /\ itv[i].date >= Min[i]
  BY DateTypes DEF ScoreInv, Straight, CausalInv, IntervalInv, StatusInv, Disposed
<1>3. ASSUME NEW e \in EventsOf(n)
      PROVE  e \in PendingEvents(n) <=>
                \/ event_status[e] = "PENDING"
                \/ \A i \in PreviousIntervals(e) : i \in running /\ itv[i].date >= Min[i]
  <2>1. MinReached(e) <=> \A i \in PreviousIntervals(e) : i \in running /\ itv[i].date >= Min[i]
    BY <1>2 DEF MinReached, PreviousIntervals
  <2> QED BY <1>1, <2>1 DEF PendingEvents
<1>4. ActiveEvents(n) = EventsOf(n)
  BY <1>1 DEF ActiveEvents
<1>5. PendingEvents(n) \subseteq EventsOf(n)
  BY DEF PendingEvents
<1> QED BY <1>3, <1>4, <1>5 DEF Ripe, IsReady

(* The evaluation of a sync.                                               *)
LEMMA LateCheck ==
  ASSUME ScoreInv, LateInv, Conditional = {}, NEW n \in Syncs,
         pc.phase = "sync", pc.cur = None, Reached(n), CheckReady(n, pc.todo \ {n}),
         pc.todo \subseteq Syncs
  PROVE  LateInv'
<1> USE GraphAssumption
<1>1. /\ UNCHANGED <<itv, running>>
      /\ pc'.phase = "sync" /\ pc'.todo = pc.todo \ {n}
  BY CheckReadyFacts
<1>2. /\ \A e \in Events : event_status'[e] =
            IF e \in PendingEvents(n) THEN "PENDING" ELSE event_status[e]
      /\ IsReady(n) => pc'.cur = n /\ pc'.max = MaxReached(n)
  BY DEF CheckReady
<1>3. \A e \in PendingEvents(n) : /\ e \in Events /\ SyncOf[e] = n
         /\ \/ event_status[e] = "PENDING"
            \/ \A i \in PreviousIntervals(e) : i \in running /\ itv[i].date >= Min[i]
  <2> SUFFICES ASSUME NEW e \in PendingEvents(n), event_status[e] # "PENDING",
                      NEW i \in PreviousIntervals(e)
               PROVE  i \in running /\ itv[i].date >= Min[i]
    BY PendingFacts
  <2>1. i \in Intervals
    BY DEF PreviousIntervals
  <2>2. event_status[StartEv[i]] # "DISPOSED_FINISHED"
    BY <2>1 DEF ScoreInv, CausalInv, StatusInv
  <2> QED BY <2>2, PendingFacts
<1>4. ASSUME NEW m \in Syncs PROVE LateRunning(m)' = LateRunning(m) /\ (Ripe(m)' => Ripe(m))
  <2>1. Ripe(m)' => Ripe(m)
    BY <1>1, <1>2, <1>3 DEF Ripe, EventsOf
  <2> QED BY <1>1, <2>1 DEF LateRunning
<1>5. LateRunning(n) /\ Ripe(n) => IsReady(n) /\ MaxReached(n)
  <2> SUFFICES ASSUME LateRunning(n), Ripe(n) PROVE IsReady(n) /\ MaxReached(n)
    OBVIOUS
  <2>1. IsReady(n)
    BY RipeReady
  <2>2. PICK i \in Intervals : EndSync(i) = n /\ itv[i].date >= Max[i]
    BY DEF LateRunning, Incoming
  <2>3. EndEv[i] \in ActiveEvents(n) /\ i \in PreviousIntervals(EndEv[i])
    BY <2>2 DEF ActiveEvents, EventsOf, EndSync, PreviousIntervals, ScoreInv, CausalInv, StatusInv
  <2> QED BY <2>1, <2>2, <2>3 DEF IsReady, MaxReached
<1> QED BY <1>1, <1>2, <1>4, <1>5, ScenarioAssumption DEF LateInv

(* The decision about a sync: one at its maximum does not wait.            *)
LEMMA LateDecide ==
  ASSUME ScoreInv, LateInv, NEW n \in Syncs,
         TriggerAtMax(n) \/ NotTriggered(n) \/ Triggered(n)
  PROVE  LateInv'
<1> USE GraphAssumption, ScenarioAssumption
<1>1. /\ UNCHANGED <<event_status, itv, running, end_nodes>> /\ pc.cur = n
      /\ Return \/ \E max \in BOOLEAN : Execute(max)
      /\ pc.max /\ pc.phase = "sync" => Execute(pc.max)
  BY DEF TriggerAtMax, NotTriggered, Triggered, Quantize, Deciding, Interactive, scenario_vars,
     ScoreInv, BaseInv, TypeOK, PcTypes
<1>2. pc = [phase |-> pc.phase, todo |-> pc.todo, cur |-> pc.cur,
            decided |-> pc.decided, pending |-> pc.pending, max |-> pc.max]
      /\ pc.phase \in {"waiting", "musical", "sync"} /\ pc.max \in BOOLEAN
  BY <1>1 DEF ScoreInv, BaseInv, PcInv, TypeOK, PcTypes
<1>3. /\ \A max : Execute(max) => pc'.phase = pc.phase /\ pc'.todo = pc.todo /\ pc'.cur = n
                                  /\ pc'.max = max
      /\ Return => pc'.phase = pc.phase /\ pc'.todo = pc.todo
  <2>1. \A max : Execute(max) => pc'.phase = pc.phase /\ pc'.todo = pc.todo /\ pc'.cur = n
                                 /\ pc'.max = max
    BY <1>1, <1>2 DEF Execute
  <2> QED BY <2>1 DEF Return, Loop
<1>4. \A m \in Syncs : LateRunning(m)' = LateRunning(m) /\ Ripe(m)' = Ripe(m)
  BY <1>1 DEF LateRunning, Ripe
<1>5. pc'.phase = pc.phase /\ pc'.todo = pc.todo
  BY <1>1, <1>3
<1>6. pc.max /\ pc.phase = "sync" => pc'.cur = pc.cur /\ pc'.max
  BY <1>1, <1>3
<1> QED BY <1>2, <1>4, <1>5, <1>6 DEF LateInv

(* The execution of a sync: what led to it stops, what follows is at 0.    *)
LEMMA LateTrigger ==
  ASSUME ScoreInv, LateInv, Conditional = {}, NEW n \in Syncs,
         NEW happened \in SUBSET pc.pending, TriggerSync(n, happened)
  PROVE  LateInv'
<1> USE GraphAssumption, ScenarioAssumption
<1>1. PICK disposed \in SUBSET Events : Outcome(n, happened, disposed)
  BY TriggerFacts
<1> USE DEF Outcome
<1>2. disposed = {} /\ happened = EventsOf(n)
  BY <1>1
<1>3. /\ pc.cur = n /\ pc'.phase = pc.phase /\ pc'.todo = pc.todo /\ UNCHANGED end_nodes
      /\ pc.phase \in {"waiting", "musical", "sync"}
  BY DEF TriggerSync, Return, Loop, ScoreInv, BaseInv, PcInv
<1>4. ASSUME NEW i \in Intervals, i \in running', itv'[i].date >= Min[i]
      PROVE  i \in running /\ itv'[i] = itv[i] /\ EndSync(i) # n
  <2>1. StartedInterval(i, 0).date = 0
    BY DEF StartedInterval, StoppedInterval
  <2>2. i \notin NextOf(happened)
    BY <1>1, <1>4, <2>1, DateTypes
  <2>3. i \in running /\ i \notin StoppedBy(happened)
    BY <1>1, <1>2, <1>4, <2>2
  <2> QED BY <1>1, <1>2, <2>2, <2>3, DateTypes DEF StoppedBy, EventsOf, EndSync
<1>5. ASSUME NEW m \in Syncs, LateRunning(m)', Ripe(m)'
      PROVE  m # n /\ LateRunning(m) /\ Ripe(m)
  <2>1. m # n /\ LateRunning(m)
    <3>1. PICK i \in running' : i \in Incoming(m) /\ itv'[i].date >= Max[i]
      BY <1>5 DEF LateRunning, Incoming
    <3>2. i \in Intervals /\ EndSync(i) = m /\ itv'[i].date >= Min[i]
      <4>1. i \in Intervals /\ EndSync(i) = m
        BY <3>1 DEF Incoming
      <4>2. itv'[i].date \in Nat
        <5>1. StartedInterval(i, 0).date = 0 /\ StoppedInterval.date = 0
          BY DEF StartedInterval, StoppedInterval
        <5> QED BY <1>1, <4>1, <5>1, DateTypes
      <4> QED BY <3>1, <4>1, <4>2, DateTypes
    <3> QED BY <1>4, <3>1, <3>2 DEF LateRunning
  <2>2. \A e \in EventsOf(m) : event_status'[e] = event_status[e]
    BY <1>1, <1>2, <2>1 DEF EventsOf
  <2>3. Ripe(m)
    BY <1>4, <1>5, <2>2 DEF Ripe, EventsOf, PreviousIntervals
  <2> QED BY <2>1, <2>3
<1> QED BY <1>3, <1>5 DEF LateInv

(* An interval that advances to its maximum is noticed.                    *)
LEMMA LateRun ==
  ASSUME ScoreInv, LateInv, NEW i \in running, NEW t \in Nat, RunInterval(i, t),
         pc.phase \in {"run", "propagate"}
  PROVE  LateInv'
<1> USE GraphAssumption
<1>1. /\ UNCHANGED <<event_status, running>> /\ i \in Intervals
      /\ \A j \in Intervals \ {i} : itv'[j] = itv[j]
      /\ pc'.phase = pc.phase /\ pc'.todo = pc.todo \ {i}
      /\ end_nodes \subseteq end_nodes'
  BY RunCausal DEF RunInterval, Visited, Loop, ScoreInv, BaseInv, TypeOK
<1>2. /\ itv'[i].date >= Min[i] => EndSync(i) \in end_nodes'
      /\ itv'[i].date \in Nat
  <2> DEFINE d == IF Overshoot(i, t) = NoOvertick
                  THEN NonNegative(itv[i].date + t * Speed[i])
                  ELSE NonNegative(EndDate(i))
  <2>1. itv'[i].date = d
    BY <1>1 DEF RunInterval, ScoreInv, BaseInv, TypeOK
  <2>2. d < Min[i] \/ (d >= Min[i] /\ end_nodes' = end_nodes \cup {EndSync(i)})
    BY DEF RunInterval
  <2>3. d \in Nat
    BY <1>1, AdvanceType DEF ScoreInv, BaseInv
  <2> HIDE DEF d
  <2> QED BY <1>1, <2>1, <2>2, <2>3, DateTypes
<1>3. itv'[i].date >= Max[i] => EndSync(i) \in end_nodes'
  BY <1>1, <1>2, DateTypes
<1>4. CASE pc.phase = "run"
  <2>1. \A j \in running : itv'[j].date >= Max[j] =>
           j \in pc.todo \ {i} \/ EndSync(j) \in end_nodes'
    BY <1>1, <1>3, <1>4 DEF LateInv, ScoreInv, BaseInv, TypeOK
  <2> QED BY <1>1, <1>4, <2>1 DEF LateInv
<1>5. CASE pc.phase = "propagate"
  <2>1. ASSUME NEW m \in Syncs, LateRunning(m)', Ripe(m)', m \notin end_nodes'
        PROVE  LateRunning(m) /\ Ripe(m)
    <3>1. LateRunning(m)
      BY <1>1, <1>3, <2>1 DEF LateRunning, Incoming
    <3>2. Ripe(m)
      <4> SUFFICES ASSUME NEW e \in EventsOf(m), event_status[e] # "PENDING",
                          NEW j \in PreviousIntervals(e)
                   PROVE  j \in running /\ itv[j].date >= Min[j]
        BY DEF Ripe
      <4>1. j \in Intervals /\ EndSync(j) = m
        BY DEF PreviousIntervals, EventsOf, EndSync
      <4>2. j \in running' /\ itv'[j].date >= Min[j]
        BY <1>1, <2>1 DEF Ripe, EventsOf
      <4>3. j # i
        BY <1>2, <2>1, <4>1, <4>2
      <4> QED BY <1>1, <4>1, <4>2, <4>3
    <3> QED BY <3>1, <3>2
  <2> QED BY <1>1, <1>5, <2>1 DEF LateInv
<1> QED BY <1>4, <1>5

(* Every step preserves it.                                                *)
LEMMA LateStep ==
  ASSUME Conditional = {} PROVE ScoreInv /\ LateInv /\ [Next]_vars => LateInv'
<1> SUFFICES ASSUME ScoreInv, LateInv, [Next]_vars PROVE LateInv'
  OBVIOUS
<1> USE GraphAssumption, ScenarioAssumption
<1>1. Playable = {} /\ to_start = {} /\ to_stop = {}
  BY DEF ScoreInv, Straight, CausalInv
<1>2. CASE pc'.phase \in {"stopped", "roots", "waiting", "start", "stop", "musical"}
  BY <1>2 DEF LateInv
<1>3. CASE UNCHANGED <<event_status, itv, running, end_nodes, pc>>
  BY <1>3 DEF LateInv, LateRunning, Ripe
<1>4. CASE \E n \in Syncs, happened \in SUBSET pc.pending : TriggerSync(n, happened)
  BY <1>4, LateTrigger
<1>5. CASE \E n \in Syncs : TriggerAtMax(n) \/ NotTriggered(n) \/ Triggered(n)
  BY <1>5, LateDecide
<1>6. ASSUME NEW n \in Syncs, VisitSync(n) PROVE LateInv'
  <2>1. /\ pc.phase \in {"waiting", "sync"} /\ n \in pc.todo /\ pc.cur = None
        /\ CheckReady(n, pc.todo \ {n})
    BY <1>6 DEF VisitSync, In
  <2>2. pc'.phase = pc.phase
    BY <2>1 DEF CheckReady, Loop
  <2>3. pc.phase = "sync" => Reached(n) /\ pc.todo \subseteq Syncs
    BY <2>1 DEF ScoreInv, VisitInv, ReachInv
  <2> QED BY <1>2, <2>1, <2>2, <2>3, LateCheck
<1>7. ASSUME NEW i \in Intervals, VisitMusical(i) PROVE LateInv'
  <2>1. pc'.phase = "musical"
    BY <1>7 DEF VisitMusical, In, CheckReady, Visited, Loop
  <2> QED BY <1>2, <2>1
<1>8. ASSUME NEW i \in Intervals, VisitRunning(i) \/ VisitNext(i) PROVE LateInv'
  <2>1. /\ pc.phase \in {"run", "propagate"} /\ i \in running
        /\ tick.length \in Nat
        /\ overticks[StartSync(i)] \in Nat \cup {NoOvertick}
    <3>1. StartSync(i) \in Syncs
      BY DEF StartSync
    <3>2. pc.phase \in {"run", "propagate"} /\ i \in running
      BY <1>8 DEF VisitRunning, VisitNext, In, ScoreInv, VisitInv, ReachInv, Running
    <3> QED BY <3>1, <3>2 DEF ScoreInv, BaseInv, TypeOK
  <2>2. CASE VisitRunning(i)
    BY <2>1, <2>2, LateRun DEF VisitRunning
  <2>3. CASE VisitNext(i)
    <3>1. CASE pc' = Visited(i) /\ UNCHANGED scenario_vars
      BY <2>3, <3>1 DEF VisitNext, In, Visited, Loop, scenario_vars, LateInv, LateRunning, Ripe
    <3> QED BY <2>1, <2>3, <3>1, LateRun DEF VisitNext
  <2> QED BY <1>8, <2>2, <2>3
<1>9. CASE RootsVisited \/ WaitingVisited \/ ToStartVisited \/ ToStopVisited
  BY <1>2, <1>9 DEF RootsVisited, WaitingVisited, ToStartVisited, ToStopVisited, Loop
<1>10. CASE MusicalVisited
  BY <1>10 DEF MusicalVisited, Loop, scenario_vars, LateInv
<1>11. ASSUME \/ RunVisited \/ NextVisited \/ SyncsVisited
       PROVE  LateInv'
  <2>1. \A m \in Syncs : LateRunning(m)' = LateRunning(m) /\ Ripe(m)' = Ripe(m)
    BY <1>11 DEF RunVisited, NextVisited, SyncsVisited, scenario_vars, LateRunning, Ripe
  <2>2. CASE RunVisited
    <3>1. \A m \in Syncs : LateRunning(m) => m \in end_nodes
      BY <2>2 DEF RunVisited, In, LateInv, LateRunning, Incoming
    <3> QED BY <2>1, <2>2, <3>1 DEF RunVisited, Loop, scenario_vars, LateInv
  <2>3. CASE NextVisited
    BY <2>1, <2>3 DEF NextVisited, In, Loop, LateInv
  <2>4. CASE SyncsVisited
    BY <2>1, <2>4 DEF SyncsVisited, In, Loop, LateInv
  <2> QED BY <1>11, <2>2, <2>3, <2>4
<1>12. CASE Start
  <2>1. running' = {} /\ pc'.phase = "idle"
    BY <1>12 DEF Start, In, Loop, ScoreInv, VisitInv, WaitInv
  <2> QED BY <2>1 DEF LateInv, LateRunning
<1>13. CASE \/ Stop
            \/ \E length \in Ticks, quantum \in {NoDate} \cup Quanta :
                  BeginTick(length, quantum)
            \/ \E n \in Syncs : VisitRoot(n)
  <2>1. Stop => pc'.phase = "stopped"
    BY DEF Stop, Loop
  <2>2. \A length, quantum : BeginTick(length, quantum) => pc'.phase = "roots"
    BY DEF BeginTick, Loop
  <2>3. \A n : VisitRoot(n) => pc'.phase = "roots"
    BY DEF VisitRoot, In, Visited, Loop
  <2> QED BY <1>2, <1>13, <2>1, <2>2, <2>3
<1>14. CASE UNCHANGED vars \/ \E n \in Clickable : StartTriggerRequest(n)
  BY <1>3, <1>14 DEF StartTriggerRequest, vars, scenario_vars
<1> QED BY <1>1, <1>4, <1>5, <1>6, <1>7, <1>8, <1>9, <1>10, <1>11, <1>12, <1>13, <1>14
        DEF Next, TickStep, Command

(* In such a score without conditions nothing is left to execute at the    *)
(* end of a tick: the do-while loop of state_impl is repeated often enough.*)
THEOREM NothingLateHolds ==
  ASSUME Straight, Conditional = {} PROVE Spec => []NothingLate
<1>1. Init => LateInv
  BY DEF Init, LateInv, LateRunning, Loop
<1>2. ScoreInv /\ LateInv => NothingLate
  <2> SUFFICES ASSUME ScoreInv, LateInv, In("idle"), NEW n \in Syncs,
                      NEW i \in Incoming(n) \cap running, itv[i].date >= Max[i]
               PROVE  ~IsReady(n)
    BY DEF NothingLate, Idle
  <2>1. LateRunning(n) /\ Reached(n)
    BY DEF LateRunning, Reached
  <2> QED BY <2>1, RipeReady DEF LateInv, In
<1> QED BY <1>1, <1>2, ScoreHolds, LateStep, PTL DEF Spec
-----------------------------------------------------------------------------
(* Dates, in a rigid score without loops and conditions.                   *)

(* A rigid score: its start syncs execute at the first tick and only then, *)
(* an interval that plays forward has one duration, which its speed        *)
(* divides, and the intervals agree on the dates of the syncs.  Attached   *)
(* syncs are those that something can execute.                             *)
Attached(n) == n \in StartSyncs \/ Incoming(n) # {}
Rigid ==
    /\ \A n \in StartSyncs : Trigger[n] = "auto" /\ n \notin Clickable
    /\ \A i \in Intervals :
          /\ Speed[i] > 0 => /\ Min[i] = Max[i] /\ Max[i] < Infinite
                             /\ Max[i] % Speed[i] = 0
          /\ Attached(StartSync(i))
          /\ SyncDate[EndSync(i)] = SyncDate[StartSync(i)] + Length(i)

(* The date of an interval when the scenario is at date d, and what is     *)
(* left of the tick after a sync.                                          *)
Before == last_date - tick.length
PlayedFor(i, d) ==
    IF d - SyncDate[StartSync(i)] < Length(i)
    THEN d - SyncDate[StartSync(i)] ELSE Length(i)
Position(i, d) == NonNegative(PlayedFor(i, d) * Speed[i])
Rest(n, d) == IF d > SyncDate[n] THEN d - SyncDate[n] ELSE NoOvertick

(* No sync gets a date to end at, nobody asks for a start sync, and a sync *)
(* that executes after the intervals have run is at its maximum.           *)
QuietInv ==
    /\ \A i \in Intervals : end_map[i] = Infinite
    /\ \A n \in StartSyncs : ~request[n]
    /\ retry = {}
    /\ pc.phase \notin {"propagate", "sync"} => max_reached = {}
    /\ pc.phase = "musical" => pc.cur = None
    /\ pc.cur # None => (pc.max <=> pc.phase = "sync")

(* The start syncs wait until the first tick, at date 0, executes them.    *)
Outside == {"stopped", "idle"}
StartInv ==
    /\ pc.phase = "stopped" => last_date = Infinite
    /\ last_date = Infinite =>
          /\ pc.phase \in Outside /\ running = {}
          /\ \A e \in Events : event_status[e] = "NONE"
          /\ pc.phase = "idle" => waiting = StartSyncs
    /\ last_date # Infinite =>
          /\ last_date <= MaxDate
          /\ \A e \in Events : SyncOf[e] \in StartSyncs \ waiting => Done(e)
    /\ pc.phase \notin Outside => tick.length <= last_date
    /\ pc.phase \in {"roots", "waiting"} => (waiting # {} => Before = 0)
    /\ pc.phase = "waiting" => waiting \subseteq pc.todo \cup {pc.cur}
    /\ pc.phase \notin Outside \cup {"roots", "waiting"} => waiting = {}
    /\ pc.phase = "idle" /\ last_date # Infinite => waiting = {}

(* Nothing is reached before its date, and what follows an event that has  *)
(* executed runs until its end executes.                                   *)
ReachedInv ==
    /\ \A e \in Events : event_status[e] # "NONE" => SyncDate[SyncOf[e]] <= last_date
    /\ \A i \in Intervals :
          event_status[StartEv[i]] = "HAPPENED_FINISHED" /\ ~Done(EndEv[i]) => i \in running
    /\ pc.phase \in {"run", "propagate", "sync"} =>
          \A n \in end_nodes : SyncDate[n] <= last_date
    /\ pc.phase = "musical" => end_nodes = {}
    /\ pc.phase = "sync" => pc.todo \cup {pc.cur} \subseteq end_nodes \cup {None}

(* The intervals that the loop being run has not advanced yet: before the  *)
(* run those of the last tick, after it those that an event carried, which *)
(* find what is left of the tick in the overtick of their start.  All the  *)
(* others are where the date of the scenario wants them.                   *)
Behind ==
    CASE pc.phase \in BeforeRun \cup {"musical"} -> running
      [] pc.phase \in {"run", "propagate"} -> pc.todo
      [] pc.phase = "sync" -> NextOf(max_reached)
      [] OTHER -> {}
PositionInv ==
    /\ pc.phase \in BeforeRun \cup {"musical"} =>
          \A n \in Syncs : overticks[n] = NoOvertick
    /\ pc.phase \in Running \cup {"sync"} =>
          \A n \in Syncs : overticks[n] \in {NoOvertick, Rest(n, last_date)}
    /\ \A i \in running \ Behind :
          /\ itv[i].date = Position(i, last_date)
          /\ pc.phase # "idle" => overticks[EndSync(i)] = Rest(EndSync(i), last_date)
    /\ \A i \in running \cap Behind :
          IF pc.phase \in {"propagate", "sync"}
          THEN itv[i].date = 0 /\ overticks[StartSync(i)] = Rest(StartSync(i), last_date)
          ELSE /\ itv[i].date = Position(i, Before)
               /\ SyncDate[StartSync(i)] <= Before /\ Before < SyncDate[EndSync(i)]
PunctualInv == QuietInv /\ StartInv /\ ReachedInv /\ PositionInv

RigidInv == ScoreInv /\ Conditional = {} /\ Rigid /\ PunctualInv

(* The scenario as the date alone would have it.                           *)
StateAt(d) ==
    /\ running = {i \in Intervals : /\ SyncDate[StartSync(i)] <= d
                                    /\ d < SyncDate[EndSync(i)]}
    /\ \A i \in Intervals :
          itv[i].date = IF i \in running THEN Position(i, d) ELSE 0
    /\ \A e \in Events : Attached(SyncOf[e]) =>
          event_status[e] = IF SyncDate[SyncOf[e]] <= d THEN "HAPPENED_FINISHED" ELSE "NONE"

(* A multiple divided.                                                     *)
LEMMA Quotient ==
  ASSUME NEW k \in Int, NEW s \in Nat, s > 0
  PROVE  (k * s) \div s = k
<1> DEFINE p == k * s
           q == p \div s
           r == p % s
<1>1. p \in Int /\ q \in Int /\ r \in Int /\ p = s * q + r /\ 0 <= r /\ r < s
  <2> HIDE DEF p
  <2>1. p \in Int
    BY DEF p
  <2> QED BY <2>1
<1>2. PICK d \in Int : d = k - q
  BY <1>1
<1>3. r = d * s
  <2> HIDE DEF q, r
  <2> QED BY <1>1, <1>2 DEF p
<1> HIDE DEF p, q, r
<1>4. d >= 1 => d * s >= s
  BY <1>2
<1>5. d <= -1 => d * s <= -s
  BY <1>2
<1>6. d = 0
  BY <1>1, <1>2, <1>3, <1>4, <1>5
<1> QED BY <1>1, <1>2, <1>6 DEF p, q

(* What an interval lasts.                                                 *)
LEMMA Lengths ==
  ASSUME Straight, NEW i \in Intervals
  PROVE  /\ Length(i) \in Nat
         /\ Speed[i] <= 0 => Length(i) = Infinite
         /\ Speed[i] > 0 /\ Max[i] % Speed[i] = 0 =>
               Length(i) * Speed[i] = Max[i] /\ Length(i) >= 1
<1> USE GraphAssumption
<1>1. Max[i] \in Nat /\ Max[i] > 0 /\ Speed[i] \in Int /\ Infinite \in Nat
  BY DEF Straight
<1>2. CASE Speed[i] <= 0
  BY <1>1, <1>2 DEF Length
<1>3. CASE Speed[i] > 0
  <2> DEFINE q == Max[i] \div Speed[i]
  <2>1. /\ q \in Nat
        /\ Max[i] % Speed[i] = 0 => Speed[i] * q = Max[i]
    BY <1>1, <1>3
  <2>2. Length(i) = q
    BY <1>3 DEF Length
  <2> HIDE DEF q
  <2>3. Max[i] % Speed[i] = 0 => q # 0
    BY <1>1, <1>3, <2>1
  <2> QED BY <1>1, <1>3, <2>1, <2>2, <2>3
<1> QED BY <1>1, <1>2, <1>3

(* Where the score writes the syncs.                                       *)
LEMMA SyncDates ==
  ASSUME Straight
  PROVE  /\ SyncDate \in [Syncs -> Nat]
         /\ \A n \in Syncs : Incoming(n) = {} => SyncDate[n] = 0
<1> DEFINE M == Cardinality(Syncs)
           S == [Syncs -> Nat]
           B(m) == {i \in Incoming(m) : i \notin Graphal}
           C(m) == CHOOSE i \in B(m) : TRUE
           step == [f \in S |-> [m \in Syncs |->
                      IF B(m) = {} THEN 0 ELSE Length(C(m)) + f[StartSync(C(m))]]]
           G == [k \in 1..M |-> step]
           zero == [m \in Syncs |-> 0]
<1>1. M \in Nat
  BY FS_CardinalityType, GraphAssumption
<1>2. \A m \in Syncs : B(m) # {} => /\ C(m) \in B(m) /\ C(m) \in Intervals
                                    /\ StartSync(C(m)) \in Syncs /\ Length(C(m)) \in Nat
  <2> SUFFICES ASSUME NEW m \in Syncs, B(m) # {}
               PROVE  /\ C(m) \in B(m) /\ C(m) \in Intervals
                      /\ StartSync(C(m)) \in Syncs /\ Length(C(m)) \in Nat
    OBVIOUS
  <2>1. C(m) \in B(m) /\ C(m) \in Intervals
    BY DEF Incoming
  <2> HIDE DEF B, C
  <2> QED BY <2>1, Lengths, GraphAssumption DEF StartSync
<1>3. step \in [S -> S] /\ zero \in S
  <2>1. \A f \in S : [m \in Syncs |->
              IF B(m) = {} THEN 0 ELSE Length(C(m)) + f[StartSync(C(m))]] \in S
    <3> HIDE DEF B, C
    <3> QED BY <1>2
  <2> HIDE DEF B, C
  <2> QED BY <2>1
<1>4. G \in [1..M -> [S -> S]]
  <2> HIDE DEF step, S
  <2> QED BY <1>3
<1>5. PICK f \in [0..M -> S] : Recurses(f, zero, G, M)
  <2>1. zero \in S
    BY <1>3
  <2> HIDE DEF S, G, zero, M, step
  <2> QED BY <1>1, <2>1, <1>4, RecursionValues
<1> DEFINE Dates(g) == [k \in 0..M |-> [m \in Syncs |->
                         IF k = 0 \/ B(m) = {} THEN 0
                         ELSE Length(C(m)) + g[k-1][StartSync(C(m))]]]
           date == CHOOSE g : g = Dates(g)
<1>6. f = Dates(f)
  <2>1. ASSUME NEW k \in 0..M
        PROVE  f[k] = [m \in Syncs |-> IF k = 0 \/ B(m) = {} THEN 0
                                  ELSE Length(C(m)) + f[k-1][StartSync(C(m))]]
    <3>1. CASE k = 0
      <4>1. f[0] = zero
        BY <1>5 DEF Recurses
      <4> HIDE DEF B, C
      <4> QED BY <3>1, <4>1
    <3>2. CASE k # 0
      <4>1. k \in 1..M /\ k - 1 \in 0..M
        BY <1>1, <3>2
      <4>2. G[k] = step /\ f[k-1] \in S
        <5> HIDE DEF step, S
        <5> QED BY <4>1
      <4>3. f[k] = G[k][f[k-1]]
        <5> HIDE DEF G, zero
        <5> QED BY <1>5, <4>1 DEF Recurses
      <4> HIDE DEF B, C, G, M
      <4>4. step[f[k-1]] = [m \in Syncs |->
              IF B(m) = {} THEN 0 ELSE Length(C(m)) + f[k-1][StartSync(C(m))]]
        <5> HIDE DEF S
        <5> QED BY <4>2
      <4> HIDE DEF step
      <4> QED BY <3>2, <4>2, <4>3, <4>4
    <3> QED BY <3>1, <3>2
  <2> HIDE DEF B, C, M, S
  <2> QED BY <2>1
<1>7. date = Dates(date)
  <2> HIDE DEF Dates
  <2> QED BY <1>6
<1>8. SyncDate = date[M]
  BY DEF SyncDate
<1>9. date \in [0..M -> S]
  <2> DEFINE T == {k \in Nat : k <= M => date[k] \in S}
  <2>1. \A k \in 0..M : date[k] = [m \in Syncs |->
                         IF k = 0 \/ B(m) = {} THEN 0
                         ELSE Length(C(m)) + date[k-1][StartSync(C(m))]]
    <3> HIDE DEF date, B, C, M
    <3> QED BY <1>7
  <2> HIDE DEF date, B, C, M
  <2>2. 0 \in T
    <3>1. 0 \in 0..M
      BY <1>1
    <3>2. date[0] = [m \in Syncs |-> 0]
      BY <2>1, <3>1
    <3> QED BY <3>2
  <2>3. \A k \in T : k + 1 \in T
    <3> SUFFICES ASSUME NEW k \in Nat, k + 1 <= M, date[k] \in S
                 PROVE  date[k+1] \in S
      BY <1>1
    <3>1. k + 1 \in 0..M /\ (k + 1) - 1 = k
      BY <1>1
    <3> DEFINE next(m) == IF k + 1 = 0 \/ B(m) = {} THEN 0
                          ELSE Length(C(m)) + date[k][StartSync(C(m))]
    <3>2. date[k+1] = [m \in Syncs |-> next(m)]
      BY <2>1, <3>1
    <3>3. ASSUME NEW m \in Syncs PROVE next(m) \in Nat
      <4>1. CASE B(m) = {}
        BY <4>1
      <4>2. CASE B(m) # {}
        <5>1. StartSync(C(m)) \in Syncs /\ Length(C(m)) \in Nat
          BY <1>2, <4>2
        <5>2. date[k][StartSync(C(m))] \in Nat /\ k + 1 # 0
          BY <5>1
        <5> QED BY <4>2, <5>1, <5>2
      <4> QED BY <4>1, <4>2
    <3> HIDE DEF next
    <3> QED BY <3>2, <3>3
  <2>4. T = Nat
    <3>1. T \in SUBSET Nat
      OBVIOUS
    <3> HIDE DEF T
    <3> QED BY <2>2, <2>3, <3>1, SetInduction
  <2>5. \A k \in 0..M : date[k] \in S
    <3>1. \A k \in 0..M : k \in Nat /\ k <= M
      BY <1>1
    <3> QED BY <2>4, <3>1
  <2>6. date = [k \in 0..M |-> date[k]]
    BY <1>7
  <2> HIDE DEF S
  <2> QED BY <2>5, <2>6
<1>10. \A n \in Syncs : Incoming(n) = {} => date[M][n] = 0
  <2>1. M \in 0..M
    BY <1>1
  <2>2. date[M] = [m \in Syncs |->
                         IF M = 0 \/ B(m) = {} THEN 0
                         ELSE Length(C(m)) + date[M-1][StartSync(C(m))]]
    <3> HIDE DEF date, B, C, M
    <3> QED BY <1>7, <2>1
  <2>3. \A n \in Syncs : Incoming(n) = {} => B(n) = {}
    OBVIOUS
  <2> HIDE DEF date, B, C, M
  <2> QED BY <2>2, <2>3
<1>11. M \in 0..M
  BY <1>1
<1> HIDE DEF date, M, S
<1> QED BY <1>8, <1>9, <1>10, <1>11 DEF S

(* What is known of an interval and of the syncs at its ends.              *)
LEMMA RigidTypes ==
  ASSUME RigidInv, NEW i \in Intervals
  PROVE  /\ StartSync(i) \in Syncs /\ EndSync(i) \in Syncs
         /\ SyncDate[StartSync(i)] \in Nat /\ SyncDate[EndSync(i)] \in Nat
         /\ Length(i) \in Nat /\ Length(i) >= 1
         /\ SyncDate[EndSync(i)] = SyncDate[StartSync(i)] + Length(i)
         /\ Speed[i] \in Int /\ Min[i] \in Nat /\ Max[i] \in Nat
         /\ Min[i] > 0 /\ Max[i] > 0 /\ Max[i] <= Infinite
         /\ Speed[i] <= 0 => Length(i) = Infinite
         /\ Speed[i] > 0 => /\ Length(i) * Speed[i] = Max[i]
                            /\ Min[i] = Max[i] /\ Max[i] < Infinite
         /\ end_map[i] = Infinite /\ Infinite \in Nat
<1> USE GraphAssumption
<1>1. Straight /\ ScoreInv /\ Rigid
  BY DEF RigidInv, ScoreInv
<1>2. StartSync(i) \in Syncs /\ EndSync(i) \in Syncs
  BY DEF StartSync, EndSync
<1>3. SyncDate[StartSync(i)] \in Nat /\ SyncDate[EndSync(i)] \in Nat
  BY <1>1, <1>2, SyncDates
<1>4. /\ Speed[i] \in Int /\ Min[i] \in Nat /\ Max[i] \in Nat
      /\ Min[i] > 0 /\ Max[i] > 0 /\ Max[i] <= Infinite /\ Infinite \in Nat
  BY <1>1 DEF Straight
<1>5. /\ Speed[i] > 0 => Min[i] = Max[i] /\ Max[i] < Infinite /\ Max[i] % Speed[i] = 0
      /\ SyncDate[EndSync(i)] = SyncDate[StartSync(i)] + Length(i)
  BY <1>1 DEF Rigid
<1>6. /\ Length(i) \in Nat
      /\ Speed[i] <= 0 => Length(i) = Infinite
      /\ Speed[i] > 0 /\ Max[i] % Speed[i] = 0 =>
            Length(i) * Speed[i] = Max[i] /\ Length(i) >= 1
  BY <1>1, Lengths
<1>7. end_map[i] = Infinite
  BY DEF RigidInv, PunctualInv, QuietInv
<1>8. Length(i) >= 1
  BY <1>4, <1>5, <1>6
<1> QED BY <1>2, <1>3, <1>4, <1>5, <1>6, <1>7, <1>8

(* More time is more of an interval.                                       *)
LEMMA Multiples ==
  ASSUME NEW x \in Int, NEW y \in Int, NEW s \in Nat, s > 0, x < y
  PROVE  x * s < y * s
<1>1. PICK k \in Nat : y = x + 1 + k
  <2>1. y - x - 1 \in Nat /\ y = x + 1 + (y - x - 1)
    OBVIOUS
  <2> QED BY <2>1
<1>2. y * s = x * s + s + k * s
  BY <1>1
<1>3. x * s \in Int /\ k * s \in Nat
  BY <1>1
<1> QED BY <1>2, <1>3

(* An interval is at its end from the date of its end sync on.             *)
LEMMA PositionFacts ==
  ASSUME RigidInv, NEW i \in Intervals, NEW d \in Nat, d < Infinite,
         SyncDate[StartSync(i)] <= d
  PROVE  /\ Position(i, d) \in Nat
         /\ d < SyncDate[EndSync(i)] => Position(i, d) < Min[i]
         /\ d >= SyncDate[EndSync(i)] => Speed[i] > 0 /\ Position(i, d) = Max[i]
         /\ d = SyncDate[StartSync(i)] => Position(i, d) = 0
<1> DEFINE p == PlayedFor(i, d)
           s == Speed[i]
           L == Length(i)
           ds == SyncDate[StartSync(i)]
           de == SyncDate[EndSync(i)]
<1>1. /\ ds \in Nat /\ de \in Nat /\ L \in Nat /\ L >= 1 /\ de = ds + L
      /\ s \in Int /\ Min[i] \in Nat /\ Max[i] \in Nat /\ Min[i] > 0 /\ Max[i] > 0
      /\ s <= 0 => L = Infinite
      /\ s > 0 => L * s = Max[i] /\ Min[i] = Max[i]
      /\ Infinite \in Nat
  BY RigidTypes
<1>2. /\ p \in Nat /\ (d < de => p = d - ds /\ p < L) /\ (d >= de => p = L)
      /\ (d = ds => p = 0)
  BY <1>1 DEF PlayedFor
<1>3. Position(i, d) = IF p * s < 0 THEN 0 ELSE p * s
  BY DEF Position, NonNegative
<1> HIDE DEF p, s, L, ds, de
<1>4. CASE s <= 0
  <2>1. p * s <= 0 /\ p * s \in Int
    BY <1>1, <1>2, <1>4
  <2>2. d < de
    BY <1>1, <1>4
  <2>3. Position(i, d) = 0
    BY <1>3, <2>1
  <2> QED BY <1>1, <2>2, <2>3 DEF ds, de
<1>5. CASE s > 0
  <2>1. s \in Nat /\ p * s \in Nat
    BY <1>1, <1>2, <1>5
  <2>2. Position(i, d) = p * s
    BY <1>3, <2>1
  <2>3. d < de => p * s < L * s
    BY <1>1, <1>2, <1>5, <2>1, Multiples
  <2>4. p = 0 => p * s = 0
    BY <2>1
  <2> QED BY <1>1, <1>2, <1>5, <2>1, <2>2, <2>3, <2>4 DEF s, ds, de
<1> QED BY <1>1, <1>4, <1>5

(* run_interval moves an interval from its position at a date to that at a *)
(* later one, and leaves what is past its end.                             *)
LEMMA AdvanceFacts ==
  ASSUME RigidInv, NEW i \in Intervals, NEW t \in Nat, NEW d \in Nat,
         d + t < Infinite, SyncDate[StartSync(i)] <= d, d < SyncDate[EndSync(i)],
         itv[i].date = Position(i, d), RunInterval(i, t)
  PROVE  /\ itv'[i].date = Position(i, d + t)
         /\ \A n \in Syncs : overticks'[n] =
               IF n = EndSync(i) /\ Rest(n, d + t) > overticks[n]
               THEN Rest(n, d + t) ELSE overticks[n]
         /\ end_nodes' = IF SyncDate[EndSync(i)] <= d + t
                         THEN end_nodes \cup {EndSync(i)} ELSE end_nodes
<1> DEFINE p == d - SyncDate[StartSync(i)]
           s == Speed[i]
           L == Length(i)
           m == Max[i]
           ds == SyncDate[StartSync(i)]
           de == SyncDate[EndSync(i)]
           n == EndSync(i)
           ot == Overshoot(i, t)
           date == IF ot = NoOvertick THEN NonNegative(itv[i].date + t * Speed[i])
                   ELSE NonNegative(EndDate(i))
<1>1. /\ ds \in Nat /\ de \in Nat /\ L \in Nat /\ L >= 1 /\ de = ds + L
      /\ s \in Int /\ Min[i] \in Nat /\ m \in Nat /\ Min[i] > 0 /\ m > 0
      /\ m <= Infinite
      /\ s <= 0 => L = Infinite
      /\ s > 0 => L * s = m /\ Min[i] = m /\ m < Infinite
      /\ end_map[i] = Infinite /\ Infinite \in Nat /\ n \in Syncs
  BY RigidTypes
<1>2. p \in Nat /\ p < L
  BY <1>1
<1>3. EndDate(i) = m
  BY <1>1 DEF EndDate
<1>4. itv[i].date = NonNegative(p * s) /\ ot = Overshoot(i, t)
  BY <1>2 DEF Position, PlayedFor
<1>5. PICK q \in Int : q = t * s
  BY <1>1
<1>6. ot = IF m = Infinite \/ s < 0 \/ itv[i].date + q - m <= 0 THEN NoOvertick
           ELSE IF s = 0 THEN itv[i].date + q - m ELSE (itv[i].date + q - m) \div s
  BY <1>3, <1>5 DEF Overshoot
<1>7. date = IF ot = NoOvertick THEN NonNegative(itv[i].date + q) ELSE NonNegative(m)
  BY <1>3, <1>5
<1>8. ot = Rest(n, d + t) /\ date = Position(i, d + t)
  <2>0. /\ Rest(n, d + t) = IF d + t > de THEN (d + t) - de ELSE NoOvertick
        /\ Position(i, d + t) = NonNegative((IF p + t < L THEN p + t ELSE L) * s)
    <3>1. (d + t) - ds = p + t
      BY <1>1
    <3>2. PlayedFor(i, d + t) = IF p + t < L THEN p + t ELSE L
      <4> HIDE DEF p, L
      <4> QED BY <3>1 DEF PlayedFor, L
    <3>3. Position(i, d + t) = NonNegative((IF p + t < L THEN p + t ELSE L) * s)
      <4> HIDE DEF p, L
      <4> QED BY <3>2 DEF Position
    <3>4. Rest(n, d + t) = IF d + t > de THEN (d + t) - de ELSE NoOvertick
      BY DEF Rest
    <3> QED BY <3>3, <3>4
  <2>1. CASE s <= 0
    <3> HIDE DEF p, s, L, m, ds, de, n, ot, date
    <3>1. q <= 0 /\ p * s <= 0 /\ p * s \in Int /\ (p + t) * s <= 0 /\ (p + t) * s \in Int
      BY <1>1, <1>2, <1>5, <2>1
    <3>2. itv[i].date = 0
      BY <1>4, <3>1 DEF NonNegative
    <3>3. d + t < de /\ p + t < L
      <4>1. d + t = ds + p + t
        BY <1>1 DEF p, ds
      <4> QED BY <1>1, <1>2, <2>1, <4>1
    <3>4. ot = NoOvertick /\ date = 0
      BY <1>1, <1>6, <1>7, <3>1, <3>2 DEF NonNegative
    <3> QED BY <1>1, <2>0, <3>1, <3>3, <3>4 DEF NonNegative
  <2>2. CASE s > 0
    <3> DEFINE k == p + t - L
    <3>0. k = d + t - de
      BY <1>1
    <3> HIDE DEF p, s, L, m, ds, de, n, ot, date, k
    <3>1. s \in Nat /\ p * s \in Nat /\ k \in Int
      BY <1>1, <1>2, <2>2 DEF k
    <3>2. itv[i].date = p * s
      BY <1>4, <3>1 DEF NonNegative
    <3>3. /\ itv[i].date + q = (p + t) * s /\ (p + t) * s \in Nat
          /\ itv[i].date + q - m = k * s /\ k * s \in Int
      BY <1>1, <1>2, <1>5, <2>2, <3>1, <3>2 DEF k
    <3>4. CASE k <= 0
      <4>1. k * s <= 0
        BY <3>1, <3>4
      <4>2. ot = NoOvertick
        BY <1>6, <3>3, <4>1
      <4>3. date = (p + t) * s
        BY <1>7, <3>3, <4>2 DEF NonNegative
      <4>4. (IF p + t < L THEN p + t ELSE L) = p + t
        BY <1>1, <1>2, <3>4 DEF k
      <4>5. Position(i, d + t) = (p + t) * s
        BY <2>0, <3>3, <4>4 DEF NonNegative
      <4>6. Rest(n, d + t) = NoOvertick
        BY <1>1, <2>0, <3>0, <3>4
      <4> QED BY <4>2, <4>3, <4>5, <4>6
    <3>5. CASE k > 0
      <4>1. k * s > 0 /\ (k * s) \div s = k
        BY <2>2, <3>1, <3>5, Quotient, Multiples
      <4>2. ot = k
        BY <1>1, <1>6, <2>2, <3>3, <4>1
      <4>3. date = m
        BY <1>1, <1>7, <3>1, <3>5, <4>2 DEF NonNegative, NoOvertick
      <4>4. (IF p + t < L THEN p + t ELSE L) = L
        BY <1>1, <1>2, <3>5 DEF k
      <4>5. Position(i, d + t) = m
        BY <1>1, <2>0, <2>2, <4>4 DEF NonNegative
      <4>6. Rest(n, d + t) = k
        BY <1>1, <2>0, <3>0, <3>5
      <4> QED BY <4>2, <4>3, <4>5, <4>6
    <3> QED BY <3>1, <3>4, <3>5
  <2> QED BY <1>1, <2>1, <2>2
<1>9. /\ itv' = [itv EXCEPT ![i].date = date]
      /\ overticks' = [overticks EXCEPT ![n] = IF ot > @ THEN ot ELSE @]
      /\ \/ date >= Min[i] /\ end_nodes' = end_nodes \cup {n}
         \/ date < Min[i] /\ UNCHANGED end_nodes
  BY DEF RunInterval
<1>10. /\ itv \in [Intervals -> [date : Nat, offset : Nat, running : BOOLEAN]]
       /\ overticks \in [Syncs -> Nat \cup {NoOvertick}]
  BY DEF RigidInv, ScoreInv, BaseInv, TypeOK
<1>11. /\ Position(i, d + t) \in Nat
       /\ d + t < de => Position(i, d + t) < Min[i]
       /\ d + t >= de => Position(i, d + t) = m
  BY <1>1, PositionFacts
<1>12. s <= 0 => d + t < de
  BY <1>1
<1> HIDE DEF date, ot, s, m, de, L, p
<1>13. itv'[i].date = Position(i, d + t)
  BY <1>8, <1>9, <1>10
<1>14. \A x \in Syncs : overticks'[x] =
         IF x = n /\ Rest(x, d + t) > overticks[x] THEN Rest(x, d + t) ELSE overticks[x]
  BY <1>1, <1>8, <1>9, <1>10
<1>15. end_nodes' = IF de <= d + t THEN end_nodes \cup {n} ELSE end_nodes
  BY <1>1, <1>8, <1>9, <1>11, <1>12
<1> QED BY <1>13, <1>14, <1>15 DEF de

(* The dates that the steps of a tick compare.                             *)
LEMMA TickDates ==
  ASSUME RigidInv
  PROVE  /\ last_date \in Nat /\ tick.length \in Nat /\ MaxDate \in Nat
         /\ Infinite \in Nat /\ MaxDate < Infinite
         /\ \A n \in Syncs : /\ SyncDate[n] \in Nat
                             /\ overticks[n] \in Nat \cup {NoOvertick}
                             /\ Rest(n, last_date) \in Nat \cup {NoOvertick}
         /\ \A n \in StartSyncs : n \in Syncs /\ SyncDate[n] = 0 /\ Incoming(n) = {}
         /\ pc.phase \notin Outside =>
               last_date < Infinite /\ Before \in Nat /\ Before + tick.length = last_date
<1> USE ScenarioAssumption, GraphAssumption
<1>1. /\ last_date \in Nat /\ tick.length \in Nat
      /\ \A n \in Syncs : overticks[n] \in Nat \cup {NoOvertick}
  BY DEF RigidInv, ScoreInv, BaseInv, TypeOK
<1>2. Straight
  BY DEF RigidInv, ScoreInv
<1>3. \A n \in Syncs : SyncDate[n] \in Nat
  BY <1>2, SyncDates
<1>4. \A n \in StartSyncs : n \in Syncs /\ Incoming(n) = {}
  BY <1>2 DEF Straight, Incoming
<1>5. \A n \in StartSyncs : SyncDate[n] = 0
  BY <1>2, <1>4, SyncDates
<1>6. \A n \in Syncs : Rest(n, last_date) \in Nat \cup {NoOvertick}
  BY <1>1, <1>3 DEF Rest
<1>7. pc.phase \notin Outside => last_date # Infinite /\ last_date <= MaxDate
                                 /\ tick.length <= last_date
  BY DEF RigidInv, PunctualInv, StartInv
<1>8. pc.phase \notin Outside =>
         last_date < Infinite /\ Before \in Nat /\ Before + tick.length = last_date
  BY <1>1, <1>7 DEF Before
<1> QED BY <1>1, <1>3, <1>4, <1>5, <1>6, <1>8

(* An interval that the tick, or what is left of it, has advanced.         *)
LEMMA Advanced ==
  ASSUME RigidInv, NEW i \in running, i \in pc.todo, pc.cur = None,
         pc.phase \in {"run", "propagate"},
         itv'[i].date = Position(i, last_date),
         \A j \in Intervals \ {i} : itv'[j] = itv[j],
         \A n \in Syncs : overticks'[n] =
            IF n = EndSync(i) /\ Rest(n, last_date) > overticks[n]
            THEN Rest(n, last_date) ELSE overticks[n],
         end_nodes' = IF SyncDate[EndSync(i)] <= last_date
                      THEN end_nodes \cup {EndSync(i)} ELSE end_nodes,
         pc' = Visited(i),
         UNCHANGED <<event_status, request, running, waiting, retry, max_reached,
                     end_map, last_date, tick>>
  PROVE  PunctualInv'
<1> USE GraphAssumption
<1>1. i \in Intervals /\ running \subseteq Intervals
  BY DEF RigidInv, ScoreInv, BaseInv, TypeOK
<1>2. pc'.phase = pc.phase /\ pc'.todo = pc.todo \ {i} /\ pc'.cur = None
  BY DEF Visited, Loop
<1>3. QuietInv'
  BY <1>2 DEF RigidInv, PunctualInv, QuietInv
<1>4. StartInv'
  BY <1>2 DEF RigidInv, PunctualInv, StartInv, Before, Done, Outside
<1>5. ReachedInv'
  BY <1>2 DEF RigidInv, PunctualInv, ReachedInv, Done
<1>6. PositionInv'
  <2>1. Behind' = pc.todo \ {i} /\ Behind = pc.todo
    BY <1>2 DEF Behind, BeforeRun
  <2>2. \A n \in Syncs : /\ overticks[n] \in {NoOvertick, Rest(n, last_date)}
                         /\ Rest(n, last_date) \in Nat \cup {NoOvertick}
    BY TickDates DEF RigidInv, PunctualInv, PositionInv, Running
  <2>3. \A n \in Syncs : /\ overticks'[n] \in {NoOvertick, Rest(n, last_date)}
                         /\ overticks[n] = Rest(n, last_date) =>
                               overticks'[n] = Rest(n, last_date)
                         /\ n = EndSync(i) => overticks'[n] = Rest(n, last_date)
    BY <2>2 DEF NoOvertick
  <2>4. ASSUME NEW j \in running \ (pc.todo \ {i})
        PROVE  /\ itv'[j].date = Position(j, last_date)
               /\ overticks'[EndSync(j)] = Rest(EndSync(j), last_date)
    <3>1. EndSync(j) \in Syncs /\ j \in Intervals
      BY <1>1 DEF EndSync
    <3>2. CASE j = i
      BY <2>3, <3>1, <3>2
    <3>3. CASE j # i
      <4>1. /\ itv[j].date = Position(j, last_date)
            /\ overticks[EndSync(j)] = Rest(EndSync(j), last_date)
        BY <2>1, <2>4, <3>3 DEF RigidInv, PunctualInv, PositionInv
      <4> QED BY <2>3, <3>1, <3>3, <4>1
    <3> QED BY <3>2, <3>3
  <2>5. ASSUME NEW j \in running, j \in pc.todo \ {i}
        PROVE  IF pc.phase = "propagate"
               THEN itv'[j].date = 0
                    /\ overticks'[StartSync(j)] = Rest(StartSync(j), last_date)
               ELSE /\ itv'[j].date = Position(j, Before)
                    /\ SyncDate[StartSync(j)] <= Before /\ Before < SyncDate[EndSync(j)]
    <3>1. StartSync(j) \in Syncs /\ j \in Intervals /\ itv'[j] = itv[j]
      BY <1>1, <2>5 DEF StartSync
    <3>2. j \in running \cap Behind
      BY <2>1, <2>5
    <3>3. IF pc.phase = "propagate"
          THEN itv[j].date = 0 /\ overticks[StartSync(j)] = Rest(StartSync(j), last_date)
          ELSE /\ itv[j].date = Position(j, Before)
               /\ SyncDate[StartSync(j)] <= Before /\ Before < SyncDate[EndSync(j)]
      BY <3>2 DEF RigidInv, PunctualInv, PositionInv
    <3> QED BY <2>3, <3>1, <3>3
  <2>6. Before' = Before
    BY DEF Before
  <2> HIDE DEF Behind, Before
  <2> QED BY <1>2, <2>1, <2>3, <2>4, <2>5, <2>6 DEF PositionInv, BeforeRun, Running
<1> QED BY <1>3, <1>4, <1>5, <1>6 DEF PunctualInv

LEMMA PunctualRun ==
  ASSUME RigidInv, NEW i \in Intervals, VisitRunning(i) \/ VisitNext(i)
  PROVE  PunctualInv'
<1> USE GraphAssumption
<1>1. /\ pc.phase \in {"run", "propagate"} /\ pc.cur = None
      /\ i \in pc.todo /\ i \in running
  BY DEF VisitRunning, VisitNext, In, RigidInv, ScoreInv, VisitInv, ReachInv, Running
<1>2. /\ last_date \in Nat /\ last_date < Infinite /\ Before \in Nat
      /\ Before + tick.length = last_date /\ tick.length \in Nat
  BY <1>1, TickDates DEF Outside
<1>3. /\ StartSync(i) \in Syncs /\ EndSync(i) \in Syncs
      /\ SyncDate[StartSync(i)] \in Nat /\ SyncDate[EndSync(i)] \in Nat
      /\ SyncDate[StartSync(i)] < SyncDate[EndSync(i)]
  BY RigidTypes
<1>4. i \in running \cap Behind
  BY <1>1 DEF Behind, BeforeRun
<1>5. ASSUME NEW t \in Nat, NEW d \in Nat, d + t = last_date, RunInterval(i, t),
             SyncDate[StartSync(i)] <= d, d < SyncDate[EndSync(i)],
             itv[i].date = Position(i, d)
      PROVE  PunctualInv'
  <2>1. /\ itv'[i].date = Position(i, last_date)
        /\ \A n \in Syncs : overticks'[n] =
              IF n = EndSync(i) /\ Rest(n, last_date) > overticks[n]
              THEN Rest(n, last_date) ELSE overticks[n]
        /\ end_nodes' = IF SyncDate[EndSync(i)] <= last_date
                        THEN end_nodes \cup {EndSync(i)} ELSE end_nodes
    <3>1. d + t < Infinite
      BY <1>2, <1>5
    <3>2. /\ itv'[i].date = Position(i, d + t)
          /\ \A n \in Syncs : overticks'[n] =
                IF n = EndSync(i) /\ Rest(n, d + t) > overticks[n]
                THEN Rest(n, d + t) ELSE overticks[n]
          /\ end_nodes' = IF SyncDate[EndSync(i)] <= d + t
                          THEN end_nodes \cup {EndSync(i)} ELSE end_nodes
      BY <1>5, <3>1, AdvanceFacts
    <3> QED BY <1>5, <3>2
  <2>2. ScoreInv
    BY DEF RigidInv
  <2>3. /\ UNCHANGED <<event_status, running>>
        /\ \A j \in Intervals \ {i} : itv'[j] = itv[j]
    BY <1>1, <1>5, <2>2, RunCausal
  <2>4. /\ pc' = Visited(i)
        /\ UNCHANGED <<request, waiting, retry, max_reached, end_map, last_date, tick>>
    BY <1>5 DEF RunInterval, commands
  <2> QED BY <1>1, <2>1, <2>3, <2>4, Advanced
<1>6. CASE VisitRunning(i)
  <2>1. RunInterval(i, tick.length) /\ pc.phase = "run"
    BY <1>6 DEF VisitRunning, In
  <2>2. /\ itv[i].date = Position(i, Before)
        /\ SyncDate[StartSync(i)] <= Before /\ Before < SyncDate[EndSync(i)]
    BY <1>4, <2>1 DEF RigidInv, PunctualInv, PositionInv
  <2> QED BY <1>2, <1>5, <2>1, <2>2
<1>7. CASE VisitNext(i)
  <2> DEFINE d == SyncDate[StartSync(i)]
             t == overticks[StartSync(i)]
  <2>1. pc.phase = "propagate"
    BY <1>7 DEF VisitNext, In
  <2>2. itv[i].date = 0 /\ t = Rest(StartSync(i), last_date)
    BY <1>4, <2>1 DEF RigidInv, PunctualInv, PositionInv
  <2>3. d <= last_date
    <3>1. event_status[StartEv[i]] = "HAPPENED_FINISHED" /\ StartEv[i] \in Events
      BY <1>1 DEF RigidInv, ScoreInv, CausalInv, IntervalInv
    <3> QED BY <3>1 DEF RigidInv, PunctualInv, ReachedInv, StartSync
  <2>4. d \in Nat /\ d < Infinite
    BY <1>2, <1>3, <2>3
  <2>5. Position(i, d) = 0
    BY <2>4, PositionFacts
  <2>6. CASE t # NoOvertick
    <3>1. RunInterval(i, t)
      BY <1>7, <2>6 DEF VisitNext
    <3>2. t \in Nat /\ d + t = last_date
      BY <1>2, <2>2, <2>4, <2>6 DEF Rest
    <3> QED BY <1>3, <1>5, <2>2, <2>4, <2>5, <3>1, <3>2
  <2>7. CASE t = NoOvertick
    <3>1. pc' = Visited(i) /\ UNCHANGED scenario_vars
      BY <1>7, <2>7 DEF VisitNext
    <3>2. d = last_date
      BY <1>2, <2>2, <2>3, <2>4, <2>7 DEF Rest, NoOvertick
    <3>3. Rest(EndSync(i), last_date) = NoOvertick
      BY <1>2, <1>3, <3>2 DEF Rest
    <3>4. \A n \in Syncs : overticks[n] \in Nat \cup {NoOvertick}
      BY TickDates
    <3>5. UNCHANGED <<event_status, itv, request, running, waiting, retry, max_reached,
                      end_nodes, overticks, end_map, last_date, tick>>
      BY <3>1 DEF scenario_vars, commands
    <3>6. itv'[i].date = Position(i, last_date)
      BY <2>2, <2>5, <3>2, <3>5
    <3>7. \A n \in Syncs : overticks'[n] =
             IF n = EndSync(i) /\ Rest(n, last_date) > overticks[n]
             THEN Rest(n, last_date) ELSE overticks[n]
      BY <3>3, <3>4, <3>5 DEF NoOvertick
    <3>8. end_nodes' = IF SyncDate[EndSync(i)] <= last_date
                       THEN end_nodes \cup {EndSync(i)} ELSE end_nodes
      BY <1>2, <1>3, <3>2, <3>5
    <3> QED BY <1>1, <3>1, <3>5, <3>6, <3>7, <3>8, Advanced
  <2> QED BY <2>6, <2>7
<1> QED BY <1>6, <1>7

(* The evaluation of a sync: a start sync is ready at once, and another    *)
(* one is ready when its intervals are at their maxima.                    *)
LEMMA PunctualCheck ==
  ASSUME RigidInv, NEW n \in Syncs, VisitSync(n)
  PROVE  PunctualInv'
<1> USE GraphAssumption, ScenarioAssumption
<1>1. /\ pc.phase \in {"waiting", "sync"} /\ pc.cur = None /\ n \in pc.todo
      /\ CheckReady(n, pc.todo \ {n}) /\ UNCHANGED end_nodes
  BY DEF VisitSync, In
<1>2. /\ pc.phase = "waiting" => n \in waiting /\ n \in StartSyncs
      /\ pc.phase = "sync" => Reached(n) /\ n \in end_nodes
      /\ ScoreInv /\ Conditional = {}
      /\ pc.todo \subseteq Syncs
  BY <1>1 DEF RigidInv, ScoreInv, VisitInv, WaitInv, ReachInv, PunctualInv, ReachedInv,
     BaseInv, TypeOK
<1>3. /\ \A e \in Events : Done(e)' <=> Done(e)
      /\ UNCHANGED <<itv, running, waiting, retry, max_reached>>
      /\ pc'.phase = pc.phase /\ pc'.todo = pc.todo \ {n} /\ pc'.cur \in {n, None}
  BY <1>1, <1>2, CheckReadyFacts
<1>4. /\ \A e \in Events : event_status'[e] =
            IF e \in PendingEvents(n) THEN "PENDING" ELSE event_status[e]
      /\ \A m \in Syncs : ~request[m] => ~request'[m]
      /\ UNCHANGED <<overticks, end_map, last_date, tick>>
      /\ IsReady(n) => pc'.cur = n /\ pc'.max = MaxReached(n)
      /\ ~IsReady(n) => pc'.cur = None
  BY <1>1 DEF CheckReady, commands, Loop, RigidInv, ScoreInv, BaseInv, TypeOK
<1>5. \A e \in PendingEvents(n) : /\ e \in Events /\ SyncOf[e] = n
                                  /\ event_status[e] \in {"NONE", "PENDING"}
  BY <1>1, <1>2, PendingFacts
<1>6. SyncDate[n] <= last_date
  <2>1. CASE pc.phase = "waiting"
    <3>1. SyncDate[n] = 0 /\ last_date \in Nat
      BY <1>2, <2>1, TickDates
    <3> QED BY <3>1
  <2>2. CASE pc.phase = "sync"
    BY <1>2, <2>2 DEF RigidInv, PunctualInv, ReachedInv
  <2> QED BY <1>1, <2>1, <2>2
<1>7. ASSUME pc.phase = "waiting" PROVE IsReady(n) /\ ~MaxReached(n)
  <2>1. \A e \in EventsOf(n) : PreviousIntervals(e) = {}
    <3>1. Incoming(n) = {}
      BY <1>2, <1>7, TickDates
    <3> QED BY <3>1 DEF EventsOf, PreviousIntervals, Incoming, EndSync
  <2>2. \A e \in EventsOf(n) : event_status[e] \in {"NONE", "PENDING"}
    <3>1. \A e \in EventsOf(n) : ~Done(e)
      BY <1>2, <1>7, Fresh
    <3> QED BY <1>2, <3>1
            DEF EventsOf, Done, Finished, ScoreInv, BaseInv, TypeOK, Statuses, CausalInv, StatusInv
  <2>3. IsReady(n)
    <3>1. \A e \in EventsOf(n) : MinReached(e)
      BY <2>1 DEF MinReached
    <3> QED BY <2>2, <3>1 DEF IsReady, PendingEvents, ActiveEvents
  <2>4. ~MaxReached(n)
    BY <1>5, <2>1 DEF MaxReached, EventsOf
  <2> QED BY <2>3, <2>4
<1>8. ASSUME pc.phase = "sync", IsReady(n) PROVE MaxReached(n)
  <2>1. PICK i \in running : i \in Intervals /\ EndSync(i) = n
    BY <1>2, <1>8 DEF Reached, Incoming
  <2>2. EndEv[i] \in PendingEvents(n)
    <3>1. EndEv[i] \in ActiveEvents(n)
      BY <1>2, <2>1 DEF ActiveEvents, EventsOf, EndSync, ScoreInv, CausalInv, StatusInv
    <3> QED BY <1>8, <3>1 DEF IsReady
  <2>3. event_status[StartEv[i]] = "HAPPENED_FINISHED"
    BY <1>2, <2>1 DEF ScoreInv, CausalInv, IntervalInv
  <2>4. i \notin Behind
    <3> SUFFICES ASSUME i \in NextOf(max_reached) PROVE FALSE
      BY <1>8 DEF Behind, BeforeRun
    <3>1. itv[i].date = 0 /\ event_status[EndEv[i]] = "NONE"
      BY <1>2, <1>8 DEF ScoreInv, VisitInv, CarriedInv
    <3>2. itv[i].date >= Min[i]
      <4>1. i \in PreviousIntervals(EndEv[i])
        BY <2>1 DEF PreviousIntervals
      <4> QED BY <1>2, <1>8, <2>2, <2>3, <3>1, <4>1, PendingFacts
    <3> QED BY <2>1, <3>1, <3>2, RigidTypes
  <2>5. itv[i].date = Position(i, last_date)
    BY <2>1, <2>4 DEF RigidInv, PunctualInv, PositionInv
  <2>6. itv[i].date = Max[i]
    <3>1. /\ SyncDate[StartSync(i)] < SyncDate[EndSync(i)]
          /\ SyncDate[StartSync(i)] \in Nat /\ SyncDate[EndSync(i)] \in Nat
      BY <2>1, RigidTypes
    <3>2. last_date \in Nat /\ last_date < Infinite
      BY <1>8, TickDates DEF Outside
    <3> QED BY <1>6, <2>1, <2>5, <3>1, <3>2, PositionFacts
  <2>7. i \in PreviousIntervals(EndEv[i]) /\ Max[i] \in Nat
    BY <2>1 DEF PreviousIntervals
  <2> QED BY <2>2, <2>6, <2>7 DEF MaxReached
<1>9. QuietInv'
  BY <1>1, <1>2, <1>3, <1>4, <1>7, <1>8 DEF RigidInv, PunctualInv, QuietInv
<1>10. StartInv'
  <2>1. pc.phase = "waiting" => pc'.cur = n
    BY <1>4, <1>7
  <2>2. Before' = Before /\ last_date # Infinite
    BY <1>1, <1>4 DEF Before, RigidInv, PunctualInv, StartInv, Outside
  <2>3. None \notin waiting
    BY <1>2 DEF ScoreInv, BaseInv, TypeOK
  <2> HIDE DEF Before, Done
  <2> QED BY <1>1, <1>3, <1>4, <2>1, <2>2, <2>3 DEF RigidInv, PunctualInv, StartInv, Outside
<1>11. ReachedInv'
  <2>1. \A e \in Events : event_status'[e] # "NONE" => SyncDate[SyncOf[e]] <= last_date
    BY <1>4, <1>5, <1>6 DEF RigidInv, PunctualInv, ReachedInv
  <2>2. ASSUME NEW i \in Intervals, event_status'[StartEv[i]] = "HAPPENED_FINISHED",
               ~Done(EndEv[i])'
        PROVE  i \in running
    <3>1. StartEv[i] \in Events /\ EndEv[i] \in Events
      OBVIOUS
    <3>2. event_status[StartEv[i]] = "HAPPENED_FINISHED" /\ ~Done(EndEv[i])
      BY <1>3, <1>4, <2>2, <3>1
    <3> QED BY <3>2 DEF RigidInv, PunctualInv, ReachedInv
  <2> QED BY <1>1, <1>2, <1>3, <1>4, <2>1, <2>2 DEF RigidInv, PunctualInv, ReachedInv
<1>12. PositionInv'
  BY <1>1, <1>3, <1>4
     DEF RigidInv, PunctualInv, PositionInv, Behind, Before, NextOf, BeforeRun, Running
<1> QED BY <1>9, <1>10, <1>11, <1>12 DEF PunctualInv

(* The decision about a sync: it executes.                                 *)
LEMMA PunctualDecide ==
  ASSUME RigidInv, NEW n \in Syncs,
         TriggerAtMax(n) \/ NotTriggered(n) \/ Triggered(n)
  PROVE  PunctualInv'
<1> USE GraphAssumption, ScenarioAssumption
<1>1. pc.cur = n /\ n # None
  BY DEF TriggerAtMax, NotTriggered, Triggered, Deciding
<1>2. pc.phase \in {"waiting", "sync"} /\ (pc.max <=> pc.phase = "sync")
  BY <1>1 DEF RigidInv, ScoreInv, BaseInv, PcInv, PunctualInv, QuietInv
<1>3. ~Interactive(n)
  <2>1. pc.phase = "waiting" => n \in StartSyncs
    BY <1>1 DEF RigidInv, ScoreInv, VisitInv, WaitInv
  <2> QED BY <1>2, <2>1 DEF Interactive, RigidInv, Rigid
<1>4. UNCHANGED scenario_vars /\ Execute(pc.max)
  BY <1>2, <1>3 DEF TriggerAtMax, NotTriggered, Triggered
<1>5. /\ pc'.phase = pc.phase /\ pc'.todo = pc.todo /\ pc'.cur = pc.cur
      /\ pc'.max = pc.max
  <2>1. pc = [phase |-> pc.phase, todo |-> pc.todo, cur |-> pc.cur,
              decided |-> pc.decided, pending |-> pc.pending, max |-> pc.max]
    BY DEF RigidInv, ScoreInv, BaseInv, PcInv
  <2> QED BY <1>4, <2>1 DEF Execute
<1>6. UNCHANGED <<event_status, itv, request, running, waiting, end_nodes, retry,
                  max_reached, overticks, end_map, last_date, tick>>
  BY <1>4 DEF scenario_vars, commands
<1>7. QuietInv' /\ StartInv'
  BY <1>5, <1>6 DEF RigidInv, PunctualInv, QuietInv, StartInv, Before, Done, Outside
<1>8. ReachedInv' /\ PositionInv'
  BY <1>5, <1>6 DEF RigidInv, PunctualInv, ReachedInv, PositionInv, Behind, Before, NextOf,
     Done, BeforeRun, Running
<1> QED BY <1>7, <1>8 DEF PunctualInv

(* Before they run, no interval is at its minimum.                         *)
LEMMA PunctualMusical ==
  ASSUME RigidInv, NEW i \in Intervals, VisitMusical(i)
  PROVE  PunctualInv'
<1> USE GraphAssumption, ScenarioAssumption
<1>1. /\ pc.phase = "musical" /\ pc.cur = None /\ i \in pc.todo /\ i \in running
  BY DEF VisitMusical, In, RigidInv, ScoreInv, VisitInv, ReachInv, Running
<1>2. itv[i].date < Min[i]
  <2>1. i \in running \cap Behind
    BY <1>1 DEF Behind
  <2>2. /\ itv[i].date = Position(i, Before)
        /\ SyncDate[StartSync(i)] <= Before /\ Before < SyncDate[EndSync(i)]
    BY <1>1, <2>1 DEF RigidInv, PunctualInv, PositionInv
  <2>3. Before \in Nat /\ Before < Infinite
    BY <1>1, TickDates DEF Outside
  <2> QED BY <2>2, <2>3, PositionFacts
<1>3. pc' = Visited(i) /\ UNCHANGED scenario_vars
  <2>1. ~(itv[i].date >= Min[i])
    BY <1>2, RigidTypes, TickDates DEF RigidInv, ScoreInv, BaseInv, TypeOK
  <2> QED BY <2>1 DEF VisitMusical
<1>4. /\ UNCHANGED <<event_status, itv, request, running, waiting, end_nodes, retry,
                     max_reached, overticks, end_map, last_date, tick>>
      /\ pc'.phase = "musical" /\ pc'.cur = None
  BY <1>1, <1>3 DEF scenario_vars, commands, Visited, Loop
<1>5. QuietInv' /\ StartInv'
  BY <1>1, <1>4 DEF RigidInv, PunctualInv, QuietInv, StartInv, Before, Done, Outside
<1>6. ReachedInv' /\ PositionInv'
  BY <1>1, <1>4 DEF RigidInv, PunctualInv, ReachedInv, PositionInv, Behind, Before, NextOf,
     Done, BeforeRun, Running
<1> QED BY <1>5, <1>6 DEF PunctualInv

(* The execution of a sync: what led to it was at its end, what follows    *)
(* starts at its date.                                                     *)
LEMMA PunctualTrigger ==
  ASSUME RigidInv, NEW n \in Syncs, NEW happened \in SUBSET pc.pending,
         TriggerSync(n, happened)
  PROVE  PunctualInv'
<1> USE GraphAssumption, ScenarioAssumption
<1>1. ScoreInv /\ Conditional = {}
  BY DEF RigidInv
<1>2. /\ happened = EventsOf(n)
      /\ \A e \in EventsOf(n) : event_status[e] = "PENDING"
      /\ \A e \in Events : event_status'[e] =
            IF e \in EventsOf(n) THEN "HAPPENED_FINISHED" ELSE event_status[e]
      /\ running' = (running \ StoppedBy(EventsOf(n))) \cup NextOf(EventsOf(n))
      /\ \A i \in Intervals : itv'[i] =
            IF i \in NextOf(EventsOf(n)) THEN StartedInterval(i, 0)
            ELSE IF i \in StoppedBy(EventsOf(n)) THEN StoppedInterval
            ELSE itv[i]
  <2>1. PICK disposed \in SUBSET Events : Outcome(n, happened, disposed)
    BY <1>1, TriggerFacts
  <2>2. disposed = {} /\ happened = EventsOf(n)
    BY <1>1, <2>1 DEF Outcome
  <2> QED BY <2>1, <2>2 DEF Outcome
<1>3. /\ pc.cur = n /\ n # None
      /\ pc.phase \in {"waiting", "sync"} /\ (pc.max <=> pc.phase = "sync")
      /\ pc.phase = "waiting" => n \in waiting /\ n \in StartSyncs
      /\ pc.phase = "sync" => Reached(n) /\ n \in end_nodes
  BY <1>1 DEF TriggerSync, RigidInv, ScoreInv, BaseInv, PcInv, VisitInv, WaitInv, ReachInv,
     PunctualInv, QuietInv, ReachedInv
<1>4. /\ \A m \in Syncs : ~request[m] => ~request'[m]
      /\ \A i \in Intervals : end_map'[i] = end_map[i]
      /\ max_reached' = IF pc.phase = "sync" THEN max_reached \cup EventsOf(n)
                        ELSE max_reached
      /\ waiting' = IF pc.phase = "waiting" THEN waiting \ {n} ELSE waiting
      /\ retry = {} => retry' = {}
      /\ pc'.phase = pc.phase /\ pc'.todo = pc.todo /\ pc'.cur = None
      /\ UNCHANGED <<end_nodes, overticks, last_date, tick>>
  <2>1. \A i \in Intervals : end_map'[i] = end_map[i]
    BY <1>1, TriggerFlags
  <2>2. request \in [Syncs -> BOOLEAN]
    BY <1>1 DEF ScoreInv, BaseInv, TypeOK
  <2>3. max_reached' = IF pc.phase = "sync" THEN max_reached \cup EventsOf(n)
                       ELSE max_reached
    BY <1>2, <1>3 DEF TriggerSync, Carried
  <2> QED BY <2>1, <2>2, <2>3 DEF TriggerSync, Return, Loop, commands
<1>5. SyncDate[n] <= last_date
  <2>1. CASE pc.phase = "waiting"
    <3>1. SyncDate[n] = 0 /\ last_date \in Nat
      BY <1>3, <2>1, TickDates
    <3> QED BY <3>1
  <2>2. CASE pc.phase = "sync"
    BY <1>3, <2>2 DEF RigidInv, PunctualInv, ReachedInv
  <2> QED BY <1>3, <2>1, <2>2
<1>6. QuietInv'
  BY <1>3, <1>4 DEF RigidInv, PunctualInv, QuietInv
<1>7. \A e \in Events : Done(e)' <=> Done(e) \/ e \in EventsOf(n)
  BY <1>2 DEF Done, Finished
<1>8. StartInv'
  <2>1. \A e \in Events : SyncOf[e] \in StartSyncs \ waiting' => Done(e)'
    <3> SUFFICES ASSUME NEW e \in Events, SyncOf[e] \in StartSyncs \ waiting'
                 PROVE  Done(e)'
      OBVIOUS
    <3>1. CASE SyncOf[e] = n
      BY <1>7, <3>1 DEF EventsOf
    <3>2. CASE SyncOf[e] # n
      <4>1. SyncOf[e] \in StartSyncs \ waiting /\ last_date # Infinite
        BY <1>3, <1>4, <3>2 DEF RigidInv, PunctualInv, StartInv, Outside
      <4> QED BY <1>7, <4>1 DEF RigidInv, PunctualInv, StartInv
    <3> QED BY <3>1, <3>2
  <2>2. Before' = Before
    BY <1>4 DEF Before
  <2> HIDE DEF Before
  <2> QED BY <1>3, <1>4, <2>1, <2>2 DEF RigidInv, PunctualInv, StartInv, Outside
<1>9. ReachedInv'
  <2>1. \A e \in Events : event_status'[e] # "NONE" => SyncDate[SyncOf[e]] <= last_date
    BY <1>2, <1>5 DEF RigidInv, PunctualInv, ReachedInv, EventsOf
  <2>2. ASSUME NEW i \in Intervals, event_status'[StartEv[i]] = "HAPPENED_FINISHED",
               ~Done(EndEv[i])'
        PROVE  i \in running'
    <3>1. StartEv[i] \in Events /\ EndEv[i] \in Events
      OBVIOUS
    <3>2. ~Done(EndEv[i]) /\ i \notin StoppedBy(EventsOf(n))
      BY <1>7, <2>2, <3>1 DEF StoppedBy
    <3>3. CASE StartEv[i] \in EventsOf(n)
      BY <1>2, <3>3 DEF NextOf
    <3>4. CASE StartEv[i] \notin EventsOf(n)
      <4>1. i \in running
        BY <1>2, <2>2, <3>1, <3>2, <3>4 DEF RigidInv, PunctualInv, ReachedInv
      <4> QED BY <1>2, <3>2, <4>1
    <3> QED BY <3>3, <3>4
  <2> QED BY <1>3, <1>4, <2>1, <2>2 DEF RigidInv, PunctualInv, ReachedInv
<1>10. ASSUME NEW i \in NextOf(EventsOf(n))
       PROVE  itv'[i].date = 0 /\ StartSync(i) = n /\ i \in Intervals
  <2>1. StartedInterval(i, 0).date = 0
    BY DEF StartedInterval, StoppedInterval
  <2> QED BY <1>2, <2>1 DEF NextOf, EventsOf, StartSync
<1>11. ASSUME NEW i \in running', i \notin NextOf(EventsOf(n))
       PROVE  i \in running /\ i \in Intervals /\ itv'[i] = itv[i]
  <2>1. running \subseteq Intervals
    BY <1>1 DEF ScoreInv, BaseInv, TypeOK
  <2> QED BY <1>2, <1>11, <2>1
<1>12. CASE pc.phase = "waiting"
  <2>1. Behind' = running' /\ Behind = running
    BY <1>4, <1>12 DEF Behind, BeforeRun
  <2>2. Before = 0 /\ SyncDate[n] = 0
    BY <1>3, <1>12, TickDates DEF RigidInv, PunctualInv, StartInv
  <2>3. ASSUME NEW i \in running'
        PROVE  /\ itv'[i].date = Position(i, Before)
               /\ SyncDate[StartSync(i)] <= Before /\ Before < SyncDate[EndSync(i)]
    <3>1. CASE i \in NextOf(EventsOf(n))
      <4>1. /\ itv'[i].date = 0 /\ i \in Intervals
            /\ SyncDate[StartSync(i)] = 0
        BY <1>10, <2>2, <3>1
      <4>2. /\ SyncDate[EndSync(i)] = SyncDate[StartSync(i)] + Length(i)
            /\ Length(i) \in Nat /\ Length(i) >= 1 /\ Infinite > 0
        BY <4>1, RigidTypes
      <4>3. Position(i, 0) = 0
        BY <4>1, <4>2, PositionFacts
      <4> QED BY <2>2, <4>1, <4>2, <4>3
    <3>2. CASE i \notin NextOf(EventsOf(n))
      <4>1. i \in running \cap Behind /\ itv'[i] = itv[i]
        BY <1>11, <2>1, <3>2
      <4> QED BY <1>12, <4>1 DEF RigidInv, PunctualInv, PositionInv
    <3> QED BY <3>1, <3>2
  <2>4. Before' = Before
    BY <1>4 DEF Before
  <2>5. PositionInv'
    <3> HIDE DEF Behind, Before
    <3> QED BY <1>4, <1>12, <2>1, <2>3, <2>4
            DEF RigidInv, PunctualInv, PositionInv, BeforeRun, Running
  <2> QED BY <1>6, <1>8, <1>9, <2>5 DEF PunctualInv
<1>13. CASE pc.phase = "sync"
  <2>1. /\ Behind' = NextOf(max_reached) \cup NextOf(EventsOf(n))
        /\ Behind = NextOf(max_reached)
    BY <1>4, <1>13 DEF Behind, BeforeRun, NextOf
  <2>2. overticks[n] = Rest(n, last_date)
    <3>1. PICK i \in running : i \in Intervals /\ EndSync(i) = n
      BY <1>3, <1>13 DEF Reached, Incoming
    <3>2. event_status[EndEv[i]] = "PENDING"
      BY <1>2, <3>1 DEF EventsOf, EndSync
    <3>3. i \notin Behind
      BY <1>1, <1>13, <2>1, <3>2 DEF ScoreInv, VisitInv, CarriedInv
    <3> QED BY <1>13, <3>1, <3>3 DEF RigidInv, PunctualInv, PositionInv
  <2>3. ASSUME NEW i \in running', i \notin Behind'
        PROVE  /\ itv'[i].date = Position(i, last_date)
               /\ overticks[EndSync(i)] = Rest(EndSync(i), last_date)
    <3>1. i \in running \ Behind /\ itv'[i] = itv[i]
      BY <1>11, <2>1, <2>3
    <3> QED BY <1>13, <3>1 DEF RigidInv, PunctualInv, PositionInv
  <2>4. ASSUME NEW i \in running', i \in Behind'
        PROVE  itv'[i].date = 0 /\ overticks[StartSync(i)] = Rest(StartSync(i), last_date)
    <3>1. CASE i \in NextOf(EventsOf(n))
      BY <1>10, <2>2, <3>1
    <3>2. CASE i \notin NextOf(EventsOf(n))
      <4>1. i \in running \cap Behind /\ itv'[i] = itv[i]
        BY <1>11, <2>1, <2>4, <3>2
      <4> QED BY <1>13, <4>1 DEF RigidInv, PunctualInv, PositionInv
    <3> QED BY <3>1, <3>2
  <2>5. PositionInv'
    <3>1. \A m \in Syncs : overticks[m] \in {NoOvertick, Rest(m, last_date)}
      BY <1>13 DEF RigidInv, PunctualInv, PositionInv, Running
    <3> HIDE DEF Behind, Before
    <3> QED BY <1>4, <1>13, <2>3, <2>4, <3>1 DEF PositionInv, BeforeRun, Running
  <2> QED BY <1>6, <1>8, <1>9, <2>5 DEF PunctualInv
<1> QED BY <1>3, <1>12, <1>13

(* The loops that begin and end.                                           *)
LEMMA PunctualLoop ==
  ASSUME RigidInv,
         \/ RootsVisited \/ WaitingVisited \/ ToStartVisited \/ ToStopVisited
         \/ MusicalVisited \/ RunVisited \/ NextVisited \/ SyncsVisited
  PROVE  PunctualInv'
<1> USE GraphAssumption, ScenarioAssumption
<1>1. /\ UNCHANGED <<event_status, itv, request, running, waiting, overticks, end_map,
                     last_date, tick>>
      /\ pc.cur = None /\ pc'.cur = None
  BY DEF RootsVisited, WaitingVisited, ToStartVisited, ToStopVisited, MusicalVisited,
     RunVisited, NextVisited, SyncsVisited, scenario_vars, commands, In, Loop
<1>2. /\ Before' = Before /\ \A e \in Events : Done(e)' <=> Done(e)
      /\ to_start = {} /\ to_stop = {} /\ NextOf({}) = {}
      /\ running \subseteq Intervals /\ None \notin waiting
  BY <1>1 DEF Before, Done, NextOf, RigidInv, ScoreInv, CausalInv, BaseInv, TypeOK
<1> USE DEF RigidInv, PunctualInv
<1> HIDE DEF Before, Done
<1>3. CASE \/ RootsVisited \/ WaitingVisited \/ ToStartVisited \/ ToStopVisited
  <2>1. /\ pc.phase \in BeforeRun /\ pc'.phase \in BeforeRun \cup {"musical"}
        /\ UNCHANGED <<end_nodes, retry, max_reached>>
    BY <1>3 DEF RootsVisited, WaitingVisited, ToStartVisited, ToStopVisited, scenario_vars,
       In, Loop, BeforeRun
  <2>2. Behind = running /\ Behind' = running
    BY <1>1, <2>1 DEF Behind, BeforeRun
  <2>3. end_nodes = {}
    BY <2>1 DEF ScoreInv, VisitInv, ReachInv
  <2>4. QuietInv' /\ ReachedInv'
    BY <1>1, <1>2, <2>1, <2>3 DEF QuietInv, ReachedInv, BeforeRun
  <2>5. StartInv'
    BY <1>1, <1>2, <1>3, <2>1
       DEF StartInv, BeforeRun, Outside, RootsVisited, WaitingVisited, ToStartVisited,
           ToStopVisited, In, Loop
  <2>6. PositionInv'
    <3> HIDE DEF Behind
    <3> QED BY <1>1, <1>2, <2>1, <2>2 DEF PositionInv, BeforeRun, Running
  <2> QED BY <2>4, <2>5, <2>6
<1>4. CASE MusicalVisited
  <2>1. /\ pc.phase = "musical" /\ pc'.phase = "run" /\ pc'.todo = running
        /\ UNCHANGED <<end_nodes, retry, max_reached>>
    BY <1>4 DEF MusicalVisited, scenario_vars, In, Loop
  <2>2. Behind = running /\ Behind' = running
    BY <1>1, <2>1 DEF Behind, BeforeRun
  <2>3. QuietInv' /\ ReachedInv' /\ StartInv'
    BY <1>1, <1>2, <2>1 DEF QuietInv, ReachedInv, StartInv, Outside
  <2>4. PositionInv'
    <3> HIDE DEF Behind
    <3> QED BY <1>1, <1>2, <2>1, <2>2 DEF PositionInv, BeforeRun, Running
  <2> QED BY <2>3, <2>4
<1>5. CASE RunVisited
  <2>1. /\ pc.phase = "run" /\ pc'.phase = "propagate" /\ pc.todo = {}
        /\ pc'.todo = NextOf(max_reached) /\ max_reached = {}
        /\ UNCHANGED <<end_nodes, retry, max_reached>>
    BY <1>5 DEF RunVisited, scenario_vars, In, Loop, QuietInv
  <2>2. Behind = {} /\ Behind' = {}
    BY <1>2, <2>1 DEF Behind, BeforeRun
  <2>3. QuietInv' /\ ReachedInv' /\ StartInv'
    BY <1>1, <1>2, <2>1 DEF QuietInv, ReachedInv, StartInv, Outside
  <2>4. PositionInv'
    <3> HIDE DEF Behind
    <3> QED BY <1>1, <1>2, <2>1, <2>2 DEF PositionInv, BeforeRun, Running
  <2> QED BY <2>3, <2>4
<1>6. CASE NextVisited
  <2>1. /\ pc.phase = "propagate" /\ pc'.phase = "sync" /\ pc.todo = {}
        /\ pc'.todo = end_nodes /\ max_reached' = {}
        /\ UNCHANGED <<end_nodes, retry>>
    BY <1>6 DEF NextVisited, In, Loop
  <2>2. Behind = {} /\ Behind' = {}
    BY <1>2, <2>1 DEF Behind, BeforeRun
  <2>3. QuietInv' /\ ReachedInv' /\ StartInv'
    BY <1>1, <1>2, <2>1 DEF QuietInv, ReachedInv, StartInv, Outside
  <2>4. PositionInv'
    <3> HIDE DEF Behind
    <3> QED BY <1>1, <1>2, <2>1, <2>2 DEF PositionInv, BeforeRun, Running
  <2> QED BY <2>3, <2>4
<1>7. CASE SyncsVisited
  <2>1. /\ pc.phase = "sync" /\ pc.todo = {} /\ retry = {}
        /\ end_nodes' = {} /\ retry' = {} /\ UNCHANGED max_reached
        /\ \/ max_reached = {} /\ pc'.phase = "idle"
           \/ pc'.phase = "propagate" /\ pc'.todo = NextOf(max_reached)
    BY <1>7 DEF SyncsVisited, In, Loop, QuietInv
  <2>2. Behind = NextOf(max_reached) /\ Behind' = NextOf(max_reached)
    BY <1>2, <2>1 DEF Behind, BeforeRun, Running
  <2>3. QuietInv' /\ ReachedInv' /\ StartInv'
    BY <1>1, <1>2, <2>1 DEF QuietInv, ReachedInv, StartInv, Outside
  <2>4. PositionInv'
    <3>1. pc'.phase = "idle" => Behind' = {}
      BY <1>2, <2>1, <2>2
    <3> HIDE DEF Behind
    <3> QED BY <1>1, <1>2, <2>1, <2>2, <3>1 DEF PositionInv, BeforeRun, Running
  <2> QED BY <2>3, <2>4
<1> QED BY <1>3, <1>4, <1>5, <1>6, <1>7

(* Between two ticks the syncs whose date is past have executed: the first *)
(* that has not would be ready, as all that leads to it is at its end.     *)
LEMMA Complete ==
  ASSUME RigidInv, LateInv, In("idle"), last_date # Infinite
  PROVE  StateAt(last_date)
<1> USE GraphAssumption, ScenarioAssumption
<1> DEFINE Bad(n) == /\ Attached(n) /\ SyncDate[n] <= last_date
                     /\ \E e \in EventsOf(n) : ~Done(e)
<1>1. pc.phase = "idle" /\ last_date \in Nat /\ last_date <= MaxDate /\ last_date < Infinite
  <2>1. pc.phase = "idle" /\ last_date <= MaxDate
    BY DEF In, RigidInv, PunctualInv, StartInv
  <2> QED BY <2>1, TickDates
<1>2. ScoreInv /\ Conditional = {}
  BY DEF RigidInv
<1>3. ASSUME NEW n \in StartSyncs PROVE ~Bad(n)
  BY <1>1 DEF RigidInv, PunctualInv, StartInv, EventsOf
<1>4. ASSUME NEW i \in Intervals
      PROVE  /\ StartSync(i) \in Syncs /\ EndSync(i) \in Syncs
             /\ Attached(StartSync(i)) /\ Attached(EndSync(i))
             /\ SyncDate[StartSync(i)] \in Nat /\ SyncDate[EndSync(i)] \in Nat
             /\ SyncDate[StartSync(i)] < SyncDate[EndSync(i)]
  <2>1. Attached(StartSync(i))
    BY DEF RigidInv, Rigid
  <2>2. i \in Incoming(EndSync(i))
    BY DEF Incoming
  <2> QED BY <2>1, <2>2, RigidTypes DEF Attached
<1>5. ASSUME NEW i \in Intervals
      PROVE  /\ StartEv[i] \in Events /\ EndEv[i] \in Events
             /\ ~Bad(StartSync(i)) /\ SyncDate[StartSync(i)] <= last_date =>
                   event_status[StartEv[i]] = "HAPPENED_FINISHED"
             /\ ~Bad(EndSync(i)) /\ SyncDate[EndSync(i)] <= last_date => Done(EndEv[i])
  <2>1. StartEv[i] \in EventsOf(StartSync(i)) /\ EndEv[i] \in EventsOf(EndSync(i))
    BY DEF EventsOf, StartSync, EndSync
  <2>2. Attached(StartSync(i)) /\ Attached(EndSync(i))
    BY <1>4
  <2>3. Done(StartEv[i]) => event_status[StartEv[i]] = "HAPPENED_FINISHED"
    BY <1>2, <2>1 DEF Done, Finished, ScoreInv, CausalInv, StatusInv
  <2> HIDE DEF Done
  <2> QED BY <2>1, <2>2, <2>3
<1>6. ASSUME NEW n \in Syncs, Bad(n),
             \A i \in Incoming(n) : ~Bad(StartSync(i))
      PROVE  FALSE
  <2>1. Incoming(n) # {}
    BY <1>3, <1>6 DEF Attached
  <2>2. \A e \in EventsOf(n) : ~Done(e)
    BY <1>2, <1>6 DEF EventsOf, ScoreInv, CausalInv, StatusInv
  <2>3. ASSUME NEW i \in Incoming(n)
        PROVE  i \in running /\ itv[i].date = Max[i] /\ Max[i] >= Min[i]
               /\ Max[i] \in Nat
    <3>1. i \in Intervals /\ EndSync(i) = n
      BY DEF Incoming
    <3>2. SyncDate[StartSync(i)] < SyncDate[n] /\ SyncDate[n] <= last_date
          /\ SyncDate[StartSync(i)] \in Nat /\ SyncDate[n] \in Nat
      BY <1>4, <1>6, <3>1
    <3>3. SyncDate[StartSync(i)] <= last_date
      BY <1>1, <3>2
    <3>4. event_status[StartEv[i]] = "HAPPENED_FINISHED"
      BY <1>5, <1>6, <3>1, <3>3
    <3>5. EndEv[i] \in EventsOf(n)
      BY <3>1 DEF EventsOf, EndSync
    <3>6. i \in running
      BY <2>2, <3>1, <3>4, <3>5 DEF RigidInv, PunctualInv, ReachedInv
    <3>7. Behind = {}
      BY <1>1 DEF Behind, BeforeRun
    <3>8. itv[i].date = Position(i, last_date)
      BY <3>6, <3>7 DEF RigidInv, PunctualInv, PositionInv
    <3>9. itv[i].date = Max[i]
      BY <1>1, <3>1, <3>2, <3>3, <3>8, PositionFacts
    <3> QED BY <3>1, <3>6, <3>9
  <2>4. Ripe(n)
    BY <2>3 DEF Ripe, PreviousIntervals, EventsOf, Incoming, EndSync
  <2>5. LateRunning(n)
    BY <2>1, <2>3 DEF LateRunning
  <2> QED BY <1>1, <2>4, <2>5 DEF LateInv
<1>7. ASSUME NEW m \in Syncs, Bad(m) PROVE FALSE
  <2> DEFINE K == {d \in 1..last_date : \E n \in Syncs : Bad(n) /\ SyncDate[n] = d}
  <2>1. ASSUME NEW n \in Syncs, Bad(n) PROVE SyncDate[n] \in K
    <3>1. PICK i \in Intervals : EndSync(i) = n
      BY <1>3, <2>1 DEF Incoming, Attached
    <3>2. SyncDate[n] \in 1..last_date
      BY <1>1, <1>4, <2>1, <3>1
    <3> HIDE DEF Bad
    <3> QED BY <2>1, <3>2
  <2>2. K \in SUBSET (1..last_date) /\ K # {}
    <3> HIDE DEF Bad
    <3> QED BY <1>7, <2>1
  <2>3. PICK k \in K : \A j \in K : k <= j
    <3> HIDE DEF K
    <3> QED BY <1>1, <2>2, LeastIndex
  <2>4. PICK n \in Syncs : Bad(n) /\ SyncDate[n] = k
    <3> HIDE DEF Bad
    <3> QED BY <2>3
  <2>5. ASSUME NEW i \in Incoming(n), Bad(StartSync(i)) PROVE FALSE
    <3>1. i \in Intervals /\ EndSync(i) = n
      BY DEF Incoming
    <3>2. SyncDate[StartSync(i)] \in K
      <4> HIDE DEF Bad, K
      <4> QED BY <1>4, <2>1, <2>5, <3>1
    <3>3. k <= SyncDate[StartSync(i)]
      <4> HIDE DEF K
      <4> QED BY <2>3, <3>2
    <3> HIDE DEF K
    <3> QED BY <1>4, <2>4, <3>1, <3>3
  <2> HIDE DEF Bad
  <2> QED BY <1>6, <2>4, <2>5
<1>8. ASSUME NEW i \in Intervals
      PROVE  i \in running <=>
               SyncDate[StartSync(i)] <= last_date /\ last_date < SyncDate[EndSync(i)]
  <2>1. ~Bad(StartSync(i)) /\ ~Bad(EndSync(i))
    <3> HIDE DEF Bad
    <3> QED BY <1>4, <1>7
  <2>2. ASSUME i \in running
        PROVE  SyncDate[StartSync(i)] <= last_date /\ last_date < SyncDate[EndSync(i)]
    <3>1. /\ event_status[StartEv[i]] = "HAPPENED_FINISHED"
          /\ ~Done(EndEv[i])
      BY <1>2, <2>2 DEF ScoreInv, CausalInv, IntervalInv, Done, Finished
    <3>2. SyncDate[StartSync(i)] <= last_date
      BY <1>5, <3>1 DEF RigidInv, PunctualInv, ReachedInv, StartSync
    <3> HIDE DEF Bad
    <3> QED BY <1>1, <1>4, <1>5, <2>1, <3>1, <3>2
  <2>3. ASSUME SyncDate[StartSync(i)] <= last_date, last_date < SyncDate[EndSync(i)]
        PROVE  i \in running
    <3>1. event_status[StartEv[i]] = "HAPPENED_FINISHED"
      <4> HIDE DEF Bad
      <4> QED BY <1>5, <2>1, <2>3
    <3>2. event_status[EndEv[i]] = "NONE"
      <4>1. event_status[EndEv[i]] # "NONE" => SyncDate[EndSync(i)] <= last_date
        BY <1>5 DEF RigidInv, PunctualInv, ReachedInv, EndSync
      <4> QED BY <1>1, <1>4, <2>3, <4>1
    <3> QED BY <3>1, <3>2 DEF RigidInv, PunctualInv, ReachedInv, Done, Finished
  <2> QED BY <2>2, <2>3
<1>9. ASSUME NEW i \in Intervals
      PROVE  itv[i].date = IF i \in running THEN Position(i, last_date) ELSE 0
  <2>1. i \notin running => itv[i].date = 0
    BY <1>2 DEF ScoreInv, CausalInv, IntervalInv
  <2>2. Behind = {}
    BY <1>1 DEF Behind, BeforeRun
  <2>3. i \in running => itv[i].date = Position(i, last_date)
    BY <2>2 DEF RigidInv, PunctualInv, PositionInv
  <2> QED BY <2>1, <2>3
<1>10. ASSUME NEW e \in Events, Attached(SyncOf[e])
       PROVE  event_status[e] =
                IF SyncDate[SyncOf[e]] <= last_date THEN "HAPPENED_FINISHED" ELSE "NONE"
  <2>1. SyncOf[e] \in Syncs /\ e \in EventsOf(SyncOf[e])
    BY DEF EventsOf
  <2>2. ~Bad(SyncOf[e])
    <3> HIDE DEF Bad
    <3> QED BY <1>7, <2>1
  <2>3. Done(e) => event_status[e] = "HAPPENED_FINISHED"
    BY <1>2 DEF Done, Finished, ScoreInv, CausalInv, StatusInv
  <2>4. event_status[e] # "NONE" => SyncDate[SyncOf[e]] <= last_date
    BY DEF RigidInv, PunctualInv, ReachedInv
  <2> HIDE DEF Done
  <2> QED BY <1>10, <2>1, <2>2, <2>3, <2>4
<1>11. running \subseteq Intervals
  BY <1>2 DEF ScoreInv, BaseInv, TypeOK
<1> HIDE DEF Bad
<1> QED BY <1>8, <1>9, <1>10, <1>11 DEF StateAt

(* The beginning of a tick: the intervals that run are inside it.          *)
LEMMA PunctualBegin ==
  ASSUME RigidInv, LateInv, NEW length \in Ticks, NEW quantum, BeginTick(length, quantum)
  PROVE  PunctualInv'
<1> USE GraphAssumption, ScenarioAssumption
<1> DEFINE from == IF last_date = Infinite THEN 0 ELSE last_date
<1>1. /\ In("idle") /\ pc.phase = "idle" /\ length \in Nat
      /\ last_date' = from + length /\ last_date' <= MaxDate /\ tick'.length = length
      /\ overticks' = [n \in Syncs |-> NoOvertick]
      /\ end_nodes' = {} /\ retry' = {} /\ max_reached' = {}
      /\ running' = {i \in running : ~Over(i)}
      /\ pc'.phase = "roots" /\ pc'.cur = None
      /\ UNCHANGED <<event_status, itv, request, waiting, end_map>>
  BY DEF BeginTick, In, Loop
<1>2. running' = running /\ running \subseteq Intervals
  BY <1>1 DEF Over, RigidInv, ScoreInv, BaseInv, TypeOK, CausalInv, StatusInv
<1>3. /\ last_date \in Nat /\ MaxDate \in Nat /\ Infinite \in Nat /\ MaxDate < Infinite
      /\ \A n \in Syncs : SyncDate[n] \in Nat
  BY TickDates
<1>4. from \in Nat /\ Before' = from /\ last_date' # Infinite /\ last_date' >= from
      /\ tick'.length <= last_date'
  BY <1>1, <1>3 DEF Before
<1>5. /\ last_date = Infinite => /\ running = {} /\ waiting = StartSyncs
                                 /\ \A e \in Events : event_status[e] = "NONE"
      /\ last_date # Infinite =>
            /\ waiting = {}
            /\ \A e \in Events : SyncOf[e] \in StartSyncs \ waiting => Done(e)
  BY <1>1 DEF RigidInv, PunctualInv, StartInv
<1>6. QuietInv'
  BY <1>1 DEF RigidInv, PunctualInv, QuietInv
<1>7. StartInv'
  <2>1. \A e \in Events : SyncOf[e] \in StartSyncs \ waiting' => Done(e)'
    BY <1>1, <1>5 DEF Done
  <2>2. waiting' # {} => Before' = 0
    BY <1>1, <1>4, <1>5
  <2> HIDE DEF Before, from
  <2> QED BY <1>1, <1>4, <2>1, <2>2 DEF StartInv, Outside
<1>8. ReachedInv'
  <2>1. \A e \in Events : event_status[e] # "NONE" => SyncDate[SyncOf[e]] <= last_date'
    <3>1. \A e \in Events : event_status[e] # "NONE" =>
             SyncDate[SyncOf[e]] <= last_date /\ last_date # Infinite
      BY <1>5 DEF RigidInv, PunctualInv, ReachedInv
    <3> QED BY <1>1, <1>3, <1>4, <3>1
  <2>2. \A i \in Intervals :
          event_status[StartEv[i]] = "HAPPENED_FINISHED" /\ ~Done(EndEv[i]) => i \in running
    BY DEF RigidInv, PunctualInv, ReachedInv
  <2> QED BY <1>1, <1>2, <2>1, <2>2 DEF ReachedInv, Done
<1>9. PositionInv'
  <2>1. Behind' = running
    BY <1>1, <1>2 DEF Behind, BeforeRun
  <2>2. ASSUME NEW i \in running
        PROVE  /\ itv[i].date = Position(i, from)
               /\ SyncDate[StartSync(i)] <= from /\ from < SyncDate[EndSync(i)]
    <3>1. last_date # Infinite /\ from = last_date
      BY <1>5, <2>2
    <3>2. i \notin Behind
      BY <1>1 DEF Behind, BeforeRun
    <3>3. itv[i].date = Position(i, last_date)
      BY <2>2, <3>2 DEF RigidInv, PunctualInv, PositionInv
    <3>4. i \in Intervals
      BY <1>2, <2>2
    <3> QED BY <1>1, <2>2, <3>1, <3>3, <3>4, Complete DEF StateAt
  <2> HIDE DEF Before, Behind, from
  <2> QED BY <1>1, <1>2, <1>4, <2>1, <2>2 DEF PositionInv, BeforeRun, Running
<1> QED BY <1>6, <1>7, <1>8, <1>9 DEF PunctualInv

(* The commands, the requests and the start syncs.                         *)
LEMMA PunctualCommand ==
  ASSUME RigidInv, LateInv,
         \/ Start \/ Stop \/ UNCHANGED vars
         \/ \E n \in Clickable : StartTriggerRequest(n)
         \/ \E length \in Ticks, quantum \in {NoDate} \cup Quanta :
               BeginTick(length, quantum)
         \/ \E n \in Syncs : VisitRoot(n)
  PROVE  PunctualInv'
<1> USE GraphAssumption, ScenarioAssumption
<1>1. CASE \E length \in Ticks, quantum \in {NoDate} \cup Quanta : BeginTick(length, quantum)
  BY <1>1, PunctualBegin
<1>2. ASSUME \A n \in StartSyncs : ~request'[n],
             UNCHANGED <<event_status, itv, running, waiting, end_nodes, retry,
                         max_reached, overticks, end_map, last_date, tick, pc>>
      PROVE  PunctualInv'
  <2>1. QuietInv' /\ StartInv'
    <3>1. QuietInv'
      BY <1>2 DEF RigidInv, PunctualInv, QuietInv
    <3>2. StartInv'
      BY <1>2 DEF RigidInv, PunctualInv, StartInv, Before, Done, Outside
    <3> QED BY <3>1, <3>2
  <2>2. ReachedInv'
    BY <1>2 DEF RigidInv, PunctualInv, ReachedInv, Done
  <2>3. PositionInv'
    <3>1. Behind' = Behind /\ Before' = Before
      BY <1>2 DEF Behind, Before, NextOf, BeforeRun
    <3> HIDE DEF Behind, Before
    <3> QED BY <1>2, <3>1 DEF RigidInv, PunctualInv, PositionInv, BeforeRun, Running
  <2> QED BY <2>1, <2>2, <2>3 DEF PunctualInv
<1>3. CASE UNCHANGED vars \/ \E n \in Clickable : StartTriggerRequest(n)
  <2>1. UNCHANGED <<event_status, itv, running, waiting, end_nodes, retry,
                    max_reached, overticks, end_map, last_date, tick, pc>>
    BY <1>3 DEF StartTriggerRequest, vars, scenario_vars, commands
  <2>2. \A n \in StartSyncs : ~request'[n]
    <3>1. \A n \in StartSyncs : ~request[n] /\ n \notin Clickable
      BY DEF RigidInv, PunctualInv, QuietInv, Rigid
    <3>2. request \in [Syncs -> BOOLEAN]
      BY DEF RigidInv, ScoreInv, BaseInv, TypeOK
    <3> QED BY <1>3, <3>1, <3>2 DEF StartTriggerRequest, vars, scenario_vars
  <2> QED BY <1>2, <2>1, <2>2
<1>4. ASSUME NEW n \in Syncs, VisitRoot(n) PROVE PunctualInv'
  <2>1. pc.phase = "roots" /\ pc.cur = None /\ n \in StartSyncs /\ pc' = Visited(n)
    BY <1>4 DEF VisitRoot, In, RigidInv, ScoreInv, VisitInv, WaitInv
  <2>2. ~request[n]
    BY <2>1 DEF RigidInv, PunctualInv, QuietInv
  <2>3. UNCHANGED <<event_status, itv, running, waiting, end_map, request, end_nodes, retry,
                    max_reached, overticks, last_date, tick>>
    BY <1>4, <2>2 DEF VisitRoot, commands
  <2>4. pc'.phase = pc.phase /\ pc'.cur = None
    BY <2>1 DEF Visited, Loop
  <2>5. QuietInv'
    BY <2>1, <2>3, <2>4 DEF RigidInv, PunctualInv, QuietInv
  <2>6. StartInv'
    BY <2>1, <2>3, <2>4 DEF RigidInv, PunctualInv, StartInv, Before, Done, Outside
  <2>7. ReachedInv'
    BY <2>1, <2>3, <2>4 DEF RigidInv, PunctualInv, ReachedInv, Done
  <2>8. PositionInv'
    <3>1. Behind' = Behind /\ Before' = Before
      BY <2>1, <2>3, <2>4 DEF Behind, Before, BeforeRun
    <3> HIDE DEF Behind, Before
    <3> QED BY <2>1, <2>3, <2>4, <3>1 DEF RigidInv, PunctualInv, PositionInv, BeforeRun, Running
  <2> QED BY <2>5, <2>6, <2>7, <2>8 DEF PunctualInv
<1>5. CASE Start \/ Stop
  <2>1. /\ \A e \in Events : event_status'[e] = "NONE"
        /\ last_date' = Infinite /\ running' = {}
        /\ pc'.phase \in {"stopped", "idle"} /\ pc'.cur = None /\ max_reached' = {}
        /\ pc'.phase = "idle" => waiting' = StartSyncs
        /\ UNCHANGED <<request, retry>>
        /\ \A i \in Intervals : end_map'[i] = Infinite
    <3>1. CASE Start
      <4>1. /\ pc.phase = "stopped" /\ running = {} /\ waiting = {} /\ max_reached = {}
            /\ last_date = Infinite
        BY <3>1 DEF Start, In, RigidInv, ScoreInv, VisitInv, WaitInv, CarriedInv,
           PunctualInv, StartInv
      <4>2. \A i \in Intervals : end_map[i] = Infinite
        BY DEF RigidInv, PunctualInv, QuietInv
      <4> QED BY <3>1, <4>1, <4>2 DEF Start, Loop, commands
    <3>2. CASE Stop
      BY <3>2 DEF Stop, Loop
    <3> QED BY <1>5, <3>1, <3>2
  <2>2. QuietInv' /\ StartInv'
    BY <2>1 DEF RigidInv, PunctualInv, QuietInv, StartInv, Outside
  <2>3. ReachedInv'
    BY <2>1 DEF ReachedInv
  <2>4. PositionInv'
    BY <2>1 DEF PositionInv, BeforeRun, Running
  <2> QED BY <2>2, <2>3, <2>4 DEF PunctualInv
<1> QED BY <1>1, <1>3, <1>4, <1>5

(* Every step keeps the dates of such a score.                             *)
LEMMA PunctualStep ==
  ASSUME Conditional = {}, Rigid
  PROVE  ScoreInv /\ LateInv /\ PunctualInv /\ [Next]_vars => PunctualInv'
<1> SUFFICES ASSUME ScoreInv, LateInv, PunctualInv, [Next]_vars PROVE PunctualInv'
  OBVIOUS
<1>1. RigidInv
  BY DEF RigidInv
<1>2. Playable = {} /\ to_start = {} /\ to_stop = {}
  BY DEF ScoreInv, Straight, CausalInv
<1>3. CASE \E n \in Syncs, happened \in SUBSET pc.pending : TriggerSync(n, happened)
  BY <1>1, <1>3, PunctualTrigger
<1>4. CASE \E n \in Syncs : TriggerAtMax(n) \/ NotTriggered(n) \/ Triggered(n)
  BY <1>1, <1>4, PunctualDecide
<1>5. CASE \E n \in Syncs : VisitSync(n)
  BY <1>1, <1>5, PunctualCheck
<1>6. CASE \E i \in Intervals : VisitMusical(i)
  BY <1>1, <1>6, PunctualMusical
<1>7. CASE \E i \in Intervals : VisitRunning(i) \/ VisitNext(i)
  BY <1>1, <1>7, PunctualRun
<1>8. CASE \/ RootsVisited \/ WaitingVisited \/ ToStartVisited \/ ToStopVisited
           \/ MusicalVisited \/ RunVisited \/ NextVisited \/ SyncsVisited
  BY <1>1, <1>8, PunctualLoop
<1>9. CASE \/ Start \/ Stop \/ UNCHANGED vars
           \/ \E n \in Clickable : StartTriggerRequest(n)
           \/ \E length \in Ticks, quantum \in {NoDate} \cup Quanta :
                 BeginTick(length, quantum)
           \/ \E n \in Syncs : VisitRoot(n)
  BY <1>1, <1>9, PunctualCommand
<1> QED BY <1>2, <1>3, <1>4, <1>5, <1>6, <1>7, <1>8, <1>9 DEF Next, TickStep, Command

LEMMA PunctualInit == Init => PunctualInv
<1> SUFFICES ASSUME Init PROVE PunctualInv
  OBVIOUS
<1> USE GraphAssumption, ScenarioAssumption
<1>1. QuietInv
  <2>1. StartSyncs \subseteq Syncs
    OBVIOUS
  <2> QED BY <2>1 DEF Init, QuietInv, Loop
<1>2. StartInv
  BY DEF Init, StartInv, Outside, Loop
<1>3. ReachedInv
  BY DEF Init, ReachedInv, Loop
<1>4. PositionInv
  BY DEF Init, PositionInv, BeforeRun, Running, Loop
<1> QED BY <1>1, <1>2, <1>3, <1>4 DEF PunctualInv

LEMMA PunctualInvariant ==
  ASSUME Straight, Conditional = {}, Rigid
  PROVE  Spec => [](ScoreInv /\ LateInv /\ PunctualInv)
<1>1. Init => LateInv
  BY DEF Init, LateInv, LateRunning, Loop
<1> QED BY <1>1, ScoreHolds, LateStep, PunctualStep, PunctualInit, PTL DEF Spec

(* In a rigid score that is played forward once, what is observed between  *)
(* two ticks depends on the date of the scenario only: which events have   *)
(* executed, which intervals run and where they are are the same however   *)
(* the time was cut into ticks, whatever was clicked and in whatever order *)
(* the loops of state_impl visited syncs and intervals.                    *)
THEOREM DateDeterminesState ==
  ASSUME Straight, Conditional = {}, Rigid
  PROVE  Spec => [](Idle /\ last_date # Infinite => StateAt(last_date))
<1>1. ScoreInv /\ LateInv /\ PunctualInv =>
        (Idle /\ last_date # Infinite => StateAt(last_date))
  BY Complete DEF RigidInv, Idle
<1> QED BY <1>1, PunctualInvariant, PTL

(* In a rigid score that is played forward once, the ticks may be cut      *)
(* anywhere, and several intervals may follow each other within one: an    *)
(* interval plays exactly from the date of its start to the date of its    *)
(* end, at the position that its speed gives.  The overticks of            *)
(* run_interval lose no time, and the loops of state_impl give none twice. *)
THEOREM PunctualHolds ==
  ASSUME Straight, Conditional = {}, Rigid PROVE Spec => []Punctual
<1>1. ScoreInv /\ LateInv /\ PunctualInv => Punctual
  <2> USE GraphAssumption
  <2> SUFFICES ASSUME ScoreInv, LateInv, PunctualInv, In("idle"), last_date # Infinite,
                      NEW i \in Intervals
               PROVE  LET elapsed == (last_date - SyncDate[StartSync(i)]) % Period[i]
                          begun == last_date >= SyncDate[StartSync(i)]
                      IN  /\ i \in running <=> begun /\ elapsed < Length(i)
                          /\ i \in running => itv[i].date = NonNegative(elapsed * Speed[i])
    BY DEF Punctual, Idle
  <2> DEFINE played == last_date - SyncDate[StartSync(i)]
  <2>1. RigidInv
    BY DEF RigidInv
  <2>2. last_date \in Nat /\ last_date < Infinite /\ Infinite \in Nat
    <3>1. last_date <= MaxDate
      BY DEF PunctualInv, StartInv
    <3> QED BY <2>1, <3>1, TickDates
  <2>3. /\ SyncDate[StartSync(i)] \in Nat /\ Length(i) \in Nat
        /\ SyncDate[EndSync(i)] = SyncDate[StartSync(i)] + Length(i)
    BY <2>1, RigidTypes
  <2>4. Period[i] = Infinite
    BY DEF Period, Loops, ScoreInv, Straight
  <2>5. /\ i \in running <=>
             SyncDate[StartSync(i)] <= last_date /\ last_date < SyncDate[EndSync(i)]
        /\ i \in running => itv[i].date = Position(i, last_date)
    BY <2>1, Complete DEF StateAt
  <2>6. ASSUME SyncDate[StartSync(i)] <= last_date
        PROVE  played % Period[i] = played
    <3>1. played \in Nat /\ played < Infinite
      BY <2>2, <2>3, <2>6
    <3> HIDE DEF played
    <3> QED BY <2>2, <2>4, <3>1
  <2>7. ASSUME i \in running
        PROVE  itv[i].date = NonNegative(played * Speed[i])
    <3>1. played < Length(i)
      BY <2>2, <2>3, <2>5, <2>7
    <3> QED BY <2>5, <2>7, <3>1 DEF Position, PlayedFor
  <2>8. SyncDate[StartSync(i)] <= last_date =>
          (last_date < SyncDate[EndSync(i)] <=> played < Length(i))
    BY <2>2, <2>3
  <2>9. last_date >= SyncDate[StartSync(i)] <=> SyncDate[StartSync(i)] <= last_date
    BY <2>2, <2>3
  <2> HIDE DEF played
  <2> QED BY <2>5, <2>6, <2>7, <2>8, <2>9 DEF played
<1> QED BY <1>1, PunctualInvariant, PTL

-----------------------------------------------------------------------------
(* The tick ends, in a score that is played forward once.                  *)

(* What remains to be done in a tick: the loops to come; in the do-while   *)
(* loop the syncs to execute and to date, and whether it is repeated; the  *)
(* visits left, and the steps of the visit being made.                     *)
Undone == {n \in Syncs : \E e \in EventsOf(n) : ~Done(e)}
Undated == {n \in Undone : ~sync[n].dated}
Repeated == max_reached # {} \/ retry # {}
Stage ==
    [roots |-> 7, waiting |-> 6, start |-> 5, stop |-> 4, musical |-> 3, run |-> 2,
     propagate |-> 1, sync |-> 1, idle |-> 0, stopped |-> 0][pc.phase]
Work ==
    IF pc.phase \in {"propagate", "sync"}
    THEN 2 * (Cardinality(Undone) + Cardinality(Undated))
         + (IF pc.phase = "sync" /\ Repeated THEN 1 ELSE 0)
    ELSE 0
Busy == IF pc.cur = None THEN 0 ELSE IF pc.decided THEN 1 ELSE 2
Left == 3 * Cardinality(pc.todo) + Busy
        + (IF pc.phase = "propagate" THEN 3 * Cardinality(Syncs) + 1 ELSE 0)

(* As one number: Work is below the first bound, Left below the second.    *)
WorkBound == 4 * Cardinality(Syncs) + 2
LeftBound == 6 * Cardinality(Syncs) + 3 * Cardinality(Intervals) + 4
Rank == Stage * WorkBound + Work
Remaining == Rank * LeftBound + Left

MeasureInv ==
    /\ Cardinality(Syncs) \in Nat /\ Cardinality(Intervals) \in Nat
    /\ Cardinality(Undone) \in Nat /\ Cardinality(Undated) \in Nat
    /\ IsFiniteSet(Undone) /\ IsFiniteSet(Undated)
    /\ IsFiniteSet(pc.todo) /\ Cardinality(pc.todo) \in Nat
    /\ Stage \in 0..7 /\ Work \in Nat /\ Work < WorkBound
    /\ Busy \in 0..2 /\ Left \in Nat /\ Left < LeftBound

(* Two numbers as one: the first decides.                                  *)
LEMMA Lexicographic ==
  ASSUME NEW h \in Nat, NEW k \in Nat, NEW b \in Nat, NEW l \in Nat, NEW m \in Nat,
         m < b, k < h \/ (k = h /\ m < l)
  PROVE  h * b + l \in Nat /\ k * b + m \in Nat /\ k * b + m < h * b + l
<1>1. k * b \in Nat /\ h * b \in Nat
  OBVIOUS
<1>2. CASE k < h
  <2>1. PICK d \in Nat : h = k + 1 + d
    <3>1. h - k - 1 \in Nat /\ h = k + 1 + (h - k - 1)
      BY <1>2
    <3> QED BY <3>1
  <2>2. h * b = k * b + b + d * b
    BY <2>1
  <2>3. d * b \in Nat
    OBVIOUS
  <2> QED BY <1>1, <2>2, <2>3
<1>3. CASE k = h /\ m < l
  BY <1>1, <1>3
<1> QED BY <1>2, <1>3

LEMMA MeasureTypes == ASSUME IsFiniteSet(Intervals) PROVE ScoreInv => MeasureInv
<1> SUFFICES ASSUME ScoreInv PROVE MeasureInv
  OBVIOUS
<1> USE GraphAssumption
<1>1. Cardinality(Syncs) \in Nat /\ Cardinality(Intervals) \in Nat
  BY FS_CardinalityType
<1>2. /\ IsFiniteSet(Undone) /\ Cardinality(Undone) <= Cardinality(Syncs)
      /\ IsFiniteSet(Undated) /\ Cardinality(Undated) <= Cardinality(Syncs)
  <2>1. Undone \in SUBSET Syncs /\ Undated \in SUBSET Syncs
    BY DEF Undone, Undated
  <2> QED BY <2>1, FS_Subset
<1>3. Cardinality(Undone) \in Nat /\ Cardinality(Undated) \in Nat
  BY <1>2, FS_CardinalityType
<1>4. /\ IsFiniteSet(pc.todo) /\ Cardinality(pc.todo) \in Nat
      /\ Cardinality(pc.todo) <= Cardinality(Syncs) + Cardinality(Intervals)
  <2>1. pc.todo \in SUBSET (Syncs \cup Intervals)
    BY DEF ScoreInv, BaseInv, TypeOK, PcTypes, CausalInv
  <2>2. /\ IsFiniteSet(Syncs \cup Intervals)
        /\ Cardinality(Syncs \cup Intervals) =
             Cardinality(Syncs) + Cardinality(Intervals) - Cardinality(Syncs \cap Intervals)
    BY FS_Union
  <2>3. Cardinality(Syncs \cap Intervals) \in Nat
    BY FS_Intersection, FS_CardinalityType
  <2>4. /\ IsFiniteSet(pc.todo)
        /\ Cardinality(pc.todo) <= Cardinality(Syncs \cup Intervals)
    BY <2>1, <2>2, FS_Subset
  <2>5. Cardinality(pc.todo) \in Nat
    BY <2>4, FS_CardinalityType
  <2> QED BY <1>1, <2>2, <2>3, <2>4, <2>5
<1>5. Stage \in 0..7
  BY DEF Stage, Phases, ScoreInv, BaseInv, TypeOK, PcTypes
<1>6. Work \in Nat /\ Work < WorkBound
  BY <1>1, <1>2, <1>3 DEF Work, WorkBound
<1>7. Busy \in 0..2
  BY DEF Busy
<1>8. Left \in Nat /\ Left < LeftBound
  BY <1>1, <1>4, <1>7 DEF Left, LeftBound
<1> QED BY <1>1, <1>2, <1>3, <1>4, <1>5, <1>6, <1>7, <1>8 DEF MeasureInv

(* One of the three decreases, and those before it stay.                   *)
Decreases ==
    \/ Stage' < Stage
    \/ (Stage' = Stage /\ Work' < Work)
    \/ (Stage' = Stage /\ Work' = Work /\ Left' < Left)

LEMMA RemainingDecreases ==
  ASSUME MeasureInv, MeasureInv', Decreases PROVE Remaining' < Remaining
<1>1. /\ Stage \in Nat /\ Stage' \in Nat /\ Work \in Nat /\ Work' \in Nat
      /\ Work' < WorkBound /\ WorkBound \in Nat /\ LeftBound \in Nat
      /\ Left \in Nat /\ Left' \in Nat /\ Left' < LeftBound
  BY DEF MeasureInv, WorkBound, LeftBound
<1>2. /\ Rank = Stage * WorkBound + Work /\ Rank' = Stage' * WorkBound + Work'
      /\ Remaining = Rank * LeftBound + Left /\ Remaining' = Rank' * LeftBound + Left'
  BY DEF Rank, Remaining, WorkBound, LeftBound
<1>3. Rank \in Nat /\ Rank' \in Nat
  <2>1. \A s \in Nat, w \in Nat, b \in Nat : s * b + w \in Nat
    OBVIOUS
  <2> QED BY <1>1, <1>2, <2>1
<1>4. Rank' < Rank \/ (Rank' = Rank /\ Left' < Left)
  <2>1. CASE Stage' < Stage \/ (Stage' = Stage /\ Work' < Work)
    BY <1>1, <1>2, <2>1, Lexicographic
  <2>2. CASE Stage' = Stage /\ Work' = Work /\ Left' < Left
    BY <1>2, <2>2
  <2> QED BY <2>1, <2>2 DEF Decreases
<1> QED BY <1>1, <1>2, <1>3, <1>4, Lexicographic

(* A step that executes no sync and dates none.                            *)
LEMMA SameWork ==
  ASSUME \A e \in Events : Done(e)' <=> Done(e),
         pc.phase \in {"propagate", "sync"} => \A m \in Syncs : sync'[m].dated = sync[m].dated,
         UNCHANGED <<retry, max_reached>>, pc'.phase = pc.phase
  PROVE  Stage' = Stage /\ Work' = Work
<1>1. Stage' = Stage
  BY DEF Stage
<1>2. Undone' = Undone
  BY DEF Undone, EventsOf
<1>3. pc.phase \in {"propagate", "sync"} => Undated' = Undated
  BY <1>2 DEF Undated, Undone
<1>4. Work' = Work
  BY <1>2, <1>3 DEF Work, Repeated
<1> QED BY <1>1, <1>4

(* A visit that is made, whatever it finds.                                *)
LEMMA OneVisit ==
  ASSUME MeasureInv, pc.cur = None, NEW x \in pc.todo,
         pc'.phase = pc.phase, pc'.todo = pc.todo \ {x}
  PROVE  Left' < Left
<1>1. Cardinality(pc'.todo) = Cardinality(pc.todo) - 1
  BY FS_RemoveElement DEF MeasureInv
<1>2. Busy = 0 /\ Busy' \in 0..2
  BY DEF Busy
<1> QED BY <1>1, <1>2 DEF Left, MeasureInv

LEMMA VisitDecreases ==
  ASSUME ScoreInv, MeasureInv,
         \/ \E n \in Syncs : VisitRoot(n) \/ VisitSync(n)
         \/ \E i \in Intervals : VisitMusical(i) \/ VisitRunning(i) \/ VisitNext(i)
  PROVE  Decreases
<1> USE GraphAssumption, ScenarioAssumption
<1>1. ASSUME NEW n \in Syncs, VisitRoot(n) PROVE Decreases
  <2>1. /\ pc.phase = "roots" /\ pc.cur = None /\ n \in pc.todo /\ pc' = Visited(n)
    BY <1>1 DEF VisitRoot, In
  <2>2. pc'.phase = pc.phase /\ pc'.todo = pc.todo \ {n}
    BY <2>1 DEF Visited, Loop
  <2>3. Stage' = Stage /\ Work' = Work
    BY <2>1, <2>2 DEF Stage, Work
  <2> QED BY <2>1, <2>2, <2>3, OneVisit DEF Decreases
<1>2. ASSUME NEW n \in Syncs, VisitSync(n) PROVE Decreases
  <2>1. /\ pc.phase \in {"waiting", "sync"} /\ pc.cur = None /\ n \in pc.todo
        /\ CheckReady(n, pc.todo \ {n}) /\ pc.todo \subseteq Syncs
    BY <1>2 DEF VisitSync, In, ScoreInv, BaseInv, TypeOK, VisitInv, WaitInv, ReachInv
  <2>2. Reached(n) \/ n \in waiting
    BY <2>1 DEF ScoreInv, VisitInv, WaitInv, ReachInv, None
  <2>3. /\ \A e \in Events : Done(e)' <=> Done(e)
        /\ UNCHANGED <<retry, max_reached>>
        /\ pc'.phase = pc.phase /\ pc'.todo = pc.todo \ {n}
    BY <2>1, <2>2, CheckReadyFacts
  <2>4. \A m \in Syncs : sync'[m].dated = sync[m].dated
    BY <2>1 DEF CheckReady, ScoreInv, BaseInv, TypeOK
  <2>5. Stage' = Stage /\ Work' = Work
    BY <2>3, <2>4, SameWork
  <2> QED BY <2>1, <2>3, <2>5, OneVisit DEF Decreases
<1>3. ASSUME NEW i \in Intervals, VisitMusical(i) PROVE Decreases
  <2>1. pc.phase = "musical" /\ pc.cur = None /\ i \in pc.todo
    BY <1>3 DEF VisitMusical, In
  <2>2. pc'.phase = pc.phase /\ pc'.todo = pc.todo \ {i}
    BY <1>3 DEF VisitMusical, CheckReady, Visited, Loop
  <2>3. Stage' = Stage /\ Work' = Work
    BY <2>1, <2>2 DEF Stage, Work
  <2> QED BY <2>1, <2>2, <2>3, OneVisit DEF Decreases
<1>4. ASSUME NEW i \in Intervals, VisitRunning(i) \/ VisitNext(i) PROVE Decreases
  <2>1. pc.cur = None /\ i \in pc.todo /\ i \in running /\ pc.phase \in {"run", "propagate"}
    BY <1>4 DEF VisitRunning, VisitNext, In, ScoreInv, VisitInv, ReachInv, Running
  <2>2. /\ pc' = Visited(i) /\ UNCHANGED <<event_status, sync, retry, max_reached>>
    <3>1. ASSUME NEW t \in Nat, RunInterval(i, t)
          PROVE  pc' = Visited(i) /\ UNCHANGED <<event_status, sync, retry, max_reached>>
      <4>1. UNCHANGED event_status
        BY <2>1, <3>1, RunCausal
      <4> QED BY <3>1, <4>1 DEF RunInterval
    <3>2. CASE VisitRunning(i)
      BY <3>1, <3>2 DEF VisitRunning, ScoreInv, BaseInv, TypeOK
    <3>3. CASE VisitNext(i)
      <4>1. StartSync(i) \in Syncs
        BY DEF StartSync
      <4>2. overticks[StartSync(i)] \in Nat \cup {NoOvertick}
        BY <4>1 DEF ScoreInv, BaseInv, TypeOK
      <4> QED BY <3>1, <3>3, <4>2 DEF VisitNext, scenario_vars
    <3> QED BY <1>4, <3>2, <3>3
  <2>3. pc'.phase = pc.phase /\ pc'.todo = pc.todo \ {i}
    BY <2>2 DEF Visited, Loop
  <2>4. Stage' = Stage /\ Work' = Work
    BY <2>2, <2>3, SameWork DEF Done
  <2> QED BY <2>1, <2>3, <2>4, OneVisit DEF Decreases
<1> QED BY <1>1, <1>2, <1>3, <1>4

(* A decision: the sync executes or is left, and if it is left because it  *)
(* got its date, it had none.                                              *)
LEMMA DecideDecreases ==
  ASSUME ScoreInv, MeasureInv, NEW n \in Syncs,
         TriggerAtMax(n) \/ NotTriggered(n) \/ Triggered(n)
  PROVE  Decreases
<1> USE GraphAssumption, ScenarioAssumption
<1>1. /\ UNCHANGED <<event_status, max_reached>> /\ pc.cur = n /\ ~pc.decided
      /\ Return \/ \E max \in BOOLEAN : Execute(max)
  BY DEF TriggerAtMax, NotTriggered, Triggered, Quantize, Deciding, scenario_vars,
     ScoreInv, BaseInv, TypeOK, PcTypes
<1>2. pc'.phase = pc.phase /\ pc'.todo = pc.todo /\ Busy' < Busy
  <2>1. Busy = 2
    BY <1>1 DEF Busy
  <2>2. CASE Return
    BY <2>1, <2>2 DEF Return, Loop, Busy
  <2>3. ASSUME NEW max \in BOOLEAN, Execute(max)
        PROVE  pc'.phase = pc.phase /\ pc'.todo = pc.todo /\ Busy' < Busy
    <3>1. pc = [phase |-> pc.phase, todo |-> pc.todo, cur |-> pc.cur,
                decided |-> pc.decided, pending |-> pc.pending, max |-> pc.max]
      BY DEF ScoreInv, BaseInv, PcInv
    <3>2. pc'.phase = pc.phase /\ pc'.todo = pc.todo /\ pc'.decided
      BY <2>3, <3>1 DEF Execute
    <3> QED BY <2>1, <3>2 DEF Busy
  <2> QED BY <1>1, <2>2, <2>3
<1>3. Left' < Left
  BY <1>2 DEF Left, MeasureInv, Busy
<1>4. CASE ~(pc.phase = "sync" /\ ~sync[n].dated /\ Quantize(n))
  <2>1. UNCHANGED retry /\ (pc.phase # "sync" \/ \A m \in Syncs : sync'[m].dated = sync[m].dated)
    <3>1. CASE TriggerAtMax(n)
      BY <3>1 DEF TriggerAtMax, scenario_vars
    <3>2. CASE NotTriggered(n)
      BY <3>2 DEF NotTriggered, ScoreInv, BaseInv, TypeOK
    <3>3. CASE Triggered(n)
      <4>1. CASE ~sync[n].dated /\ Quantize(n)
        BY <1>4, <4>1 DEF Quantize
      <4>2. CASE ~(~sync[n].dated /\ Quantize(n))
        <5>1. UNCHANGED retry /\ sync' \in {sync, CommittedSync(n)}
          BY <3>3, <4>2 DEF Triggered
        <5>2. sync \in [Syncs -> Flags]
          BY DEF ScoreInv, BaseInv, TypeOK, Flags
        <5>3. \A m \in Syncs : CommittedSync(n)[m].dated = sync[m].dated
          BY <5>2 DEF CommittedSync, Flags
        <5> QED BY <5>1, <5>3
      <4> QED BY <4>1, <4>2
    <3> QED BY <3>1, <3>2, <3>3
  <2>2. pc.phase # "propagate"
    BY <1>1 DEF ScoreInv, BaseInv, PcInv
  <2>3. Stage' = Stage /\ Work' = Work
    BY <1>1, <1>2, <2>1, <2>2, SameWork DEF Done
  <2> QED BY <1>3, <2>3 DEF Decreases
<1>5. CASE pc.phase = "sync" /\ ~sync[n].dated /\ Quantize(n)
  <2>1. Stage' = Stage
    BY <1>2 DEF Stage
  <2>2. Undone' = Undone
    BY <1>1 DEF Undone, Done
  <2>3. n \in Undone
    <3>1. PICK i \in Intervals : EndSync(i) = n
      <4>1. Reached(n)
        BY <1>1, <1>5 DEF ScoreInv, VisitInv, ReachInv
      <4> QED BY <4>1 DEF Reached, Incoming
    <3>2. EndEv[i] \in EventsOf(n)
      BY <3>1 DEF EndSync, EventsOf
    <3>3. event_status[EndEv[i]] = "PENDING"
      BY <1>1, <3>2 DEF ScoreInv, VisitInv, BusyInv
    <3> QED BY <3>2, <3>3 DEF Undone, Done, Finished
  <2>4. n \in Undated /\ Undated' = Undated \ {n}
    <3>1. \A m \in Syncs : sync'[m].dated = (m = n \/ sync[m].dated)
      <4>1. sync \in [Syncs -> Flags]
        BY DEF ScoreInv, BaseInv, TypeOK, Flags
      <4>2. sync' = [sync EXCEPT ![n] =
               [@ EXCEPT !.triggering = TRUE, !.dated = TRUE, !.observing = FALSE]]
        BY <1>5 DEF Quantize
      <4> QED BY <4>1, <4>2 DEF Flags
    <3> QED BY <1>5, <2>2, <2>3, <3>1 DEF Undated, Undone
  <2>5. Cardinality(Undated') = Cardinality(Undated) - 1
    BY <2>4, FS_RemoveElement DEF MeasureInv
  <2>6. Work' < Work
    BY <1>2, <1>5, <2>2, <2>5 DEF Work, MeasureInv
  <2> QED BY <2>1, <2>6 DEF Decreases
<1> QED BY <1>4, <1>5

(* An execution: the sync has nothing left to execute, no other sync gets  *)
(* anything new to do, and the loop is repeated at most once for it.       *)
LEMMA TriggerDecreases ==
  ASSUME ScoreInv, MeasureInv, MeasureInv', NEW n \in Syncs,
         NEW happened \in SUBSET pc.pending, TriggerSync(n, happened)
  PROVE  Decreases
<1> USE GraphAssumption, ScenarioAssumption
<1>1. PICK disposed \in SUBSET Events : Outcome(n, happened, disposed)
  BY TriggerFacts
<1>2. pc.cur = n /\ pc.decided /\ pc' = Loop(pc.phase, pc.todo)
  BY DEF TriggerSync, Return
<1>3. pc'.phase = pc.phase /\ pc'.todo = pc.todo /\ pc'.cur = None
  BY <1>2 DEF Loop
<1>4. Stage' = Stage
  BY <1>3 DEF Stage
<1>5. pc.phase \in {"waiting", "sync"}
  BY <1>2 DEF ScoreInv, BaseInv, PcInv, VisitInv, ReachInv
<1>6. CASE pc.phase = "waiting"
  <2>1. Work' = Work
    BY <1>3, <1>6 DEF Work
  <2>2. Busy = 1 /\ Busy' = 0
    BY <1>2, <1>3 DEF Busy
  <2>3. Left' < Left
    BY <1>3, <1>6, <2>2 DEF Left, MeasureInv
  <2> QED BY <1>4, <2>1, <2>3 DEF Decreases
<1>7. CASE pc.phase = "sync"
  <2>1. \A e \in Events : Done(e) => Done(e)'
    BY <1>1 DEF Outcome, Done, Finished
  <2>2. \A e \in EventsOf(n) : ~Done(e) /\ Done(e)'
    BY <1>1 DEF Outcome, Done, Finished, EventsOf
  <2>3. n \in Undone
    <3>1. Reached(n)
      BY <1>2, <1>7 DEF ScoreInv, VisitInv, ReachInv
    <3>2. PICK i \in Intervals : EndSync(i) = n
      BY <3>1 DEF Reached, Incoming
    <3>3. EndEv[i] \in EventsOf(n)
      BY <3>2 DEF EndSync, EventsOf
    <3> QED BY <2>2, <3>3 DEF Undone
  <2>4. Undone' \subseteq Undone \ {n}
    BY <2>1, <2>2 DEF Undone, EventsOf
  <2>5. Undated' \subseteq Undated
    <3>1. \A m \in Syncs \ {n} : sync'[m] = sync[m]
      BY TriggerFlags
    <3> QED BY <2>4, <3>1 DEF Undated, Undone
  <2>6. /\ Cardinality(Undone') <= Cardinality(Undone) - 1
        /\ Cardinality(Undated') <= Cardinality(Undated)
    <3>1. /\ IsFiniteSet(Undone \ {n})
          /\ Cardinality(Undone \ {n}) = Cardinality(Undone) - 1
      BY <2>3, FS_RemoveElement DEF MeasureInv
    <3> QED BY <2>4, <2>5, <3>1, FS_Subset DEF MeasureInv
  <2>7. Work' < Work
    BY <1>3, <1>7, <2>6 DEF Work, MeasureInv
  <2> QED BY <1>4, <2>7 DEF Decreases
<1> QED BY <1>5, <1>6, <1>7

LEMMA LoopDecreases ==
  ASSUME ScoreInv, MeasureInv, MeasureInv',
         \/ RootsVisited \/ WaitingVisited \/ ToStartVisited \/ ToStopVisited
         \/ MusicalVisited \/ RunVisited \/ NextVisited \/ SyncsVisited
  PROVE  Decreases
<1> USE GraphAssumption, ScenarioAssumption
<1>1. CASE RootsVisited \/ WaitingVisited \/ ToStartVisited \/ ToStopVisited
           \/ MusicalVisited \/ RunVisited
  <2>1. Stage' < Stage
    BY <1>1 DEF Stage, In, Loop, RootsVisited, WaitingVisited, ToStartVisited,
       ToStopVisited, MusicalVisited, RunVisited
  <2> QED BY <2>1 DEF Decreases
<1>2. CASE NextVisited \/ SyncsVisited
  <2>1. UNCHANGED <<event_status, sync>>
    BY <1>2 DEF NextVisited, SyncsVisited
  <2>2. Undone' = Undone /\ Undated' = Undated
    BY <2>1 DEF Undone, Undated, Done
  <2>3. CASE NextVisited
    <3>1. /\ pc.phase = "propagate" /\ pc.cur = None /\ pc' = Loop("sync", end_nodes)
          /\ max_reached' = {} /\ retry' = {} /\ pc.todo = {}
      BY <2>3 DEF NextVisited, In, ScoreInv, VisitInv, ReachInv, Running
    <3>2. pc'.phase = "sync" /\ pc'.todo = end_nodes /\ pc'.cur = None
      BY <3>1 DEF Loop
    <3>3. Stage' = Stage
      BY <3>1, <3>2 DEF Stage
    <3>4. Work' = Work
      BY <2>2, <3>1, <3>2 DEF Work, Repeated, MeasureInv
    <3>5. Left' < Left
      <4>1. end_nodes \subseteq Syncs
        BY DEF ScoreInv, BaseInv, TypeOK
      <4>2. Cardinality(pc'.todo) <= Cardinality(Syncs)
        BY <3>2, <4>1, FS_Subset
      <4>3. Busy = 0 /\ Busy' = 0
        BY <3>1, <3>2 DEF Busy
      <4>4. Cardinality(pc'.todo) \in Nat
        BY DEF MeasureInv
      <4> QED BY <3>1, <3>2, <4>2, <4>3, <4>4 DEF Left, MeasureInv
    <3> QED BY <3>3, <3>4, <3>5 DEF Decreases
  <2>4. CASE SyncsVisited
    <3>1. /\ pc.phase = "sync" /\ retry' = {} /\ UNCHANGED max_reached
          /\ pc' = IF max_reached = {} /\ retry = {} THEN Loop("idle", {})
                   ELSE Loop("propagate", NextOf(max_reached))
      BY <2>4 DEF SyncsVisited, In
    <3>2. CASE max_reached = {} /\ retry = {}
      BY <3>1, <3>2 DEF Stage, Loop, Decreases
    <3>3. CASE ~(max_reached = {} /\ retry = {})
      <4>1. pc'.phase = "propagate"
        BY <3>1, <3>3 DEF Loop
      <4>2. Stage' = Stage
        BY <3>1, <4>1 DEF Stage
      <4>3. Work' < Work
        BY <2>2, <3>1, <3>3, <4>1 DEF Work, Repeated, MeasureInv
      <4> QED BY <4>2, <4>3 DEF Decreases
    <3> QED BY <3>2, <3>3
  <2> QED BY <1>2, <2>3, <2>4
<1> QED BY <1>1, <1>2

LEMMA TickDecreases ==
  ASSUME ScoreInv, MeasureInv, MeasureInv', TickStep PROVE Remaining' < Remaining
<1>1. to_start = {} /\ to_stop = {}
  BY DEF ScoreInv, CausalInv
<1>2. Decreases
  <2>1. CASE \E n \in Syncs, happened \in SUBSET pc.pending : TriggerSync(n, happened)
    BY <2>1, TriggerDecreases
  <2>2. CASE \E n \in Syncs : TriggerAtMax(n) \/ NotTriggered(n) \/ Triggered(n)
    BY <2>2, DecideDecreases
  <2>3. CASE \/ \E n \in Syncs : VisitRoot(n) \/ VisitSync(n)
             \/ \E i \in Intervals : VisitMusical(i) \/ VisitRunning(i) \/ VisitNext(i)
    BY <2>3, VisitDecreases
  <2>4. CASE \/ RootsVisited \/ WaitingVisited \/ ToStartVisited \/ ToStopVisited
             \/ MusicalVisited \/ RunVisited \/ NextVisited \/ SyncsVisited
    BY <2>4, LoopDecreases
  <2> QED BY <1>1, <2>1, <2>2, <2>3, <2>4 DEF TickStep
<1> QED BY <1>2, RemainingDecreases

(* A tick has fewer steps than this.                                       *)
TickBound == 8 * WorkBound * LeftBound

LEMMA RemainingBound == MeasureInv => Remaining \in 0..TickBound
<1> SUFFICES ASSUME MeasureInv PROVE Remaining \in 0..TickBound
  OBVIOUS
<1>1. /\ Stage \in 0..7 /\ Work \in Nat /\ Work < WorkBound /\ WorkBound \in Nat
      /\ Left \in Nat /\ Left < LeftBound /\ LeftBound \in Nat
  BY DEF MeasureInv, WorkBound, LeftBound
<1>2. Rank \in Nat /\ Rank < 8 * WorkBound
  BY <1>1, Lexicographic DEF Rank
<1>3. 8 * WorkBound \in Nat
  BY <1>1
<1>4. Remaining \in Nat /\ Remaining < (8 * WorkBound) * LeftBound + 0
  BY <1>1, <1>2, <1>3, Lexicographic DEF Remaining
<1> QED BY <1>1, <1>3, <1>4 DEF TickBound

(* A tick that has begun ends: each of its steps leaves less to be done,   *)
(* and a request that another thread makes meanwhile adds nothing.  The    *)
(* do-while loop of state_impl is only repeated after a pass in which a    *)
(* sync executed at its maximum or got its date, and none does so twice.   *)
THEOREM TickTerminates ==
  ASSUME Straight, IsFiniteSet(Intervals)
  PROVE  Spec => /\ [](Remaining \in 0..TickBound)
                 /\ [][TickStep => Remaining' < Remaining]_vars
                 /\ [][\A n \in Clickable :
                          StartTriggerRequest(n) => Remaining' = Remaining]_vars
<1>1. ScoreInv => MeasureInv /\ Remaining \in 0..TickBound
  BY MeasureTypes, RemainingBound
<1>2. ScoreInv' => MeasureInv'
  BY <1>1, PTL
<1>3. ScoreInv /\ [Next]_vars => ScoreInv'
  BY ScoreStep
<1>4. ScoreInv /\ ScoreInv' /\ [Next]_vars => [TickStep => Remaining' < Remaining]_vars
  BY <1>1, <1>2, TickDecreases
<1>5. [Next]_vars => [\A n \in Clickable :
                         StartTriggerRequest(n) => Remaining' = Remaining]_vars
  <2>1. ASSUME NEW n \in Clickable, StartTriggerRequest(n) PROVE Remaining' = Remaining
    BY <2>1 DEF StartTriggerRequest, Remaining, Rank, Stage, Work, Left, Busy, Undone,
       Undated, Done, Repeated, EventsOf, WorkBound, LeftBound
  <2> QED BY <2>1
<1> QED BY <1>1, <1>3, <1>4, <1>5, ScoreHolds, PTL DEF Spec
=============================================================================
