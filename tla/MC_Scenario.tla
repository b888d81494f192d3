---------------------------- MODULE MC_Scenario -----------------------------
(***************************************************************************)
(* Small scores for the model checker.  A score is a record of its syncs,  *)
(* events (event -> sync) and intervals (interval -> from, to, min, max);  *)
(* a .cfg picks one with Score <- ... .                                    *)
(***************************************************************************)
EXTENDS ScenarioProperties, TLC

CONSTANT Score

Itv(from, to, min, max) ==
    [from |-> from, to |-> to, min |-> min, max |-> max, graphal |-> FALSE,
     speed |-> 1]
Loopback(from, to, min, max) ==
    [Itv(from, to, min, max) EXCEPT !.graphal = TRUE]
AtSpeed(speed, from, to, max) ==
    [Itv(from, to, max, max) EXCEPT !.speed = speed]
Forever == 99

MCSyncs == DOMAIN Score.syncs
MCEvents == DOMAIN Score.events
MCIntervals == DOMAIN Score.intervals
MCSyncOf == Score.events
MCStartEv == [i \in MCIntervals |-> Score.intervals[i].from]
MCEndEv == [i \in MCIntervals |-> Score.intervals[i].to]
MCGraphal == {i \in MCIntervals : Score.intervals[i].graphal}
MCMin == [i \in MCIntervals |-> Score.intervals[i].min]
MCMax == [i \in MCIntervals |-> Score.intervals[i].max]
MCNominal == [i \in MCIntervals |->
    IF MCMax[i] = Forever THEN MCMin[i] + 1
    ELSE (MCMin[i] + MCMax[i] + 1) \div 2]
MCSpeed == [i \in MCIntervals |-> Score.intervals[i].speed]
MCTrigger == Score.syncs
MCStartSyncs == Score.roots
MCRated == Score.rated
MCConditional == Score.conditional

(* s0 -a-> s1 -b-> s2 -c-> s3, no trigger: a tick may go through several   *)
(* intervals at once.  b plays twice as fast, and r backwards.  Next to    *)
(* it, t0 -x-> t1 -y-> t2 and the graphal l from t2 to t1 are a loop of 3. *)
Chain == [
    syncs |-> [n \in {"s0", "s1", "s2", "s3", "s4", "t0", "t1", "t2"} |->
                  "auto"],
    events |-> ("e0" :> "s0" @@ "e1" :> "s1" @@ "e2" :> "s2" @@ "e3" :> "s3"
               @@ "e4" :> "s4" @@ "f0" :> "t0" @@ "f1" :> "t1" @@ "f2" :> "t2"),
    intervals |-> ("a" :> Itv("e0", "e1", 2, 2)
                   @@ "b" :> AtSpeed(2, "e1", "e2", 2)
                   @@ "c" :> Itv("e2", "e3", 3, 3)
                   @@ "d" :> Itv("e0", "e3", 6, 6)
                   @@ "r" :> AtSpeed(-1, "e1", "e4", 2)
                   @@ "x" :> Itv("f0", "f1", 1, 1)
                   @@ "y" :> Itv("f1", "f2", 2, 2)
                   @@ "l" :> Loopback("f2", "f1", 1, 1)),
    roots |-> {"s0", "t0"}, rated |-> {}, conditional |-> {}]

(* s1 and s3 are quantized triggers.  Two conditions on s1 decide which    *)
(* branches are played; the branch of e2 goes through s2, which waits for  *)
(* an expression, and both join on e3.                                     *)
Branches == [
    syncs |-> ("s0" :> "auto" @@ "s1" :> "click" @@ "s2" :> "expr"
               @@ "s3" :> "click"),
    events |-> ("e0" :> "s0" @@ "e1" :> "s1" @@ "e2" :> "s1" @@ "e4" :> "s2"
                @@ "e3" :> "s3"),
    intervals |-> ("a" :> Itv("e0", "e1", 1, 4)
                   @@ "b" :> Itv("e1", "e3", 1, Forever)
                   @@ "c" :> Itv("e2", "e4", 1, 2)
                   @@ "d" :> Itv("e4", "e3", 1, 1)),
    roots |-> {"s0"}, rated |-> {"s1", "s3"}, conditional |-> {"e1", "e2"}]

(* Two separate components, each started by its own trigger.               *)
Components == [
    syncs |-> ("s0" :> "auto" @@ "s1" :> "click" @@ "t0" :> "click"
               @@ "t1" :> "auto"),
    events |-> ("e0" :> "s0" @@ "e1" :> "s1" @@ "f0" :> "t0" @@ "f1" :> "t1"),
    intervals |-> ("a" :> Itv("e0", "e1", 1, 5)
                   @@ "c" :> Itv("f0", "f1", 2, 2)),
    roots |-> {"s0", "t0"}, rated |-> {}, conditional |-> {}]

(* s1 -b-> s2, and a graphal interval back to s1: the score loops.         *)
Looping == [
    syncs |-> ("s0" :> "auto" @@ "s1" :> "auto" @@ "s2" :> "auto"),
    events |-> ("e0" :> "s0" @@ "e1" :> "s1" @@ "e2" :> "s2"),
    intervals |-> ("a" :> Itv("e0", "e1", 1, 1)
                   @@ "b" :> Itv("e1", "e2", 2, 2)
                   @@ "l" :> Loopback("e2", "e1", 1, 1)),
    roots |-> {"s0"}, rated |-> {}, conditional |-> {}]
=============================================================================
