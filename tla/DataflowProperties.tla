------------------------- MODULE DataflowProperties -------------------------
(* What an execution of the data-flow graph must guarantee.                *)
EXTENDS Dataflow

(* The position of a delay line is one of its buffer or its end.           *)
TypeOK ==
    /\ vertices \subseteq Nodes /\ connected \subseteq Edges /\ muted \subseteq Nodes
    /\ \A e \in connected : Source[e] \in vertices /\ Target[e] \in vertices
    /\ sched \in Schedulings /\ dirty \in BOOLEAN
    /\ order \in Seq(Nodes)
    /\ phase \in {"idle", "filter", "tick"}
    /\ tokens \in [Nodes -> Nat]
    /\ executed \subseteq active /\ active \subseteq asked /\ asked \subseteq Nodes
    /\ starved \subseteq Nodes
    /\ outlet \in [Nodes -> SUBSET Value]
    /\ read \in [Nodes -> SUBSET ((Edges \cup Addresses) \X Value)]
    /\ buffer \in [Edges -> Seq(SUBSET Value)]
    /\ pos \in [Edges -> Nat]
    /\ \A e \in Edges : pos[e] <= Len(buffer[e])
    /\ local \in [Addresses -> Seq(Value)]
    /\ param \in [Addresses -> Value]
    /\ tick \in 0..MaxTick /\ edits \in 0..MaxEdits

----------------------------------------------------------------------------
(* A set of nodes that may run together: no muted node, no node that waits *)
(* for a strict delayed cable, and both sides of every strict cable that   *)
(* requires them.                                                          *)
MayRunTogether(S) ==
    /\ S \cap (muted \cup starved) = {}
    /\ \A e \in connected :
          /\ Kind[e] = "strict" /\ Target[e] \in S => Source[e] \in S
          /\ Kind[e] \in {"strict", "strict_in"} /\ Source[e] \in S => Target[e] \in S

(* disable_strict_nodes_rec keeps the largest part of the requested nodes  *)
(* that may run together, whatever the chains of strict cables: it stops   *)
(* neither too early nor too late.                                         *)
LargestEnabled ==
    phase = "tick" =>
        /\ MayRunTogether(active)
        /\ \A S \in SUBSET asked : MayRunTogether(S) => S \subseteq active

(* The assertion of the executors, can_execute(node): when a node runs,    *)
(* the enabled nodes at the other end of its immediate cables have run.    *)
SourcesFirst ==
    phase = "tick" =>
        \A e \in connected :
            ~Delayed(e) /\ Target[e] \in executed /\ Source[e] \in active
                => Source[e] \in executed

(* The loop of the tick stops only when every enabled node has run: its    *)
(* "nothing more to execute" is never a graph that is stuck.               *)
EveryoneRuns ==
    [][phase = "tick" /\ phase' = "idle" => executed = active]_vars

(* A static graph runs only the tokens of this tick, even after ticks in   *)
(* which a cycle or a strict cable kept the node from running.             *)
NoBacklog ==
    sched # "dynamic" => \A n \in vertices : tokens[n] <= 1

(* The value of a node reaches each glutton cable once it has run: through *)
(* the cable if the other node is enabled, through its address otherwise.  *)
GluttonDelivered ==
    phase = "tick" =>
        \A e \in connected :
            Kind[e] = "glutton" /\ Source[e] \in executed =>
                IF Target[e] \in active
                THEN Target[e] \in executed =>
                         <<e, <<Source[e], tick>>>> \in read[Target[e]]
                ELSE Writes[Source[e]] # None =>
                         \E i \in DOMAIN local[Writes[Source[e]]] :
                             local[Writes[Source[e]]][i] = <<Source[e], tick>>

(* What comes through an immediate cable was written in this tick.         *)
Fresh(kinds) ==
    phase = "tick" =>
        \A e \in connected :
            Kind[e] \in kinds /\ Target[e] \in executed =>
                \A v \in Value :
                    <<e, v>> \in read[Target[e]] => v = <<Source[e], tick>>
FreshCables == Fresh({"glutton", "strict"})

(* graph_ordering.hpp, init_node_visitor: "if it's a strict connection     *)
(* then the other node is necessarily enabled", so that what its outlet    *)
(* holds is of this tick, whatever the required sides.                     *)
FreshStrict == Fresh({"strict", "strict_in"})

(* A node that waits for a strict delayed cable runs only in the ticks in  *)
(* which that cable has a value for it, although it was filtered before    *)
(* the other nodes ran.                                                    *)
StrictDelayFed ==
    phase = "tick" =>
        \A e \in connected :
            Kind[e] = "delayed_strict" /\ Target[e] \in executed =>
                \E v \in Value : <<e, v>> \in read[Target[e]]

(* A delay line is a queue that starts empty with the connection: nothing  *)
(* of it is lost, repeated or reordered.                                   *)
Lines == INSTANCE DelayLines WITH
    Lines <- {e \in Edges : Delayed(e)},
    pending <- [e \in {f \in Edges : Delayed(f)} |->
                    IF e \in connected
                    THEN SubSeq(buffer[e], pos[e] + 1, Len(buffer[e])) ELSE <<>>],
    given <- [e \in {f \in Edges : Delayed(f)} |->
                  IF e \in connected
                  THEN {r[2] : r \in {x \in read[Target[e]] : x[1] = e}} ELSE {}]
ImplementsDelayLines == Lines!Spec

(* Without a cycle of cables and addresses, a node that writes an address  *)
(* runs before those that read it; but for the pairs that a delayed cable  *)
(* joins: the closure has a path for them, that the sort then ignores.     *)
Joined == Cables \cup {r \in vertices \X vertices : r[1] # r[2] /\ Feeds(r[1], r[2])}
JoinedByDelay(m, n) ==
    \E e \in connected :
        /\ Delayed(e)
        /\ m = Source[e] \/ Path(Joined, m, Source[e])
        /\ n = Target[e] \/ Path(Joined, Target[e], n)
WriterFirst ==
    phase = "tick" =>
        \A m, n \in active :
            Feeds(m, n) /\ n \in executed /\ m \notin executed =>
                \/ m = n \/ JoinedByDelay(m, n)
                \/ \E k \in vertices : Path(Joined, k, k)

(* tc_add_addresses orders the nodes by their addresses.                   *)
AddressesOrdered == sched = "tc" => WriterFirst

(* graph_ordering.hpp, node_sorter: "if for instance node A produces "/a"  *)
(* and node B consumes "/a", A executes before B."                         *)
SorterOrders == sched = "dynamic" => WriterFirst
=============================================================================
