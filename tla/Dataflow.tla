------------------------------ MODULE Dataflow ------------------------------
(***************************************************************************)
(* The data-flow graph: nodes joined by edges (cables) of five kinds, the  *)
(* addresses that join ports without a cable, and one graph execution per  *)
(* audio tick.  Nodes have one inlet and one outlet.  A value is the pair  *)
(* <<node that wrote it, tick>>, or <<None, 0>> for the initial value of a *)
(* parameter; the conversions of units and domains are left out.           *)
(* Edits of the graph run in the execution thread, between two ticks.      *)
(***************************************************************************)
EXTENDS Integers, Sequences, FiniteSets

CONSTANTS
    Nodes, Edges,
    Source, Target,  \* edge -> out_node, in_node
    Kind,            \* edge -> its connection, see Kinds
    Addresses, None,
    Reads, Writes,   \* node -> the address of its inlet, outlet, or None
    Schedulings,     \* the values of graph_setup_options::scheduling
    InitEdges,       \* the edges connected at first
    Requests,        \* the sets of nodes that a tick of the score may ask for
    MaxTick, MaxEdits

(* "strict" requires both sides; "strict_in" has required_sides = inbound. *)
Kinds == {"glutton", "strict", "strict_in", "delayed_glutton", "delayed_strict"}

ASSUME DataflowAssumption ==
    /\ Source \in [Edges -> Nodes] /\ Target \in [Edges -> Nodes]
    /\ Kind \in [Edges -> Kinds]
    /\ None \notin Addresses /\ None \notin Nodes
    /\ Edges \cap Addresses = {}
    /\ Reads \in [Nodes -> Addresses \cup {None}]
    /\ Writes \in [Nodes -> Addresses \cup {None}]
    /\ Schedulings \subseteq {"fixed", "tc", "dynamic"}
    /\ InitEdges \subseteq Edges /\ IsFiniteSet(Nodes)
    /\ Requests \subseteq SUBSET Nodes
    /\ MaxTick \in Nat /\ MaxEdits \in Nat

VARIABLES
    vertices, connected, muted,     \* m_nodes, m_edges, muted() nodes
    sched, dirty, order,            \* m_dirty, m_all_nodes / m_node_static_sort
    phase, tokens, active, executed,\* requested_tokens; the enabled cache
    outlet, buffer, pos,            \* port data, delay lines
    local, param,                   \* m_valueState, the value of parameters
    tick, edits,
    asked, starved, read            \* history: see the comments of their use

graphVars == <<vertices, connected, muted, sched>>
dataVars == <<outlet, buffer, pos, local, param, read>>
vars == <<graphVars, dirty, order, phase, tokens, active, executed, dataVars,
          tick, edits, asked, starved>>

Value == (Nodes \cup {None}) \X (0..MaxTick)
Delayed(e) == Kind[e] \in {"delayed_glutton", "delayed_strict"}
Sources(n) == {e \in connected : Target[e] = n}
Targets(n) == {e \in connected : Source[e] = n}
(* What the sorts see: the graph without its delayed edges.                *)
Immediate == {<<Source[e], Target[e]>> : e \in {f \in connected : ~Delayed(f)}}

----------------------------------------------------------------------------
(* Sorting.  The depth-first topological sort gives one of the orders that *)
(* respect the edges, and none when they have a cycle (not_a_dag).         *)
Precedes(o, m, n) ==
    \E i, j \in DOMAIN o : i < j /\ o[i] = m /\ o[j] = n
Orders(V, R) ==
    {o \in [1..Cardinality(V) -> V] :
        /\ \A n \in V : \E i \in DOMAIN o : o[i] = n
        /\ \A r \in R : Precedes(o, r[1], r[2])}

(* transitive_closure: a path of R goes from m to n when n is in each set  *)
(* of nodes that R does not leave and that has the successors of m.        *)
Path(R, m, n) ==
    \A S \in SUBSET Nodes :
        (\A r \in R : r[1] = m \/ r[1] \in S => r[2] \in S) => n \in S

(* find_address_connection *)
Feeds(m, n) == Writes[m] # None /\ Writes[m] = Reads[n]

(* The edge that tc_add_addresses adds for m before n in the order: from   *)
(* the first if it can feed the other.                                     *)
(* Mutant: the second is not considered.                                   *)
AddressEdge_OneWay(m, n) == IF Feeds(m, n) THEN {<<m, n>>} ELSE {}
AddressEdge(m, n) ==
    IF Feeds(m, n) THEN {<<m, n>>}
    ELSE IF Feeds(n, m) THEN {<<n, m>>}
    ELSE {}
Cables == {<<Source[e], Target[e]>> : e \in connected}

(* tc_add_addresses: for every pair of the sorted nodes without a path     *)
(* between them in the cables R (also the delayed ones) and the edges      *)
(* added so far, an edge if they share an address.                         *)
AfterPair(R, D, i, m, j, n) ==
    IF i >= j \/ Path(R \cup D, m, n) \/ Path(R \cup D, n, m)
    THEN D ELSE D \cup AddressEdge(m, n)
AddressEdges(R, o) ==
    LET N == Len(o)
        upto[k \in 0..N*N] ==
            IF k = 0 THEN {}
            ELSE LET i == ((k-1) \div N) + 1
                     j == ((k-1) % N) + 1
                 IN  AfterPair(R, upto[k-1], i, o[i], j, o[j])
    IN  upto[N*N]

(* The orders that an update of the graph can give.                        *)
SortedOrders ==
    LET plain == Orders(vertices, Immediate)
    IN  IF sched = "tc"
        THEN UNION {Orders(vertices, Immediate \cup AddressEdges(Cables, o)) :
                        o \in plain}
        ELSE plain
(* m_all_nodes at the start of a tick: empty if the graph has a cycle.     *)
UpdatedOrders ==
    IF ~dirty THEN {order}
    ELSE IF SortedOrders = {} THEN {<<>>} ELSE SortedOrders

----------------------------------------------------------------------------
(* disable_strict_nodes: the nodes of E that cannot run if E are enabled.  *)
Starving(e) == Kind[e] = "delayed_strict" /\ pos[e] >= Len(buffer[e])
StrictLosers(E) ==
    {n \in E :
        \/ n \in muted
        \/ \E e \in Sources(n) :
              \/ Kind[e] = "strict" /\ Source[e] \notin E
              \/ Starving(e)
        \/ \E e \in Targets(n) :
              Kind[e] \in {"strict", "strict_in"} /\ Target[e] \notin E}

(* Mutant: a delayed edge is waited for.                                   *)
CanExecute_Delay(n) ==
    \A e \in Sources(n) : Source[e] \in executed \/ Source[e] \notin active
(* can_execute, in terms of the nodes that are still enabled.              *)
CanExecute(n) ==
    \A e \in Sources(n) :
        Source[e] \in executed \/ Source[e] \notin active \/ Delayed(e)

Todo == active \ executed

(* node_sorter: cables first, then inlets with an address, then the rest.  *)
Class(n) == IF Sources(n) # {} THEN 0 ELSE IF Reads[n] # None THEN 1 ELSE 2
SortsBefore(m, n) ==
    \/ Class(m) < Class(n)
    \/ Class(m) = Class(n) /\ Precedes(order, m, n)

(* The node that the loop of the tick executes next: the static graphs go  *)
(* through m_all_nodes, ossia::graph takes the best node that can execute. *)
NextNodes ==
    IF sched = "dynamic"
    THEN LET ready == {n \in Todo : CanExecute(n)}
         IN  {n \in ready : \A m \in ready \ {n} : SortsBefore(n, m)}
    ELSE {n \in Todo : \A m \in Todo \ {n} : Precedes(order, n, m)}

----------------------------------------------------------------------------
(* init_inlet: the address is read if there is no cable, or if a glutton   *)
(* cable comes from a node that is not enabled.                            *)
MustPull(n) ==
    \/ Sources(n) = {}
    \/ \E e \in Sources(n) : Kind[e] = "glutton" /\ Source[e] \notin active
Pulled(n) ==
    LET a == Reads[n]
    IN  IF a = None \/ ~MustPull(n) THEN {}
        ELSE IF local[a] # <<>> THEN {local[a][i] : i \in DOMAIN local[a]}
        ELSE {param[a]}
(* init_node_visitor *)
FromLine(e) == IF pos[e] < Len(buffer[e]) THEN buffer[e][pos[e] + 1] ELSE {}
(* Mutants: a glutton cable of a node that is not enabled is read; a delay *)
(* line gives its latest value.                                            *)
FromCable_Disabled(e) == IF Delayed(e) THEN FromLine(e) ELSE outlet[Source[e]]
FromCable_Latest(e) ==
    CASE Kind[e] = "glutton" ->
             IF Source[e] \in active THEN outlet[Source[e]] ELSE {}
      [] Kind[e] \in {"strict", "strict_in"} -> outlet[Source[e]]
      [] OTHER -> IF buffer[e] = <<>> THEN {} ELSE buffer[e][Len(buffer[e])]
FromCable(e) ==
    CASE Kind[e] = "glutton" ->
             IF Source[e] \in active THEN outlet[Source[e]] ELSE {}
      [] Kind[e] \in {"strict", "strict_in"} -> outlet[Source[e]]
      [] OTHER -> FromLine(e)
(* The only cable of two ports without address moves the value.            *)
Moves(e) ==
    /\ ~Delayed(e) /\ (Kind[e] = "glutton" => Source[e] \in active)
    /\ Sources(Target[e]) = {e} /\ Targets(Source[e]) = {e}
    /\ Writes[Source[e]] = None /\ Reads[Target[e]] = None
(* The position of a delay line after its target has read it.              *)
(* Mutant: it moves when there was nothing to read.                        *)
Advanced_Always(e) == pos[e] + 1
Advanced(e) == IF pos[e] < Len(buffer[e]) THEN pos[e] + 1 ELSE pos[e]

(* What a node finds in its inlet, with the edge or address it came by.    *)
Inputs(n) ==
    {<<Reads[n], v>> : v \in Pulled(n)}
    \cup UNION {{<<e, v>> : v \in FromCable(e)} : e \in Sources(n)}

(* teardown_outlet, env_writer: does the outlet write to its address?      *)
(* Mutant: only if there is no cable.                                      *)
MustWrite_NoCable(n) == Targets(n) = {}
MustWrite(n) ==
    \/ Targets(n) = {}
    \/ \E e \in Targets(n) : Kind[e] = "glutton" /\ Target[e] \notin active

----------------------------------------------------------------------------
Init ==
    /\ vertices = Nodes /\ connected = InitEdges /\ muted = {}
    /\ sched \in Schedulings
    /\ dirty = TRUE /\ order = <<>>
    /\ phase = "idle" /\ tokens = [n \in Nodes |-> 0]
    /\ active = {} /\ executed = {}
    /\ outlet = [n \in Nodes |-> {}]
    /\ buffer = [e \in Edges |-> <<>>] /\ pos = [e \in Edges |-> 0]
    /\ local = [a \in Addresses |-> <<>>]
    /\ param = [a \in Addresses |-> <<None, 0>>]
    /\ tick = 0 /\ edits = 0
    /\ asked = {} /\ starved = {} /\ read = [n \in Nodes |-> {}]

(* An edit of the graph, between two ticks.                                *)
Edit ==
    /\ phase = "idle" /\ edits < MaxEdits /\ edits' = edits + 1
    /\ UNCHANGED <<sched, order, phase, tokens, active, executed, outlet, local,
                   param, tick, asked, starved>>

(* Mutant: the graph is not marked.                                        *)
Connect_NotDirty(e) ==
    /\ e \notin connected
    /\ connected' = connected \cup {e}
    /\ vertices' = vertices \cup {Source[e], Target[e]}
    /\ buffer' = [buffer EXCEPT ![e] = <<>>] /\ pos' = [pos EXCEPT ![e] = 0]
    /\ read' = [read EXCEPT ![Target[e]] = {r \in @ : r[1] # e}]
    /\ UNCHANGED <<muted, dirty>> /\ Edit
(* connect: adds the nodes that are missing, and starts an empty delay line. *)
Connect(e) ==
    /\ e \notin connected
    /\ connected' = connected \cup {e}
    /\ vertices' = vertices \cup {Source[e], Target[e]}
    /\ buffer' = [buffer EXCEPT ![e] = <<>>] /\ pos' = [pos EXCEPT ![e] = 0]
    /\ dirty' = TRUE
    /\ read' = [read EXCEPT ![Target[e]] = {r \in @ : r[1] # e}]
    /\ UNCHANGED muted /\ Edit

(* disconnect *)
Disconnect(e) ==
    /\ e \in connected /\ connected' = connected \ {e}
    /\ dirty' = TRUE
    /\ UNCHANGED <<vertices, muted, buffer, pos, read>> /\ Edit

(* remove_node disconnects every edge of the node.                         *)
RemoveNode(n) ==
    /\ n \in vertices /\ vertices' = vertices \ {n}
    /\ connected' = connected \ (Sources(n) \cup Targets(n))
    /\ dirty' = TRUE
    /\ UNCHANGED <<muted, buffer, pos, read>> /\ Edit

AddNode(n) ==
    /\ n \notin vertices /\ vertices' = vertices \cup {n}
    /\ dirty' = TRUE
    /\ UNCHANGED <<connected, muted, buffer, pos, read>> /\ Edit

(* set_mute *)
SetMute(n, b) ==
    /\ (n \in muted) # b
    /\ muted' = IF b THEN muted \cup {n} ELSE muted \ {n}
    /\ UNCHANGED <<vertices, connected, dirty, buffer, pos, read>> /\ Edit

(* request *)
Requested(R) == [n \in Nodes |-> IF n \in R THEN tokens[n] + 1 ELSE tokens[n]]

(* buffer_tick: the processes of the score request tokens of the nodes R,  *)
(* then state() sorts a graph that changed and collects the enabled nodes. *)
(* asked and starved keep what the filter starts from.                     *)
BeginTick(R) ==
    /\ phase = "idle" /\ tick < MaxTick
    /\ tick' = tick + 1
    /\ tokens' = Requested(R)
    /\ IF dirty /\ SortedOrders = {} /\ sched = "dynamic"
       \* not_a_dag is caught by state(), which returns at once
       THEN UNCHANGED <<order, dirty, phase, active, asked, starved>>
       ELSE \E o \in UpdatedOrders :
              LET E == {n \in {o[i] : i \in DOMAIN o} : tokens'[n] > 0}
              IN  /\ order' = o /\ dirty' = FALSE /\ phase' = "filter"
                  /\ active' = E /\ asked' = E
                  /\ starved' = {n \in Nodes : \E e \in Sources(n) : Starving(e)}
    /\ UNCHANGED <<graphVars, executed, dataVars, edits>>

(* Mutant: there is only one round.                                        *)
AfterRound_One(losers) == "tick"
AfterRound(losers) == IF losers = {} THEN "tick" ELSE "filter"
(* One round of disable_strict_nodes_rec: it ends with a round that        *)
(* disables nothing.                                                       *)
DisableStrictNodes ==
    /\ phase = "filter"
    /\ LET losers == StrictLosers(active)
       IN  /\ active' = active \ losers
           /\ tokens' = [n \in Nodes |-> IF n \in losers THEN 0 ELSE tokens[n]]
           /\ phase' = AfterRound(losers)
    /\ UNCHANGED <<graphVars, dirty, order, executed, dataVars, tick, edits,
                   asked, starved>>

(* exec_node: init_node, run and teardown_node.                            *)
ExecNode(n) ==
    /\ phase = "tick" /\ n \in NextNodes
    /\ executed' = executed \cup {n}
    /\ read' = [read EXCEPT ![n] = Inputs(n)]
    /\ outlet' = [m \in Nodes |->
          IF m = n THEN {<<n, tick>>}
          ELSE IF \E e \in Sources(n) \cap Targets(m) : Moves(e) THEN {}
          ELSE outlet[m]]
    /\ pos' = [e \in Edges |->
          IF e \in Sources(n) /\ Delayed(e) THEN Advanced(e) ELSE pos[e]]
    /\ buffer' = [e \in Edges |->
          IF e \in Targets(n) /\ Delayed(e)
          THEN Append(buffer[e], {<<n, tick>>}) ELSE buffer[e]]
    /\ local' = [a \in Addresses |->
          IF a = Writes[n] /\ MustWrite(n)
          THEN Append(local[a], <<n, tick>>) ELSE local[a]]
    /\ UNCHANGED <<graphVars, dirty, order, phase, tokens, active, param, tick,
                   edits, asked, starved>>

(* finish_nodes goes through every node of the graph.                      *)
(* Mutant: the nodes that have run.                                        *)
FinishNodes_Executed == [n \in Nodes |-> IF n \in executed THEN 0 ELSE tokens[n]]
FinishNodes == [n \in Nodes |-> IF n \in vertices THEN 0 ELSE tokens[n]]
(* The loop has nothing more to execute: finish_nodes, then commit.        *)
FinishTick ==
    /\ phase = "tick" /\ NextNodes = {}
    /\ phase' = "idle" /\ executed' = {} /\ active' = {}
    /\ tokens' = FinishNodes
    /\ param' = [a \in Addresses |->
          IF local[a] = <<>> THEN param[a] ELSE local[a][Len(local[a])]]
    /\ local' = [a \in Addresses |-> <<>>]
    /\ UNCHANGED <<graphVars, dirty, order, outlet, buffer, pos, read, tick,
                   edits, asked, starved>>

(* The thread of the execution, once in a tick.                            *)
Step == DisableStrictNodes \/ FinishTick \/ \E n \in Nodes : ExecNode(n)

Next ==
    \/ \E e \in Edges : Connect(e) \/ Disconnect(e)
    \/ \E n \in Nodes : RemoveNode(n) \/ AddNode(n)
    \/ \E n \in Nodes, b \in BOOLEAN : SetMute(n, b)
    \/ \E R \in Requests : BeginTick(R \cap vertices)
    \/ Step

Spec == Init /\ [][Next]_vars
=============================================================================
