--------------------------- MODULE DataflowProofs ---------------------------
(***************************************************************************)
(* Proofs about the data-flow graph, for every set of nodes, edges and     *)
(* addresses, every scheduling and any number of ticks and edits.          *)
(***************************************************************************)
EXTENDS DataflowProperties, IntervalLemmas, FiniteSetTheorems, SequenceTheorems,
        TLAPS

(* The nodes run only in their phase of a tick, and never on an order that *)
(* is older than the last edit of the graph.                               *)
ExecInv ==
    /\ phase # "tick" => executed = {}
    /\ phase # "idle" => ~dirty
    /\ ~dirty => order = <<>> \/ order \in Orders(vertices, Immediate)
    /\ phase # "idle" => asked \subseteq {order[i] : i \in DOMAIN order}

(* What a node finds in its inlet is typed.                                *)
LEMMA InputsType ==
  ASSUME TypeOK, NEW n \in Nodes
  PROVE  Inputs(n) \in SUBSET ((Edges \cup Addresses) \X Value)
<1>1. ASSUME NEW v \in Pulled(n)
      PROVE  Reads[n] \in Addresses /\ v \in Value
  <2>1. Reads[n] \in Addresses /\ local[Reads[n]] \in Seq(Value)
        /\ param[Reads[n]] \in Value
    BY <1>1, DataflowAssumption DEF Pulled, TypeOK
  <2>2. \A i \in DOMAIN local[Reads[n]] : local[Reads[n]][i] \in Value
    BY <2>1
  <2> QED BY <1>1, <2>1, <2>2 DEF Pulled
<1>2. ASSUME NEW e \in Sources(n), NEW v \in FromCable(e)
      PROVE  e \in Edges /\ v \in Value
  <2>1. e \in Edges /\ outlet[Source[e]] \in SUBSET Value
        /\ buffer[e] \in Seq(SUBSET Value) /\ pos[e] \in Nat
    BY DataflowAssumption DEF Sources, TypeOK
  <2>2. pos[e] < Len(buffer[e]) => buffer[e][pos[e] + 1] \in SUBSET Value
    BY <2>1
  <2> QED BY <1>2, <2>1, <2>2 DEF FromCable, FromLine
<1> QED BY <1>1, <1>2 DEF Inputs

(* An order that an update gives respects the immediate edges.             *)
LEMMA UpdatedOrdersType ==
  ASSUME TypeOK, ExecInv, NEW o \in UpdatedOrders
  PROVE  /\ o \in Seq(Nodes)
         /\ o = <<>> \/ o \in Orders(vertices, Immediate)
<1>1. ASSUME NEW R, Immediate \subseteq R, NEW p \in Orders(vertices, R)
      PROVE  p \in Orders(vertices, Immediate)
  BY <1>1 DEF Orders
<1>2. SortedOrders \subseteq Orders(vertices, Immediate)
  <2>1. ASSUME NEW p \in SortedOrders
        PROVE  p \in Orders(vertices, Immediate)
    <3>1. CASE sched = "tc"
      <4>1. PICK q : p \in Orders(vertices, Immediate \cup AddressEdges(Cables, q))
        BY <2>1, <3>1 DEF SortedOrders
      <4> QED BY <4>1, <1>1
    <3>2. CASE sched # "tc"
      BY <2>1, <3>2 DEF SortedOrders
    <3> QED BY <3>1, <3>2
  <2> QED BY <2>1
<1>3. ASSUME NEW p \in Orders(vertices, Immediate)
      PROVE  p \in Seq(Nodes)
  <2>1. IsFiniteSet(vertices) /\ vertices \subseteq Nodes
    BY DataflowAssumption, FS_Subset DEF TypeOK
  <2>2. Cardinality(vertices) \in Nat
    BY <2>1, FS_CardinalityType
  <2> QED BY <2>1, <2>2 DEF Orders
<1>4. (o = order /\ ~dirty) \/ o = <<>> \/ o \in SortedOrders
  BY DEF UpdatedOrders
<1>5. CASE o = order /\ ~dirty
  BY <1>5 DEF TypeOK, ExecInv
<1>6. CASE o = <<>>
  BY <1>6
<1>7. CASE o \in SortedOrders
  BY <1>2, <1>3, <1>7
<1> QED BY <1>4, <1>5, <1>6, <1>7

(* The edits of the graph.                                                 *)
SomeEdit ==
    \/ \E e \in Edges : Connect(e) \/ Disconnect(e)
    \/ \E n \in Nodes : RemoveNode(n) \/ AddNode(n)
    \/ \E n \in Nodes, b \in BOOLEAN : SetMute(n, b)

(* Every step of an edit of the graph keeps the types.                     *)
LEMMA EditType ==
  ASSUME TypeOK, SomeEdit
  PROVE  TypeOK'
<1> USE DataflowAssumption DEF TypeOK, Edit
<1>1. ASSUME NEW e \in Edges, Connect(e)
      PROVE  TypeOK'
  <2>1. read' \in [Nodes -> SUBSET ((Edges \cup Addresses) \X Value)]
    BY <1>1 DEF Connect
  <2>2. buffer' \in [Edges -> Seq(SUBSET Value)] /\ pos' \in [Edges -> Nat]
        /\ \A f \in Edges : pos'[f] <= Len(buffer'[f])
    BY <1>1 DEF Connect
  <2> QED BY <1>1, <2>1, <2>2 DEF Connect
<1>2. ASSUME NEW e \in Edges, Disconnect(e)
      PROVE  TypeOK'
  BY <1>2 DEF Disconnect
<1>3. ASSUME NEW n \in Nodes, RemoveNode(n)
      PROVE  TypeOK'
  BY <1>3 DEF RemoveNode, Sources, Targets
<1>4. ASSUME NEW n \in Nodes, AddNode(n)
      PROVE  TypeOK'
  BY <1>4 DEF AddNode
<1>5. ASSUME NEW n \in Nodes, NEW b \in BOOLEAN, SetMute(n, b)
      PROVE  TypeOK'
  BY <1>5 DEF SetMute
<1> HIDE DEF TypeOK
<1> QED BY <1>1, <1>2, <1>3, <1>4, <1>5 DEF SomeEdit

(* The start of a tick keeps the types, and its nodes are in the order.    *)
LEMMA BeginType ==
  ASSUME TypeOK, ExecInv, NEW R \in SUBSET Nodes, BeginTick(R)
  PROVE  TypeOK' /\ ExecInv'
<1> USE DEF TypeOK, graphVars, dataVars
<1>1. tokens' \in [Nodes -> Nat] /\ tick' \in 0..MaxTick
  BY DataflowAssumption DEF BeginTick, Requested
<1>2. executed = {} /\ executed' = {} /\ phase = "idle" /\ UNCHANGED vertices /\ Immediate' = Immediate
  BY DEF BeginTick, ExecInv, Immediate
<1>3. CASE dirty /\ SortedOrders = {} /\ sched = "dynamic"
  <2>1. UNCHANGED <<order, dirty, phase, active, asked, starved>>
    BY <1>3 DEF BeginTick
  <2> QED BY <1>1, <1>2, <2>1 DEF BeginTick, ExecInv, Orders
<1>4. CASE ~(dirty /\ SortedOrders = {} /\ sched = "dynamic")
  <2>1. PICK o \in UpdatedOrders :
          LET E == {n \in {o[i] : i \in DOMAIN o} : tokens'[n] > 0}
          IN  /\ order' = o /\ dirty' = FALSE /\ phase' = "filter"
              /\ active' = E /\ asked' = E
              /\ starved' = {n \in Nodes : \E e \in Sources(n) : Starving(e)}
    BY <1>4 DEF BeginTick
  <2>2. o \in Seq(Nodes) /\ (o = <<>> \/ o \in Orders(vertices, Immediate))
    BY UpdatedOrdersType
  <2>3. active' \subseteq {o[i] : i \in DOMAIN o} /\ {o[i] : i \in DOMAIN o} \subseteq Nodes
    BY <2>1, <2>2
  <2>4. TypeOK'
    BY <1>1, <1>2, <2>1, <2>2, <2>3 DEF BeginTick
  <2>5. Orders(vertices, Immediate)' = Orders(vertices, Immediate)
    BY <1>2 DEF Orders
  <2>6. ExecInv'
    BY <1>2, <2>1, <2>2, <2>3, <2>5 DEF ExecInv
  <2> QED BY <2>4, <2>6
<1> QED BY <1>3, <1>4

(* An edit marks the graph when its order may change.                      *)
LEMMA EditExec ==
  ASSUME TypeOK, ExecInv, SomeEdit
  PROVE  ExecInv'
<1>1. phase = "idle" /\ phase' = "idle" /\ executed' = executed /\ order' = order
  BY DEF SomeEdit, Connect, Disconnect, RemoveNode, AddNode, SetMute, Edit
<1>2. \/ dirty'
      \/ UNCHANGED <<dirty, vertices, connected>>
  BY DEF SomeEdit, Connect, Disconnect, RemoveNode, AddNode, SetMute
<1>3. UNCHANGED <<vertices, connected>> =>
        Orders(vertices, Immediate)' = Orders(vertices, Immediate)
  BY DEF Orders, Immediate
<1> QED BY <1>1, <1>2, <1>3 DEF ExecInv

(* Every step of the thread of the execution keeps the types.              *)
LEMMA StepType ==
  ASSUME TypeOK, ExecInv, Step
  PROVE  TypeOK' /\ ExecInv'
<1> USE DEF TypeOK, graphVars, dataVars
<1>1. CASE DisableStrictNodes
  <2>1. TypeOK'
    BY <1>1 DEF DisableStrictNodes, AfterRound, ExecInv
  <2>2. Orders(vertices, Immediate)' = Orders(vertices, Immediate)
    BY <1>1 DEF DisableStrictNodes, Orders, Immediate
  <2>3. ExecInv'
    BY <1>1, <2>2 DEF DisableStrictNodes, AfterRound, ExecInv
  <2> QED BY <2>1, <2>3
<1>2. ASSUME NEW n \in Nodes, ExecNode(n)
      PROVE  TypeOK' /\ ExecInv'
  <2>1. n \in Todo /\ n \in Nodes
    BY <1>2 DEF ExecNode, NextNodes
  <2>2. <<n, tick>> \in Value
    BY <2>1 DEF Value
  <2>3. executed' \subseteq active
    BY <1>2, <2>1 DEF ExecNode, Todo
  <2>4. read' \in [Nodes -> SUBSET ((Edges \cup Addresses) \X Value)]
    BY <1>2, InputsType DEF ExecNode
  <2>5. outlet' \in [Nodes -> SUBSET Value]
    <3>1. \A m \in Nodes : outlet'[m] = {<<n, tick>>} \/ outlet'[m] = {}
                            \/ outlet'[m] = outlet[m]
      BY <1>2 DEF ExecNode
    <3> QED BY <1>2, <2>2, <3>1 DEF ExecNode
  <2>6. /\ pos' \in [Edges -> Nat] /\ buffer' \in [Edges -> Seq(SUBSET Value)]
        /\ \A e \in Edges : pos'[e] <= Len(buffer'[e])
    <3>1. ASSUME NEW e \in Edges
          PROVE  /\ pos'[e] \in Nat /\ buffer'[e] \in Seq(SUBSET Value)
                 /\ pos'[e] <= Len(buffer'[e])
      <4>1. /\ pos[e] \in Nat /\ buffer[e] \in Seq(SUBSET Value)
            /\ pos[e] <= Len(buffer[e])
        OBVIOUS
      <4>2. pos'[e] = pos[e] \/ (pos[e] < Len(buffer[e]) /\ pos'[e] = pos[e] + 1)
        BY <1>2, <4>1 DEF ExecNode, Advanced
      <4>3. \/ buffer'[e] = buffer[e]
            \/ buffer'[e] = Append(buffer[e], {<<n, tick>>})
        BY <1>2 DEF ExecNode
      <4>4. {<<n, tick>>} \in SUBSET Value
        BY <2>2
      <4>5. CASE buffer'[e] = buffer[e]
        BY <4>1, <4>2, <4>5
      <4>6. CASE buffer'[e] = Append(buffer[e], {<<n, tick>>})
        <5> DEFINE v == {<<n, tick>>}
        <5>1. v \in SUBSET Value
          BY <4>4
        <5> HIDE DEF v
        <5>2. Append(buffer[e], v) \in Seq(SUBSET Value)
              /\ Len(Append(buffer[e], v)) = Len(buffer[e]) + 1
          BY <4>1, <5>1
        <5> QED BY <4>1, <4>2, <4>6, <5>2 DEF v
      <4> QED BY <4>3, <4>5, <4>6
    <3> HIDE DEF TypeOK
    <3>2. pos' \in [Edges -> Nat]
      BY <1>2, <3>1 DEF ExecNode
    <3>3. buffer' \in [Edges -> Seq(SUBSET Value)]
      BY <1>2, <3>1 DEF ExecNode
    <3> QED BY <3>1, <3>2, <3>3
  <2>7. local' \in [Addresses -> Seq(Value)]
    <3>1. ASSUME NEW a \in Addresses
          PROVE  local'[a] \in Seq(Value)
      BY <1>2, <2>2 DEF ExecNode
    <3> QED BY <1>2, <3>1 DEF ExecNode
  <2>8. Orders(vertices, Immediate)' = Orders(vertices, Immediate)
    BY <1>2 DEF ExecNode, Orders, Immediate
  <2>9. ExecInv'
    BY <1>2, <2>8 DEF ExecNode, ExecInv
  <2>10. TypeOK'
    <3> HIDE DEF TypeOK
    <3>1. UNCHANGED <<graphVars, dirty, order, phase, tokens, active, param, tick,
                      edits, asked, starved>>
      BY <1>2 DEF ExecNode
    <3> QED BY <2>3, <2>4, <2>5, <2>6, <2>7, <3>1 DEF TypeOK
  <2> QED BY <2>9, <2>10
<1>3. CASE FinishTick
  <2>1. param' \in [Addresses -> Value]
    <3>1. \A a \in Addresses : local[a] # <<>> => local[a][Len(local[a])] \in Value
      OBVIOUS
    <3> QED BY <1>3, <3>1 DEF FinishTick
  <2>2. tokens' \in [Nodes -> Nat]
    BY <1>3 DEF FinishTick, FinishNodes
  <2>3. local' \in [Addresses -> Seq(Value)]
    BY <1>3 DEF FinishTick
  <2>4. TypeOK'
    BY <1>3, <2>1, <2>2, <2>3 DEF FinishTick
  <2>5. Orders(vertices, Immediate)' = Orders(vertices, Immediate)
    BY <1>3 DEF FinishTick, Orders, Immediate
  <2>6. ExecInv'
    BY <1>3, <2>5 DEF FinishTick, ExecInv
  <2> QED BY <2>4, <2>6
<1> QED BY <1>1, <1>2, <1>3 DEF Step

(* The inductive invariant of the types.                                   *)
LEMMA BaseInductive ==
  ASSUME TypeOK, ExecInv, [Next]_vars
  PROVE  TypeOK' /\ ExecInv'
<1>1. CASE UNCHANGED vars
  <2>1. Orders(vertices, Immediate)' = Orders(vertices, Immediate)
    BY <1>1 DEF vars, graphVars, Orders, Immediate
  <2>2. TypeOK'
    BY <1>1 DEF vars, graphVars, dataVars, TypeOK
  <2>3. ExecInv'
    BY <1>1, <2>1 DEF vars, graphVars, dataVars, ExecInv
  <2> QED BY <2>2, <2>3
<1>2. CASE Next
  <2>1. CASE SomeEdit
    BY <2>1, EditType, EditExec
  <2>2. ASSUME NEW R \in SUBSET Nodes, BeginTick(R)
        PROVE  TypeOK' /\ ExecInv'
    BY <2>2, BeginType
  <2>3. CASE Step
    BY <2>3, StepType
  <2>4. \A R \in Requests : R \cap vertices \in SUBSET Nodes
    BY DEF TypeOK
  <2> QED BY <1>2, <2>1, <2>2, <2>3, <2>4 DEF Next, SomeEdit
<1> QED BY <1>1, <1>2

(* Init establishes the types.                                             *)
LEMMA BaseInit ==
  ASSUME Init
  PROVE  TypeOK /\ ExecInv
<1>1. <<None, 0>> \in Value
  BY DataflowAssumption DEF Value
<1>2. param \in [Addresses -> Value]
  BY <1>1 DEF Init
<1>3. /\ buffer \in [Edges -> Seq(SUBSET Value)] /\ local \in [Addresses -> Seq(Value)]
      /\ \A e \in Edges : pos[e] <= Len(buffer[e])
  BY DEF Init
<1>4. TypeOK
  BY <1>2, <1>3, DataflowAssumption DEF Init, TypeOK
<1>5. ExecInv
  BY DEF Init, ExecInv
<1> QED BY <1>4, <1>5

(* The state of the graph is well formed: among others, a delay line is    *)
(* never read past its end, and only enabled nodes run.                    *)
THEOREM TypeCorrect == Spec => []TypeOK
<1>1. Init => TypeOK /\ ExecInv
  BY BaseInit
<1>2. TypeOK /\ ExecInv /\ [Next]_vars => TypeOK' /\ ExecInv'
  BY BaseInductive
<1> QED BY <1>1, <1>2, PTL DEF Spec

----------------------------------------------------------------------------
(* While the filter runs, every set of the asked nodes that may run        *)
(* together is still enabled; starved is what the filter compares with.    *)
FilterInv ==
    /\ phase = "filter" =>
          /\ starved = {n \in Nodes : \E e \in Sources(n) : Starving(e)}
          /\ \A S \in SUBSET asked : MayRunTogether(S) => S \subseteq active
    /\ LargestEnabled

(* A round of the filter disables no node of a set that may run together.  *)
LEMMA RoundKeeps ==
  ASSUME TypeOK, FilterInv, phase = "filter", NEW S \in SUBSET asked, MayRunTogether(S)
  PROVE  S \cap StrictLosers(active) = {}
<1>1. SUFFICES ASSUME NEW n \in S, n \in StrictLosers(active)
               PROVE  FALSE
  OBVIOUS
<1>2. S \subseteq active /\ n \in Nodes
  BY DEF FilterInv, TypeOK
<1>3. ASSUME NEW e \in Sources(n), Starving(e)
      PROVE  FALSE
  BY <1>2, <1>3 DEF FilterInv, MayRunTogether
<1>4. ASSUME NEW e \in Sources(n), Kind[e] = "strict", Source[e] \notin active
      PROVE  FALSE
  BY <1>2, <1>4 DEF MayRunTogether, Sources
<1>5. ASSUME NEW e \in Targets(n), Kind[e] \in {"strict", "strict_in"},
             Target[e] \notin active
      PROVE  FALSE
  BY <1>2, <1>5 DEF MayRunTogether, Targets
<1>6. n \notin muted
  BY DEF MayRunTogether
<1> QED BY <1>1, <1>3, <1>4, <1>5, <1>6 DEF StrictLosers

(* What a round leaves may run together when it disables nothing.          *)
LEMMA RoundEnds ==
  ASSUME TypeOK, FilterInv, phase = "filter", StrictLosers(active) = {}
  PROVE  MayRunTogether(active)
<1>1. active \subseteq Nodes
  BY DEF TypeOK
<1>2. active \cap muted = {}
  BY DEF StrictLosers
<1>3. active \cap starved = {}
  BY DEF StrictLosers, FilterInv
<1>4. ASSUME NEW e \in connected, Kind[e] = "strict", Target[e] \in active
      PROVE  Source[e] \in active
  BY <1>4 DEF StrictLosers, Sources
<1>5. ASSUME NEW e \in connected, Kind[e] \in {"strict", "strict_in"},
             Source[e] \in active
      PROVE  Target[e] \in active
  BY <1>5 DEF StrictLosers, Targets
<1> QED BY <1>2, <1>3, <1>4, <1>5 DEF MayRunTogether

(* An edit of the graph and the disabling of strict nodes, action by action.*)
LEMMA FilterInductive ==
  ASSUME TypeOK, ExecInv, FilterInv, [Next]_vars
  PROVE  FilterInv'
<1>1. CASE UNCHANGED vars
  BY <1>1 DEF vars, graphVars, dataVars, FilterInv, LargestEnabled, MayRunTogether,
              Sources, Starving
<1>2. CASE SomeEdit
  BY <1>2 DEF SomeEdit, Connect, Disconnect, RemoveNode, AddNode, SetMute, Edit,
              FilterInv, LargestEnabled
<1>3. ASSUME NEW R \in SUBSET Nodes, BeginTick(R)
      PROVE  FilterInv'
  <2>1. phase = "idle" /\ (phase' = "idle" \/ phase' = "filter")
    BY <1>3 DEF BeginTick
  <2>2. CASE phase' = "filter"
    <3>1. active' = asked' /\ UNCHANGED <<connected, buffer, pos>>
      BY <1>3, <2>1, <2>2 DEF BeginTick, graphVars, dataVars
    <3>2. starved' = {n \in Nodes : \E e \in Sources(n) : Starving(e)}
      BY <1>3, <2>1, <2>2 DEF BeginTick
    <3>3. \A n : Sources(n)' = Sources(n)
      BY <3>1 DEF Sources
    <3>4. \A e : Starving(e)' <=> Starving(e)
      BY <3>1 DEF Starving
    <3>5. starved' = {n \in Nodes : \E e \in Sources(n)' : Starving(e)'}
      BY <3>2, <3>3, <3>4
    <3> QED BY <2>2, <3>1, <3>5 DEF FilterInv, LargestEnabled
  <2> QED BY <2>1, <2>2 DEF FilterInv, LargestEnabled
<1>4. CASE DisableStrictNodes
  <2> DEFINE losers == StrictLosers(active)
  <2>1. /\ phase = "filter" /\ active' = active \ losers
        /\ phase' = IF losers = {} THEN "tick" ELSE "filter"
        /\ UNCHANGED <<connected, muted, starved, asked, buffer, pos>>
    BY <1>4 DEF DisableStrictNodes, AfterRound, graphVars, dataVars
  <2>2. \A S : MayRunTogether(S)' <=> MayRunTogether(S)
    BY <2>1 DEF MayRunTogether
  <2>3. ASSUME NEW S \in SUBSET asked, MayRunTogether(S)
        PROVE  S \subseteq active'
    BY <2>1, <2>3, RoundKeeps DEF FilterInv
  <2>4. starved = {n \in Nodes : \E e \in Sources(n) : Starving(e)}
    BY <2>1 DEF FilterInv
  <2>5. (\A n : Sources(n)' = Sources(n)) /\ (\A e : Starving(e)' <=> Starving(e))
    BY <2>1 DEF Sources, Starving
  <2>6. CASE losers = {}
    <3>1. MayRunTogether(active) /\ active' = active
      BY <2>1, <2>6, RoundEnds
    <3>2. MayRunTogether(active)'
      BY <3>1, <2>2 DEF MayRunTogether
    <3> QED BY <2>1, <2>2, <2>3, <2>6, <3>2 DEF FilterInv, LargestEnabled
  <2>7. CASE losers # {}
    <3>1. phase' = "filter"
      BY <2>1, <2>7
    <3>2. starved' = {n \in Nodes : \E e \in Sources(n)' : Starving(e)'}
      BY <2>1, <2>4, <2>5
    <3> QED BY <2>1, <2>2, <2>3, <3>1, <3>2 DEF FilterInv, LargestEnabled
  <2> QED BY <2>6, <2>7
<1>5. ASSUME NEW n \in Nodes, ExecNode(n)
      PROVE  FilterInv'
  <2>1. /\ phase = "tick" /\ UNCHANGED <<connected, muted, starved, asked, active, phase>>
    BY <1>5 DEF ExecNode, graphVars
  <2> QED BY <2>1 DEF FilterInv, LargestEnabled, MayRunTogether
<1>6. CASE FinishTick
  BY <1>6 DEF FinishTick, FilterInv, LargestEnabled
<1>7. \A R \in Requests : R \cap vertices \in SUBSET Nodes
  BY DEF TypeOK
<1> QED BY <1>1, <1>2, <1>3, <1>4, <1>5, <1>6, <1>7 DEF Next, SomeEdit, Step

(* Whatever the chains of strict cables, disable_strict_nodes_rec leaves   *)
(* the largest set of requested nodes that may run together.               *)
THEOREM LargestEnabledHolds == Spec => []LargestEnabled
<1>1. Init => TypeOK /\ ExecInv /\ FilterInv
  <2>1. Init => FilterInv
    BY DEF Init, FilterInv, LargestEnabled
  <2> QED BY <2>1, BaseInit
<1>2. TypeOK /\ ExecInv /\ FilterInv /\ [Next]_vars => TypeOK' /\ ExecInv' /\ FilterInv'
  BY BaseInductive, FilterInductive
<1>3. FilterInv => LargestEnabled
  BY DEF FilterInv
<1> QED BY <1>1, <1>2, <1>3, PTL DEF Spec

----------------------------------------------------------------------------
(* A topological order has each node once.                                 *)
LEMMA OrderOnce ==
  ASSUME TypeOK, NEW o \in Orders(vertices, Immediate),
         NEW i \in DOMAIN o, NEW j \in DOMAIN o, o[i] = o[j]
  PROVE  i = j
<1> DEFINE N == Cardinality(vertices)
<1>1. IsFiniteSet(vertices) /\ N \in Nat
  <2>1. IsFiniteSet(vertices)
    BY DataflowAssumption, FS_Subset DEF TypeOK
  <2> QED BY <2>1, FS_CardinalityType
<1>2. IsFiniteSet(1..N) /\ Cardinality(1..N) = N
  <2>1. Cardinality(1..N) = IF 1 > N THEN 0 ELSE N - 1 + 1
    BY <1>1, FS_Interval
  <2>2. IsFiniteSet(1..N)
    BY <1>1, FS_Interval
  <2> QED BY <1>1, <2>1, <2>2
<1>3. o \in Surjection(1..N, vertices)
  BY DEF Orders, Surjection
<1>4. o \in Injection(1..N, vertices)
  <2> HIDE DEF N
  <2>1. Cardinality(1..N) = Cardinality(vertices)
    BY <1>2 DEF N
  <2> QED BY <1>2, <1>3, <2>1, FS_SurjSameCardinalityImpliesInj
<1> QED BY <1>4 DEF Injection, IsInjective

(* The index of an asked node in the order.                                *)
LEMMA OrderOfTick ==
  ASSUME TypeOK, ExecInv, phase # "idle", active # {}
  PROVE  /\ order \in Orders(vertices, Immediate)
         /\ \A n \in active : \E i \in DOMAIN order : order[i] = n
<1>1. \A n \in active : \E i \in DOMAIN order : order[i] = n
  BY DEF TypeOK, ExecInv
<1>2. order # <<>>
  BY <1>1
<1> QED BY <1>1, <1>2 DEF ExecInv

(* Two nodes of a tick are not both before each other.                     *)
LEMMA PrecedesAsymmetric ==
  ASSUME TypeOK, NEW o \in Orders(vertices, Immediate), NEW m, NEW n,
         Precedes(o, m, n), Precedes(o, n, m)
  PROVE  FALSE
<1>1. PICK i, j \in DOMAIN o : i < j /\ o[i] = m /\ o[j] = n
  BY DEF Precedes
<1>2. PICK k, l \in DOMAIN o : k < l /\ o[k] = n /\ o[l] = m
  BY DEF Precedes
<1>3. i = l /\ j = k
  BY <1>1, <1>2, OrderOnce
<1>4. i \in Int /\ j \in Int
  <2>1. DOMAIN o = 1..Cardinality(vertices)
    BY DEF Orders
  <2> QED BY <2>1
<1> QED BY <1>1, <1>2, <1>3, <1>4

(* can_execute: when a node is executed, the enabled nodes at the other    *)
(* end of its immediate cables have been, in the static graphs too.        *)
LEMMA ReadySources ==
  ASSUME TypeOK, ExecInv, phase = "tick", NEW n \in NextNodes,
         NEW e \in Sources(n), ~Delayed(e), Source[e] \in active
  PROVE  Source[e] \in executed /\ Source[e] # n
<1>1. n \in active /\ n \notin executed
  BY DEF NextNodes, Todo
<1>2. CASE sched = "dynamic"
  BY <1>1, <1>2 DEF NextNodes, CanExecute
<1>3. CASE sched # "dynamic"
  <2>1. order \in Orders(vertices, Immediate)
    BY <1>1, OrderOfTick
  <2>2. <<Source[e], n>> \in Immediate
    BY DEF Immediate, Sources
  <2>3. Precedes(order, Source[e], n)
    BY <2>1, <2>2 DEF Orders
  <2>4. Source[e] # n
    BY <2>1, <2>3, PrecedesAsymmetric
  <2>5. ASSUME Source[e] \notin executed
        PROVE  FALSE
    <3>1. Precedes(order, n, Source[e])
      BY <1>3, <2>4, <2>5 DEF NextNodes, Todo
    <3> QED BY <2>1, <2>3, <3>1, PrecedesAsymmetric
  <2> QED BY <2>4, <2>5
<1> QED BY <1>2, <1>3

(* What a step of the execution leaves, and what it changes.               *)
LEMMA ExecFrame ==
  ASSUME TypeOK, NEW n \in Nodes, ExecNode(n)
  PROVE  /\ phase = "tick" /\ phase' = "tick" /\ n \in NextNodes
         /\ n \in active /\ n \notin executed
         /\ executed' = executed \cup {n}
         /\ UNCHANGED <<active, tick, connected>>
BY DEF ExecNode, NextNodes, Todo, graphVars

(* A node starts after its sources: the order only loses nodes in a tick.  *)
LEMMA SourcesInductive ==
  ASSUME TypeOK, ExecInv, SourcesFirst, [Next]_vars
  PROVE  SourcesFirst'
<1>1. CASE UNCHANGED vars
  BY <1>1 DEF vars, graphVars, SourcesFirst, Delayed
<1>2. CASE SomeEdit
  BY <1>2 DEF SomeEdit, Connect, Disconnect, RemoveNode, AddNode, SetMute, Edit,
              SourcesFirst
<1>3. ASSUME NEW R, BeginTick(R)
      PROVE  SourcesFirst'
  BY <1>3 DEF BeginTick, SourcesFirst
<1>4. CASE DisableStrictNodes
  BY <1>4 DEF DisableStrictNodes, SourcesFirst, ExecInv
<1>5. ASSUME NEW n \in Nodes, ExecNode(n)
      PROVE  SourcesFirst'
  <2>1. ASSUME NEW e \in connected, ~Delayed(e), Target[e] \in executed',
               Source[e] \in active
        PROVE  Source[e] \in executed'
    <3>1. CASE Target[e] = n
      <4>1. e \in Sources(n)
        BY <3>1 DEF Sources
      <4> QED BY <1>5, <2>1, <4>1, ExecFrame, ReadySources
    <3>2. CASE Target[e] # n
      BY <1>5, <2>1, <3>2, ExecFrame DEF SourcesFirst
    <3> QED BY <3>1, <3>2
  <2> QED BY <1>5, <2>1, ExecFrame DEF SourcesFirst, Delayed
<1>6. CASE FinishTick
  BY <1>6 DEF FinishTick, SourcesFirst
<1> QED BY <1>1, <1>2, <1>3, <1>4, <1>5, <1>6 DEF Next, SomeEdit, Step

(* The assertion of the executors: a node runs after the enabled nodes     *)
(* that feed it, whatever the edits of the graph before the tick.          *)
THEOREM SourcesFirstHolds == Spec => []SourcesFirst
<1>1. Init => TypeOK /\ ExecInv /\ SourcesFirst
  <2>1. Init => SourcesFirst
    BY DEF Init, SourcesFirst
  <2> QED BY <2>1, BaseInit
<1>2. TypeOK /\ ExecInv /\ SourcesFirst /\ [Next]_vars
        => TypeOK' /\ ExecInv' /\ SourcesFirst'
  BY BaseInductive, SourcesInductive
<1> QED BY <1>1, <1>2, PTL DEF Spec

----------------------------------------------------------------------------
(* In a static graph there is no token between two ticks, nor for a node   *)
(* that is not in the graph.                                               *)
TokenInv ==
    sched # "dynamic" =>
        \A n \in Nodes :
            /\ tokens[n] <= 1
            /\ phase = "idle" \/ n \notin vertices => tokens[n] = 0

(* The tokens of a node, action by action.                                 *)
LEMMA TokenInductive ==
  ASSUME TypeOK, TokenInv, [Next]_vars
  PROVE  TokenInv'
<1> SUFFICES ASSUME sched # "dynamic", sched' = sched
             PROVE  TokenInv'
  <2>1. sched' = sched
    BY DEF Next, Step, vars, graphVars, Connect, Disconnect, RemoveNode, AddNode,
           SetMute, Edit, BeginTick, DisableStrictNodes, ExecNode, FinishTick
  <2> QED BY <2>1 DEF TokenInv
<1>1. CASE UNCHANGED vars
  BY <1>1 DEF vars, graphVars, TokenInv
<1>2. CASE SomeEdit
  BY <1>2 DEF SomeEdit, Connect, Disconnect, RemoveNode, AddNode, SetMute, Edit,
              TokenInv
<1>3. ASSUME NEW R \in Requests, BeginTick(R \cap vertices)
      PROVE  TokenInv'
  <2>1. phase = "idle" /\ phase' = "filter" /\ vertices' = vertices
    BY <1>3 DEF BeginTick, graphVars
  <2>2. tokens' = Requested(R \cap vertices)
    BY <1>3 DEF BeginTick
  <2>3. \A n \in Nodes : tokens[n] = 0
    BY <2>1 DEF TokenInv
  <2>4. \A n \in Nodes : tokens'[n] = IF n \in R \cap vertices THEN 1 ELSE 0
    BY <2>2, <2>3 DEF Requested
  <2> QED BY <2>1, <2>4 DEF TokenInv
<1>4. CASE DisableStrictNodes
  <2>1. /\ phase = "filter" /\ phase' # "idle" /\ UNCHANGED vertices
        /\ \A n \in Nodes : tokens'[n] = 0 \/ tokens'[n] = tokens[n]
    BY <1>4 DEF DisableStrictNodes, AfterRound, graphVars
  <2> QED BY <2>1 DEF TokenInv
<1>5. ASSUME NEW n \in Nodes, ExecNode(n)
      PROVE  TokenInv'
  BY <1>5 DEF ExecNode, graphVars, TokenInv
<1>6. CASE FinishTick
  <2>1. /\ UNCHANGED vertices
        /\ \A n \in Nodes : tokens'[n] = IF n \in vertices THEN 0 ELSE tokens[n]
    BY <1>6 DEF FinishTick, FinishNodes, graphVars
  <2> QED BY <2>1 DEF TokenInv
<1> QED BY <1>1, <1>2, <1>3, <1>4, <1>5, <1>6 DEF Next, SomeEdit, Step

(* finish_nodes forgets every token that a tick did not use: a static      *)
(* graph never runs the tokens of an earlier tick.                         *)
THEOREM NoBacklogHolds == Spec => []NoBacklog
<1>1. Init => TypeOK /\ ExecInv /\ TokenInv
  <2>1. Init => TokenInv
    BY DEF Init, TokenInv
  <2> QED BY <2>1, BaseInit
<1>2. TypeOK /\ ExecInv /\ TokenInv /\ [Next]_vars => TypeOK' /\ ExecInv' /\ TokenInv'
  BY BaseInductive, TokenInductive
<1>3. TypeOK /\ TokenInv => NoBacklog
  BY DEF TypeOK, TokenInv, NoBacklog
<1> QED BY <1>1, <1>2, <1>3, PTL DEF Spec

----------------------------------------------------------------------------
(* A node that has run in this tick left the value of this tick in its     *)
(* outlet, but if its only cable moved it.                                 *)
OutletInv ==
    phase = "tick" =>
        \A m \in executed :
            \/ outlet[m] = {<<m, tick>>}
            \/ outlet[m] = {} /\ \E e \in Targets(m) : /\ Targets(m) = {e}
                                                     /\ Target[e] \in executed

(* What the outlets hold, action by action.                                *)
LEMMA OutletInductive ==
  ASSUME TypeOK, ExecInv, OutletInv, [Next]_vars
  PROVE  OutletInv'
<1>1. CASE UNCHANGED vars
  BY <1>1 DEF vars, graphVars, dataVars, OutletInv, Targets
<1>2. CASE SomeEdit
  BY <1>2 DEF SomeEdit, Connect, Disconnect, RemoveNode, AddNode, SetMute, Edit,
              OutletInv
<1>3. ASSUME NEW R, BeginTick(R)
      PROVE  OutletInv'
  BY <1>3 DEF BeginTick, OutletInv
<1>4. CASE DisableStrictNodes
  BY <1>4 DEF DisableStrictNodes, OutletInv, ExecInv
<1>5. ASSUME NEW n \in Nodes, ExecNode(n)
      PROVE  OutletInv'
  <2>1. \A m \in Nodes :
          outlet'[m] = IF m = n THEN {<<n, tick>>}
                       ELSE IF \E e \in Sources(n) \cap Targets(m) : Moves(e) THEN {}
                       ELSE outlet[m]
    BY <1>5 DEF ExecNode
  <2>2. \A m : Targets(m)' = Targets(m)
    BY <1>5, ExecFrame DEF Targets
  <2>3. ASSUME NEW m \in executed', m # n
        PROVE  \/ outlet'[m] = {<<m, tick>>}
               \/ /\ outlet'[m] = {}
                  /\ \E e \in Targets(m) : Targets(m) = {e} /\ Target[e] \in executed'
    <3>1. m \in executed /\ m \in Nodes /\ phase = "tick" /\ executed \subseteq executed'
      BY <1>5, <2>3, ExecFrame DEF TypeOK
    <3>2. CASE \E e \in Sources(n) \cap Targets(m) : Moves(e)
      <4>1. PICK e \in Sources(n) \cap Targets(m) : Moves(e)
        BY <3>2
      <4>2. Targets(m) = {e} /\ Target[e] = n
        BY <4>1 DEF Moves, Sources, Targets
      <4> QED BY <1>5, <2>1, <2>3, <3>1, <3>2, <4>1, <4>2, ExecFrame
    <3>3. CASE ~\E e \in Sources(n) \cap Targets(m) : Moves(e)
      BY <2>1, <2>3, <3>1, <3>3 DEF OutletInv
    <3> QED BY <3>2, <3>3
  <2>4. outlet'[n] = {<<n, tick>>}
    BY <2>1
  <2> QED BY <1>5, <2>2, <2>3, <2>4, ExecFrame DEF OutletInv
<1>6. CASE FinishTick
  BY <1>6 DEF FinishTick, OutletInv
<1> QED BY <1>1, <1>2, <1>3, <1>4, <1>5, <1>6 DEF Next, SomeEdit, Step

(* An edge is not an address: what comes from the cable e has its mark.    *)
LEMMA CableInputs ==
  ASSUME NEW n \in Nodes, NEW e \in Sources(n), connected \subseteq Edges, NEW v
  PROVE  <<e, v>> \in Inputs(n) <=> v \in FromCable(e)
<1>1. (e \in Edges /\ e # Reads[n]) \/ Pulled(n) = {}
  BY DataflowAssumption DEF Sources, Pulled
<1> QED BY <1>1 DEF Inputs

(* What comes through a cable was written in this tick.                    *)
LEMMA FreshInductive ==
  ASSUME TypeOK, ExecInv, FilterInv, OutletInv, FreshCables, [Next]_vars
  PROVE  FreshCables'
<1> USE DEF FreshCables, Fresh
<1>1. CASE UNCHANGED vars
  BY <1>1 DEF vars, graphVars, dataVars, Value
<1>2. CASE SomeEdit
  BY <1>2 DEF SomeEdit, Connect, Disconnect, RemoveNode, AddNode, SetMute, Edit
<1>3. ASSUME NEW R, BeginTick(R)
      PROVE  FreshCables'
  BY <1>3 DEF BeginTick
<1>4. CASE DisableStrictNodes
  BY <1>4 DEF DisableStrictNodes, ExecInv
<1>5. ASSUME NEW n \in Nodes, ExecNode(n)
      PROVE  FreshCables'
  <2>1. ASSUME NEW e \in connected, Kind[e] \in {"glutton", "strict"},
               Target[e] \in executed', NEW v \in Value, <<e, v>> \in read'[Target[e]]
        PROVE  v = <<Source[e], tick>>
    <3>1. \A m \in Nodes : read'[m] = IF m = n THEN Inputs(n) ELSE read[m]
      BY <1>5 DEF ExecNode, TypeOK
    <3>2. e \in Edges /\ Target[e] \in Nodes
      BY DataflowAssumption DEF TypeOK
    <3>3. CASE Target[e] # n
      BY <1>5, <2>1, <3>1, <3>2, <3>3, ExecFrame
    <3>4. CASE Target[e] = n
      <4>1. e \in Sources(n) /\ v \in FromCable(e)
        BY <2>1, <3>1, <3>2, <3>4, CableInputs DEF Sources, TypeOK
      <4>2. Source[e] \in active /\ v \in outlet[Source[e]] /\ ~Delayed(e)
        <5>1. CASE Kind[e] = "glutton"
          BY <4>1, <5>1 DEF FromCable, Delayed
        <5>2. CASE Kind[e] = "strict"
          <6>1. Source[e] \in active
            BY <1>5, <3>4, <5>2, ExecFrame DEF FilterInv, LargestEnabled, MayRunTogether
          <6> QED BY <4>1, <5>2, <6>1 DEF FromCable, Delayed
        <5> QED BY <2>1, <5>1, <5>2
      <4>3. Source[e] \in executed
        BY <1>5, <4>1, <4>2, ExecFrame, ReadySources
      <4> QED BY <1>5, <4>2, <4>3, ExecFrame DEF OutletInv
    <3> QED BY <3>3, <3>4
  <2>2. Value' = Value
    BY DEF Value
  <2> QED BY <1>5, <2>1, <2>2, ExecFrame
<1>6. CASE FinishTick
  BY <1>6 DEF FinishTick
<1> QED BY <1>1, <1>2, <1>3, <1>4, <1>5, <1>6 DEF Next, SomeEdit, Step

(* What comes through a glutton or strict cable was written in this tick:  *)
(* a node never reads what a port kept from an earlier one.                *)
THEOREM FreshCablesHold == Spec => []FreshCables
<1> DEFINE Inv == TypeOK /\ ExecInv /\ FilterInv /\ OutletInv /\ FreshCables
<1>1. Init => Inv
  <2>1. Init => FilterInv /\ OutletInv /\ FreshCables
    BY DEF Init, FilterInv, LargestEnabled, OutletInv, FreshCables, Fresh
  <2> QED BY <2>1, BaseInit
<1>2. Inv /\ [Next]_vars => Inv'
  BY BaseInductive, FilterInductive, OutletInductive, FreshInductive
<1>3. Inv => FreshCables
  OBVIOUS
<1> QED BY <1>1, <1>2, <1>3, PTL DEF Spec

----------------------------------------------------------------------------
(* Every element of a delay line holds something, and the lines of the     *)
(* enabled nodes that wait for one still have an element to read.          *)
DelayInv ==
    /\ \A e \in Edges : \A i \in DOMAIN buffer[e] : buffer[e][i] # {}
    /\ phase = "tick" =>
          \A e \in connected :
              Kind[e] = "delayed_strict" /\ Target[e] \in active \ executed =>
                  pos[e] < Len(buffer[e])

(* The places of the delay lines, action by action.                        *)
LEMMA DelayInductive ==
  ASSUME TypeOK, ExecInv, FilterInv, DelayInv, [Next]_vars
  PROVE  DelayInv'
<1>1. CASE UNCHANGED vars
  BY <1>1 DEF vars, graphVars, dataVars, DelayInv
<1>2. CASE SomeEdit
  <2>1. phase' = "idle"
    BY <1>2 DEF SomeEdit, Connect, Disconnect, RemoveNode, AddNode, SetMute, Edit
  <2>2. \A e \in Edges : buffer'[e] = buffer[e] \/ buffer'[e] = <<>>
    BY <1>2 DEF SomeEdit, Connect, Disconnect, RemoveNode, AddNode, SetMute, TypeOK
  <2> QED BY <2>1, <2>2 DEF DelayInv
<1>3. ASSUME NEW R, BeginTick(R)
      PROVE  DelayInv'
  BY <1>3 DEF BeginTick, dataVars, DelayInv
<1>4. CASE DisableStrictNodes
  <2>1. /\ phase = "filter" /\ active' = active \ StrictLosers(active)
        /\ phase' = IF StrictLosers(active) = {} THEN "tick" ELSE "filter"
        /\ UNCHANGED <<connected, buffer, pos>>
    BY <1>4 DEF DisableStrictNodes, AfterRound, graphVars, dataVars
  <2>2. ASSUME phase' = "tick", NEW e \in connected, Kind[e] = "delayed_strict",
               Target[e] \in active'
        PROVE  pos[e] < Len(buffer[e])
    <3>1. ~Starving(e)
      BY <2>1, <2>2 DEF StrictLosers, Sources
    <3>2. pos[e] \in Nat /\ Len(buffer[e]) \in Nat
      BY DEF TypeOK
    <3> QED BY <2>2, <3>1, <3>2 DEF Starving
  <2> QED BY <2>1, <2>2 DEF DelayInv
<1>5. ASSUME NEW n \in Nodes, ExecNode(n)
      PROVE  DelayInv'
  <2> DEFINE v == {<<n, tick>>}
  <2>1. v # {}
    OBVIOUS
  <2> HIDE DEF v
  <2>2. /\ \A e \in Edges : buffer'[e] = buffer[e] \/ buffer'[e] = Append(buffer[e], v)
        /\ \A e \in Edges : pos'[e] = pos[e] \/ Target[e] = n
    BY <1>5 DEF ExecNode, Sources, v
  <2>3. ASSUME NEW e \in Edges
        PROVE  /\ \A i \in DOMAIN buffer'[e] : buffer'[e][i] # {}
               /\ Len(buffer[e]) <= Len(buffer'[e])
    <3>1. buffer[e] \in Seq(SUBSET Value)
      BY DEF TypeOK
    <3>2. CASE buffer'[e] = buffer[e]
      BY <3>1, <3>2 DEF DelayInv
    <3>3. CASE buffer'[e] = Append(buffer[e], v)
      <4>1. /\ Len(buffer'[e]) = Len(buffer[e]) + 1
            /\ \A i \in DOMAIN buffer'[e] :
                  buffer'[e][i] = IF i <= Len(buffer[e]) THEN buffer[e][i] ELSE v
        BY <3>1, <3>3
      <4>2. \A i \in DOMAIN buffer'[e] : i <= Len(buffer[e]) => i \in DOMAIN buffer[e]
        BY <3>1, <3>3
      <4> QED BY <2>1, <3>1, <4>1, <4>2 DEF DelayInv
    <3>4. buffer'[e] = buffer[e] \/ buffer'[e] = Append(buffer[e], v)
      BY <2>2
    <3> QED BY <3>2, <3>3, <3>4
  <2>4. ASSUME NEW e \in connected, Kind[e] = "delayed_strict",
               Target[e] \in active \ executed'
        PROVE  pos'[e] < Len(buffer'[e])
    <3>1. e \in Edges /\ Target[e] # n
      BY <1>5, <2>4, ExecFrame DEF TypeOK
    <3>2. pos'[e] = pos[e] /\ pos[e] < Len(buffer[e])
      BY <1>5, <2>2, <2>4, <3>1, ExecFrame DEF DelayInv
    <3>3. pos[e] \in Nat /\ Len(buffer[e]) \in Nat /\ Len(buffer'[e]) \in Nat
      <4>1. TypeOK'
        BY <1>5, StepType DEF Step
      <4> QED BY <3>1, <4>1 DEF TypeOK
    <3> QED BY <2>3, <3>1, <3>2, <3>3
  <2> QED BY <1>5, <2>3, <2>4, ExecFrame DEF DelayInv
<1>6. CASE FinishTick
  BY <1>6 DEF FinishTick, DelayInv
<1> QED BY <1>1, <1>2, <1>3, <1>4, <1>5, <1>6 DEF Next, SomeEdit, Step

(* A strict delay line has a value for the node that reads it.             *)
LEMMA DelayFedInductive ==
  ASSUME TypeOK, ExecInv, DelayInv, StrictDelayFed, [Next]_vars
  PROVE  StrictDelayFed'
<1> USE DEF StrictDelayFed
<1>1. CASE UNCHANGED vars
  BY <1>1 DEF vars, graphVars, dataVars, Value
<1>2. CASE SomeEdit
  BY <1>2 DEF SomeEdit, Connect, Disconnect, RemoveNode, AddNode, SetMute, Edit
<1>3. ASSUME NEW R, BeginTick(R)
      PROVE  StrictDelayFed'
  BY <1>3 DEF BeginTick
<1>4. CASE DisableStrictNodes
  BY <1>4 DEF DisableStrictNodes, ExecInv
<1>5. ASSUME NEW n \in Nodes, ExecNode(n)
      PROVE  StrictDelayFed'
  <2>1. ASSUME NEW e \in connected, Kind[e] = "delayed_strict", Target[e] \in executed'
        PROVE  \E v \in Value : <<e, v>> \in read'[Target[e]]
    <3>1. \A m \in Nodes : read'[m] = IF m = n THEN Inputs(n) ELSE read[m]
      BY <1>5 DEF ExecNode, TypeOK
    <3>2. e \in Edges /\ Target[e] \in Nodes
      BY DataflowAssumption DEF TypeOK
    <3>3. CASE Target[e] # n
      BY <1>5, <2>1, <3>1, <3>2, <3>3, ExecFrame
    <3>4. CASE Target[e] = n
      <4>1. e \in Sources(n)
        BY <3>4 DEF Sources
      <4>2. pos[e] < Len(buffer[e])
        BY <1>5, <2>1, <3>4, ExecFrame DEF DelayInv
      <4>3. FromCable(e) = buffer[e][pos[e] + 1]
        BY <2>1, <4>2 DEF FromCable, FromLine
      <4>4. /\ pos[e] + 1 \in DOMAIN buffer[e]
            /\ buffer[e][pos[e] + 1] \in SUBSET Value
        BY <3>2, <4>2 DEF TypeOK
      <4>5. FromCable(e) # {} /\ FromCable(e) \subseteq Value
        BY <3>2, <4>3, <4>4 DEF DelayInv
      <4>6. PICK v \in Value : v \in FromCable(e)
        BY <4>5
      <4>7. <<e, v>> \in Inputs(n)
        <5>1. connected \subseteq Edges
          BY DEF TypeOK
        <5> QED BY <4>1, <4>6, <5>1, CableInputs
      <4> QED BY <3>1, <3>2, <3>4, <4>6, <4>7
    <3> QED BY <3>3, <3>4
  <2>2. Value' = Value
    BY DEF Value
  <2> QED BY <1>5, <2>1, <2>2, ExecFrame
<1>6. CASE FinishTick
  BY <1>6 DEF FinishTick
<1> QED BY <1>1, <1>2, <1>3, <1>4, <1>5, <1>6 DEF Next, SomeEdit, Step

(* A node that waits for a strict delayed cable runs only when that cable  *)
(* has a value for it: the filter, before the tick, judges rightly what    *)
(* the node finds when its turn comes.                                     *)
THEOREM StrictDelayFedHolds == Spec => []StrictDelayFed
<1> DEFINE Inv == TypeOK /\ ExecInv /\ FilterInv /\ DelayInv /\ StrictDelayFed
<1>1. Init => Inv
  <2>1. Init => FilterInv /\ DelayInv /\ StrictDelayFed
    BY DEF Init, FilterInv, LargestEnabled, DelayInv, StrictDelayFed
  <2> QED BY <2>1, BaseInit
<1>2. Inv /\ [Next]_vars => Inv'
  BY BaseInductive, FilterInductive, DelayInductive, DelayFedInductive
<1>3. Inv => StrictDelayFed
  OBVIOUS
<1> QED BY <1>1, <1>2, <1>3, PTL DEF Spec

----------------------------------------------------------------------------
(* What a node writes reaches all of its immediate targets.                *)
LEMMA GluttonInductive ==
  ASSUME TypeOK, ExecInv, SourcesFirst, OutletInv, GluttonDelivered, [Next]_vars
  PROVE  GluttonDelivered'
<1> USE DEF GluttonDelivered
<1>1. CASE UNCHANGED vars
  BY <1>1 DEF vars, graphVars, dataVars
<1>2. CASE SomeEdit
  BY <1>2 DEF SomeEdit, Connect, Disconnect, RemoveNode, AddNode, SetMute, Edit
<1>3. ASSUME NEW R, BeginTick(R)
      PROVE  GluttonDelivered'
  BY <1>3 DEF BeginTick
<1>4. CASE DisableStrictNodes
  BY <1>4 DEF DisableStrictNodes, ExecInv
<1>5. ASSUME NEW n \in Nodes, ExecNode(n)
      PROVE  GluttonDelivered'
  <2>1. ASSUME NEW e \in connected, Kind[e] = "glutton", Source[e] \in executed',
               Target[e] \in active, Target[e] \in executed'
        PROVE  <<e, <<Source[e], tick>>>> \in read'[Target[e]]
    <3>1. \A m \in Nodes : read'[m] = IF m = n THEN Inputs(n) ELSE read[m]
      BY <1>5 DEF ExecNode, TypeOK
    <3>2. /\ e \in Edges /\ Source[e] \in Nodes /\ Target[e] \in Nodes
          /\ Source[e] \in active /\ ~Delayed(e) /\ connected \subseteq Edges
      <4>1. e \in Edges /\ connected \subseteq Edges /\ ~Delayed(e)
        BY <2>1 DEF TypeOK, Delayed
      <4>2. Source[e] \in Nodes /\ Target[e] \in Nodes
        BY <4>1, DataflowAssumption
      <4>3. executed' \subseteq active
        BY <1>5, ExecFrame DEF TypeOK
      <4> QED BY <2>1, <4>1, <4>2, <4>3
    <3>3. CASE Target[e] = n
      <4>1. e \in Sources(n) /\ e \in Targets(Source[e])
        BY <3>3 DEF Sources, Targets
      <4>2. Source[e] \in executed
        BY <1>5, <3>2, <4>1, ExecFrame, ReadySources
      <4>3. outlet[Source[e]] = {<<Source[e], tick>>}
        <5>1. ~\E f \in Targets(Source[e]) : /\ Targets(Source[e]) = {f}
                                            /\ Target[f] \in executed
          BY <1>5, <3>3, <4>1, ExecFrame
        <5> QED BY <1>5, <4>2, <5>1, ExecFrame DEF OutletInv
      <4>4. <<Source[e], tick>> \in FromCable(e)
        BY <2>1, <3>2, <4>3 DEF FromCable
      <4>5. <<e, <<Source[e], tick>>>> \in Inputs(n)
        BY <3>2, <4>1, <4>4, CableInputs
      <4> QED BY <3>1, <3>2, <3>3, <4>5
    <3>4. CASE Target[e] # n
      <4>1. Target[e] \in executed
        BY <1>5, <2>1, <3>4, ExecFrame
      <4>2. Source[e] \in executed
        BY <1>5, <3>2, <4>1, ExecFrame DEF SourcesFirst
      <4> QED BY <1>5, <2>1, <3>1, <3>2, <3>4, <4>1, <4>2, ExecFrame
    <3> QED BY <3>3, <3>4
  <2>2. ASSUME NEW e \in connected, Kind[e] = "glutton", Source[e] \in executed',
               Target[e] \notin active, Writes[Source[e]] # None
        PROVE  \E i \in DOMAIN local'[Writes[Source[e]]] :
                  local'[Writes[Source[e]]][i] = <<Source[e], tick>>
    <3> DEFINE a == Writes[Source[e]]
               v == <<n, tick>>
    <3>1. e \in Edges /\ Source[e] \in Nodes /\ a \in Addresses
      BY <2>2, DataflowAssumption DEF TypeOK
    <3>2. local[a] \in Seq(Value) /\ v \in Value
      BY <3>1 DEF TypeOK, Value
    <3>3. local'[a] = IF a = Writes[n] /\ MustWrite(n) THEN Append(local[a], v)
                      ELSE local[a]
      BY <1>5, <3>1 DEF ExecNode
    <3>4. Source[e] = n => MustWrite(n)
      BY <2>2 DEF MustWrite, Targets
    <3> HIDE DEF v
    <3>5. /\ Len(Append(local[a], v)) = Len(local[a]) + 1
          /\ Append(local[a], v)[Len(local[a]) + 1] = v
          /\ \A i \in DOMAIN local[a] : Append(local[a], v)[i] = local[a][i]
          /\ DOMAIN local[a] \subseteq DOMAIN Append(local[a], v)
          /\ Len(local[a]) + 1 \in DOMAIN Append(local[a], v)
      BY <3>2
    <3>6. CASE Source[e] = n
      <4>1. local'[a] = Append(local[a], v)
        BY <3>3, <3>4, <3>6
      <4>2. v = <<Source[e], tick>>
        BY <3>6 DEF v
      <4> QED BY <3>5, <4>1, <4>2
    <3>7. CASE Source[e] # n
      <4>1. PICK i \in DOMAIN local[a] : local[a][i] = <<Source[e], tick>>
        BY <1>5, <2>2, <3>7, ExecFrame
      <4>2. local'[a] = local[a] \/ local'[a] = Append(local[a], v)
        BY <3>3
      <4> QED BY <3>5, <4>1, <4>2
    <3> QED BY <3>6, <3>7
  <2> QED BY <1>5, <2>1, <2>2, ExecFrame
<1>6. CASE FinishTick
  BY <1>6 DEF FinishTick
<1> QED BY <1>1, <1>2, <1>3, <1>4, <1>5, <1>6 DEF Next, SomeEdit, Step

(* A glutton cable loses nothing: its value goes through the cable or the  *)
(* address, by whether the other node is enabled.                          *)
THEOREM GluttonDeliveredHolds == Spec => []GluttonDelivered
<1> DEFINE Inv == TypeOK /\ ExecInv /\ SourcesFirst /\ OutletInv /\ GluttonDelivered
<1>1. Init => Inv
  <2>1. Init => SourcesFirst /\ OutletInv /\ GluttonDelivered
    BY DEF Init, SourcesFirst, OutletInv, GluttonDelivered
  <2> QED BY <2>1, BaseInit
<1>2. Inv /\ [Next]_vars => Inv'
  BY BaseInductive, SourcesInductive, OutletInductive, GluttonInductive
<1>3. Inv => GluttonDelivered
  OBVIOUS
<1> QED BY <1>1, <1>2, <1>3, PTL DEF Spec

----------------------------------------------------------------------------
(* Of some nodes of a tick, one is before all the others in the order.     *)
LEMMA LeastNode ==
  ASSUME TypeOK, ExecInv, phase = "tick", NEW S \in SUBSET active, S # {}
  PROVE  \E n \in S : \A m \in S \ {n} : Precedes(order, n, m)
<1> DEFINE N == Cardinality(vertices)
           T == {i \in 1..N : order[i] \in S}
<1>1. /\ order \in Orders(vertices, Immediate)
      /\ \A n \in active : \E i \in DOMAIN order : order[i] = n
  BY OrderOfTick
<1>2. N \in Nat /\ DOMAIN order = 1..N
  <2>1. IsFiniteSet(vertices)
    BY DataflowAssumption, FS_Subset DEF TypeOK
  <2> QED BY <1>1, <2>1, FS_CardinalityType DEF Orders
<1>3. T \in SUBSET (1..N) /\ T # {}
  BY <1>1, <1>2
<1>4. PICK i \in T : \A j \in T : i <= j
  <2> HIDE DEF T, N
  <2> QED BY <1>2, <1>3, LeastIndex
<1>5. ASSUME NEW m \in S \ {order[i]}
      PROVE  Precedes(order, order[i], m)
  <2>1. PICK j \in DOMAIN order : order[j] = m
    BY <1>1
  <2>2. i \in DOMAIN order /\ i < j
    BY <1>2, <1>4, <1>5, <2>1
  <2> QED BY <2>1, <2>2 DEF Precedes
<1> QED BY <1>4, <1>5

(* The sort of the graph left no cycle: a node that is left can run.       *)
LEMMA SomeNodeReady ==
  ASSUME TypeOK, ExecInv, phase = "tick", Todo # {}
  PROVE  \E n \in Todo : CanExecute(n)
<1>1. PICK n \in Todo : \A m \in Todo \ {n} : Precedes(order, n, m)
  BY LeastNode DEF Todo
<1>2. order \in Orders(vertices, Immediate)
  BY <1>1, OrderOfTick DEF Todo
<1>3. ASSUME NEW e \in Sources(n), ~Delayed(e), Source[e] \in Todo
      PROVE  FALSE
  <2>1. <<Source[e], n>> \in Immediate
    BY <1>3 DEF Immediate, Sources
  <2>2. Precedes(order, Source[e], n)
    BY <1>2, <2>1 DEF Orders
  <2>3. Precedes(order, n, Source[e])
    BY <1>1, <1>3, <2>2
  <2> QED BY <1>2, <2>2, <2>3, PrecedesAsymmetric
<1> QED BY <1>3 DEF CanExecute, Todo

(* The loop of a tick finds a node as long as one is left.                 *)
LEMMA NextExists ==
  ASSUME TypeOK, ExecInv, phase = "tick", Todo # {}
  PROVE  NextNodes # {}
<1>1. CASE sched # "dynamic"
  BY <1>1, LeastNode DEF NextNodes, Todo
<1>2. CASE sched = "dynamic"
  <2> DEFINE ready == {n \in Todo : CanExecute(n)}
             InClass(c) == {n \in ready : Class(n) = c}
  <2>1. ready # {} /\ ready \subseteq active
    BY SomeNodeReady DEF Todo
  <2>2. \A n \in ready : Class(n) \in {0, 1, 2}
    BY DEF Class
  <2>3. PICK c \in {0, 1, 2} :
          InClass(c) # {} /\ \A d \in {0, 1, 2} : d < c => InClass(d) = {}
    <3>1. CASE InClass(0) # {}
      BY <3>1
    <3>2. CASE InClass(0) = {} /\ InClass(1) # {}
      BY <3>2
    <3>3. CASE InClass(0) = {} /\ InClass(1) = {}
      <4>1. InClass(2) # {}
        BY <2>1, <2>2, <3>3
      <4> QED BY <3>3, <4>1
    <3> QED BY <3>1, <3>2, <3>3
  <2>4. PICK n \in InClass(c) : \A m \in InClass(c) \ {n} : Precedes(order, n, m)
    BY <2>1, <2>3, LeastNode
  <2>5. ASSUME NEW m \in ready \ {n}
        PROVE  SortsBefore(n, m)
    <3>1. Class(n) = c /\ Class(m) \in {0, 1, 2} /\ ~(Class(m) < c)
      BY <2>2, <2>3, <2>4, <2>5
    <3>2. CASE Class(m) = c
      BY <2>4, <2>5, <3>1, <3>2 DEF SortsBefore
    <3>3. CASE Class(m) # c
      <4>1. Class(n) < Class(m)
        BY <3>1, <3>3
      <4> QED BY <4>1 DEF SortsBefore
    <3> QED BY <3>2, <3>3
  <2>6. n \in {k \in ready : \A m \in ready \ {k} : SortsBefore(k, m)}
    BY <2>4, <2>5
  <2> QED BY <1>2, <2>6 DEF NextNodes
<1> QED BY <1>1, <1>2

(* A tick ends when every enabled node has run, never because the loop     *)
(* found none of them that can run.                                        *)
THEOREM EveryoneRunsHolds == Spec => EveryoneRuns
<1>1. TypeOK /\ ExecInv /\ [Next]_vars
        => [phase = "tick" /\ phase' = "idle" => executed = active]_vars
  <2> SUFFICES ASSUME TypeOK, ExecInv, Next, phase = "tick", phase' = "idle"
               PROVE  executed = active
    OBVIOUS
  <2>1. FinishTick
    BY DEF Next, Step, Connect, Disconnect, RemoveNode, AddNode, SetMute, Edit,
           BeginTick, DisableStrictNodes, ExecNode
  <2>2. Todo = {}
    BY <2>1, NextExists DEF FinishTick
  <2> QED BY <2>2 DEF Todo, TypeOK
<1>2. Init => TypeOK /\ ExecInv
  BY BaseInit
<1>3. TypeOK /\ ExecInv /\ [Next]_vars => TypeOK' /\ ExecInv'
  BY BaseInductive
<1> QED BY <1>1, <1>2, <1>3, PTL DEF Spec, EveryoneRuns

----------------------------------------------------------------------------
(* The rest of a delay line, after something is written to it or read.     *)
Rest(b, p) == SubSeq(b, p + 1, Len(b))

(* Writing adds to the end of the rest, reading takes from its front.      *)
LEMMA RestProperties ==
  ASSUME NEW S, NEW b \in Seq(S), NEW p \in Nat, p <= Len(b), NEW v \in S
  PROVE  /\ Rest(b, p) \in Seq(S) /\ Len(Rest(b, p)) = Len(b) - p
         /\ Rest(Append(b, v), p) = Append(Rest(b, p), v)
         /\ p < Len(b) => /\ Head(Rest(b, p)) = b[p + 1]
                          /\ Rest(b, p + 1) = Tail(Rest(b, p))
<1>1. /\ Rest(b, p) \in Seq(S) /\ Len(Rest(b, p)) = Len(b) - p
      /\ \A i \in 1..(Len(b) - p) : Rest(b, p)[i] = b[p + i]
  BY DEF Rest
<1>2. /\ Append(b, v) \in Seq(S) /\ Len(Append(b, v)) = Len(b) + 1
      /\ \A i \in 1..Len(b) : Append(b, v)[i] = b[i]
      /\ Append(b, v)[Len(b) + 1] = v
  OBVIOUS
<1>3. Rest(Append(b, v), p) = Append(Rest(b, p), v)
  <2> DEFINE c == Append(b, v)
  <2>1. c \in Seq(S) /\ Len(c) = Len(b) + 1
    BY <1>2
  <2> HIDE DEF c
  <2>2. /\ Rest(c, p) \in Seq(S) /\ Len(Rest(c, p)) = Len(b) + 1 - p
        /\ \A i \in 1..(Len(b) + 1 - p) : Rest(c, p)[i] = c[p + i]
    BY <2>1 DEF Rest
  <2> DEFINE d == Rest(b, p)
  <2>3. /\ Append(d, v) \in Seq(S) /\ Len(Append(d, v)) = Len(b) + 1 - p
        /\ \A i \in 1..(Len(b) - p) : Append(d, v)[i] = d[i]
        /\ Append(d, v)[Len(b) - p + 1] = v
    <3> HIDE DEF d
    <3>1. d \in Seq(S) /\ Len(d) = Len(b) - p
      BY <1>1 DEF d
    <3> QED BY <3>1
  <2>4. ASSUME NEW i \in 1..(Len(b) + 1 - p)
        PROVE  Rest(c, p)[i] = Append(d, v)[i]
    <3>1. CASE i = Len(b) + 1 - p
      <4>1. Rest(c, p)[i] = c[Len(b) + 1]
        BY <2>2, <3>1
      <4>2. c[Len(b) + 1] = v
        BY <1>2 DEF c
      <4>3. Append(d, v)[i] = v
        BY <2>3, <3>1
      <4> QED BY <4>1, <4>2, <4>3
    <3>2. CASE i # Len(b) + 1 - p
      <4>1. i \in 1..(Len(b) - p) /\ p + i \in 1..Len(b)
        BY <3>2
      <4> QED BY <1>1, <1>2, <2>2, <2>3, <4>1 DEF c, d
    <3> QED BY <3>1, <3>2
  <2> HIDE DEF d
  <2> QED BY <2>2, <2>3, <2>4, SeqEqual DEF c, d
<1>4. ASSUME p < Len(b)
      PROVE  Head(Rest(b, p)) = b[p + 1] /\ Rest(b, p + 1) = Tail(Rest(b, p))
  <2>1. /\ Rest(b, p + 1) \in Seq(S) /\ Len(Rest(b, p + 1)) = Len(b) - p - 1
        /\ \A i \in 1..(Len(b) - p - 1) : Rest(b, p + 1)[i] = b[p + 1 + i]
    BY <1>4 DEF Rest
  <2> DEFINE d == Rest(b, p)
  <2>2. /\ Tail(d) \in Seq(S) /\ Len(Tail(d)) = Len(b) - p - 1
        /\ \A i \in 1..(Len(b) - p - 1) : Tail(d)[i] = d[i + 1]
        /\ Head(d) = d[1]
    <3> HIDE DEF d
    <3>1. d \in Seq(S) /\ Len(d) = Len(b) - p /\ Len(d) > 0
      BY <1>1, <1>4 DEF d
    <3> QED BY <3>1
  <2>3. \A i \in 1..(Len(b) - p - 1) : d[i + 1] = b[p + 1 + i]
    BY <1>1, <1>4
  <2>4. d[1] = b[p + 1]
    BY <1>1, <1>4
  <2> HIDE DEF d
  <2>5. Rest(b, p + 1) = Tail(d)
    BY <2>1, <2>2, <2>3, SeqEqual
  <2> QED BY <2>2, <2>4, <2>5 DEF d
<1> QED BY <1>1, <1>3, <1>4

(* The state of the abstract queues.                                       *)
DLines == {e \in Edges : Delayed(e)}
Pending(e) == IF e \in connected THEN Rest(buffer[e], pos[e]) ELSE <<>>
Given(e) == IF e \in connected
            THEN {r[2] : r \in {x \in read[Target[e]] : x[1] = e}} ELSE {}
(* Lines!Change for the queue of e.                                        *)
Changed(e) ==
    \/ \E v \in {Pending(e)'[i] : i \in DOMAIN Pending(e)'} :
          Pending(e)' = Append(Pending(e), v) /\ Given(e)' = Given(e)
    \/ /\ Pending(e) # <<>> /\ Given(e)' = Head(Pending(e))
       /\ \/ Pending(e)' = Tail(Pending(e))
          \/ Len(Pending(e)') = Len(Pending(e))
             /\ SubSeq(Pending(e)', 1, Len(Pending(e)) - 1) = Tail(Pending(e))
    \/ Pending(e) = <<>> /\ Len(Pending(e)') <= 1 /\ Given(e)' = {}
    \/ Pending(e)' = <<>> /\ Given(e)' = {}
    \/ Pending(e)' = Pending(e) /\ Given(e)' = Given(e)

(* What the run of a node does to a delay line.                            *)
LEMMA ExecChanges ==
  ASSUME TypeOK, NEW n \in Nodes, ExecNode(n), NEW e \in connected, Delayed(e)
  PROVE  Changed(e)
<1> DEFINE b == buffer[e]
           p == pos[e]
           v == {<<n, tick>>}
<1>1. /\ e \in Edges /\ e \in connected' /\ n \in Nodes /\ Target[e] \in Nodes
      /\ buffer[e] \in Seq(SUBSET Value) /\ pos[e] \in Nat /\ pos[e] <= Len(buffer[e])
      /\ v \in SUBSET Value
  <2>1. e \in Edges /\ e \in connected'
    BY ExecFrame DEF TypeOK
  <2>2. Target[e] \in Nodes
    BY <2>1, DataflowAssumption
  <2>3. buffer[e] \in Seq(SUBSET Value) /\ pos[e] \in Nat /\ pos[e] <= Len(buffer[e])
    BY <2>1 DEF TypeOK
  <2>4. v \in SUBSET Value
    BY DEF TypeOK, Value
  <2> QED BY <2>1, <2>2, <2>3, <2>4
<1>2. /\ buffer'[e] = IF e \in Targets(n) THEN Append(b, v) ELSE b
      /\ pos'[e] = IF e \in Sources(n) /\ p < Len(b) THEN p + 1 ELSE p
      /\ read'[Target[e]] = IF Target[e] = n THEN Inputs(n) ELSE read[Target[e]]
  BY <1>1 DEF ExecNode, Advanced, TypeOK
<1>3. Pending(e) = Rest(b, p) /\ Pending(e)' = Rest(buffer'[e], pos'[e])
  BY <1>1 DEF Pending, Rest
<1>4. e \in Sources(n) => Given(e)' = IF p < Len(b) THEN b[p + 1] ELSE {}
  <2> SUFFICES ASSUME e \in Sources(n)
               PROVE  Given(e)' = FromCable(e)
    BY DEF FromCable, FromLine, Delayed
  <2>1. read'[Target[e]] = Inputs(n) /\ Target'[e] = Target[e]
    BY <1>2 DEF Sources
  <2>2. Given(e)' = {r[2] : r \in {x \in Inputs(n) : x[1] = e}}
    BY <1>1, <2>1 DEF Given
  <2>3. connected \subseteq Edges
    BY DEF TypeOK
  <2>4. \A w : <<e, w>> \in Inputs(n) <=> w \in FromCable(e)
    BY <2>3, CableInputs
  <2>5. \A x \in Inputs(n) : x = <<x[1], x[2]>>
    BY DEF Inputs
  <2>6. ASSUME NEW w \in FromCable(e)
        PROVE  w \in Given(e)'
    <3>1. <<e, w>> \in {x \in Inputs(n) : x[1] = e} /\ <<e, w>>[2] = w
      BY <2>4
    <3> QED BY <2>2, <3>1
  <2>7. ASSUME NEW r \in Inputs(n), r[1] = e
        PROVE  r[2] \in FromCable(e)
    BY <2>4, <2>5, <2>7
  <2> QED BY <2>2, <2>6, <2>7
<1>5. e \notin Sources(n) => Given(e)' = Given(e)
  BY <1>1, <1>2 DEF Given, Sources
<1> HIDE DEF v, b, p
<1>6. /\ b \in Seq(SUBSET Value) /\ p \in Nat /\ p <= Len(b) /\ v \in SUBSET Value
  BY <1>1 DEF b, p
<1>7. /\ Rest(b, p) \in Seq(SUBSET Value) /\ Len(Rest(b, p)) = Len(b) - p
      /\ Rest(Append(b, v), p) = Append(Rest(b, p), v)
      /\ p < Len(b) => /\ Head(Rest(b, p)) = b[p + 1]
                       /\ Rest(b, p + 1) = Tail(Rest(b, p))
  BY <1>6, RestProperties
<1>8. CASE e \notin Sources(n)
  <2>1. CASE e \notin Targets(n)
    <3>1. Pending(e)' = Pending(e)
      BY <1>2, <1>3, <1>8, <2>1 DEF b, p
    <3> QED BY <1>5, <1>8, <3>1 DEF Changed
  <2>2. CASE e \in Targets(n)
    <3>1. Pending(e)' = Append(Pending(e), v)
      BY <1>2, <1>3, <1>7, <1>8, <2>2 DEF b, p
    <3>2. v \in {Pending(e)'[i] : i \in DOMAIN Pending(e)'}
      <4> DEFINE s == Rest(b, p)
      <4>1. s \in Seq(SUBSET Value) /\ Pending(e)' = Append(s, v)
        BY <1>3, <1>7, <3>1
      <4> HIDE DEF s
      <4>2. Append(s, v)[Len(s) + 1] = v /\ Len(s) + 1 \in DOMAIN Append(s, v)
        BY <1>6, <4>1
      <4> QED BY <4>1, <4>2
    <3> QED BY <1>5, <1>8, <3>1, <3>2 DEF Changed
  <2> QED BY <2>1, <2>2
<1>9. CASE e \in Sources(n) /\ p < Len(b)
  <2>1. Given(e)' = Head(Pending(e)) /\ Pending(e) # <<>>
    BY <1>3, <1>4, <1>6, <1>7, <1>9
  <2>2. CASE e \notin Targets(n)
    <3>1. Pending(e)' = Tail(Pending(e))
      BY <1>2, <1>3, <1>7, <1>9, <2>2
    <3> QED BY <2>1, <3>1 DEF Changed
  <2>3. CASE e \in Targets(n)
    <3> DEFINE t == Tail(Pending(e))
    <3>1. t \in Seq(SUBSET Value) /\ Len(t) = Len(Pending(e)) - 1
      BY <1>3, <1>6, <1>7, <1>9
    <3>2. Rest(Append(b, v), p + 1) = Append(Rest(b, p + 1), v)
      <4>1. p + 1 \in Nat /\ p + 1 <= Len(b)
        BY <1>6, <1>9
      <4> QED BY <1>6, <4>1, RestProperties
    <3>3. Pending(e)' = Append(t, v)
      BY <1>2, <1>3, <1>7, <1>9, <2>3, <3>2
    <3> HIDE DEF t
    <3>4. Len(Append(t, v)) = Len(t) + 1 /\ SubSeq(Append(t, v), 1, Len(t)) = t
      <4>1. Append(t, v) \in Seq(SUBSET Value) /\ Len(Append(t, v)) = Len(t) + 1
        BY <1>6, <3>1
      <4>2. SubSeq(Append(t, v), 1, Len(t)) \in Seq(SUBSET Value)
            /\ Len(SubSeq(Append(t, v), 1, Len(t))) = Len(t)
        BY <3>1, <4>1, SubSeqProperties
      <4>3. \A i \in 1..Len(t) : SubSeq(Append(t, v), 1, Len(t))[i] = t[i]
        BY <1>6, <3>1
      <4> QED BY <3>1, <4>1, <4>2, <4>3, SeqEqual
    <3>5. /\ Len(Pending(e)') = Len(Pending(e))
          /\ SubSeq(Pending(e)', 1, Len(Pending(e)) - 1) = Tail(Pending(e))
      <4>1. Len(Pending(e)) \in Nat
        BY <1>3, <1>7
      <4> QED BY <3>1, <3>3, <3>4, <4>1 DEF t
    <3> QED BY <2>1, <3>5 DEF Changed
  <2> QED BY <2>2, <2>3
<1>10. CASE e \in Sources(n) /\ ~(p < Len(b))
  <2>1. Given(e)' = {} /\ Pending(e) = <<>>
    BY <1>3, <1>4, <1>6, <1>7, <1>10
  <2>2. Pending(e)' = Rest(b, p) \/ Pending(e)' = Append(Rest(b, p), v)
    BY <1>2, <1>3, <1>7, <1>10
  <2>3. Len(Pending(e)') <= 1
    <3> DEFINE s == Rest(b, p)
    <3>1. s \in Seq(SUBSET Value) /\ Len(s) = 0
      BY <1>6, <1>7, <1>10
    <3> HIDE DEF s
    <3>2. Len(Append(s, v)) = 1
      BY <1>6, <3>1
    <3>3. Pending(e)' = s \/ Pending(e)' = Append(s, v)
      BY <2>2 DEF s
    <3>4. Len(Pending(e)') \in {0, 1}
      BY <3>1, <3>2, <3>3, Zenon
    <3>5. \A k \in {0, 1} : k <= 1
      OBVIOUS
    <3> QED BY <3>4, <3>5, Zenon
  <2> QED BY <2>1, <2>3 DEF Changed
<1> QED BY <1>8, <1>9, <1>10

(* The other steps of the graph.                                           *)
LEMMA GraphChanges ==
  ASSUME TypeOK, [Next]_vars, NEW e \in DLines
  PROVE  Changed(e)
<1>1. ASSUME UNCHANGED <<connected, buffer, pos, read>>
      PROVE  Changed(e)
  <2>1. Pending(e)' = Pending(e) /\ Given(e)' = Given(e)
    BY <1>1 DEF Pending, Given
  <2> QED BY <2>1 DEF Changed
<1>2. CASE UNCHANGED vars
  BY <1>1, <1>2 DEF vars, graphVars, dataVars
<1>3. ASSUME NEW f \in Edges, Connect(f)
      PROVE  Changed(e)
  <2>1. CASE e = f
    <3>1. /\ e \in connected' /\ buffer'[e] = <<>> /\ pos'[e] = 0
          /\ \A r \in read'[Target[e]] : r[1] # e
      BY <1>3, <2>1, DataflowAssumption DEF Connect, TypeOK
    <3>2. Rest(<<>>, 0) = <<>>
      BY DEF Rest
    <3> QED BY <3>1, <3>2 DEF Changed, Pending, Given
  <2>2. CASE e # f
    <3>1. /\ e \in connected' <=> e \in connected
          /\ buffer'[e] = buffer[e] /\ pos'[e] = pos[e]
          /\ {x \in read'[Target[e]] : x[1] = e} = {x \in read[Target[e]] : x[1] = e}
      BY <1>3, <2>2, DataflowAssumption DEF Connect, TypeOK, DLines
    <3>2. Pending(e)' = Pending(e) /\ Given(e)' = Given(e)
      BY <3>1 DEF Pending, Given
    <3> QED BY <3>2 DEF Changed
  <2> QED BY <2>1, <2>2
<1>4. ASSUME NEW C, connected' = connected \ C, UNCHANGED <<buffer, pos, read>>
      PROVE  Changed(e)
  <2>1. CASE e \in C
    BY <1>4, <2>1 DEF Changed, Pending, Given
  <2>2. CASE e \notin C
    <3>1. Pending(e)' = Pending(e) /\ Given(e)' = Given(e)
      BY <1>4, <2>2 DEF Pending, Given
    <3> QED BY <3>1 DEF Changed
  <2> QED BY <2>1, <2>2
<1>5. ASSUME NEW f \in Edges, Disconnect(f)
      PROVE  Changed(e)
  BY <1>4, <1>5 DEF Disconnect
<1>6. ASSUME NEW n \in Nodes, RemoveNode(n)
      PROVE  Changed(e)
  BY <1>4, <1>6 DEF RemoveNode
<1>7. ASSUME NEW n \in Nodes, AddNode(n) \/ \E b \in BOOLEAN : SetMute(n, b)
      PROVE  Changed(e)
  BY <1>1, <1>7 DEF AddNode, SetMute
<1>8. ASSUME NEW R, BeginTick(R)
      PROVE  Changed(e)
  BY <1>1, <1>8 DEF BeginTick, graphVars, dataVars
<1>9. CASE DisableStrictNodes
  BY <1>1, <1>9 DEF DisableStrictNodes, graphVars, dataVars
<1>10. ASSUME NEW n \in Nodes, ExecNode(n)
       PROVE  Changed(e)
  <2>1. CASE e \in connected
    BY <1>10, <2>1, ExecChanges DEF DLines
  <2>2. CASE e \notin connected
    <3>1. Pending(e)' = Pending(e) /\ Given(e)' = Given(e)
      BY <1>10, <2>2, ExecFrame DEF Pending, Given
    <3> QED BY <3>1 DEF Changed
  <2> QED BY <2>1, <2>2
<1>11. CASE FinishTick
  BY <1>1, <1>11 DEF FinishTick, graphVars
<1> QED BY <1>2, <1>3, <1>5, <1>6, <1>7, <1>8, <1>9, <1>10, <1>11 DEF Next, Step

(* The delay lines implement queues that start empty with a connection:    *)
(* whatever the ticks and the edits, nothing is lost, repeated, reordered. *)
THEOREM DelayLinesImplemented == Spec => ImplementsDelayLines
<1> DEFINE pend == [e \in DLines |-> Pending(e)]
           giv == [e \in DLines |-> Given(e)]
<1>1. /\ {e \in Edges : Delayed(e)} = DLines
      /\ [e \in {f \in Edges : Delayed(f)} |->
             IF e \in connected
             THEN SubSeq(buffer[e], pos[e] + 1, Len(buffer[e])) ELSE <<>>] = pend
      /\ [e \in {f \in Edges : Delayed(f)} |->
             IF e \in connected
             THEN {r[2] : r \in {x \in read[Target[e]] : x[1] = e}} ELSE {}] = giv
  BY DEF DLines, Pending, Given, Rest
<1>2. Init => Lines!Init
  <2> SUFFICES ASSUME Init
               PROVE  \A e \in DLines : Pending(e) = <<>> /\ Given(e) = {}
    BY <1>1 DEF Lines!Init
  <2>1. ASSUME NEW e \in DLines
        PROVE  Pending(e) = <<>> /\ Given(e) = {}
    <3>1. buffer[e] = <<>> /\ pos[e] = 0 /\ read[Target[e]] = {}
      BY DataflowAssumption DEF Init, DLines
    <3>2. Rest(<<>>, 0) = <<>>
      BY DEF Rest
    <3> QED BY <3>1, <3>2 DEF Pending, Given
  <2> QED BY <2>1
<1>3. TypeOK /\ [Next]_vars => Lines!Next
  <2> SUFFICES ASSUME TypeOK, [Next]_vars, NEW e \in DLines
               PROVE  Lines!Change(e)
    BY DEF Lines!Next, DLines
  <2>1. Changed(e)
    BY GraphChanges
  <2> QED BY <2>1 DEF Changed, Pending, Given, Rest, DLines, Lines!Change
<1>4. Spec => []TypeOK
  BY TypeCorrect
<1> QED BY <1>2, <1>3, <1>4, PTL DEF Spec, ImplementsDelayLines, Lines!Spec

----------------------------------------------------------------------------
(* Paths: the successors of a node, what is reached from them, and more    *)
(* with more edges.                                                        *)
LEMMA PathEdge ==
  ASSUME NEW R, NEW m, NEW n, <<m, n>> \in R
  PROVE  Path(R, m, n)
BY DEF Path

LEMMA PathExtends ==
  ASSUME NEW R, NEW m, NEW l, NEW n, Path(R, m, l), <<l, n>> \in R, n \in Nodes
  PROVE  Path(R, m, n)
BY DEF Path

LEMMA PathGrows ==
  ASSUME NEW R, NEW Q, R \subseteq Q, NEW m, NEW n, Path(R, m, n)
  PROVE  Path(Q, m, n)
BY DEF Path

(* What holds of the successors of m and is kept along the edges holds of  *)
(* all that m has a path to.                                               *)
LEMMA PathInduction ==
  ASSUME NEW R, NEW m, NEW n, Path(R, m, n), NEW C \in SUBSET Nodes,
         \A r \in R : r[1] = m \/ r[1] \in C => r[2] \in C
  PROVE  n \in C
BY DEF Path

----------------------------------------------------------------------------
(* The edges of tc_add_addresses.                                          *)
Pairs == {r \in vertices \X vertices : r[1] # r[2] /\ Feeds(r[1], r[2])}
PairOf(N, k) == <<((k-1) \div N) + 1, ((k-1) % N) + 1>>

(* The sequence of pairs goes through all of them.                         *)
LEMMA PairIndex ==
  ASSUME NEW N \in Nat, NEW i \in 1..N, NEW j \in 1..N
  PROVE  \E k \in 1..N*N : PairOf(N, k) = <<i, j>>
<1> DEFINE a == i - 1
           b == j - 1
           k == a * N + b + 1
<1>1. a \in 0..N-1 /\ b \in 0..N-1 /\ N > 0
  OBVIOUS
<1>2. a * N \in Nat /\ a * N + N <= N * N
  <2>1. a * N \in Nat
    BY <1>1
  <2>2. (a + 1) * N <= N * N
    BY <1>1
  <2>3. (a + 1) * N = a * N + N
    BY <1>1
  <2> QED BY <2>1, <2>2, <2>3
<1>3. k \in 1..N*N
  BY <1>1, <1>2
<1>4. (k - 1) \div N = a /\ (k - 1) % N = b
  <2>1. k - 1 = a * N + b
    BY <1>1, <1>2
  <2>2. \A x, y \in Nat : y < N => (x * N + y) \div N = x /\ (x * N + y) % N = y
    BY <1>1
  <2> QED BY <1>1, <2>1, <2>2
<1>5. PairOf(N, k) = <<i, j>>
  <2>1. PairOf(N, k) = <<a + 1, b + 1>>
    <3> HIDE DEF a, b, k
    <3> QED BY <1>4 DEF PairOf
  <2> QED BY <2>1
<1> QED
  <2> HIDE DEF k
  <2> QED BY <1>3, <1>5

(* Each round keeps the edges of those before, and only adds an edge       *)
(* between nodes that share an address; after its round, a pair that       *)
(* shares one has a path.                                                  *)
LEMMA RoundOfPair ==
  ASSUME NEW D \in SUBSET Pairs, NEW m \in vertices, NEW n \in vertices,
         NEW i \in Nat, NEW j \in Nat, i < j => m # n
  PROVE  /\ AfterPair(Cables, D, i, m, j, n) \in SUBSET Pairs
         /\ D \subseteq AfterPair(Cables, D, i, m, j, n)
         /\ i < j /\ (Feeds(m, n) \/ Feeds(n, m)) =>
               LET A == Cables \cup AfterPair(Cables, D, i, m, j, n)
               IN  Path(A, m, n) \/ Path(A, n, m)
<1>1. i < j => AddressEdge(m, n) \in SUBSET Pairs
  BY DEF AddressEdge, Pairs
<1>2. CASE i >= j \/ Path(Cables \cup D, m, n) \/ Path(Cables \cup D, n, m)
  BY <1>2 DEF AfterPair
<1>3. CASE ~(i >= j \/ Path(Cables \cup D, m, n) \/ Path(Cables \cup D, n, m))
  <2>1. AfterPair(Cables, D, i, m, j, n) = D \cup AddressEdge(m, n)
    BY <1>3 DEF AfterPair
  <2>2. ASSUME Feeds(m, n) \/ Feeds(n, m)
        PROVE  <<m, n>> \in AddressEdge(m, n) \/ <<n, m>> \in AddressEdge(m, n)
    BY <2>2 DEF AddressEdge
  <2> QED BY <1>1, <1>3, <2>1, <2>2, PathEdge
<1> QED BY <1>2, <1>3

(* tc_add_addresses: the edges join nodes that share an address, and       *)
(* of each two such nodes one has a path to the other.                     *)
LEMMA AddressEdgesProperties ==
  ASSUME TypeOK, NEW o \in Orders(vertices, Immediate)
  PROVE  /\ AddressEdges(Cables, o) \in SUBSET Pairs
         /\ \A m, n \in vertices : m # n /\ Feeds(m, n) =>
               \/ Path(Cables \cup AddressEdges(Cables, o), m, n)
               \/ Path(Cables \cup AddressEdges(Cables, o), n, m)
<1> DEFINE N == Cardinality(vertices)
           M == N * N
           S == SUBSET Pairs
           Row(k) == ((k-1) \div N) + 1
           Col(k) == ((k-1) % N) + 1
           Round(k, D) == AfterPair(Cables, D, Row(k), o[Row(k)], Col(k), o[Col(k)])
           Linked(D, m, n) == Path(Cables \cup D, m, n) \/ Path(Cables \cup D, n, m)
<1>1. N \in Nat /\ M \in Nat
  <2>1. IsFiniteSet(vertices)
    BY DataflowAssumption, FS_Subset DEF TypeOK
  <2> QED BY <2>1, FS_CardinalityType
<1>2. o \in [1..N -> vertices] /\ Len(o) = N
  <2>1. o \in [1..N -> vertices]
    BY DEF Orders
  <2>2. o \in Seq(vertices) /\ Len(o) = N
    BY <1>1, <2>1
  <2> QED BY <2>1, <2>2
<1>3. ASSUME NEW k \in 1..M
      PROVE  Row(k) \in 1..N /\ Col(k) \in 1..N
  <2>1. N > 0
    BY <1>1, <1>3
  <2>2. k - 1 \in Nat /\ k - 1 < N * N
    BY <1>1, <1>3
  <2>3. (k-1) % N \in 0..N-1
    BY <1>1, <2>1, <2>2
  <2>4. (k-1) \div N \in 0..N-1
    <3> HIDE DEF N
    <3>1. \A x \in Nat : x < N * N => x \div N \in Nat /\ x \div N < N
      BY <1>1, <2>1
    <3> QED BY <1>1, <2>2, <3>1
  <2> QED BY <1>1, <2>3, <2>4
<1>4. ASSUME NEW k \in 1..M, NEW D \in S
      PROVE  /\ Round(k, D) \in S /\ D \subseteq Round(k, D)
             /\ LET m == o[Row(k)]
                    n == o[Col(k)]
                IN  Row(k) < Col(k) /\ (Feeds(m, n) \/ Feeds(n, m)) =>
                       Linked(Round(k, D), m, n)
  <2> DEFINE i == Row(k)
             j == Col(k)
             m == o[i]
             n == o[j]
  <2>1. i \in 1..N /\ j \in 1..N
    BY <1>3
  <2>2. m \in vertices /\ n \in vertices /\ i \in Nat /\ j \in Nat
    <3> HIDE DEF i, j
    <3> QED BY <1>2, <2>1
  <2>3. i < j => m # n
    <3> HIDE DEF i, j
    <3>1. i \in DOMAIN o /\ j \in DOMAIN o
      BY <1>2, <2>1
    <3>2. m = n => i = j
      BY <3>1, OrderOnce
    <3> QED BY <2>1, <3>2
  <2>4. /\ AfterPair(Cables, D, i, m, j, n) \in SUBSET Pairs
        /\ D \subseteq AfterPair(Cables, D, i, m, j, n)
        /\ i < j /\ (Feeds(m, n) \/ Feeds(n, m)) =>
              Linked(AfterPair(Cables, D, i, m, j, n), m, n)
    <3>1. D \in SUBSET Pairs
      OBVIOUS
    <3> HIDE DEF i, j, m, n
    <3> QED BY <2>2, <2>3, <3>1, RoundOfPair
  <2> QED BY <2>4
<1> DEFINE body(g) == [k \in 0..M |->
               IF k = 0 THEN {}
               ELSE AfterPair(Cables, g[k-1], Row(k), o[Row(k)], Col(k), o[Col(k)])]
           upto == CHOOSE g : g = body(g)
<1>5. AddressEdges(Cables, o) = upto[M]
  BY <1>2 DEF AddressEdges
<1>6. upto = body(upto)
  <2> DEFINE G == [k \in 1..M |-> [D \in S |-> Round(k, D)]]
  <2>1. G \in [1..M -> [S -> S]]
    BY <1>4
  <2>2. PICK f \in [0..M -> S] : f = [k \in 0..M |-> IF k = 0 THEN {} ELSE G[k][f[k-1]]]
    <3>1. {} \in S
      OBVIOUS
    <3> HIDE DEF S, G, M
    <3> QED BY <1>1, <2>1, <3>1, Recursion
  <2>3. ASSUME NEW k \in 0..M
        PROVE  f[k] = body(f)[k]
    <3>1. CASE k = 0
      BY <2>2, <3>1
    <3>2. CASE k # 0
      <4>1. k \in 1..M /\ k - 1 \in 0..M
        BY <1>1, <3>2
      <4>2. f[k-1] \in S
        BY <4>1
      <4>3. f[k] = G[k][f[k-1]]
        <5> HIDE DEF G, M, S
        <5> QED BY <2>2, <3>2
      <4> QED BY <3>2, <4>1, <4>2, <4>3
    <3> QED BY <3>1, <3>2
  <2>4. f = body(f)
    BY <2>3
  <2> HIDE DEF body
  <2> QED BY <2>4
<1> HIDE DEF upto
<1>7. upto[0] = {} /\ \A k \in 1..M : upto[k] = Round(k, upto[k-1])
  <2> HIDE DEF M, N, Row, Col
  <2>1. /\ body(upto)[0] = {}
        /\ \A k \in 1..M : body(upto)[k] = Round(k, upto[k-1])
    BY <1>1
  <2> HIDE DEF body, Round
  <2> QED BY <1>6, <2>1
<1> HIDE DEF Round, Linked, S, M, N, Row, Col
<1>8. \A k \in 0..M : upto[k] \in S
  <2> DEFINE T == {k \in Nat : k <= M => upto[k] \in S}
  <2>1. 0 \in T
    BY <1>7 DEF S
  <2>2. ASSUME NEW k \in T
        PROVE  k + 1 \in T
    <3>1. ASSUME k + 1 <= M
          PROVE  upto[k + 1] \in S
      <4>1. k + 1 \in 1..M /\ upto[k] \in S /\ (k + 1) - 1 = k
        BY <1>1, <3>1
      <4> QED BY <1>4, <1>7, <4>1
    <3> QED BY <3>1
  <2>3. T = Nat
    <3> HIDE DEF T
    <3>1. T \in SUBSET Nat
      BY DEF T
    <3> QED BY <2>1, <2>2, <3>1, SetInduction
  <2> QED BY <1>1, <2>3
<1>9. ASSUME NEW k \in 0..M
      PROVE  upto[k] \subseteq upto[M]
  <2> DEFINE T == {d \in Nat : k + d <= M => upto[k] \subseteq upto[k + d]}
  <2>1. 0 \in T
    BY <1>1
  <2>2. ASSUME NEW d \in T
        PROVE  d + 1 \in T
    <3> SUFFICES ASSUME k + (d + 1) <= M
                 PROVE  upto[k] \subseteq upto[k + (d + 1)]
      OBVIOUS
    <3>1. k + (d + 1) \in 1..M /\ (k + (d + 1)) - 1 = k + d /\ k + d \in 0..M
      BY <1>1
    <3>2. upto[k + d] \subseteq upto[k + (d + 1)]
      BY <1>4, <1>7, <1>8, <3>1
    <3> QED BY <1>1, <3>1, <3>2
  <2>3. T = Nat
    <3> HIDE DEF T
    <3>1. T \in SUBSET Nat
      BY DEF T
    <3> QED BY <2>1, <2>2, <3>1, SetInduction
  <2>4. M - k \in Nat /\ k + (M - k) = M
    BY <1>1
  <2> QED BY <2>3, <2>4
<1>10. ASSUME NEW i \in 1..N, NEW j \in 1..N, i < j,
              Feeds(o[i], o[j]) \/ Feeds(o[j], o[i])
       PROVE  Linked(upto[M], o[i], o[j])
  <2>1. PICK k \in 1..M : PairOf(N, k) = <<i, j>>
    BY <1>1, PairIndex DEF M
  <2>5. Row(k) = i /\ Col(k) = j
    BY <2>1 DEF PairOf, Row, Col
  <2>2. k - 1 \in 0..M /\ upto[k-1] \in S /\ upto[k] = Round(k, upto[k-1])
    BY <1>1, <1>7, <1>8
  <2>3. Linked(upto[k], o[i], o[j])
    BY <1>4, <1>10, <2>2, <2>5
  <2>4. Cables \cup upto[k] \subseteq Cables \cup upto[M]
    BY <1>1, <1>9
  <2> QED BY <2>3, <2>4, PathGrows DEF Linked
<1>11. ASSUME NEW m \in vertices, NEW n \in vertices, m # n, Feeds(m, n)
       PROVE  Linked(upto[M], m, n)
  <2>1. PICK i \in 1..N : o[i] = m
    BY <1>2 DEF Orders
  <2>2. PICK j \in 1..N : o[j] = n
    BY <1>2 DEF Orders
  <2>3. i < j \/ j < i
    BY <1>1, <1>11, <2>1, <2>2
  <2> QED BY <1>10, <1>11, <2>1, <2>2, <2>3 DEF Linked
<1> QED BY <1>1, <1>5, <1>8, <1>11 DEF S, Linked

----------------------------------------------------------------------------
(* The order of the graph with the transitive closure respects the edges   *)
(* that some topological order gave; a static graph follows its order.     *)
SortInv ==
    sched = "tc" /\ ~dirty /\ order # <<>> =>
        \E o \in Orders(vertices, Immediate) :
            order \in Orders(vertices, Immediate \cup AddressEdges(Cables, o))
OrderInv ==
    sched # "dynamic" =>
        \A n \in executed, m \in active \ executed : Precedes(order, n, m)

(* An edit that changes the graph marks it, and a tick sorts it again.     *)
LEMMA SortInductive ==
  ASSUME TypeOK, ExecInv, SortInv, [Next]_vars
  PROVE  SortInv'
<1> DEFINE same == UNCHANGED <<vertices, connected, order, dirty, sched>>
<1>1. same => SortInv'
  <2> SUFFICES ASSUME same
               PROVE  SortInv'
    OBVIOUS
  <2>1. Immediate' = Immediate /\ Cables' = Cables
    BY DEF Immediate, Cables
  <2> QED BY <2>1 DEF SortInv, Orders
<1>2. ASSUME NEW R \in SUBSET Nodes, BeginTick(R)
      PROVE  SortInv'
  <2>1. UNCHANGED <<vertices, connected, sched>>
    BY <1>2 DEF BeginTick, graphVars
  <2>2. CASE UNCHANGED <<order, dirty>>
    BY <1>1, <2>1, <2>2
  <2>3. CASE ~UNCHANGED <<order, dirty>>
    <3>1. order' \in UpdatedOrders
      BY <1>2, <2>3 DEF BeginTick
    <3>2. CASE ~dirty
      <4>1. order' = order /\ dirty' = dirty
        BY <1>2, <2>3, <3>1, <3>2 DEF UpdatedOrders, BeginTick, TypeOK
      <4> QED BY <2>3, <4>1
    <3>3. CASE dirty
      <4>1. sched = "tc" /\ order' # <<>> =>
               \E o \in Orders(vertices, Immediate) :
                   order' \in Orders(vertices, Immediate \cup AddressEdges(Cables, o))
        BY <3>1, <3>3 DEF UpdatedOrders, SortedOrders
      <4>2. Immediate' = Immediate /\ Cables' = Cables
        BY <2>1 DEF Immediate, Cables
      <4> QED BY <2>1, <4>1, <4>2 DEF SortInv, Orders
    <3> QED BY <3>2, <3>3
  <2> QED BY <2>2, <2>3
<1>3. CASE UNCHANGED vars
  BY <1>1, <1>3 DEF vars, graphVars
<1>4. CASE SomeEdit
  <2>1. dirty' \/ same
    BY <1>4 DEF SomeEdit, Connect, Disconnect, RemoveNode, AddNode, SetMute, Edit
  <2>2. dirty' => SortInv'
    BY DEF SortInv
  <2> QED BY <1>1, <2>1, <2>2
<1>5. CASE Step
  BY <1>1, <1>5 DEF Step, DisableStrictNodes, FinishTick, ExecNode, graphVars
<1>6. \A R \in Requests : R \cap vertices \in SUBSET Nodes
  BY DEF TypeOK
<1> QED BY <1>2, <1>3, <1>4, <1>5, <1>6 DEF Next, SomeEdit

(* What a static graph executes is before what is left.                    *)
LEMMA OrderInductive ==
  ASSUME TypeOK, ExecInv, OrderInv, [Next]_vars
  PROVE  OrderInv'
<1>1. CASE executed' = {}
  BY <1>1 DEF OrderInv
<1>2. CASE UNCHANGED <<sched, executed, active, order>>
  BY <1>2 DEF OrderInv, Precedes
<1>3. ASSUME NEW n \in Nodes, ExecNode(n)
      PROVE  OrderInv'
  <2> SUFFICES ASSUME sched' # "dynamic", NEW k \in executed',
                      NEW m \in active' \ executed'
               PROVE  Precedes(order', k, m)
    BY DEF OrderInv
  <2>1. /\ UNCHANGED <<sched, active, order>> /\ executed' = executed \cup {n}
        /\ n \in NextNodes
    BY <1>3 DEF ExecNode, graphVars
  <2>2. m \in active \ executed /\ m # n
    BY <2>1
  <2>3. CASE k = n
    <3>1. Precedes(order, n, m)
      BY <2>1, <2>2 DEF NextNodes, Todo
    <3> QED BY <2>1, <2>3, <3>1
  <2>4. CASE k \in executed
    <3>1. Precedes(order, k, m)
      BY <2>1, <2>2, <2>4 DEF OrderInv
    <3> QED BY <2>1, <3>1
  <2> QED BY <2>1, <2>3, <2>4
<1>4. ASSUME NEW R, BeginTick(R)
      PROVE  executed' = {}
  BY <1>4 DEF BeginTick, ExecInv
<1>5. CASE SomeEdit
  BY <1>1, <1>2, <1>5 DEF SomeEdit, Connect, Disconnect, RemoveNode, AddNode, SetMute, Edit
<1>6. DisableStrictNodes => executed' = {}
  BY DEF DisableStrictNodes, ExecInv
<1>7. FinishTick => executed' = {}
  BY DEF FinishTick
<1>8. CASE UNCHANGED vars
  BY <1>2, <1>8 DEF vars, graphVars
<1> QED BY <1>1, <1>3, <1>4, <1>5, <1>6, <1>7, <1>8 DEF Next, SomeEdit, Step

(* In an order, what is before what is before a node is before it.         *)
LEMMA PrecedesTransitive ==
  ASSUME TypeOK, NEW o \in Orders(vertices, Immediate), NEW l, NEW m, NEW n,
         Precedes(o, l, m), Precedes(o, m, n)
  PROVE  Precedes(o, l, n)
<1>1. PICK i, j \in DOMAIN o : i < j /\ o[i] = l /\ o[j] = m
  BY DEF Precedes
<1>2. PICK p, q \in DOMAIN o : p < q /\ o[p] = m /\ o[q] = n
  BY DEF Precedes
<1>3. j = p
  BY <1>1, <1>2, OrderOnce
<1>4. \A x \in DOMAIN o : x \in Int
  BY DEF Orders
<1>5. i < q
  BY <1>1, <1>2, <1>3, <1>4
<1> QED BY <1>1, <1>2, <1>5 DEF Precedes

(* A path of the closure goes forward in the order, but where it takes a   *)
(* delayed cable.                                                          *)
LEMMA PathForward ==
  ASSUME TypeOK, NEW o \in Orders(vertices, Immediate),
         order \in Orders(vertices, Immediate \cup AddressEdges(Cables, o)),
         NEW m \in vertices, NEW n \in vertices,
         Path(Cables \cup AddressEdges(Cables, o), m, n)
  PROVE  Precedes(order, m, n) \/ JoinedByDelay(m, n)
<1> DEFINE A == Cables \cup AddressEdges(Cables, o)
           C == {x \in Nodes : /\ Path(Joined, m, x)
                               /\ Precedes(order, m, x) \/ JoinedByDelay(m, x)}
<1>1. order \in Orders(vertices, Immediate)
  BY DEF Orders
<1>2. AddressEdges(Cables, o) \in SUBSET Pairs
  BY AddressEdgesProperties
<1>3. A \subseteq Joined
  BY <1>2 DEF Joined, Pairs
<1>4. ASSUME NEW r \in A, r[1] = m \/ r[1] \in C
      PROVE  r[2] \in C
  <2>1. r = <<r[1], r[2]>> /\ r[2] \in Nodes
    <3>1. CASE r \in Cables
      BY <3>1, DataflowAssumption DEF Cables, TypeOK
    <3>2. CASE r \in AddressEdges(Cables, o)
      <4>1. vertices \subseteq Nodes
        BY DEF TypeOK
      <4> QED BY <1>2, <3>2, <4>1 DEF Pairs
    <3> QED BY <3>1, <3>2
  <2>2. r \in Joined
    BY <1>3
  <2>3. Path(Joined, m, r[2])
    <3>1. CASE r[1] = m
      BY <2>1, <2>2, <3>1, PathEdge
    <3>2. CASE r[1] \in C
      BY <2>1, <2>2, <3>2, PathExtends
    <3> QED BY <1>4, <3>1, <3>2
  <2>4. CASE r \in Immediate \cup AddressEdges(Cables, o)
    <3>1. Precedes(order, r[1], r[2])
      BY <2>4 DEF Orders
    <3>2. CASE r[1] = m
      BY <2>1, <2>3, <3>1, <3>2
    <3>3. CASE r[1] \in C /\ Precedes(order, m, r[1])
      <4>1. Precedes(order, m, r[2])
        BY <1>1, <3>1, <3>3, PrecedesTransitive
      <4> QED BY <2>1, <2>3, <4>1
    <3>4. CASE r[1] \in C /\ JoinedByDelay(m, r[1])
      <4>1. PICK e \in connected :
              /\ Delayed(e)
              /\ m = Source[e] \/ Path(Joined, m, Source[e])
              /\ r[1] = Target[e] \/ Path(Joined, Target[e], r[1])
        BY <3>4 DEF JoinedByDelay
      <4>2. Path(Joined, Target[e], r[2])
        <5>1. CASE r[1] = Target[e]
          BY <2>1, <2>2, <5>1, PathEdge
        <5>2. CASE Path(Joined, Target[e], r[1])
          BY <2>1, <2>2, <5>2, PathExtends
        <5> QED BY <4>1, <5>1, <5>2
      <4>3. JoinedByDelay(m, r[2])
        BY <4>1, <4>2 DEF JoinedByDelay
      <4> QED BY <2>1, <2>3, <4>3
    <3> QED BY <1>4, <3>2, <3>3, <3>4
  <2>5. CASE r \notin Immediate \cup AddressEdges(Cables, o)
    <3>1. PICK e \in connected : r = <<Source[e], Target[e]>> /\ Delayed(e)
      BY <2>5 DEF Cables, Immediate
    <3>2. m = Source[e] \/ Path(Joined, m, Source[e])
      BY <1>4, <3>1
    <3>3. JoinedByDelay(m, r[2])
      BY <3>1, <3>2 DEF JoinedByDelay
    <3> QED BY <2>1, <2>3, <3>3
  <2> QED BY <2>4, <2>5
<1>5. n \in C
  <2>1. C \in SUBSET Nodes /\ Path(A, m, n)
    OBVIOUS
  <2> HIDE DEF C, A
  <2> QED BY <1>4, <2>1, PathInduction
<1> QED BY <1>5

(* tc_add_addresses: a node that writes an address runs before those that  *)
(* read it.                                                                *)
LEMMA OrderedByAddress ==
  ASSUME TypeOK, ExecInv, SortInv, OrderInv
  PROVE  AddressesOrdered
<1> SUFFICES ASSUME sched = "tc", phase = "tick", NEW m \in active, NEW n \in active,
                    Feeds(m, n), n \in executed, m \notin executed, m # n,
                    ~JoinedByDelay(m, n), \A k \in vertices : ~Path(Joined, k, k)
             PROVE  FALSE
  BY DEF AddressesOrdered, WriterFirst
<1>1. order \in Orders(vertices, Immediate)
  BY OrderOfTick
<1>2. m \in vertices /\ n \in vertices
  <2>1. \E i, j \in DOMAIN order : order[i] = m /\ order[j] = n
    BY OrderOfTick
  <2> QED BY <1>1, <2>1 DEF Orders
<1>3. Precedes(order, n, m)
  BY DEF OrderInv
<1>4. PICK o \in Orders(vertices, Immediate) :
         order \in Orders(vertices, Immediate \cup AddressEdges(Cables, o))
  <2>1. order # <<>> /\ ~dirty
    BY <1>3 DEF Precedes, ExecInv
  <2> QED BY <2>1 DEF SortInv
<1>5. CASE Path(Cables \cup AddressEdges(Cables, o), m, n)
  <2>1. Precedes(order, m, n)
    BY <1>2, <1>4, <1>5, PathForward
  <2> QED BY <1>1, <1>3, <2>1, PrecedesAsymmetric
<1>6. CASE Path(Cables \cup AddressEdges(Cables, o), n, m)
  <2>1. Cables \cup AddressEdges(Cables, o) \subseteq Joined
    BY <1>4, AddressEdgesProperties DEF Joined, Pairs
  <2>2. Path(Joined, n, m)
    BY <1>6, <2>1, PathGrows
  <2>3. <<m, n>> \in Joined /\ n \in Nodes
    BY <1>2 DEF Joined, TypeOK
  <2>4. Path(Joined, n, n)
    BY <2>2, <2>3, PathExtends
  <2> QED BY <1>2, <2>4
<1> QED BY <1>2, <1>4, <1>5, <1>6, AddressEdgesProperties

(* tc_add_addresses orders the nodes by the addresses they share: whatever *)
(* the topological order it starts from, a node that writes an address     *)
(* runs before those that read it.                                         *)
THEOREM AddressesOrderedHolds == Spec => []AddressesOrdered
<1> DEFINE Inv == TypeOK /\ ExecInv /\ SortInv /\ OrderInv
<1>1. Init => Inv
  BY BaseInit DEF Init, SortInv, OrderInv
<1>2. Inv /\ [Next]_vars => Inv'
  BY BaseInductive, SortInductive, OrderInductive
<1>3. Inv => AddressesOrdered
  BY OrderedByAddress
<1> QED BY <1>1, <1>2, <1>3, PTL DEF Spec
=============================================================================
