----------------------------- MODULE DeviceTree -----------------------------
(***************************************************************************)
(* The tree of nodes of a device and its device_parameter_index.  One      *)
(* thread, the editor, owns the tree: it adds, renames and removes nodes   *)
(* and parameters, and the signals of the device, which it calls on the    *)
(* way, keep the index up to date.  Other threads, the readers, receive    *)
(* messages and reach the parameters through the index only.               *)
(*                                                                         *)
(* A node of Nodes has a fixed parent, is made once, and never comes back  *)
(* after its destruction; so a pointer <<n, s>> to the s-th parameter of n *)
(* dangles as soon as param[n] # s.  Operations that go through several    *)
(* nodes are a stack of calls, see Plan.                                   *)
(***************************************************************************)
EXTENDS Naturals, Sequences

CONSTANTS
    Nodes, Root,    \* the nodes that may be made; the root of the device
    Lineage,        \* node -> the nodes from the root, excluded, to itself
    Names,          \* what a node may be called
    Readers,        \* the threads of the protocol
    NoParam,        \* no entry in the index
    DeviceKinds,    \* the nodes are generic_node or wrapped_node
    MaxMade         \* bound: how many parameters are made on one node

Depth(n) == IF n = Root THEN 0 ELSE Len(Lineage[n])
Parent(n) == IF Len(Lineage[n]) = 1 THEN Root ELSE Lineage[n][Len(Lineage[n]) - 1]

ASSUME TreeAssumption ==
    /\ Root \notin Nodes
    /\ Lineage \in [Nodes -> Seq(Nodes)]
    /\ \A n \in Nodes : /\ Len(Lineage[n]) > 0
                        /\ Lineage[n][Len(Lineage[n])] = n
                        /\ \A i \in 1..Len(Lineage[n]) :
                             Lineage[Lineage[n][i]] = SubSeq(Lineage[n], 1, i)
    /\ NoParam \notin Nodes \X Nat
    /\ DeviceKinds \subseteq {"generic", "wrapped"}
    /\ Names # {}
    /\ MaxMade \in Nat \ {0}

Addresses == UNION {[1..Len(Lineage[n]) -> Names] : n \in Nodes}

VARIABLES
    kind,       \* "generic": a generic_device; "wrapped": a wrapped_device
    node,       \* node -> "none", "attached", "detached" or "destroyed"
    name,       \* node -> its m_name
    param,      \* node -> m_parameter: its number, 0 for null
    made,       \* node -> how many parameters were made on it
    clash,      \* two siblings once had the same name
    stack,      \* the calls the editor is in
    todo,       \* nodes that the recursion over the tree has left to index
    index,      \* m_index: address -> pointer to a parameter
    reader      \* reader -> the address it applies and what it found there

tree == <<kind, node, name, param, made, clash>>
editor == <<tree, stack, todo>>
vars == <<editor, index, reader>>

(* osc_parameter_string: the names from the root.                          *)
Address(n) == [i \in 1..Len(Lineage[n]) |-> name[Lineage[n][i]]]

Live(n) == node[n] \in {"attached", "detached"}
InTree(n) == n # Root => node[n] = "attached"
Children(t) == {c \in Nodes : Parent(c) = t /\ node[c] = "attached"}
SiblingNames(n) == {name[c] : c \in Children(Parent(n)) \ {n}}
WithParameter == {n \in Nodes : node[n] = "attached" /\ param[n] # 0}

NotReading == [at |-> <<>>, param |-> NoParam]

Init ==
    /\ kind \in DeviceKinds
    /\ node = [n \in Nodes |-> "none"]
    /\ name = [n \in Nodes |-> CHOOSE nm \in Names : TRUE]
    /\ param = [n \in Nodes |-> 0] /\ made = [n \in Nodes |-> 0]
    /\ clash = FALSE
    /\ stack = <<>> /\ todo = {}
    /\ index = [a \in Addresses |-> NoParam]
    /\ reader = [r \in Readers |-> NotReading]

-----------------------------------------------------------------------------
(* The readers.  visit() holds the lock of the entry while the callback    *)
(* runs, and whatever erases or assigns the entry takes the same lock.     *)

(* Mutant: apply() looks the parameter up and lets the entry go before it  *)
(* calls the callback.                                                     *)
Visited_Never(a) == FALSE
Visited(a) == \E r \in Readers : reader[r].at = a /\ reader[r].param # NoParam

(* apply(): it returns whether there was a parameter.                      *)
Apply(r, a) ==
    /\ reader[r] = NotReading
    /\ ~Visited(a)
    /\ reader' = [reader EXCEPT ![r] = [at |-> a, param |-> index[a]]]
    /\ UNCHANGED <<editor, index>>

Return(r) ==
    /\ reader[r] # NotReading
    /\ reader' = [reader EXCEPT ![r] = NotReading]
    /\ UNCHANGED <<editor, index>>

(* insert_or_assign and erase, by the editor.                              *)
Assign(a, p) == ~Visited(a) /\ index' = [index EXCEPT ![a] = p]
Erase(a) == Assign(a, NoParam)

-----------------------------------------------------------------------------
(* The calls of the editor: what each goes through, in order.              *)

Plan == [
    remove_child     |-> <<"children", "sweep", "announce", "release", "destroy">>,
    clear_child      |-> <<"children", "announce", "release", "sweep", "destroy">>,
    clear_children   |-> <<"children">>,
    remove_parameter |-> <<"announce", "release">>,
    renamed          |-> <<"clear", "collect", "insert">>,
    deferred         |-> <<"build", "collect", "insert">>,
    close            |-> <<"clear", "teardown", "closed">>]

Idle == stack = <<>>
Call(op, n) == [op |-> op, node |-> n, at |-> 1]
Top == stack[Len(stack)]
In(stage) == ~Idle /\ Plan[Top.op][Top.at] = stage
Proceed ==
    stack' = IF Top.at = Len(Plan[Top.op]) THEN SubSeq(stack, 1, Len(stack) - 1)
             ELSE [stack EXCEPT ![Len(stack)].at = @ + 1]

Begin(op, n) == Idle /\ stack' = <<Call(op, n)>>

-----------------------------------------------------------------------------
(* What the editor asks for.                                               *)

(* create_child: sanitize_name gives a name that no sibling has.           *)
CreateChild(n, nm) ==
    /\ Idle /\ node[n] = "none" /\ InTree(Parent(n))
    /\ nm \notin SiblingNames(n)
    /\ node' = [node EXCEPT ![n] = "attached"]
    /\ name' = [name EXCEPT ![n] = nm]
    /\ UNCHANGED <<kind, param, made, clash, stack, todo, index, reader>>

(* Mutant: the parameter is made without a signal.                         *)
CreateParameter_Quiet(n) ==
    /\ Idle /\ node[n] = "attached" /\ param[n] = 0 /\ made[n] < MaxMade
    /\ made' = [made EXCEPT ![n] = @ + 1]
    /\ param' = [param EXCEPT ![n] = made[n] + 1]
    /\ UNCHANGED <<kind, node, name, clash, stack, todo, index, reader>>

(* create_parameter, and on_parameter_created.                             *)
CreateParameter(n) ==
    /\ Idle /\ node[n] = "attached" /\ param[n] = 0 /\ made[n] < MaxMade
    /\ made' = [made EXCEPT ![n] = @ + 1]
    /\ param' = [param EXCEPT ![n] = made[n] + 1]
    /\ Assign(Address(n), <<n, made[n] + 1>>)
    /\ UNCHANGED <<kind, node, name, clash, stack, todo, reader>>

(* remove_parameter does nothing on a wrapped_node.                        *)
RemoveParameter(n) ==
    /\ kind = "generic" /\ node[n] = "attached" /\ param[n] # 0
    /\ Begin("remove_parameter", n)
    /\ UNCHANGED <<tree, todo, index, reader>>

(* set_name of a generic_node, which then signals on_node_renamed; that of *)
(* a wrapped_node does nothing.  sanitize_name looks at the names of all   *)
(* the children of the parent; that of the node is moved out by then.      *)
Rename(n, nm) ==
    /\ kind = "generic" /\ node[n] = "attached"
    /\ nm \notin SiblingNames(n)
    /\ name' = [name EXCEPT ![n] = nm]
    /\ Begin("renamed", n)
    /\ UNCHANGED <<kind, node, param, made, clash, todo, index, reader>>

(* device_base::set_name: the name of the root is in no address.           *)
RenameDevice ==
    /\ kind = "generic"
    /\ Begin("renamed", Root)
    /\ UNCHANGED <<tree, todo, index, reader>>

(* remove_child takes the node out of the children first.                  *)
RemoveChild(n) ==
    /\ node[n] = "attached"
    /\ node' = [node EXCEPT ![n] = "detached"]
    /\ Begin("remove_child", n)
    /\ UNCHANGED <<kind, name, param, made, clash, todo, index, reader>>

ClearChildren(t) ==
    /\ InTree(t)
    /\ Begin("clear_children", t)
    /\ UNCHANGED <<tree, todo, index, reader>>

(* apply_deferred_device: the tree that a script describes is added in one *)
(* go, then announced.                                                     *)
ApplyDeferred ==
    /\ kind = "wrapped"
    /\ Begin("deferred", Root)
    /\ UNCHANGED <<tree, todo, index, reader>>

(* The destructor of the device, which first calls stop() of the protocol. *)
Close ==
    /\ Begin("close", Root)
    /\ UNCHANGED <<tree, todo, index, reader>>

-----------------------------------------------------------------------------
(* Removal of a node and of what is below it.                              *)

(* clear_children: each child in turn, depth first.                        *)
ClearChild(c) ==
    /\ In("children") /\ c \in Children(Top.node)
    /\ node' = [node EXCEPT ![c] = "detached"]
    /\ stack' = Append(stack, Call("clear_child", c))
    /\ UNCHANGED <<kind, name, param, made, clash, todo, index, reader>>

(* Mutant: remove_child does not clear the children of the node.           *)
ChildrenCleared_Any ==
    /\ In("children")
    /\ Proceed
    /\ UNCHANGED <<tree, todo, index, reader>>

ChildrenCleared ==
    /\ In("children") /\ Children(Top.node) = {}
    /\ Proceed
    /\ UNCHANGED <<tree, todo, index, reader>>

(* The first half of remove_parameter: on_parameter_removing.  It is also  *)
(* what the destructor of a generic_node does.                             *)
Signalled(n) == kind = "generic" /\ param[n] # 0
Announce ==
    /\ In("announce")
    /\ IF Signalled(Top.node) THEN Erase(Address(Top.node)) ELSE UNCHANGED index
    /\ Proceed
    /\ UNCHANGED <<tree, todo, reader>>

(* Its second half: addr.reset().                                          *)
Release ==
    /\ In("release")
    /\ param' = IF kind = "generic" THEN [param EXCEPT ![Top.node] = 0] ELSE param
    /\ Proceed
    /\ UNCHANGED <<kind, node, name, made, clash, todo, index, reader>>

(* on_node_removing: erase_if drops the entries at and below the address,  *)
(* one after the other.                                                    *)
Swept ==
    {a \in Addresses : LET p == Address(Top.node)
                       IN  Len(a) >= Len(p) /\ SubSeq(a, 1, Len(p)) = p}
Sweep(a) ==
    /\ In("sweep") /\ a \in Swept /\ index[a] # NoParam
    /\ Erase(a)
    /\ UNCHANGED <<editor, reader>>

SweepEnds ==
    /\ In("sweep") /\ \A a \in Swept : index[a] = NoParam
    /\ Proceed
    /\ UNCHANGED <<tree, todo, index, reader>>

(* The destructor of the node, and with a wrapped_node of its parameter.   *)
Destroy ==
    /\ In("destroy")
    /\ node' = [node EXCEPT ![Top.node] = "destroyed"]
    /\ param' = [param EXCEPT ![Top.node] = 0]
    /\ Proceed
    /\ UNCHANGED <<kind, name, made, clash, todo, index, reader>>

-----------------------------------------------------------------------------
(* The two recursions that fill the index: index_recursively, after a      *)
(* rename, and device_creation_notify_recursively.                         *)

(* wrapped_node::add_child does not look at the names of the siblings, and *)
(* the constructor of the node makes its parameter without a signal.       *)
AddDeferred(n, nm) ==
    /\ In("build") /\ node[n] = "none" /\ InTree(Parent(n))
    /\ node' = [node EXCEPT ![n] = "attached"]
    /\ name' = [name EXCEPT ![n] = nm]
    /\ clash' = (clash \/ nm \in SiblingNames(n))
    /\ made' = [made EXCEPT ![n] = 1] /\ param' = [param EXCEPT ![n] = 1]
    /\ UNCHANGED <<kind, stack, todo, index, reader>>

Built ==
    /\ In("build") /\ Proceed
    /\ UNCHANGED <<tree, todo, index, reader>>

(* Mutant: a rename adds the new addresses and leaves the former ones.     *)
Cleared_Never == UNCHANGED index
(* clear() locks the whole container: it waits for every callback.         *)
Cleared == /\ \A a \in Addresses : ~Visited(a)
           /\ index' = [a \in Addresses |-> NoParam]
Clear ==
    /\ In("clear") /\ Cleared /\ Proceed
    /\ UNCHANGED <<tree, todo, reader>>

Collect ==
    /\ In("collect") /\ todo' = WithParameter /\ Proceed
    /\ UNCHANGED <<tree, index, reader>>

Insert(n) ==
    /\ In("insert") /\ n \in todo
    /\ Assign(Address(n), <<n, param[n]>>)
    /\ todo' = todo \ {n}
    /\ UNCHANGED <<tree, stack, reader>>

Inserted ==
    /\ In("insert") /\ todo = {} /\ Proceed
    /\ UNCHANGED <<tree, todo, index, reader>>

(* ~wrapped_device and ~generic_device, after stop(): the children go with *)
(* m_children.clear().                                                     *)
Teardown ==
    /\ In("teardown") /\ Proceed
    /\ node' = [n \in Nodes |-> "destroyed"]
    /\ param' = [n \in Nodes |-> 0]
    /\ UNCHANGED <<kind, name, made, clash, todo, index, reader>>

-----------------------------------------------------------------------------
Request ==
    \/ \E n \in Nodes, nm \in Names : CreateChild(n, nm) \/ Rename(n, nm)
    \/ \E n \in Nodes : CreateParameter(n) \/ RemoveParameter(n) \/ RemoveChild(n)
    \/ \E t \in Nodes \cup {Root} : ClearChildren(t)
    \/ RenameDevice \/ ApplyDeferred \/ Close

Work ==
    \/ \E n \in Nodes : ClearChild(n) \/ Insert(n)
    \/ \E n \in Nodes, nm \in Names : AddDeferred(n, nm)
    \/ \E a \in Addresses : Sweep(a)
    \/ ChildrenCleared \/ Announce \/ Release \/ SweepEnds \/ Destroy
    \/ Built \/ Clear \/ Collect \/ Inserted \/ Teardown

Receive ==
    \E r \in Readers : Return(r) \/ \E a \in Addresses : Apply(r, a)

Next == Request \/ Work \/ Receive
Spec == Init /\ [][Next]_vars
=============================================================================
