------------------------ MODULE DeviceTreeProperties ------------------------
(***************************************************************************)
(* What the tree of a device and its index promise to each other.          *)
(***************************************************************************)
EXTENDS DeviceTree

Pointers == Nodes \X (1..MaxMade)
Operations == DOMAIN Plan

(* Every variable keeps its type, and a node has no parameter but the last *)
(* that was made on it, and only until its destruction.                    *)
TypeOK ==
    /\ kind \in DeviceKinds
    /\ node \in [Nodes -> {"none", "attached", "detached", "destroyed"}]
    /\ name \in [Nodes -> Names]
    /\ made \in [Nodes -> 0..MaxMade]
    /\ \A n \in Nodes : param[n] \in {0, made[n]} /\ (param[n] # 0 => Live(n))
    /\ param \in [Nodes -> 0..MaxMade]
    /\ clash \in BOOLEAN
    /\ stack \in Seq([op : Operations, node : Nodes \cup {Root}, at : 1..5])
    /\ todo \subseteq Nodes
    /\ index \in [Addresses -> Pointers \cup {NoParam}]
    /\ reader \in [Readers -> [at : Addresses \cup {<<>>},
                               param : Pointers \cup {NoParam}]]

Alive(p) == p[1] \in Nodes /\ p[2] # 0 /\ param[p[1]] = p[2]

(* "a parameter cannot die under a running callback".                      *)
NoDangling == \A r \in Readers : reader[r].param # NoParam => Alive(reader[r].param)

(* A signal of a removal computes the address of the node through m_parent:*)
(* no node is destroyed before what is below it.                           *)
ParentsOutlive ==
    \A n \in Nodes : Live(n) => Parent(n) = Root \/ Live(Parent(n))

(* Between two operations, what the index holds is in the tree at that     *)
(* address, and all that is in the tree is in the index, if no script ever *)
(* gave one name to two siblings.                                          *)
IndexExact ==
    Idle =>
        /\ \A a \in Addresses : index[a] # NoParam =>
             \E n \in WithParameter : index[a] = <<n, param[n]>> /\ a = Address(n)
        /\ ~clash => \A n \in WithParameter : index[Address(n)] = <<n, param[n]>>

(* A message reaches the parameter that is at its address at that moment,  *)
(* even in the middle of a removal or of the indexing that follows a       *)
(* rename; only a rename that has not cleared the index yet lets it reach  *)
(* a parameter at its former address.                                      *)
ReachedByAddress ==
    [][ \A r \in Readers :
          reader[r] = NotReading /\ reader'[r].param # NoParam =>
            In("clear") \/ reader'[r].at = Address(reader'[r].param[1]) ]_vars
=============================================================================
