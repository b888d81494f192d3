-------------------------- MODULE DeviceTreeProofs --------------------------
(***************************************************************************)
(* Proofs about the tree of a device and its index, for every shape of the *)
(* tree, any names, any number of readers and both kinds of device.        *)
(***************************************************************************)
EXTENDS DeviceTreeProperties, IntervalLemmas, SequenceTheorems, TLAPS

Removals == {"remove_child", "clear_child"}
Calls == [op : Operations, node : Nodes \cup {Root}, at : 1..5]
Stage(i) == Plan[stack[i].op][stack[i].at]
stage == IF Idle THEN "idle" ELSE Plan[Top.op][Top.at]

(* The calls: each is in one of its stages, those below the top clear the  *)
(* children of their node, and each is about a node below the one before.  *)
CallInv ==
    /\ \A i \in 1..Len(stack) : stack[i].at \in 1..Len(Plan[stack[i].op])
    /\ \A i \in 1..Len(stack) : i > 1 => stack[i].op = "clear_child"
    /\ \A i \in 1..Len(stack) : i < Len(stack) => Stage(i) = "children"
    /\ \A i, j \in 1..Len(stack) :
         i < j => Depth(stack[i].node) < Depth(stack[j].node)

(* The nodes that were taken out of the tree are those of the calls.       *)
DetachedInv ==
    /\ \A i \in 1..Len(stack) : stack[i].op \in Removals =>
         stack[i].node \in Nodes /\ node[stack[i].node] = "detached"
    /\ \A n \in Nodes : node[n] = "detached" =>
         \E i \in 1..Len(stack) : stack[i].node = n /\ stack[i].op \in Removals
    /\ \A i \in 1..Len(stack) : stack[i].op = "remove_parameter" =>
         /\ kind = "generic"
         /\ stack[i].node \in Nodes /\ node[stack[i].node] = "attached"

(* The tree: what is above a node lives, nothing lives below a node that   *)
(* has cleared its children, and siblings are called differently.          *)
AncestorsLive ==
    \A n \in Nodes : Live(n) => \A i \in 1..Len(Lineage[n]) : Live(Lineage[n][i])
Childless ==
    ~Idle /\ Top.op \in Removals /\ stage # "children" =>
        \A c \in Nodes : Parent(c) = Top.node => ~Live(c)
UniqueNames ==
    ~clash => \A c, d \in Nodes :
        Live(c) /\ Live(d) /\ Parent(c) = Parent(d) /\ c # d => name[c] # name[d]
TreeInv == AncestorsLive /\ Childless /\ UniqueNames

(* The index: an entry is a parameter that exists, at its address but      *)
(* before a rename clears the index; a callback holds its entry.           *)
EntriesAlive ==
    \A a \in Addresses : index[a] # NoParam =>
        /\ Alive(index[a])
        /\ stage = "clear" \/ a = Address(index[a][1])
Locked ==
    \A r \in Readers : reader[r].param # NoParam =>
        reader[r].at \in Addresses /\ index[reader[r].at] = reader[r].param
Unpointed(n) == \A a \in Addresses : index[a] # NoParam => index[a][1] # n
Forgotten ==
    \/ stage = "destroy"
    \/ stage = "release" /\ kind = "generic"
    \/ stage \in {"announce", "release"} /\ Top.op = "remove_child"
ForgottenInv == Forgotten => Unpointed(Top.node)
TodoInv == stage = "insert" => todo \subseteq WithParameter
ClosedInv ==
    stage \in {"teardown", "closed"} => \A a \in Addresses : index[a] = NoParam

(* What is in the tree and not in the index is about to be indexed, or to  *)
(* lose its parameter.                                                     *)
Pending(n) ==
    \/ stage \in {"clear", "build", "collect", "teardown"}
    \/ stage = "insert" /\ n \in todo
    \/ stage = "release" /\ Top.node = n
Filled ==
    ~clash => \A n \in WithParameter :
        index[Address(n)] = <<n, param[n]>> \/ Pending(n)
IndexInv ==
    /\ EntriesAlive /\ Locked /\ ForgottenInv /\ TodoInv /\ ClosedInv /\ Filled

Inv == TypeOK /\ CallInv /\ DetachedInv /\ TreeInv /\ IndexInv

-----------------------------------------------------------------------------
(* The plans, stage by stage.                                              *)

Follows ==
    {<<"remove_child", "children", "sweep">>, <<"remove_child", "sweep", "announce">>,
     <<"remove_child", "announce", "release">>, <<"remove_child", "release", "destroy">>,
     <<"clear_child", "children", "announce">>, <<"clear_child", "announce", "release">>,
     <<"clear_child", "release", "sweep">>, <<"clear_child", "sweep", "destroy">>,
     <<"remove_parameter", "announce", "release">>,
     <<"renamed", "clear", "collect">>, <<"renamed", "collect", "insert">>,
     <<"deferred", "build", "collect">>, <<"deferred", "collect", "insert">>,
     <<"close", "clear", "teardown">>, <<"close", "teardown", "closed">>}
Lasts ==
    {<<"remove_child", "destroy">>, <<"clear_child", "destroy">>,
     <<"clear_children", "children">>, <<"remove_parameter", "release">>,
     <<"renamed", "insert">>, <<"deferred", "insert">>, <<"close", "closed">>}

(* Each stage of a plan but its last is followed by another one.           *)
LEMMA Plans ==
  ASSUME NEW o \in Operations
  PROVE  /\ Len(Plan[o]) \in 1..5
         /\ \A i \in 1..Len(Plan[o]) : i < Len(Plan[o]) =>
              <<o, Plan[o][i], Plan[o][i + 1]>> \in Follows
         /\ <<o, Plan[o][Len(Plan[o])]>> \in Lasts
<1>1. o \in {"remove_child", "clear_child", "clear_children", "remove_parameter",
             "renamed", "deferred", "close"}
  BY DEF Operations, Plan
<1>2. CASE o = "remove_child"
  BY <1>2 DEF Plan, Follows, Lasts
<1>3. CASE o = "clear_child"
  BY <1>3 DEF Plan, Follows, Lasts
<1>4. CASE o = "clear_children"
  BY <1>4 DEF Plan, Follows, Lasts
<1>5. CASE o = "remove_parameter"
  BY <1>5 DEF Plan, Follows, Lasts
<1>6. CASE o = "renamed"
  BY <1>6 DEF Plan, Follows, Lasts
<1>7. CASE o = "deferred"
  BY <1>7 DEF Plan, Follows, Lasts
<1>8. CASE o = "close"
  BY <1>8 DEF Plan, Follows, Lasts
<1> QED BY <1>1, <1>2, <1>3, <1>4, <1>5, <1>6, <1>7, <1>8

(* A call that goes on, or ends and gives way to the one it was made from. *)
Continued ==
    /\ stack' # <<>> /\ Len(stack') = Len(stack)
    /\ Top'.op = Top.op /\ Top'.node = Top.node
    /\ \A i \in 1..Len(stack) :
         stack'[i].op = stack[i].op /\ stack'[i].node = stack[i].node
Popped ==
    /\ Len(stack') = Len(stack) - 1
    /\ \A i \in 1..Len(stack) - 1 : stack'[i] = stack[i]
    /\ Idle' \/ stage' = "children"

(* The call on the top of the stack is one.                                *)
LEMMA TopIsCall ==
  ASSUME TypeOK, CallInv, ~Idle
  PROVE  /\ Len(stack) \in Nat \ {0} /\ Len(stack) \in 1..Len(stack)
         /\ stack \in Seq(Calls) /\ Top = stack[Len(stack)] /\ Top \in Calls
         /\ Top.op \in Operations /\ Top.at \in 1..Len(Plan[Top.op])
         /\ \A i \in 1..Len(stack) : stack[i] \in Calls
         /\ stage = Plan[Top.op][Top.at]
<1>1. stack \in Seq(Calls) /\ stack # <<>>
  BY DEF TypeOK, Idle, Calls
<1>2. Len(stack) \in Nat \ {0}
  BY <1>1, EmptySeq, LenProperties
<1>3. \A i \in 1..Len(stack) : stack[i] \in Calls
  BY <1>1, ElementOfSeq
<1>4. Top \in Calls /\ Top = stack[Len(stack)]
  BY <1>2, <1>3 DEF Top
<1>5. Top.at \in 1..Len(Plan[Top.op])
  BY <1>2, <1>4 DEF CallInv
<1>6. Top.op \in Operations
  BY <1>4 DEF Calls
<1> QED BY <1>1, <1>2, <1>3, <1>4, <1>5, <1>6 DEF stage

(* Proceed takes the call on the top to its next stage, or ends it.        *)
LEMMA Advance ==
  ASSUME TypeOK, CallInv, ~Idle, Proceed
  PROVE  /\ stack' \in Seq(Calls) /\ CallInv'
         /\ \/ Continued /\ <<Top.op, stage, stage'>> \in Follows
            \/ Popped /\ <<Top.op, stage>> \in Lasts
<1> DEFINE k == Len(stack)
<1>0. /\ k \in Nat \ {0} /\ k \in 1..k /\ stack \in Seq(Calls)
      /\ Top = stack[k] /\ Top \in Calls /\ Top.op \in Operations
      /\ Top.at \in 1..Len(Plan[Top.op])
      /\ \A i \in 1..k : stack[i] \in Calls
      /\ stage = Plan[Top.op][Top.at]
  BY TopIsCall
<1>1. /\ Len(Plan[Top.op]) \in 1..5
      /\ \A i \in 1..Len(Plan[Top.op]) : i < Len(Plan[Top.op]) =>
           <<Top.op, Plan[Top.op][i], Plan[Top.op][i + 1]>> \in Follows
      /\ <<Top.op, Plan[Top.op][Len(Plan[Top.op])]>> \in Lasts
  BY <1>0, Plans
<1>2. CASE Top.at = Len(Plan[Top.op])
  <2>1. stack' = SubSeq(stack, 1, k - 1)
    BY <1>2 DEF Proceed
  <2>2. /\ stack' \in Seq(Calls) /\ Len(stack') = k - 1
        /\ \A i \in 1..k - 1 : stack'[i] = stack[i]
    <3>1. 1 \in Int /\ k - 1 \in Int /\ \A i \in 1..k - 1 : stack[i] \in Calls
      BY <1>0
    <3>2. /\ SubSeq(stack, 1, k - 1) \in Seq(Calls)
          /\ Len(SubSeq(stack, 1, k - 1)) = IF 1 <= k - 1 THEN k - 1 - 1 + 1 ELSE 0
          /\ \A i \in 1..k - 1 - 1 + 1 : SubSeq(stack, 1, k - 1)[i] = stack[1 + i - 1]
      BY <3>1, SubSeqProperties
    <3>3. k - 1 - 1 + 1 = k - 1 /\ (IF 1 <= k - 1 THEN k - 1 - 1 + 1 ELSE 0) = k - 1
      <4>1. \A j \in Nat \ {0} :
              j - 1 - 1 + 1 = j - 1 /\ (IF 1 <= j - 1 THEN j - 1 - 1 + 1 ELSE 0) = j - 1
        OBVIOUS
      <4> QED BY <1>0, <4>1
    <3>4. \A i \in 1..k - 1 : 1 + i - 1 = i
      BY <1>0
    <3>5. \A i \in 1..k - 1 : SubSeq(stack, 1, k - 1)[i] = stack[i]
      BY <3>2, <3>3, <3>4
    <3> QED BY <2>1, <3>2, <3>3, <3>5
  <2>3. CallInv'
    <3>1. /\ 1..Len(stack') \subseteq 1..k
          /\ \A i \in 1..Len(stack') : stack'[i] = stack[i] /\ i < k
      BY <1>0, <2>2
    <3> QED BY <3>1, <2>2 DEF CallInv, Stage
  <2>4. Idle' \/ stage' = "children"
    <3>1. CASE stack' = <<>>
      BY <3>1 DEF Idle
    <3>2. CASE stack' # <<>>
      <4>1. k - 1 \in 1..k /\ k - 1 < k /\ k - 1 \in 1..k - 1
        BY <1>0, <2>2, <3>2, EmptySeq
      <4>2. Stage(k - 1) = "children"
        BY <4>1 DEF CallInv
      <4>3. stack'[Len(stack')] = stack[k - 1]
        BY <2>2, <4>1
      <4> QED BY <3>2, <4>2, <4>3 DEF stage, Idle, Top, Stage
    <3> QED BY <3>1, <3>2
  <2> QED BY <1>0, <1>1, <1>2, <2>2, <2>3, <2>4 DEF Popped
<1>3. CASE Top.at # Len(Plan[Top.op])
  <2>1. /\ Top.at \in Nat /\ Top.at + 1 \in 1..Len(Plan[Top.op])
        /\ Top.at < Len(Plan[Top.op]) /\ Top.at + 1 \in 1..5
    <3> DEFINE l == Len(Plan[Top.op])
    <3>1. l \in 1..5 /\ Top.at \in 1..l /\ Top.at # l
      BY <1>0, <1>1, <1>3
    <3> HIDE DEF l
    <3>2. Top.at \in Nat /\ Top.at + 1 \in 1..l /\ Top.at < l /\ Top.at + 1 \in 1..5
      BY <3>1
    <3> QED BY <3>2 DEF l
  <2>2. stack' = [stack EXCEPT ![k] = [stack[k] EXCEPT !.at = Top.at + 1]]
    BY <1>0, <1>3 DEF Proceed
  <2>3. [stack[k] EXCEPT !.at = Top.at + 1] \in Calls
    BY <1>0, <2>1 DEF Calls
  <2>4. /\ stack' \in Seq(Calls) /\ Len(stack') = k
        /\ \A i \in 1..k : i # k => stack'[i] = stack[i]
        /\ stack'[k] = [stack[k] EXCEPT !.at = Top.at + 1]
    BY <1>0, <2>2, <2>3, ExceptSeq
  <2>5. /\ stack'[k].op = stack[k].op /\ stack'[k].node = stack[k].node
        /\ stack'[k].at = Top.at + 1
    BY <1>0, <2>4 DEF Calls
  <2>6. stack' # <<>> /\ Top' = stack'[k]
    BY <1>0, <2>4, EmptySeq DEF Top
  <2>7. Continued
    BY <1>0, <2>4, <2>5, <2>6 DEF Continued
  <2>8. stage' = Plan[Top.op][Top.at + 1]
    BY <1>0, <2>5, <2>6 DEF stage, Idle
  <2>9. CallInv'
    <3>1. /\ Len(stack') = k
          /\ \A i \in 1..k : /\ stack'[i].op = stack[i].op
                             /\ stack'[i].node = stack[i].node
                             /\ i < k => stack'[i].at = stack[i].at
      <4>1. \A i \in 1..k : i < k => i # k
        BY <1>0
      <4>2. \A i \in 1..k : i # k => stack'[i] = stack[i]
        BY <2>4
      <4> QED BY <2>4, <2>5, <4>1, <4>2
    <3>2. \A i \in 1..k : stack'[i].at \in 1..Len(Plan[stack[i].op])
      BY <1>0, <2>1, <2>4, <2>5 DEF CallInv
    <3> QED BY <3>1, <3>2 DEF CallInv, Stage
  <2> QED BY <1>0, <1>1, <2>1, <2>4, <2>7, <2>8, <2>9
<1> QED BY <1>2, <1>3

-----------------------------------------------------------------------------
(* The tree and the addresses.                                             *)

(* The lineage of a node goes from parent to child.                        *)
LEMMA LineageFacts ==
  ASSUME NEW n \in Nodes
  PROVE  /\ Len(Lineage[n]) \in Nat \ {0} /\ Lineage[n][Len(Lineage[n])] = n
         /\ n # Root /\ Depth(n) = Len(Lineage[n])
         /\ \A i \in 1..Len(Lineage[n]) :
              /\ Lineage[n][i] \in Nodes /\ Len(Lineage[Lineage[n][i]]) = i
              /\ \A j \in 1..i : Lineage[Lineage[n][i]][j] = Lineage[n][j]
              /\ Parent(Lineage[n][i]) = IF i = 1 THEN Root ELSE Lineage[n][i - 1]
         /\ Parent(n) # Root => Parent(n) \in Nodes
         /\ Depth(Parent(n)) = Depth(n) - 1
<1> DEFINE k == Len(Lineage[n])
<1>1. /\ Lineage[n] \in Seq(Nodes) /\ k > 0 /\ Lineage[n][k] = n
      /\ \A i \in 1..k : Lineage[Lineage[n][i]] = SubSeq(Lineage[n], 1, i)
      /\ n # Root
  BY TreeAssumption
<1>2. k \in Nat \ {0} /\ \A i \in 1..k : Lineage[n][i] \in Nodes
  BY <1>1, LenProperties, ElementOfSeq
<1>3. ASSUME NEW i \in 1..k
      PROVE  /\ Len(Lineage[Lineage[n][i]]) = i
             /\ \A j \in 1..i : Lineage[Lineage[n][i]][j] = Lineage[n][j]
  <2>1. 1 \in Int /\ i \in Int /\ i \in 1..k /\ 1 <= i
        /\ \A j \in 1..i : Lineage[n][j] \in Nodes
    BY <1>2
  <2>2. /\ Len(SubSeq(Lineage[n], 1, i)) = IF 1 <= i THEN i - 1 + 1 ELSE 0
        /\ \A j \in 1..i - 1 + 1 : SubSeq(Lineage[n], 1, i)[j] = Lineage[n][1 + j - 1]
    BY <2>1, SubSeqProperties
  <2>3. i - 1 + 1 = i /\ \A j \in 1..i : 1 + j - 1 = j
    BY <2>1
  <2>4. Lineage[Lineage[n][i]] = SubSeq(Lineage[n], 1, i)
    BY <1>1
  <2> QED BY <2>1, <2>2, <2>3, <2>4
<1>4. ASSUME NEW i \in 1..k
      PROVE  Parent(Lineage[n][i]) = IF i = 1 THEN Root ELSE Lineage[n][i - 1]
  <2>1. CASE i = 1
    BY <1>3, <2>1 DEF Parent
  <2>2. CASE i # 1
    <3>1. i - 1 \in 1..i /\ i \in 1..k
      BY <1>2, <2>2
    <3>2. Len(Lineage[Lineage[n][i]]) = i /\ Lineage[Lineage[n][i]][i - 1] = Lineage[n][i - 1]
      BY <1>3, <3>1
    <3> QED BY <2>2, <3>2 DEF Parent
  <2> QED BY <2>1, <2>2
<1>5. Depth(n) = k
  BY <1>1 DEF Depth
<1>6. k \in 1..k /\ Parent(n) = IF k = 1 THEN Root ELSE Lineage[n][k - 1]
  <2>1. k \in 1..k
    <3> HIDE DEF k
    <3> QED BY <1>2
  <2> QED BY <1>1, <1>4, <2>1
<1>7. CASE k = 1
  BY <1>1, <1>2, <1>3, <1>4, <1>5, <1>6, <1>7 DEF Depth
<1>8. CASE k # 1
  <2>1. k - 1 \in 1..k /\ Parent(n) = Lineage[n][k - 1]
    <3> HIDE DEF k
    <3> QED BY <1>2, <1>6, <1>8
  <2>2. Parent(n) \in Nodes /\ Len(Lineage[Parent(n)]) = k - 1
    BY <1>2, <1>3, <2>1
  <2>3. Depth(Parent(n)) = k - 1
    BY <2>2, TreeAssumption DEF Depth
  <2> QED BY <1>1, <1>2, <1>3, <1>4, <1>5, <2>2, <2>3
<1> QED BY <1>7, <1>8

(* The address of a node is one, and a prefix of itself.                   *)
LEMMA AddressFacts ==
  ASSUME TypeOK, NEW n \in Nodes
  PROVE  /\ Address(n) \in Addresses /\ Len(Address(n)) = Len(Lineage[n])
         /\ Len(Address(n)) \in Nat
         /\ \A i \in 1..Len(Lineage[n]) : Address(n)[i] = name[Lineage[n][i]]
         /\ SubSeq(Address(n), 1, Len(Address(n))) = Address(n)
<1>1. Len(Lineage[n]) \in Nat /\ \A i \in 1..Len(Lineage[n]) : name[Lineage[n][i]] \in Names
  BY LineageFacts DEF TypeOK
<1>2. Address(n) \in [1..Len(Lineage[n]) -> Names]
  BY <1>1 DEF Address
<1>3. Address(n) \in Seq(Names) /\ Len(Address(n)) = Len(Lineage[n])
  BY <1>1, <1>2
<1>4. SubSeq(Address(n), 1, Len(Address(n))) = Address(n)
  BY <1>3, SubSeqFull
<1>5. Address(n) \in Addresses
  BY <1>2 DEF Addresses
<1> QED BY <1>1, <1>3, <1>4, <1>5 DEF Address

(* Two live nodes have addresses that agree only as far as their lineages  *)
(* do: where the lineages part, two siblings would have one name.          *)
LEMMA SamePath ==
  ASSUME TypeOK, AncestorsLive, UniqueNames, ~clash,
         NEW n \in Nodes, NEW m \in Nodes, Live(n), Live(m),
         Len(Lineage[n]) <= Len(Lineage[m]),
         \A i \in 1..Len(Lineage[n]) : Address(n)[i] = Address(m)[i]
  PROVE  n = Lineage[m][Len(Lineage[n])]
<1> DEFINE k == Len(Lineage[n])
           T == {i \in 1..k : Lineage[n][i] # Lineage[m][i]}
<1>1. /\ k \in Nat \ {0} /\ Lineage[n][k] = n
      /\ \A i \in 1..k : Lineage[n][i] \in Nodes
           /\ Parent(Lineage[n][i]) = IF i = 1 THEN Root ELSE Lineage[n][i - 1]
  BY LineageFacts
<1>2. \A i \in 1..k : i \in 1..Len(Lineage[m])
  <2>1. Len(Lineage[m]) \in Nat
    BY LineageFacts
  <2> QED BY <1>1, <2>1
<1>3. \A i \in 1..k : Lineage[m][i] \in Nodes
           /\ Parent(Lineage[m][i]) = IF i = 1 THEN Root ELSE Lineage[m][i - 1]
  BY <1>2, LineageFacts
<1>4. CASE T = {}
  <2>1. k \in 1..k
    <3> HIDE DEF k
    <3> QED BY <1>1
  <2> QED BY <1>1, <1>4, <2>1
<1>5. CASE T # {}
  <2>1. PICK i \in T : \A j \in T : i <= j
    <3> HIDE DEF k
    <3>1. k \in Nat /\ T \in SUBSET (1..k)
      BY <1>1
    <3> QED BY <1>5, <3>1, LeastIndex
  <2>2. i \in 1..k /\ Lineage[n][i] # Lineage[m][i]
    OBVIOUS
  <2>3. Live(Lineage[n][i]) /\ Live(Lineage[m][i])
    BY <1>2, <2>2 DEF AncestorsLive
  <2>4. name[Lineage[n][i]] = name[Lineage[m][i]]
    BY <1>2, <2>2, AddressFacts
  <2>5. Parent(Lineage[n][i]) = Parent(Lineage[m][i])
    <3>1. CASE i = 1
      BY <1>1, <1>3, <2>2, <3>1
    <3>2. CASE i # 1
      <4>1. i - 1 \in 1..k /\ ~(i <= i - 1)
        <5> HIDE DEF k
        <5> QED BY <1>1, <2>2, <3>2
      <4>2. i - 1 \notin T
        BY <2>1, <4>1
      <4> QED BY <1>1, <1>3, <2>2, <3>2, <4>1, <4>2
    <3> QED BY <3>1, <3>2
  <2> QED BY <1>1, <1>3, <2>2, <2>3, <2>4, <2>5 DEF UniqueNames
<1> QED BY <1>4, <1>5

(* In the tree, two nodes do not have one address.                         *)
LEMMA SameAddress ==
  ASSUME TypeOK, AncestorsLive, UniqueNames, ~clash,
         NEW n \in Nodes, NEW m \in Nodes, Live(n), Live(m), Address(n) = Address(m)
  PROVE  n = m
<1>1. Len(Lineage[n]) = Len(Lineage[m]) /\ Len(Lineage[n]) \in Nat
  BY AddressFacts
<1>2. n = Lineage[m][Len(Lineage[n])]
  BY <1>1, SamePath
<1> QED BY <1>1, <1>2, LineageFacts

(* The name of a node that does not live is in no address of the tree.     *)
LEMMA AddressKept ==
  ASSUME AncestorsLive, NEW x \in Nodes, ~Live(x), NEW nm,
         name' = [name EXCEPT ![x] = nm], TypeOK
  PROVE  \A m \in Nodes : Live(m) => Address(m)' = Address(m)
<1> SUFFICES ASSUME NEW m \in Nodes, Live(m)
             PROVE  Address(m)' = Address(m)
  OBVIOUS
<1>1. \A i \in 1..Len(Lineage[m]) : Lineage[m][i] \in Nodes /\ Lineage[m][i] # x
  BY LineageFacts DEF AncestorsLive
<1>2. \A i \in 1..Len(Lineage[m]) : name'[Lineage[m][i]] = name[Lineage[m][i]]
  BY <1>1 DEF TypeOK
<1> QED BY <1>2 DEF Address

-----------------------------------------------------------------------------
(* The calls that begin.                                                   *)

(* What each operation starts with.                                        *)
LEMMA FirstStage ==
  ASSUME NEW o \in Operations
  PROVE  Plan[o][1] = CASE o \in Removals \cup {"clear_children"} -> "children"
                        [] o = "remove_parameter" -> "announce"
                        [] o = "deferred" -> "build"
                        [] o \in {"renamed", "close"} -> "clear"
<1>1. o \in {"remove_child", "clear_child", "clear_children", "remove_parameter",
             "renamed", "deferred", "close"}
  BY DEF Operations, Plan
<1> QED BY <1>1 DEF Plan, Removals

(* A call from the outside is alone on the stack, in its first stage.      *)
LEMMA Begun ==
  ASSUME NEW o \in Operations, NEW n \in Nodes \cup {Root}, Begin(o, n)
  PROVE  /\ Idle /\ stack' \in Seq(Calls) /\ CallInv'
         /\ Len(stack') = 1 /\ stack' # <<>>
         /\ stack'[1].op = o /\ stack'[1].node = n
         /\ Top'.op = o /\ Top'.node = n
         /\ stage' = Plan[o][1]
<1>1. stack' = <<[op |-> o, node |-> n, at |-> 1]>> /\ Idle
  BY DEF Begin, Call
<1>2. /\ stack' \in Seq(Calls) /\ Len(stack') = 1 /\ stack' # <<>>
      /\ stack'[1] = [op |-> o, node |-> n, at |-> 1]
  <2>1. [op |-> o, node |-> n, at |-> 1] \in Calls
    BY DEF Calls
  <2> QED BY <1>1, <2>1
<1>3. Top' = [op |-> o, node |-> n, at |-> 1]
  BY <1>2 DEF Top
<1>4. stage' = Plan[o][1]
  BY <1>2, <1>3 DEF stage, Idle
<1>5. Len(Plan[o]) \in 1..5
  BY Plans
<1>6. CallInv'
  <2>1. \A l \in 1..5 : 1 \in 1..l
    OBVIOUS
  <2>2. 1..Len(stack') = {1}
    BY <1>2
  <2>3. /\ \A i \in 1..Len(stack') : i = 1 /\ ~(i > 1) /\ ~(i < Len(stack'))
        /\ \A i, j \in 1..Len(stack') : ~(i < j)
    BY <1>2, <2>2
  <2>4. stack'[1].at = 1 /\ stack'[1].op = o
    BY <1>2
  <2> QED BY <1>5, <2>1, <2>3, <2>4 DEF CallInv
<1> QED BY <1>1, <1>2, <1>3, <1>4, <1>6

(* A node below the one of the top is below those of all the calls.        *)
LEMMA Pushed ==
  ASSUME TypeOK, CallInv, NEW c \in Nodes, ClearChild(c)
  PROVE  /\ ~Idle /\ stage = "children" /\ stage' = "children"
         /\ Parent(c) = Top.node /\ node[c] = "attached"
         /\ stack' \in Seq(Calls) /\ CallInv'
         /\ Len(stack') = Len(stack) + 1 /\ stack' # <<>>
         /\ \A i \in 1..Len(stack) : stack'[i] = stack[i]
         /\ stack'[Len(stack) + 1].op = "clear_child"
         /\ stack'[Len(stack) + 1].node = c
         /\ Top'.op = "clear_child" /\ Top'.node = c
<1> DEFINE k == Len(stack)
           f == [op |-> "clear_child", node |-> c, at |-> 1]
<1>1. /\ ~Idle /\ Plan[Top.op][Top.at] = "children"
      /\ Parent(c) = Top.node /\ node[c] = "attached" /\ stack' = Append(stack, f)
  BY DEF ClearChild, In, Children, Call
<1>2. /\ k \in Nat \ {0} /\ k \in 1..k /\ stack \in Seq(Calls)
      /\ Top = stack[k] /\ stage = Plan[Top.op][Top.at]
      /\ \A i \in 1..k : stack[i] \in Calls
  BY <1>1, TopIsCall
<1>3. "clear_child" \in Operations /\ f \in Calls
  BY DEF Operations, Plan, Calls
<1>4. /\ stack' \in Seq(Calls) /\ Len(stack') = k + 1 /\ stack' # <<>>
      /\ \A i \in 1..k : stack'[i] = stack[i]
      /\ stack'[k + 1] = f
  BY <1>1, <1>2, <1>3, AppendProperties
<1>5. Top' = f
  BY <1>4 DEF Top
<1>6. Plan["clear_child"][1] = "children" /\ 1 \in 1..Len(Plan["clear_child"])
  BY DEF Plan
<1>7. stage' = "children"
  BY <1>4, <1>5, <1>6 DEF stage, Idle
<1>8. Depth(c) - 1 = Depth(stack[k].node) /\ Depth(c) \in Nat
  BY <1>1, <1>2, LineageFacts
<1>9. \A i \in 1..k : Depth(stack[i].node) < Depth(c)
  <2>1. \A i \in 1..k : i = k \/ i < k
    BY <1>2
  <2>2. \A i \in 1..k : i = k \/ Depth(stack[i].node) < Depth(stack[k].node)
    BY <1>2, <2>1 DEF CallInv
  <2>3. \A x \in Nodes \cup {Root} : Depth(x) \in Nat
    BY LineageFacts DEF Depth
  <2>4. \A i \in 1..k : Depth(stack[i].node) \in Nat
    BY <1>2, <2>3 DEF Calls
  <2> HIDE DEF k
  <2> QED BY <1>2, <1>8, <2>2, <2>4
<1>10. CallInv'
  <2>1. \A i \in 1..k + 1 : i = k + 1 \/ i \in 1..k
    BY <1>2
  <2>2. \A i \in 1..k : stack'[i] = stack[i] /\ i < k + 1 /\ ~(i < k) => i = k
    BY <1>2, <1>4
  <2>3. \A i \in 1..k + 1 : stack'[i].at \in 1..Len(Plan[stack'[i].op])
    BY <1>4, <1>6, <2>1 DEF CallInv
  <2>4. \A i \in 1..k + 1 : i > 1 => stack'[i].op = "clear_child"
    BY <1>4, <2>1 DEF CallInv
  <2>5. \A i \in 1..k + 1 : i < k + 1 => Plan[stack'[i].op][stack'[i].at] = "children"
    <3>1. \A i \in 1..k : i = k \/ i < k
      BY <1>2
    <3>2. \A i \in 1..k : Plan[stack[i].op][stack[i].at] = "children"
      BY <1>1, <1>2, <3>1 DEF CallInv, Stage
    <3>3. ~(k + 1 < k + 1)
      BY <1>2
    <3> QED BY <1>4, <2>1, <3>2, <3>3
  <2>6. ASSUME NEW i \in 1..k + 1, NEW j \in 1..k + 1, i < j
        PROVE  Depth(stack'[i].node) < Depth(stack'[j].node)
    <3>1. i \in 1..k
      BY <1>2, <2>6
    <3>2. CASE j = k + 1
      BY <1>4, <1>9, <3>1, <3>2
    <3>3. CASE j # k + 1
      BY <1>4, <2>1, <2>6, <3>1, <3>3 DEF CallInv
    <3> QED BY <3>2, <3>3
  <2> QED BY <1>4, <2>3, <2>4, <2>5, <2>6 DEF CallInv, Stage
<1> QED BY <1>1, <1>2, <1>4, <1>5, <1>7, <1>10

-----------------------------------------------------------------------------
(* What the steps do to the tree and to the calls.                         *)

Still == UNCHANGED <<kind, node, name, clash, stack>>

(* A call that takes nothing out of the tree by itself.                    *)
Asking ==
    \E o \in Operations \ Removals, n \in Nodes \cup {Root} :
        /\ Begin(o, n) /\ UNCHANGED <<kind, node, clash, param, made, todo, index, reader>>
        /\ o = "remove_parameter" => kind = "generic" /\ n \in Nodes /\ node[n] = "attached"
        /\ \/ name' = name
           \/ /\ o = "renamed" /\ n \in Nodes
              /\ \E nm \in Names \ SiblingNames(n) : name' = [name EXCEPT ![n] = nm]

(* A call that goes on to its next stage, with the nodes as they are.      *)
Walking ==
    /\ ~Idle /\ Proceed
    /\ stage \notin {"destroy", "teardown"}
    /\ stage = "children" => Children(Top.node) = {}
    /\ UNCHANGED <<kind, node, name, clash>>

(* The guard of the steps of the calls, as a stage.                        *)
LEMMA StageIn ==
  ASSUME NEW s, In(s)
  PROVE  ~Idle /\ stage = s
BY DEF In, stage

(* Each step is one of those, as far as the nodes are concerned.           *)
LEMMA StepCases ==
  ASSUME [Next]_vars
  PROVE  \/ Still
         \/ \E n \in Nodes, nm \in Names : CreateChild(n, nm) \/ AddDeferred(n, nm)
         \/ Asking
         \/ \E n \in Nodes : RemoveChild(n) \/ ClearChild(n)
         \/ Walking
         \/ Destroy \/ Teardown
<1>1. {"remove_parameter", "clear_children", "renamed", "deferred", "close"}
        \subseteq Operations \ Removals
  BY DEF Operations, Plan, Removals
<1>2. CASE UNCHANGED vars
  BY <1>2 DEF vars, editor, tree, Still
<1>3. CASE Receive
  BY <1>3 DEF Receive, Apply, Return, editor, tree, Still
<1>4. CASE Request
  <2>1. ASSUME NEW n \in Nodes, NEW nm \in Names, Rename(n, nm)
        PROVE  Asking
    BY <1>1, <2>1 DEF Rename, Asking
  <2>2. ASSUME NEW n \in Nodes, RemoveParameter(n)
        PROVE  Asking
    BY <1>1, <2>2 DEF RemoveParameter, tree, Asking
  <2>3. ASSUME NEW n \in Nodes, CreateParameter(n)
        PROVE  Still
    BY <2>3 DEF CreateParameter, Still
  <2>4. ASSUME NEW t \in Nodes \cup {Root}, ClearChildren(t)
        PROVE  Asking
    BY <1>1, <2>4 DEF ClearChildren, tree, Asking
  <2>5. CASE RenameDevice \/ ApplyDeferred \/ Close
    BY <1>1, <2>5 DEF RenameDevice, ApplyDeferred, Close, tree, Asking
  <2> QED BY <1>4, <2>1, <2>2, <2>3, <2>4, <2>5 DEF Request
<1>5. CASE Work
  <2>1. ASSUME NEW n \in Nodes, Insert(n)
        PROVE  Still
    BY <2>1 DEF Insert, tree, Still
  <2>2. ASSUME NEW a \in Addresses, Sweep(a)
        PROVE  Still
    BY <2>2 DEF Sweep, editor, tree, Still
  <2>3. CASE ChildrenCleared
    BY <2>3, StageIn DEF ChildrenCleared, tree, Walking
  <2>4. CASE Announce
    BY <2>4, StageIn DEF Announce, tree, Walking
  <2>5. CASE Release
    BY <2>5, StageIn DEF Release, Walking
  <2>6. CASE SweepEnds
    BY <2>6, StageIn DEF SweepEnds, tree, Walking
  <2>7. CASE Built
    BY <2>7, StageIn DEF Built, tree, Walking
  <2>8. CASE Clear
    BY <2>8, StageIn DEF Clear, tree, Walking
  <2>9. CASE Collect
    BY <2>9, StageIn DEF Collect, tree, Walking
  <2>10. CASE Inserted
    BY <2>10, StageIn DEF Inserted, tree, Walking
  <2> QED BY <1>5, <2>1, <2>2, <2>3, <2>4, <2>5, <2>6, <2>7, <2>8, <2>9, <2>10 DEF Work
<1> QED BY <1>2, <1>3, <1>4, <1>5 DEF Next

(* The stages that an operation goes through, and the calls that are alone *)
(* on the stack.                                                           *)
LEMMA StageOf ==
  ASSUME TypeOK, CallInv, ~Idle
  PROVE  /\ \/ \E s : <<Top.op, stage, s>> \in Follows
            \/ <<Top.op, stage>> \in Lasts
         /\ Top.op # "clear_child" => Len(stack) = 1
         /\ \A i \in 1..Len(stack) : stack[i].op = "remove_parameter" => i = Len(stack)
         /\ \A i \in 1..Len(stack) : i # Len(stack) =>
              Depth(stack[i].node) # Depth(Top.node)

<1> DEFINE k == Len(stack)
<1>1. /\ k \in Nat \ {0} /\ k \in 1..k /\ Top = stack[k] /\ Top.op \in Operations
      /\ Top.at \in 1..Len(Plan[Top.op]) /\ stage = Plan[Top.op][Top.at]
      /\ \A i \in 1..k : stack[i] \in Calls
  BY TopIsCall
<1>2. \/ \E s : <<Top.op, stage, s>> \in Follows
      \/ <<Top.op, stage>> \in Lasts
  <2> DEFINE l == Len(Plan[Top.op])
  <2>1. Top.at < l \/ Top.at = l
    <3>1. l \in 1..5 /\ Top.at \in 1..l
      BY <1>1, Plans
    <3> HIDE DEF l
    <3> QED BY <3>1
  <2> QED BY <1>1, <2>1, Plans
<1>3. ASSUME Top.op # "clear_child"
      PROVE  k = 1
  <2>1. ~(k > 1)
    BY <1>1, <1>3 DEF CallInv
  <2> HIDE DEF k
  <2> QED BY <1>1, <2>1
<1>4. ASSUME NEW i \in 1..k, stack[i].op = "remove_parameter"
      PROVE  i = k
  <2>1. ASSUME i < k
        PROVE  FALSE
    <3>1. Stage(i) = "children" /\ stack[i].at \in 1..Len(Plan[stack[i].op])
      BY <2>1 DEF CallInv
    <3>2. Plan["remove_parameter"] = <<"announce", "release">>
      BY DEF Plan
    <3> QED BY <1>4, <3>1, <3>2 DEF Stage
  <2> QED BY <1>1, <2>1
<1>5. ASSUME NEW i \in 1..k, i # k
      PROVE  Depth(stack[i].node) # Depth(Top.node)
  <2>1. i < k
    BY <1>1, <1>5
  <2>2. Depth(stack[i].node) < Depth(Top.node)
    BY <1>1, <2>1 DEF CallInv
  <2>3. \A x \in Nodes \cup {Root} : Depth(x) \in Nat
    BY LineageFacts DEF Depth
  <2>4. Depth(stack[i].node) \in Nat /\ Depth(Top.node) \in Nat
    BY <1>1, <2>3 DEF Calls
  <2> QED BY <2>2, <2>4
<1> QED BY <1>2, <1>3, <1>4, <1>5

(* The calls stay in order.                                                *)
LEMMA CallsStep ==
  ASSUME TypeOK, CallInv, [Next]_vars
  PROVE  stack' \in Seq(Calls) /\ CallInv'
<1>1. ASSUME stack' = stack
      PROVE  stack' \in Seq(Calls) /\ CallInv'
  <2>1. stack \in Seq(Calls)
    BY DEF TypeOK, Calls
  <2> QED BY <1>1, <2>1 DEF CallInv, Stage
<1>2. CASE Still
  BY <1>1, <1>2 DEF Still
<1>3. ASSUME NEW n \in Nodes, NEW nm \in Names, CreateChild(n, nm) \/ AddDeferred(n, nm)
      PROVE  stack' \in Seq(Calls) /\ CallInv'
  BY <1>1, <1>3 DEF CreateChild, AddDeferred
<1>4. CASE Asking
  BY <1>4, Begun DEF Asking
<1>5. ASSUME NEW n \in Nodes, RemoveChild(n)
      PROVE  stack' \in Seq(Calls) /\ CallInv'
  <2>1. "remove_child" \in Operations /\ Begin("remove_child", n)
    BY <1>5 DEF RemoveChild, Operations, Plan
  <2> QED BY <2>1, Begun
<1>6. ASSUME NEW n \in Nodes, ClearChild(n)
      PROVE  stack' \in Seq(Calls) /\ CallInv'
  BY <1>6, Pushed
<1>7. CASE Walking
  BY <1>7, Advance DEF Walking
<1>8. CASE Destroy \/ Teardown
  BY <1>8, Advance, StageIn DEF Destroy, Teardown
<1> QED BY <1>2, <1>3, <1>4, <1>5, <1>6, <1>7, <1>8, StepCases

(* A node that is out of the tree is being removed.                        *)
LEMMA DetachedStep ==
  ASSUME TypeOK, CallInv, DetachedInv, [Next]_vars
  PROVE  DetachedInv'
<1> USE DEF Removals
<1>0. node \in [Nodes -> {"none", "attached", "detached", "destroyed"}]
  BY DEF TypeOK
<1>1. ASSUME Idle
      PROVE  \A n \in Nodes : node[n] # "detached"
  <2>1. stack = <<>> /\ Len(stack) = 0
    BY <1>1 DEF Idle
  <2> QED BY <2>1 DEF DetachedInv
<1>2. CASE Still
  BY <1>2 DEF Still, DetachedInv
<1>3. ASSUME NEW n \in Nodes, NEW nm \in Names, CreateChild(n, nm)
      PROVE  DetachedInv'
  <2>1. /\ stack' = stack /\ kind' = kind /\ Len(stack) = 0
        /\ node' = [node EXCEPT ![n] = "attached"]
    BY <1>3 DEF CreateChild, Idle
  <2>2. \A m \in Nodes : node'[m] # "detached"
    BY <1>0, <1>1, <1>3, <2>1 DEF CreateChild
  <2>3. \A i \in 1..Len(stack') : FALSE
    BY <2>1
  <2> QED BY <2>2, <2>3 DEF DetachedInv
<1>4. ASSUME NEW n \in Nodes, NEW nm \in Names, AddDeferred(n, nm)
      PROVE  DetachedInv'
  <2>1. /\ ~Idle /\ stage = "build" /\ stack' = stack /\ kind' = kind
        /\ node[n] = "none" /\ node' = [node EXCEPT ![n] = "attached"]
    BY <1>4, StageIn DEF AddDeferred
  <2> QED BY <1>0, <2>1 DEF DetachedInv
<1>5. CASE Asking
  <2>1. PICK o \in Operations \ Removals, n \in Nodes \cup {Root} :
          /\ Begin(o, n) /\ UNCHANGED <<kind, node>>
          /\ o = "remove_parameter" => kind = "generic" /\ n \in Nodes /\ node[n] = "attached"
    BY <1>5 DEF Asking
  <2>2. Idle /\ Len(stack') = 1 /\ stack'[1].op = o /\ stack'[1].node = n
    BY <2>1, Begun
  <2>3. \A i \in 1..Len(stack') : i = 1
    BY <2>2
  <2> QED BY <1>1, <2>1, <2>2, <2>3 DEF DetachedInv
<1>6. ASSUME NEW n \in Nodes, RemoveChild(n)
      PROVE  DetachedInv'
  <2>1. /\ "remove_child" \in Operations /\ Begin("remove_child", n)
        /\ node' = [node EXCEPT ![n] = "detached"]
    BY <1>6 DEF RemoveChild, Operations, Plan
  <2>2. /\ Idle /\ Len(stack') = 1 /\ stack'[1].op = "remove_child"
        /\ stack'[1].node = n
    BY <2>1, Begun
  <2>3. 1 \in 1..Len(stack') /\ \A i \in 1..Len(stack') : i = 1
    BY <2>2
  <2> QED BY <1>0, <1>1, <2>1, <2>2, <2>3 DEF DetachedInv
<1>7. ASSUME NEW c \in Nodes, ClearChild(c)
      PROVE  DetachedInv'
  <2> DEFINE k == Len(stack)
  <2>1. /\ ~Idle /\ stage = "children" /\ Len(stack') = k + 1 /\ node[c] = "attached"
        /\ \A i \in 1..k : stack'[i] = stack[i]
        /\ stack'[k + 1].op = "clear_child" /\ stack'[k + 1].node = c
    BY <1>7, Pushed
  <2>2. node' = [node EXCEPT ![c] = "detached"] /\ kind' = kind
    BY <1>7 DEF ClearChild
  <2>3. k \in Nat \ {0} /\ k + 1 \in 1..k + 1 /\ \A i \in 1..k + 1 : i = k + 1 \/ i \in 1..k
    BY <2>1, TopIsCall
  <2>4. \A i \in 1..k : i \in 1..k + 1
    BY <2>3
  <2>5. \A i \in 1..k : stack[i].op # "remove_parameter"
    <3>1. ASSUME NEW i \in 1..k, stack[i].op = "remove_parameter"
          PROVE  FALSE
      <4>1. Top = stack[i]
        BY <2>1, <3>1, StageOf, TopIsCall
      <4>2. <<"remove_parameter", stage>> \in Lasts \/ \E s : <<"remove_parameter", stage, s>> \in Follows
        BY <2>1, <3>1, <4>1, StageOf
      <4> QED BY <2>1, <4>2 DEF Lasts, Follows
    <3> QED BY <3>1
  <2>6. \A i \in 1..k + 1 : stack'[i].op \in Removals =>
          stack'[i].node \in Nodes /\ node'[stack'[i].node] = "detached"
    BY <1>0, <2>1, <2>2, <2>3 DEF DetachedInv
  <2>7. \A n \in Nodes : node'[n] = "detached" =>
          \E i \in 1..k + 1 : stack'[i].node = n /\ stack'[i].op \in Removals
    BY <1>0, <2>1, <2>2, <2>3, <2>4 DEF DetachedInv
  <2>8. \A i \in 1..k + 1 : stack'[i].op # "remove_parameter"
    BY <2>1, <2>3, <2>5
  <2> QED BY <2>1, <2>6, <2>7, <2>8 DEF DetachedInv
<1>8. ASSUME ~Idle, Proceed
      PROVE  /\ Len(stack) \in Nat \ {0} /\ Top = stack[Len(stack)]
             /\ Len(stack) \in 1..Len(stack)
             /\ \/ Continued /\ <<Top.op, stage, stage'>> \in Follows
                \/ Popped /\ <<Top.op, stage>> \in Lasts
  BY <1>8, Advance, TopIsCall
<1>9. CASE Walking
  <2>1. /\ ~Idle /\ Proceed /\ stage \notin {"destroy", "teardown"}
        /\ node' = node /\ kind' = kind
    BY <1>9 DEF Walking
  <2>2. CASE Continued
    BY <2>1, <2>2 DEF Continued, DetachedInv
  <2>3. CASE Popped /\ <<Top.op, stage>> \in Lasts
    <3> DEFINE k == Len(stack)
    <3>1. Top.op \notin Removals
      BY <2>1, <2>3 DEF Lasts
    <3>2. /\ Len(stack') = k - 1 /\ Top = stack[k] /\ k \in Nat \ {0}
          /\ \A i \in 1..k - 1 : stack'[i] = stack[i] /\ i \in 1..k
          /\ \A i \in 1..k : i = k \/ i \in 1..k - 1
      BY <1>8, <2>1, <2>3 DEF Popped
    <3>3. \A i \in 1..k : stack[i].op \in Removals => i \in 1..k - 1
      BY <3>1, <3>2
    <3> HIDE DEF k
    <3>4. \A i \in 1..k - 1 : stack'[i].op \in Removals =>
            stack'[i].node \in Nodes /\ node'[stack'[i].node] = "detached"
      BY <2>1, <3>2 DEF DetachedInv, k
    <3>5. \A n \in Nodes : node'[n] = "detached" =>
            \E i \in 1..k - 1 : stack'[i].node = n /\ stack'[i].op \in Removals
      <4> SUFFICES ASSUME NEW n \in Nodes, node'[n] = "detached"
                   PROVE  \E i \in 1..k - 1 : stack'[i].node = n /\ stack'[i].op \in Removals
        OBVIOUS
      <4>1. PICK i \in 1..k : stack[i].node = n /\ stack[i].op \in Removals
        BY <2>1 DEF DetachedInv, k
      <4> QED BY <3>2, <3>3, <4>1
    <3>6. \A i \in 1..k - 1 : stack'[i].op = "remove_parameter" =>
            kind' = "generic" /\ stack'[i].node \in Nodes /\ node'[stack'[i].node] = "attached"
      BY <2>1, <3>2 DEF DetachedInv, k
    <3> QED BY <3>2, <3>4, <3>5, <3>6 DEF DetachedInv
  <2> QED BY <1>8, <2>1, <2>2, <2>3
<1>10. CASE Destroy
  <2>1. /\ ~Idle /\ stage = "destroy" /\ Proceed /\ kind' = kind
        /\ node' = [node EXCEPT ![Top.node] = "destroyed"]
    BY <1>10, StageIn DEF Destroy
  <2>2. <<Top.op, stage>> \in Lasts /\ Popped /\ Top.op \in Removals
    BY <1>8, <2>1 DEF Follows, Lasts
  <2> DEFINE k == Len(stack)
  <2>3. /\ Len(stack') = k - 1 /\ Top = stack[k] /\ k \in Nat \ {0}
        /\ \A i \in 1..k - 1 : stack'[i] = stack[i] /\ i \in 1..k /\ i # k
        /\ \A i \in 1..k : i = k \/ i \in 1..k - 1
    BY <1>8, <2>1, <2>2 DEF Popped
  <2>4. \A i \in 1..k - 1 : stack[i].node # Top.node
    BY <2>1, <2>3, StageOf
  <2>5. \A i \in 1..k - 1 : stack[i].op # "remove_parameter"
    BY <2>1, <2>3, StageOf
  <2>6. Top.node \in Nodes /\ \A i \in 1..k - 1 : stack[i].op \in Removals =>
          stack[i].node \in Nodes /\ node'[stack[i].node] = "detached"
    BY <1>0, <1>8, <2>1, <2>2, <2>3, <2>4 DEF DetachedInv
  <2>7. ASSUME NEW n \in Nodes, node'[n] = "detached"
        PROVE  \E i \in 1..k - 1 : stack[i].node = n /\ stack[i].op \in Removals
    <3>1. n # Top.node /\ node[n] = "detached"
      BY <1>0, <2>1, <2>6, <2>7
    <3>2. PICK i \in 1..k : stack[i].node = n /\ stack[i].op \in Removals
      BY <3>1 DEF DetachedInv
    <3> QED BY <2>3, <3>1, <3>2
  <2>8. /\ \A i \in 1..k - 1 : stack'[i].op \in Removals =>
              stack'[i].node \in Nodes /\ node'[stack'[i].node] = "detached"
        /\ \A n \in Nodes : node'[n] = "detached" =>
              \E i \in 1..k - 1 : stack'[i].node = n /\ stack'[i].op \in Removals
        /\ \A i \in 1..k - 1 : stack'[i].op # "remove_parameter"
    <3> HIDE DEF k
    <3>1. \A i \in 1..k - 1 : stack'[i].op \in Removals =>
            stack'[i].node \in Nodes /\ node'[stack'[i].node] = "detached"
      BY <2>3, <2>6
    <3>2. \A n \in Nodes : node'[n] = "detached" =>
            \E i \in 1..k - 1 : stack'[i].node = n /\ stack'[i].op \in Removals
      BY <2>3, <2>7
    <3>3. \A i \in 1..k - 1 : stack'[i].op # "remove_parameter"
      BY <2>3, <2>5
    <3> QED BY <3>1, <3>2, <3>3
  <2> HIDE DEF k
  <2> QED BY <2>3, <2>8 DEF DetachedInv
<1>11. CASE Teardown
  <2>1. /\ ~Idle /\ stage = "teardown" /\ Proceed /\ node' = [n \in Nodes |-> "destroyed"]
    BY <1>11, StageIn DEF Teardown
  <2>2. <<Top.op, stage, stage'>> \in Follows /\ Continued /\ Top.op = "close"
    BY <1>8, <2>1 DEF Follows, Lasts
  <2>3. Len(stack) = 1 /\ Top = stack[1]
    BY <1>8, <2>1, <2>2, StageOf
  <2>4. \A i \in 1..Len(stack') : stack'[i].op = "close"
    BY <2>2, <2>3 DEF Continued
  <2> QED BY <2>1, <2>4 DEF DetachedInv
<1> QED BY <1>2, <1>3, <1>4, <1>5, <1>6, <1>7, <1>9, <1>10, <1>11, StepCases

(* What is not attached is not alive but below a call of a removal.        *)
LEMMA OneCall ==
  ASSUME TypeOK, CallInv, DetachedInv, Idle \/ Top.op \notin Removals \cup {"clear_children"}
  PROVE  \A n \in Nodes : Live(n) => node[n] = "attached"
<1> SUFFICES ASSUME NEW n \in Nodes, node[n] = "detached"
             PROVE  FALSE
  BY DEF Live
<1>1. PICK i \in 1..Len(stack) : stack[i].node = n /\ stack[i].op \in Removals
  BY DEF DetachedInv
<1>2. CASE Idle
  BY <1>1, <1>2 DEF Idle
<1>3. CASE ~Idle /\ Top.op \notin Removals
  <2>1. Len(stack) = 1 /\ Top = stack[Len(stack)]
    BY <1>3, StageOf, TopIsCall DEF Removals
  <2>2. i = 1
    BY <2>1
  <2> QED BY <1>1, <1>3, <2>1, <2>2
<1> QED BY <1>2, <1>3

(* When the children of a removed node are cleared, nothing lives below it.*)
LEMMA NothingBelow ==
  ASSUME TypeOK, CallInv, DetachedInv, ~Idle, Children(Top.node) = {},
         NEW c \in Nodes, Parent(c) = Top.node
  PROVE  ~Live(c)
<1>1. node[c] # "attached"
  BY DEF Children
<1>2. ASSUME node[c] = "detached"
      PROVE  FALSE
  <2>1. PICK i \in 1..Len(stack) : stack[i].node = c /\ stack[i].op \in Removals
    BY <1>2 DEF DetachedInv
  <2>2. Depth(Top.node) = Depth(c) - 1 /\ Depth(c) \in Nat
    BY LineageFacts
  <2>3. Top = stack[Len(stack)] /\ Len(stack) \in Nat \ {0} /\ Len(stack) \in 1..Len(stack)
    BY TopIsCall
  <2>4. i = Len(stack) \/ i < Len(stack)
    BY <2>3
  <2>5. i = Len(stack) \/ Depth(c) < Depth(Top.node)
    BY <2>1, <2>3, <2>4 DEF CallInv
  <2> QED BY <2>1, <2>2, <2>3, <2>5
<1> QED BY <1>1, <1>2 DEF Live

(* The nodes that live, after each step.                                   *)
LEMMA LiveStep ==
  ASSUME TypeOK, [Next]_vars
  PROVE  \/ \A n \in Nodes : Live(n)' <=> Live(n)
         \/ \E n \in Nodes, nm \in Names :
              /\ CreateChild(n, nm) \/ AddDeferred(n, nm)
              /\ ~Live(n) /\ \A m \in Nodes : Live(m)' <=> Live(m) \/ m = n
         \/ /\ Destroy
            /\ \A m \in Nodes : Live(m)' <=> Live(m) /\ m # Top.node
         \/ Teardown /\ \A n \in Nodes : ~Live(n)'
<1>0. node \in [Nodes -> {"none", "attached", "detached", "destroyed"}]
  BY DEF TypeOK
<1>1. CASE Still \/ Asking \/ Walking
  BY <1>1 DEF Still, Asking, Walking, Live
<1>2. ASSUME NEW n \in Nodes, NEW nm \in Names, CreateChild(n, nm) \/ AddDeferred(n, nm)
      PROVE  ~Live(n) /\ \A m \in Nodes : Live(m)' <=> Live(m) \/ m = n
  BY <1>0, <1>2 DEF CreateChild, AddDeferred, Live
<1>3. ASSUME NEW n \in Nodes, RemoveChild(n) \/ ClearChild(n)
      PROVE  \A m \in Nodes : Live(m)' <=> Live(m)
  BY <1>0, <1>3 DEF RemoveChild, ClearChild, Children, Live
<1>4. CASE Destroy
  BY <1>0, <1>4 DEF Destroy, Live
<1>5. CASE Teardown
  BY <1>5 DEF Teardown, Live
<1> QED BY <1>1, <1>2, <1>3, <1>4, <1>5, StepCases

(* Nothing is made below a node that does not live, or destroyed above one *)
(* that does.                                                              *)
LEMMA AncestorsStep ==
  ASSUME TypeOK, CallInv, DetachedInv, TreeInv, [Next]_vars
  PROVE  AncestorsLive'
<1> USE DEF TreeInv
<1>1. CASE \A n \in Nodes : Live(n)' <=> Live(n)
  BY <1>1, LineageFacts DEF AncestorsLive
<1>2. ASSUME NEW n \in Nodes, NEW nm \in Names, CreateChild(n, nm) \/ AddDeferred(n, nm),
             \A m \in Nodes : Live(m)' <=> Live(m) \/ m = n
      PROVE  AncestorsLive'
  <2> DEFINE k == Len(Lineage[n])
  <2>1. \A i \in 1..k : Lineage[n][i] \in Nodes
    BY LineageFacts
  <2>2. ASSUME NEW i \in 1..k
        PROVE  Live(Lineage[n][i]) \/ Lineage[n][i] = n
    <3>1. CASE i = k
      BY <3>1, LineageFacts
    <3>2. CASE i # k
      <4>1. k \in Nat \ {0} /\ k \in 1..k /\ k # 1 /\ k - 1 \in 1..k /\ i \in 1..k - 1
        <5>1. k \in Nat \ {0}
          BY LineageFacts
        <5> HIDE DEF k
        <5> QED BY <3>2, <5>1
      <4>2. /\ Lineage[n][k] = n /\ Parent(n) = Lineage[n][k - 1]
            /\ Parent(n) \in Nodes /\ Len(Lineage[Parent(n)]) = k - 1
            /\ Lineage[Parent(n)][i] = Lineage[n][i] /\ Parent(n) # Root
        <5>1. /\ Lineage[n][k] = n
              /\ \A j \in 1..k :
                   /\ Lineage[n][j] \in Nodes /\ Len(Lineage[Lineage[n][j]]) = j
                   /\ \A l \in 1..j : Lineage[Lineage[n][j]][l] = Lineage[n][l]
                   /\ Parent(Lineage[n][j]) = IF j = 1 THEN Root ELSE Lineage[n][j - 1]
          BY LineageFacts
        <5>2. Root \notin Nodes
          BY TreeAssumption
        <5> HIDE DEF k
        <5>3. Parent(n) = Lineage[n][k - 1]
          BY <4>1, <5>1
        <5>4. /\ Lineage[n][k - 1] \in Nodes /\ Len(Lineage[Lineage[n][k - 1]]) = k - 1
              /\ Lineage[Lineage[n][k - 1]][i] = Lineage[n][i]
          BY <4>1, <5>1
        <5> QED BY <5>1, <5>2, <5>3, <5>4
      <4>3. Live(Parent(n))
        BY <1>2, <4>2 DEF CreateChild, AddDeferred, InTree, Live
      <4> QED BY <4>1, <4>2, <4>3 DEF AncestorsLive
    <3> QED BY <3>1, <3>2
  <2> QED BY <1>2, <2>1, <2>2, LineageFacts DEF AncestorsLive
<1>3. ASSUME Destroy, \A m \in Nodes : Live(m)' <=> Live(m) /\ m # Top.node
      PROVE  AncestorsLive'
  <2>1. ~Idle /\ stage = "destroy"
    BY <1>3, StageIn DEF Destroy
  <2>2. Top.op \in Removals
    BY <2>1, StageOf DEF Lasts, Follows, Removals
  <2>3. \A c \in Nodes : Parent(c) = Top.node => ~Live(c)
    BY <2>1, <2>2 DEF Childless
  <2> SUFFICES ASSUME NEW n \in Nodes, Live(n), n # Top.node, NEW i \in 1..Len(Lineage[n])
               PROVE  Live(Lineage[n][i]) /\ Lineage[n][i] # Top.node
    BY ZenonT(60), <1>3, LineageFacts DEF AncestorsLive
  <2>4. Live(Lineage[n][i])
    BY DEF AncestorsLive
  <2>5. ASSUME Lineage[n][i] = Top.node
        PROVE  FALSE
    <3>1. Len(Lineage[n]) \in Nat \ {0} /\ i # Len(Lineage[n])
      BY <2>5, LineageFacts
    <3>2. i + 1 \in 1..Len(Lineage[n]) /\ i + 1 # 1 /\ i + 1 - 1 = i
      BY <3>1
    <3>3. Lineage[n][i + 1] \in Nodes /\ Parent(Lineage[n][i + 1]) = Lineage[n][i]
      BY <3>2, LineageFacts
    <3>4. Live(Lineage[n][i + 1])
      BY <3>2 DEF AncestorsLive
    <3> QED BY <2>3, <2>5, <3>3, <3>4
  <2> QED BY <2>4, <2>5
<1>4. CASE \A n \in Nodes : ~Live(n)'
  BY <1>4 DEF AncestorsLive
<1> QED BY <1>1, <1>2, <1>3, <1>4, LiveStep

(* Nothing is made below a node that has cleared its children.             *)
LEMMA ChildlessStep ==
  ASSUME TypeOK, CallInv, DetachedInv, TreeInv, [Next]_vars
  PROVE  Childless'
<1> USE DEF TreeInv
<1>2. CASE Still
  BY <1>2 DEF Still, Childless, Live, stage, Idle, Top
<1>3. ASSUME NEW n \in Nodes, NEW nm \in Names, CreateChild(n, nm)
      PROVE  Childless'
  BY <1>3 DEF CreateChild, Childless, Idle
<1>4. ASSUME NEW n \in Nodes, NEW nm \in Names, AddDeferred(n, nm)
      PROVE  Childless'
  <2>1. ~Idle /\ stage = "build" /\ stack' = stack
    BY <1>4, StageIn DEF AddDeferred
  <2>2. Top.op = "deferred"
    BY <2>1, StageOf DEF Follows, Lasts
  <2>3. Top' = Top
    BY <2>1 DEF Top
  <2> QED BY <2>2, <2>3 DEF Childless, Removals
<1>5. CASE Asking
  BY <1>5, Begun DEF Asking, Childless
<1>6. ASSUME NEW n \in Nodes, RemoveChild(n)
      PROVE  Childless'
  <2>1. "remove_child" \in Operations /\ Begin("remove_child", n)
    BY <1>6 DEF RemoveChild, Operations, Plan
  <2>2. stage' = "children"
    BY <2>1, Begun, FirstStage DEF Removals
  <2> QED BY <2>2 DEF Childless
<1>7. ASSUME NEW n \in Nodes, ClearChild(n)
      PROVE  Childless'
  BY <1>7, Pushed DEF Childless
<1>8. ASSUME Popped
      PROVE  Childless'
  BY <1>8 DEF Popped, Childless
<1>9. CASE Walking
  <2>1. ~Idle /\ Proceed /\ node' = node
    BY <1>9 DEF Walking
  <2>2. CASE Continued
    <3>1. Top'.op = Top.op /\ Top'.node = Top.node
      BY <2>2 DEF Continued
    <3>2. CASE stage = "children"
      <4>1. \A c \in Nodes : Parent(c) = Top.node => ~Live(c)
        BY <1>9, <2>1, <3>2, NothingBelow DEF Walking
      <4> QED BY <2>1, <3>1, <4>1 DEF Childless, Live
    <3>3. CASE stage # "children"
      BY <2>1, <3>1, <3>3 DEF Childless, Live
    <3> QED BY <3>2, <3>3
  <2> QED BY <1>8, <2>1, <2>2, Advance
<1>10. CASE Destroy
  <2>1. ~Idle /\ stage = "destroy" /\ Proceed
    BY <1>10, StageIn DEF Destroy
  <2> QED BY <1>8, <2>1, Advance DEF Follows
<1>11. CASE Teardown
  <2>1. ~Idle /\ stage = "teardown" /\ Proceed
    BY <1>11, StageIn DEF Teardown
  <2>2. CASE Continued
    BY <2>1, <2>2, Advance, StageOf DEF Follows, Lasts, Continued, Childless, Removals
  <2> QED BY <1>8, <2>1, <2>2, Advance
<1> QED BY <1>2, <1>3, <1>4, <1>5, <1>6, <1>7, <1>9, <1>10, <1>11, StepCases

(* A node takes a name that none of its siblings has, or clash says so.    *)
LEMMA UniqueNamesStep ==
  ASSUME TypeOK, CallInv, DetachedInv, TreeInv, [Next]_vars
  PROVE  UniqueNames'
<1> USE DEF TreeInv
<1>0. name \in [Nodes -> Names]
  BY DEF TypeOK
<1>1. ASSUME \A m \in Nodes : Live(m)' => Live(m), name' = name, clash' = clash
      PROVE  UniqueNames'
  BY <1>1 DEF UniqueNames
<1>2. ASSUME NEW n \in Nodes, NEW nm \in Names, ~clash' => ~clash,
             ~clash' => nm \notin SiblingNames(n), name' = [name EXCEPT ![n] = nm],
             \A m \in Nodes : Live(m)' => Live(m) \/ m = n,
             \A m \in Nodes : Live(m) => node[m] = "attached"
      PROVE  UniqueNames'
  <2> SUFFICES ASSUME ~clash', NEW c \in Nodes, NEW d \in Nodes, Live(c)', Live(d)',
                      Parent(c) = Parent(d), c # d
               PROVE  name'[c] # name'[d]
    BY DEF UniqueNames
  <2>1. \A m \in Nodes \ {n} : Live(m) /\ Parent(m) = Parent(n) => name[m] # nm
    BY <1>2 DEF SiblingNames, Children
  <2>2. name'[n] = nm /\ \A m \in Nodes : m # n => name'[m] = name[m]
    BY <1>0, <1>2
  <2> QED BY <1>2, <2>1, <2>2 DEF UniqueNames
<1>3. CASE Still \/ Walking
  BY <1>1, <1>3 DEF Still, Walking, Live
<1>4. ASSUME NEW n \in Nodes, NEW nm \in Names, CreateChild(n, nm)
      PROVE  UniqueNames'
  <2>1. \A m \in Nodes : Live(m)' => Live(m) \/ m = n
    BY <1>4 DEF CreateChild, Live, TypeOK
  <2>2. Idle /\ clash' = clash /\ nm \notin SiblingNames(n) /\ name' = [name EXCEPT ![n] = nm]
    BY <1>4 DEF CreateChild
  <2> QED BY <1>2, <2>1, <2>2, OneCall
<1>5. ASSUME NEW n \in Nodes, NEW nm \in Names, AddDeferred(n, nm)
      PROVE  UniqueNames'
  <2>1. \A m \in Nodes : Live(m)' => Live(m) \/ m = n
    BY <1>5 DEF AddDeferred, Live, TypeOK
  <2>2. /\ ~Idle /\ stage = "build" /\ name' = [name EXCEPT ![n] = nm]
        /\ clash' = (clash \/ nm \in SiblingNames(n))
    BY <1>5, StageIn DEF AddDeferred
  <2>3. Top.op = "deferred"
    BY <2>2, StageOf DEF Follows, Lasts
  <2>4. \A m \in Nodes : Live(m) => node[m] = "attached"
    BY <2>3, OneCall DEF Removals
  <2> QED BY <1>2, <2>1, <2>2, <2>4
<1>6. CASE Asking
  <2>1. Idle /\ \A m \in Nodes : Live(m)' <=> Live(m)
    BY <1>6 DEF Asking, Begin, Live
  <2>2. \/ name' = name
        \/ \E n \in Nodes : \E nm \in Names \ SiblingNames(n) :
             name' = [name EXCEPT ![n] = nm]
    BY <1>6 DEF Asking
  <2>3. clash' = clash
    BY <1>6 DEF Asking
  <2> QED BY <1>1, <1>2, <2>1, <2>2, <2>3, OneCall
<1>7. ASSUME NEW n \in Nodes, RemoveChild(n) \/ ClearChild(n)
      PROVE  UniqueNames'
  <2>1. \A m \in Nodes : Live(m)' => Live(m)
    BY <1>7 DEF RemoveChild, ClearChild, Children, Live, TypeOK
  <2> QED BY <1>1, <1>7, <2>1 DEF RemoveChild, ClearChild
<1>8. CASE Destroy \/ Teardown
  <2>1. \A m \in Nodes : Live(m)' => Live(m)
    BY <1>8 DEF Destroy, Teardown, Live, TypeOK
  <2> QED BY <1>1, <1>8, <2>1 DEF Destroy, Teardown
<1> QED BY <1>3, <1>4, <1>5, <1>6, <1>7, <1>8, StepCases

(* The variables but the calls keep their types.                           *)
TreeType ==
    /\ node \in [Nodes -> {"none", "attached", "detached", "destroyed"}]
    /\ name \in [Nodes -> Names]
    /\ made \in [Nodes -> 0..MaxMade]
    /\ param \in [Nodes -> 0..MaxMade]
    /\ \A n \in Nodes : param[n] \in {0, made[n]} /\ (param[n] # 0 => Live(n))
IndexType == index \in [Addresses -> Pointers \cup {NoParam}]
ReaderType ==
    reader \in [Readers -> [at : Addresses \cup {<<>>}, param : Pointers \cup {NoParam}]]

(* The types of the tree, action by action.                                *)
LEMMA TreeTypeStep ==
  ASSUME TypeOK, [Next]_vars
  PROVE  TreeType'
<1>0. TreeType /\ MaxMade \in Nat \ {0}
  BY TreeAssumption DEF TypeOK, TreeType
<1> HIDE DEF TypeOK
<1>1. ASSUME UNCHANGED <<node, name, made, param>>
      PROVE  TreeType'
  BY <1>0, <1>1 DEF TreeType, Live
<1>2. CASE UNCHANGED vars \/ Receive
  BY <1>1, <1>2 DEF vars, editor, tree, Receive, Apply, Return
<1>3. ASSUME NEW n \in Nodes, NEW nm \in Names, CreateChild(n, nm) \/ Rename(n, nm)
      PROVE  TreeType'
  BY <1>0, <1>3 DEF TreeType, Live, CreateChild, Rename
<1>4. ASSUME NEW n \in Nodes, CreateParameter(n)
      PROVE  TreeType'
  <2>1. made[n] \in 0..MaxMade /\ made[n] < MaxMade
    BY <1>0, <1>4 DEF TreeType, CreateParameter
  <2>2. made[n] + 1 \in 0..MaxMade
    BY <1>0, <2>1
  <2> QED BY <1>0, <1>4, <2>2 DEF TreeType, Live, CreateParameter
<1>5. ASSUME NEW n \in Nodes, RemoveChild(n) \/ ClearChild(n)
      PROVE  TreeType'
  BY <1>0, <1>5 DEF TreeType, Live, RemoveChild, ClearChild, Children
<1>6. ASSUME NEW n \in Nodes, RemoveParameter(n) \/ Insert(n)
      PROVE  TreeType'
  BY <1>1, <1>6 DEF RemoveParameter, Insert, tree
<1>7. ASSUME NEW n \in Nodes, NEW nm \in Names, AddDeferred(n, nm)
      PROVE  TreeType'
  <2>1. 1 \in 0..MaxMade
    BY <1>0
  <2> QED BY <1>0, <1>7, <2>1 DEF TreeType, Live, AddDeferred
<1>8. CASE Release \/ Destroy \/ Teardown
  <2>1. 0 \in 0..MaxMade
    BY <1>0
  <2>2. CASE Release
    BY <1>0, <2>1, <2>2 DEF TreeType, Live, Release
  <2>3. CASE Destroy
    BY <1>0, <2>1, <2>3 DEF TreeType, Live, Destroy
  <2>4. CASE Teardown
    BY <1>0, <2>1, <2>4 DEF TreeType, Live, Teardown
  <2> QED BY <1>8, <2>2, <2>3, <2>4
<1>9. CASE Work
  <2>1. ASSUME NEW a \in Addresses, Sweep(a)
        PROVE  TreeType'
    BY <1>1, <2>1 DEF Sweep, editor, tree
  <2>2. CASE ChildrenCleared \/ Announce \/ SweepEnds \/ Built \/ Clear \/ Collect \/ Inserted
    BY <1>1, <2>2 DEF ChildrenCleared, Announce, SweepEnds, Built, Clear, Collect, Inserted, tree
  <2> QED BY <1>5, <1>6, <1>7, <1>8, <1>9, <2>1, <2>2 DEF Work
<1>10. CASE Request
  <2>1. ASSUME NEW t \in Nodes \cup {Root}, ClearChildren(t)
        PROVE  TreeType'
    BY <1>1, <2>1 DEF ClearChildren, tree
  <2>2. CASE RenameDevice \/ ApplyDeferred \/ Close
    BY <1>1, <2>2 DEF RenameDevice, ApplyDeferred, Close, tree
  <2> QED BY <1>3, <1>4, <1>5, <1>6, <1>10, <2>1, <2>2 DEF Request
<1> QED BY <1>2, <1>9, <1>10 DEF Next

(* What the steps do to the index: whatever changes an entry waits for its *)
(* callback to return.                                                     *)
LEMMA IndexCases ==
  ASSUME TypeOK, [Next]_vars
  PROVE  \/ index' = index
         \/ \E n \in Nodes : CreateParameter(n) \/ Insert(n)
         \/ Announce /\ Signalled(Top.node) /\ Erase(Address(Top.node))
         \/ \E a \in Addresses : Sweep(a)
         \/ Clear
<1>1. CASE UNCHANGED vars \/ Receive
  BY <1>1 DEF vars, Receive, Apply, Return
<1>2. CASE Request
  BY <1>2 DEF Request, CreateChild, Rename, RemoveParameter, RemoveChild, ClearChildren,
              RenameDevice, ApplyDeferred, Close
<1>3. CASE Work
  <2>1. CASE Announce
    BY <2>1 DEF Announce
  <2> QED BY <1>3, <2>1 DEF Work, ClearChild, AddDeferred, ChildrenCleared, Release,
                            SweepEnds, Destroy, Built, Collect, Inserted, Teardown
<1> QED BY <1>1, <1>2, <1>3 DEF Next

(* The types of all the variables, action by action.                       *)
LEMMA TypeStep ==
  ASSUME TypeOK, CallInv, TodoInv, [Next]_vars
  PROVE  TypeOK'
<1>0. /\ IndexType /\ ReaderType /\ MaxMade \in Nat \ {0}
      /\ param \in [Nodes -> 0..MaxMade] /\ made \in [Nodes -> 0..MaxMade]
  BY TreeAssumption DEF TypeOK, IndexType, ReaderType
<1>1. kind' = kind /\ kind \in DeviceKinds /\ todo \subseteq Nodes /\ clash \in BOOLEAN
  <2>1. CASE UNCHANGED vars \/ Receive
    BY <2>1 DEF vars, editor, tree, Receive, Apply, Return, TypeOK
  <2>2. CASE Request
    BY <2>2 DEF Request, CreateChild, Rename, CreateParameter, RemoveParameter, RemoveChild,
                ClearChildren, RenameDevice, ApplyDeferred, Close, tree, TypeOK
  <2>3. CASE Work
    BY <2>3 DEF Work, ClearChild, Insert, AddDeferred, Sweep, ChildrenCleared, Announce,
                Release, SweepEnds, Destroy, Built, Clear, Collect, Inserted, Teardown,
                tree, editor, TypeOK
  <2> QED BY <2>1, <2>2, <2>3 DEF Next
<1>2. clash' \in BOOLEAN /\ todo' \subseteq Nodes
  <2>1. CASE UNCHANGED vars \/ Receive
    BY <1>1, <2>1 DEF vars, editor, tree, Receive, Apply, Return
  <2>2. CASE Request
    BY <1>1, <2>2 DEF Request, CreateChild, Rename, CreateParameter, RemoveParameter,
                RemoveChild, ClearChildren, RenameDevice, ApplyDeferred, Close, tree
  <2>3. CASE Work
    <3>1. ASSUME NEW n \in Nodes, NEW nm \in Names, AddDeferred(n, nm)
          PROVE  clash' \in BOOLEAN /\ todo' \subseteq Nodes
      BY <1>1, <3>1 DEF AddDeferred
    <3>2. CASE Collect
      BY <1>1, <3>2 DEF Collect, WithParameter, tree
    <3> QED BY <1>1, <2>3, <3>1, <3>2 DEF Work, ClearChild, Insert, Sweep, ChildrenCleared,
                Announce, Release, SweepEnds, Destroy, Built, Clear, Inserted, Teardown,
                tree, editor
  <2> QED BY <2>1, <2>2, <2>3 DEF Next
<1>3. IndexType'
  <2>1. ASSUME NEW n \in Nodes, CreateParameter(n) \/ Insert(n)
        PROVE  IndexType'
    <3>1. CASE CreateParameter(n)
      <4>1. made[n] \in 0..MaxMade /\ made[n] < MaxMade
        BY <1>0, <3>1 DEF CreateParameter
      <4>2. made[n] + 1 \in 1..MaxMade
        BY <1>0, <4>1
      <4>3. <<n, made[n] + 1>> \in Pointers
        BY <4>2 DEF Pointers
      <4> QED BY <1>0, <3>1, <4>3 DEF CreateParameter, Assign, IndexType
    <3>2. CASE Insert(n)
      <4>1. n \in WithParameter
        BY <3>2, StageIn DEF Insert, TodoInv
      <4>2. param[n] \in 0..MaxMade /\ param[n] # 0
        BY <1>0, <4>1 DEF WithParameter
      <4>3. <<n, param[n]>> \in Pointers
        <5>1. param[n] \in 1..MaxMade
          BY <1>0, <4>2
        <5> QED BY <5>1 DEF Pointers
      <4> QED BY <1>0, <3>2, <4>3 DEF Insert, Assign, IndexType
    <3> QED BY <2>1, <3>1, <3>2
  <2>2. ASSUME NEW a, Erase(a)
        PROVE  IndexType'
    BY <1>0, <2>2 DEF Erase, Assign, IndexType
  <2>3. CASE Clear
    BY <2>3 DEF Clear, Cleared, IndexType
  <2> QED BY <1>0, <2>1, <2>2, <2>3, IndexCases DEF IndexType, Sweep
<1>4. ReaderType'
  <2>1. CASE reader' = reader
    BY <1>0, <2>1 DEF ReaderType
  <2>2. ASSUME NEW r \in Readers, Return(r)
        PROVE  ReaderType'
    BY <1>0, <2>2 DEF Return, NotReading, ReaderType
  <2>3. ASSUME NEW r \in Readers, NEW a \in Addresses, Apply(r, a)
        PROVE  ReaderType'
    <3>1. index[a] \in Pointers \cup {NoParam}
      BY <1>0 DEF IndexType
    <3> QED BY <1>0, <2>3, <3>1 DEF Apply, ReaderType
  <2>4. CASE UNCHANGED vars \/ Request \/ Work
    <3>1. reader' = reader
      BY <2>4 DEF vars, editor, Request, CreateChild, Rename, CreateParameter, RemoveParameter,
                RemoveChild, ClearChildren, RenameDevice, ApplyDeferred, Close,
                Work, ClearChild, Insert, AddDeferred, Sweep, ChildrenCleared, Announce,
                Release, SweepEnds, Destroy, Built, Clear, Collect, Inserted, Teardown
    <3> QED BY <2>1, <3>1
  <2> QED BY <2>2, <2>3, <2>4 DEF Next, Receive
<1>5. TreeType' /\ stack' \in Seq(Calls)
  BY TreeTypeStep, CallsStep
<1> QED BY <1>1, <1>2, <1>3, <1>4, <1>5 DEF TypeOK, TreeType, IndexType, ReaderType, Calls

-----------------------------------------------------------------------------
(* The index.                                                              *)

(* A callback holds the entry that it was called for.                      *)
LEMMA LockedStep ==
  ASSUME TypeOK, Locked, [Next]_vars
  PROVE  Locked'
<1>0. /\ index \in [Addresses -> Pointers \cup {NoParam}]
      /\ reader \in [Readers -> [at : Addresses \cup {<<>>}, param : Pointers \cup {NoParam}]]
  BY DEF TypeOK
<1>1. ASSUME NEW a, NEW p, Assign(a, p), reader' = reader
      PROVE  Locked'
  <2>1. \A r \in Readers : reader[r].param # NoParam => reader[r].at # a
    BY <1>1 DEF Assign, Visited
  <2> QED BY <1>0, <1>1, <2>1 DEF Assign, Locked
<1>2. CASE UNCHANGED vars \/ Request \/ Work
  <2>1. reader' = reader
    BY <1>2 DEF vars, editor, Request, CreateChild, Rename, CreateParameter, RemoveParameter,
              RemoveChild, ClearChildren, RenameDevice, ApplyDeferred, Close,
              Work, ClearChild, Insert, AddDeferred, Sweep, ChildrenCleared, Announce,
              Release, SweepEnds, Destroy, Built, Clear, Collect, Inserted, Teardown
  <2>2. CASE index' = index
    BY <2>1, <2>2 DEF Locked
  <2>3. ASSUME NEW n \in Nodes, CreateParameter(n) \/ Insert(n)
        PROVE  Locked'
    BY <1>1, <2>1, <2>3 DEF CreateParameter, Insert
  <2>4. ASSUME NEW a, Erase(a)
        PROVE  Locked'
    BY <1>1, <2>1, <2>4 DEF Erase
  <2>5. CASE Clear
    <3>1. \A r \in Readers : reader[r].param # NoParam => FALSE
      BY <2>5 DEF Clear, Cleared, Visited, Locked
    <3> QED BY <2>1, <3>1 DEF Locked
  <2> QED BY <2>2, <2>3, <2>4, <2>5, IndexCases DEF Sweep
<1>3. ASSUME NEW r \in Readers, Return(r)
      PROVE  Locked'
  BY <1>0, <1>3 DEF Return, NotReading, Locked
<1>4. ASSUME NEW r \in Readers, NEW a \in Addresses, Apply(r, a)
      PROVE  Locked'
  BY <1>0, <1>4 DEF Apply, Locked
<1> QED BY <1>2, <1>3, <1>4 DEF Next, Receive

(* What a plan inserts is still in the tree: nothing else runs meanwhile.  *)
LEMMA TodoStep ==
  ASSUME TypeOK, CallInv, TodoInv, [Next]_vars
  PROVE  TodoInv'
<1> SUFFICES ASSUME stage' = "insert"
             PROVE  todo' \subseteq WithParameter'
  BY DEF TodoInv
<1>1. ASSUME UNCHANGED <<node, param, stack>>, todo' \subseteq todo
      PROVE  todo' \subseteq WithParameter'
  <2>1. stage' = stage
    BY <1>1 DEF stage, Idle, Top
  <2> QED BY <1>1, <2>1 DEF TodoInv, WithParameter
<1>2. CASE UNCHANGED vars \/ Receive
  BY <1>1, <1>2 DEF vars, editor, tree, Receive, Apply, Return
<1>3. ASSUME NEW n \in Nodes, Insert(n)
      PROVE  todo' \subseteq WithParameter'
  BY <1>1, <1>3 DEF Insert, tree
<1>4. ASSUME NEW a \in Addresses, Sweep(a)
      PROVE  todo' \subseteq WithParameter'
  BY <1>1, <1>4 DEF Sweep, editor, tree
<1>5. CASE Collect
  BY <1>5 DEF Collect, WithParameter, tree
<1>6. CASE Idle
  <2>1. \A o \in Operations : Plan[o][1] # "insert"
    BY DEF Operations, Plan
  <2>2. {"remove_child", "remove_parameter", "renamed", "clear_children", "deferred", "close"}
          \subseteq Operations
    BY DEF Operations, Plan
  <2>3. ASSUME NEW o \in Operations, NEW n \in Nodes \cup {Root}, Begin(o, n)
        PROVE  FALSE
    BY <2>1, <2>3, Begun
  <2>4. CASE Request
    <3>1. ASSUME stack' = stack
          PROVE  FALSE
      BY <1>6, <3>1 DEF stage, Idle
    <3> QED BY <2>2, <2>3, <2>4, <3>1 DEF Request, CreateChild, Rename, CreateParameter,
              RemoveParameter, RemoveChild, ClearChildren, RenameDevice, ApplyDeferred, Close
  <2> QED BY <1>2, <1>6, <2>4, StageIn DEF Next, Work, ClearChild, Insert, AddDeferred, Sweep,
              ChildrenCleared, Announce, Release, SweepEnds, Destroy, Built, Clear, Collect,
              Inserted, Teardown
<1>7. ASSUME Proceed, ~Idle, stage # "collect"
      PROVE  FALSE
  BY <1>7, Advance DEF Follows, Popped, Lasts, stage
<1>8. ASSUME NEW c \in Nodes, ClearChild(c)
      PROVE  FALSE
  BY <1>8, Pushed
<1>9. ASSUME NEW n \in Nodes, NEW nm \in Names, AddDeferred(n, nm)
      PROVE  FALSE
  <2>1. stage = "build" /\ stack' = stack
    BY <1>9, StageIn DEF AddDeferred
  <2> QED BY <2>1 DEF stage, Idle, Top
<1>10. CASE ChildrenCleared \/ Announce \/ Release \/ SweepEnds \/ Destroy \/ Built \/ Clear
            \/ Inserted \/ Teardown
  BY <1>7, <1>10, StageIn DEF ChildrenCleared, Announce, Release, SweepEnds, Destroy, Built,
                              Clear, Inserted, Teardown
<1>11. CASE Work
  BY <1>3, <1>4, <1>5, <1>8, <1>9, <1>10, <1>11 DEF Work
<1>12. CASE Request
  BY <1>6, <1>12 DEF Request, CreateChild, Rename, CreateParameter, RemoveParameter, RemoveChild,
                    ClearChildren, RenameDevice, ApplyDeferred, Close, Begin
<1> QED BY <1>2, <1>11, <1>12 DEF Next

(* A parameter is out of the index before it dies, and a node that is      *)
(* renamed before the index is cleared.                                    *)
LEMMA EntriesStep ==
  ASSUME TypeOK, CallInv, DetachedInv, TreeInv, IndexInv, [Next]_vars
  PROVE  EntriesAlive'
<1> USE DEF TreeInv, IndexInv
<1>0. /\ index \in [Addresses -> Pointers \cup {NoParam}]
      /\ param \in [Nodes -> 0..MaxMade] /\ MaxMade \in Nat
      /\ \A n \in Nodes : param[n] # 0 => Live(n)
      /\ NoParam \notin Nodes \X Nat
  BY TreeAssumption DEF TypeOK
<1>1. ASSUME \A a \in Addresses : index'[a] \in {index[a], NoParam},
             \A m \in Nodes : Live(m) => param'[m] = param[m] \/ Unpointed(m),
             stage' = "clear" \/ /\ stage # "clear"
                                 /\ \A m \in Nodes : Live(m) => Address(m)' = Address(m)
      PROVE  EntriesAlive'
  <2> SUFFICES ASSUME NEW a \in Addresses, index'[a] # NoParam
               PROVE  Alive(index[a])' /\ (stage' = "clear" \/ a = Address(index[a][1])')
    BY DEF EntriesAlive
  <2>1. index'[a] = index[a] /\ index[a] # NoParam
    BY <1>1
  <2>2. PICK m \in Nodes : m = index[a][1]
    BY <2>1 DEF EntriesAlive, Alive
  <2>3. param[m] = index[a][2] /\ param[m] # 0 /\ (stage = "clear" \/ a = Address(m))
    BY <2>1, <2>2 DEF EntriesAlive, Alive
  <2>4. Live(m) /\ ~Unpointed(m)
    BY <1>0, <2>1, <2>2, <2>3 DEF Unpointed
  <2>5. param'[m] = param[m] /\ (stage' = "clear" \/ a = Address(m)')
    BY <1>1, <2>3, <2>4
  <2>6. index'[a][1] = m /\ index'[a][2] = param[m]
    BY <2>1, <2>2, <2>3
  <2>7. Address(index[a][1])' = Address(m)'
    BY <2>6
  <2> QED BY <2>3, <2>5, <2>6, <2>7 DEF Alive
<1>2. ASSUME index' = index, param' = param, name' = name, stage' = stage
      PROVE  EntriesAlive'
  BY <1>2 DEF EntriesAlive, Alive, Address
<1>3. CASE UNCHANGED vars \/ Receive
  BY <1>2, <1>3 DEF vars, editor, tree, Receive, Apply, Return, stage, Idle, Top
<1>4. ASSUME NEW n \in Nodes, NEW nm \in Names, CreateChild(n, nm) \/ AddDeferred(n, nm)
      PROVE  EntriesAlive'
  <2>1. /\ index' = index /\ name' = [name EXCEPT ![n] = nm] /\ ~Live(n) /\ stack' = stack
        /\ Idle \/ stage = "build"
        /\ \A m \in Nodes : m # n => param'[m] = param[m]
    <3>1. CASE CreateChild(n, nm)
      BY <3>1 DEF CreateChild, Live
    <3>2. CASE AddDeferred(n, nm)
      BY <1>0, <3>2, StageIn DEF AddDeferred, Live
    <3> QED BY <1>4, <3>1, <3>2
  <2>2. stage' = stage /\ stage # "clear"
    BY <2>1 DEF stage, Idle, Top
  <2>3. \A m \in Nodes : Live(m) => Address(m)' = Address(m) /\ m # n
    BY <2>1, AddressKept
  <2> QED BY <1>0, <1>1, <2>1, <2>2, <2>3
<1>5. ASSUME NEW n \in Nodes, NEW nm \in Names, Rename(n, nm)
      PROVE  EntriesAlive'
  <2>1. index' = index /\ param' = param /\ Begin("renamed", n) /\ "renamed" \in Operations
    BY <1>5 DEF Rename, Operations, Plan
  <2>2. stage' = "clear"
    BY <2>1, Begun DEF Plan
  <2> QED BY <1>0, <1>1, <2>1, <2>2
<1>6. ASSUME NEW n \in Nodes, CreateParameter(n)
      PROVE  EntriesAlive'
  <2>1. /\ Idle /\ stack' = stack /\ name' = name /\ param[n] = 0
        /\ index' = [index EXCEPT ![Address(n)] = <<n, made[n] + 1>>]
        /\ param' = [param EXCEPT ![n] = made[n] + 1]
    BY <1>6 DEF CreateParameter, Assign
  <2>2. stage = "idle" /\ stage' = "idle"
    BY <2>1 DEF stage, Idle
  <2>3. made[n] + 1 \in Nat /\ made[n] + 1 # 0
    BY DEF TypeOK
  <2> SUFFICES ASSUME NEW a \in Addresses, index'[a] # NoParam
               PROVE  Alive(index[a])' /\ a = Address(index[a][1])'
    BY DEF EntriesAlive
  <2>4. CASE a = Address(n)
    <3>1. index'[a] = <<n, made[n] + 1>> /\ param'[n] = made[n] + 1
      BY <1>0, <2>1, <2>4
    <3>2. Address(n)' = Address(n) /\ index'[a][1] = n /\ index'[a][2] = made[n] + 1
      BY <2>1, <3>1 DEF Address
    <3> QED BY <2>3, <2>4, <3>1, <3>2 DEF Alive
  <2>5. CASE a # Address(n)
    <3>1. index'[a] = index[a] /\ index[a] # NoParam
      BY <1>0, <2>1, <2>5
    <3>2. PICK m \in Nodes : m = index[a][1]
      BY <3>1 DEF EntriesAlive, Alive
    <3>3. param[m] = index[a][2] /\ param[m] # 0 /\ a = Address(m)
      BY <2>2, <3>1, <3>2 DEF EntriesAlive, Alive
    <3>4. param'[m] = param[m] /\ Address(m)' = Address(m) /\ index'[a][1] = m
      BY <1>0, <2>1, <3>1, <3>2, <3>3 DEF Address
    <3> QED BY <3>1, <3>3, <3>4 DEF Alive
  <2> QED BY <2>4, <2>5
<1>7. ASSUME NEW n \in Nodes, RemoveParameter(n) \/ RemoveChild(n) \/ ClearChild(n)
      PROVE  EntriesAlive'
  <2>1. index' = index /\ param' = param /\ name' = name
    BY <1>7 DEF RemoveParameter, RemoveChild, ClearChild, tree
  <2>2. stage \in {"idle", "children"}
    BY <1>7, StageIn DEF RemoveParameter, RemoveChild, ClearChild, Begin, stage
  <2> QED BY <1>0, <1>1, <2>1, <2>2 DEF Address
<1>8. CASE RenameDevice \/ ApplyDeferred \/ Close \/ \E t \in Nodes \cup {Root} : ClearChildren(t)
  <2>1. index' = index /\ param' = param /\ name' = name /\ stage = "idle"
    BY <1>8 DEF RenameDevice, ApplyDeferred, Close, ClearChildren, Begin, stage, tree
  <2> QED BY <1>0, <1>1, <2>1 DEF Address
<1>9. ASSUME NEW n \in Nodes, Insert(n)
      PROVE  EntriesAlive'
  <2>1. /\ stage = "insert" /\ stack' = stack /\ name' = name /\ param' = param
        /\ index' = [index EXCEPT ![Address(n)] = <<n, param[n]>>] /\ n \in todo
    BY <1>9, StageIn DEF Insert, Assign, tree
  <2>2. param[n] # 0
    BY <2>1 DEF TodoInv, WithParameter
  <2>3. stage' = "insert"
    BY <2>1 DEF stage, Idle, Top
  <2> SUFFICES ASSUME NEW a \in Addresses, index'[a] # NoParam
               PROVE  Alive(index[a])' /\ a = Address(index[a][1])'
    BY DEF EntriesAlive
  <2>4. CASE a = Address(n)
    <3>1. index'[a] = <<n, param[n]>>
      BY <1>0, <2>1, <2>4
    <3>2. Address(n)' = Address(n) /\ index'[a][1] = n /\ index'[a][2] = param[n]
      BY <2>1, <3>1 DEF Address
    <3> QED BY <2>1, <2>2, <2>4, <3>2 DEF Alive
  <2>5. CASE a # Address(n)
    <3>1. index'[a] = index[a] /\ index[a] # NoParam
      BY <1>0, <2>1, <2>5
    <3> QED BY <2>1, <3>1 DEF EntriesAlive, Alive, Address
  <2> QED BY <2>4, <2>5
<1>10. ASSUME \A a \in Addresses : index'[a] \in {index[a], NoParam},
              param' = param, name' = name, stage # "clear"
       PROVE  EntriesAlive'
  BY <1>1, <1>10 DEF Address
<1>11. CASE \E a \in Addresses : Sweep(a)
  BY <1>0, <1>10, <1>11, StageIn DEF Sweep, Erase, Assign, editor, tree
<1>12. CASE Announce
  BY <1>0, <1>10, <1>12, StageIn DEF Announce, Erase, Assign, tree
<1>13. CASE ChildrenCleared \/ SweepEnds \/ Built \/ Collect \/ Inserted
  BY <1>10, <1>13, StageIn DEF ChildrenCleared, SweepEnds, Built, Collect, Inserted, tree
<1>14. CASE Release
  <2>1. stage = "release" /\ index' = index /\ name' = name
    BY <1>14, StageIn DEF Release
  <2>2. \A m \in Nodes : param'[m] = param[m] \/ Unpointed(m)
    BY <1>0, <1>14, <2>1 DEF Release, ForgottenInv, Forgotten
  <2> QED BY <1>1, <2>1, <2>2 DEF Address
<1>15. CASE Destroy
  <2>1. stage = "destroy" /\ index' = index /\ name' = name
    BY <1>15, StageIn DEF Destroy
  <2>2. \A m \in Nodes : param'[m] = param[m] \/ Unpointed(m)
    BY <1>0, <1>15, <2>1 DEF Destroy, ForgottenInv, Forgotten
  <2> QED BY <1>1, <2>1, <2>2 DEF Address
<1>16. CASE Clear
  BY <1>16 DEF Clear, Cleared, EntriesAlive
<1>17. CASE Teardown
  BY <1>17, StageIn DEF Teardown, EntriesAlive, ClosedInv
<1>18. CASE Request
  BY <1>4, <1>5, <1>6, <1>7, <1>8, <1>18 DEF Request
<1>19. CASE Work
  BY <1>4, <1>7, <1>9, <1>11, <1>12, <1>13, <1>14, <1>15, <1>16, <1>17, <1>19 DEF Work
<1> QED BY <1>3, <1>18, <1>19 DEF Next

(* What the steps do to the calls.                                         *)
Going ==
    \/ ChildrenCleared \/ Announce \/ Release \/ SweepEnds \/ Destroy
    \/ Built \/ Clear \/ Collect \/ Inserted \/ Teardown

(* A step leaves the calls alone, begins or pushes one, or moves one on.   *)
LEMMA StackCases ==
  ASSUME [Next]_vars
  PROVE  \/ stack' = stack /\ stage' = stage /\ Top' = Top
         \/ /\ Idle /\ index' = index
            /\ \E o \in Operations, n \in Nodes \cup {Root} : Begin(o, n)
         \/ \E c \in Nodes : ClearChild(c)
         \/ ~Idle /\ Proceed /\ Going
<1>1. ASSUME stack' = stack
      PROVE  stage' = stage /\ Top' = Top
  BY <1>1 DEF stage, Idle, Top
<1>2. {"remove_child", "remove_parameter", "renamed", "clear_children", "deferred", "close"}
        \subseteq Operations
  BY DEF Operations, Plan
<1>3. CASE UNCHANGED vars \/ Receive
  BY <1>1, <1>3 DEF vars, editor, Receive, Apply, Return
<1>4. CASE Request
  BY <1>1, <1>2, <1>4 DEF Request, CreateChild, Rename, CreateParameter, RemoveParameter,
        RemoveChild, ClearChildren, RenameDevice, ApplyDeferred, Close, Begin
<1>5. CASE Going
  BY <1>5 DEF Going, In, ChildrenCleared, Announce, Release, SweepEnds, Destroy, Built, Clear,
              Collect, Inserted, Teardown
<1>6. CASE Work
  BY <1>1, <1>5, <1>6 DEF Work, Going, Insert, AddDeferred, Sweep, editor
<1> QED BY <1>3, <1>4, <1>6 DEF Next

(* Before the parameter of a node dies, no entry points to it: either it   *)
(* was erased at its address, or all that is below the address was.        *)
LEMMA ForgottenStep ==
  ASSUME TypeOK, CallInv, DetachedInv, TreeInv, IndexInv, [Next]_vars
  PROVE  ForgottenInv'
<1> USE DEF IndexInv
<1>0. /\ index \in [Addresses -> Pointers \cup {NoParam}]
      /\ param \in [Nodes -> 0..MaxMade]
  BY DEF TypeOK
<1> SUFFICES ASSUME Forgotten'
             PROVE  Unpointed(Top.node)'
  BY DEF ForgottenInv
<1>1. stage' \in {"destroy", "release", "announce"}
  BY DEF Forgotten
<1>2. kind' = kind
  <2>1. CASE UNCHANGED vars \/ Receive
    BY <2>1 DEF vars, editor, tree, Receive, Apply, Return
  <2>2. CASE Request
    BY <2>2 DEF Request, CreateChild, Rename, CreateParameter, RemoveParameter, RemoveChild,
                ClearChildren, RenameDevice, ApplyDeferred, Close, tree
  <2>3. CASE Work
    BY <2>3 DEF Work, ClearChild, Insert, AddDeferred, Sweep, ChildrenCleared, Announce,
                Release, SweepEnds, Destroy, Built, Clear, Collect, Inserted, Teardown,
                tree, editor
  <2> QED BY <2>1, <2>2, <2>3 DEF Next
<1>3. ASSUME Forgotten, Top'.node = Top.node,
             \A a \in Addresses : index'[a] \in {index[a], NoParam}
      PROVE  Unpointed(Top.node)'
  BY <1>3 DEF ForgottenInv, Unpointed
<1>4. ASSUME stack' = stack, stage' = stage, Top' = Top
      PROVE  Unpointed(Top.node)'
  <2>1. Forgotten
    BY <1>2, <1>4 DEF Forgotten
  <2>2. \A a \in Addresses : index'[a] \in {index[a], NoParam}
    <3>1. ASSUME NEW n \in Nodes, CreateParameter(n) \/ Insert(n)
          PROVE  FALSE
      BY <1>1, <1>4, <3>1, StageIn DEF CreateParameter, Insert, stage
    <3>2. ASSUME NEW b, Erase(b)
          PROVE  \A a \in Addresses : index'[a] \in {index[a], NoParam}
      BY <1>0, <3>2 DEF Erase, Assign
    <3> QED BY <3>1, <3>2, IndexCases DEF Sweep, Clear, Cleared
  <2> QED BY <1>3, <1>4, <2>1, <2>2
<1>5. ASSUME NEW o \in Operations, NEW n \in Nodes \cup {Root}, Begin(o, n)
      PROVE  FALSE
  <2>1. stage' = Plan[o][1] /\ Top'.op = o
    BY <1>5, Begun
  <2>2. Plan[o][1] \notin {"destroy", "release"} /\ (Plan[o][1] = "announce" => o # "remove_child")
    BY DEF Operations, Plan
  <2> QED BY <2>1, <2>2 DEF Forgotten
<1>6. ASSUME NEW c \in Nodes, ClearChild(c)
      PROVE  FALSE
  BY <1>1, <1>6, Pushed
<1>7. CASE ~Idle /\ Proceed /\ Going
  <2>1. <<Top.op, stage, stage'>> \in Follows /\ Top'.node = Top.node /\ Top'.op = Top.op
    BY <1>1, <1>7, Advance DEF Popped, stage, Continued
  <2>2. stage \in {"sweep", "announce", "release"}
    BY <1>1, <2>1 DEF Follows, Forgotten
  <2>3. Top.node \in Nodes
    <3>1. Top.op \in Removals \cup {"remove_parameter"}
      BY <2>1, <2>2 DEF Follows, Removals
    <3>2. Top = stack[Len(stack)] /\ Len(stack) \in 1..Len(stack)
      BY <1>7, TopIsCall
    <3> QED BY <3>1, <3>2 DEF DetachedInv
  <2>4. \A a \in Addresses : index[a] # NoParam =>
          /\ index[a][1] = Top.node => a = Address(Top.node) /\ param[Top.node] # 0
    BY <2>2 DEF EntriesAlive, Alive
  <2>5. CASE SweepEnds
    <3>1. Address(Top.node) \in Swept
      BY <2>3, AddressFacts DEF Swept
    <3>2. index' = index /\ index[Address(Top.node)] = NoParam
      BY <2>5, <3>1 DEF SweepEnds
    <3> QED BY <2>1, <2>4, <3>2 DEF Unpointed
  <2>6. CASE Announce
    <3>1. stage = "announce"
      BY <2>6, StageIn DEF Announce
    <3>2. CASE Top.op = "remove_child"
      <4>1. \A a \in Addresses : index'[a] \in {index[a], NoParam}
        BY <1>0, <2>6 DEF Announce, Erase, Assign
      <4> QED BY <1>3, <2>1, <3>1, <3>2, <4>1 DEF Forgotten
    <3>3. CASE Top.op # "remove_child"
      <4>1. kind = "generic"
        BY <1>2, <2>1, <3>1, <3>3 DEF Forgotten, Follows
      <4>2. CASE param[Top.node] = 0
        BY <2>1, <2>4, <2>6, <4>2 DEF Announce, Signalled, Unpointed
      <4>3. CASE param[Top.node] # 0
        <5>1. index' = [index EXCEPT ![Address(Top.node)] = NoParam]
          BY <2>6, <4>1, <4>3 DEF Announce, Signalled, Erase, Assign
        <5> QED BY <1>0, <2>1, <2>4, <5>1 DEF Unpointed
      <4> QED BY <4>2, <4>3
    <3> QED BY <3>2, <3>3
  <2>7. CASE Release
    <3>1. stage = "release" /\ index' = index
      BY <2>7, StageIn DEF Release
    <3>2. Forgotten
      BY <1>2, <2>1, <3>1 DEF Forgotten, Follows
    <3> QED BY <1>3, <2>1, <3>1, <3>2
  <2> QED BY <1>7, <2>2, <2>5, <2>6, <2>7, StageIn DEF Going, ChildrenCleared, Destroy, Built,
                Clear, Collect, Inserted, Teardown
<1> QED BY <1>4, <1>5, <1>6, <1>7, StackCases

(* Nothing is indexed once the device is being destroyed.                  *)
LEMMA ClosedStep ==
  ASSUME TypeOK, CallInv, ClosedInv, [Next]_vars
  PROVE  ClosedInv'
<1>0. index \in [Addresses -> Pointers \cup {NoParam}]
  BY DEF TypeOK
<1> SUFFICES ASSUME stage' \in {"teardown", "closed"}
             PROVE  \A a \in Addresses : index'[a] = NoParam
  BY DEF ClosedInv
<1>1. CASE stack' = stack /\ stage' = stage /\ Top' = Top
  <2>1. ASSUME NEW n \in Nodes, CreateParameter(n) \/ Insert(n)
        PROVE  FALSE
    BY <1>1, <2>1, StageIn DEF CreateParameter, Insert, stage
  <2>2. ASSUME NEW b, Erase(b)
        PROVE  \A a \in Addresses : index'[a] = NoParam
    BY <1>0, <1>1, <2>2 DEF Erase, Assign, ClosedInv
  <2> QED BY <1>1, <2>1, <2>2, IndexCases DEF Sweep, Clear, Cleared, ClosedInv
<1>2. ASSUME NEW o \in Operations, NEW n \in Nodes \cup {Root}, Begin(o, n)
      PROVE  FALSE
  <2>1. stage' = Plan[o][1]
    BY <1>2, Begun
  <2>2. Plan[o][1] \notin {"teardown", "closed"}
    BY DEF Operations, Plan
  <2> QED BY <2>1, <2>2
<1>3. ASSUME NEW c \in Nodes, ClearChild(c)
      PROVE  FALSE
  BY <1>3, Pushed
<1>4. CASE ~Idle /\ Proceed /\ Going
  <2>1. <<Top.op, stage, stage'>> \in Follows
    BY <1>4, Advance DEF Popped, stage
  <2>2. stage \in {"clear", "teardown"}
    BY <2>1 DEF Follows
  <2>3. Clear \/ Teardown
    BY <1>4, <2>2, StageIn DEF Going, ChildrenCleared, Announce, Release, SweepEnds, Destroy,
              Built, Collect, Inserted
  <2> QED BY <2>3, StageIn DEF Clear, Cleared, Teardown, ClosedInv
<1> QED BY <1>1, <1>2, <1>3, <1>4, StackCases

(* A sweep leaves the entries of what is still in the tree: a node whose   *)
(* address is below the one of the removed node would be below that node,  *)
(* where nothing lives any more.                                           *)
LEMMA SweptBelow ==
  ASSUME TypeOK, CallInv, DetachedInv, TreeInv, ~clash, ~Idle, stage = "sweep",
         NEW n \in Nodes, node[n] = "attached"
  PROVE  Address(n) \notin Swept
<1> USE DEF TreeInv
<1> DEFINE t == Top.node
           k == Len(Lineage[t])
<1>1. Top.op \in Removals
  BY StageOf DEF Follows, Lasts, Removals
<1>2. t \in Nodes /\ node[t] = "detached"
  BY <1>1, TopIsCall DEF DetachedInv
<1>3. \A c \in Nodes : Parent(c) = t => ~Live(c)
  BY <1>1 DEF Childless
<1>4. Live(t) /\ Live(n) /\ n # t
  BY <1>2 DEF Live
<1> HIDE DEF t
<1> SUFFICES ASSUME Len(Address(n)) >= Len(Address(t)),
                    SubSeq(Address(n), 1, Len(Address(t))) = Address(t)
             PROVE  FALSE
  BY DEF Swept, t
<1>5. /\ Len(Address(t)) = k /\ k \in Nat \ {0}
      /\ Len(Address(n)) = Len(Lineage[n]) /\ Len(Lineage[n]) \in Nat \ {0}
      /\ k <= Len(Lineage[n])
  BY <1>2, AddressFacts, LineageFacts
<1>6. \A i \in 1..k : Address(t)[i] = Address(n)[i]
  <2> HIDE DEF k
  <2>1. Address(n) \in Seq(Names)
    <3>1. \A i \in 1..Len(Lineage[n]) : name[Lineage[n][i]] \in Names
      BY LineageFacts DEF TypeOK
    <3> QED BY <1>5, <3>1 DEF Address
  <2>2. 1 \in Int /\ k \in Int /\ \A i \in 1..k : Address(n)[i] \in Names
    <3>1. \A i \in 1..k : i \in 1..Len(Address(n))
      BY <1>5
    <3> QED BY <1>5, <2>1, <3>1, ElementOfSeq
  <2>3. \A i \in 1..k - 1 + 1 : SubSeq(Address(n), 1, k)[i] = Address(n)[1 + i - 1]
    BY <2>2, SubSeqProperties
  <2>4. \A i \in 1..k : i \in 1..k - 1 + 1 /\ 1 + i - 1 = i
    BY <1>5
  <2>5. \A i \in 1..k : SubSeq(Address(n), 1, k)[i] = Address(n)[i]
    BY <2>3, <2>4
  <2> QED BY <1>5, <2>5
<1>7. t = Lineage[n][k]
  BY <1>2, <1>4, <1>5, <1>6, SamePath
<1>8. PICK j \in 1..Len(Lineage[n]) : j # 1 /\ j - 1 = k
  <2>1. k # Len(Lineage[n])
    BY <1>4, <1>7, LineageFacts
  <2> HIDE DEF k
  <2>2. k + 1 \in 1..Len(Lineage[n]) /\ k + 1 # 1 /\ (k + 1) - 1 = k
    BY <1>5, <2>1
  <2> QED BY <2>2
<1>9. Lineage[n][j] \in Nodes /\ Parent(Lineage[n][j]) = t
  <2>1. Lineage[n][j] \in Nodes /\ Parent(Lineage[n][j]) = Lineage[n][j - 1]
    BY <1>8, LineageFacts
  <2> HIDE DEF k
  <2> QED BY <1>7, <1>8, <2>1
<1>10. Live(Lineage[n][j])
  BY <1>4 DEF AncestorsLive
<1> QED BY <1>3, <1>9, <1>10 DEF t

(* What is in the tree gets its entry, and keeps it.                       *)
LEMMA FilledStep ==
  ASSUME TypeOK, CallInv, DetachedInv, TreeInv, IndexInv, [Next]_vars
  PROVE  Filled'
<1> USE DEF IndexInv
<1>0. /\ index \in [Addresses -> Pointers \cup {NoParam}]
      /\ param \in [Nodes -> 0..MaxMade]
      /\ node \in [Nodes -> {"none", "attached", "detached", "destroyed"}]
      /\ \A n \in Nodes : param[n] # 0 => Live(n)
      /\ \A n \in Nodes : Address(n) \in Addresses
      /\ AncestorsLive /\ UniqueNames
  BY AddressFacts DEF TypeOK, TreeInv
<1>1. ASSUME UNCHANGED <<name, clash>>,
             \A n \in Nodes : node'[n] = "attached" => node[n] = "attached",
             \A n \in Nodes : param'[n] # 0 => param'[n] = param[n],
             \A n \in WithParameter' : ~Pending(n) \/ Pending(n)',
             ~clash => \A n \in WithParameter' :
               index'[Address(n)] = index[Address(n)] \/ Pending(n)'
      PROVE  Filled'
  <2> SUFFICES ASSUME ~clash', NEW n \in WithParameter', ~Pending(n)'
               PROVE  index'[Address(n)'] = <<n, param'[n]>>
    BY DEF Filled
  <2>1. Address(n)' = Address(n)
    BY <1>1 DEF Address
  <2>2. n \in WithParameter /\ param'[n] = param[n]
    BY <1>1 DEF WithParameter
  <2>3. ~Pending(n) /\ ~clash
    BY <1>1
  <2>4. index[Address(n)] = <<n, param[n]>>
    BY <2>2, <2>3 DEF Filled
  <2>5. index'[Address(n)] = index[Address(n)]
    BY <1>1, <2>3
  <2> QED BY <2>1, <2>2, <2>4, <2>5
<1>2. ASSUME stage' \in {"clear", "build", "collect", "teardown"}
      PROVE  Filled'
  BY <1>2 DEF Filled, Pending
<1>3. ASSUME stack' = stack
      PROVE  stage' = stage /\ Top' = Top
  BY <1>3 DEF stage, Idle, Top
<1>4. CASE UNCHANGED vars \/ Receive
  <2>1. UNCHANGED <<node, param, name, clash, stack, todo, index>>
    BY <1>4 DEF vars, editor, tree, Receive, Apply, Return
  <2>2. \A n \in Nodes : Pending(n)' <=> Pending(n)
    BY <1>3, <2>1 DEF Pending
  <2> QED BY <1>1, <2>1, <2>2 DEF WithParameter
<1>5. ASSUME NEW c \in Nodes, NEW nm \in Names, CreateChild(c, nm)
      PROVE  Filled'
  <2>1. /\ Idle /\ ~Live(c) /\ param[c] = 0 /\ stack' = stack /\ clash' = clash
        /\ param' = param /\ index' = index
        /\ name' = [name EXCEPT ![c] = nm] /\ node' = [node EXCEPT ![c] = "attached"]
    BY <1>0, <1>5 DEF CreateChild, Live
  <2>2. stage = "idle"
    BY <2>1 DEF stage
  <2>3. WithParameter' = WithParameter
    BY <1>0, <2>1 DEF WithParameter, Live
  <2>4. \A n \in WithParameter : Address(n)' = Address(n) /\ ~Pending(n)
    BY <1>0, <2>1, <2>2, AddressKept DEF WithParameter, Live, Pending
  <2> QED BY <2>1, <2>3, <2>4 DEF Filled
<1>6. ASSUME NEW c \in Nodes, NEW nm \in Names, AddDeferred(c, nm)
      PROVE  Filled'
  BY <1>2, <1>3, <1>6, StageIn DEF AddDeferred
<1>7. ASSUME ~clash, NEW n \in WithParameter, NEW c \in Nodes, Live(c), n # c
      PROVE  Address(n) # Address(c)
  BY <1>0, <1>7, SameAddress DEF WithParameter, Live
<1>8. ASSUME NEW c \in Nodes, CreateParameter(c)
      PROVE  Filled'
  <2>1. /\ Idle /\ node[c] = "attached" /\ node' = node /\ clash' = clash /\ name' = name
        /\ index' = [index EXCEPT ![Address(c)] = <<c, made[c] + 1>>]
        /\ param' = [param EXCEPT ![c] = made[c] + 1]
    BY <1>8 DEF CreateParameter, Assign
  <2>2. stage = "idle" /\ Live(c)
    BY <2>1 DEF stage, Live
  <2> SUFFICES ASSUME ~clash', NEW n \in WithParameter'
               PROVE  index'[Address(n)'] = <<n, param'[n]>>
    BY DEF Filled
  <2>3. Address(n)' = Address(n) /\ n \in Nodes
    BY <2>1 DEF Address, WithParameter
  <2>4. CASE n = c
    BY <1>0, <2>1, <2>3, <2>4
  <2>5. CASE n # c
    <3>1. n \in WithParameter /\ param'[n] = param[n] /\ ~Pending(n)
      BY <1>0, <2>1, <2>2, <2>5 DEF WithParameter, Pending
    <3>2. index'[Address(n)] = index[Address(n)]
      BY <1>0, <1>7, <2>1, <2>2, <2>5, <3>1
    <3> QED BY <2>1, <2>3, <3>1, <3>2 DEF Filled
  <2> QED BY <2>4, <2>5
<1>9. ASSUME NEW c \in Nodes, Insert(c)
      PROVE  Filled'
  <2>1. /\ stage = "insert" /\ c \in todo /\ todo' = todo \ {c} /\ stack' = stack
        /\ UNCHANGED <<node, clash, name, param>>
        /\ index' = [index EXCEPT ![Address(c)] = <<c, param[c]>>]
    BY <1>9, StageIn DEF Insert, Assign, tree
  <2>2. stage' = "insert" /\ Live(c)
    BY <1>3, <2>1 DEF TodoInv, WithParameter, Live
  <2> SUFFICES ASSUME ~clash', NEW n \in WithParameter', ~Pending(n)'
               PROVE  index'[Address(n)'] = <<n, param'[n]>>
    BY DEF Filled
  <2>3. Address(n)' = Address(n) /\ n \in Nodes /\ n \in WithParameter
    BY <2>1 DEF Address, WithParameter
  <2>4. CASE n = c
    BY <1>0, <2>1, <2>3, <2>4
  <2>5. CASE n # c
    <3>1. ~Pending(n)
      BY <2>1, <2>2, <2>5 DEF Pending
    <3>2. index'[Address(n)] = index[Address(n)]
      BY <1>0, <1>7, <2>1, <2>2, <2>3, <2>5
    <3> QED BY <2>1, <2>3, <3>1, <3>2 DEF Filled
  <2> QED BY <2>4, <2>5
<1>10. ASSUME UNCHANGED <<name, clash, index>>, stage \notin {"insert", "release"},
              \A n \in Nodes : node'[n] = "attached" => node[n] = "attached",
              \A n \in Nodes : param'[n] # 0 => param'[n] = param[n],
              stage \notin {"clear", "build", "collect", "teardown"}
       PROVE  Filled'
  BY <1>1, <1>10 DEF Pending
<1>11. ASSUME NEW a \in Addresses, Sweep(a)
       PROVE  Filled'
  <2>1. /\ ~Idle /\ stage = "sweep" /\ UNCHANGED <<node, name, param, clash>> /\ a \in Swept
        /\ index' = [index EXCEPT ![a] = NoParam]
    BY <1>11, StageIn DEF Sweep, Erase, Assign, editor, tree
  <2>2. \A n \in Nodes : ~Pending(n)
    BY <2>1 DEF Pending
  <2>3. ~clash => \A n \in WithParameter' : index'[Address(n)] = index[Address(n)]
    <3> SUFFICES ASSUME ~clash, NEW n \in WithParameter'
                 PROVE  index'[Address(n)] = index[Address(n)]
      OBVIOUS
    <3>1. n \in Nodes /\ node[n] = "attached"
      BY <2>1 DEF WithParameter
    <3>2. Address(n) # a
      BY <2>1, <3>1, SweptBelow
    <3> QED BY <1>0, <2>1, <3>2
  <2> QED BY <1>1, <2>1, <2>2, <2>3 DEF WithParameter
<1>12. CASE Idle /\ Request
  <2>1. stage = "idle"
    BY <1>12 DEF stage
  <2>2. ASSUME NEW n \in Nodes, NEW nm \in Names, Rename(n, nm)
        PROVE  Filled'
    <3>1. "renamed" \in Operations /\ Begin("renamed", n)
      BY <2>2 DEF Rename, Operations, Plan
    <3> QED BY <1>2, <3>1, Begun DEF Plan
  <2>3. ASSUME NEW n \in Nodes, RemoveParameter(n) \/ RemoveChild(n)
        PROVE  Filled'
    BY <1>0, <1>10, <2>1, <2>3 DEF RemoveParameter, RemoveChild, tree
  <2>4. CASE RenameDevice \/ ApplyDeferred \/ Close \/ \E t \in Nodes \cup {Root} : ClearChildren(t)
    BY <1>10, <2>1, <2>4 DEF RenameDevice, ApplyDeferred, Close, ClearChildren, tree
  <2> QED BY <1>5, <1>8, <1>12, <2>2, <2>3, <2>4 DEF Request
<1>13. ASSUME NEW c \in Nodes, ClearChild(c)
       PROVE  Filled'
  BY <1>0, <1>10, <1>13, StageIn DEF ClearChild, Children
<1>14. CASE ChildrenCleared \/ SweepEnds
  BY <1>10, <1>14, StageIn DEF ChildrenCleared, SweepEnds, tree
<1>15. ASSUME ~Idle, Proceed, stage \in {"announce", "release", "destroy"}
       PROVE  /\ Top.node \in Nodes /\ Live(Top.node)
              /\ node[Top.node] = "attached" => Top.op = "remove_parameter" /\ kind = "generic"
              /\ stage = "announce" => stage' = "release" /\ Top'.node = Top.node
  <2>1. Top = stack[Len(stack)] /\ Len(stack) \in 1..Len(stack)
    BY <1>15, TopIsCall
  <2>2. Top.op \in Removals \cup {"remove_parameter"}
    BY <1>15, StageOf DEF Follows, Lasts, Removals
  <2>3. stage = "announce" => stage' = "release" /\ Top'.node = Top.node
    BY <1>15, Advance DEF Follows, Lasts, Continued
  <2>4. CASE Top.op \in Removals
    BY <2>1, <2>3, <2>4 DEF DetachedInv, Live
  <2>5. CASE Top.op = "remove_parameter"
    BY <2>1, <2>3, <2>5 DEF DetachedInv, Live
  <2> QED BY <2>2, <2>4, <2>5
<1>16. CASE Announce
  <2>1. /\ ~Idle /\ stage = "announce" /\ Proceed /\ UNCHANGED <<node, name, param, clash>>
    BY <1>16, StageIn DEF Announce, tree
  <2>2. /\ Top.node \in Nodes /\ Live(Top.node)
        /\ stage' = "release" /\ Top'.node = Top.node
    BY <1>15, <2>1
  <2>3. WithParameter' = WithParameter /\ \A n \in Nodes : ~Pending(n)
    BY <2>1 DEF WithParameter, Pending
  <2>4. ASSUME ~clash, NEW n \in WithParameter
        PROVE  index'[Address(n)] = index[Address(n)] \/ Pending(n)'
    <3>1. CASE n = Top.node
      BY <2>2, <3>1 DEF Pending
    <3>2. CASE n # Top.node
      <4>1. Address(n) # Address(Top.node) /\ Address(n) \in Addresses
        BY <1>0, <1>7, <2>2, <2>4, <3>2 DEF WithParameter
      <4>2. \/ index' = index
            \/ index' = [index EXCEPT ![Address(Top.node)] = NoParam]
        BY <1>16 DEF Announce, Erase, Assign
      <4> QED BY <1>0, <4>1, <4>2
    <3> QED BY <3>1, <3>2
  <2> QED BY <1>1, <2>1, <2>3, <2>4 DEF WithParameter
<1>17. CASE Release
  <2>1. /\ ~Idle /\ stage = "release" /\ Proceed /\ UNCHANGED <<node, name, clash, index>>
        /\ param' = IF kind = "generic" THEN [param EXCEPT ![Top.node] = 0] ELSE param
    BY <1>17, StageIn DEF Release
  <2>2. \A n \in WithParameter' : n \in Nodes /\ n # Top.node /\ param'[n] = param[n]
    BY <1>0, <1>15, <2>1 DEF WithParameter
  <2>3. \A n \in WithParameter' : ~Pending(n)
    BY <2>1, <2>2 DEF Pending
  <2> QED BY <1>0, <1>1, <2>1, <2>3
<1>18. CASE Destroy
  <2>1. stage = "destroy"
    BY <1>18, StageIn DEF Destroy
  <2> QED BY <1>0, <1>10, <1>18, <2>1 DEF Destroy
<1>19. CASE Built \/ Clear
  <2>1. ~Idle /\ stage \in {"build", "clear"} /\ Proceed
    BY <1>19, StageIn DEF Built, Clear
  <2>2. stage' \in {"collect", "teardown"}
    BY <2>1, Advance DEF Follows, Lasts
  <2> QED BY <1>2, <2>2
<1>20. CASE Collect
  <2>1. ~Idle /\ stage = "collect" /\ Proceed /\ todo' = WithParameter /\ UNCHANGED <<node, param>>
    BY <1>20, StageIn DEF Collect, tree
  <2>2. stage' = "insert"
    BY <2>1, Advance DEF Follows, Lasts
  <2> QED BY <2>1, <2>2 DEF Filled, Pending, WithParameter
<1>21. CASE Inserted
  <2>1. stage = "insert" /\ todo = {} /\ UNCHANGED <<node, name, param, clash, index>>
    BY <1>21, StageIn DEF Inserted, tree
  <2> QED BY <1>1, <2>1 DEF Pending
<1>22. CASE Teardown
  <2>1. WithParameter' = {}
    BY <1>22 DEF Teardown, WithParameter
  <2> QED BY <2>1 DEF Filled
<1>23. CASE Work
  BY <1>6, <1>9, <1>11, <1>13, <1>14, <1>16, <1>17, <1>18, <1>19, <1>20, <1>21, <1>22, <1>23
     DEF Work
<1>24. CASE Request
  BY <1>12, <1>24 DEF Request, CreateChild, Rename, CreateParameter, RemoveParameter,
                      RemoveChild, ClearChildren, RenameDevice, ApplyDeferred, Close, Begin
<1> QED BY <1>4, <1>23, <1>24 DEF Next

-----------------------------------------------------------------------------
(* The invariant.                                                          *)

(* A device starts empty, with nothing in its index.                       *)
LEMMA Initially ==
  ASSUME Init
  PROVE  Inv
<1>1. stack = <<>> /\ Len(stack) = 0 /\ Idle
  BY DEF Init, Idle
<1>2. stage = "idle" /\ \A i \in 1..Len(stack) : FALSE
  BY <1>1 DEF stage
<1>3. \A n \in Nodes : ~Live(n) /\ node[n] = "none" /\ param[n] = 0
  BY DEF Init, Live
<1>4. TypeOK
  <2>1. (CHOOSE nm \in Names : TRUE) \in Names
    BY TreeAssumption
  <2>2. 0 \in 0..MaxMade
    BY TreeAssumption
  <2>3. stack \in Seq([op : Operations, node : Nodes \cup {Root}, at : 1..5])
    BY <1>1
  <2> QED BY <1>3, <2>1, <2>2, <2>3 DEF Init, NotReading, TypeOK
<1>5. CallInv /\ DetachedInv
  BY <1>2, <1>3 DEF CallInv, DetachedInv
<1>6. TreeInv
  BY <1>1, <1>3 DEF TreeInv, AncestorsLive, Childless, UniqueNames
<1>7. WithParameter = {} /\ ~Forgotten
  BY <1>2, <1>3 DEF WithParameter, Forgotten
<1>8. IndexInv
  BY <1>2, <1>7 DEF Init, NotReading, IndexInv, EntriesAlive, Locked, ForgottenInv, TodoInv,
                   ClosedInv, Filled
<1> QED BY <1>4, <1>5, <1>6, <1>8 DEF Inv

(* No step breaks the invariant.                                           *)
LEMMA Inductive ==
  ASSUME Inv, [Next]_vars
  PROVE  Inv'
<1>1. TypeOK /\ CallInv /\ DetachedInv /\ TreeInv /\ IndexInv
  BY DEF Inv
<1>2. TypeOK' /\ CallInv' /\ DetachedInv'
  BY <1>1, TypeStep, CallsStep, DetachedStep DEF IndexInv
<1>3. TreeInv'
  BY <1>1, AncestorsStep, ChildlessStep, UniqueNamesStep DEF TreeInv
<1>4. EntriesAlive' /\ ForgottenInv' /\ Filled'
  BY <1>1, EntriesStep, ForgottenStep, FilledStep
<1>5. Locked' /\ TodoInv' /\ ClosedInv'
  BY <1>1, LockedStep, TodoStep, ClosedStep DEF IndexInv
<1> QED BY <1>2, <1>3, <1>4, <1>5 DEF Inv, IndexInv

(* The invariant always holds.                                             *)
LEMMA Invariance == Spec => []Inv
<1>1. Init => Inv
  BY Initially
<1>2. Inv /\ [Next]_vars => Inv'
  BY Inductive
<1> QED BY <1>1, <1>2, PTL DEF Spec

(* The variables keep their types, and a parameter its node.               *)
THEOREM TypeCorrect == Spec => []TypeOK
<1>1. Inv => TypeOK
  BY DEF Inv
<1> QED BY <1>1, Invariance, PTL

(* A parameter does not die under the callback of a message.               *)
THEOREM NoDanglingHolds == Spec => []NoDangling
<1>1. Inv => NoDangling
  BY DEF Inv, IndexInv, Locked, EntriesAlive, NoDangling
<1> QED BY <1>1, Invariance, PTL

(* No node is destroyed before what is below it.                           *)
THEOREM ParentsOutliveHolds == Spec => []ParentsOutlive
<1>1. ASSUME Inv, NEW n \in Nodes, Live(n), Parent(n) # Root
      PROVE  Live(Parent(n))
  <2>1. Len(Lineage[n]) \in Nat \ {0} /\ Lineage[n][Len(Lineage[n])] = n
    BY LineageFacts
  <2>2. Parent(n) = Lineage[n][Len(Lineage[n]) - 1] /\ Len(Lineage[n]) # 1
    BY <1>1 DEF Parent
  <2>3. Len(Lineage[n]) - 1 \in 1..Len(Lineage[n])
    <3>1. \A j \in Nat \ {0} : j # 1 => j - 1 \in 1..j
      OBVIOUS
    <3> QED BY <2>1, <2>2, <3>1
  <2> QED BY <1>1, <2>2, <2>3 DEF Inv, TreeInv, AncestorsLive
<1>2. Inv => ParentsOutlive
  BY <1>1 DEF ParentsOutlive
<1> QED BY <1>2, Invariance, PTL

(* Between two operations the index is the tree.                           *)
THEOREM IndexExactHolds == Spec => []IndexExact
<1>1. ASSUME Inv, Idle
      PROVE  IndexExact
  <2>1. TypeOK /\ CallInv /\ DetachedInv /\ stage = "idle"
    BY <1>1 DEF Inv, stage
  <2>2. \A n \in Nodes : Live(n) => node[n] = "attached"
    BY <1>1, <2>1, OneCall
  <2>3. ASSUME NEW a \in Addresses, index[a] # NoParam
        PROVE  \E n \in WithParameter : index[a] = <<n, param[n]>> /\ a = Address(n)
    <3>1. index[a] \in Nodes \X (1..MaxMade)
      BY <2>1, <2>3 DEF TypeOK, Pointers
    <3>2. PICK n \in Nodes : n = index[a][1]
      BY <3>1
    <3>3. param[n] = index[a][2] /\ param[n] # 0 /\ a = Address(n)
      BY <1>1, <2>1, <2>3, <3>2 DEF Inv, IndexInv, EntriesAlive, Alive
    <3>4. n \in WithParameter
      BY <2>1, <2>2, <3>3 DEF TypeOK, WithParameter
    <3> QED BY <3>1, <3>2, <3>3, <3>4
  <2>4. ~clash => \A n \in WithParameter : index[Address(n)] = <<n, param[n]>>
    BY <1>1, <2>1 DEF Inv, IndexInv, Filled, Pending
  <2> QED BY <2>3, <2>4 DEF IndexExact
<1>2. Inv => IndexExact
  BY <1>1 DEF IndexExact
<1> QED BY <1>2, Invariance, PTL

(* A message goes to the parameter that is at its address.                 *)
THEOREM ReachedByAddressHolds == Spec => ReachedByAddress
<1> DEFINE Reached ==
      \A r \in Readers :
        reader[r] = NotReading /\ reader'[r].param # NoParam =>
          In("clear") \/ reader'[r].at = Address(reader'[r].param[1])
<1>1. ASSUME Inv, [Next]_vars
      PROVE  Reached
  <2> SUFFICES ASSUME NEW r \in Readers, reader[r] = NotReading, reader'[r].param # NoParam
               PROVE  In("clear") \/ reader'[r].at = Address(reader'[r].param[1])
    OBVIOUS
  <2>1. TypeOK
    BY <1>1 DEF Inv
  <2>2. ASSUME reader' = reader
        PROVE  FALSE
    BY <2>2 DEF NotReading
  <2>3. CASE UNCHANGED vars \/ Request \/ Work
    <3>1. reader' = reader
      BY <2>3 DEF vars, editor, Request, CreateChild, Rename, CreateParameter, RemoveParameter,
                RemoveChild, ClearChildren, RenameDevice, ApplyDeferred, Close,
                Work, ClearChild, Insert, AddDeferred, Sweep, ChildrenCleared, Announce,
                Release, SweepEnds, Destroy, Built, Clear, Collect, Inserted, Teardown
    <3> QED BY <2>2, <3>1
  <2>4. ASSUME NEW q \in Readers, Return(q)
        PROVE  FALSE
    BY <2>1, <2>4 DEF Return, NotReading, TypeOK
  <2>5. ASSUME NEW q \in Readers, NEW a \in Addresses, Apply(q, a)
        PROVE  In("clear") \/ reader'[r].at = Address(reader'[r].param[1])
    <3>1. reader'[r].at = a /\ reader'[r].param = index[a]
      BY <2>1, <2>5 DEF Apply, NotReading, TypeOK
    <3>2. stage = "clear" \/ a = Address(index[a][1])
      BY <1>1, <3>1 DEF Inv, IndexInv, EntriesAlive
    <3>3. stage = "clear" => In("clear")
      BY DEF stage, In
    <3> QED BY <3>1, <3>2, <3>3
  <2> QED BY <1>1, <2>3, <2>4, <2>5 DEF Next, Receive
<1>2. Inv /\ [Next]_vars => [Reached]_vars
  BY <1>1
<1> QED BY <1>2, Invariance, PTL DEF Spec, ReachedByAddress

=============================================================================
