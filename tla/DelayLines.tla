----------------------------- MODULE DelayLines -----------------------------
(* What a delayed connection promises: a queue from a node to another.     *)
EXTENDS Integers, Sequences

CONSTANT Lines
VARIABLES
    pending,  \* line -> what was written to it and not read yet
    given     \* line -> what the last run of its target read from it

Change(l) ==
    \/ \E v \in {pending'[l][i] : i \in DOMAIN pending'[l]} :  \* written
          pending'[l] = Append(pending[l], v) /\ given'[l] = given[l]
    \/ \* read, and by a node that feeds itself also written
       /\ pending[l] # <<>> /\ given'[l] = Head(pending[l])
       /\ \/ pending'[l] = Tail(pending[l])
          \/ Len(pending'[l]) = Len(pending[l])
             /\ SubSeq(pending'[l], 1, Len(pending[l]) - 1) = Tail(pending[l])
    \/ \* nothing to read yet
       /\ pending[l] = <<>> /\ Len(pending'[l]) <= 1 /\ given'[l] = {}
    \/ pending'[l] = <<>> /\ given'[l] = {}           \* connected, disconnected
    \/ pending'[l] = pending[l] /\ given'[l] = given[l]

Init == pending = [l \in Lines |-> <<>>] /\ given = [l \in Lines |-> {}]
Next == \A l \in Lines : Change(l)
Spec == Init /\ [][Next]_<<pending, given>>
=============================================================================
