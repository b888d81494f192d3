-------------------------- MODULE RateLimiterProofs --------------------------
(***************************************************************************)
(* Proofs about RateLimiter, for every set of parameters, every number of  *)
(* values and every number of exceptions.  MessageOrder is what makes a    *)
(* message newer than the previous one; RoundInv makes it inductive: the   *)
(* thread forgets only messages that it sent.                              *)
(***************************************************************************)
EXTENDS RateLimiter, TLAPS

(* The maps are empty when the protocol is constructed.                    *)
LEMMA InitInv == Init => Inv
  BY LimiterAssumption
     DEF Init, Inv, TypeOK, MessageOrder, RoundInv, Empty, Invalid, Taken

(* Every step of a user or of the thread preserves the invariant.          *)
LEMMA StepInv == Inv /\ [Next]_vars => Inv'
<1> SUFFICES ASSUME Inv, [Next]_vars PROVE Inv'
  OBVIOUS
<1> USE LimiterAssumption DEF Inv, TypeOK, MessageOrder, RoundInv, messages,
        Empty, Invalid, Taken
<1>1. ASSUME NEW q \in Parameters, Push(q)
      PROVE  Inv'
  <2>1. TypeOK'
    BY <1>1 DEF Push
  <2>2. MessageOrder'
    BY <1>1 DEF Push
  <2>3. RoundInv'
    BY <1>1 DEF Push
  <2> QED BY <2>1, <2>2, <2>3
<1>2. CASE Destroy
  BY <1>2 DEF Destroy
<1>3. CASE Test
  BY <1>3 DEF Test
<1>4. CASE Swap
  BY <1>4 DEF Swap
<1>5. CASE Copy
  <2>1. TypeOK'
    BY <1>5 DEF Copy
  <2>2. MessageOrder'
    BY <1>5 DEF Copy
  <2>3. RoundInv'
    BY <1>5 DEF Copy
  <2> QED BY <2>1, <2>2, <2>3
<1>6. ASSUME NEW q \in Parameters, PushOne(q)
      PROVE  Inv'
  BY <1>6 DEF PushOne, First
<1>7. CASE PushThrows
  BY <1>7 DEF PushThrows
<1>8. CASE Clear
  BY <1>8 DEF Clear
<1>9. CASE UNCHANGED vars
  BY <1>9 DEF vars
<1> QED BY <1>1, <1>2, <1>3, <1>4, <1>5, <1>6, <1>7, <1>8, <1>9
        DEF Next, Limiter

(* The maps are ordered by age in every reachable state.                   *)
THEOREM Invariance == Spec => []Inv
  BY InitInv, StepInv, PTL DEF Spec

(* The wrapped protocol gets the values of a parameter in the order of     *)
(* their push().                                                           *)
THEOREM Ordered == Spec => NeverOlder
<1>1. Inv /\ [Next]_vars => [\A p \in Parameters : sent'[p] >= sent[p]]_sent
  <2> SUFFICES ASSUME Inv, Next, sent' # sent, NEW p \in Parameters
               PROVE  sent'[p] >= sent[p]
    BY DEF vars
  <2>1. PICK q \in Parameters : PushOne(q)
    BY DEF Next, Limiter, Push, Destroy, Test, Swap, Copy, PushThrows, Clear
  <2>2. q \in todo /\ sent' = [sent EXCEPT ![q] = thread_messages[q]]
    BY <2>1 DEF PushOne, First
  <2>3. sent \in [Parameters -> Nat] /\ sent[q] <= thread_messages[q]
    BY <2>1, <2>2 DEF Inv, TypeOK, MessageOrder, RoundInv, PushOne
  <2> QED BY <2>2, <2>3
<1> QED BY Invariance, <1>1, PTL DEF Spec, NeverOlder

(* Without exceptions, no value is sent twice.                             *)
THEOREM NotRepeated == Spec => SentOnce
<1>1. Inv /\ [Next]_vars =>
        [\A p \in Parameters :
            p \in todo /\ p \notin todo' /\ at' = "push" =>
                errors > 0 \/ sent[p] < sent'[p]]_vars
  <2> SUFFICES ASSUME Inv, Next, NEW p \in Parameters, p \in todo,
                      p \notin todo', at' = "push", errors = 0
               PROVE  sent[p] < sent'[p]
    BY DEF Inv, TypeOK, vars
  <2>1. at = "push"
    BY DEF Inv, RoundInv
  <2>2. PICK q \in Parameters : PushOne(q)
    BY <2>1 DEF Next, Limiter, Push, Destroy, Test, Swap, Copy, PushThrows,
                Clear
  <2>3. sent'[p] = thread_messages[p]
    BY <2>2 DEF PushOne, Inv, TypeOK
  <2> QED BY <2>3 DEF Inv, RoundInv
<1> QED BY Invariance, <1>1, PTL DEF Spec, SentOnce

(* For each parameter the limiter is a register of the latest value.       *)
THEOREM Refinement == Spec => RefinesRegisters
<1>1. Init => \A p \in Parameters : Register(p)!LInit
  BY DEF Init, Empty, Invalid, Taken, Register!LInit
<1>2. Inv /\ [Next]_vars =>
        [\A p \in Parameters :
            Register(p)!LNext \/ UNCHANGED Register(p)!lvars]_vars
  <2> SUFFICES ASSUME Inv, Next, NEW p \in Parameters
               PROVE  Register(p)!LNext \/ UNCHANGED Register(p)!lvars
    OBVIOUS
  <2> USE DEF Inv, TypeOK, MessageOrder, RoundInv, Invalid, Taken, Empty,
              messages, Register!LNext, Register!lvars
  <2>1. ASSUME NEW q \in Parameters, Push(q)
        PROVE  Register(p)!LNext \/ UNCHANGED Register(p)!lvars
    <3>1. CASE q = p
      BY <2>1, <3>1 DEF Push, Register!Publish
    <3>2. CASE q # p
      BY <2>1, <3>2 DEF Push
    <3> QED BY <3>1, <3>2
  <2>2. CASE Destroy \/ Test \/ PushThrows
    BY <2>2 DEF Destroy, Test, PushThrows
  <2>3. CASE Swap
    <3>1. CASE user_messages[p] # Invalid
      BY <2>3, <3>1 DEF Swap, Register!Take
    <3>2. CASE user_messages[p] = Invalid
      BY <2>3, <3>2 DEF Swap
    <3> QED BY <3>1, <3>2
  <2>4. CASE Copy
    BY <2>4 DEF Copy
  <2>5. ASSUME NEW q \in Parameters, PushOne(q)
        PROVE  Register(p)!LNext \/ UNCHANGED Register(p)!lvars
    BY <2>5 DEF PushOne, First
  <2>6. CASE Clear
    BY <2>6 DEF Clear
  <2> QED BY <2>1, <2>2, <2>3, <2>4, <2>5, <2>6 DEF Next, Limiter
<1> QED BY Invariance, <1>1, <1>2, PTL DEF Spec, RefinesRegisters
=============================================================================
