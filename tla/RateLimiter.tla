---------------------------- MODULE RateLimiter -----------------------------
(***************************************************************************)
(* ossia::net::rate_limiting_protocol                                      *)
(* (src/src/ossia/network/rate_limiting_protocol.cpp): a protocol wrapped  *)
(* so that its messages leave at a bounded rate.  push(), from any thread, *)
(* keeps the newest value of each parameter; a thread of the protocol      *)
(* wakes up periodically, takes what was kept and pushes it to the wrapped *)
(* protocol, which may throw.                                              *)
(*                                                                         *)
(* The values of a parameter are numbered in the order in which push()     *)
(* gets them under m_msgMutex; 0 is the invalid ossia::value.  The periods *)
(* have no length here: a sleep may end at any time.                       *)
(***************************************************************************)
EXTENDS Naturals

CONSTANTS
    Parameters,     \* the parameter_base*, numbered in the order of flat_map
    MaxPush,        \* bound on the values pushed for each parameter
    MaxErrors       \* bound on the exceptions of the wrapped protocol

ASSUME LimiterAssumption ==
    /\ Parameters \subseteq Nat
    /\ MaxPush \in Nat /\ MaxErrors \in Nat

VARIABLES
    running,        \* m_running
    user_messages,  \* m_userMessages, under m_msgMutex
    buffer,         \* m_buffer
    thread_messages,\* m_threadMessages
    at,             \* where the thread is in rate_limiter::operator()
    todo,           \* what the loop that pushes has not visited yet
    pushed,         \* history: number of values that push() got
    sent,           \* history: last value that the wrapped protocol got
    errors          \* history: number of exceptions

messages == <<user_messages, buffer, thread_messages>>
vars == <<running, messages, at, todo, pushed, sent, errors>>

Invalid == 0
Empty == [p \in Parameters |-> Invalid]

Init ==
    /\ running = TRUE
    /\ user_messages = Empty /\ buffer = Empty /\ thread_messages = Empty
    /\ at = "test" /\ todo = {}
    /\ pushed = Empty /\ sent = Empty /\ errors = 0

-----------------------------------------------------------------------------
(* Mutant: a value that waits is not replaced.                             *)
Push_Emplace(p) ==
    /\ running
    /\ pushed[p] < MaxPush
    /\ pushed' = [pushed EXCEPT ![p] = @ + 1]
    /\ user_messages' = [user_messages EXCEPT ![p] =
                            IF @ = Invalid THEN pushed[p] + 1 ELSE @]
    /\ UNCHANGED <<running, buffer, thread_messages, at, todo, sent, errors>>

(* push(), atomic under the mutex.                                         *)
Push(p) ==
    /\ running
    /\ pushed[p] < MaxPush
    /\ pushed' = [pushed EXCEPT ![p] = @ + 1]
    /\ user_messages' = [user_messages EXCEPT ![p] = pushed[p] + 1]
    /\ UNCHANGED <<running, buffer, thread_messages, at, todo, sent, errors>>

(* The destructor, which then joins the thread.                            *)
Destroy ==
    /\ running
    /\ running' = FALSE
    /\ UNCHANGED <<messages, at, todo, pushed, sent, errors>>

-----------------------------------------------------------------------------
(* The thread.                                                             *)

Test ==
    /\ at = "test"
    /\ at' = IF running THEN "sleep" ELSE "exited"
    /\ UNCHANGED <<running, messages, todo, pushed, sent, errors>>

(* The end of the sleep, and the swap under the mutex.                     *)
Swap ==
    /\ at = "sleep"
    /\ buffer' = user_messages /\ user_messages' = buffer
    /\ at' = "copy"
    /\ UNCHANGED <<running, thread_messages, todo, pushed, sent, errors>>

(* Mutant: what was copied stays valid in the buffer.                      *)
Copy_KeepsBuffer ==
    /\ at = "copy"
    /\ thread_messages' = [p \in Parameters |->
          IF buffer[p] # Invalid THEN buffer[p] ELSE thread_messages[p]]
    /\ buffer' = buffer
    /\ todo' = {p \in Parameters : thread_messages'[p] # Invalid}
    /\ at' = "push"
    /\ UNCHANGED <<running, user_messages, pushed, sent, errors>>

Copy ==
    /\ at = "copy"
    /\ thread_messages' = [p \in Parameters |->
          IF buffer[p] # Invalid THEN buffer[p] ELSE thread_messages[p]]
    /\ buffer' = Empty
    /\ todo' = {p \in Parameters : thread_messages'[p] # Invalid}
    /\ at' = "push"
    /\ UNCHANGED <<running, user_messages, pushed, sent, errors>>

(* The loop visits the parameters in the order of their addresses.         *)
First(p) == p \in todo /\ \A q \in todo : p <= q

PushOne(p) ==
    /\ at = "push" /\ First(p)
    /\ sent' = [sent EXCEPT ![p] = thread_messages[p]]
    /\ todo' = todo \ {p}
    /\ UNCHANGED <<running, messages, at, pushed, errors>>

(* catch(...): the messages stay valid, those already sent included.       *)
PushThrows ==
    /\ at = "push" /\ todo # {}
    /\ errors < MaxErrors
    /\ errors' = errors + 1
    /\ todo' = {}
    /\ at' = "test"
    /\ UNCHANGED <<running, messages, pushed, sent>>

Clear ==
    /\ at = "push" /\ todo = {}
    /\ buffer' = Empty /\ thread_messages' = Empty
    /\ at' = "test"
    /\ UNCHANGED <<running, user_messages, todo, pushed, sent, errors>>

Limiter ==
    \/ Test \/ Swap \/ Copy \/ PushThrows \/ Clear
    \/ \E p \in Parameters : PushOne(p)

Next == Limiter \/ Destroy \/ \E p \in Parameters : Push(p)

Spec == Init /\ [][Next]_vars

(* The system schedules the thread.                                        *)
FairSpec == Spec /\ WF_vars(Limiter)

-----------------------------------------------------------------------------
(* What the thread took last, sent or not.                                 *)
Taken(p) ==
    IF buffer[p] # Invalid THEN buffer[p]
    ELSE IF thread_messages[p] # Invalid THEN thread_messages[p] ELSE sent[p]

TypeOK ==
    /\ running \in BOOLEAN
    /\ user_messages \in [Parameters -> Nat]
    /\ buffer \in [Parameters -> Nat]
    /\ thread_messages \in [Parameters -> Nat]
    /\ at \in {"test", "sleep", "copy", "push", "exited"}
    /\ todo \subseteq Parameters
    /\ pushed \in [Parameters -> 0..MaxPush]
    /\ sent \in [Parameters -> Nat]
    /\ errors \in 0..MaxErrors

(* The three maps hold, from the newest to the oldest: the last value that *)
(* push() got, the one that is being taken, and the one being sent.        *)
MessageOrder ==
    \A p \in Parameters :
        /\ user_messages[p] \in {Invalid, pushed[p]}
        /\ user_messages[p] = Invalid => Taken(p) = pushed[p]
        /\ user_messages[p] # Invalid => Taken(p) < pushed[p]
        /\ buffer[p] # Invalid =>
              thread_messages[p] < buffer[p] /\ sent[p] < buffer[p]
        /\ thread_messages[p] # Invalid => sent[p] <= thread_messages[p]

(* Between two rounds the buffer has nothing left, and the messages left   *)
(* by an exception are those that it kept from being sent.                 *)
RoundInv ==
    /\ at # "copy" => buffer = Empty
    /\ at # "push" => todo = {}
    /\ at = "push" => \A p \in Parameters :
          /\ p \in todo => thread_messages[p] # Invalid
          /\ p \notin todo => thread_messages[p] \in {Invalid, sent[p]}
    /\ errors = 0 => \A p \in Parameters :
          /\ at # "push" => thread_messages[p] = Invalid
          /\ p \in todo => sent[p] < thread_messages[p]

Inv == TypeOK /\ MessageOrder /\ RoundInv

(* rate_limiting_protocol.cpp:37-55: the wrapped protocol never gets a     *)
(* value older than one it already got, also after an exception.           *)
NeverOlder == [][\A p \in Parameters : sent'[p] >= sent[p]]_sent

(* rate_limiting_protocol.cpp:57-73: a value is sent once, unless a push   *)
(* threw in between.                                                       *)
SentOnce ==
    [][\A p \in Parameters :
          p \in todo /\ p \notin todo' /\ at' = "push" =>
              errors > 0 \/ sent[p] < sent'[p]]_vars

(* rate_limiting_protocol.cpp:130, "Copy newest messages": what is taken   *)
(* for a parameter is the newest value, and values in between may be       *)
(* skipped: each parameter has a register of its latest value.  (This is   *)
(* \A p \in Parameters : Register(p)!LSpec, in the form that TLC accepts.)  *)
Register(p) == INSTANCE LatestValue WITH
    MaxProduce <- MaxPush,
    newest <- pushed[p],
    fresh <- user_messages[p] # Invalid,
    taken <- Taken(p)
RefinesRegisters ==
    /\ \A p \in Parameters : Register(p)!LInit
    /\ [][\A p \in Parameters :
             Register(p)!LNext \/ UNCHANGED Register(p)!lvars]_vars

(* The newest value of each parameter leaves in the end, whatever throws   *)
(* meanwhile, as long as the protocol is not destroyed.                    *)
NewestIsSent ==
    \A p \in Parameters, v \in 1..MaxPush :
        pushed[p] >= v ~> sent[p] >= v \/ ~running
=============================================================================
