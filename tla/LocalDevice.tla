----------------------------- MODULE LocalDevice -----------------------------
(***************************************************************************)
(* The parameters of a device that a multiplex_protocol exposes through    *)
(* several protocols.  Threads of the user push values, register their     *)
(* message queues as callbacks, and add or remove protocols; each protocol *)
(* has a thread that receives messages for the parameters.  A protocol is  *)
(* one like oscquery_server_protocol: it echoes the messages of the others,*)
(* and applies quietly what it does not listen to.                         *)
(*                                                                         *)
(* Two kinds of locks are held across calls, and both are seen here in     *)
(* what the threads are doing: the mutex of the callbacks of a parameter   *)
(* (CallbacksLocked), held while its observation is switched, and          *)
(* m_protocols_mutex (ProtocolsLocked), held while a protocol is added or  *)
(* destroyed.  A section of code under a lock that takes no other lock is  *)
(* one step.                                                               *)
(*                                                                         *)
(* The parameters stay, values have the type of their parameter, and there *)
(* is neither domain nor repetition filter.                                *)
(***************************************************************************)
EXTENDS Naturals

CONSTANTS
    Params, Values,
    Default,        \* init_value of the type of the parameters
    Users,          \* threads, each with a message_queue
    Protocols,      \* protocols, each with its thread
    Registered,     \* m_protocols_to_register, when the device is set
    Writers,        \* parameter -> the threads that may write it
    Echo,           \* m_echo of the device
    NoValue,        \* nothing was sent or heard
    MaxCalls        \* thread -> bound on its calls, or on its messages

Threads == Users \cup Protocols

ASSUME LocalDeviceAssumption ==
    /\ Users \cap Protocols = {}
    /\ Registered \subseteq Protocols
    /\ Writers \in [Params -> SUBSET Threads]
    /\ Echo \in BOOLEAN
    /\ NoValue \notin Values
    /\ Default \in Values
    /\ MaxCalls \in [Threads -> Nat]

VARIABLES
    value,      \* parameter -> m_value
    callbacks,  \* parameter -> the users with a callback in m_callbacks
    count,      \* user -> parameter -> its count in m_reg
    heard,      \* user -> parameter -> the last value its callback queued
    protocols,  \* m_protocols
    listening,  \* protocol -> m_listening
    known,      \* protocol -> parameter -> the last value its network has
    call,       \* thread -> the call it is in
    calls       \* thread -> how many calls it made

device == <<value, known>>
observers == <<callbacks, count, heard>>
exposed == <<protocols, listening>>
vars == <<device, observers, exposed, call, calls>>

Idle(t) == call[t].op = "idle"
In(t, ops) == call[t].op \in ops

(* Mutant: the callbacks stay locked while the value is pushed.            *)
Switches_Push(t, p) ==
    In(t, {"observe", "unobserve", "erase", "push"}) /\ call[t].param = p
(* add_callback or remove_callback is in the middle of switching p.        *)
Switches(t, p) == In(t, {"observe", "unobserve", "erase"}) /\ call[t].param = p
CallbacksLocked(p) == \E u \in Users : Switches(u, p)

(* expose_to or stop_expose_to is in the middle of its work on q.          *)
Exposes(t, q) == In(t, {"expose"}) /\ call[t].protocol = q
Destroys(t, q) == In(t, {"destroy"}) /\ call[t].protocol = q
ProtocolsLocked == \E u \in Users : In(u, {"expose", "destroy"})

NoCall == [op |-> "idle"]
OnParam(op, p) == [op |-> op, param |-> p]
WithValue(op, p, v) == [op |-> op, param |-> p, value |-> v]
OnProtocol(op, q, ps) == [op |-> op, protocol |-> q, todo |-> ps]

Enter(t, c) == call' = [call EXCEPT ![t] = c]
Begin(t, c) ==
    /\ Idle(t) /\ calls[t] < MaxCalls[t]
    /\ calls' = [calls EXCEPT ![t] = @ + 1]
    /\ Enter(t, c)
Continue(t, c) == Enter(t, c) /\ UNCHANGED calls

(* set_device exposes the device through the protocols it was given before,*)
(* when it has no parameter yet.                                           *)
Init ==
    /\ value = [p \in Params |-> Default]
    /\ callbacks = [p \in Params |-> {}]
    /\ count = [u \in Users |-> [p \in Params |-> 0]]
    /\ heard = [u \in Users |-> [p \in Params |-> NoValue]]
    /\ protocols = Registered
    /\ listening = [q \in Protocols |-> {}]
    /\ known = [q \in Protocols |-> [p \in Params |-> NoValue]]
    /\ call = [t \in Threads |-> NoCall]
    /\ calls = [t \in Threads |-> 0]

-----------------------------------------------------------------------------
(* push_value: set_value under m_valueMutex, the callbacks, the protocols. *)

PushValue(u, p, v) ==
    /\ u \in Writers[p]
    /\ Begin(u, WithValue("notify", p, v))
    /\ value' = [value EXCEPT ![p] = v]
    /\ UNCHANGED <<known, observers, exposed>>

AfterNotify(t) ==
    IF t \in Users THEN [call[t] EXCEPT !.op = "push"]
    ELSE IF Echo THEN [call[t] EXCEPT !.op = "echo"] ELSE NoCall

(* send(): every callback enqueues the value.                              *)
Notify(t) ==
    /\ In(t, {"notify"}) /\ ~CallbacksLocked(call[t].param)
    /\ heard' = [u \in Users |->
          IF u \in callbacks[call[t].param]
          THEN [heard[u] EXCEPT ![call[t].param] = call[t].value] ELSE heard[u]]
    /\ Continue(t, AfterNotify(t))
    /\ UNCHANGED <<device, callbacks, count, exposed>>

Sent(qs, p, v) ==
    known' = [q \in Protocols |->
                 IF q \in qs THEN [known[q] EXCEPT ![p] = v] ELSE known[q]]

(* multiplex_protocol::push.                                               *)
Push(u) ==
    /\ In(u, {"push"}) /\ ~ProtocolsLocked
    /\ Sent(protocols, call[u].param, call[u].value)
    /\ Continue(u, NoCall)
    /\ UNCHANGED <<value, observers, exposed>>

-----------------------------------------------------------------------------
(* A message arrives at protocol q.  A new protocol receives as soon as it *)
(* has its device, and one that is being destroyed until it is stopped.    *)
Receives(q) ==
    q \in protocols \/ \E u \in Users : Exposes(u, q) \/ Destroys(u, q)

(* on_input_message<true>: looks whether the parameter is listened to.     *)
Receive(q, p, v) ==
    /\ Receives(q) /\ q \in Writers[p]
    /\ Begin(q, WithValue(IF p \in listening[q] THEN "set" ELSE "quiet", p, v))
    /\ known' = [known EXCEPT ![q][p] = v]
    /\ UNCHANGED <<value, observers, exposed>>

(* Mutant: what nobody listens to is not echoed.                           *)
Apply_QuietIsLocal(q) ==
    /\ In(q, {"set", "quiet"})
    /\ value' = [value EXCEPT ![call[q].param] = call[q].value]
    /\ Continue(q, IF In(q, {"set"}) THEN [call[q] EXCEPT !.op = "notify"]
                   ELSE NoCall)
    /\ UNCHANGED <<known, observers, exposed>>

(* apply_incoming_message, up to the callbacks, or its quiet version.      *)
Apply(q) ==
    /\ In(q, {"set", "quiet"})
    /\ value' = [value EXCEPT ![call[q].param] = call[q].value]
    /\ Continue(q, IF In(q, {"set"}) THEN [call[q] EXCEPT !.op = "notify"]
                   ELSE AfterNotify(q))
    /\ UNCHANGED <<known, observers, exposed>>

(* echo_incoming_message: to the other protocols.                          *)
EchoMessage(q) ==
    /\ In(q, {"echo"}) /\ ~ProtocolsLocked
    /\ Sent(protocols \ {q}, call[q].param, call[q].value)
    /\ Continue(q, NoCall)
    /\ UNCHANGED <<value, observers, exposed>>

-----------------------------------------------------------------------------
(* message_queue::reg.  The first callback of a parameter makes all the    *)
(* protocols listen to it, under the mutex of the callbacks.               *)
RegAgain(u, p) ==
    /\ count[u][p] > 0 /\ Begin(u, NoCall)
    /\ count' = [count EXCEPT ![u][p] = @ + 1]
    /\ UNCHANGED <<device, callbacks, heard, exposed>>

Reg(u, p) ==
    /\ count[u][p] = 0 /\ ~CallbacksLocked(p)
    /\ Begin(u, IF callbacks[p] = {} THEN OnParam("observe", p) ELSE NoCall)
    /\ callbacks' = [callbacks EXCEPT ![p] = @ \cup {u}]
    /\ count' = [count EXCEPT ![u][p] = 1]
    /\ heard' = [heard EXCEPT ![u][p] = NoValue]
    /\ UNCHANGED <<device, exposed>>

Observe(u) ==
    /\ In(u, {"observe"}) /\ ~ProtocolsLocked
    /\ listening' = [q \in Protocols |-> IF q \in protocols
          THEN listening[q] \cup {call[u].param} ELSE listening[q]]
    /\ Continue(u, NoCall)
    /\ UNCHANGED <<device, observers, protocols>>

(* message_queue::unreg.  The last callback is erased after the protocols  *)
(* stopped listening.                                                      *)
UnregOnce(u, p) ==
    /\ count[u][p] > 1 /\ Begin(u, NoCall)
    /\ count' = [count EXCEPT ![u][p] = @ - 1]
    /\ UNCHANGED <<device, callbacks, heard, exposed>>

Unreg(u, p) ==
    /\ count[u][p] = 1 /\ ~CallbacksLocked(p)
    /\ count' = [count EXCEPT ![u][p] = 0]
    /\ IF callbacks[p] = {u}
       THEN Begin(u, OnParam("unobserve", p)) /\ UNCHANGED callbacks
       ELSE Begin(u, NoCall) /\ callbacks' = [callbacks EXCEPT ![p] = @ \ {u}]
    /\ UNCHANGED <<device, heard, exposed>>

Unobserve(u) ==
    /\ In(u, {"unobserve"}) /\ ~ProtocolsLocked
    /\ listening' = [q \in Protocols |-> IF q \in protocols
          THEN listening[q] \ {call[u].param} ELSE listening[q]]
    /\ Continue(u, OnParam("erase", call[u].param))
    /\ UNCHANGED <<device, observers, protocols>>

EraseCallback(u) ==
    /\ In(u, {"erase"})
    /\ callbacks' = [callbacks EXCEPT ![call[u].param] = @ \ {u}]
    /\ Continue(u, NoCall)
    /\ UNCHANGED <<device, count, heard, exposed>>

-----------------------------------------------------------------------------
(* expose_to, under m_protocols_mutex.                                     *)
ExposeTo(u, q) ==
    /\ q \notin protocols /\ ~ProtocolsLocked
    /\ Begin(u, OnProtocol("expose", q, Params))
    /\ UNCHANGED <<device, observers, exposed>>

(* Mutant: the callbacks are read without their mutex.                     *)
ObserveRec_Unlocked(u, p) ==
    /\ In(u, {"expose"}) /\ p \in call[u].todo
    /\ listening' = [listening EXCEPT ![call[u].protocol] =
                        IF callbacks[p] # {} THEN @ \cup {p} ELSE @]
    /\ Continue(u, [call[u] EXCEPT !.todo = @ \ {p}])
    /\ UNCHANGED <<device, observers, protocols>>

(* observe_rec: it asks each parameter whether it has callbacks, under the *)
(* mutex of these.                                                         *)
ObserveRec(u, p) ==
    /\ In(u, {"expose"}) /\ p \in call[u].todo /\ ~CallbacksLocked(p)
    /\ listening' = [listening EXCEPT ![call[u].protocol] =
                        IF callbacks[p] # {} THEN @ \cup {p} ELSE @]
    /\ Continue(u, [call[u] EXCEPT !.todo = @ \ {p}])
    /\ UNCHANGED <<device, observers, protocols>>

Exposed(u) ==
    /\ In(u, {"expose"}) /\ call[u].todo = {}
    /\ protocols' = protocols \cup {call[u].protocol}
    /\ Continue(u, NoCall)
    /\ UNCHANGED <<device, observers, listening>>

(* stop_expose_to destroys the protocol under m_protocols_mutex; its       *)
(* destructor joins its thread.                                            *)
StopExposeTo(u, q) ==
    /\ q \in protocols /\ ~ProtocolsLocked
    /\ Begin(u, OnProtocol("destroy", q, {}))
    /\ protocols' = protocols \ {q}
    /\ UNCHANGED <<device, observers, listening>>

Destroyed(u) ==
    /\ In(u, {"destroy"}) /\ Idle(call[u].protocol)
    /\ listening' = [listening EXCEPT ![call[u].protocol] = {}]
    /\ known' = [known EXCEPT ![call[u].protocol] = [p \in Params |-> NoValue]]
    /\ Continue(u, NoCall)
    /\ UNCHANGED <<value, observers, protocols>>

-----------------------------------------------------------------------------
(* What a thread that is in a call does next.                              *)
Work(t) ==
    \/ Notify(t)
    \/ /\ t \in Users
       /\ \/ Push(t) \/ Observe(t) \/ Unobserve(t) \/ EraseCallback(t)
          \/ Exposed(t) \/ Destroyed(t)
          \/ \E p \in Params : ObserveRec(t, p)
    \/ t \in Protocols /\ (Apply(t) \/ EchoMessage(t))

Request ==
    \/ \E u \in Users, p \in Params :
          \/ RegAgain(u, p) \/ Reg(u, p) \/ UnregOnce(u, p) \/ Unreg(u, p)
          \/ \E v \in Values : PushValue(u, p, v)
    \/ \E u \in Users, q \in Protocols : ExposeTo(u, q) \/ StopExposeTo(u, q)
    \/ \E q \in Protocols, p \in Params, v \in Values : Receive(q, p, v)

Next == Request \/ \E t \in Threads : Work(t)
Spec == Init /\ [][Next]_vars

(* The system schedules every thread.  The calls of the threads are        *)
(* finitely many, so no thread is kept from a lock for ever by the others. *)
FairSpec == Spec /\ \A t \in Threads : WF_vars(Work(t))
=============================================================================
