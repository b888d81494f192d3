-------------------------- MODULE LocalDeviceProofs --------------------------
(***************************************************************************)
(* Proofs about LocalDevice, for any threads, protocols and parameters, and*)
(* any number of calls.                                                    *)
(***************************************************************************)
EXTENDS LocalDeviceProperties, TLAPS

(* What a call has, operation by operation.                                *)
LEMMA CallTypes ==
    ASSUME NEW c \in Call
    PROVE  /\ c.op \in {"observe", "unobserve", "erase"} => c.param \in Params
           /\ c.op \in {"notify", "push", "set", "quiet", "echo"} =>
                /\ c.param \in Params /\ c.value \in Values
                /\ \A op \in {"notify", "push", "set", "quiet", "echo"} :
                     [c EXCEPT !.op = op] \in Call
           /\ c.op \in {"expose", "destroy"} =>
                /\ c.protocol \in Protocols /\ c.todo \subseteq Params
                /\ \A ps \in SUBSET Params : [c EXCEPT !.todo = ps] \in Call
  BY DEF Call, NoCall

LEMMA InitTypes == Init => TypeOK
  BY LocalDeviceAssumption DEF Init, TypeOK, Threads, Call, NoCall

(* Every call that a step enters is one.                                   *)
LEMMA NewCalls ==
    /\ NoCall \in Call
    /\ \A p \in Params : \A op \in {"observe", "unobserve", "erase"} : OnParam(op, p) \in Call
    /\ \A p \in Params, v \in Values : \A op \in {"notify", "push", "set", "quiet", "echo"} :
          WithValue(op, p, v) \in Call
    /\ \A q \in Protocols, ps \in SUBSET Params : \A op \in {"expose", "destroy"} :
          OnProtocol(op, q, ps) \in Call
  BY DEF Call, NoCall, OnParam, WithValue, OnProtocol

LEMMA StepTypes == TypeOK /\ [Next]_vars => TypeOK'
<1> SUFFICES ASSUME TypeOK, [Next]_vars PROVE TypeOK'
  OBVIOUS
<1> USE LocalDeviceAssumption
<1>1. ASSUME NEW t \in Threads, NEW c \in Call, Begin(t, c) \/ Continue(t, c)
      PROVE  call' \in [Threads -> Call] /\ calls' \in [Threads -> Nat]
  <2>1. call' \in [Threads -> Call]
    BY <1>1 DEF TypeOK, Begin, Continue, Enter
  <2>2. CASE Begin(t, c)
    BY <2>1, <2>2 DEF TypeOK, Begin
  <2>3. CASE Continue(t, c)
    BY <2>1, <2>3 DEF TypeOK, Continue
  <2> QED BY <1>1, <2>2, <2>3
<1>2. ASSUME NEW qs \in SUBSET Protocols, NEW p \in Params, NEW v \in Values, Sent(qs, p, v)
      PROVE  known' \in [Protocols -> [Params -> Values \cup {NoValue}]]
  BY <1>2 DEF TypeOK, Sent
<1>3. ASSUME NEW t \in Threads, In(t, {"notify", "push", "set", "quiet", "echo"})
      PROVE  /\ call[t].param \in Params /\ call[t].value \in Values
             /\ \A op \in {"notify", "push", "set", "quiet", "echo"} :
                  [call[t] EXCEPT !.op = op] \in Call
             /\ AfterNotify(t) \in Call
  BY <1>3, CallTypes, NewCalls DEF TypeOK, In, AfterNotify
<1>4. ASSUME NEW u \in Users, NEW p \in Params, NEW v \in Values, PushValue(u, p, v)
      PROVE  TypeOK'
  BY <1>1, <1>4, NewCalls DEF TypeOK, PushValue, Threads, observers, exposed
<1>5. ASSUME NEW t \in Threads, Notify(t) PROVE TypeOK'
  <2>1. /\ call[t].param \in Params /\ call[t].value \in Values
        /\ AfterNotify(t) \in Call
    BY <1>3, <1>5 DEF Notify, In
  <2>2. heard' \in [Users -> [Params -> Values \cup {NoValue}]]
    BY <1>5, <2>1 DEF TypeOK, Notify
  <2> QED BY <1>1, <1>5, <2>1, <2>2 DEF TypeOK, Notify, device, exposed
<1>6. ASSUME NEW u \in Users, Push(u) PROVE TypeOK'
  <2>1. known' \in [Protocols -> [Params -> Values \cup {NoValue}]]
    BY <1>2, <1>3, <1>6 DEF TypeOK, Push, In, Threads
  <2> QED BY <1>1, <1>6, <2>1, NewCalls DEF TypeOK, Push, Threads, observers, exposed
<1>7. ASSUME NEW q \in Protocols, NEW p \in Params, NEW v \in Values, Receive(q, p, v)
      PROVE  TypeOK'
  <2>1. known' \in [Protocols -> [Params -> Values \cup {NoValue}]]
    BY <1>7 DEF TypeOK, Receive
  <2> QED BY <1>1, <1>7, <2>1, NewCalls DEF TypeOK, Receive, Threads, observers, exposed
<1>8. ASSUME NEW q \in Protocols, Apply(q) PROVE TypeOK'
  <2>1. q \in Threads /\ In(q, {"notify", "push", "set", "quiet", "echo"})
    BY <1>8 DEF Apply, In, Threads
  <2>2. value' \in [Params -> Values]
    BY <1>3, <1>8, <2>1 DEF TypeOK, Apply
  <2> QED BY <1>1, <1>3, <1>8, <2>1, <2>2 DEF TypeOK, Apply, observers, exposed
<1>9. ASSUME NEW q \in Protocols, EchoMessage(q) PROVE TypeOK'
  <2>1. known' \in [Protocols -> [Params -> Values \cup {NoValue}]]
    BY <1>2, <1>3, <1>9 DEF TypeOK, EchoMessage, In, Threads
  <2> QED BY <1>1, <1>9, <2>1, NewCalls DEF TypeOK, EchoMessage, Threads, observers, exposed
<1>10. ASSUME NEW u \in Users, NEW p \in Params, RegAgain(u, p) \/ UnregOnce(u, p)
       PROVE  TypeOK'
  <2>1. count[u][p] + 1 \in Nat /\ (count[u][p] > 1 => count[u][p] - 1 \in Nat)
    BY DEF TypeOK
  <2>2. count' \in [Users -> [Params -> Nat]]
    <3>1. CASE RegAgain(u, p)
      BY <2>1, <3>1 DEF TypeOK, RegAgain
    <3>2. CASE UnregOnce(u, p)
      BY <2>1, <3>2 DEF TypeOK, UnregOnce
    <3> QED BY <1>10, <3>1, <3>2
  <2> QED BY <1>1, <1>10, <2>2, NewCalls DEF TypeOK, RegAgain, UnregOnce, Threads,
             device, exposed
<1>11. ASSUME NEW u \in Users, NEW p \in Params, Reg(u, p) PROVE TypeOK'
  <2>1. /\ count' \in [Users -> [Params -> Nat]]
        /\ callbacks' \in [Params -> SUBSET Users]
        /\ heard' \in [Users -> [Params -> Values \cup {NoValue}]]
    BY <1>11 DEF TypeOK, Reg
  <2> QED BY <1>1, <1>11, <2>1, NewCalls DEF TypeOK, Reg, Threads, device, exposed
<1>12. ASSUME NEW u \in Users, NEW p \in Params, Unreg(u, p) PROVE TypeOK'
  <2>1. count' \in [Users -> [Params -> Nat]]
    <3>1. count' = [count EXCEPT ![u][p] = 0]
      BY <1>12 DEF Unreg
    <3>2. count \in [Users -> [Params -> Nat]]
      BY DEF TypeOK
    <3> QED BY <3>1, <3>2
  <2>2. callbacks' \in [Params -> SUBSET Users]
    <3>1. callbacks' = callbacks \/ callbacks' = [callbacks EXCEPT ![p] = @ \ {u}]
      BY <1>12 DEF Unreg
    <3>2. callbacks \in [Params -> SUBSET Users]
      BY DEF TypeOK
    <3> QED BY <3>1, <3>2
  <2> QED BY <1>1, <1>12, <2>1, <2>2, NewCalls DEF TypeOK, Unreg, Threads, device, exposed
<1>13. ASSUME NEW u \in Users, Observe(u) \/ Unobserve(u) \/ EraseCallback(u) PROVE TypeOK'
  <2>1. call[u].param \in Params
    BY <1>13, CallTypes DEF TypeOK, Observe, Unobserve, EraseCallback, In, Threads
  <2>2. /\ listening' \in [Protocols -> SUBSET Params]
        /\ callbacks' \in [Params -> SUBSET Users]
    BY <1>13, <2>1 DEF TypeOK, Observe, Unobserve, EraseCallback, observers, exposed
  <2> QED BY <1>1, <1>13, <2>1, <2>2, NewCalls DEF TypeOK, Observe, Unobserve,
             EraseCallback, Threads, device, observers, exposed
<1>14. ASSUME NEW u \in Users, NEW q \in Protocols, ExposeTo(u, q) \/ StopExposeTo(u, q)
       PROVE  TypeOK'
  <2>1. OnProtocol("expose", q, Params) \in Call /\ OnProtocol("destroy", q, {}) \in Call
    BY NewCalls
  <2> QED BY <1>1, <1>14, <2>1 DEF TypeOK, ExposeTo, StopExposeTo, Threads,
             device, observers, exposed
<1>15. ASSUME NEW u \in Users, NEW p \in Params, ObserveRec(u, p) PROVE TypeOK'
  <2>1. /\ call[u].protocol \in Protocols
        /\ [call[u] EXCEPT !.todo = @ \ {p}] \in Call
    BY <1>15, CallTypes DEF TypeOK, ObserveRec, In, Threads
  <2>2. listening' \in [Protocols -> SUBSET Params]
    BY <1>15, <2>1 DEF TypeOK, ObserveRec
  <2> QED BY <1>1, <1>15, <2>1, <2>2 DEF TypeOK, ObserveRec, Threads, device, observers
<1>16. ASSUME NEW u \in Users, Exposed(u) \/ Destroyed(u) PROVE TypeOK'
  <2>1. call[u].protocol \in Protocols
    BY <1>16, CallTypes DEF TypeOK, Exposed, Destroyed, In, Threads
  <2>2. /\ protocols' \subseteq Protocols
        /\ listening' \in [Protocols -> SUBSET Params]
        /\ known' \in [Protocols -> [Params -> Values \cup {NoValue}]]
    <3>1. CASE Exposed(u)
      BY <2>1, <3>1 DEF TypeOK, Exposed, device, observers
    <3>2. CASE Destroyed(u)
      BY <2>1, <3>2 DEF TypeOK, Destroyed, observers
    <3> QED BY <1>16, <3>1, <3>2
  <2> QED BY <1>1, <1>16, <2>2, NewCalls DEF TypeOK, Exposed, Destroyed, Threads,
             device, observers
<1>17. CASE UNCHANGED vars
  BY <1>17 DEF TypeOK, vars, device, observers, exposed
<1> QED BY <1>4, <1>5, <1>6, <1>7, <1>8, <1>9, <1>10, <1>11, <1>12, <1>13, <1>14,
           <1>15, <1>16, <1>17 DEF Next, Request, Work

(* Every variable keeps its type.                                          *)
THEOREM TypeCorrect == Spec => []TypeOK
  BY InitTypes, StepTypes, PTL DEF Spec

-----------------------------------------------------------------------------
(* Who listens.  A protocol has been told of a parameter if it is exposed, *)
(* or if observe_rec has visited the parameter for it.                     *)
ToldOf(q, p) ==
    q \in protocols \/ \E u \in Users : Exposes(u, q) /\ p \notin call[u].todo

(* Only one callback is there while the observation is switched.           *)
SwitchAlone == \A u \in Users, p \in Params : Switches(u, p) => callbacks[p] = {u}

(* m_protocols_mutex; and a protocol being added or destroyed is not in    *)
(* m_protocols.                                                            *)
OneExposer ==
    \A u1, u2 \in Users :
        In(u1, {"expose", "destroy"}) /\ In(u2, {"expose", "destroy"}) => u1 = u2
Outside ==
    \A u \in Users, q \in Protocols : Exposes(u, q) \/ Destroys(u, q) => q \notin protocols

(* What was told is exact; a callback that is being erased was visited by  *)
(* nobody since the protocols stopped listening.                           *)
ToldExact ==
    \A q \in Protocols, p \in Params : ToldOf(q, p) =>
        /\ ~CallbacksLocked(p) => (p \in listening[q] <=> callbacks[p] # {})
        /\ \A u \in Users : In(u, {"erase"}) /\ call[u].param = p =>
              q \in protocols /\ p \notin listening[q]

(* A protocol object starts without listening.                             *)
UntoldEmpty ==
    \A q \in Protocols : q \notin protocols /\ (\A u \in Users : ~Destroys(u, q)) =>
        \A p \in Params : p \in listening[q] => ToldOf(q, p)

ListenInv == TypeOK /\ SwitchAlone /\ OneExposer /\ Outside /\ ToldExact /\ UntoldEmpty

LockOps == {"observe", "unobserve", "erase", "expose", "destroy"}

(* The calls that carry values leave the observation alone.                *)
LEMMA ListenFrame ==
    ASSUME ListenInv, TypeOK', UNCHANGED <<callbacks, protocols, listening>>,
           \A u \in Users : \/ call'[u] = call[u]
                            \/ call[u].op \notin LockOps /\ call'[u].op \notin LockOps
    PROVE  ListenInv'
<1>1. \A u \in Users, p \in Params : Switches(u, p)' <=> Switches(u, p)
  BY DEF Switches, In, LockOps
<1>2. \A u \in Users, q \in Protocols :
         /\ Exposes(u, q)' <=> Exposes(u, q)
         /\ Destroys(u, q)' <=> Destroys(u, q)
         /\ Exposes(u, q) => call'[u].todo = call[u].todo
  BY DEF Exposes, Destroys, In, LockOps
<1>3. \A u \in Users :
         /\ In(u, {"expose", "destroy"})' <=> In(u, {"expose", "destroy"})
         /\ In(u, {"erase"})' <=> In(u, {"erase"})
         /\ In(u, {"erase"}) => call'[u].param = call[u].param
  BY DEF In, LockOps
<1>4. SwitchAlone' /\ OneExposer' /\ Outside'
  BY <1>1, <1>2, <1>3 DEF ListenInv, SwitchAlone, OneExposer, Outside
<1>5. \A q \in Protocols, p \in Params : ToldOf(q, p)' <=> ToldOf(q, p)
  BY <1>2 DEF ToldOf
<1>6. \A p \in Params : CallbacksLocked(p)' <=> CallbacksLocked(p)
  BY <1>1 DEF CallbacksLocked
<1>7. ToldExact'
  BY <1>3, <1>5, <1>6 DEF ListenInv, ToldExact
<1>8. UntoldEmpty'
  BY <1>2, <1>5 DEF ListenInv, UntoldEmpty
<1> QED BY <1>4, <1>7, <1>8 DEF ListenInv

LEMMA InitListen == Init => ListenInv
  BY InitTypes, LocalDeviceAssumption DEF Init, ListenInv, SwitchAlone, OneExposer, Outside,
     ToldExact, UntoldEmpty, ToldOf, Switches, Exposes, Destroys, In, NoCall, Threads,
     CallbacksLocked

(* The call of one thread changes at a time.                               *)
LEMMA OneCall ==
    ASSUME TypeOK, NEW t \in Threads, NEW c, Begin(t, c) \/ Continue(t, c)
    PROVE  call'[t] = c /\ \A x \in Threads : x # t => call'[x] = call[x]
  BY DEF TypeOK, Begin, Continue, Enter

LEMMA Entered ==
    ASSUME TypeOK, NEW t \in Threads, NEW c, Begin(t, c)
    PROVE  /\ call[t].op = "idle" /\ call'[t] = c
           /\ \A x \in Threads : x # t => call'[x] = call[x]
  BY OneCall DEF Begin, Idle

(* What the operation of a user says of the locks it holds, before a step  *)
(* and after it.                                                           *)
LEMMA Roles ==
    ASSUME NEW u \in Users
    PROVE  /\ call[u].op \notin {"observe", "unobserve", "erase"} => \A p : ~Switches(u, p)
           /\ call[u].op \in {"observe", "unobserve", "erase"} =>
                \A p : Switches(u, p) <=> p = call[u].param
           /\ call[u].op # "expose" => \A q : ~Exposes(u, q)
           /\ call[u].op = "expose" => \A q : Exposes(u, q) <=> q = call[u].protocol
           /\ call[u].op # "destroy" => \A q : ~Destroys(u, q)
           /\ call[u].op = "destroy" => \A q : Destroys(u, q) <=> q = call[u].protocol
           /\ In(u, {"expose", "destroy"}) <=> call[u].op \in {"expose", "destroy"}
           /\ In(u, {"erase"}) <=> call[u].op = "erase"
  BY DEF Switches, Exposes, Destroys, In

LEMMA RolesAfter ==
    ASSUME NEW u \in Users, \A x \in Users : x # u => call'[x] = call[x]
    PROVE  /\ call'[u].op \notin {"observe", "unobserve", "erase"} => \A p : ~Switches(u, p)'
           /\ call'[u].op \in {"observe", "unobserve", "erase"} =>
                \A p : Switches(u, p)' <=> p = call'[u].param
           /\ call'[u].op # "expose" => \A q : ~Exposes(u, q)'
           /\ call'[u].op = "expose" => \A q : Exposes(u, q)' <=> q = call'[u].protocol
           /\ call'[u].op # "destroy" => \A q : ~Destroys(u, q)'
           /\ call'[u].op = "destroy" => \A q : Destroys(u, q)' <=> q = call'[u].protocol
           /\ In(u, {"expose", "destroy"})' <=> call'[u].op \in {"expose", "destroy"}
           /\ In(u, {"erase"})' <=> call'[u].op = "erase"
           /\ \A x \in Users : x # u =>
                /\ \A p : Switches(x, p)' <=> Switches(x, p)
                /\ \A q : Exposes(x, q)' <=> Exposes(x, q)
                /\ \A q : Destroys(x, q)' <=> Destroys(x, q)
                /\ In(x, {"expose", "destroy"})' <=> In(x, {"expose", "destroy"})
                /\ In(x, {"erase"})' <=> In(x, {"erase"})
  BY DEF Switches, Exposes, Destroys, In

LEMMA StepListen == ListenInv /\ [Next]_vars => ListenInv'
<1> SUFFICES ASSUME ListenInv, [Next]_vars PROVE ListenInv'
  OBVIOUS
<1> USE LocalDeviceAssumption
<1>0. TypeOK /\ TypeOK'
  BY StepTypes DEF ListenInv
<1>1. ASSUME NEW u \in Users, NEW p \in Params,
             \/ \E v \in Values : PushValue(u, p, v)
             \/ RegAgain(u, p) \/ UnregOnce(u, p)
      PROVE  ListenInv'
  <2>1. PICK c \in {NoCall} \cup {WithValue("notify", p, v) : v \in Values} : Begin(u, c)
    BY <1>1 DEF PushValue, RegAgain, UnregOnce
  <2>3. /\ call[u].op = "idle" /\ call'[u].op \in {"idle", "notify"}
        /\ \A x \in Users : x # u => call'[x] = call[x]
    <3>1. c.op \in {"idle", "notify"}
      BY <2>1 DEF WithValue, NoCall
    <3> QED BY <1>0, <2>1, <3>1, Entered DEF Threads
  <2>2. UNCHANGED <<callbacks, protocols, listening>>
    BY <1>1 DEF PushValue, RegAgain, UnregOnce, observers, exposed
  <2> QED BY <1>0, <2>2, <2>3, ListenFrame DEF LockOps
<1>2. ASSUME NEW u \in Users, Notify(u) \/ Push(u) PROVE ListenInv'
  <2>1. call[u].op \in {"notify", "push"} /\ call'[u].op \in {"idle", "push"}
        /\ \A x \in Users : x # u => call'[x] = call[x]
    <3>1. CASE Notify(u)
      <4>1. call[u] \in [op : {"notify", "push", "set", "quiet", "echo"},
                          param : Params, value : Values]
        <5>1. call[u] \in Call /\ call[u].op = "notify"
          BY <1>0, <3>1 DEF Notify, In, TypeOK, Threads
        <5> QED BY <5>1 DEF Call, NoCall
      <4> QED BY <1>0, <3>1, <4>1, OneCall DEF Notify, AfterNotify, In, Threads
    <3>2. CASE Push(u)
      BY <1>0, <3>2, OneCall DEF Push, In, NoCall, Threads
    <3> QED BY <1>2, <3>1, <3>2
  <2>2. UNCHANGED <<callbacks, protocols, listening>>
    BY <1>2 DEF Notify, Push, observers, exposed
  <2> QED BY <1>0, <2>1, <2>2, ListenFrame DEF LockOps
<1>3. ASSUME NEW q \in Protocols,
             \/ \E p \in Params, v \in Values : Receive(q, p, v)
             \/ Notify(q) \/ Apply(q) \/ EchoMessage(q)
      PROVE  ListenInv'
  <2>1. \A x \in Users : call'[x] = call[x]
    BY <1>0, <1>3, OneCall DEF Receive, Notify, Apply, EchoMessage, Threads
  <2>2. UNCHANGED <<callbacks, protocols, listening>>
    BY <1>3 DEF Receive, Notify, Apply, EchoMessage, observers, exposed
  <2> QED BY <1>0, <2>1, <2>2, ListenFrame
<1> USE DEF Idle, Threads, NoCall, OnParam, OnProtocol, device, observers, exposed
<1>4. ASSUME NEW u \in Users, NEW p \in Params, Reg(u, p) PROVE ListenInv'
  <2>1. /\ call[u].op = "idle"
        /\ callbacks[p] = {} => call'[u].op = "observe" /\ call'[u].param = p
        /\ callbacks[p] # {} => call'[u].op = "idle"
        /\ \A x \in Users : x # u => call'[x] = call[x]
    BY <1>0, <1>4, Entered DEF Reg
  <2>2. /\ callbacks'[p] = callbacks[p] \cup {u} /\ ~CallbacksLocked(p)
        /\ \A x \in Params : x # p => callbacks'[x] = callbacks[x]
        /\ UNCHANGED <<protocols, listening>>
    BY <1>0, <1>4 DEF TypeOK, Reg
  <2>7. SwitchAlone' /\ OneExposer' /\ Outside'
    BY <2>1, <2>2, Roles, RolesAfter DEF ListenInv, SwitchAlone, OneExposer, Outside,
       CallbacksLocked, ProtocolsLocked
  <2>8. ToldExact'
    BY <2>1, <2>2, Roles, RolesAfter DEF ListenInv, ToldExact, ToldOf, CallbacksLocked,
       ProtocolsLocked, SwitchAlone, OneExposer, Outside
  <2>9. UntoldEmpty'
    BY <2>1, <2>2, Roles, RolesAfter DEF ListenInv, UntoldEmpty, ToldOf,
       ProtocolsLocked, OneExposer, Outside
  <2> QED BY <1>0, <2>7, <2>8, <2>9 DEF ListenInv
<1>5. ASSUME NEW u \in Users, NEW p \in Params, Unreg(u, p) PROVE ListenInv'
  <2>1. /\ call[u].op = "idle"
        /\ callbacks[p] = {u} => call'[u].op = "unobserve" /\ call'[u].param = p
        /\ callbacks[p] # {u} => call'[u].op = "idle"
        /\ \A x \in Users : x # u => call'[x] = call[x]
    BY <1>0, <1>5, Entered DEF Unreg
  <2>2. /\ callbacks[p] = {u} => callbacks' = callbacks
        /\ callbacks[p] # {u} => callbacks'[p] = callbacks[p] \ {u}
        /\ \A x \in Params : x # p => callbacks'[x] = callbacks[x]
        /\ ~CallbacksLocked(p)
        /\ UNCHANGED <<protocols, listening>>
    BY <1>0, <1>5 DEF TypeOK, Unreg
  <2>7. SwitchAlone' /\ OneExposer' /\ Outside'
    BY <2>1, <2>2, Roles, RolesAfter DEF ListenInv, SwitchAlone, OneExposer, Outside,
       CallbacksLocked, ProtocolsLocked
  <2>8. ToldExact'
    BY <2>1, <2>2, Roles, RolesAfter DEF ListenInv, ToldExact, ToldOf, CallbacksLocked,
       ProtocolsLocked, SwitchAlone, OneExposer, Outside
  <2>9. UntoldEmpty'
    BY <2>1, <2>2, Roles, RolesAfter DEF ListenInv, UntoldEmpty, ToldOf,
       ProtocolsLocked, OneExposer, Outside
  <2> QED BY <1>0, <2>7, <2>8, <2>9 DEF ListenInv
<1>6. ASSUME NEW u \in Users, Observe(u) PROVE ListenInv'
  <2>0. PICK p \in Params : call[u].op = "observe" /\ call[u].param = p
    BY <1>0, <1>6, CallTypes DEF Observe, In, TypeOK
  <2>1. /\ call[u].op = "observe" /\ call[u].param = p /\ call'[u].op = "idle"
        /\ \A x \in Users : x # u => call'[x] = call[x]
    BY <1>0, <1>6, <2>0, OneCall DEF Observe
  <2>2. /\ \A q \in Protocols :
              /\ q \in protocols => listening'[q] = listening[q] \cup {p}
              /\ q \notin protocols => listening'[q] = listening[q]
        /\ ~ProtocolsLocked
        /\ UNCHANGED <<callbacks, protocols>>
    BY <1>0, <1>6, <2>0 DEF TypeOK, Observe
  <2>3. callbacks[p] = {u}
    BY <2>1, Roles DEF ListenInv, SwitchAlone
  <2>7. SwitchAlone' /\ OneExposer' /\ Outside'
    BY <2>1, <2>2, <2>3, Roles, RolesAfter DEF ListenInv, SwitchAlone, OneExposer, Outside,
       CallbacksLocked, ProtocolsLocked
  <2>8. ToldExact'
    BY <2>1, <2>2, <2>3, Roles, RolesAfter DEF ListenInv, ToldExact, ToldOf, CallbacksLocked,
       ProtocolsLocked, SwitchAlone, OneExposer, Outside
  <2>9. UntoldEmpty'
    BY <2>1, <2>2, <2>3, Roles, RolesAfter DEF ListenInv, UntoldEmpty, ToldOf,
       ProtocolsLocked, OneExposer, Outside
  <2> QED BY <1>0, <2>7, <2>8, <2>9 DEF ListenInv
<1>7. ASSUME NEW u \in Users, Unobserve(u) PROVE ListenInv'
  <2>0. PICK p \in Params : call[u].op = "unobserve" /\ call[u].param = p
    BY <1>0, <1>7, CallTypes DEF Unobserve, In, TypeOK
  <2>1. /\ call[u].op = "unobserve" /\ call[u].param = p
        /\ call'[u].op = "erase" /\ call'[u].param = p
        /\ \A x \in Users : x # u => call'[x] = call[x]
    BY <1>0, <1>7, <2>0, OneCall DEF Unobserve
  <2>2. /\ \A q \in Protocols :
              /\ q \in protocols => listening'[q] = listening[q] \ {p}
              /\ q \notin protocols => listening'[q] = listening[q]
        /\ ~ProtocolsLocked
        /\ UNCHANGED <<callbacks, protocols>>
    BY <1>0, <1>7, <2>0 DEF TypeOK, Unobserve
  <2>7. SwitchAlone' /\ OneExposer' /\ Outside'
    BY <2>1, <2>2, Roles, RolesAfter DEF ListenInv, SwitchAlone, OneExposer, Outside,
       CallbacksLocked, ProtocolsLocked
  <2>8. ToldExact'
    BY <2>1, <2>2, Roles, RolesAfter DEF ListenInv, ToldExact, ToldOf, CallbacksLocked,
       ProtocolsLocked, SwitchAlone, OneExposer, Outside
  <2>9. UntoldEmpty'
    BY <2>1, <2>2, Roles, RolesAfter DEF ListenInv, UntoldEmpty, ToldOf,
       ProtocolsLocked, OneExposer, Outside
  <2> QED BY <1>0, <2>7, <2>8, <2>9 DEF ListenInv
<1>8. ASSUME NEW u \in Users, EraseCallback(u) PROVE ListenInv'
  <2>0. PICK p \in Params : call[u].op = "erase" /\ call[u].param = p
    BY <1>0, <1>8, CallTypes DEF EraseCallback, In, TypeOK
  <2>1. /\ call[u].op = "erase" /\ call[u].param = p /\ call'[u].op = "idle"
        /\ \A x \in Users : x # u => call'[x] = call[x]
    BY <1>0, <1>8, <2>0, OneCall DEF EraseCallback
  <2>3. callbacks[p] = {u} /\ \A x \in Users : x # u => ~Switches(x, p)
    BY <2>1, Roles DEF ListenInv, SwitchAlone
  <2>2. /\ callbacks'[p] = {}
        /\ \A x \in Params : x # p => callbacks'[x] = callbacks[x]
        /\ UNCHANGED <<protocols, listening>>
    BY <1>0, <1>8, <2>0, <2>3 DEF TypeOK, EraseCallback
  <2>7. SwitchAlone' /\ OneExposer' /\ Outside'
    BY <2>1, <2>2, <2>3, Roles, RolesAfter DEF ListenInv, SwitchAlone, OneExposer, Outside,
       CallbacksLocked, ProtocolsLocked
  <2>8. ToldExact'
    BY <2>1, <2>2, <2>3, Roles, RolesAfter DEF ListenInv, ToldExact, ToldOf, CallbacksLocked,
       ProtocolsLocked, SwitchAlone, OneExposer, Outside
  <2>9. UntoldEmpty'
    BY <2>1, <2>2, <2>3, Roles, RolesAfter DEF ListenInv, UntoldEmpty, ToldOf,
       ProtocolsLocked, OneExposer, Outside
  <2> QED BY <1>0, <2>7, <2>8, <2>9 DEF ListenInv
<1>9. ASSUME NEW u \in Users, NEW q \in Protocols, ExposeTo(u, q) PROVE ListenInv'
  <2>1. /\ call[u].op = "idle"
        /\ call'[u].op = "expose" /\ call'[u].protocol = q /\ call'[u].todo = Params
        /\ \A x \in Users : x # u => call'[x] = call[x]
    BY <1>0, <1>9, Entered DEF ExposeTo
  <2>2. /\ q \notin protocols /\ ~ProtocolsLocked
        /\ UNCHANGED <<callbacks, protocols, listening>>
    BY <1>9 DEF ExposeTo
  <2>7. SwitchAlone' /\ OneExposer' /\ Outside'
    BY <2>1, <2>2, Roles, RolesAfter DEF ListenInv, SwitchAlone, OneExposer, Outside,
       CallbacksLocked, ProtocolsLocked
  <2>8. ToldExact'
    BY <2>1, <2>2, Roles, RolesAfter DEF ListenInv, ToldExact, ToldOf, CallbacksLocked,
       ProtocolsLocked, SwitchAlone, OneExposer, Outside
  <2>9. UntoldEmpty'
    BY <2>1, <2>2, Roles, RolesAfter DEF ListenInv, UntoldEmpty, ToldOf,
       ProtocolsLocked, OneExposer, Outside
  <2> QED BY <1>0, <2>7, <2>8, <2>9 DEF ListenInv
<1>10. ASSUME NEW u \in Users, NEW p \in Params, ObserveRec(u, p) PROVE ListenInv'
  <2>0. call[u] \in [op : {"expose", "destroy"}, protocol : Protocols, todo : SUBSET Params]
    <3>1. call[u] \in Call /\ call[u].op = "expose"
      BY <1>0, <1>10 DEF ObserveRec, In, TypeOK
    <3> QED BY <3>1 DEF Call
  <2>10. PICK q \in Protocols : call[u].protocol = q
    BY <2>0
  <2>1. /\ call[u].op = "expose" /\ call[u].protocol = q /\ p \in call[u].todo
        /\ call'[u].op = "expose" /\ call'[u].protocol = q
        /\ call'[u].todo = call[u].todo \ {p}
        /\ \A x \in Users : x # u => call'[x] = call[x]
    BY <1>0, <1>10, <2>0, <2>10, OneCall DEF ObserveRec, In
  <2>2. /\ callbacks[p] # {} => listening'[q] = listening[q] \cup {p}
        /\ callbacks[p] = {} => listening'[q] = listening[q]
        /\ \A x \in Protocols : x # q => listening'[x] = listening[x]
        /\ ~CallbacksLocked(p)
        /\ UNCHANGED <<callbacks, protocols>>
    BY <1>0, <1>10, <2>1 DEF TypeOK, ObserveRec
  <2>4. /\ q \notin protocols /\ \A x \in Users : x # u => ~Exposes(x, q)
        /\ \A x \in Users : ~Destroys(x, q)
    BY <2>1, Roles DEF ListenInv, OneExposer, Outside
  <2>3. q \notin protocols /\ p \notin listening[q] /\ ~ToldOf(q, p)
    BY <2>1, <2>4 DEF ListenInv, UntoldEmpty, ToldOf
  <2>7. SwitchAlone' /\ OneExposer' /\ Outside'
    BY <2>1, <2>2, <2>3, <2>4, Roles, RolesAfter DEF ListenInv, SwitchAlone, OneExposer, Outside,
       CallbacksLocked, ProtocolsLocked
  <2>8. ToldExact'
    BY <2>1, <2>2, <2>3, <2>4, Roles, RolesAfter DEF ListenInv, ToldExact, ToldOf, CallbacksLocked,
       ProtocolsLocked, SwitchAlone, OneExposer, Outside
  <2>9. UntoldEmpty'
    BY <2>1, <2>2, <2>3, <2>4, Roles, RolesAfter DEF ListenInv, UntoldEmpty, ToldOf,
       ProtocolsLocked, OneExposer, Outside
  <2> QED BY <1>0, <2>7, <2>8, <2>9 DEF ListenInv
<1>11. ASSUME NEW u \in Users, Exposed(u) PROVE ListenInv'
  <2>0. PICK q \in Protocols : call[u].op = "expose" /\ call[u].protocol = q
    BY <1>0, <1>11, CallTypes DEF Exposed, In, TypeOK
  <2>1. /\ call[u].op = "expose" /\ call[u].protocol = q /\ call[u].todo = {}
        /\ call'[u].op = "idle"
        /\ \A x \in Users : x # u => call'[x] = call[x]
    BY <1>0, <1>11, <2>0, OneCall DEF Exposed
  <2>2. protocols' = protocols \cup {q} /\ UNCHANGED <<callbacks, listening>>
    BY <1>11, <2>0 DEF Exposed
  <2>3. \A p \in Params : ToldOf(q, p)
    BY <2>1, Roles DEF ToldOf
  <2>7. SwitchAlone' /\ OneExposer' /\ Outside'
    BY <2>1, <2>2, <2>3, Roles, RolesAfter DEF ListenInv, SwitchAlone, OneExposer, Outside,
       CallbacksLocked, ProtocolsLocked
  <2>8. ToldExact'
    BY <2>1, <2>2, <2>3, Roles, RolesAfter DEF ListenInv, ToldExact, ToldOf, CallbacksLocked,
       ProtocolsLocked, SwitchAlone, OneExposer, Outside
  <2>9. UntoldEmpty'
    BY <2>1, <2>2, <2>3, Roles, RolesAfter DEF ListenInv, UntoldEmpty, ToldOf,
       ProtocolsLocked, OneExposer, Outside
  <2> QED BY <1>0, <2>7, <2>8, <2>9 DEF ListenInv
<1>12. ASSUME NEW u \in Users, NEW q \in Protocols, StopExposeTo(u, q) PROVE ListenInv'
  <2>1. /\ call[u].op = "idle" /\ call'[u].op = "destroy" /\ call'[u].protocol = q
        /\ \A x \in Users : x # u => call'[x] = call[x]
    BY <1>0, <1>12, Entered DEF StopExposeTo
  <2>2. /\ q \in protocols /\ ~ProtocolsLocked
        /\ protocols' = protocols \ {q}
        /\ UNCHANGED <<callbacks, listening>>
    BY <1>12 DEF StopExposeTo
  <2>7. SwitchAlone' /\ OneExposer' /\ Outside'
    BY <2>1, <2>2, Roles, RolesAfter DEF ListenInv, SwitchAlone, OneExposer, Outside,
       CallbacksLocked, ProtocolsLocked
  <2>8. ToldExact'
    BY <2>1, <2>2, Roles, RolesAfter DEF ListenInv, ToldExact, ToldOf, CallbacksLocked,
       ProtocolsLocked, SwitchAlone, OneExposer, Outside
  <2>9. UntoldEmpty'
    BY <2>1, <2>2, Roles, RolesAfter DEF ListenInv, UntoldEmpty, ToldOf,
       ProtocolsLocked, OneExposer, Outside
  <2> QED BY <1>0, <2>7, <2>8, <2>9 DEF ListenInv
<1>13. ASSUME NEW u \in Users, Destroyed(u) PROVE ListenInv'
  <2>0. PICK q \in Protocols : call[u].op = "destroy" /\ call[u].protocol = q
    BY <1>0, <1>13, CallTypes DEF Destroyed, In, TypeOK
  <2>1. /\ call[u].op = "destroy" /\ call[u].protocol = q /\ call'[u].op = "idle"
        /\ \A x \in Users : x # u => call'[x] = call[x]
    BY <1>0, <1>13, <2>0, OneCall DEF Destroyed
  <2>2. /\ listening'[q] = {} /\ \A x \in Protocols : x # q => listening'[x] = listening[x]
        /\ UNCHANGED <<callbacks, protocols>>
    BY <1>0, <1>13, <2>0 DEF TypeOK, Destroyed
  <2>3. q \notin protocols /\ \A x \in Users : ~Exposes(x, q)
    BY <2>1, Roles DEF ListenInv, OneExposer, Outside
  <2>7. SwitchAlone' /\ OneExposer' /\ Outside'
    BY <2>1, <2>2, <2>3, Roles, RolesAfter DEF ListenInv, SwitchAlone, OneExposer, Outside,
       CallbacksLocked, ProtocolsLocked
  <2>8. ToldExact'
    BY <2>1, <2>2, <2>3, Roles, RolesAfter DEF ListenInv, ToldExact, ToldOf, CallbacksLocked,
       ProtocolsLocked, SwitchAlone, OneExposer, Outside
  <2>9. UntoldEmpty'
    BY <2>1, <2>2, <2>3, Roles, RolesAfter DEF ListenInv, UntoldEmpty, ToldOf,
       ProtocolsLocked, OneExposer, Outside
  <2> QED BY <1>0, <2>7, <2>8, <2>9 DEF ListenInv
<1>14. CASE UNCHANGED vars
  BY <1>0, <1>14, ListenFrame DEF vars
<1> QED
  <2>1. CASE Request
    BY <2>1, <1>1, <1>3, <1>4, <1>5, <1>9, <1>12 DEF Request
  <2>2. CASE \E t \in Threads : Work(t)
    BY <2>2, <1>2, <1>3, <1>6, <1>7, <1>8, <1>10, <1>11, <1>13 DEF Work
  <2> QED BY <1>14, <2>1, <2>2 DEF Next

(* Protocols listen to the parameters that have callbacks.                 *)
THEOREM ListeningExactHolds == Spec => []ListeningExact
<1>1. ListenInv => ListeningExact
  BY DEF ListenInv, TypeOK, ToldExact, ToldOf, ListeningExact
<1> QED BY InitListen, StepListen, <1>1, PTL DEF Spec

-----------------------------------------------------------------------------
(* What arrives.  ValueOps are the operations of the calls of Carries.     *)
ValueOps == {"notify", "push", "set", "quiet", "echo"}
Notifies(t, p) == In(t, {"notify"}) /\ call[t].param = p

(* A value on its way comes from a writer; it has been set if it is past   *)
(* that, and the network that a message came from has it.                  *)
CarriedValue ==
    \A t \in Threads, p \in Params : Carries(t, p) =>
        /\ t \in Writers[p]
        /\ t \in Users => call[t].op \in {"notify", "push"}
        /\ call[t].op = "echo" => Echo
        /\ HasSoleWriter(p) =>
             /\ call[t].op \in {"notify", "push", "echo"} => value[p] = call[t].value
             /\ t \in Protocols => known[t][p] = call[t].value

KnownLast ==
    \A p \in Params : HasSoleWriter(p) /\ Settled(p) =>
        \A q \in Protocols : q \in protocols \cup Writers[p] =>
            known[q][p] \in {NoValue, value[p]}

HeardLast ==
    \A p \in Params :
        HasSoleWriter(p) /\ Writers[p] \subseteq Users /\ (\A t \in Threads : ~Notifies(t, p)) =>
            \A u \in callbacks[p] : heard[u][p] \in {NoValue, value[p]}

(* Without an echo, no other network hears of a message.                   *)
NotEchoed ==
    ~Echo => \A p \in Params, w, q \in Protocols :
        HasSoleWriter(p) /\ w \in Writers[p] /\ q # w => known[q][p] = NoValue

(* A protocol object starts with a network that knows nothing.             *)
StartsUnknown ==
    \A q \in Protocols : q \notin protocols /\ (\A u \in Users : ~Destroys(u, q)) =>
        \A p \in Params : q \notin Writers[p] => known[q][p] = NoValue

ConvergedInv ==
    ListenInv /\ CarriedValue /\ KnownLast /\ HeardLast /\ NotEchoed /\ StartsUnknown

LEMMA InitConverged == Init => ConvergedInv
  BY InitListen, LocalDeviceAssumption DEF Init, ConvergedInv, CarriedValue, KnownLast,
     HeardLast, NotEchoed, StartsUnknown, Carries, In, NoCall, Threads

(* What the operation of a thread says of the value it carries.            *)
LEMMA Carrying ==
    ASSUME NEW t \in Threads
    PROVE  /\ call[t].op \notin ValueOps => \A p : ~Carries(t, p)
           /\ call[t].op \in ValueOps => \A p : Carries(t, p) <=> p = call[t].param
           /\ call[t].op # "notify" => \A p : ~Notifies(t, p)
           /\ call[t].op = "notify" => \A p : Notifies(t, p) <=> p = call[t].param
  BY DEF Carries, Notifies, In, ValueOps

LEMMA CarryingAfter ==
    ASSUME NEW t \in Threads, \A x \in Threads : x # t => call'[x] = call[x]
    PROVE  /\ call'[t].op \notin ValueOps => \A p : ~Carries(t, p)'
           /\ call'[t].op \in ValueOps => \A p : Carries(t, p)' <=> p = call'[t].param
           /\ call'[t].op # "notify" => \A p : ~Notifies(t, p)'
           /\ call'[t].op = "notify" => \A p : Notifies(t, p)' <=> p = call'[t].param
           /\ \A x \in Threads : x # t => \A p :
                (Carries(x, p)' <=> Carries(x, p)) /\ (Notifies(x, p)' <=> Notifies(x, p))
  BY DEF Carries, Notifies, In, ValueOps

(* The calls that carry no value leave all the values where they are, or   *)
(* make a network or a queue forget its own.                               *)
LEMMA ConvergedFrame ==
    ASSUME ConvergedInv, ListenInv', UNCHANGED value,
           \A t \in Threads, p \in Params :
               /\ Carries(t, p)' <=> Carries(t, p)
               /\ Notifies(t, p)' <=> Notifies(t, p)
               /\ Carries(t, p) => call'[t] = call[t],
           \A q \in Protocols, p \in Params :
               \/ known'[q][p] = known[q][p]
               \/ known'[q][p] = NoValue /\ \A x \in Params : ~Carries(q, x),
           \A u \in Users, p \in Params : u \in callbacks'[p] =>
               \/ heard'[u][p] = NoValue
               \/ u \in callbacks[p] /\ heard'[u][p] = heard[u][p],
           \A q \in Protocols : q \in protocols' => q \in protocols \/ \A u \in Users : ~Destroys(u, q),
           \A q \in Protocols :
               q \notin protocols' /\ (\A u \in Users : ~Destroys(u, q)') =>
                   \/ q \notin protocols /\ (\A u \in Users : ~Destroys(u, q))
                   \/ \A p \in Params : known'[q][p] = NoValue
    PROVE  ConvergedInv'
<1> USE LocalDeviceAssumption DEF Threads
<1>1. CarriedValue'
  BY DEF ConvergedInv, CarriedValue, HasSoleWriter
<1>2. KnownLast'
  BY DEF ConvergedInv, KnownLast, StartsUnknown, Settled, HasSoleWriter
<1>3. HeardLast'
  <2>1. callbacks' \in [Params -> SUBSET Users]
    BY DEF ListenInv, TypeOK
  <2> QED BY <2>1 DEF ConvergedInv, HeardLast, HasSoleWriter
<1>4. NotEchoed'
  BY DEF ConvergedInv, NotEchoed, HasSoleWriter
<1>5. StartsUnknown'
  BY DEF ConvergedInv, StartsUnknown
<1> QED BY <1>1, <1>2, <1>3, <1>4, <1>5 DEF ConvergedInv

LEMMA StepConverged == ConvergedInv /\ [Next]_vars => ConvergedInv'
<1> SUFFICES ASSUME ConvergedInv, [Next]_vars PROVE ConvergedInv'
  OBVIOUS
<1>0. ListenInv /\ ListenInv' /\ TypeOK /\ TypeOK'
  BY StepListen DEF ConvergedInv, ListenInv
<1>a. ASSUME NEW t \in Threads, call'[t] = call[t] \/ t \notin Users,
             \A x \in Threads : x # t => call'[x] = call[x]
      PROVE  \A u \in Users, q \in Protocols : Destroys(u, q)' <=> Destroys(u, q)
  BY <1>a DEF Destroys, In, Threads
<1> USE LocalDeviceAssumption DEF ValueOps, Threads, observers, exposed, device
<1>1. ASSUME NEW u \in Users, NEW p \in Params, NEW v \in Values, PushValue(u, p, v)
      PROVE  ConvergedInv'
  <2>1. /\ call[u].op = "idle" /\ u \in Writers[p]
        /\ call'[u].op = "notify" /\ call'[u].param = p /\ call'[u].value = v
        /\ \A x \in Threads : x # u => call'[x] = call[x]
    BY <1>0, <1>1, Entered DEF PushValue, WithValue
  <2>2. /\ value'[p] = v /\ \A x \in Params : x # p => value'[x] = value[x]
        /\ UNCHANGED <<known, callbacks, heard, protocols>>
    BY <1>0, <1>1 DEF PushValue, TypeOK
  <2>3. \A x \in Users, q \in Protocols : Destroys(x, q)' <=> Destroys(x, q)
    BY <1>0, <2>1, Roles, RolesAfter
  <2>5. CarriedValue'
    BY <2>1, <2>2, <2>3, Carrying, CarryingAfter DEF ConvergedInv, CarriedValue, HasSoleWriter
  <2>6. KnownLast'
    BY <2>1, <2>2, <2>3, Carrying, CarryingAfter DEF ConvergedInv, CarriedValue, KnownLast,
       NotEchoed, Settled, HasSoleWriter
  <2>7. HeardLast'
    BY <2>1, <2>2, <2>3, Carrying, CarryingAfter DEF ConvergedInv, CarriedValue, HeardLast,
       HasSoleWriter
  <2>8. NotEchoed'
    BY <2>1, <2>2, <2>3, Carrying DEF ConvergedInv, CarriedValue, NotEchoed, HasSoleWriter
  <2>9. StartsUnknown'
    BY <2>1, <2>2, <2>3, Carrying DEF ConvergedInv, CarriedValue, StartsUnknown
  <2> QED BY <1>0, <2>5, <2>6, <2>7, <2>8, <2>9 DEF ConvergedInv
<1>2. ASSUME NEW t \in Threads, Notify(t) PROVE ConvergedInv'
  <2>0. PICK p \in Params, v \in Values :
          call[t].op = "notify" /\ call[t].param = p /\ call[t].value = v
    BY <1>0, <1>2, CallTypes DEF Notify, In, TypeOK
  <2>10. call[t] \in [op : ValueOps, param : Params, value : Values]
    <3>1. call[t] \in Call
      BY <1>0 DEF TypeOK
    <3> QED BY <2>0, <3>1 DEF Call, NoCall
  <2>1. /\ call[t].op = "notify" /\ call[t].param = p /\ call[t].value = v
        /\ t \in Users => call'[t].op = "push" /\ call'[t].param = p /\ call'[t].value = v
        /\ t \notin Users => IF Echo
              THEN call'[t].op = "echo" /\ call'[t].param = p /\ call'[t].value = v
              ELSE call'[t].op = "idle"
        /\ \A x \in Threads : x # t => call'[x] = call[x]
    BY <1>0, <1>2, <2>0, <2>10, OneCall DEF Notify, AfterNotify, NoCall
  <2>2. /\ \A u \in callbacks[p] : heard'[u][p] = v
        /\ \A u \in Users, x \in Params : x # p => heard'[u][x] = heard[u][x]
        /\ callbacks \in [Params -> SUBSET Users]
        /\ UNCHANGED <<value, known, callbacks, protocols>>
    BY <1>0, <1>2, <2>0 DEF Notify, TypeOK
  <2>3. \A x \in Users, q \in Protocols : Destroys(x, q)' <=> Destroys(x, q)
    <3>1. CASE t \in Users
      BY <1>0, <2>1, <3>1, Roles, RolesAfter
    <3>2. CASE t \notin Users
      BY <2>1, <3>2, <1>a
    <3> QED BY <3>1, <3>2
  <2>5. CarriedValue'
    BY <2>1, <2>2, <2>3, Carrying, CarryingAfter DEF ConvergedInv, CarriedValue, HasSoleWriter
  <2>6. KnownLast'
    BY <2>1, <2>2, <2>3, Carrying, CarryingAfter DEF ConvergedInv, CarriedValue, KnownLast,
       NotEchoed, Settled, HasSoleWriter
  <2>7. HeardLast'
    BY <2>1, <2>2, <2>3, Carrying, CarryingAfter DEF ConvergedInv, CarriedValue, HeardLast,
       HasSoleWriter
  <2>8. NotEchoed'
    BY <2>1, <2>2, <2>3, Carrying DEF ConvergedInv, CarriedValue, NotEchoed, HasSoleWriter
  <2>9. StartsUnknown'
    BY <2>1, <2>2, <2>3, Carrying DEF ConvergedInv, CarriedValue, StartsUnknown
  <2> QED BY <1>0, <2>5, <2>6, <2>7, <2>8, <2>9 DEF ConvergedInv
<1>3. ASSUME NEW u \in Users, Push(u) PROVE ConvergedInv'
  <2>0. PICK p \in Params, v \in Values :
          call[u].op = "push" /\ call[u].param = p /\ call[u].value = v
    BY <1>0, <1>3, CallTypes DEF Push, In, TypeOK
  <2>1. /\ call[u].op = "push" /\ call[u].param = p /\ call[u].value = v
        /\ call'[u].op = "idle"
        /\ \A x \in Threads : x # u => call'[x] = call[x]
    BY <1>0, <1>3, <2>0, OneCall DEF Push, NoCall
  <2>2. /\ \A q \in Protocols :
             /\ q \in protocols => known'[q][p] = v
             /\ q \notin protocols => known'[q][p] = known[q][p]
             /\ \A x \in Params : x # p => known'[q][x] = known[q][x]
        /\ UNCHANGED <<value, callbacks, heard, protocols>>
    BY <1>0, <1>3, <2>0 DEF Push, Sent, TypeOK
  <2>3. \A x \in Users, q \in Protocols : Destroys(x, q)' <=> Destroys(x, q)
    BY <1>0, <2>1, Roles, RolesAfter
  <2>5. CarriedValue'
    BY <2>1, <2>2, <2>3, Carrying, CarryingAfter DEF ConvergedInv, CarriedValue, HasSoleWriter
  <2>6. KnownLast'
    BY <2>1, <2>2, <2>3, Carrying, CarryingAfter DEF ConvergedInv, CarriedValue, KnownLast,
       NotEchoed, Settled, HasSoleWriter
  <2>7. HeardLast'
    BY <2>1, <2>2, <2>3, Carrying, CarryingAfter DEF ConvergedInv, CarriedValue, HeardLast,
       HasSoleWriter
  <2>8. NotEchoed'
    BY <2>1, <2>2, <2>3, Carrying DEF ConvergedInv, CarriedValue, NotEchoed, HasSoleWriter
  <2>9. StartsUnknown'
    BY <2>1, <2>2, <2>3, Carrying DEF ConvergedInv, CarriedValue, StartsUnknown
  <2> QED BY <1>0, <2>5, <2>6, <2>7, <2>8, <2>9 DEF ConvergedInv
<1>4. ASSUME NEW q \in Protocols, NEW p \in Params, NEW v \in Values, Receive(q, p, v)
      PROVE  ConvergedInv'
  <2>1. /\ call[q].op = "idle" /\ q \in Writers[p]
        /\ call'[q].op \in {"set", "quiet"} /\ call'[q].param = p /\ call'[q].value = v
        /\ \A x \in Threads : x # q => call'[x] = call[x]
    BY <1>0, <1>4, Entered DEF Receive, WithValue
  <2>2. /\ known'[q][p] = v
        /\ \A x \in Protocols, r \in Params : x # q \/ r # p => known'[x][r] = known[x][r]
        /\ UNCHANGED <<value, callbacks, heard, protocols>>
    BY <1>0, <1>4 DEF Receive, TypeOK
  <2>3. q \notin Users /\ \A x \in Users, r \in Protocols : Destroys(x, r)' <=> Destroys(x, r)
    BY <2>1, <1>a
  <2>5. CarriedValue'
    BY <2>1, <2>2, <2>3, Carrying, CarryingAfter DEF ConvergedInv, CarriedValue, HasSoleWriter
  <2>6. KnownLast'
    BY <2>1, <2>2, <2>3, Carrying, CarryingAfter DEF ConvergedInv, CarriedValue, KnownLast,
       NotEchoed, Settled, HasSoleWriter
  <2>7. HeardLast'
    BY <2>1, <2>2, <2>3, Carrying, CarryingAfter DEF ConvergedInv, CarriedValue, HeardLast,
       HasSoleWriter
  <2>8. NotEchoed'
    BY <2>1, <2>2, <2>3, Carrying DEF ConvergedInv, CarriedValue, NotEchoed, HasSoleWriter
  <2>9. StartsUnknown'
    BY <2>1, <2>2, <2>3, Carrying DEF ConvergedInv, CarriedValue, StartsUnknown
  <2> QED BY <1>0, <2>5, <2>6, <2>7, <2>8, <2>9 DEF ConvergedInv
<1>5. ASSUME NEW q \in Protocols, Apply(q) PROVE ConvergedInv'
  <2>0. PICK p \in Params, v \in Values :
          call[q].op \in {"set", "quiet"} /\ call[q].param = p /\ call[q].value = v
    BY <1>0, <1>5, CallTypes DEF Apply, In, TypeOK
  <2>10. call[q] \in [op : ValueOps, param : Params, value : Values]
    <3>1. call[q] \in Call
      BY <1>0 DEF TypeOK
    <3> QED BY <2>0, <3>1 DEF Call, NoCall
  <2>1. /\ call[q].op \in {"set", "quiet"} /\ call[q].param = p /\ call[q].value = v
        /\ call'[q].op = "echo" => Echo
        /\ \/ call'[q].op \in {"notify", "echo"} /\ call'[q].param = p /\ call'[q].value = v
           \/ call'[q].op = "idle" /\ ~Echo
        /\ \A x \in Threads : x # q => call'[x] = call[x]
    BY <1>0, <1>5, <2>0, <2>10, OneCall DEF Apply, AfterNotify, NoCall
  <2>2. /\ value'[p] = v /\ \A x \in Params : x # p => value'[x] = value[x]
        /\ UNCHANGED <<known, callbacks, heard, protocols>>
    BY <1>0, <1>5, <2>0 DEF Apply, TypeOK
  <2>3. q \notin Users /\ \A x \in Users, r \in Protocols : Destroys(x, r)' <=> Destroys(x, r)
    BY <2>1, <1>a
  <2>5. CarriedValue'
    BY <2>1, <2>2, <2>3, Carrying, CarryingAfter DEF ConvergedInv, CarriedValue, HasSoleWriter
  <2>6. KnownLast'
    BY <2>1, <2>2, <2>3, Carrying, CarryingAfter DEF ConvergedInv, CarriedValue, KnownLast,
       NotEchoed, Settled, HasSoleWriter
  <2>7. HeardLast'
    BY <2>1, <2>2, <2>3, Carrying, CarryingAfter DEF ConvergedInv, CarriedValue, HeardLast,
       HasSoleWriter
  <2>8. NotEchoed'
    BY <2>1, <2>2, <2>3, Carrying DEF ConvergedInv, CarriedValue, NotEchoed, HasSoleWriter
  <2>9. StartsUnknown'
    BY <2>1, <2>2, <2>3, Carrying DEF ConvergedInv, CarriedValue, StartsUnknown
  <2> QED BY <1>0, <2>5, <2>6, <2>7, <2>8, <2>9 DEF ConvergedInv
<1>6. ASSUME NEW q \in Protocols, EchoMessage(q) PROVE ConvergedInv'
  <2>0. PICK p \in Params, v \in Values :
          call[q].op = "echo" /\ call[q].param = p /\ call[q].value = v
    BY <1>0, <1>6, CallTypes DEF EchoMessage, In, TypeOK
  <2>1. /\ call[q].op = "echo" /\ call[q].param = p /\ call[q].value = v
        /\ call'[q].op = "idle"
        /\ \A x \in Threads : x # q => call'[x] = call[x]
    BY <1>0, <1>6, <2>0, OneCall DEF EchoMessage, NoCall
  <2>2. /\ \A r \in Protocols :
             /\ r \in protocols /\ r # q => known'[r][p] = v
             /\ r \notin protocols \/ r = q => known'[r][p] = known[r][p]
             /\ \A x \in Params : x # p => known'[r][x] = known[r][x]
        /\ UNCHANGED <<value, callbacks, heard, protocols>>
    BY <1>0, <1>6, <2>0 DEF EchoMessage, Sent, TypeOK
  <2>3. q \notin Users /\ \A x \in Users, r \in Protocols : Destroys(x, r)' <=> Destroys(x, r)
    BY <2>1, <1>a
  <2>5. CarriedValue'
    BY <2>1, <2>2, <2>3, Carrying, CarryingAfter DEF ConvergedInv, CarriedValue, HasSoleWriter
  <2>6. KnownLast'
    BY <2>1, <2>2, <2>3, Carrying, CarryingAfter DEF ConvergedInv, CarriedValue, KnownLast,
       NotEchoed, Settled, HasSoleWriter
  <2>7. HeardLast'
    BY <2>1, <2>2, <2>3, Carrying, CarryingAfter DEF ConvergedInv, CarriedValue, HeardLast,
       HasSoleWriter
  <2>8. NotEchoed'
    BY <2>1, <2>2, <2>3, Carrying DEF ConvergedInv, CarriedValue, NotEchoed, HasSoleWriter
  <2>9. StartsUnknown'
    BY <2>1, <2>2, <2>3, Carrying DEF ConvergedInv, CarriedValue, StartsUnknown
  <2> QED BY <1>0, <2>5, <2>6, <2>7, <2>8, <2>9 DEF ConvergedInv
<1>b. ASSUME NEW u \in Users, call[u].op \notin ValueOps, call'[u].op \notin ValueOps,
             \A x \in Threads : x # u => call'[x] = call[x]
      PROVE  \A t \in Threads, p \in Params :
                 /\ Carries(t, p)' <=> Carries(t, p)
                 /\ Notifies(t, p)' <=> Notifies(t, p)
                 /\ Carries(t, p) => call'[t] = call[t]
  BY <1>b, Carrying, CarryingAfter
<1>7. ASSUME NEW u \in Users, NEW p \in Params, RegAgain(u, p) \/ UnregOnce(u, p)
      PROVE ConvergedInv'
  <2>1. /\ call[u].op = "idle" /\ call'[u].op = "idle"
        /\ \A x \in Threads : x # u => call'[x] = call[x]
    BY <1>0, <1>7, Entered DEF RegAgain, UnregOnce, NoCall
  <2>2. UNCHANGED <<value, known, callbacks, heard, protocols>>
    BY <1>7 DEF RegAgain, UnregOnce
  <2>3. \A r \in Protocols :
          /\ r \in protocols' => r \in protocols \/ \A x \in Users : ~Destroys(x, r)
          /\ r \notin protocols' /\ (\A x \in Users : ~Destroys(x, r)') =>
                \/ r \notin protocols /\ \A x \in Users : ~Destroys(x, r)
                \/ \A z \in Params : known'[r][z] = NoValue
    BY <2>1, <2>2, Roles, RolesAfter
  <2> QED BY <1>0, <1>b, <2>1, <2>2, <2>3, ConvergedFrame
<1>8. ASSUME NEW u \in Users, NEW p \in Params, Reg(u, p) PROVE ConvergedInv'
  <2>1. /\ call[u].op = "idle" /\ call'[u].op \in {"observe", "idle"}
        /\ \A x \in Threads : x # u => call'[x] = call[x]
    BY <1>0, <1>8, Entered DEF Reg, OnParam, NoCall
  <2>2. /\ \A x \in Users, r \in Params : x \in callbacks'[r] =>
             \/ heard'[x][r] = NoValue
             \/ x \in callbacks[r] /\ heard'[x][r] = heard[x][r]
        /\ UNCHANGED <<value, known, protocols>>
    BY <1>0, <1>8 DEF Reg, TypeOK
  <2>3. \A r \in Protocols :
          /\ r \in protocols' => r \in protocols \/ \A x \in Users : ~Destroys(x, r)
          /\ r \notin protocols' /\ (\A x \in Users : ~Destroys(x, r)') =>
                \/ r \notin protocols /\ \A x \in Users : ~Destroys(x, r)
                \/ \A z \in Params : known'[r][z] = NoValue
    BY <2>1, <2>2, Roles, RolesAfter
  <2> QED BY <1>0, <1>b, <2>1, <2>2, <2>3, ConvergedFrame
<1>9. ASSUME NEW u \in Users, NEW p \in Params, Unreg(u, p) PROVE ConvergedInv'
  <2>1. /\ call[u].op = "idle" /\ call'[u].op \in {"unobserve", "idle"}
        /\ \A x \in Threads : x # u => call'[x] = call[x]
    BY <1>0, <1>9, Entered DEF Unreg, OnParam, NoCall
  <2>2. /\ \A x \in Users, r \in Params : x \in callbacks'[r] => x \in callbacks[r]
        /\ UNCHANGED <<value, known, heard, protocols>>
    <3>1. callbacks' = callbacks \/ callbacks' = [callbacks EXCEPT ![p] = @ \ {u}]
      BY <1>9 DEF Unreg
    <3>2. \A x \in Users, r \in Params : x \in callbacks'[r] => x \in callbacks[r]
      <4>1. callbacks \in [Params -> SUBSET Users]
        BY <1>0 DEF TypeOK
      <4>2. CASE callbacks' = callbacks
        BY <4>2
      <4>3. CASE callbacks' = [callbacks EXCEPT ![p] = @ \ {u}]
        BY <4>1, <4>3
      <4> QED BY <3>1, <4>2, <4>3
    <3> QED BY <1>9, <3>2 DEF Unreg
  <2>3. \A r \in Protocols :
          /\ r \in protocols' => r \in protocols \/ \A x \in Users : ~Destroys(x, r)
          /\ r \notin protocols' /\ (\A x \in Users : ~Destroys(x, r)') =>
                \/ r \notin protocols /\ \A x \in Users : ~Destroys(x, r)
                \/ \A z \in Params : known'[r][z] = NoValue
    BY <2>1, <2>2, Roles, RolesAfter
  <2> QED BY <1>0, <1>b, <2>1, <2>2, <2>3, ConvergedFrame
<1>10. ASSUME NEW u \in Users, Observe(u) PROVE ConvergedInv'
  <2>1. /\ call[u].op = "observe" /\ call'[u].op = "idle"
        /\ \A x \in Threads : x # u => call'[x] = call[x]
    BY <1>0, <1>10, OneCall DEF Observe, In, NoCall
  <2>2. UNCHANGED <<value, known, callbacks, heard, protocols>>
    BY <1>10 DEF Observe
  <2>3. \A r \in Protocols :
          /\ r \in protocols' => r \in protocols \/ \A x \in Users : ~Destroys(x, r)
          /\ r \notin protocols' /\ (\A x \in Users : ~Destroys(x, r)') =>
                \/ r \notin protocols /\ \A x \in Users : ~Destroys(x, r)
                \/ \A z \in Params : known'[r][z] = NoValue
    BY <2>1, <2>2, Roles, RolesAfter
  <2> QED BY <1>0, <1>b, <2>1, <2>2, <2>3, ConvergedFrame
<1>11. ASSUME NEW u \in Users, Unobserve(u) PROVE ConvergedInv'
  <2>1. /\ call[u].op = "unobserve" /\ call'[u].op = "erase"
        /\ \A x \in Threads : x # u => call'[x] = call[x]
    BY <1>0, <1>11, OneCall DEF Unobserve, In, OnParam
  <2>2. UNCHANGED <<value, known, callbacks, heard, protocols>>
    BY <1>11 DEF Unobserve
  <2>3. \A r \in Protocols :
          /\ r \in protocols' => r \in protocols \/ \A x \in Users : ~Destroys(x, r)
          /\ r \notin protocols' /\ (\A x \in Users : ~Destroys(x, r)') =>
                \/ r \notin protocols /\ \A x \in Users : ~Destroys(x, r)
                \/ \A z \in Params : known'[r][z] = NoValue
    BY <2>1, <2>2, Roles, RolesAfter
  <2> QED BY <1>0, <1>b, <2>1, <2>2, <2>3, ConvergedFrame
<1>12. ASSUME NEW u \in Users, EraseCallback(u) PROVE ConvergedInv'
  <2>0. PICK p \in Params : call[u].op = "erase" /\ call[u].param = p
    BY <1>0, <1>12, CallTypes DEF EraseCallback, In, TypeOK
  <2>1. /\ call[u].op = "erase" /\ call'[u].op = "idle"
        /\ \A x \in Threads : x # u => call'[x] = call[x]
    BY <1>0, <1>12, OneCall DEF EraseCallback, In, NoCall
  <2>2. /\ \A x \in Users, r \in Params : x \in callbacks'[r] => x \in callbacks[r]
        /\ UNCHANGED <<value, known, heard, protocols>>
    BY <1>0, <1>12, <2>0 DEF EraseCallback, TypeOK
  <2>3. \A r \in Protocols :
          /\ r \in protocols' => r \in protocols \/ \A x \in Users : ~Destroys(x, r)
          /\ r \notin protocols' /\ (\A x \in Users : ~Destroys(x, r)') =>
                \/ r \notin protocols /\ \A x \in Users : ~Destroys(x, r)
                \/ \A z \in Params : known'[r][z] = NoValue
    BY <2>1, <2>2, Roles, RolesAfter
  <2> QED BY <1>0, <1>b, <2>1, <2>2, <2>3, ConvergedFrame
<1>13. ASSUME NEW u \in Users, NEW q \in Protocols, ExposeTo(u, q) PROVE ConvergedInv'
  <2>1. /\ call[u].op = "idle" /\ call'[u].op = "expose"
        /\ \A x \in Threads : x # u => call'[x] = call[x]
    BY <1>0, <1>13, Entered DEF ExposeTo, OnProtocol
  <2>2. UNCHANGED <<value, known, callbacks, heard, protocols>>
    BY <1>13 DEF ExposeTo
  <2>3. \A r \in Protocols :
          /\ r \in protocols' => r \in protocols \/ \A x \in Users : ~Destroys(x, r)
          /\ r \notin protocols' /\ (\A x \in Users : ~Destroys(x, r)') =>
                \/ r \notin protocols /\ \A x \in Users : ~Destroys(x, r)
                \/ \A z \in Params : known'[r][z] = NoValue
    BY <2>1, <2>2, Roles, RolesAfter
  <2> QED BY <1>0, <1>b, <2>1, <2>2, <2>3, ConvergedFrame
<1>14. ASSUME NEW u \in Users, NEW p \in Params, ObserveRec(u, p) PROVE ConvergedInv'
  <2>0. call[u] \in [op : {"expose", "destroy"}, protocol : Protocols, todo : SUBSET Params]
    <3>1. call[u] \in Call /\ call[u].op = "expose"
      BY <1>0, <1>14 DEF ObserveRec, In, TypeOK
    <3> QED BY <3>1 DEF Call, NoCall
  <2>1. /\ call[u].op = "expose" /\ call'[u].op = "expose"
        /\ \A x \in Threads : x # u => call'[x] = call[x]
    BY <1>0, <1>14, <2>0, OneCall DEF ObserveRec, In
  <2>2. UNCHANGED <<value, known, callbacks, heard, protocols>>
    BY <1>14 DEF ObserveRec
  <2>3. \A r \in Protocols :
          /\ r \in protocols' => r \in protocols \/ \A x \in Users : ~Destroys(x, r)
          /\ r \notin protocols' /\ (\A x \in Users : ~Destroys(x, r)') =>
                \/ r \notin protocols /\ \A x \in Users : ~Destroys(x, r)
                \/ \A z \in Params : known'[r][z] = NoValue
    BY <2>1, <2>2, Roles, RolesAfter
  <2> QED BY <1>0, <1>b, <2>1, <2>2, <2>3, ConvergedFrame
<1>15. ASSUME NEW u \in Users, Exposed(u) PROVE ConvergedInv'
  <2>0. PICK q \in Protocols : call[u].op = "expose" /\ call[u].protocol = q
    BY <1>0, <1>15, CallTypes DEF Exposed, In, TypeOK
  <2>1. /\ call[u].op = "expose" /\ call[u].protocol = q /\ call'[u].op = "idle"
        /\ \A x \in Threads : x # u => call'[x] = call[x]
    BY <1>0, <1>15, <2>0, OneCall DEF Exposed, NoCall
  <2>2. /\ protocols' = protocols \cup {q} /\ UNCHANGED <<value, known, callbacks, heard>>
        /\ \A x \in Users : ~Destroys(x, q)
    BY <1>15, <2>0, <2>1, <1>0, Roles DEF Exposed, ListenInv, OneExposer
  <2>3. \A r \in Protocols :
          /\ r \in protocols' => r \in protocols \/ \A x \in Users : ~Destroys(x, r)
          /\ r \notin protocols' /\ (\A x \in Users : ~Destroys(x, r)') =>
                \/ r \notin protocols /\ \A x \in Users : ~Destroys(x, r)
                \/ \A z \in Params : known'[r][z] = NoValue
    BY <2>1, <2>2, Roles, RolesAfter
  <2> QED BY <1>0, <1>b, <2>1, <2>2, <2>3, ConvergedFrame
<1>16. ASSUME NEW u \in Users, NEW q \in Protocols, StopExposeTo(u, q) PROVE ConvergedInv'
  <2>1. /\ call[u].op = "idle" /\ call'[u].op = "destroy" /\ call'[u].protocol = q
        /\ \A x \in Threads : x # u => call'[x] = call[x]
    BY <1>0, <1>16, Entered DEF StopExposeTo, OnProtocol
  <2>2. protocols' = protocols \ {q} /\ UNCHANGED <<value, known, callbacks, heard>>
    BY <1>16 DEF StopExposeTo
  <2>3. \A r \in Protocols :
          /\ r \in protocols' => r \in protocols \/ \A x \in Users : ~Destroys(x, r)
          /\ r \notin protocols' /\ (\A x \in Users : ~Destroys(x, r)') =>
                \/ r \notin protocols /\ \A x \in Users : ~Destroys(x, r)
                \/ \A z \in Params : known'[r][z] = NoValue
    BY <2>1, <2>2, Roles, RolesAfter
  <2> QED BY <1>0, <1>b, <2>1, <2>2, <2>3, ConvergedFrame
<1>17. ASSUME NEW u \in Users, Destroyed(u) PROVE ConvergedInv'
  <2>0. PICK q \in Protocols : call[u].op = "destroy" /\ call[u].protocol = q
    BY <1>0, <1>17, CallTypes DEF Destroyed, In, TypeOK
  <2>1. /\ call[u].op = "destroy" /\ call[u].protocol = q /\ call'[u].op = "idle"
        /\ \A x \in Threads : x # u => call'[x] = call[x]
    BY <1>0, <1>17, <2>0, OneCall DEF Destroyed, NoCall
  <2>2. /\ \A r \in Protocols, p \in Params :
             IF r = q THEN known'[r][p] = NoValue ELSE known'[r][p] = known[r][p]
        /\ call[q].op = "idle"
        /\ UNCHANGED <<value, callbacks, heard, protocols>>
    BY <1>0, <1>17, <2>0 DEF Destroyed, Idle, TypeOK
  <2>3. \A r \in Protocols :
          /\ r \in protocols' => r \in protocols \/ \A x \in Users : ~Destroys(x, r)
          /\ r \notin protocols' /\ (\A x \in Users : ~Destroys(x, r)') =>
                \/ r \notin protocols /\ \A x \in Users : ~Destroys(x, r)
                \/ \A z \in Params : known'[r][z] = NoValue
    BY <2>1, <2>2, Roles, RolesAfter
  <2>4. \A x \in Params : ~Carries(q, x)
    BY <2>2, Carrying
  <2> QED BY <1>0, <1>b, <2>1, <2>2, <2>3, <2>4, ConvergedFrame
<1>18. CASE UNCHANGED vars
  <2>1. /\ UNCHANGED <<value, known, callbacks, heard, protocols, call>>
        /\ \A x \in Users, q \in Protocols : Destroys(x, q)' <=> Destroys(x, q)
        /\ \A t \in Threads, p \in Params :
              (Carries(t, p)' <=> Carries(t, p)) /\ (Notifies(t, p)' <=> Notifies(t, p))
    BY <1>18 DEF vars, Destroys, Carries, Notifies, In
  <2> QED BY <1>0, <2>1, ConvergedFrame
<1> QED
  <2>1. CASE Request
    BY <2>1, <1>1, <1>4, <1>7, <1>8, <1>9, <1>13, <1>16 DEF Request
  <2>2. CASE \E t \in Threads : Work(t)
    BY <2>2, <1>2, <1>3, <1>5, <1>6, <1>10, <1>11, <1>12, <1>14, <1>15, <1>17 DEF Work
  <2> QED BY <1>18, <2>1, <2>2 DEF Next

(* What was last set arrives at every network and every message queue.     *)
THEOREM ConvergedHolds == Spec => []Converged
<1>1. ConvergedInv => Converged
  BY LocalDeviceAssumption DEF ConvergedInv, ListenInv, TypeOK, KnownLast, HeardLast, Converged,
     Settled, Carries, Notifies, In, Threads, HasSoleWriter
<1> QED BY InitConverged, StepConverged, <1>1, PTL DEF Spec
=============================================================================
