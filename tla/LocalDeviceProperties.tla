------------------------ MODULE LocalDeviceProperties ------------------------
(***************************************************************************)
(* What the parameters of a multiplexed device promise to the threads that *)
(* share them and to the networks they are exposed on.                     *)
(***************************************************************************)
EXTENDS LocalDevice

Call ==
    {NoCall}
    \cup [op : {"observe", "unobserve", "erase"}, param : Params]
    \cup [op : {"notify", "push", "set", "quiet", "echo"},
          param : Params, value : Values]
    \cup [op : {"expose", "destroy"}, protocol : Protocols, todo : SUBSET Params]

TypeOK ==
    /\ value \in [Params -> Values]
    /\ callbacks \in [Params -> SUBSET Users]
    /\ count \in [Users -> [Params -> Nat]]
    /\ heard \in [Users -> [Params -> Values \cup {NoValue}]]
    /\ protocols \subseteq Protocols
    /\ listening \in [Protocols -> SUBSET Params]
    /\ known \in [Protocols -> [Params -> Values \cup {NoValue}]]
    /\ call \in [Threads -> Call]
    /\ calls \in [Threads -> Nat]

(* callback_container.hpp:20, "This allows to cleanly stop listening when  *)
(* there are no callbacks": whatever registers while protocols come and    *)
(* go, a protocol listens to a parameter exactly when it has a callback,   *)
(* but while its observation is being switched.                            *)
ListeningExact ==
    \A q \in protocols, p \in Params :
        ~CallbacksLocked(p) => (p \in listening[q] <=> callbacks[p] # {})

(* A call that carries a value of p from one place to another.             *)
Carries(t, p) ==
    In(t, {"notify", "push", "set", "quiet", "echo"}) /\ call[t].param = p
Settled(p) == \A t \in Threads : ~Carries(t, p)
HasSoleWriter(p) == \A t1, t2 \in Writers[p] : t1 = t2

(* parameter.hpp:100, "Sets the value locally, and sends it to the         *)
(* network": once the calls on a parameter that one thread writes have     *)
(* ended, each network and each message queue that got a value since it is *)
(* there has the last one.  A message is set quietly while its protocol is *)
(* being exposed, so queues may miss it.                                   *)
Converged ==
    \A p \in Params : Settled(p) /\ HasSoleWriter(p) =>
        /\ \A q \in protocols : known[q][p] \in {NoValue, value[p]}
        /\ Writers[p] \subseteq Users =>
             \A u \in Users : u \in callbacks[p] => heard[u][p] \in {NoValue, value[p]}

(* expose_to takes the two locks in the other order than add_callback and  *)
(* remove_callback, and stop_expose_to joins a thread under a lock that it *)
(* needs for the echo, at once or behind a switch that waits for the lock. *)
Switching(t, p) == In(t, {"observe", "unobserve"}) /\ call[t].param = p
Embraced ==
    \E u \in Users :
        \/ In(u, {"expose"}) /\ \E p \in call[u].todo, t \in Users : Switching(t, p)
        \/ /\ In(u, {"destroy"})
           /\ LET q == call[u].protocol IN
                \/ In(q, {"echo"})
                \/ In(q, {"notify"}) /\ \E t \in Users : Switching(t, call[q].param)

(* Nothing else keeps a call from returning.                               *)
CallsReturn == \A t \in Threads : ~Idle(t) ~> Idle(t) \/ Embraced
=============================================================================
