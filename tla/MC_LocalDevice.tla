--------------------------- MODULE MC_LocalDevice ----------------------------
(***************************************************************************)
(* Two users and two protocols share two parameters: one that only the     *)
(* first user writes, and one that only the first protocol writes.         *)
(***************************************************************************)
EXTENDS LocalDeviceProperties

CONSTANTS local, remote, u1, u2, server1, server2
MCParams == {local, remote}
MCUsers == {u1, u2}
MCProtocols == {server1, server2}
MCWriters == [p \in MCParams |-> IF p = local THEN {u1} ELSE {server1}]
MCRegistered == {server1}
MCMaxCalls == [t \in MCUsers \cup MCProtocols |-> IF t = u1 THEN 3 ELSE 2]
=============================================================================
