---------------------------- MODULE MC_Dataflow -----------------------------
(* A small graph: a feeds b by a glutton cable and c by a strict one that  *)
(* requires c only, b and c are bound by a strict cable, c feeds back to a *)
(* through a delay and d through a strict delay; connecting "back" closes  *)
(* an immediate cycle.  a writes the address that d and b read.            *)
EXTENDS DataflowProperties, TLC

MCCables == [
    ab |-> <<"a", "b", "glutton">>,
    ac |-> <<"a", "c", "strict_in">>,
    bc |-> <<"b", "c", "strict">>,
    ca |-> <<"c", "a", "delayed_glutton">>,
    cd |-> <<"c", "d", "delayed_strict">>,
    back |-> <<"c", "a", "glutton">>]
MCEdges == DOMAIN MCCables
MCSource == [e \in MCEdges |-> MCCables[e][1]]
MCTarget == [e \in MCEdges |-> MCCables[e][2]]
MCKind == [e \in MCEdges |-> MCCables[e][3]]
MCReads == [a |-> "none", b |-> "x", c |-> "none", d |-> "x"]
MCWrites == [a |-> "x", b |-> "none", c |-> "none", d |-> "none"]
MCRequests == {{"a", "b", "c", "d"}, {"b", "c"}}
=============================================================================
