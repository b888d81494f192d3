---------------------------- MODULE MC_DeviceTree ---------------------------
(***************************************************************************)
(* Three nodes: one with a child, and one beside it.                       *)
(***************************************************************************)
EXTENDS DeviceTreeProperties, TLC

CONSTANTS a1, b1, c1
MCNodes == {a1, b1, c1}
MCLineage == [n \in MCNodes |-> IF n = b1 THEN <<a1, b1>> ELSE <<n>>]

(* Nothing but the locks tells a reader from another.                      *)
MCSymmetry == Permutations(Readers)
=============================================================================
