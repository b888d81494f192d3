----------------------------- MODULE MC_TaskPool ----------------------------
(***************************************************************************)
(* A graph of four nodes: a precedes c and d, b precedes d.  a and b fork  *)
(* a slice each; b and c must run on the execution thread, so that c may   *)
(* be executed on top of b when b waits for its slice.                     *)
(***************************************************************************)
EXTENDS TaskPoolProperties, TLC

CONSTANTS root, a, b, c, d, a1, b1

MCTasks == {root, a, b, c, d, a1, b1}
MCParent == (a :> root) @@ (b :> root) @@ (c :> root) @@ (d :> root)
            @@ (a1 :> a) @@ (b1 :> b)
MCBefore == {<<a, c>>, <<a, d>>, <<b, d>>}
MCOwnerOnly == {b, c}
=============================================================================
