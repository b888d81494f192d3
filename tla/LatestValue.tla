---------------------------- MODULE LatestValue ----------------------------
(***************************************************************************)
(* What ossia::triple_buffer promises to its two clients, and what         *)
(* rate_limiting_protocol promises for each parameter: a register that     *)
(* holds the newest published value, with a flag telling whether the       *)
(* consumer already has it.  Publishing never waits, taking never waits,   *)
(* and a taken value is always the newest one.                             *)
(*                                                                         *)
(* Values are numbered in the order of their publication; 0 is the value   *)
(* the register is constructed with.                                       *)
(***************************************************************************)
EXTENDS Naturals

CONSTANT MaxProduce     \* bound on the number of values published

VARIABLES
    newest,     \* the newest published value
    fresh,      \* TRUE while the consumer has not taken it
    taken       \* the value the consumer took last

lvars == <<newest, fresh, taken>>

LInit == newest = 0 /\ fresh = FALSE /\ taken = 0

Publish ==
    /\ newest < MaxProduce
    /\ newest' = newest + 1
    /\ fresh' = TRUE
    /\ UNCHANGED taken

Take ==
    /\ fresh
    /\ taken' = newest
    /\ fresh' = FALSE
    /\ UNCHANGED newest

LNext == Publish \/ Take

LSpec == LInit /\ [][LNext]_lvars
=============================================================================
