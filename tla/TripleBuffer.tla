---------------------------- MODULE TripleBuffer ----------------------------
(***************************************************************************)
(* ossia::triple_buffer<T> (src/src/ossia/detail/triple_buffer.hpp): one   *)
(* producer thread and one consumer thread exchange values through three   *)
(* slots and a single atomic word, which packs the index of the middle     *)
(* slot and a dirty bit.                                                   *)
(*                                                                         *)
(* The accesses to the slots are plain memory accesses, made between the   *)
(* atomic operations: they are steps of their own here, so that an access  *)
(* of both threads to one slot would be a reachable state.  The two local  *)
(* indices change together with the exchange that determines them, since   *)
(* no other thread reads them.                                             *)
(*                                                                         *)
(* A value is the number of its production; 0 is the initial content.      *)
(***************************************************************************)
EXTENDS Naturals

CONSTANTS
    MaxProduce,     \* bound on the number of values produced
    Swapping        \* TRUE: T is swapped in and out (generic T);
                    \* FALSE: T is copied (trivially copyable T)

ASSUME BufferAssumption == MaxProduce \in Nat /\ Swapping \in BOOLEAN

VARIABLES
    buffers,        \* m_buffers: slot -> value
    mid,            \* m_mid_state: index of the middle slot and dirty bit
    write_idx,      \* m_write_idx, owned by the producer
    read_idx,       \* m_read_idx, owned by the consumer
    ppc, cpc,       \* where the producer and the consumer are
    produced,       \* number of produce() calls begun
    result          \* the value the consumer's last consume() returned

vars == <<buffers, mid, write_idx, read_idx, ppc, cpc, produced, result>>

Slots == 0..2

Init ==
    /\ buffers = [s \in Slots |-> 0]
    /\ mid = [idx |-> 1, dirty |-> FALSE]
    /\ write_idx = 0
    /\ read_idx = 2
    /\ ppc = "idle" /\ cpc = "idle"
    /\ produced = 0 /\ result = 0

-----------------------------------------------------------------------------
(* The producer: write into the slot it owns, then exchange it with the    *)
(* middle one.                                                             *)

WriteSlot ==
    /\ ppc = "idle" /\ produced < MaxProduce
    /\ produced' = produced + 1
    /\ buffers' = [buffers EXCEPT ![write_idx] = produced + 1]
    /\ ppc' = "written"
    /\ UNCHANGED <<mid, write_idx, read_idx, cpc, result>>

(* Mutant: the producer keeps its slot instead of taking the middle one.  *)
PublishSlot_KeepsSlot ==
    /\ ppc = "written"
    /\ mid' = [idx |-> write_idx, dirty |-> TRUE]
    /\ ppc' = "idle"
    /\ UNCHANGED <<buffers, write_idx, read_idx, cpc, produced, result>>

PublishSlot ==
    /\ ppc = "written"
    /\ mid' = [idx |-> write_idx, dirty |-> TRUE]
    /\ write_idx' = mid.idx
    /\ ppc' = "idle"
    /\ UNCHANGED <<buffers, read_idx, cpc, produced, result>>

-----------------------------------------------------------------------------
(* The consumer: look at the dirty bit, exchange the slot it owns with the *)
(* middle one, then take the value out of the slot it got.                 *)

CheckDirty ==
    /\ cpc = "idle" /\ mid.dirty
    /\ cpc' = "dirty"
    /\ UNCHANGED <<buffers, mid, write_idx, read_idx, ppc, produced, result>>

(* Mutant: the slot index read before is stored back with the dirty bit.  *)
ExchangeSlot_LeavesDirty ==
    /\ cpc = "dirty"
    /\ mid' = [idx |-> read_idx, dirty |-> TRUE]
    /\ read_idx' = mid.idx
    /\ cpc' = "exchanged"
    /\ UNCHANGED <<buffers, write_idx, ppc, produced, result>>

ExchangeSlot ==
    /\ cpc = "dirty"
    /\ mid' = [idx |-> read_idx, dirty |-> FALSE]
    /\ read_idx' = mid.idx
    /\ cpc' = "exchanged"
    /\ UNCHANGED <<buffers, write_idx, ppc, produced, result>>

(* Mutant: the value is taken from the slot given away.                   *)
ReadSlot_WrongSlot ==
    /\ cpc = "exchanged"
    /\ result' = buffers[mid.idx]
    /\ buffers' = IF Swapping THEN [buffers EXCEPT ![mid.idx] = result]
                              ELSE buffers
    /\ cpc' = "idle"
    /\ UNCHANGED <<mid, write_idx, read_idx, ppc, produced>>

ReadSlot ==
    /\ cpc = "exchanged"
    /\ result' = buffers[read_idx]
    /\ buffers' = IF Swapping THEN [buffers EXCEPT ![read_idx] = result]
                              ELSE buffers
    /\ cpc' = "idle"
    /\ UNCHANGED <<mid, write_idx, read_idx, ppc, produced>>

Producer == WriteSlot \/ PublishSlot
Consumer == CheckDirty \/ ExchangeSlot \/ ReadSlot

(* Both threads may stop for good between two calls once MaxProduce values *)
(* are out and taken: that is the only way this bounded system ends.       *)
Next == Producer \/ Consumer

Spec == Init /\ [][Next]_vars

(* The consumer is a periodic caller (an audio or a rendering callback)    *)
(* and neither call contains a wait.                                       *)
FairSpec == Spec /\ WF_vars(PublishSlot) /\ WF_vars(Consumer)

-----------------------------------------------------------------------------
(* The number of the last value whose publication is complete.             *)
published == IF ppc = "written" THEN produced - 1 ELSE produced

TypeOK ==
    /\ buffers \in [Slots -> 0..MaxProduce]
    /\ mid \in [idx : Slots, dirty : BOOLEAN]
    /\ write_idx \in Slots /\ read_idx \in Slots
    /\ ppc \in {"idle", "written"}
    /\ cpc \in {"idle", "dirty", "exchanged"}
    /\ produced \in 0..MaxProduce
    /\ ppc = "written" => produced > 0
    /\ result \in 0..MaxProduce

(* A slot is never in the hands of both threads: each of the three roles   *)
(* (written, in the middle, read) has a slot of its own at all times.      *)
SlotsDisjoint ==
    /\ write_idx # read_idx
    /\ write_idx # mid.idx
    /\ read_idx # mid.idx

(* Once a consumer that is between two calls sees no dirty bit, it holds   *)
(* the newest published value: an overwritten value is lost, never the     *)
(* last one.                                                               *)
NothingPending == cpc = "idle" /\ ~mid.dirty => result = published

(* The dirty slot always holds the newest published value, whichever of    *)
(* the three slots plays that role.                                        *)
DirtyHoldsNewest == mid.dirty => buffers[mid.idx] = published

(* What the three values in flight are: strengthens DirtyHoldsNewest and   *)
(* NothingPending to an inductive invariant.                               *)
Inv ==
    /\ TypeOK
    /\ SlotsDisjoint
    /\ DirtyHoldsNewest
    /\ NothingPending
    /\ mid.dirty => result < published
    /\ ppc = "written" => buffers[write_idx] = produced
    /\ cpc = "dirty" => mid.dirty
    /\ cpc = "exchanged" =>
          /\ result < buffers[read_idx]
          /\ buffers[read_idx] <= published
          /\ mid.dirty => buffers[read_idx] < published
          /\ ~mid.dirty => buffers[read_idx] = published

(* consume() never goes back in time: a value it returns was produced      *)
(* after the one it returned before, although slots are recycled with old  *)
(* values in them.                                                         *)
NewerOnly == [][result' # result => result' > result]_result

(* A consumer that keeps calling consume() ends up with the last value.    *)
LastValueArrives == <>[](produced = MaxProduce) => <>[](result = MaxProduce)

(* The value passed to consume() is not changed by a call that only finds  *)
(* out that there is nothing new, and the exchange is the point at which a *)
(* value is taken: the buffer implements the register.                     *)
Register == INSTANCE LatestValue WITH
    newest <- published,
    fresh <- mid.dirty,
    taken <- IF cpc = "exchanged" THEN buffers[read_idx] ELSE result

RefinesRegister == Register!LSpec
=============================================================================
