------------------------- MODULE TripleBufferProofs -------------------------
(***************************************************************************)
(* Proofs about TripleBuffer, for every number of values and for both ways *)
(* of moving a value in and out of a slot.  Inv is inductive: it says what *)
(* each of the three slots holds relative to the newest published value.   *)
(***************************************************************************)
EXTENDS TripleBuffer, TLAPS

(* The buffer is constructed in a state that satisfies the invariant.      *)
LEMMA InitInv == Init => Inv
  BY BufferAssumption DEF Init, Inv, TypeOK, SlotsDisjoint, DirtyHoldsNewest,
     NothingPending, published, Slots

(* Every access and every exchange of either thread preserves it.          *)
LEMMA StepInv == Inv /\ [Next]_vars => Inv'
<1> SUFFICES ASSUME Inv, [Next]_vars PROVE Inv'
  OBVIOUS
<1> USE BufferAssumption DEF Inv, TypeOK, SlotsDisjoint, DirtyHoldsNewest,
        NothingPending, published, Slots
<1>1. CASE WriteSlot
  <2>1. buffers' \in [0..2 -> 0..MaxProduce]
    BY <1>1 DEF WriteSlot
  <2>2. /\ buffers'[mid.idx] = buffers[mid.idx]
        /\ buffers'[read_idx] = buffers[read_idx]
        /\ buffers'[write_idx] = produced + 1
    BY <1>1 DEF WriteSlot
  <2> QED BY <1>1, <2>1, <2>2 DEF WriteSlot
<1>2. CASE PublishSlot
  BY <1>2 DEF PublishSlot
<1>3. CASE CheckDirty
  BY <1>3 DEF CheckDirty
<1>4. CASE ExchangeSlot
  BY <1>4 DEF ExchangeSlot
<1>5. CASE ReadSlot
  <2>1. buffers' \in [0..2 -> 0..MaxProduce]
    BY <1>5 DEF ReadSlot
  <2>2. /\ buffers'[mid.idx] = buffers[mid.idx]
        /\ buffers'[write_idx] = buffers[write_idx]
    BY <1>5 DEF ReadSlot
  <2> QED BY <1>5, <2>1, <2>2 DEF ReadSlot
<1>6. CASE UNCHANGED vars
  BY <1>6 DEF vars
<1> QED BY <1>1, <1>2, <1>3, <1>4, <1>5, <1>6 DEF Next, Producer, Consumer

(* The inductive invariant holds in every reachable state.                 *)
THEOREM Invariance == Spec => []Inv
  BY InitInv, StepInv, PTL DEF Spec

(* The producer and the consumer never touch the same slot.                *)
THEOREM Exclusion == Spec => []SlotsDisjoint
<1>1. Inv => SlotsDisjoint
  BY DEF Inv
<1> QED BY Invariance, <1>1, PTL

(* consume() hands over values in the order of their production.           *)
THEOREM Monotonic == Spec => NewerOnly
<1>1. Inv /\ [Next]_vars => [result' # result => result' > result]_result
  BY DEF Inv, Next, Producer, Consumer, WriteSlot, PublishSlot, CheckDirty,
         ExchangeSlot, ReadSlot, vars
<1> QED BY Invariance, <1>1, PTL DEF Spec, NewerOnly

(* The three-slot protocol implements the latest-value register.           *)
THEOREM Refinement == Spec => RefinesRegister
<1>1. Init => Register!LInit
  BY DEF Init, Register!LInit, published
<1>2. Inv /\ [Next]_vars => [Register!LNext]_(Register!lvars)
  <2> SUFFICES ASSUME Inv, [Next]_vars
               PROVE  [Register!LNext]_(Register!lvars)
    OBVIOUS
  <2> USE DEF Inv, TypeOK, published, Slots, Register!LNext, Register!lvars
  <2>1. CASE WriteSlot
    <3>1. buffers'[read_idx] = buffers[read_idx]
      BY <2>1 DEF WriteSlot, SlotsDisjoint
    <3> QED BY <2>1, <3>1 DEF WriteSlot
  <2>2. CASE PublishSlot
    <3>1. published < MaxProduce /\ published' = published + 1
      BY <2>2, BufferAssumption DEF PublishSlot
    <3>2. mid'.dirty = TRUE
      BY <2>2 DEF PublishSlot
    <3>3. UNCHANGED <<cpc, buffers, read_idx, result>>
      BY <2>2 DEF PublishSlot
    <3> QED BY <3>1, <3>2, <3>3 DEF Register!Publish
  <2>3. CASE CheckDirty
    BY <2>3 DEF CheckDirty
  <2>4. CASE ExchangeSlot
    BY <2>4 DEF ExchangeSlot, DirtyHoldsNewest, Register!Take
  <2>5. CASE ReadSlot
    BY <2>5 DEF ReadSlot
  <2>6. CASE UNCHANGED vars
    BY <2>6 DEF vars
  <2> QED BY <2>1, <2>2, <2>3, <2>4, <2>5, <2>6 DEF Next, Producer, Consumer
<1> QED BY Invariance, <1>1, <1>2, PTL DEF Spec, RefinesRegister, Register!LSpec
=============================================================================
