---------------------------- MODULE SlotLeaseProofs ----------------------------
(***************************************************************************)
(* What the lease of a slot is good for: whatever implements SlotLease     *)
(* never runs two VMs on one slot, and never moves a VM to another slot.   *)
(***************************************************************************)
EXTENDS SlotLease, TLAPS

LeaseInv == LeaseTypeOK /\ Exclusive

LEMMA InitLeaseInv == Init => LeaseInv
  BY DEF Init, LeaseInv, LeaseTypeOK, Exclusive

LEMMA NextLeaseInv == LeaseInv /\ [Next]_held => LeaseInv'
<1> SUFFICES ASSUME LeaseInv, [Next]_held PROVE LeaseInv'
  OBVIOUS
<1> USE DEF LeaseInv, LeaseTypeOK, Exclusive
<1>1. ASSUME NEW h \in Holders, Return(h) PROVE LeaseInv'
  BY <1>1 DEF Return
<1>2. ASSUME NEW h \in Holders, NEW s \in Slots, Lease(h, s) PROVE LeaseInv'
  <2>1. /\ s \in Slots /\ \A g \in Holders : held[g] # s
        /\ held' = [held EXCEPT ![h] = s]
    BY <1>2 DEF Lease, Unleased
  <2>2. LeaseTypeOK'
    BY <2>1
  <2>3. ASSUME NEW f \in Holders, NEW g \in Holders,
               held'[f] = held'[g], held'[f] # NoSlot
        PROVE  f = g
    BY <2>1, <2>3
  <2> QED
    BY <2>2, <2>3
<1>3. CASE UNCHANGED held
  BY <1>3
<1> QED
  BY <1>1, <1>2, <1>3 DEF Next

(* No two holders ever run a VM on one slot, and so on one TAP device, one *)
(* subnet, one cache image and one vsock CID, which MicroVm::new derives   *)
(* from the slot.                                                          *)
THEOREM NeverShared == Spec => []Exclusive
<1>1. LeaseInv => Exclusive
  BY DEF LeaseInv
<1> QED
  BY <1>1, InitLeaseInv, NextLeaseInv, PTL DEF Spec

(* A lease is for one slot: it ends before the holder has another.         *)
KeepsItsSlot ==
  \A h \in Holders : held[h] # NoSlot => held'[h] \in {held[h], NoSlot}

(* A slot changes hands only through the pool of free slots: a step that   *)
(* gives a holder a slot takes it from nobody.                             *)
TakenFromNobody ==
  \A g, h \in Holders : held'[h] = held[g] /\ held[g] # NoSlot => h = g

LEMMA StepKeeps == LeaseInv /\ [Next]_held => KeepsItsSlot /\ TakenFromNobody
<1> SUFFICES ASSUME LeaseInv, [Next]_held PROVE KeepsItsSlot /\ TakenFromNobody
  OBVIOUS
<1> USE DEF LeaseInv, LeaseTypeOK, Exclusive, KeepsItsSlot, TakenFromNobody
<1>1. ASSUME NEW h \in Holders, Return(h) PROVE KeepsItsSlot /\ TakenFromNobody
  BY <1>1 DEF Return
<1>2. ASSUME NEW h \in Holders, NEW s \in Slots, Lease(h, s)
      PROVE  KeepsItsSlot /\ TakenFromNobody
  BY <1>2 DEF Lease, Unleased
<1>3. CASE UNCHANGED held
  BY <1>3
<1> QED
  BY <1>1, <1>2, <1>3 DEF Next

(* From one VM to the next on a slot there is a moment when nobody has it, *)
(* and a VM is never moved to another slot while it runs.                  *)
THEOREM HandedOverFree == Spec => [][KeepsItsSlot /\ TakenFromNobody]_held
<1>1. LeaseInv /\ [Next]_held => [KeepsItsSlot /\ TakenFromNobody]_held
  BY StepKeeps
<1> QED
  BY <1>1, InitLeaseInv, NextLeaseInv, PTL DEF Spec
================================================================================
