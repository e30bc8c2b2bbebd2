------------------------------- MODULE SlotLease -------------------------------
(***************************************************************************)
(* What every scheduling mode of fc-runner promises about slots.           *)
(*                                                                         *)
(* A slot is the host-side identity of a running microVM: MicroVm::new     *)
(* derives the TAP device, the subnet, the persistent cache image and the  *)
(* vsock CID from the slot index alone (src/vm/firecracker/mod.rs).  So a  *)
(* slot must be leased to at most one VM at a time, from before the VM is  *)
(* prepared until after it has been cleaned up.                            *)
(***************************************************************************)

CONSTANTS
  Holders,   \* whoever runs a VM: a dispatch task, a pool task, ...
  Slots,     \* the slot indices that were handed out at start-up
  NoSlot     \* "holds no slot"

VARIABLE held   \* the slot each holder runs a VM on

LeaseTypeOK == held \in [Holders -> Slots \cup {NoSlot}]

Init == held = [h \in Holders |-> NoSlot]

Unleased == {s \in Slots : \A h \in Holders : held[h] # s}

Lease(h, s) ==
  /\ held[h] = NoSlot
  /\ s \in Unleased
  /\ held' = [held EXCEPT ![h] = s]

Return(h) ==
  /\ held[h] # NoSlot
  /\ held' = [held EXCEPT ![h] = NoSlot]

Next == \E h \in Holders : Return(h) \/ \E s \in Slots : Lease(h, s)

Spec == Init /\ [][Next]_held

(* No two holders run a VM on one slot. *)
Exclusive ==
  \A g, h \in Holders : held[g] = held[h] /\ held[g] # NoSlot => g = h
================================================================================
