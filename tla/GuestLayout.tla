---------------------------- MODULE GuestLayout ----------------------------
(***************************************************************************)
(* Stage2 with the memory map that hv_scheduler_init gives the guests      *)
(* (src/hv/scheduler.c, include/hv/guest-image.h, linker.ld): every guest  *)
(* sees the same addresses, backed by a slot of its own; the last page of  *)
(* the slot is a guard page, and a page above holds the virtual UART.  The *)
(* hypervisor's image, with its stage-2 tables, lies below the slots, and  *)
(* its stack above them, under HYP_STACK_TOP (include/arch/aarch32.h,      *)
(* src/boot/start.S).  Addresses and sizes are counted in pages.           *)
(*                                                                         *)
(* Nothing in vm.c or stage2.c compares the frames of different VMs, or    *)
(* compares them with those of the hypervisor: that they are apart is up   *)
(* to this layout alone.                                                   *)
(***************************************************************************)
EXTENDS Stage2

CONSTANTS GUEST_BASE, GUEST_SLOT_SIZE, HV_GUEST_UART_BASE,
          HYP_STACK_TOP,    \* the Hyp stack grows down from here,
          HypStackPages     \* by this many pages at most

(***************************************************************************)
(* The ASSERT of linker.ld: the image ends, with the tables, below the     *)
(* guests.  That the slots end below the stack is asserted nowhere.  It    *)
(* holds of the values in guest-image.h, vm.h and aarch32.h: two slots of  *)
(* 64 KB end at 0x40000, and the stack's top is at 0x4000000.              *)
(***************************************************************************)
ASSUME LayoutAssumption ==
    /\ GUEST_SLOT_SIZE \in Nat \ {0, 1}
    /\ GUEST_BASE \in Nat
    /\ PoolBase + HV_MAX_VMS * HV_STAGE2_MAX_TABLE_PAGES <= GUEST_BASE
    /\ HYP_STACK_TOP \in Nat /\ HypStackPages \in Nat
    /\ GUEST_BASE + HV_MAX_VMS * GUEST_SLOT_SIZE <= HYP_STACK_TOP - HypStackPages

\* The frames of the hypervisor.
HypFrames == (0 .. GUEST_BASE - 1) \cup (HYP_STACK_TOP - HypStackPages .. HYP_STACK_TOP - 1)

\* Slots twice as far apart as they are large.
Mutant_GUEST_SLOT_BASE(slot) == GUEST_BASE + 2 * slot * GUEST_SLOT_SIZE

GUEST_SLOT_BASE(slot) == GUEST_BASE + slot * GUEST_SLOT_SIZE

ram_region(i) ==
    [ipa_base |-> GUEST_BASE, size |-> GUEST_SLOT_SIZE - 1, pa_base |-> GUEST_SLOT_BASE(i),
     type |-> "RAM", device |-> "NONE"]

guard_region ==
    [ipa_base |-> GUEST_BASE + GUEST_SLOT_SIZE - 1, size |-> 1, pa_base |-> 0,
     type |-> "RAM_GUARD", device |-> "NONE"]

uart_region ==
    [ipa_base |-> HV_GUEST_UART_BASE, size |-> 1, pa_base |-> 0,
     type |-> "MMIO", device |-> "VUART"]

-----------------------------------------------------------------------------
\* The values of the request constants: the regions above, in any order; ranges
\* in the guest's slot, in the other guests' slots, in the tables and in the
\* stack.
BootRegions(vm) ==
    {[region |-> r, aligned |-> TRUE] : r \in {ram_region(vm), guard_region, uart_region}}

\* hv_scheduler_init is, tests aside, the one caller of hv_vm_add_region.
ASSUME BootAssumption == \A vm \in Vms : RegionRequests(vm) \subseteq BootRegions(vm)

BootMaps(vm) ==
    {[ipa |-> GUEST_BASE, pa |-> pa, size |-> n, aligned |-> TRUE] :
        pa \in {PoolBase, HYP_STACK_TOP - HypStackPages} \cup {GUEST_SLOT_BASE(i) : i \in Vms},
        n \in GUEST_SLOT_SIZE - 1 .. GUEST_SLOT_SIZE}

BootUnmaps ==
    {[ipa |-> p, aligned |-> TRUE] : p \in GUEST_BASE .. GUEST_BASE + GUEST_SLOT_SIZE - 1}

-----------------------------------------------------------------------------
\* The frames that a VM can reach, by a walk or through the TLB.
Reach(vm) == {m[2] : m \in Xlate(vm)} \cup {e.pa : e \in {f \in tlb : f.vmid = vm}}

(***************************************************************************)
(* Isolation between guests: no frame can be reached by two of them, and   *)
(* none of them can reach the hypervisor, neither its image with the       *)
(* stage-2 tables that confine the guests nor its stack, whatever is       *)
(* mapped and unmapped and in which order.                                 *)
(***************************************************************************)
FramesNotShared ==
    /\ \A v, w \in Vms : v # w => Reach(v) \cap Reach(w) = {}
    /\ \A v \in Vms : Reach(v) \cap HypFrames = {}
=============================================================================
