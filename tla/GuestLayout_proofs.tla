------------------------- MODULE GuestLayout_proofs -------------------------
(***************************************************************************)
(* Proof that the guests never share a frame, nor reach the hypervisor's   *)
(* image, tables or stack, whatever ranges callers try to map, for every   *)
(* number of guests and every slot size with which the slots end below the *)
(* stack (LayoutAssumption).  S2Inv confines a VM to its RAM regions; here *)
(* the regions are those of hv_scheduler_init, and the slots lie side by   *)
(* side above GUEST_BASE.                                                  *)
(***************************************************************************)
EXTENDS GuestLayout, Stage2_proofs

-----------------------------------------------------------------------------
\* A VM has no other regions than the three that it is given at boot.
BootRegionsOnly ==
    \A vm \in Vms : \A i \in DOMAIN regions[vm] :
        regions[vm][i] \in {ram_region(vm), guard_region, uart_region}

SlotFrames(vm) == GUEST_SLOT_BASE(vm) .. GUEST_SLOT_BASE(vm) + GUEST_SLOT_SIZE - 1

\* Guest slots start at or above GUEST_BASE.
LEMMA SlotType == \A vm \in Vms : GUEST_SLOT_BASE(vm) \in Nat /\ GUEST_SLOT_BASE(vm) >= GUEST_BASE
  BY LayoutAssumption, Stage2Assumption DEF GUEST_SLOT_BASE, Vms

\* The slots lie between the image of the hypervisor and its stack.
LEMMA SlotsApartFromHyp ==
  ASSUME NEW vm \in Vms
  PROVE  SlotFrames(vm) \cap HypFrames = {}
<1>1. /\ vm \in Nat /\ HV_MAX_VMS \in Nat /\ vm + 1 <= HV_MAX_VMS
      /\ GUEST_SLOT_SIZE \in Nat /\ GUEST_BASE \in Nat
      /\ HYP_STACK_TOP \in Nat /\ HypStackPages \in Nat
      /\ GUEST_BASE + HV_MAX_VMS * GUEST_SLOT_SIZE <= HYP_STACK_TOP - HypStackPages
  BY LayoutAssumption, Stage2Assumption DEF Vms
<1>2. (vm + 1) * GUEST_SLOT_SIZE <= HV_MAX_VMS * GUEST_SLOT_SIZE
  BY <1>1
<1>3. (vm + 1) * GUEST_SLOT_SIZE = vm * GUEST_SLOT_SIZE + GUEST_SLOT_SIZE
  BY <1>1
<1>4. vm * GUEST_SLOT_SIZE \in Nat /\ HV_MAX_VMS * GUEST_SLOT_SIZE \in Nat
  BY <1>1
<1>. QED BY <1>1, <1>2, <1>3, <1>4 DEF SlotFrames, GUEST_SLOT_BASE, HypFrames

\* The slots of two guests have no frame in common.
LEMMA SlotsApart ==
  ASSUME NEW v \in Vms, NEW w \in Vms, v # w
  PROVE  SlotFrames(v) \cap SlotFrames(w) = {}
<1>1. v \in Nat /\ w \in Nat /\ GUEST_SLOT_SIZE \in Nat /\ GUEST_BASE \in Nat
  BY LayoutAssumption, Stage2Assumption DEF Vms
<1>2. ASSUME NEW a \in Nat, NEW b \in Nat, a < b
      PROVE  a * GUEST_SLOT_SIZE + GUEST_SLOT_SIZE <= b * GUEST_SLOT_SIZE
  <2>1. (a + 1) * GUEST_SLOT_SIZE <= b * GUEST_SLOT_SIZE
    BY <1>1, <1>2
  <2>2. (a + 1) * GUEST_SLOT_SIZE = a * GUEST_SLOT_SIZE + GUEST_SLOT_SIZE
    BY <1>1
  <2>. QED BY <2>1, <2>2
<1>3. v < w \/ w < v
  BY <1>1
<1>4. /\ v * GUEST_SLOT_SIZE \in Nat /\ w * GUEST_SLOT_SIZE \in Nat
      /\ \/ v * GUEST_SLOT_SIZE + GUEST_SLOT_SIZE <= w * GUEST_SLOT_SIZE
         \/ w * GUEST_SLOT_SIZE + GUEST_SLOT_SIZE <= v * GUEST_SLOT_SIZE
  BY <1>1, <1>2, <1>3
<1>. QED BY <1>1, <1>4 DEF SlotFrames, GUEST_SLOT_BASE

\* hv_scheduler_init adds the boot regions and nobody adds others.
LEMMA BootRegionsStep ==
  ASSUME TypeOK, BootRegionsOnly, [Next]_vars
  PROVE  BootRegionsOnly'
<1>1. ASSUME regions' = regions PROVE BootRegionsOnly'
  BY <1>1 DEF BootRegionsOnly
<1>2. ASSUME NEW vm \in Vms, NEW q \in RegionRequests(vm), hv_vm_add_region(vm, q.region, q.aligned)
      PROVE  BootRegionsOnly'
  <2>1. q.region \in {ram_region(vm), guard_region, uart_region}
    BY BootAssumption DEF BootRegions
  <2>2. CASE AddRegionResult(regions[vm], q.region, q.aligned) = "OK"
    <3>1. /\ regions[vm] \in Seq(HvVmRegion)
          /\ regions'[vm] = Append(regions[vm], q.region)
          /\ \A w \in Vms : w # vm => regions'[w] = regions[w]
      BY <1>2, <2>2 DEF hv_vm_add_region, TypeOK
    <3>2. \A i \in DOMAIN regions'[vm] : \/ i \in DOMAIN regions[vm] /\ regions'[vm][i] = regions[vm][i]
                                         \/ regions'[vm][i] = q.region
      BY <3>1
    <3>. QED BY <2>1, <3>1, <3>2 DEF BootRegionsOnly
  <2>3. CASE AddRegionResult(regions[vm], q.region, q.aligned) # "OK"
    BY <1>1, <1>2, <2>3 DEF hv_vm_add_region
  <2>. QED BY <2>2, <2>3
<1>3. CASE UNCHANGED vars
  BY <1>1, <1>3 DEF vars
<1>4. CASE MapLoop \/ TlbEvict \/ hv_mmu_deactivate_stage2
  BY <1>1, <1>4 DEF MapLoop, TlbEvict, hv_mmu_deactivate_stage2
<1>5. CASE \E ipa \in 0 .. AddressPages - 1 : TlbFill(ipa)
  BY <1>1, <1>5 DEF TlbFill
<1>6. CASE \E vm \in Vms :
             \/ \E q \in MapRequests(vm) : hv_stage2_map_region(vm, q.ipa, q.pa, q.size, q.aligned)
             \/ hv_vm_build_stage2(vm)
             \/ \E q \in UnmapRequests : hv_stage2_unmap_page(vm, q.ipa, q.aligned)
             \/ hv_mmu_activate_vcpu(vm)
  BY <1>1, <1>6 DEF hv_stage2_map_region, hv_vm_build_stage2, hv_stage2_unmap_page,
                    hv_mmu_activate_vcpu
<1>. QED BY <1>2, <1>3, <1>4, <1>5, <1>6 DEF Next

\* All that a guest can reach lies in its slot.
LEMMA ReachInSlot ==
  ASSUME S2Inv, BootRegionsOnly, NEW vm \in Vms
  PROVE  Reach(vm) \subseteq SlotFrames(vm)
<1>1. ASSUME NEW x \in RamPairs(regions[vm]) PROVE x[2] \in SlotFrames(vm)
  <2>1. PICK i \in DOMAIN regions[vm] :
           /\ regions[vm][i].type = "RAM"
           /\ x \in Run(regions[vm][i].ipa_base, regions[vm][i].pa_base, regions[vm][i].size)
    BY <1>1, InRam
  <2>2. regions[vm][i] = ram_region(vm)
    BY <2>1 DEF BootRegionsOnly, guard_region, uart_region
  <2>3. x \in Run(GUEST_BASE, GUEST_SLOT_BASE(vm), GUEST_SLOT_SIZE - 1)
    BY <2>1, <2>2 DEF ram_region
  <2>4. /\ GUEST_BASE \in Nat /\ GUEST_SLOT_BASE(vm) \in Nat
        /\ GUEST_SLOT_SIZE - 1 \in Nat /\ GUEST_SLOT_SIZE \in Nat
    BY SlotType, LayoutAssumption
  <2>5. PICK k \in 0 .. GUEST_SLOT_SIZE - 1 - 1 : x = <<GUEST_BASE + k, GUEST_SLOT_BASE(vm) + k>>
    BY <2>3 DEF Run
  <2>. QED BY <2>4, <2>5 DEF SlotFrames
<1>2. Translations(s2[vm], pool_pa(vm)) \subseteq RamPairs(regions[vm])
  BY DEF S2Inv
<1>3. \A m \in Xlate(vm) : m[2] \in SlotFrames(vm)
  BY <1>1, <1>2, XlateIs
<1>4. ASSUME NEW e \in tlb, e.vmid = vm PROVE e.pa \in SlotFrames(vm)
  <2>. DEFINE x == <<e.ipa, e.pa>>
  <2>1. x \in RamPairs(regions[vm])
    BY <1>2, <1>4 DEF S2Inv, TlbTrue
  <2>2. x[2] \in SlotFrames(vm)
    <3>. HIDE DEF x
    <3>. QED BY <1>1, <2>1
  <2>. QED BY <2>2
<1>. QED BY <1>3, <1>4 DEF Reach

\* No two guests ever reach the same frame and none reaches a frame of the
\* hypervisor's image, tables or stack, whatever is mapped and unmapped, for every
\* number of guests and slot size that keep the slots below the stack.
THEOREM GuestsIsolated == Spec => []FramesNotShared
<1>1. Init => BootRegionsOnly
  BY DEF Init, BootRegionsOnly
<1>2. S2Inv /\ BootRegionsOnly /\ [Next]_vars => BootRegionsOnly'
  BY BootRegionsStep DEF S2Inv
<1>3. S2Inv /\ BootRegionsOnly => FramesNotShared
  <2>. SUFFICES ASSUME S2Inv, BootRegionsOnly PROVE FramesNotShared
    OBVIOUS
  <2>1. \A v, w \in Vms : v # w => Reach(v) \cap Reach(w) = {}
    BY ReachInSlot, SlotsApart
  <2>2. \A v \in Vms : Reach(v) \cap HypFrames = {}
    BY ReachInSlot, SlotsApartFromHyp
  <2>. QED BY <2>1, <2>2 DEF FramesNotShared
<1>. QED BY <1>1, <1>2, <1>3, S2Invariant, PTL DEF Spec
=============================================================================
