------------------------------- MODULE Stage2 -------------------------------
(***************************************************************************)
(* Guest memory: the region tables of src/hv/vm.c, the stage-2 tables of   *)
(* src/hv/stage2.c, the activation of an address space by src/hv/mmu.c and *)
(* the TLB that these functions have to keep honest.                       *)
(*                                                                         *)
(* Mapping a region is a loop with one stage2_map_page per iteration, and  *)
(* the MMU may walk the tables and fill the TLB between two iterations, so *)
(* an iteration is a step.  "call" is the running or the last call: no     *)
(* other call starts while its result is BUSY.                             *)
(***************************************************************************)
EXTENDS VmRegions, Stage2Tables, FiniteSets

CONSTANTS HV_MAX_VMS,         \* number of guest address spaces
          PoolBase,           \* page number of stage2_table_pools
          TlbEntries,         \* capacity of the TLB
          RegionRequests(_),  \* the regions that callers try to add to a VM
          MapRequests(_),     \* the ranges that callers try to map in a VM
          UnmapRequests       \* the pages that callers try to unmap

Vms == 0 .. HV_MAX_VMS - 1

\* The arguments of a call are unsigned words, otherwise of any value.
ASSUME Stage2Assumption ==
    /\ HV_MAX_VMS \in Nat \ {0} /\ PoolBase \in Nat /\ TlbEntries \in Nat
    /\ AddressPages <= HV_STAGE2_DESCS_PER_TABLE * HV_STAGE2_DESCS_PER_TABLE
                          * HV_STAGE2_DESCS_PER_TABLE
    /\ \A vm \in Vms :
          /\ RegionRequests(vm) \subseteq [region : HvVmRegion, aligned : BOOLEAN]
          /\ MapRequests(vm) \subseteq [ipa : Nat, pa : Nat, size : Nat, aligned : BOOLEAN]
    /\ UnmapRequests \subseteq [ipa : Nat, aligned : BOOLEAN]

VARIABLES regions,  \* regions[vm]: HvVm.regions
          s2,       \* s2[vm]: HvVm.stage2 and its pool
          call,     \* the call in progress, or the last one with its result
          tlb,      \* cached stage-2 translations
          vttbr,    \* the VM that VTTBR holds the tables and the VMID of
          hcr_vm    \* HCR.VM: is stage-2 translation on

vars == <<regions, s2, call, tlb, vttbr, hcr_vm>>

NoVm == -1

Results == {"OK", "INVAL", "RANGE", "FULL", "OVERLAP", "NO_TABLES", "MAPPED"}

Calls == [op : {"init", "add", "map", "build", "unmap"}, vm : Vms,
          region : Nat, ipa : Nat, pa : Nat, size : Nat, done : Nat,
          res : Results \cup {"BUSY"}]

-----------------------------------------------------------------------------
pool_pa(vm) == PoolBase + vm * HV_STAGE2_MAX_TABLE_PAGES

IsMapped(vm, ipa) == Mapped(s2[vm], pool_pa(vm), ipa)

FrameOf(vm, ipa) == hv_stage2_translate(s2[vm], pool_pa(vm), ipa)

\* The translations that a table walk finds, and those the regions allow.
Xlate(vm) ==
    {<<p, FrameOf(vm, p)>> : p \in {q \in 0 .. AddressPages - 1 : IsMapped(vm, q)}}

Run(ipa, pa, size) == {<<ipa + k, pa + k>> : k \in 0 .. size - 1}

RamOf(vm) ==
    UNION {Run(regions[vm][i].ipa_base, regions[vm][i].pa_base, regions[vm][i].size) :
             i \in {j \in DOMAIN regions[vm] : regions[vm][j].type = "RAM"}}

-----------------------------------------------------------------------------
\* hv_vm_init for every VM, before any stage-2 translation is on.
Init ==
    /\ regions = [vm \in Vms |-> <<>>]
    /\ s2 = [vm \in Vms |-> hv_stage2_init]
    /\ call = [op |-> "init", vm |-> 0, region |-> 0, ipa |-> 0, pa |-> 0,
               size |-> 0, done |-> 0, res |-> "OK"]
    /\ tlb = {}
    /\ vttbr = NoVm
    /\ hcr_vm = FALSE

Ready == call.res # "BUSY"

hv_vm_add_region(vm, r, aligned) ==
    LET res == AddRegionResult(regions[vm], r, aligned)
    IN  /\ Ready
        /\ regions' = IF res = "OK" THEN [regions EXCEPT ![vm] = Append(@, r)]
                      ELSE regions
        /\ call' = [op |-> "add", vm |-> vm, region |-> 0, ipa |-> 0, pa |-> 0,
                    size |-> 0, done |-> 0, res |-> res]
        /\ UNCHANGED <<s2, tlb, vttbr, hcr_vm>>

-----------------------------------------------------------------------------
stage2_region_contains_mapping(r, ipa, pa, size) ==
    /\ r.type = "RAM"
    /\ ipa >= r.ipa_base
    /\ size <= r.size
    /\ ipa - r.ipa_base <= r.size - size
    /\ pa = r.pa_base + (ipa - r.ipa_base)

\* Checking the first page of the range only.
Mutant_RegionCovers(vm, ipa, pa, size) ==
    /\ RegionFound(regions[vm], ipa)
    /\ stage2_region_contains_mapping(
           hv_vm_find_region(regions[vm], ipa), ipa, pa, 1)

RegionCovers(vm, ipa, pa, size) ==
    /\ RegionFound(regions[vm], ipa)
    /\ stage2_region_contains_mapping(
           hv_vm_find_region(regions[vm], ipa), ipa, pa, size)

(***************************************************************************)
(* The checks before the loop of hv_stage2_map_region.  Page numbers do    *)
(* not wrap here: a range that wraps 64 bits is refused with the others    *)
(* that leave the 32-bit address space.                                    *)
(***************************************************************************)
MapRegionCheck(vm, ipa, pa, size, aligned) ==
    IF ~ aligned \/ size = 0 THEN "INVAL"
    ELSE IF ipa + size > AddressPages \/ pa + size > AddressPages THEN "RANGE"
    ELSE IF ~ RegionCovers(vm, ipa, pa, size) THEN "RANGE"
    ELSE "BUSY"

hv_stage2_map_region(vm, ipa, pa, size, aligned) ==
    /\ Ready
    /\ call' = [op |-> "map", vm |-> vm, region |-> 0, ipa |-> ipa, pa |-> pa,
                size |-> size, done |-> 0,
                res |-> MapRegionCheck(vm, ipa, pa, size, aligned)]
    /\ UNCHANGED <<regions, s2, tlb, vttbr, hcr_vm>>

\* The RAM regions that hv_vm_build_stage2 has still to map after region i.
RamAfter(vm, i) == {j \in DOMAIN regions[vm] : j > i /\ hv_vm_region_backed(regions[vm][j])}

\* The build call once it has reached its next RAM region, or the end.
BuildFrom(c) ==
    IF RamAfter(c.vm, c.region) = {} THEN [c EXCEPT !.res = "OK"]
    ELSE LET i == CHOOSE j \in RamAfter(c.vm, c.region) :
                     \A k \in RamAfter(c.vm, c.region) : j <= k
             r == regions[c.vm][i]
         IN  [c EXCEPT !.region = i, !.ipa = r.ipa_base, !.pa = r.pa_base,
                       !.size = r.size, !.done = 0,
                       !.res = MapRegionCheck(c.vm, r.ipa_base, r.pa_base, r.size, TRUE)]

hv_vm_build_stage2(vm) ==
    /\ Ready
    /\ call' = BuildFrom([op |-> "build", vm |-> vm, region |-> 0, ipa |-> 0,
                          pa |-> 0, size |-> 0, done |-> 0, res |-> "BUSY"])
    /\ UNCHANGED <<regions, s2, tlb, vttbr, hcr_vm>>

\* Counting a page before looking at its result.
Mutant_Returned(c, res) ==
    IF res # "OK" THEN [c EXCEPT !.res = res, !.done = @ + 1]
    ELSE IF c.done + 1 < c.size THEN [c EXCEPT !.done = @ + 1]
    ELSE IF c.op = "map" THEN [c EXCEPT !.done = @ + 1, !.res = "OK"]
    ELSE BuildFrom([c EXCEPT !.done = @ + 1])

\* The call after one iteration of the loop whose page gave result res.
Returned(c, res) ==
    IF res # "OK" THEN [c EXCEPT !.res = res]
    ELSE IF c.done + 1 < c.size THEN [c EXCEPT !.done = @ + 1]
    ELSE IF c.op = "map" THEN [c EXCEPT !.done = @ + 1, !.res = "OK"]
    ELSE BuildFrom([c EXCEPT !.done = @ + 1])

\* One iteration; leaving the loop either way invalidates the whole TLB.
MapLoop ==
    LET m == stage2_map_page(s2[call.vm], pool_pa(call.vm),
                             call.ipa + call.done, call.pa + call.done)
    IN  /\ ~ Ready
        /\ s2' = [s2 EXCEPT ![call.vm] = m.s]
        /\ call' = Returned(call, m.res)
        /\ tlb' = IF m.res = "OK" /\ call.done + 1 < call.size THEN tlb ELSE {}
        /\ UNCHANGED <<regions, vttbr, hcr_vm>>

-----------------------------------------------------------------------------
UnmapCheck(vm, ipa, aligned) ==
    IF ~ aligned THEN "INVAL"
    ELSE IF ~ RegionFound(regions[vm], ipa) THEN "RANGE"
    ELSE "OK"

\* TLBIIPAS2 reaches the entries of the VMID in VTTBR and no others.
hyp_invalidate_stage2_tlb_ipa(ipa) ==
    {e \in tlb : e.vmid # vttbr \/ e.ipa # ipa}

hv_stage2_unmap_page(vm, ipa, aligned) ==
    LET res == UnmapCheck(vm, ipa, aligned)
    IN  /\ Ready
        /\ s2' = IF res = "OK"
                 THEN [s2 EXCEPT ![vm] = UnmapEntry(@, pool_pa(vm), ipa)]
                 ELSE s2
        /\ tlb' = IF res = "OK" THEN hyp_invalidate_stage2_tlb_ipa(ipa) ELSE tlb
        /\ call' = [op |-> "unmap", vm |-> vm, region |-> 0, ipa |-> ipa, pa |-> 0,
                    size |-> 1, done |-> 0, res |-> res]
        /\ UNCHANGED <<regions, vttbr, hcr_vm>>

-----------------------------------------------------------------------------
\* A switch that relies on the VMID tags and does not invalidate.
Mutant_hv_mmu_activate_vcpu(vm) ==
    /\ Ready
    /\ vttbr' = vm
    /\ hcr_vm' = TRUE
    /\ UNCHANGED <<regions, s2, call, tlb>>

hv_mmu_activate_vcpu(vm) ==
    /\ Ready
    /\ vttbr' = vm
    /\ tlb' = {}
    /\ hcr_vm' = TRUE
    /\ UNCHANGED <<regions, s2, call>>

\* The idle vCPU has no VM.
hv_mmu_deactivate_stage2 ==
    /\ Ready
    /\ hcr_vm' = FALSE
    /\ tlb' = {}
    /\ UNCHANGED <<regions, s2, call, vttbr>>

\* The MMU caches a translation of the active VM, needed or speculated.
TlbFill(ipa) ==
    /\ hcr_vm
    /\ Cardinality(tlb) < TlbEntries
    /\ IsMapped(vttbr, ipa)
    /\ tlb' = tlb \cup {[vmid |-> vttbr, ipa |-> ipa, pa |-> FrameOf(vttbr, ipa)]}
    /\ UNCHANGED <<regions, s2, call, vttbr, hcr_vm>>

\* It may drop one whenever it likes.
TlbEvict ==
    /\ \E e \in tlb : tlb' = tlb \ {e}
    /\ UNCHANGED <<regions, s2, call, vttbr, hcr_vm>>

Next ==
    \/ MapLoop
    \/ TlbEvict
    \/ hv_mmu_deactivate_stage2
    \/ \E ipa \in 0 .. AddressPages - 1 : TlbFill(ipa)
    \/ \E vm \in Vms :
        \/ \E q \in RegionRequests(vm) : hv_vm_add_region(vm, q.region, q.aligned)
        \/ \E q \in MapRequests(vm) :
              hv_stage2_map_region(vm, q.ipa, q.pa, q.size, q.aligned)
        \/ hv_vm_build_stage2(vm)
        \/ \E q \in UnmapRequests : hv_stage2_unmap_page(vm, q.ipa, q.aligned)
        \/ hv_mmu_activate_vcpu(vm)

Spec == Init /\ [][Next]_vars

-----------------------------------------------------------------------------
TypeOK ==
    /\ regions \in [Vms -> Seq(HvVmRegion)]
    /\ \A vm \in Vms : Len(regions[vm]) <= HV_MAX_VM_REGIONS
    /\ s2 \in [Vms -> HvStage2]
    /\ call \in Calls
    /\ tlb \subseteq [vmid : Vms, ipa : Nat, pa : Nat]
    /\ vttbr \in Vms \cup {NoVm}
    /\ hcr_vm \in BOOLEAN

(***************************************************************************)
(* The allocated table pages of a VM form a tree of depth three: every     *)
(* used entry of the root and of a level-2 table leads to an allocated     *)
(* page of the VM's own pool, every allocated page but the root is led to  *)
(* by exactly one entry (none is lost, even when a mapping runs out of     *)
(* tables half way), and the pages not handed out yet are clean.           *)
(***************************************************************************)
Links(vm, T) == {l \in T \X Index : s2[vm].pool[l[1]][l[2]] # DESC_INVALID}

Target(vm, l) == stage2_desc_to_table(pool_pa(vm), s2[vm].pool[l[1]][l[2]])

TableTree ==
    \A vm \in Vms :
        LET L1 == Links(vm, {Root})
            L2 == Links(vm, {Target(vm, l) : l \in L1})
            used == s2[vm].pool_used
        IN  /\ \A l \in L1 : Target(vm, l) \in 1 .. used - 1
            /\ \A l \in L2 : Target(vm, l) \in 1 .. used - 1
            /\ \A t \in 1 .. used - 1 :
                  \E l \in L1 \cup L2 :
                     /\ Target(vm, l) = t
                     /\ \A k \in L1 \cup L2 : Target(vm, k) = t => k = l
            /\ \A t \in Table : t >= used => s2[vm].pool[t] = stage2_zero_table

(***************************************************************************)
(* The regions of a VM never share an IPA page, whatever order they were   *)
(* added in and whichever requests were refused: a fault address belongs   *)
(* to at most one region.                                                  *)
(***************************************************************************)
RegionsDisjoint ==
    \A vm \in Vms : \A i, j \in DOMAIN regions[vm] : \A p \in 0 .. AddressPages - 1 :
        /\ hv_vm_region_contains(regions[vm][i], p)
        /\ hv_vm_region_contains(regions[vm][j], p)
        => i = j

(***************************************************************************)
(* The result of a mapping call is the truth: the pages counted by the     *)
(* loop are mapped as asked, whether the call went on, succeeded or failed *)
(* half way, and after OK nothing of the range, or of the RAM regions for  *)
(* hv_vm_build_stage2, is missing.  A call that fails says why: the page   *)
(* it stopped at is mapped, or the pool has no table left to reach it.     *)
(***************************************************************************)
CallResultsHold ==
    /\ call.op \in {"map", "build"} => Run(call.ipa, call.pa, call.done) \subseteq Xlate(call.vm)
    /\ call.op = "map" /\ call.res = "OK" => call.done = call.size
    /\ call.op = "build" /\ call.res = "OK" => RamOf(call.vm) \subseteq Xlate(call.vm)
    /\ call.res = "MAPPED" => IsMapped(call.vm, call.ipa + call.done)
    /\ call.res = "NO_TABLES" => /\ ~ IsMapped(call.vm, call.ipa + call.done)
                                 /\ s2[call.vm].pool_used = HV_STAGE2_MAX_TABLE_PAGES

(***************************************************************************)
(* No stale translation: a TLB entry of any VM agrees with a walk of that  *)
(* VM's tables.  Unmapping invalidates for the VMID in VTTBR only, so this *)
(* also needs the invalidation at every switch.                            *)
(***************************************************************************)
TlbCoherent ==
    \A e \in tlb : IsMapped(e.vmid, e.ipa) /\ FrameOf(e.vmid, e.ipa) = e.pa

(***************************************************************************)
(* Isolation: what the active guest can reach, through the TLB or by a     *)
(* walk, lies in the frames of its own RAM regions.                        *)
(***************************************************************************)
GuestConfined ==
    hcr_vm => /\ {<<e.ipa, e.pa>> : e \in {f \in tlb : f.vmid = vttbr}} \subseteq RamOf(vttbr)
              /\ Xlate(vttbr) \subseteq RamOf(vttbr)

(***************************************************************************)
(* The table code implements the abstract address spaces: linking a new    *)
(* table or writing an entry changes the translation of the one page the   *)
(* call is about, only from unmapped to its granted frame or back.         *)
(***************************************************************************)
AS == INSTANCE AddressSpace
        WITH IpaPages <- AddressPages, PaFrames <- AddressPages,
             grant <- [vm \in Vms |-> RamOf(vm)],
             xlate <- [vm \in Vms |-> Xlate(vm)]

ImplementsAddressSpace == AS!Spec
=============================================================================
