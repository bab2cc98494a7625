----------------------------- MODULE VmRegions ------------------------------
(***************************************************************************)
(* The memory map of a VM, src/hv/vm.c: the sequence of its regions and    *)
(* the tests that a region passes before it is added.  Addresses and sizes *)
(* are counted in pages; the field "aligned" of a request says whether the *)
(* byte values it was made from were all multiples of the page size.       *)
(***************************************************************************)
EXTENDS Integers, Sequences

CONSTANTS HV_MAX_VM_REGIONS,  \* capacity of the region table of a VM
          AddressPages        \* number of pages in the 32-bit address range

ASSUME RegionsAssumption == /\ HV_MAX_VM_REGIONS \in Nat
                            /\ AddressPages \in Nat

-----------------------------------------------------------------------------
HvVmRegionType == {"RAM", "RAM_GUARD", "MMIO"}

HvVmMmioDevice == {"NONE", "VUART"}

HvVmRegion == [ipa_base : Nat, size : Nat, pa_base : Nat,
               type : HvVmRegionType, device : HvVmMmioDevice]

hv_vm_fits_v1_32bit(base, size) ==
    /\ base < AddressPages
    /\ size <= AddressPages
    /\ base <= AddressPages - size

hv_vm_region_backed(r) == r.type = "RAM"

hv_vm_region_valid(r, aligned) ==
    /\ aligned
    /\ r.size # 0
    /\ hv_vm_fits_v1_32bit(r.ipa_base, r.size)
    /\ hv_vm_region_backed(r) => hv_vm_fits_v1_32bit(r.pa_base, r.size)
    /\ r.type = "MMIO" => r.device # "NONE"

hv_vm_region_contains(r, ipa) == ipa >= r.ipa_base /\ ipa - r.ipa_base < r.size

\* Comparing the bases only.
Mutant_hv_vm_regions_overlap(a, b) == a.ipa_base = b.ipa_base

hv_vm_regions_overlap(a, b) ==
    /\ a.ipa_base < b.ipa_base + b.size
    /\ b.ipa_base < a.ipa_base + a.size

-----------------------------------------------------------------------------
\* The capacity test off by one.
Mutant_AddRegionResult(regions, r, aligned) ==
    IF ~ hv_vm_region_valid(r, aligned) THEN "INVAL"
    ELSE IF Len(regions) > HV_MAX_VM_REGIONS THEN "FULL"
    ELSE IF \E i \in DOMAIN regions : hv_vm_regions_overlap(regions[i], r)
         THEN "OVERLAP"
    ELSE "OK"

\* hv_vm_add_region, as its result code for a table of regions.
AddRegionResult(regions, r, aligned) ==
    IF ~ hv_vm_region_valid(r, aligned) THEN "INVAL"
    ELSE IF Len(regions) >= HV_MAX_VM_REGIONS THEN "FULL"
    ELSE IF \E i \in DOMAIN regions : hv_vm_regions_overlap(regions[i], r)
         THEN "OVERLAP"
    ELSE "OK"

\* hv_vm_find_region returns the first region that contains the address.
RegionFound(regions, ipa) ==
    \E i \in DOMAIN regions : hv_vm_region_contains(regions[i], ipa)

hv_vm_find_region(regions, ipa) ==
    regions[CHOOSE i \in DOMAIN regions :
              /\ hv_vm_region_contains(regions[i], ipa)
              /\ \A j \in 1 .. i - 1 : ~ hv_vm_region_contains(regions[j], ipa)]
=============================================================================
