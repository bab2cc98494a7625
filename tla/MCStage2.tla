------------------------------ MODULE MCStage2 ------------------------------
(***************************************************************************)
(* A small memory: two descriptors per table, so an address space of eight *)
(* pages, and a pool of five table pages where a full tree needs seven.    *)
(***************************************************************************)
EXTENDS Stage2

R(ipa, size, pa, type, device) ==
    [ipa_base |-> ipa, size |-> size, pa_base |-> pa, type |-> type, device |-> device]

Aligned(r) == [region |-> r, aligned |-> TRUE]

(***************************************************************************)
(* One VM with RAM across two level-3 tables, a guard page, a device and a *)
(* second RAM region whose tables exhaust the pool.  The other requests    *)
(* are the refused ones: unaligned, overlapping, outside the address range *)
(* or a device region without a device.                                    *)
(***************************************************************************)
OneVmRegions(vm) ==
    {Aligned(R(1, 2, 0, "RAM", "NONE")),
     Aligned(R(3, 1, 0, "RAM_GUARD", "NONE")),
     Aligned(R(4, 4, 4, "RAM", "NONE")),
     Aligned(R(2, 3, 0, "MMIO", "VUART")),
     Aligned(R(7, 2, 0, "RAM_GUARD", "NONE")),
     Aligned(R(4, 1, 0, "MMIO", "NONE")),
     [region |-> R(0, 1, 3, "RAM", "NONE"), aligned |-> FALSE]}

M(ipa, pa, size) == [ipa |-> ipa, pa |-> pa, size |-> size, aligned |-> TRUE]

U(ipa) == [ipa |-> ipa, aligned |-> TRUE]

OneVmMaps(vm) ==
    {M(1, 0, 2), M(2, 1, 1), M(2, 1, 2), M(3, 2, 1), M(5, 5, 2), M(5, 4, 1),
     [ipa |-> 1, pa |-> 0, size |-> 1, aligned |-> FALSE]}

OneVmUnmaps == {U(1), U(5), [ipa |-> 2, aligned |-> FALSE]}

=============================================================================
