-------------------------------- MODULE Virq --------------------------------
(***************************************************************************)
(* The virtual interrupt controller of src/hv/virq.c: two bitmaps per      *)
(* vCPU, modelled as the sets of their set bits.                           *)
(***************************************************************************)
EXTENDS Vcpu

\* HV_VIRQ_ERR_NO_PENDING: no bit of the pending bitmap is set.
NoPending == -4

-----------------------------------------------------------------------------
hv_virq_is_pending(v, virq) == virq \in v.virq_pending

hv_virq_is_active(v, virq) == virq \in v.virq_active

\* Raising without looking at the active bitmap.
Mutant_RaiseBusy(v, virq) == hv_virq_is_pending(v, virq)

\* hv_virq_raise returns HV_VIRQ_ERR_BUSY and leaves the vCPU alone.
RaiseBusy(v, virq) == hv_virq_is_pending(v, virq) \/ hv_virq_is_active(v, virq)

\* Raising without the trailing hv_vcpu_wake.
Mutant_hv_virq_raise(v, virq) ==
    IF RaiseBusy(v, virq) THEN v
    ELSE [v EXCEPT !.virq_pending = @ \cup {virq}]

hv_virq_raise(v, virq) ==
    IF RaiseBusy(v, virq) THEN v
    ELSE hv_vcpu_wake([v EXCEPT !.virq_pending = @ \cup {virq}])

-----------------------------------------------------------------------------
\* The lowest set bit of the pending bitmap, or the error.
ClaimedVirq(v) ==
    IF v.virq_pending = {} THEN NoPending
    ELSE CHOOSE i \in v.virq_pending : \A j \in v.virq_pending : i <= j

\* Claiming without the early return for an empty pending bitmap.
Mutant_hv_virq_claim(v) ==
    [v EXCEPT !.virq_pending = @ \ {ClaimedVirq(v)},
              !.virq_active  = @ \cup {ClaimedVirq(v)}]

\* The claimed line stays pending.
Mutant_ClaimKeepsPending(v) ==
    IF v.virq_pending = {} THEN v
    ELSE [v EXCEPT !.virq_active = @ \cup {ClaimedVirq(v)}]

hv_virq_claim(v) ==
    IF v.virq_pending = {} THEN v
    ELSE [v EXCEPT !.virq_pending = @ \ {ClaimedVirq(v)},
                   !.virq_active  = @ \cup {ClaimedVirq(v)}]

\* HV_VIRQ_ERR_NOT_ACTIVE and HV_VIRQ_ERR_INVALID_VIRQ leave the vCPU alone.
hv_virq_complete(v, virq) ==
    IF hv_virq_is_active(v, virq)
    THEN [v EXCEPT !.virq_active = @ \ {virq}]
    ELSE v

\* The virtual IRQ line that hv_virq_sync drives from a vCPU.
VirqLine(v) == v.virq_pending # {}
=============================================================================
