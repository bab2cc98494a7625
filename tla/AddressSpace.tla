---------------------------- MODULE AddressSpace ----------------------------
(***************************************************************************)
(* What the stage-2 code promises, without page tables: every VM has a     *)
(* partial map from IPA pages to physical frames.  The hypervisor first    *)
(* grants a VM frames for some pages, then makes pages of the grant accessible *)
(* one at a time, and may take a page away again.  No other page of any VM *)
(* changes in such a step, and a page is never redirected while mapped.    *)
(***************************************************************************)
EXTENDS Integers

CONSTANTS Vms,       \* the guest address spaces
          IpaPages,  \* the number of pages of an IPA space
          PaFrames   \* the number of frames of the physical address space

VARIABLES grant,     \* grant[vm]: the <<page, frame>> pairs vm is entitled to
          xlate      \* xlate[vm]: the <<page, frame>> pairs vm can access now

vars == <<grant, xlate>>

-----------------------------------------------------------------------------
Pages(S) == {m[1] : m \in S}

Init == /\ grant = [vm \in Vms |-> {}]
        /\ xlate = [vm \in Vms |-> {}]

\* The VM is granted frames for pages that it did not have, and for no others.
Grant(vm) ==
    LET new == grant'[vm] \ grant[vm]
    IN  /\ UNCHANGED xlate
        /\ grant' = [grant EXCEPT ![vm] = @ \cup new]
        /\ new \subseteq (0 .. IpaPages - 1) \X (0 .. PaFrames - 1)
        /\ Pages(grant[vm]) \cap Pages(new) = {}
        /\ \A m, n \in new : m[1] = n[1] => m = n

MapPage(vm, m) ==
    /\ m \in grant[vm]
    /\ m[1] \notin Pages(xlate[vm])
    /\ xlate' = [xlate EXCEPT ![vm] = @ \cup {m}]
    /\ UNCHANGED grant

UnmapPage(vm, m) ==
    /\ m \in xlate[vm]
    /\ xlate' = [xlate EXCEPT ![vm] = @ \ {m}]
    /\ UNCHANGED grant

Next ==
    \E vm \in Vms :
        \/ Grant(vm)
        \/ \E m \in grant[vm] : MapPage(vm, m)
        \/ \E m \in xlate[vm] : UnmapPage(vm, m)

Spec == Init /\ [][Next]_vars
=============================================================================
