----------------------------- MODULE Hypervisor -----------------------------
(***************************************************************************)
(* The run-time core of the hypervisor: the round-robin scheduler          *)
(* (src/hv/scheduler.c), the hypercalls (src/hv/hypercall.c), the virtual  *)
(* timers multiplexed on the one BCM timer, and the exception handlers     *)
(* that drive them (src/arch/hyp-exceptions.c).                            *)
(*                                                                         *)
(* There is one core and Hyp runs with IRQs masked, so a handler is one    *)
(* atomic step.  What interleaves is the guest code between handlers, the  *)
(* two physical timers, and the clock.                                     *)
(***************************************************************************)
EXTENDS Virq

CONSTANTS
    HV_MAX_GUEST_VCPUS,  \* guest slots; the idle vCPU comes after them
    TickWrap,            \* TIM_SYS_CLO is read modulo this (2^32 in the code)
    MAX_DELTA,           \* TIM_ARM_TIMER_MAX_DELTA_US, in ticks
    MaxLatency,          \* bound: ticks from a timer interrupt to its handler
    Periods,             \* periods a harness starts a guest's timer with, 0 = none
    Delays               \* arguments guests pass to HYPERCALL_TIMER_DELAY_TICKS

ASSUME HypervisorAssumption ==
    /\ HV_MAX_GUEST_VCPUS \in Nat \ {0}
    /\ TickWrap \in Nat \ {0}
    /\ MAX_DELTA \in Nat \ {0}
    /\ MaxLatency \in Nat
    /\ Periods \subseteq Nat
    /\ Delays \subseteq Nat

VARIABLES
    vcpus,     \* scheduler.vcpus
    cur_idx,   \* scheduler.cur_idx; scheduler.cur_vcpu is &vcpus[cur_idx]
    hcr,       \* the HCR bits vi, twi and vm
    vttbr,     \* the VM whose stage-2 tables VTTBR names
    tim,       \* the BCM ARM timer: IRQ enable, ticks until (since) it fired
    gen,       \* the generic timer's condition is met (CNTHP_CTL.ISTATUS)
    now,       \* the free-running system timer, TIM_SYS_CLO
    halted     \* a handler returned HYP_ACTION_HALT or an assert failed

vars == <<vcpus, cur_idx, hcr, vttbr, tim, gen, now, halted>>

Guests == 0 .. HV_MAX_GUEST_VCPUS - 1

HV_IDLE_VCPU_IDX == HV_MAX_GUEST_VCPUS

HV_MAX_VCPUS == HV_MAX_GUEST_VCPUS + 1

Vcpus == 0 .. HV_MAX_GUEST_VCPUS

\* hv_scheduler_pick_next_idx found nothing to run.
None == -1

hv_scheduler_is_idle_idx(i) == i = HV_IDLE_VCPU_IDX

TypeOK ==
    /\ vcpus \in [Vcpus -> HvVcpu]
    /\ cur_idx \in Vcpus
    /\ hcr \in [vi : BOOLEAN, twi : BOOLEAN, vm : BOOLEAN]
    /\ vttbr \in Guests
    /\ tim \in [irq_en : BOOLEAN, count : Int]
    /\ gen \in BOOLEAN
    /\ now \in Nat
    /\ halted \in BOOLEAN

-----------------------------------------------------------------------------
(***************************************************************************)
(* Physical timer.  The BCM timer is always loaded and enabled together    *)
(* (TIM_Arm_Usec) and only ever disabled at the interrupt controller, so   *)
(* its count matters only while its IRQ is enabled.  A count of zero or    *)
(* less means the interrupt is pending; -count is how late Hyp is.  The    *)
(* rounding of TIM_Arm_Usec up to the timer's 1.024 us unit is part of     *)
(* that lateness.                                                          *)
(***************************************************************************)
TIM_Disable_IRQ == [irq_en |-> FALSE, count |-> 0]

TIM_Arm_Usec(delta) == [irq_en |-> TRUE, count |-> delta]

TIM_Check_IRQ == tim.irq_en /\ tim.count <= 0

\* The vCPUs whose virtual timer hv_vtimer_rearm_physical looks at.
Armed(vs) ==
    {g \in Guests : vs[g].state \notin {"IDLE", "EXITED"} /\ vs[g].timer.enabled}

Earliest(vs) ==
    CHOOSE d \in {vs[g].timer.deadline : g \in Armed(vs)} :
        \A g \in Armed(vs) : d <= vs[g].timer.deadline

\* Ticks to program for the earliest deadline: at least one, at most MAX_DELTA.
RearmDelta(vs) ==
    LET delta == IF Earliest(vs) > now THEN Earliest(vs) - now ELSE 1
    IN  IF delta > MAX_DELTA THEN MAX_DELTA ELSE delta

RearmedTimer(vs) ==
    IF Armed(vs) = {} THEN TIM_Disable_IRQ ELSE TIM_Arm_Usec(RearmDelta(vs))

hv_vtimer_rearm_physical(vs) == tim' = RearmedTimer(vs)

-----------------------------------------------------------------------------
(***************************************************************************)
(* Scheduler.  vs is the vCPU table as the calling handler has left it so  *)
(* far; every path ends in hv_scheduler_switch_to, which installs it.      *)
(***************************************************************************)
SetState(vs, i, st) ==
    [j \in Vcpus |-> IF j = i THEN [vs[j] EXCEPT !.state = st] ELSE vs[j]]

hv_scheduler_has_runnable(vs) == \E g \in Guests : vs[g].state = "RUNNABLE"

\* The scan restarts at slot 0 instead of after the current vCPU.
Mutant_ScanIdx(offset) == (offset - 1) % HV_MAX_VCPUS

ScanIdx(offset) == (cur_idx + offset) % HV_MAX_VCPUS

\* "exited, but can potentially run again" (include/hv/vcpu.h) taken literally.
Mutant_RunnableOffsets(vs) ==
    {o \in 1 .. HV_MAX_VCPUS :
        /\ ~ hv_scheduler_is_idle_idx(ScanIdx(o))
        /\ vs[ScanIdx(o)].state \in {"RUNNABLE", "EXITED"}}

\* The offsets at which the round-robin scan would stop.
RunnableOffsets(vs) ==
    {o \in 1 .. HV_MAX_VCPUS :
        /\ ~ hv_scheduler_is_idle_idx(ScanIdx(o))
        /\ vs[ScanIdx(o)].state = "RUNNABLE"}

hv_scheduler_pick_next_idx(vs) ==
    IF RunnableOffsets(vs) = {} THEN None
    ELSE ScanIdx(CHOOSE o \in RunnableOffsets(vs) :
                    \A p \in RunnableOffsets(vs) : o <= p)

\* The current vCPU, if it is still running, is switched away from.
Deschedule(vs) ==
    IF vs[cur_idx].state # "RUNNING" THEN vs
    ELSE SetState(vs, cur_idx,
                  IF hv_scheduler_is_idle_idx(cur_idx) THEN "IDLE" ELSE "RUNNABLE")

\* hv_virq_sync is left out of the switch, as the boot path leaves it out.
Mutant_hv_scheduler_switch_to(vs, next) ==
    /\ vcpus' = SetState(Deschedule(vs), next, "RUNNING")
    /\ cur_idx' = next
    /\ hcr' = [vi |-> hcr.vi,
               twi |-> ~ hv_scheduler_is_idle_idx(next),
               vm  |-> ~ hv_scheduler_is_idle_idx(next)]
    /\ vttbr' = IF hv_scheduler_is_idle_idx(next) THEN vttbr ELSE next

\* hv_scheduler_sync_traps drives hcr.twi, hv_mmu_activate_vcpu hcr.vm and
\* vttbr, hv_virq_sync hcr.vi.  The idle vCPU has no VM.
hv_scheduler_switch_to(vs, next) ==
    /\ vcpus' = SetState(Deschedule(vs), next, "RUNNING")
    /\ cur_idx' = next
    /\ hcr' = [vi  |-> VirqLine(vs[next]),
               twi |-> ~ hv_scheduler_is_idle_idx(next),
               vm  |-> ~ hv_scheduler_is_idle_idx(next)]
    /\ vttbr' = IF hv_scheduler_is_idle_idx(next) THEN vttbr ELSE next

\* Idle is entered without hv_scheduler_sync_traps: its WFI still traps.
Mutant_hv_scheduler_enter_idle(vs) ==
    /\ vcpus' = SetState(Deschedule(vs), HV_IDLE_VCPU_IDX, "RUNNING")
    /\ cur_idx' = HV_IDLE_VCPU_IDX
    /\ hcr' = [vi |-> VirqLine(vs[HV_IDLE_VCPU_IDX]), twi |-> hcr.twi, vm |-> FALSE]
    /\ UNCHANGED vttbr

\* When the idle vCPU is current already the code makes the same assignments
\* without saving and reloading the context.
hv_scheduler_enter_idle(vs) == hv_scheduler_switch_to(vs, HV_IDLE_VCPU_IDX)

hv_scheduler_advance(vs) ==
    LET vs1  == Deschedule(vs)
        next == hv_scheduler_pick_next_idx(vs1)
    IN  IF next = None THEN hv_scheduler_enter_idle(vs1)
                       ELSE hv_scheduler_switch_to(vs1, next)

-----------------------------------------------------------------------------
(***************************************************************************)
(* What a running guest can make Hyp do.  Idle executes WFI untrapped, so  *)
(* every synchronous trap comes from a guest.                              *)
(***************************************************************************)
GuestRuns == ~ halted /\ ~ hv_scheduler_is_idle_idx(cur_idx)

Cur == vcpus[cur_idx]

hyp_halt == halted' = TRUE /\ UNCHANGED <<vcpus, cur_idx, hcr, vttbr, tim, gen, now>>

\* HYPERCALL_EXIT and every guest abort that is not an emulated MMIO access.
stop_current_guest_vcpu ==
    LET vs == SetState([vcpus EXCEPT ![cur_idx] = hv_vcpu_timer_disable(@)],
                       cur_idx, "EXITED")
    IN  /\ hv_vtimer_rearm_physical(vs)
        /\ hv_scheduler_advance(vs)
        /\ UNCHANGED <<gen, now, halted>>

\* The early return forgets to put the caller back to RUNNING.
Mutant_hv_scheduler_yield ==
    LET vs   == SetState(vcpus, cur_idx, "RUNNABLE")
        next == hv_scheduler_pick_next_idx(vs)
    IN  /\ IF next = None \/ next = cur_idx
           THEN vcpus' = vs /\ UNCHANGED <<cur_idx, hcr, vttbr>>
           ELSE hv_scheduler_switch_to(vs, next)
        /\ UNCHANGED <<tim, gen, now, halted>>

hv_scheduler_yield ==
    LET vs   == SetState(vcpus, cur_idx, "RUNNABLE")
        next == hv_scheduler_pick_next_idx(vs)
    IN  /\ IF next = None \/ next = cur_idx
           THEN /\ vcpus' = SetState(vs, cur_idx, "RUNNING")
                /\ UNCHANGED <<cur_idx, hcr, vttbr>>
           ELSE hv_scheduler_switch_to(vs, next)
        /\ UNCHANGED <<tim, gen, now, halted>>

\* hv_virq_sync of the current vCPU after the call changed its bitmaps.
UpdateCurVirqs(v) ==
    /\ vcpus' = [vcpus EXCEPT ![cur_idx] = v]
    /\ hcr' = [hcr EXCEPT !.vi = VirqLine(v)]
    /\ UNCHANGED <<cur_idx, vttbr, tim, gen, now, halted>>

HypercallVirqClaim == UpdateCurVirqs(hv_virq_claim(Cur))

HypercallVirqComplete(virq) == UpdateCurVirqs(hv_virq_complete(Cur, virq))

\* The delay is set but the physical timer is not rearmed for it.
Mutant_HypercallTimerDelay(delay) ==
    IF delay = 0 THEN UNCHANGED vars
    ELSE LET vs == [vcpus EXCEPT ![cur_idx] = hv_vcpu_timer_delay(@, now, delay)]
         IN  /\ hv_scheduler_advance(vs)
             /\ UNCHANGED <<tim, gen, now, halted>>

HypercallTimerDelay(delay) ==
    IF delay = 0 THEN UNCHANGED vars
    ELSE LET vs == [vcpus EXCEPT ![cur_idx] = hv_vcpu_timer_delay(@, now, delay)]
         IN  /\ hv_vtimer_rearm_physical(vs)
             /\ hv_scheduler_advance(vs)
             /\ UNCHANGED <<gen, now, halted>>

\* Calls that only write the caller's r0 (or one byte to the UART).
QueryCalls == {"GET_ABI_VERSION", "GET_FEATURES", "PUTCHAR", "GET_HYP_IRQ_COUNT",
               "TIMER_GET_TICKS", "TIMER_GET_FREQ"}

\* The numbers hypercall.h defines.
DeclaredCalls == QueryCalls \cup {"EXIT", "YIELD", "ADVANCE", "VIRQ_CLAIM",
                                  "VIRQ_COMPLETE", "TIMER_DELAY_TICKS"}

\* The default case of the switch: r0 is set, then the machine is halted.
UnknownCall(call) ==
    call \notin QueryCalls \cup {"EXIT", "YIELD", "VIRQ_CLAIM", "VIRQ_COMPLETE",
                                 "TIMER_DELAY_TICKS"}

hyp_handle_guest_hypercall(call) ==
    /\ GuestRuns
    /\ \/ call \in QueryCalls /\ UNCHANGED vars
       \/ call = "EXIT" /\ stop_current_guest_vcpu
       \/ call = "YIELD" /\ hv_scheduler_yield
       \/ call = "VIRQ_CLAIM" /\ HypercallVirqClaim
       \/ call = "VIRQ_COMPLETE" /\ \E virq \in VIRQ_Source : HypercallVirqComplete(virq)
       \/ call = "TIMER_DELAY_TICKS" /\ \E delay \in Delays : HypercallTimerDelay(delay)
       \/ UnknownCall(call) /\ hyp_halt

\* A pending virtual interrupt lets the WFI complete at once.
hv_scheduler_handle_wfi ==
    /\ GuestRuns
    /\ IF Cur.virq_pending # {}
       THEN UpdateCurVirqs(Cur)
       ELSE /\ hv_scheduler_advance([vcpus EXCEPT ![cur_idx] = hv_vcpu_block(@)])
            /\ UNCHANGED <<tim, gen, now, halted>>

\* An emulated MMIO access returns to the guest; every other stage-2 fault, and
\* an MMIO access that cannot be emulated, stops it (module Mmio decides which).
handle_guest_abort ==
    /\ GuestRuns
    /\ stop_current_guest_vcpu \/ UNCHANGED vars

\* Traps the handlers answer with HYP_ACTION_HALT or a failed assert.
UnhandledTrap == GuestRuns /\ hyp_halt

-----------------------------------------------------------------------------
(***************************************************************************)
(* Interrupts, the generic timer first.                                    *)
(***************************************************************************)
handle_irq_generic ==
    /\ ~ halted
    /\ gen
    /\ gen' = FALSE                        \* GEN_TIM_ack, GEN_TIM_rearm
    /\ hv_scheduler_advance(vcpus)
    /\ UNCHANGED <<tim, now, halted>>

Delivers(g) ==
    /\ vcpus[g].state \notin {"IDLE", "EXITED"}
    /\ hv_vcpu_timer_expired(vcpus[g], now)

\* A busy interrupt line advances the timer too.
deliver_expired_timers ==
    [i \in Vcpus |->
        IF i \in Guests /\ Delivers(i)
        THEN hv_vcpu_timer_advance(hv_virq_raise(vcpus[i], VIRQ_TIMER), now)
        ELSE vcpus[i]]

\* Returns to the idle vCPU even when the interrupt woke a guest.
Mutant_AfterDelivery(vs, delivered) ==
    /\ vcpus' = vs
    /\ hcr' = IF delivered THEN [hcr EXCEPT !.vi = VirqLine(vs[cur_idx])] ELSE hcr
    /\ UNCHANGED <<cur_idx, vttbr>>

AfterDelivery(vs, delivered) ==
    IF hv_scheduler_is_idle_idx(cur_idx)
    THEN hv_scheduler_advance(vs)
    ELSE /\ vcpus' = vs
         /\ hcr' = IF delivered THEN [hcr EXCEPT !.vi = VirqLine(vs[cur_idx])] ELSE hcr
         /\ UNCHANGED <<cur_idx, vttbr>>

handle_irq_bcm ==
    /\ ~ halted
    /\ ~ gen
    /\ TIM_Check_IRQ
    /\ hv_vtimer_rearm_physical(deliver_expired_timers)
    /\ AfterDelivery(deliver_expired_timers, \E g \in Guests : Delivers(g))
    /\ UNCHANGED <<gen, now, halted>>

\* Neither timer is pending, and no other source is expected.
UnexpectedIrq ==
    /\ ~ halted
    /\ ~ gen
    /\ ~ TIM_Check_IRQ
    /\ hyp_halt

-----------------------------------------------------------------------------
(***************************************************************************)
(* The hardware around Hyp.  An enabled timer interrupt is taken within    *)
(* MaxLatency ticks: guests cannot mask it (HCR.IMO) and handlers end.     *)
(***************************************************************************)
Tick ==
    /\ ~ halted
    /\ tim.irq_en => tim.count > - MaxLatency
    /\ now' = (now + 1) % TickWrap
    /\ tim' = IF tim.irq_en THEN [tim EXCEPT !.count = @ - 1] ELSE tim
    /\ UNCHANGED <<vcpus, cur_idx, hcr, vttbr, gen, halted>>

GenericTimerExpires ==
    /\ ~ halted
    /\ ~ gen
    /\ gen' = TRUE
    /\ UNCHANGED <<vcpus, cur_idx, hcr, vttbr, tim, now, halted>>

\* hyp_halt parks the core in a WFE loop for good.
HaltLoop == halted /\ UNCHANGED vars

-----------------------------------------------------------------------------
(***************************************************************************)
(* Boot, as the harnesses do it: hv_scheduler_init, hv_vcpu_init for each  *)
(* loaded guest, a periodic timer or none for all of them, guest 0 marked  *)
(* running, the physical timer armed, hv_vcpu_enter_initial.               *)
(***************************************************************************)
BootVcpu(loaded, period, i) ==
    IF i \notin loaded THEN EmptyVcpu
    ELSE [hv_vcpu_timer_start_periodic(hv_vcpu_init, 0, period)
             EXCEPT !.state = IF i = 0 THEN "RUNNING" ELSE "RUNNABLE"]

Init ==
    /\ \E loaded \in {{0}, Guests}, period \in Periods :
           vcpus = [i \in Vcpus |-> BootVcpu(loaded, period, i)]
    /\ cur_idx = 0
    /\ hcr = [vi |-> FALSE, twi |-> TRUE, vm |-> TRUE]
    /\ vttbr = 0
    /\ now = 0
    /\ tim = RearmedTimer(vcpus)
    /\ gen = FALSE
    /\ halted = FALSE

Next ==
    \/ \E call \in DeclaredCalls \cup {"UNDECLARED"} : hyp_handle_guest_hypercall(call)
    \/ hv_scheduler_handle_wfi
    \/ handle_guest_abort
    \/ UnhandledTrap
    \/ handle_irq_generic
    \/ handle_irq_bcm
    \/ UnexpectedIrq
    \/ Tick
    \/ GenericTimerExpires
    \/ HaltLoop

Spec == Init /\ [][Next]_vars

(***************************************************************************)
(* Nothing is assumed of guests.  The clock and the two timers run, and    *)
(* their interrupts are taken; the generic timer's period is far longer    *)
(* than a handler, so it cannot keep the BCM interrupt waiting for ever.   *)
(***************************************************************************)
Fairness ==
    /\ WF_vars(Tick)
    /\ WF_vars(GenericTimerExpires)
    /\ WF_vars(handle_irq_generic)
    /\ SF_vars(handle_irq_bcm)

FairSpec == Spec /\ Fairness

-----------------------------------------------------------------------------
(***************************************************************************)
(* Safety.                                                                 *)
(***************************************************************************)

\* The current vCPU is running and no other is, whatever path the handlers
\* took: hv_scheduler_switch_to, the early return of hv_scheduler_yield, an
\* exit, a block, a preemption, a wake from idle.
OneRunning == \A i \in Vcpus : vcpus[i].state = "RUNNING" <=> i = cur_idx

\* The core idles only when no guest can run: an interrupt that wakes a guest
\* while the idle vCPU is current must leave idle in the same handler.
WorkConserving ==
    hv_scheduler_is_idle_idx(cur_idx) => ~ hv_scheduler_has_runnable(vcpus)

\* HCR.VI, which is a register of the core and not of a vCPU, always shows the
\* pending bitmap of the guest that is running (hv_virq_sync).
VirqLineInSync == hcr.vi <=> vcpus[cur_idx].virq_pending # {}

\* A guest runs with its own stage-2 tables and with WFI trapped; the idle
\* vCPU runs with stage 2 off and its WFI untrapped.
MachineFollowsVcpu ==
    /\ hcr.twi <=> cur_idx \in Guests
    /\ hcr.vm <=> cur_idx \in Guests
    /\ cur_idx \in Guests => vttbr = cur_idx

\* One physical timer is enough for all guests: it fires no later than the
\* next virtual deadline (or at the next tick when that has passed), and is
\* disabled when no guest waits for it (hv_vtimer_rearm_physical).
PhysicalTimerCovers ==
    /\ \A g \in Armed(vcpus) :
          /\ tim.irq_en
          /\ tim.count <= 1 \/ tim.count <= vcpus[g].timer.deadline - now
    /\ Armed(vcpus) = {} => ~ tim.irq_en

\* No interrupt line of a vCPU is pending and active at once: hv_virq_raise
\* refuses a line the guest is still servicing.
LineNotNested ==
    \A i \in Vcpus : vcpus[i].virq_pending \cap vcpus[i].virq_active = {}

\* A vCPU that exited, by HYPERCALL_EXIT or by a fatal fault, stays exited and
\* nothing touches it again.  This is what the code does; the comment of
\* HV_VCPU_EXITED, include/hv/vcpu.h:15, says "exited, but can potentially run
\* again", and no function of the repository makes such a vCPU runnable: the one
\* that would, hv_vcpu_init, is called at boot only.
ExitIsFinal ==
    [][\A g \in Guests : vcpus[g].state = "EXITED" => vcpus'[g] = vcpus[g]]_vars

\* Slots after from at which the round-robin scan meets to.
ScanDistance(from, to) == (to - from) % HV_MAX_VCPUS

\* Round robin: a generic-timer interrupt, and any other switch, moves the
\* scan strictly towards every guest that is waiting for the core, so none is
\* passed over twice.
RoundRobin ==
    [][\A g \in Guests :
          /\ vcpus[g].state = "RUNNABLE"
          /\ cur_idx' # cur_idx \/ (gen /\ ~ gen')
          => ScanDistance(cur_idx', g) < ScanDistance(cur_idx, g)]_vars

\* A BCM timer interrupt leaves no expired virtual timer behind, however late
\* it was taken, so the handler never re-enters itself at once.
NoInterruptStorm ==
    [][handle_irq_bcm =>
          /\ ~ (tim'.irq_en /\ tim'.count <= 0)
          /\ \A g \in Armed(vcpus') : ~ hv_vcpu_timer_expired(vcpus'[g], now')]_vars

-----------------------------------------------------------------------------
(***************************************************************************)
(* Liveness, under FairSpec.                                               *)
(***************************************************************************)

\* No starvation: a runnable guest eventually runs, although the others never
\* give the core up.
RunnableRuns ==
    \A g \in Guests : vcpus[g].state = "RUNNABLE" ~> (cur_idx = g \/ halted)

Sleeps(g) == vcpus[g].state = "BLOCKED" /\ vcpus[g].timer.enabled

\* hv_virq_raise would not return HV_VIRQ_ERR_BUSY.
TimerLineFree(g) == ~ RaiseBusy(vcpus[g], VIRQ_TIMER)

\* The 32-bit clock passes the deadline before it wraps.
DeadlineReachable(g) == vcpus[g].timer.deadline + MaxLatency < TickWrap

\* A guest that sleeps (HYPERCALL_TIMER_DELAY_TICKS, or WFI with its timer on)
\* wakes up, provided its timer line is free and its deadline is reachable.
SleeperWakes ==
    \A g \in Guests :
        Sleeps(g) /\ TimerLineFree(g) /\ DeadlineReachable(g)
            ~> (vcpus[g].state # "BLOCKED" \/ halted)

-----------------------------------------------------------------------------
(***************************************************************************)
(* What the documentation says and the code does not do.                   *)
(***************************************************************************)

\* "raise a virtual IRQ to a vCPU and unblock it" (src/hv/virq.c): the expiry
\* of a sleeping guest's timer unblocks it whatever its interrupt bitmaps say.
ExpiryUnblocks ==
    \A g \in Guests :
        Sleeps(g) /\ DeadlineReachable(g)
            ~> (vcpus[g].state # "BLOCKED" \/ halted)

\* "a single physical timer is enough to wake Hyp exactly when the next virtual
\* timer is due" (docs/notes.MD): a virtual timer that is on always comes due,
\* also across a wrap of the tick counter.
TimerComesDue ==
    \A g \in Guests :
        Sleeps(g) /\ TimerLineFree(g)
            ~> (vcpus[g].state # "BLOCKED" \/ halted)
=============================================================================
