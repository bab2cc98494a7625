--------------------------- MODULE GuestPrograms ----------------------------
(***************************************************************************)
(* The repository's guest programs (guests/*.c, guests/guest-vectors.S)    *)
(* running on the hypervisor, as the harnesses under tests/ boot them.     *)
(* Module Hypervisor lets a guest call anything at any time; here every    *)
(* guest step is an instruction of its program, and what is asked is       *)
(* whether the programs get what they wait for.                            *)
(*                                                                         *)
(* HCR.VI changes in Hyp only, and the return to the guest is a context-   *)
(* synchronizing event: an unmasked virtual interrupt is taken before the  *)
(* guest's next instruction.  Hypercalls that only return a value, printk  *)
(* and the virtual UART (module Mmio) do not appear as steps.              *)
(*                                                                         *)
(* Times are kept relative to now, which stays 0: the clock of this module *)
(* never wraps (the wrap is the subject of TimerComesDue in Hypervisor),   *)
(* and programs that run for ever have finitely many states.               *)
(***************************************************************************)
EXTENDS Hypervisor

CONSTANTS
    Target,       \* GUEST_TIMER_TARGET_TICKS (100), and 300 of virq-main.c
    Rounds,       \* iterations of the loops of sched-main.c and mmio-uart-main.c (10)
    DelayTicks,   \* guest_timer_delay_millis(2000)
    TimerPeriod   \* USEC_PER_SEC / GUEST_TIMER_HZ of the harnesses

ASSUME GuestAssumption ==
    {Target, Rounds, DelayTicks, TimerPeriod} \subseteq Nat \ {0}

VARIABLES
    harness,   \* the test that booted the machine
    guest,     \* each guest's own registers and memory
    uncounted, \* history: timer interrupts raised to a guest and not yet counted
    due        \* history: ticks left of the delay a guest asked for

gvars == <<harness, guest, uncounted, due>>

(***************************************************************************)
(* tests/test-guest-*.c: the program in the loaded slots, the period of    *)
(* its virtual timer (0: never started) and whether GEN_TIM_enable was     *)
(* called.                                                                 *)
(***************************************************************************)
Harnesses ==
    {[program |-> "timer", loaded |-> Guests, period |-> TimerPeriod, preempts |-> TRUE],
     [program |-> "virq",  loaded |-> {0},    period |-> TimerPeriod, preempts |-> TRUE],
     [program |-> "sched", loaded |-> Guests, period |-> 0, preempts |-> FALSE],
     [program |-> "mmio",  loaded |-> Guests, period |-> 0, preempts |-> TRUE],
     [program |-> "fault", loaded |-> Guests, period |-> 0, preempts |-> FALSE],
     [program |-> "main",  loaded |-> {0},    period |-> 0, preempts |-> FALSE]}

\* The programs that define guest_irq_handler; the others get the weak one.
Handles(program) == program \in {"timer", "virq"}

\* Bound of the tick counter: the program compares it with no larger number.
MaxTicks == IF harness.program = "virq" THEN 2 * Target ELSE Target

\* Registers and memory at _guest_start: IRQs masked (HYP_LOWER_SVC_CPSR).
GuestStart == [pc |-> "start", irq_masked |-> TRUE, lr_irq |-> "start",
               virq |-> NoPending, ticks |-> 0, i |-> 0, disturbed |-> FALSE]

-----------------------------------------------------------------------------
TakesIrq(g) == hcr.vi /\ ~ guest[g].irq_masked

\* Guest g is about to execute the instruction at pc.
At(g, pc) == GuestRuns /\ cur_idx = g /\ guest[g].pc = pc /\ ~ TakesIrq(g)

Becomes(g, next) == guest' = [guest EXCEPT ![g] = next] /\ UNCHANGED harness

Goto(g, pc) == Becomes(g, [guest[g] EXCEPT !.pc = pc])

\* The vector, up to the call of guest_irq_handler.
guest_irq(g) ==
    /\ GuestRuns /\ cur_idx = g /\ TakesIrq(g)
    /\ Becomes(g, [guest[g] EXCEPT
                      !.pc = IF Handles(harness.program) THEN "claim" ELSE "fail",
                      !.lr_irq = guest[g].pc, !.irq_masked = TRUE])
    /\ UNCHANGED <<vars, uncounted, due>>

\* guest_virq_claim: the result goes to the loop's condition.
Claim(g, claimed, empty) ==
    /\ Becomes(g, IF ClaimedVirq(Cur) >= 0
                  THEN [guest[g] EXCEPT !.pc = claimed, !.virq = ClaimedVirq(Cur)]
                  ELSE empty)
    /\ HypercallVirqClaim
    /\ UNCHANGED <<uncounted, due>>

\* subs pc, lr, #0: back to the interrupted instruction, with CPSR from SPSR_irq.
\* Values that are no longer used are cleared.
Returned(r) == [r EXCEPT !.pc = r.lr_irq, !.irq_masked = FALSE, !.lr_irq = "start",
                          !.disturbed = FALSE]

\* guest_timer_ticks after the handler has looked at the line it claimed.
NextTicks(r) ==
    IF r.virq = VIRQ_TIMER /\ r.ticks < MaxTicks THEN r.ticks + 1 ELSE r.ticks

\* The claim loop of guest_irq_handler and, once it ends, the return of guest_irq.
guest_irq_handler(g) ==
    \/ /\ At(g, "claim")
       /\ Claim(g, "complete", Returned(guest[g]))
    \/ /\ At(g, "complete")
       /\ Becomes(g, [guest[g] EXCEPT !.pc = "claim", !.virq = NoPending,
                                      !.ticks = NextTicks(guest[g])])
       /\ uncounted' = [uncounted EXCEPT ![g] = @ - 1]
       /\ HypercallVirqComplete(guest[g].virq)
       /\ UNCHANGED due

guest_exit(g) ==
    \E pc \in {"exit", "fail"} :
        At(g, pc) /\ Goto(g, "done") /\ stop_current_guest_vcpu
        /\ UNCHANGED <<uncounted, due>>

guest_timer_delay(g, pc) ==
    /\ Goto(g, pc)
    /\ HypercallTimerDelay(DelayTicks)
    /\ due' = [due EXCEPT ![g] = DelayTicks]
    /\ UNCHANGED uncounted

-----------------------------------------------------------------------------
\* guests/timer-main.c.  The test of guest_timer_ticks and the WFI that follows
\* are two steps: an interrupt may be taken between them.
timer_main(g) ==
    \/ /\ At(g, "start")
       /\ Becomes(g, [guest[g] EXCEPT !.pc = "delay", !.irq_masked = FALSE])
       /\ UNCHANGED <<vars, uncounted, due>>
    \/ At(g, "delay") /\ guest_timer_delay(g, "loop")
    \/ /\ At(g, "loop")
       /\ Goto(g, IF guest[g].ticks < Target THEN "wfi" ELSE "exit")
       /\ UNCHANGED <<vars, uncounted, due>>
    \/ At(g, "wfi") /\ Goto(g, "loop") /\ hv_scheduler_handle_wfi
       /\ UNCHANGED <<uncounted, due>>

\* guests/virq-main.c: two busy waits, each of them left once its target is met.
virq_main(g) ==
    \/ /\ At(g, "start")
       /\ Becomes(g, [guest[g] EXCEPT !.pc = "loop", !.irq_masked = FALSE])
       /\ UNCHANGED <<vars, uncounted, due>>
    \/ /\ At(g, "loop")
       /\ guest[g].ticks >= Target * (guest[g].i + 1)
       /\ Becomes(g, [guest[g] EXCEPT !.pc = IF guest[g].i = 0 THEN "loop" ELSE "exit",
                                      !.i = 1])
       /\ UNCHANGED <<vars, uncounted, due>>

\* guests/sched-main.c.
sched_main(g) ==
    /\ At(g, "start")
    /\ UNCHANGED <<uncounted, due>>
    /\ \/ /\ guest[g].i < Rounds
          /\ Becomes(g, [guest[g] EXCEPT !.i = @ + 1])
          /\ hv_scheduler_yield
       \/ /\ guest[g].i = Rounds
          /\ Goto(g, "exit")
          /\ UNCHANGED vars

\* guests/mmio-uart-main.c: sleeps with IRQs masked and clears the interrupt
\* that woke it by hand (complete_pending_virqs).
mmio_main(g) ==
    \/ /\ At(g, "start")
       /\ IF guest[g].i < Rounds THEN guest_timer_delay(g, "drain")
          ELSE Goto(g, "exit") /\ UNCHANGED <<vars, uncounted, due>>
    \/ /\ At(g, "drain")
       /\ Claim(g, "drained", [guest[g] EXCEPT !.pc = "start", !.i = @ + 1])
    \/ /\ At(g, "drained")
       /\ Becomes(g, [guest[g] EXCEPT !.pc = "drain", !.virq = NoPending])
       /\ HypercallVirqComplete(guest[g].virq)
       /\ UNCHANGED <<uncounted, due>>

\* guests/stage2-fault-main.c: the guard page has no stage-2 mapping.
fault_main(g) ==
    /\ At(g, "start")
    /\ Goto(g, "done")
    /\ stop_current_guest_vcpu
    /\ UNCHANGED <<uncounted, due>>

\* guests/main.c.
hello_main(g) == At(g, "start") /\ Goto(g, "exit") /\ UNCHANGED <<vars, uncounted, due>>

guest_main(g) ==
    \/ harness.program = "timer" /\ timer_main(g)
    \/ harness.program = "virq" /\ virq_main(g)
    \/ harness.program = "sched" /\ sched_main(g)
    \/ harness.program = "mmio" /\ mmio_main(g)
    \/ harness.program = "fault" /\ fault_main(g)
    \/ harness.program = "main" /\ hello_main(g)

GuestStep(g) ==
    guest_irq(g) \/ guest_irq_handler(g) \/ guest_main(g) \/ guest_exit(g)

-----------------------------------------------------------------------------
\* Only the BCM timer raises virtual interrupts.
TimerInterrupt ==
    /\ handle_irq_bcm
    /\ uncounted' = [g \in Guests |->
                       IF /\ Handles(harness.program)
                          /\ VIRQ_TIMER \in vcpus'[g].virq_pending \ vcpus[g].virq_pending
                       THEN uncounted[g] + 1 ELSE uncounted[g]]
    /\ UNCHANGED <<harness, guest, due>>

Preemption == handle_irq_generic /\ UNCHANGED gvars

(***************************************************************************)
(* A bound: the claim loop takes microseconds, a period of the guests'     *)
(* timers 3.3 ms (GUEST_TIMER_HZ is 300) and a slice 10 ms, so a running   *)
(* handler meets at most one tick or slice end.                            *)
(***************************************************************************)
Disturbs ==
    IF cur_idx \in Guests /\ guest[cur_idx].pc \in {"claim", "complete"}
    THEN /\ ~ guest[cur_idx].disturbed
         /\ guest' = [guest EXCEPT ![cur_idx].disturbed = TRUE]
    ELSE UNCHANGED guest

\* Hypervisor's Tick, with the times counted from the new tick on.
ClockTick ==
    /\ Disturbs
    /\ tim.irq_en => tim.count > - MaxLatency
    /\ tim' = IF tim.irq_en THEN [tim EXCEPT !.count = @ - 1] ELSE tim
    /\ vcpus' = [i \in Vcpus |->
                    IF vcpus[i].timer.enabled
                    THEN [vcpus[i] EXCEPT !.timer.deadline = @ - 1] ELSE vcpus[i]]
    /\ due' = [g \in Guests |-> IF due[g] > 0 THEN due[g] - 1 ELSE 0]
    /\ UNCHANGED <<cur_idx, hcr, vttbr, gen, now, halted, harness, uncounted>>

PreemptionTimer ==
    /\ harness.preempts
    /\ GenericTimerExpires
    /\ Disturbs
    /\ UNCHANGED <<harness, uncounted, due>>

\* main of the harness.
Boot(h) ==
    /\ harness = h
    /\ vcpus = [i \in Vcpus |-> BootVcpu(h.loaded, h.period, i)]

GuestInit ==
    /\ \E h \in Harnesses : Boot(h)
    /\ cur_idx = 0
    /\ hcr = [vi |-> FALSE, twi |-> TRUE, vm |-> TRUE]
    /\ vttbr = 0
    /\ now = 0
    /\ tim = RearmedTimer(vcpus)
    /\ gen = FALSE
    /\ halted = FALSE
    /\ guest = [g \in Guests |-> GuestStart]
    /\ uncounted = [g \in Guests |-> 0]
    /\ due = [g \in Guests |-> 0]

GuestNext ==
    \/ \E g \in Guests : GuestStep(g)
    \/ TimerInterrupt
    \/ Preemption
    \/ ClockTick
    \/ PreemptionTimer

allvars == <<vars, gvars>>

(***************************************************************************)
(* A guest that keeps getting the core executes its program: a slice of    *)
(* the generic timer (10 ms) and a period of the virtual timer are far     *)
(* longer than the interrupt handler.  That slices end is not assumed: the *)
(* programs give the core up themselves.                                   *)
(***************************************************************************)
GuestFairness ==
    /\ WF_allvars(ClockTick)
    /\ WF_allvars(Preemption)
    /\ SF_allvars(TimerInterrupt)
    /\ \A g \in Guests : /\ SF_allvars(guest_irq(g) \/ guest_irq_handler(g))
                         /\ SF_allvars(guest_main(g) \/ guest_exit(g))

GuestSpec == GuestInit /\ [][GuestNext]_allvars /\ GuestFairness

-----------------------------------------------------------------------------
\* No timer interrupt is lost between hv_virq_raise and the guest's counter, and
\* none is counted twice: each one raised has been counted, is pending, or is
\* the one the handler is working on.
InterruptsCounted ==
    \A g \in Guests :
        Handles(harness.program) =>
            uncounted[g] = (IF hv_virq_is_pending(vcpus[g], VIRQ_TIMER) THEN 1 ELSE 0)
                           + (IF guest[g].pc = "complete" THEN 1 ELSE 0)

\* A guest that asked for a delay is not woken before it is over, although its
\* periodic timer would have fired earlier (hv_vcpu_timer_delay).
DelayLasts ==
    [][\A g \in Guests :
          vcpus[g].state = "BLOCKED" /\ vcpus'[g].state # "BLOCKED" => due[g] = 0]_allvars

\* Every guest program ends, whatever the timers and the other guests do: no
\* wake-up is missed between the test of the tick counter and the WFI, no
\* interrupt line stays busy, no delay is forgotten.
GuestsFinish ==
    \A g \in Guests : <>(g \in harness.loaded => vcpus[g].state = "EXITED")
=============================================================================
