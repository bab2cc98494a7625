-------------------------------- MODULE Vcpu --------------------------------
(***************************************************************************)
(* The virtual CPU object of src/hv/vcpu.c: its scheduling state, its two  *)
(* virtual-interrupt bitmaps and its virtual timer.  Each operator is the  *)
(* function of the same name, written as a map from the vCPU before the    *)
(* call to the vCPU after it; the saved register context is the subject of *)
(* module VcpuContext.                                                     *)
(***************************************************************************)
EXTENDS Integers

CONSTANT HV_MAX_VIRQS      \* number of virtual interrupt lines of a vCPU

ASSUME VirqAssumption == HV_MAX_VIRQS \in Nat \ {0}

-----------------------------------------------------------------------------
VIRQ_Source == 0 .. HV_MAX_VIRQS - 1

VIRQ_TIMER == 0

HvVcpuState == {"IDLE", "RUNNABLE", "RUNNING", "BLOCKED", "EXITED"}

\* Deadlines and periods are uint64_t counts of system-timer ticks.
HvVcpuTimer == [enabled : BOOLEAN, deadline : Nat, period : Nat]

HvVcpu == [state        : HvVcpuState,
           virq_pending : SUBSET VIRQ_Source,
           virq_active  : SUBSET VIRQ_Source,
           timer        : HvVcpuTimer]

TimerOff == [enabled |-> FALSE, deadline |-> 0, period |-> 0]

\* hv_scheduler_init leaves every slot of the vCPU table like this.
EmptyVcpu == [state |-> "IDLE", virq_pending |-> {}, virq_active |-> {},
              timer |-> TimerOff]

-----------------------------------------------------------------------------
\* Zeroes the whole object and marks it ready to run.
hv_vcpu_init == [EmptyVcpu EXCEPT !.state = "RUNNABLE"]

hv_vcpu_block(v) == [v EXCEPT !.state = "BLOCKED"]

hv_vcpu_wake(v) ==
    IF v.state = "BLOCKED" THEN [v EXCEPT !.state = "RUNNABLE"] ELSE v

-----------------------------------------------------------------------------
\* A zero period leaves the timer as it is.
hv_vcpu_timer_start_periodic(v, now, period) ==
    IF period = 0 THEN v
    ELSE [v EXCEPT !.timer = [enabled  |-> TRUE,
                              deadline |-> now + period,
                              period   |-> period]]

hv_vcpu_timer_disable(v) == [v EXCEPT !.timer = TimerOff]

hv_vcpu_timer_expired(v, now) == v.timer.enabled /\ now >= v.timer.deadline

(***************************************************************************)
(* The deadline that the do-while loop of hv_vcpu_timer_advance leaves:    *)
(* whole periods are added, at least one, until it lies after now.         *)
(***************************************************************************)
MissedPeriods(t, now) ==
    IF now >= t.deadline THEN (now - t.deadline) \div t.period ELSE 0

\* The loop with its condition dropped: one period per interrupt, however late.
Mutant_NextDeadline(t, now) == t.deadline + t.period

NextDeadline(t, now) ==
    t.deadline + t.period * (MissedPeriods(t, now) + 1)

hv_vcpu_timer_advance(v, now) ==
    IF ~ v.timer.enabled THEN v
    ELSE IF v.timer.period = 0 THEN hv_vcpu_timer_disable(v)
    ELSE [v EXCEPT !.timer.deadline = NextDeadline(v.timer, now)]

\* The delay is taken for a one-shot: it clears the period.
Mutant_DelayOneShot(v, now, delay_ticks) ==
    IF delay_ticks = 0 THEN v
    ELSE hv_vcpu_block([v EXCEPT !.timer = [enabled |-> TRUE, period |-> 0,
                                            deadline |-> now + delay_ticks]])

\* A periodic timer that is already on keeps its deadline.
Mutant_DelayKeepsDeadline(v, now, delay_ticks) ==
    IF delay_ticks = 0 THEN v
    ELSE IF v.timer.enabled THEN hv_vcpu_block(v)
    ELSE hv_vcpu_block([v EXCEPT !.timer.enabled = TRUE,
                                 !.timer.deadline = now + delay_ticks])

\* The period of a periodic timer survives a delay: only its deadline moves.
hv_vcpu_timer_delay(v, now, delay_ticks) ==
    IF delay_ticks = 0 THEN v
    ELSE hv_vcpu_block([v EXCEPT !.timer.enabled = TRUE,
                                 !.timer.deadline = now + delay_ticks])
=============================================================================
