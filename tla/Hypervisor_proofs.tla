-------------------------- MODULE Hypervisor_proofs --------------------------
(***************************************************************************)
(* Proofs that the safety invariants of module Hypervisor hold for every   *)
(* number of guests, interrupt lines, ticks, periods and delays.  IInv is  *)
(* the conjunction of the invariants; it is inductive because each handler *)
(* passes on, through hv_scheduler_advance or back to the same guest, a    *)
(* vCPU table in which only the current vCPU may be running and whose      *)
(* timers the physical timer covers.                                       *)
(***************************************************************************)
EXTENDS Hypervisor, TLAPS, NaturalsInduction, WellFoundedInduction

\* Every non-empty set of naturals has a least member: the scans of
\* hv_scheduler_pick_next_idx, hv_vtimer_rearm_physical and hv_virq_claim stop.
LEMMA NatMin ==
    ASSUME NEW S \in SUBSET Nat, S # {}
    PROVE  \E x \in S : \A y \in S : x <= y
<1>. DEFINE R == {ss \in Nat \X Nat : ss[1] < ss[2]}
<1>1. IsWellFoundedOn(R, Nat)
  BY NatLessThanWellFounded DEF OpToRel
<1>2. \E x \in S : \A y \in S : ~ (<<y, x>> \in R)
  <2>. HIDE DEF R
  <2>. QED BY <1>1, WFMin
<1>3. PICK x \in S : \A y \in S : ~ (<<y, x>> \in R)
  BY <1>2
<1>4. ASSUME NEW y \in S PROVE x <= y
  <2>1. x \in Nat /\ y \in Nat
    OBVIOUS
  <2>2. <<y, x>> \notin R
    BY <1>3
  <2>3. ~ (y < x)
    BY <2>1, <2>2
  <2>. QED BY <2>1, <2>3
<1>. QED BY <1>4

\* The modular slot arithmetic of hv_scheduler_pick_next_idx within one lap.
LEMMA ModSmall ==
    ASSUME NEW M \in Nat \ {0}, NEW x \in 0 .. M - 1
    PROVE  x % M = x /\ (x + M) % M = x
  OBVIOUS

\* A remainder lies below its modulus: slot indices and the wrapping clock.
LEMMA ModRange ==
    ASSUME NEW M \in Nat \ {0}, NEW x \in Nat
    PROVE  x % M \in 0 .. M - 1
  OBVIOUS

\* The deadline that the loop of hv_vcpu_timer_advance leaves is in the future.
LEMMA NextDeadlineType ==
    ASSUME NEW t \in HvVcpuTimer, NEW n \in Nat, t.period # 0
    PROVE  NextDeadline(t, n) \in Nat /\ n < NextDeadline(t, n)
  BY DEF NextDeadline, MissedPeriods, HvVcpuTimer

-----------------------------------------------------------------------------
Typed(vs) == vs \in [Vcpus -> HvVcpu]

OnlyCurRuns(vs) == \A i \in Vcpus : vs[i].state = "RUNNING" => i = cur_idx

Disjoint(vs) == \A i \in Vcpus : vs[i].virq_pending \cap vs[i].virq_active = {}

SameTimers(vs, ws) ==
    \A g \in Guests : /\ ws[g].timer = vs[g].timer
                      /\ ws[g].state \in {"IDLE", "EXITED"} <=>
                         vs[g].state \in {"IDLE", "EXITED"}

SameVirqs(vs, ws) ==
    \A i \in Vcpus : /\ ws[i].virq_pending = vs[i].virq_pending
                     /\ ws[i].virq_active = vs[i].virq_active

Covers(vs, t) ==
    /\ \A g \in Armed(vs) :
          t.irq_en /\ (t.count <= 1 \/ t.count <= vs[g].timer.deadline - now)
    /\ Armed(vs) = {} => ~ t.irq_en

IInv == /\ TypeOK
        /\ OneRunning
        /\ WorkConserving
        /\ VirqLineInSync
        /\ MachineFollowsVcpu
        /\ PhysicalTimerCovers
        /\ LineNotNested

-----------------------------------------------------------------------------
\* The guest slots are the slots other than the idle one, and 0 is a guest.
LEMMA Indices ==
    /\ Guests \subseteq Vcpus
    /\ HV_IDLE_VCPU_IDX \in Vcpus
    /\ \A i \in Vcpus : i \in Guests <=> i # HV_IDLE_VCPU_IDX
    /\ None \notin Vcpus
    /\ 0 \in Guests
  BY HypervisorAssumption DEF Guests, Vcpus, HV_IDLE_VCPU_IDX, None

\* Assigning vcpu->state changes that field of that vCPU and nothing else.
LEMMA SetStateFacts ==
    ASSUME NEW vs, Typed(vs), NEW i \in Vcpus, NEW st \in HvVcpuState
    PROVE  /\ Typed(SetState(vs, i, st))
           /\ \A j \in Vcpus :
                 /\ SetState(vs, i, st)[j].state = IF j = i THEN st ELSE vs[j].state
                 /\ SetState(vs, i, st)[j].timer = vs[j].timer
                 /\ SetState(vs, i, st)[j].virq_pending = vs[j].virq_pending
                 /\ SetState(vs, i, st)[j].virq_active = vs[j].virq_active
  BY DEF SetState, Typed, HvVcpu

\* The first half of hv_scheduler_switch_to and hv_scheduler_advance: afterwards
\* nobody runs, and timers and interrupt bitmaps are as they were.
LEMMA DescheduleFacts ==
    ASSUME NEW vs, Typed(vs), cur_idx \in Vcpus, OnlyCurRuns(vs)
    PROVE  /\ Typed(Deschedule(vs))
           /\ \A i \in Vcpus : Deschedule(vs)[i].state # "RUNNING"
           /\ \A i \in Vcpus \ {cur_idx} : Deschedule(vs)[i].state = vs[i].state
           /\ SameTimers(vs, Deschedule(vs))
           /\ SameVirqs(vs, Deschedule(vs))
<1>. DEFINE st == IF hv_scheduler_is_idle_idx(cur_idx) THEN "IDLE" ELSE "RUNNABLE"
<1>1. st \in HvVcpuState /\ (cur_idx \in Guests => st = "RUNNABLE") /\ st # "RUNNING"
  BY Indices DEF HvVcpuState, hv_scheduler_is_idle_idx
<1>2. CASE vs[cur_idx].state = "RUNNING"
  <2>1. Deschedule(vs) = SetState(vs, cur_idx, st)
    BY <1>2 DEF Deschedule
  <2>. HIDE DEF st
  <2>2. /\ Typed(Deschedule(vs))
        /\ \A j \in Vcpus :
              /\ Deschedule(vs)[j].state = IF j = cur_idx THEN st ELSE vs[j].state
              /\ Deschedule(vs)[j].timer = vs[j].timer
              /\ Deschedule(vs)[j].virq_pending = vs[j].virq_pending
              /\ Deschedule(vs)[j].virq_active = vs[j].virq_active
    BY <1>1, <2>1, SetStateFacts
  <2>3. SameTimers(vs, Deschedule(vs))
    <3>. SUFFICES ASSUME NEW g \in Guests
                  PROVE  /\ Deschedule(vs)[g].timer = vs[g].timer
                         /\ Deschedule(vs)[g].state \in {"IDLE", "EXITED"} <=>
                            vs[g].state \in {"IDLE", "EXITED"}
      BY DEF SameTimers
    <3>. QED BY <1>1, <1>2, <2>2, Indices
  <2>4. SameVirqs(vs, Deschedule(vs))
    BY <2>2 DEF SameVirqs
  <2>5. \A i \in Vcpus : Deschedule(vs)[i].state # "RUNNING"
    BY <1>1, <2>2 DEF OnlyCurRuns
  <2>. QED BY <2>2, <2>3, <2>4, <2>5
<1>3. CASE vs[cur_idx].state # "RUNNING"
  BY <1>3 DEF Deschedule, SameTimers, SameVirqs, OnlyCurRuns
<1>. QED BY <1>2, <1>3

\* hv_scheduler_pick_next_idx finds a runnable guest whenever there is one.
LEMMA PickNext ==
    ASSUME NEW vs, cur_idx \in Vcpus
    PROVE  \/ hv_scheduler_pick_next_idx(vs) = None /\ ~ hv_scheduler_has_runnable(vs)
           \/ /\ hv_scheduler_pick_next_idx(vs) \in Guests
              /\ vs[hv_scheduler_pick_next_idx(vs)].state = "RUNNABLE"
<1>1. HV_MAX_VCPUS \in Nat \ {0} /\ Vcpus = 0 .. HV_MAX_VCPUS - 1
  BY HypervisorAssumption DEF HV_MAX_VCPUS, Vcpus
<1>2. \A o \in 1 .. HV_MAX_VCPUS : ScanIdx(o) \in Vcpus
  BY <1>1, ModRange DEF ScanIdx
<1>3. CASE RunnableOffsets(vs) = {}
  <2>1. ASSUME NEW g \in Guests PROVE vs[g].state # "RUNNABLE"
    <3>1. g \in Vcpus /\ ~ hv_scheduler_is_idle_idx(g)
      BY Indices DEF hv_scheduler_is_idle_idx
    <3>2. PICK o \in 1 .. HV_MAX_VCPUS : cur_idx + o = g \/ cur_idx + o = g + HV_MAX_VCPUS
      <4>1. CASE cur_idx < g
        <5>1. g - cur_idx \in 1 .. HV_MAX_VCPUS /\ cur_idx + (g - cur_idx) = g
          BY <1>1, <3>1, <4>1
        <5>. QED BY <5>1
      <4>2. CASE ~ (cur_idx < g)
        <5>1. /\ g - cur_idx + HV_MAX_VCPUS \in 1 .. HV_MAX_VCPUS
              /\ cur_idx + (g - cur_idx + HV_MAX_VCPUS) = g + HV_MAX_VCPUS
          BY <1>1, <3>1, <4>2
        <5>. QED BY <5>1
      <4>. QED BY <4>1, <4>2
    <3>3. ScanIdx(o) = g
      BY <1>1, <3>1, <3>2, ModSmall DEF ScanIdx
    <3>. QED BY <1>3, <3>1, <3>3 DEF RunnableOffsets
  <2>. QED BY <1>3, <2>1 DEF hv_scheduler_pick_next_idx, hv_scheduler_has_runnable
<1>4. CASE RunnableOffsets(vs) # {}
  <2>1. RunnableOffsets(vs) \in SUBSET Nat
    BY DEF RunnableOffsets
  <2>2. PICK o \in RunnableOffsets(vs) : \A p \in RunnableOffsets(vs) : o <= p
    BY <1>4, <2>1, NatMin
  <2>3. (CHOOSE q \in RunnableOffsets(vs) : \A p \in RunnableOffsets(vs) : q <= p)
           \in RunnableOffsets(vs)
    BY <2>2
  <2>4. \E q \in RunnableOffsets(vs) : hv_scheduler_pick_next_idx(vs) = ScanIdx(q)
    BY <1>4, <2>3 DEF hv_scheduler_pick_next_idx
  <2>. QED
    BY <1>2, <2>4, Indices DEF RunnableOffsets, hv_scheduler_is_idle_idx
<1>. QED BY <1>3, <1>4

\* What a switch establishes, apart from WorkConserving.
Switched(vs) ==
    /\ Typed(vcpus')
    /\ cur_idx' \in Vcpus
    /\ hcr' \in [vi : BOOLEAN, twi : BOOLEAN, vm : BOOLEAN]
    /\ vttbr' \in Guests
    /\ OneRunning'
    /\ VirqLineInSync'
    /\ MachineFollowsVcpu'
    /\ SameTimers(vs, vcpus')
    /\ SameVirqs(vs, vcpus')

\* hv_scheduler_switch_to leaves exactly its target running, with the machine
\* registers that belong to it.
LEMMA SwitchTo ==
    ASSUME NEW vs, Typed(vs), cur_idx \in Vcpus, vttbr \in Guests, OnlyCurRuns(vs),
           NEW next \in Vcpus, next \in Guests => vs[next].state = "RUNNABLE",
           hv_scheduler_switch_to(vs, next)
    PROVE  /\ Switched(vs)
           /\ cur_idx' = next
           /\ \A i \in Vcpus \ {next} : vcpus'[i].state = Deschedule(vs)[i].state
<1>. DEFINE ws == Deschedule(vs)
<1>1. /\ Typed(ws)
      /\ \A i \in Vcpus : ws[i].state # "RUNNING"
      /\ \A i \in Vcpus \ {cur_idx} : ws[i].state = vs[i].state
      /\ SameTimers(vs, ws)
      /\ SameVirqs(vs, ws)
  BY DescheduleFacts
<1>2. "RUNNING" \in HvVcpuState
  BY DEF HvVcpuState
<1>3. vcpus' = SetState(ws, next, "RUNNING") /\ cur_idx' = next
  BY DEF hv_scheduler_switch_to
<1>4. /\ hcr'.vi = VirqLine(vs[next])
      /\ hcr'.twi = ~ hv_scheduler_is_idle_idx(next)
      /\ hcr'.vm = ~ hv_scheduler_is_idle_idx(next)
      /\ hcr' \in [vi : BOOLEAN, twi : BOOLEAN, vm : BOOLEAN]
      /\ vttbr' = IF hv_scheduler_is_idle_idx(next) THEN vttbr ELSE next
  BY DEF hv_scheduler_switch_to, VirqLine, hv_scheduler_is_idle_idx
<1>. HIDE DEF ws
<1>5. /\ Typed(vcpus')
      /\ \A j \in Vcpus :
            /\ vcpus'[j].state = IF j = next THEN "RUNNING" ELSE ws[j].state
            /\ vcpus'[j].timer = ws[j].timer
            /\ vcpus'[j].virq_pending = ws[j].virq_pending
            /\ vcpus'[j].virq_active = ws[j].virq_active
  BY <1>1, <1>2, <1>3, SetStateFacts
<1>6. OneRunning'
  BY <1>1, <1>3, <1>5 DEF OneRunning
<1>7. SameVirqs(vs, vcpus')
  BY <1>1, <1>5 DEF SameVirqs
<1>8. VirqLineInSync'
  BY <1>3, <1>4, <1>7 DEF VirqLineInSync, VirqLine, SameVirqs
<1>9. MachineFollowsVcpu' /\ vttbr' \in Guests
  BY <1>3, <1>4, Indices DEF MachineFollowsVcpu, hv_scheduler_is_idle_idx
<1>10. SameTimers(vs, vcpus')
  <2>. SUFFICES ASSUME NEW g \in Guests
                PROVE  /\ vcpus'[g].timer = vs[g].timer
                       /\ vcpus'[g].state \in {"IDLE", "EXITED"} <=>
                          vs[g].state \in {"IDLE", "EXITED"}
    BY DEF SameTimers
  <2>1. g \in Vcpus
    BY Indices
  <2>2. CASE g = next
    BY <1>1, <1>5, <2>1, <2>2 DEF SameTimers
  <2>3. CASE g # next
    BY <1>1, <1>5, <2>1, <2>3 DEF SameTimers
  <2>. QED BY <2>2, <2>3
<1>. QED
  BY <1>3, <1>4, <1>5, <1>6, <1>7, <1>8, <1>9, <1>10 DEF Switched, ws

\* The two frame conditions compose.
LEMMA SameTransitive ==
    ASSUME NEW vs, NEW ws, NEW xs
    PROVE  /\ SameTimers(vs, ws) /\ SameTimers(ws, xs) => SameTimers(vs, xs)
           /\ SameVirqs(vs, ws) /\ SameVirqs(ws, xs) => SameVirqs(vs, xs)
  BY DEF SameTimers, SameVirqs

\* hv_scheduler_advance leaves exactly one vCPU running, and idles only when no
\* guest is runnable.
LEMMA Advance ==
    ASSUME NEW vs, Typed(vs), cur_idx \in Vcpus, vttbr \in Guests, OnlyCurRuns(vs),
           hv_scheduler_advance(vs)
    PROVE  Switched(vs) /\ WorkConserving'
<1>. DEFINE ws   == Deschedule(vs)
            next == hv_scheduler_pick_next_idx(ws)
<1>1. /\ Typed(ws)
      /\ \A i \in Vcpus : ws[i].state # "RUNNING"
      /\ SameTimers(vs, ws)
      /\ SameVirqs(vs, ws)
      /\ OnlyCurRuns(ws)
  BY DescheduleFacts DEF OnlyCurRuns
<1>2. Deschedule(ws) = ws
  BY <1>1 DEF Deschedule
<1>3. \/ next = None /\ ~ hv_scheduler_has_runnable(ws)
      \/ next \in Guests /\ ws[next].state = "RUNNABLE"
  BY <1>1, PickNext
<1>4. IF next = None THEN hv_scheduler_enter_idle(ws) ELSE hv_scheduler_switch_to(ws, next)
  BY DEF hv_scheduler_advance
<1>. HIDE DEF ws, next
<1>5. CASE next = None
  <2>1. ~ hv_scheduler_has_runnable(ws)
    BY <1>3, <1>5, Indices
  <2>2. hv_scheduler_switch_to(ws, HV_IDLE_VCPU_IDX)
    BY <1>4, <1>5 DEF hv_scheduler_enter_idle
  <2>3. /\ Switched(ws)
        /\ \A i \in Vcpus \ {HV_IDLE_VCPU_IDX} : vcpus'[i].state = ws[i].state
    BY <1>1, <1>2, <2>2, SwitchTo, Indices
  <2>4. WorkConserving'
    BY <2>1, <2>3, Indices DEF WorkConserving, hv_scheduler_has_runnable
  <2>. QED
    BY <1>1, <2>3, <2>4, SameTransitive DEF Switched
<1>6. CASE next # None
  <2>1. next \in Guests /\ ws[next].state = "RUNNABLE" /\ next \in Vcpus
    BY <1>3, <1>6, Indices
  <2>2. hv_scheduler_switch_to(ws, next)
    BY <1>4, <1>6
  <2>3. Switched(ws) /\ cur_idx' = next
    BY <1>1, <2>1, <2>2, SwitchTo
  <2>4. WorkConserving'
    BY <2>1, <2>3, Indices DEF WorkConserving, hv_scheduler_is_idle_idx
  <2>. QED
    BY <1>1, <2>3, <2>4, SameTransitive DEF Switched
<1>. QED BY <1>5, <1>6

\* What hv_vtimer_rearm_physical programs covers every armed virtual timer.
LEMMA RearmValue ==
    ASSUME NEW vs, Typed(vs), now \in Nat
    PROVE  /\ RearmedTimer(vs) \in [irq_en : BOOLEAN, count : Int]
           /\ Covers(vs, RearmedTimer(vs))
<1>. DEFINE t == RearmedTimer(vs)
<1>1. CASE Armed(vs) = {}
  BY <1>1 DEF RearmedTimer, TIM_Disable_IRQ, Covers
<1>2. CASE Armed(vs) # {}
  <2>. DEFINE D == {vs[g].timer.deadline : g \in Armed(vs)}
  <2>1. \A g \in Armed(vs) : vs[g].timer.deadline \in Nat
    BY Indices DEF Armed, Typed, HvVcpu, HvVcpuTimer
  <2>2. D \in SUBSET Nat /\ D # {}
    BY <1>2, <2>1
  <2>3. PICK d \in D : \A e \in D : d <= e
    BY <2>2, NatMin
  <2>4. Earliest(vs) \in D /\ \A g \in Armed(vs) : Earliest(vs) <= vs[g].timer.deadline
    BY <2>3 DEF Earliest
  <2>5. Earliest(vs) \in Nat
    BY <2>2, <2>4
  <2>6. /\ RearmDelta(vs) \in Nat
        /\ RearmDelta(vs) <= 1 \/ RearmDelta(vs) <= Earliest(vs) - now
    BY <2>5, HypervisorAssumption DEF RearmDelta
  <2>7. t = [irq_en |-> TRUE, count |-> RearmDelta(vs)]
    BY <1>2 DEF RearmedTimer, TIM_Arm_Usec
  <2>8. t \in [irq_en : BOOLEAN, count : Int] /\ t.irq_en /\ t.count = RearmDelta(vs)
    BY <2>6, <2>7
  <2>9. \A g \in Armed(vs) :
           t.irq_en /\ (t.count <= 1 \/ t.count <= vs[g].timer.deadline - now)
    BY <2>1, <2>4, <2>5, <2>6, <2>8
  <2>. QED BY <1>2, <2>8, <2>9 DEF Covers
<1>. QED BY <1>1, <1>2

\* The same for the call itself.
LEMMA Rearm ==
    ASSUME NEW vs, Typed(vs), now \in Nat, hv_vtimer_rearm_physical(vs)
    PROVE  tim' \in [irq_en : BOOLEAN, count : Int] /\ Covers(vs, tim')
  BY RearmValue DEF hv_vtimer_rearm_physical

\* Whether the physical timer covers the guests depends on their timers only.
LEMMA CoversSame ==
    ASSUME NEW vs, NEW ws, NEW t, SameTimers(vs, ws), Covers(vs, t)
    PROVE  Covers(ws, t)
<1>1. Armed(ws) = Armed(vs)
  BY DEF Armed, SameTimers
<1>. QED BY <1>1 DEF Covers, Armed, SameTimers
-----------------------------------------------------------------------------
\* The virtual-timer functions of vcpu.c keep a vCPU well formed and leave its
\* interrupt bitmaps alone.
LEMMA TimerOps ==
    ASSUME NEW v \in HvVcpu, NEW n \in Nat, NEW d \in Nat
    PROVE  /\ hv_vcpu_timer_disable(v) \in HvVcpu
           /\ hv_vcpu_timer_advance(v, n) \in HvVcpu
           /\ hv_vcpu_timer_delay(v, n, d) \in HvVcpu
           /\ \A w \in {hv_vcpu_timer_disable(v), hv_vcpu_timer_advance(v, n)} :
                 w.state = v.state
           /\ d # 0 => hv_vcpu_timer_delay(v, n, d).state = "BLOCKED"
           /\ \A w \in {hv_vcpu_timer_disable(v), hv_vcpu_timer_advance(v, n),
                        hv_vcpu_timer_delay(v, n, d)} :
                 w.virq_pending = v.virq_pending /\ w.virq_active = v.virq_active
<1>1. /\ hv_vcpu_timer_disable(v) \in HvVcpu
      /\ hv_vcpu_timer_disable(v).state = v.state
      /\ hv_vcpu_timer_disable(v).virq_pending = v.virq_pending
      /\ hv_vcpu_timer_disable(v).virq_active = v.virq_active
  BY DEF hv_vcpu_timer_disable, TimerOff, HvVcpu, HvVcpuTimer
<1>2. /\ hv_vcpu_timer_delay(v, n, d) \in HvVcpu
      /\ d # 0 => hv_vcpu_timer_delay(v, n, d).state = "BLOCKED"
      /\ hv_vcpu_timer_delay(v, n, d).virq_pending = v.virq_pending
      /\ hv_vcpu_timer_delay(v, n, d).virq_active = v.virq_active
  <2>. DEFINE t == [v.timer EXCEPT !.enabled = TRUE, !.deadline = n + d]
              w == [v EXCEPT !.timer = t]
  <2>1. t \in HvVcpuTimer
    <3>1. v.timer \in HvVcpuTimer /\ n + d \in Nat
      BY DEF HvVcpu
    <3>. QED BY <3>1 DEF HvVcpuTimer
  <2>2. d # 0 => hv_vcpu_timer_delay(v, n, d) = hv_vcpu_block(w)
    BY DEF hv_vcpu_timer_delay, HvVcpu, HvVcpuTimer
  <2>. HIDE DEF t
  <2>3. /\ hv_vcpu_block(w) \in HvVcpu
        /\ hv_vcpu_block(w).state = "BLOCKED"
        /\ hv_vcpu_block(w).virq_pending = v.virq_pending
        /\ hv_vcpu_block(w).virq_active = v.virq_active
    BY <2>1 DEF hv_vcpu_block, HvVcpu, HvVcpuState
  <2>4. d = 0 => hv_vcpu_timer_delay(v, n, d) = v
    BY DEF hv_vcpu_timer_delay
  <2>. QED BY <2>2, <2>3, <2>4
<1>3. /\ hv_vcpu_timer_advance(v, n) \in HvVcpu
      /\ hv_vcpu_timer_advance(v, n).state = v.state
      /\ hv_vcpu_timer_advance(v, n).virq_pending = v.virq_pending
      /\ hv_vcpu_timer_advance(v, n).virq_active = v.virq_active
  <2>1. v.timer \in HvVcpuTimer
    BY DEF HvVcpu
  <2>2. CASE v.timer.enabled /\ v.timer.period # 0
    <3>1. NextDeadline(v.timer, n) \in Nat
      BY <2>1, <2>2, NextDeadlineType
    <3>2. hv_vcpu_timer_advance(v, n)
            = [v EXCEPT !.timer.deadline = NextDeadline(v.timer, n)]
      BY <2>2 DEF hv_vcpu_timer_advance
    <3>. QED BY <3>1, <3>2 DEF HvVcpu, HvVcpuTimer
  <2>3. CASE ~ (v.timer.enabled /\ v.timer.period # 0)
    BY <1>1, <2>3 DEF hv_vcpu_timer_advance
  <2>. QED BY <2>2, <2>3
<1>. QED BY <1>1, <1>2, <1>3

\* hv_virq_raise neither starts nor stops a vCPU and never makes an active line
\* pending.
LEMMA RaiseFacts ==
    ASSUME NEW v \in HvVcpu, NEW virq \in VIRQ_Source
    PROVE  /\ hv_virq_raise(v, virq) \in HvVcpu
           /\ hv_virq_raise(v, virq).state = "RUNNING" <=> v.state = "RUNNING"
           /\ v.virq_pending \cap v.virq_active = {} =>
                 hv_virq_raise(v, virq).virq_pending
                    \cap hv_virq_raise(v, virq).virq_active = {}
<1>1. CASE RaiseBusy(v, virq)
  BY <1>1 DEF hv_virq_raise
<1>2. CASE ~ RaiseBusy(v, virq)
  <2>. DEFINE w == [v EXCEPT !.virq_pending = @ \cup {virq}]
  <2>1. /\ w \in HvVcpu
        /\ w.virq_pending = v.virq_pending \cup {virq}
        /\ w.virq_active = v.virq_active
        /\ w.state = v.state
    BY DEF HvVcpu
  <2>2. hv_virq_raise(v, virq) = hv_vcpu_wake(w)
    BY <1>2 DEF hv_virq_raise
  <2>3. virq \notin v.virq_active
    BY <1>2 DEF RaiseBusy, hv_virq_is_active
  <2>. HIDE DEF w
  <2>4. /\ hv_vcpu_wake(w) \in HvVcpu
        /\ hv_vcpu_wake(w).virq_pending = w.virq_pending
        /\ hv_vcpu_wake(w).virq_active = w.virq_active
        /\ hv_vcpu_wake(w).state = "RUNNING" <=> w.state = "RUNNING"
    BY <2>1 DEF hv_vcpu_wake, HvVcpu, HvVcpuState
  <2>. QED BY <2>1, <2>2, <2>3, <2>4
<1>. QED BY <1>1, <1>2

\* hv_virq_claim moves a line from pending to active.
LEMMA ClaimFacts ==
    ASSUME NEW v \in HvVcpu
    PROVE  /\ hv_virq_claim(v) \in HvVcpu
           /\ hv_virq_claim(v).state = v.state
           /\ hv_virq_claim(v).timer = v.timer
           /\ v.virq_pending \cap v.virq_active = {} =>
                 hv_virq_claim(v).virq_pending \cap hv_virq_claim(v).virq_active = {}
<1>1. CASE v.virq_pending = {}
  BY <1>1 DEF hv_virq_claim
<1>2. CASE v.virq_pending # {}
  <2>1. v.virq_pending \in SUBSET Nat /\ v.virq_pending \subseteq VIRQ_Source
    BY VirqAssumption DEF HvVcpu, VIRQ_Source
  <2>2. PICK i \in v.virq_pending : \A j \in v.virq_pending : i <= j
    BY <1>2, <2>1, NatMin
  <2>3. ClaimedVirq(v) \in v.virq_pending
    BY <1>2, <2>2 DEF ClaimedVirq
  <2>4. hv_virq_claim(v) = [v EXCEPT !.virq_pending = @ \ {ClaimedVirq(v)},
                                     !.virq_active  = @ \cup {ClaimedVirq(v)}]
    BY <1>2 DEF hv_virq_claim
  <2>. QED BY <2>1, <2>3, <2>4 DEF HvVcpu
<1>. QED BY <1>1, <1>2

\* hv_virq_complete only clears an active line.
LEMMA CompleteFacts ==
    ASSUME NEW v \in HvVcpu, NEW virq
    PROVE  /\ hv_virq_complete(v, virq) \in HvVcpu
           /\ hv_virq_complete(v, virq).state = v.state
           /\ hv_virq_complete(v, virq).timer = v.timer
           /\ v.virq_pending \cap v.virq_active = {} =>
                 hv_virq_complete(v, virq).virq_pending
                    \cap hv_virq_complete(v, virq).virq_active = {}
  BY DEF hv_virq_complete, HvVcpu

-----------------------------------------------------------------------------
\* A handler that ends in hv_scheduler_advance keeps the invariant, provided it
\* has left the physical timer covering the table it passes on.
LEMMA Reschedule ==
    ASSUME IInv, NEW vs, Typed(vs), OnlyCurRuns(vs), Disjoint(vs),
           hv_scheduler_advance(vs),
           tim' \in [irq_en : BOOLEAN, count : Int], Covers(vs, tim'),
           gen' \in BOOLEAN, now' = now, halted' \in BOOLEAN
    PROVE  IInv'
<1>1. cur_idx \in Vcpus /\ vttbr \in Guests /\ now \in Nat
  BY DEF IInv, TypeOK
<1>2. Switched(vs) /\ WorkConserving'
  BY <1>1, Advance
<1>3. TypeOK'
  BY <1>1, <1>2 DEF TypeOK, Switched, Typed
<1>4. LineNotNested'
  BY <1>2 DEF LineNotNested, Disjoint, Switched, SameVirqs
<1>5. PhysicalTimerCovers'
  <2>1. Covers(vcpus', tim')
    BY <1>2, CoversSame DEF Switched
  <2>. QED BY <2>1 DEF Covers, PhysicalTimerCovers, Armed
<1>. QED BY <1>2, <1>3, <1>4, <1>5 DEF IInv, Switched

\* A handler that returns to the same guest keeps the invariant, provided it
\* has synchronised HCR.VI.
LEMMA Installed ==
    ASSUME IInv, NEW vs, Typed(vs), Disjoint(vs), vcpus' = vs, cur_idx' = cur_idx,
           \A i \in Vcpus : vs[i].state = "RUNNING" <=> vcpus[i].state = "RUNNING",
           cur_idx \in Guests, vttbr' = vttbr,
           hcr' \in [vi : BOOLEAN, twi : BOOLEAN, vm : BOOLEAN],
           hcr'.vi <=> vs[cur_idx].virq_pending # {},
           hcr'.twi = hcr.twi, hcr'.vm = hcr.vm,
           tim' \in [irq_en : BOOLEAN, count : Int], Covers(vs, tim'),
           gen' \in BOOLEAN, now' = now, halted' \in BOOLEAN
    PROVE  IInv'
<1>1. TypeOK'
  BY DEF IInv, TypeOK, Typed
<1>2. OneRunning'
  BY DEF IInv, OneRunning
<1>3. WorkConserving'
  BY Indices DEF WorkConserving, hv_scheduler_is_idle_idx
<1>4. VirqLineInSync' /\ LineNotNested'
  BY DEF VirqLineInSync, LineNotNested, Disjoint
<1>5. MachineFollowsVcpu'
  BY DEF IInv, MachineFollowsVcpu
<1>6. PhysicalTimerCovers'
  BY DEF Covers, PhysicalTimerCovers, Armed
<1>. QED BY <1>1, <1>2, <1>3, <1>4, <1>5, <1>6 DEF IInv
\* What the invariant says of the state a handler starts from.
LEMMA CurrentTyped ==
    ASSUME IInv
    PROVE  /\ Typed(vcpus) /\ OnlyCurRuns(vcpus) /\ Disjoint(vcpus)
           /\ Covers(vcpus, tim) /\ now \in Nat /\ cur_idx \in Vcpus
           /\ Cur \in HvVcpu /\ Cur.state = "RUNNING"
           /\ Cur.virq_pending \cap Cur.virq_active = {}
           /\ tim \in [irq_en : BOOLEAN, count : Int]
           /\ gen \in BOOLEAN /\ halted \in BOOLEAN
           /\ hcr \in [vi : BOOLEAN, twi : BOOLEAN, vm : BOOLEAN]
           /\ vttbr \in Guests
<1>1. TypeOK /\ OneRunning /\ LineNotNested /\ PhysicalTimerCovers
  BY DEF IInv
<1>2. Typed(vcpus) /\ OnlyCurRuns(vcpus) /\ Disjoint(vcpus)
  BY <1>1 DEF TypeOK, OneRunning, LineNotNested, Typed, OnlyCurRuns, Disjoint
<1>3. Covers(vcpus, tim)
  BY <1>1 DEF PhysicalTimerCovers, Covers
<1>4. cur_idx \in Vcpus
  BY <1>1 DEF TypeOK
<1>5. Cur \in HvVcpu /\ Cur.state = "RUNNING" /\ Cur.virq_pending \cap Cur.virq_active = {}
  BY <1>1, <1>2, <1>4 DEF Cur, Typed, OneRunning, Disjoint
<1>. QED BY <1>1, <1>2, <1>3, <1>4, <1>5 DEF TypeOK

\* HYPERCALL_EXIT and fatal guest aborts keep the invariant.
LEMMA StopCurrentStep ==
    ASSUME IInv, GuestRuns, stop_current_guest_vcpu
    PROVE  IInv'
<1>. DEFINE us == [vcpus EXCEPT ![cur_idx] = hv_vcpu_timer_disable(@)]
            vs == SetState(us, cur_idx, "EXITED")
<1>1. /\ hv_vtimer_rearm_physical(vs) /\ hv_scheduler_advance(vs)
      /\ UNCHANGED <<gen, now, halted>>
  BY DEF stop_current_guest_vcpu
<1>2. hv_vcpu_timer_disable(Cur) \in HvVcpu
      /\ hv_vcpu_timer_disable(Cur).virq_pending = Cur.virq_pending
      /\ hv_vcpu_timer_disable(Cur).virq_active = Cur.virq_active
  BY CurrentTyped, TimerOps
<1>3. Typed(us) /\ Disjoint(us) /\ \A i \in Vcpus \ {cur_idx} : us[i] = vcpus[i]
  BY <1>2, CurrentTyped DEF Typed, Disjoint, Cur
<1>4. "EXITED" \in HvVcpuState
  BY DEF HvVcpuState
<1>. HIDE DEF us
<1>5. Typed(vs) /\ OnlyCurRuns(vs) /\ Disjoint(vs)
  BY <1>3, <1>4, CurrentTyped, SetStateFacts DEF OnlyCurRuns, Disjoint
<1>. HIDE DEF vs
<1>6. tim' \in [irq_en : BOOLEAN, count : Int] /\ Covers(vs, tim')
  BY <1>1, <1>5, CurrentTyped, Rearm
<1>. QED BY <1>1, <1>5, <1>6, CurrentTyped, Reschedule

\* hv_scheduler_yield keeps the invariant, on its early return and on its switch.
LEMMA YieldStep ==
    ASSUME IInv, GuestRuns, hv_scheduler_yield
    PROVE  IInv'
<1>. DEFINE vs   == SetState(vcpus, cur_idx, "RUNNABLE")
            next == hv_scheduler_pick_next_idx(vs)
<1>1. cur_idx \in Guests /\ cur_idx \in Vcpus
  BY CurrentTyped, Indices DEF GuestRuns, hv_scheduler_is_idle_idx
<1>2. "RUNNABLE" \in HvVcpuState /\ "RUNNING" \in HvVcpuState
  BY DEF HvVcpuState
<1>3. /\ Typed(vs)
      /\ \A j \in Vcpus :
            /\ vs[j].state = IF j = cur_idx THEN "RUNNABLE" ELSE vcpus[j].state
            /\ vs[j].timer = vcpus[j].timer
            /\ vs[j].virq_pending = vcpus[j].virq_pending
            /\ vs[j].virq_active = vcpus[j].virq_active
  BY <1>2, CurrentTyped, SetStateFacts
<1>4. OnlyCurRuns(vs) /\ Disjoint(vs)
  BY <1>3, CurrentTyped DEF OnlyCurRuns, Disjoint
<1>5. SameTimers(vcpus, vs)
  <2>. SUFFICES ASSUME NEW g \in Guests
                PROVE  /\ vs[g].timer = vcpus[g].timer
                       /\ vs[g].state \in {"IDLE", "EXITED"} <=>
                          vcpus[g].state \in {"IDLE", "EXITED"}
    BY DEF SameTimers
  <2>. QED BY <1>3, CurrentTyped, Indices DEF Cur
<1>6. UNCHANGED <<tim, gen, now, halted>>
  BY DEF hv_scheduler_yield
<1>7. IF next = None \/ next = cur_idx
      THEN vcpus' = SetState(vs, cur_idx, "RUNNING") /\ UNCHANGED <<cur_idx, hcr, vttbr>>
      ELSE hv_scheduler_switch_to(vs, next)
  BY DEF hv_scheduler_yield
<1>8. \/ next = None
      \/ next \in Guests /\ vs[next].state = "RUNNABLE"
  BY <1>1, <1>3, PickNext
<1>. HIDE DEF vs, next
<1>9. CASE next = None \/ next = cur_idx
  <2>1. /\ Typed(vcpus')
        /\ \A j \in Vcpus :
              /\ vcpus'[j].state = IF j = cur_idx THEN "RUNNING" ELSE vs[j].state
              /\ vcpus'[j].timer = vs[j].timer
              /\ vcpus'[j].virq_pending = vs[j].virq_pending
              /\ vcpus'[j].virq_active = vs[j].virq_active
    BY <1>1, <1>2, <1>3, <1>7, <1>9, SetStateFacts
  <2>2. \A j \in Vcpus :
              /\ vcpus'[j].state = vcpus[j].state
              /\ vcpus'[j].timer = vcpus[j].timer
              /\ vcpus'[j].virq_pending = vcpus[j].virq_pending
              /\ vcpus'[j].virq_active = vcpus[j].virq_active
    BY <1>3, <2>1, CurrentTyped DEF Cur
  <2>3. Disjoint(vcpus')
    BY <2>2, CurrentTyped DEF Disjoint
  <2>4. SameTimers(vcpus, vcpus')
    BY <2>2, Indices DEF SameTimers
  <2>5. Covers(vcpus', tim')
    <3>1. Covers(vcpus', tim)
      BY <2>4, CurrentTyped, CoversSame
    <3>. QED BY <1>6, <3>1
  <2>6. hcr' = hcr /\ cur_idx' = cur_idx /\ vttbr' = vttbr
    BY <1>7, <1>9
  <2>7. hcr.vi <=> vcpus'[cur_idx].virq_pending # {}
    BY <1>1, <2>2 DEF IInv, VirqLineInSync
  <2>. QED BY <1>1, <1>6, <2>1, <2>2, <2>3, <2>5, <2>6, <2>7, CurrentTyped, Installed
<1>10. CASE ~ (next = None \/ next = cur_idx)
  <2>1. next \in Guests /\ vs[next].state = "RUNNABLE" /\ next \in Vcpus
    BY <1>8, <1>10, Indices
  <2>2. hv_scheduler_switch_to(vs, next)
    BY <1>7, <1>10
  <2>3. Switched(vs) /\ cur_idx' = next
    BY <1>1, <1>3, <1>4, <2>1, <2>2, CurrentTyped, SwitchTo
  <2>4. WorkConserving'
    BY <2>1, <2>3, Indices DEF WorkConserving, hv_scheduler_is_idle_idx
  <2>5. TypeOK'
    BY <1>6, <2>3, CurrentTyped DEF TypeOK, Switched, Typed
  <2>6. LineNotNested'
    BY <1>4, <2>3 DEF LineNotNested, Disjoint, Switched, SameVirqs
  <2>7. PhysicalTimerCovers'
    <3>1. SameTimers(vcpus, vcpus')
      BY <1>5, <2>3, SameTransitive DEF Switched
    <3>2. Covers(vcpus', tim)
      BY <3>1, CurrentTyped, CoversSame
    <3>. QED BY <1>6, <3>2 DEF Covers, PhysicalTimerCovers, Armed
  <2>. QED BY <2>3, <2>4, <2>5, <2>6, <2>7 DEF IInv, Switched
<1>. QED BY <1>9, <1>10

\* The hypercalls that change the caller's interrupt bitmaps keep the invariant.
LEMMA UpdateCurVirqsStep ==
    ASSUME IInv, GuestRuns, NEW v \in HvVcpu, UpdateCurVirqs(v),
           v.state = Cur.state, v.timer = Cur.timer,
           v.virq_pending \cap v.virq_active = {}
    PROVE  IInv'
<1>1. cur_idx \in Guests /\ cur_idx \in Vcpus
  BY CurrentTyped, Indices DEF GuestRuns, hv_scheduler_is_idle_idx
<1>. DEFINE vs == [vcpus EXCEPT ![cur_idx] = v]
<1>2. /\ vcpus' = vs
      /\ hcr' = [hcr EXCEPT !.vi = VirqLine(v)]
      /\ UNCHANGED <<cur_idx, vttbr, tim, gen, now, halted>>
  BY DEF UpdateCurVirqs
<1>3. /\ Typed(vs) /\ vs[cur_idx] = v
      /\ \A i \in Vcpus : /\ vs[i].state = vcpus[i].state
                          /\ vs[i].timer = vcpus[i].timer
  BY <1>1, CurrentTyped DEF Typed, Cur
<1>4. Disjoint(vs)
  BY <1>1, CurrentTyped DEF Disjoint, Typed
<1>5. SameTimers(vcpus, vs)
  BY <1>3, Indices DEF SameTimers
<1>6. /\ hcr' \in [vi : BOOLEAN, twi : BOOLEAN, vm : BOOLEAN]
      /\ hcr'.vi = (v.virq_pending # {}) /\ hcr'.twi = hcr.twi /\ hcr'.vm = hcr.vm
  BY <1>2, CurrentTyped DEF VirqLine
<1>. HIDE DEF vs
<1>7. Covers(vs, tim')
  <2>1. Covers(vs, tim)
    BY <1>5, CurrentTyped, CoversSame
  <2>. QED BY <1>2, <2>1
<1>. QED BY <1>1, <1>2, <1>3, <1>4, <1>6, <1>7, CurrentTyped, Installed

\* HYPERCALL_TIMER_DELAY_TICKS keeps the invariant.
LEMMA DelayStep ==
    ASSUME IInv, GuestRuns, NEW delay \in Nat, HypercallTimerDelay(delay), delay # 0
    PROVE  IInv'
<1>. DEFINE vs == [vcpus EXCEPT ![cur_idx] = hv_vcpu_timer_delay(@, now, delay)]
<1>1. /\ hv_vtimer_rearm_physical(vs) /\ hv_scheduler_advance(vs)
      /\ UNCHANGED <<gen, now, halted>>
  BY DEF HypercallTimerDelay
<1>2. /\ hv_vcpu_timer_delay(Cur, now, delay) \in HvVcpu
      /\ hv_vcpu_timer_delay(Cur, now, delay).virq_pending = Cur.virq_pending
      /\ hv_vcpu_timer_delay(Cur, now, delay).virq_active = Cur.virq_active
  BY CurrentTyped, TimerOps
<1>3. Typed(vs) /\ Disjoint(vs) /\ \A i \in Vcpus \ {cur_idx} : vs[i] = vcpus[i]
  BY <1>2, CurrentTyped DEF Typed, Disjoint, Cur
<1>4. OnlyCurRuns(vs)
  BY <1>3, CurrentTyped DEF OnlyCurRuns
<1>. HIDE DEF vs
<1>5. tim' \in [irq_en : BOOLEAN, count : Int] /\ Covers(vs, tim')
  BY <1>1, <1>3, CurrentTyped, Rearm
<1>. QED BY <1>1, <1>3, <1>4, <1>5, CurrentTyped, Reschedule
\* hv_scheduler_handle_wfi keeps the invariant.
LEMMA WfiStep ==
    ASSUME IInv, hv_scheduler_handle_wfi
    PROVE  IInv'
<1>1. GuestRuns
  BY DEF hv_scheduler_handle_wfi
<1>2. CASE Cur.virq_pending # {}
  <2>1. UpdateCurVirqs(Cur)
    BY <1>2 DEF hv_scheduler_handle_wfi
  <2>. QED BY <1>1, <2>1, CurrentTyped, UpdateCurVirqsStep
<1>3. CASE Cur.virq_pending = {}
  <2>. DEFINE vs == [vcpus EXCEPT ![cur_idx] = hv_vcpu_block(@)]
  <2>1. hv_scheduler_advance(vs) /\ UNCHANGED <<tim, gen, now, halted>>
    BY <1>3 DEF hv_scheduler_handle_wfi
  <2>2. /\ hv_vcpu_block(Cur) \in HvVcpu
        /\ hv_vcpu_block(Cur).state = "BLOCKED"
        /\ hv_vcpu_block(Cur).timer = Cur.timer
        /\ hv_vcpu_block(Cur).virq_pending = Cur.virq_pending
        /\ hv_vcpu_block(Cur).virq_active = Cur.virq_active
    BY CurrentTyped DEF hv_vcpu_block, HvVcpu, HvVcpuState
  <2>3. /\ Typed(vs) /\ Disjoint(vs)
        /\ \A i \in Vcpus \ {cur_idx} : vs[i] = vcpus[i]
        /\ vs[cur_idx] = hv_vcpu_block(Cur)
    BY <2>2, CurrentTyped DEF Typed, Disjoint, Cur
  <2>. HIDE DEF vs
  <2>4. OnlyCurRuns(vs)
    BY <2>3, CurrentTyped DEF OnlyCurRuns
  <2>5. SameTimers(vcpus, vs)
    <3>. SUFFICES ASSUME NEW g \in Guests
                  PROVE  /\ vs[g].timer = vcpus[g].timer
                         /\ vs[g].state \in {"IDLE", "EXITED"} <=>
                            vcpus[g].state \in {"IDLE", "EXITED"}
      BY DEF SameTimers
    <3>1. CASE g = cur_idx
      BY <2>2, <2>3, <3>1, CurrentTyped DEF Cur
    <3>2. CASE g # cur_idx
      BY <2>3, <3>2, Indices
    <3>. QED BY <3>1, <3>2
  <2>6. Covers(vs, tim')
    <3>1. Covers(vs, tim)
      BY <2>5, CurrentTyped, CoversSame
    <3>. QED BY <2>1, <3>1
  <2>. QED BY <2>1, <2>3, <2>4, <2>6, CurrentTyped, Reschedule
<1>. QED BY <1>2, <1>3

\* Every hypercall keeps the invariant, changes nothing, or halts the machine.
LEMMA HypercallStep ==
    ASSUME IInv, NEW call, hyp_handle_guest_hypercall(call)
    PROVE  IInv' \/ UNCHANGED vars \/ hyp_halt
<1>1. GuestRuns
  BY DEF hyp_handle_guest_hypercall
<1>2. ASSUME stop_current_guest_vcpu PROVE IInv'
  BY <1>1, <1>2, StopCurrentStep
<1>3. ASSUME hv_scheduler_yield PROVE IInv'
  BY <1>1, <1>3, YieldStep
<1>4. ASSUME HypercallVirqClaim PROVE IInv'
  <2>1. UpdateCurVirqs(hv_virq_claim(Cur))
    BY <1>4 DEF HypercallVirqClaim
  <2>. QED BY <1>1, <2>1, CurrentTyped, ClaimFacts, UpdateCurVirqsStep
<1>5. ASSUME NEW virq \in VIRQ_Source, HypercallVirqComplete(virq) PROVE IInv'
  <2>1. UpdateCurVirqs(hv_virq_complete(Cur, virq))
    BY <1>5 DEF HypercallVirqComplete
  <2>. QED BY <1>1, <2>1, CurrentTyped, CompleteFacts, UpdateCurVirqsStep
<1>6. ASSUME NEW delay \in Delays, HypercallTimerDelay(delay) PROVE IInv' \/ UNCHANGED vars
  <2>1. delay \in Nat
    BY HypervisorAssumption
  <2>2. CASE delay = 0
    BY <1>6, <2>2 DEF HypercallTimerDelay
  <2>3. CASE delay # 0
    BY <1>1, <1>6, <2>1, <2>3, DelayStep
  <2>. QED BY <2>2, <2>3
<1>. QED BY <1>2, <1>3, <1>4, <1>5, <1>6 DEF hyp_handle_guest_hypercall

\* The preemption tick keeps the invariant.
LEMMA GenericIrqStep ==
    ASSUME IInv, handle_irq_generic
    PROVE  IInv'
<1>1. hv_scheduler_advance(vcpus) /\ gen' = FALSE /\ UNCHANGED <<tim, now, halted>>
  BY DEF handle_irq_generic
<1>2. Covers(vcpus, tim')
  BY <1>1, CurrentTyped
<1>. QED BY <1>1, <1>2, CurrentTyped, Reschedule

\* The virtual-timer interrupt keeps the invariant: when idle it reschedules,
\* otherwise it returns to the guest with HCR.VI synchronised.
LEMMA BcmIrqStep ==
    ASSUME IInv, handle_irq_bcm
    PROVE  IInv'
<1>. DEFINE vs == deliver_expired_timers
            delivered == \E g \in Guests : Delivers(g)
<1>1. /\ hv_vtimer_rearm_physical(vs)
      /\ AfterDelivery(vs, delivered)
      /\ UNCHANGED <<gen, now, halted>>
  BY DEF handle_irq_bcm
<1>2. ASSUME NEW i \in Vcpus
      PROVE  /\ vs[i] \in HvVcpu
             /\ vs[i].state = "RUNNING" <=> vcpus[i].state = "RUNNING"
             /\ vs[i].virq_pending \cap vs[i].virq_active = {}
  <2>1. /\ vcpus[i] \in HvVcpu /\ now \in Nat
        /\ vcpus[i].virq_pending \cap vcpus[i].virq_active = {}
    BY CurrentTyped DEF Typed, Disjoint
  <2>2. VIRQ_TIMER \in VIRQ_Source
    BY VirqAssumption DEF VIRQ_TIMER, VIRQ_Source
  <2>. DEFINE r == hv_virq_raise(vcpus[i], VIRQ_TIMER)
  <2>3. /\ r \in HvVcpu
        /\ r.state = "RUNNING" <=> vcpus[i].state = "RUNNING"
        /\ r.virq_pending \cap r.virq_active = {}
    BY <2>1, <2>2, RaiseFacts
  <2>4. vs[i] = vcpus[i] \/ vs[i] = hv_vcpu_timer_advance(r, now)
    BY DEF deliver_expired_timers
  <2>. HIDE DEF r, vs
  <2>. QED BY <2>1, <2>3, <2>4, TimerOps
<1>3. ASSUME ~ delivered PROVE \A i \in Vcpus : vs[i] = vcpus[i]
  BY <1>3 DEF deliver_expired_timers
<1>4. Typed(vs)
  <2>1. vs = [i \in Vcpus |-> vs[i]]
    BY DEF deliver_expired_timers
  <2>. HIDE DEF vs
  <2>. QED BY <1>2, <2>1 DEF Typed
<1>. HIDE DEF vs, delivered
<1>5. Disjoint(vs) /\ OnlyCurRuns(vs)
  BY <1>2, CurrentTyped DEF Disjoint, OnlyCurRuns
<1>6. tim' \in [irq_en : BOOLEAN, count : Int] /\ Covers(vs, tim')
  BY <1>1, <1>4, CurrentTyped, Rearm
<1>7. CASE hv_scheduler_is_idle_idx(cur_idx)
  <2>1. hv_scheduler_advance(vs)
    BY <1>1, <1>7 DEF AfterDelivery
  <2>. QED BY <1>1, <1>4, <1>5, <1>6, <2>1, CurrentTyped, Reschedule
<1>8. CASE ~ hv_scheduler_is_idle_idx(cur_idx)
  <2>1. cur_idx \in Guests /\ cur_idx \in Vcpus
    BY <1>8, CurrentTyped, Indices DEF hv_scheduler_is_idle_idx
  <2>2. /\ vcpus' = vs
        /\ hcr' = IF delivered THEN [hcr EXCEPT !.vi = VirqLine(vs[cur_idx])] ELSE hcr
        /\ UNCHANGED <<cur_idx, vttbr>>
    BY <1>1, <1>8 DEF AfterDelivery
  <2>3. /\ hcr' \in [vi : BOOLEAN, twi : BOOLEAN, vm : BOOLEAN]
        /\ hcr'.twi = hcr.twi /\ hcr'.vm = hcr.vm
    BY <2>2, CurrentTyped DEF VirqLine
  <2>4. hcr'.vi <=> vs[cur_idx].virq_pending # {}
    <3>1. CASE delivered
      BY <2>2, <3>1, CurrentTyped DEF VirqLine
    <3>2. CASE ~ delivered
      <4>1. vs[cur_idx] = vcpus[cur_idx] /\ hcr' = hcr
        BY <1>3, <2>1, <2>2, <3>2
      <4>. QED BY <4>1 DEF IInv, VirqLineInSync
    <3>. QED BY <3>1, <3>2
  <2>. QED BY <1>1, <1>2, <1>4, <1>5, <1>6, <2>1, <2>2, <2>3, <2>4, CurrentTyped, Installed
<1>. QED BY <1>7, <1>8

\* The clock never moves forward by more than the tick that was added.
LEMMA ModBelow ==
    ASSUME NEW M \in Nat \ {0}, NEW x \in Nat
    PROVE  x % M <= x
  OBVIOUS

\* The clock keeps the invariant, also when it wraps to zero.
LEMMA TickStep ==
    ASSUME IInv, Tick
    PROVE  IInv'
<1>1. /\ now' = (now + 1) % TickWrap
      /\ tim' = IF tim.irq_en THEN [tim EXCEPT !.count = @ - 1] ELSE tim
      /\ UNCHANGED <<vcpus, cur_idx, hcr, vttbr, gen, halted>>
  BY DEF Tick
<1>2. now' \in Nat /\ now' <= now + 1
  <2>1. now + 1 \in Nat /\ TickWrap \in Nat \ {0}
    BY CurrentTyped, HypervisorAssumption
  <2>2. (now + 1) % TickWrap \in Nat /\ (now + 1) % TickWrap <= now + 1
    BY <2>1, ModRange, ModBelow, SMTT(30)
  <2>. QED BY <1>1, <2>2
<1>3. tim' \in [irq_en : BOOLEAN, count : Int]
  BY <1>1, CurrentTyped
<1>4. TypeOK'
  BY <1>1, <1>2, <1>3 DEF IInv, TypeOK
<1>5. PhysicalTimerCovers'
  <2>1. Armed(vcpus') = Armed(vcpus) /\ PhysicalTimerCovers /\ tim'.irq_en = tim.irq_en
    BY <1>1, CurrentTyped DEF IInv, Armed
  <2>2. ASSUME NEW g \in Armed(vcpus)
        PROVE  tim'.count <= 1 \/ tim'.count <= vcpus'[g].timer.deadline - now'
    <3>1. tim.irq_en /\ (tim.count <= 1 \/ tim.count <= vcpus[g].timer.deadline - now)
      BY <2>1 DEF PhysicalTimerCovers
    <3>2. tim'.count = tim.count - 1 /\ tim.count \in Int /\ vcpus' = vcpus
      BY <1>1, <3>1, CurrentTyped
    <3>3. vcpus[g].timer.deadline \in Nat
      BY Indices, CurrentTyped DEF Armed, Typed, HvVcpu, HvVcpuTimer
    <3>. QED BY <1>2, <3>1, <3>2, <3>3, CurrentTyped
  <2>. QED BY <1>1, <2>1, <2>2 DEF PhysicalTimerCovers
<1>. QED
  BY <1>1, <1>4, <1>5
  DEF IInv, OneRunning, WorkConserving, hv_scheduler_has_runnable, VirqLineInSync,
      MachineFollowsVcpu, LineNotNested

\* So do the steps that leave the vCPUs and the registers alone.
LEMMA UnchangedMachine ==
    ASSUME IInv, UNCHANGED <<vcpus, cur_idx, hcr, vttbr, tim, now>>,
           gen' \in BOOLEAN, halted' \in BOOLEAN
    PROVE  IInv'
  BY DEF IInv, TypeOK, OneRunning, WorkConserving, hv_scheduler_has_runnable,
         VirqLineInSync, MachineFollowsVcpu, PhysicalTimerCovers, Armed, LineNotNested

\* The harness boot sequence establishes the invariant.
LEMMA BootInit == Init => IInv
<1>. SUFFICES ASSUME Init PROVE IInv
  OBVIOUS
<1>1. PICK loaded \in {{0}, Guests}, period \in Periods :
         vcpus = [i \in Vcpus |-> BootVcpu(loaded, period, i)]
  BY DEF Init
<1>2. loaded \subseteq Guests /\ 0 \in loaded /\ period \in Nat
  BY Indices, HypervisorAssumption
<1>3. /\ EmptyVcpu \in HvVcpu /\ EmptyVcpu.state = "IDLE"
      /\ EmptyVcpu.virq_pending = {} /\ EmptyVcpu.virq_active = {}
  BY DEF EmptyVcpu, HvVcpu, TimerOff, HvVcpuTimer, HvVcpuState
<1>4. ASSUME NEW i \in Vcpus
      PROVE  /\ vcpus[i] \in HvVcpu
             /\ vcpus[i].state = "RUNNING" <=> i = 0
             /\ vcpus[i].virq_pending = {} /\ vcpus[i].virq_active = {}
  <2>1. CASE i \notin loaded
    BY <1>1, <1>2, <1>3, <2>1 DEF BootVcpu
  <2>2. CASE i \in loaded
    <3>. DEFINE w == hv_vcpu_timer_start_periodic(hv_vcpu_init, 0, period)
    <3>1. hv_vcpu_init \in HvVcpu /\ hv_vcpu_init.virq_pending = {} /\ hv_vcpu_init.virq_active = {}
      BY <1>3 DEF hv_vcpu_init, HvVcpu, HvVcpuState
    <3>2. w \in HvVcpu /\ w.virq_pending = {} /\ w.virq_active = {}
      <4>1. CASE period = 0
        BY <3>1, <4>1 DEF hv_vcpu_timer_start_periodic
      <4>2. CASE period # 0
        <5>1. [enabled |-> TRUE, deadline |-> 0 + period, period |-> period] \in HvVcpuTimer
          BY <1>2 DEF HvVcpuTimer
        <5>. QED BY <3>1, <4>2, <5>1 DEF hv_vcpu_timer_start_periodic, HvVcpu
      <4>. QED BY <4>1, <4>2
    <3>3. vcpus[i] = [w EXCEPT !.state = IF i = 0 THEN "RUNNING" ELSE "RUNNABLE"]
      BY <1>1, <2>2 DEF BootVcpu
    <3>. HIDE DEF w
    <3>. QED BY <3>2, <3>3 DEF HvVcpu, HvVcpuState
  <2>. QED BY <2>1, <2>2
<1>5. Typed(vcpus)
  <2>1. vcpus = [i \in Vcpus |-> vcpus[i]]
    BY <1>1
  <2>. QED BY <1>4, <2>1 DEF Typed
<1>6. /\ cur_idx = 0 /\ vttbr = 0 /\ now = 0 /\ gen = FALSE /\ halted = FALSE
      /\ hcr = [vi |-> FALSE, twi |-> TRUE, vm |-> TRUE]
      /\ tim = RearmedTimer(vcpus)
  BY DEF Init
<1>7. tim \in [irq_en : BOOLEAN, count : Int] /\ Covers(vcpus, tim)
  BY <1>5, <1>6, RearmValue
<1>8. TypeOK
  BY <1>5, <1>6, <1>7, Indices DEF TypeOK, Typed
<1>9. OneRunning /\ VirqLineInSync /\ LineNotNested
  BY <1>4, <1>6, Indices DEF OneRunning, VirqLineInSync, LineNotNested
<1>10. WorkConserving /\ MachineFollowsVcpu
  BY <1>6, Indices DEF WorkConserving, MachineFollowsVcpu, hv_scheduler_is_idle_idx
<1>11. PhysicalTimerCovers
  BY <1>7 DEF PhysicalTimerCovers, Covers
<1>. QED BY <1>8, <1>9, <1>10, <1>11 DEF IInv

\* Every step of every handler, of the guests and of the hardware preserves it.
LEMMA StepPreserves == IInv /\ [Next]_vars => IInv'
<1>. SUFFICES ASSUME IInv, [Next]_vars PROVE IInv'
  OBVIOUS
<1>1. CASE UNCHANGED vars
  BY <1>1, UnchangedMachine, CurrentTyped DEF vars
<1>2. ASSUME hyp_halt PROVE IInv'
  BY <1>2, UnchangedMachine, CurrentTyped DEF hyp_halt
<1>3. ASSUME NEW call, hyp_handle_guest_hypercall(call) PROVE IInv'
  BY <1>1, <1>2, <1>3, HypercallStep
<1>4. CASE hv_scheduler_handle_wfi
  BY <1>4, WfiStep
<1>5. CASE handle_guest_abort
  BY <1>1, <1>5, StopCurrentStep DEF handle_guest_abort
<1>6. CASE UnhandledTrap \/ UnexpectedIrq
  BY <1>2, <1>6 DEF UnhandledTrap, UnexpectedIrq
<1>7. CASE handle_irq_generic
  BY <1>7, GenericIrqStep
<1>8. CASE handle_irq_bcm
  BY <1>8, BcmIrqStep
<1>9. CASE Tick
  BY <1>9, TickStep
<1>10. CASE GenericTimerExpires
  BY <1>10, UnchangedMachine, CurrentTyped DEF GenericTimerExpires
<1>11. CASE HaltLoop
  BY <1>1, <1>11 DEF HaltLoop
<1>. QED
  BY <1>1, <1>3, <1>4, <1>5, <1>6, <1>7, <1>8, <1>9, <1>10, <1>11 DEF Next

\* The inductive invariant holds in every reachable state.
THEOREM Invariance == Spec => []IInv
  BY BootInit, StepPreserves, PTL DEF Spec
-----------------------------------------------------------------------------
\* Every variable keeps its type for any number of guests, lines and ticks; in
\* particular cur_idx never leaves the vCPU table.
THEOREM TypeCorrect == Spec => []TypeOK
<1>1. IInv => TypeOK
  BY DEF IInv
<1>. QED BY <1>1, Invariance, PTL

\* For any number of guests, exactly the current vCPU is RUNNING after every
\* handler.
THEOREM ExactlyOneRuns == Spec => []OneRunning
<1>1. IInv => OneRunning
  BY DEF IInv
<1>. QED BY <1>1, Invariance, PTL

\* The idle vCPU never runs while a guest is runnable.
THEOREM NeverIdleWithWork == Spec => []WorkConserving
<1>1. IInv => WorkConserving
  BY DEF IInv
<1>. QED BY <1>1, Invariance, PTL

\* HCR.VI always shows the pending bitmap of the vCPU that runs, whichever
\* handler ran last.
THEOREM LineAlwaysInSync == Spec => []VirqLineInSync
<1>1. IInv => VirqLineInSync
  BY DEF IInv
<1>. QED BY <1>1, Invariance, PTL

\* A guest always runs on its own stage-2 tables with WFI trapped, and the idle
\* vCPU with neither.
THEOREM MachineAlwaysFollows == Spec => []MachineFollowsVcpu
<1>1. IInv => MachineFollowsVcpu
  BY DEF IInv
<1>. QED BY <1>1, Invariance, PTL

\* The one physical timer covers every armed virtual timer, also across a wrap
\* of the 32-bit tick counter.
THEOREM OneTimerSuffices == Spec => []PhysicalTimerCovers
<1>1. IInv => PhysicalTimerCovers
  BY DEF IInv
<1>. QED BY <1>1, Invariance, PTL

\* No virtual interrupt line is ever pending and active at once.
THEOREM LinesNeverNest == Spec => []LineNotNested
<1>1. IInv => LineNotNested
  BY DEF IInv
<1>. QED BY <1>1, Invariance, PTL
-----------------------------------------------------------------------------
(***************************************************************************)
(* The action properties.  They follow from IInv and from what a handler   *)
(* does to the vCPUs other than the current one.                           *)
(***************************************************************************)

\* ExitIsFinal, RoundRobin and NoInterruptStorm as predicates of one step.
ExitKept == \A g \in Guests : vcpus[g].state = "EXITED" => vcpus'[g] = vcpus[g]

ScanMoves ==
    \A g \in Guests :
        /\ vcpus[g].state = "RUNNABLE"
        /\ cur_idx' # cur_idx \/ (gen /\ ~ gen')
        => ScanDistance(cur_idx', g) < ScanDistance(cur_idx, g)

\* What a handler may do to vCPUs that do not run, before it reschedules.
Respects(vs) ==
    \A g \in Guests :
        /\ vcpus[g].state = "EXITED" => vs[g] = vcpus[g]
        /\ vcpus[g].state = "RUNNABLE" => vs[g].state = "RUNNABLE"

\* Distances on the ring of slots, without the modulus.
LEMMA RingDistance ==
    ASSUME NEW M \in Nat \ {0}, NEW a \in 0 .. M - 1, NEW b \in 0 .. M - 1
    PROVE  (b - a) % M = IF a <= b THEN b - a ELSE b - a + M
<1>1. CASE a <= b
  <2>1. b - a \in 0 .. M - 1
    BY <1>1
  <2>. QED BY <1>1, <2>1, ModSmall
<1>2. CASE ~ (a <= b)
  <2>1. b - a + M \in 0 .. M - 1
    BY <1>2
  <2>2. (b - a) % M = b - a + M
    BY <2>1
  <2>. QED BY <1>2, <2>2
<1>. QED BY <1>1, <1>2

\* hv_scheduler_pick_next_idx does not pass over a guest that waits: the vCPU it
\* picks is nearer to that guest than the current one is.
LEMMA PickIsNearer ==
    ASSUME NEW vs, Typed(vs), cur_idx \in Vcpus,
           NEW g \in Guests, g # cur_idx, vs[g].state = "RUNNABLE"
    PROVE  /\ hv_scheduler_pick_next_idx(vs) # None
           /\ ScanDistance(hv_scheduler_pick_next_idx(vs), g) < ScanDistance(cur_idx, g)
<1>. DEFINE N == HV_MAX_VCPUS
            d == IF cur_idx <= g THEN g - cur_idx ELSE g - cur_idx + N
<1>1. N \in Nat \ {0} /\ Vcpus = 0 .. N - 1 /\ g \in Vcpus /\ ~ hv_scheduler_is_idle_idx(g)
  BY HypervisorAssumption, Indices DEF HV_MAX_VCPUS, Vcpus, hv_scheduler_is_idle_idx
<1>. HIDE DEF N
<1>2. ScanDistance(cur_idx, g) = d
  BY <1>1, RingDistance DEF ScanDistance, N
<1>3. d \in 1 .. N /\ (cur_idx + d = g \/ cur_idx + d = g + N)
  BY <1>1
<1>4. ScanIdx(d) = g
  BY <1>1, <1>3, ModSmall DEF ScanIdx, N
<1>. HIDE DEF d
<1>5. d \in RunnableOffsets(vs)
  BY <1>1, <1>3, <1>4 DEF RunnableOffsets, N
<1>6. RunnableOffsets(vs) \in SUBSET Nat
  BY DEF RunnableOffsets
<1>. DEFINE o == CHOOSE q \in RunnableOffsets(vs) : \A p \in RunnableOffsets(vs) : q <= p
<1>7. o \in RunnableOffsets(vs) /\ o <= d
  BY <1>5, <1>6, NatMin
<1>8. hv_scheduler_pick_next_idx(vs) = ScanIdx(o)
  BY <1>5 DEF hv_scheduler_pick_next_idx
<1>9. o \in 1 .. N
  BY <1>7 DEF RunnableOffsets, N
<1>. HIDE DEF o
<1>. DEFINE n == IF cur_idx + o < N THEN cur_idx + o ELSE cur_idx + o - N
<1>10. n \in 0 .. N - 1 /\ (cur_idx + o = n \/ cur_idx + o = n + N)
  BY <1>1, <1>9
<1>11. ScanIdx(o) = n
  BY <1>1, <1>10, ModSmall DEF ScanIdx, N
<1>12. ScanDistance(n, g) = IF n <= g THEN g - n ELSE g - n + N
  <2>. HIDE DEF n
  <2>. QED BY <1>1, <1>10, RingDistance DEF ScanDistance, N
<1>13. ScanDistance(n, g) < d
  BY <1>1, <1>3, <1>7, <1>9, <1>12 DEF d
<1>14. n # None
  BY <1>10 DEF None
<1>. QED BY <1>2, <1>8, <1>11, <1>13, <1>14

\* hv_scheduler_switch_to writes the vCPU it leaves and the one it enters only.
LEMMA SwitchFrame ==
    ASSUME NEW vs, Typed(vs), cur_idx \in Vcpus, NEW next \in Vcpus,
           NEW g \in Guests, g # next, vs[g].state = "EXITED",
           hv_scheduler_switch_to(vs, next)
    PROVE  vcpus'[g] = vs[g]
  BY Indices DEF hv_scheduler_switch_to, Deschedule, SetState, Typed

\* Rescheduling leaves exited vCPUs alone and moves towards every waiting one.
LEMMA AdvanceFrame ==
    ASSUME NEW vs, Typed(vs), cur_idx \in Vcpus, vttbr \in Guests, OnlyCurRuns(vs),
           hv_scheduler_advance(vs), NEW g \in Guests
    PROVE  /\ vs[g].state = "EXITED" => vcpus'[g] = vs[g]
           /\ vs[g].state = "RUNNABLE" /\ g # cur_idx =>
                 ScanDistance(cur_idx', g) < ScanDistance(cur_idx, g)
<1>. DEFINE ws   == Deschedule(vs)
            next == hv_scheduler_pick_next_idx(ws)
<1>1. /\ Typed(ws)
      /\ \A i \in Vcpus : ws[i].state # "RUNNING"
      /\ \A i \in Vcpus \ {cur_idx} : ws[i].state = vs[i].state
  BY DescheduleFacts
<1>2. g \in Vcpus /\ g # HV_IDLE_VCPU_IDX
  BY Indices
<1>3. \/ next = None
      \/ next \in Guests /\ ws[next].state = "RUNNABLE"
  BY <1>1, PickNext
<1>4. IF next = None THEN hv_scheduler_enter_idle(ws) ELSE hv_scheduler_switch_to(ws, next)
  BY DEF hv_scheduler_advance
<1>5. vs[g].state = "EXITED" => ws[g] = vs[g]
  BY <1>2 DEF Deschedule, SetState, Typed
<1>6. vs[g].state = "RUNNABLE" /\ g # cur_idx =>
         next # None /\ ScanDistance(next, g) < ScanDistance(cur_idx, g)
  BY <1>1, <1>2, PickIsNearer
<1>. HIDE DEF ws, next
<1>7. CASE next = None
  <2>1. hv_scheduler_switch_to(ws, HV_IDLE_VCPU_IDX)
    BY <1>4, <1>7 DEF hv_scheduler_enter_idle
  <2>. QED BY <1>1, <1>2, <1>5, <1>6, <1>7, <2>1, SwitchFrame, Indices
<1>8. CASE next # None
  <2>1. hv_scheduler_switch_to(ws, next) /\ next \in Vcpus /\ ws[next].state = "RUNNABLE"
    BY <1>3, <1>4, <1>8, Indices
  <2>2. cur_idx' = next
    BY <2>1 DEF hv_scheduler_switch_to
  <2>3. vs[g].state = "EXITED" => g # next
    BY <1>5, <2>1
  <2>. QED BY <1>1, <1>5, <1>6, <2>1, <2>2, <2>3, SwitchFrame
<1>. QED BY <1>7, <1>8

\* A handler that ends in hv_scheduler_advance has both properties.
LEMMA RescheduleFrame ==
    ASSUME IInv, NEW vs, Typed(vs), OnlyCurRuns(vs), Respects(vs), hv_scheduler_advance(vs)
    PROVE  ExitKept /\ ScanMoves
<1>1. ASSUME NEW g \in Guests
      PROVE  /\ vcpus[g].state = "EXITED" => vcpus'[g] = vcpus[g]
             /\ vcpus[g].state = "RUNNABLE" =>
                   ScanDistance(cur_idx', g) < ScanDistance(cur_idx, g)
  <2>1. /\ vs[g].state = "EXITED" => vcpus'[g] = vs[g]
        /\ vs[g].state = "RUNNABLE" /\ g # cur_idx =>
              ScanDistance(cur_idx', g) < ScanDistance(cur_idx, g)
    BY CurrentTyped, AdvanceFrame
  <2>2. /\ vcpus[g].state = "EXITED" => vs[g] = vcpus[g]
        /\ vcpus[g].state = "RUNNABLE" => vs[g].state = "RUNNABLE"
    BY DEF Respects
  <2>3. vcpus[g].state = "RUNNABLE" => g # cur_idx
    BY CurrentTyped DEF Cur
  <2>. QED BY <2>1, <2>2, <2>3
<1>. QED BY <1>1 DEF ExitKept, ScanMoves

\* A handler that returns to the guest it interrupted has them too.
LEMMA ReturnFrame ==
    ASSUME IInv, Respects(vcpus'), cur_idx' = cur_idx, gen' = gen
    PROVE  ExitKept /\ ScanMoves
  BY CurrentTyped DEF Respects, ExitKept, ScanMoves

\* Replacing the current vCPU, which is RUNNING, touches no other.
LEMMA CurrentFrame ==
    ASSUME IInv, NEW v \in HvVcpu
    PROVE  LET vs == [vcpus EXCEPT ![cur_idx] = v]
           IN  /\ Typed(vs) /\ Respects(vs)
               /\ \A i \in Vcpus \ {cur_idx} : vs[i] = vcpus[i]
<1>. DEFINE vs == [vcpus EXCEPT ![cur_idx] = v]
<1>1. Typed(vs) /\ \A i \in Vcpus \ {cur_idx} : vs[i] = vcpus[i]
  BY CurrentTyped DEF Typed
<1>2. \A g \in Guests : vcpus[g].state \in {"EXITED", "RUNNABLE"} => g # cur_idx
  BY CurrentTyped DEF Cur
<1>. HIDE DEF vs
<1>3. Respects(vs)
  BY <1>1, <1>2, Indices DEF Respects
<1>. QED BY <1>1, <1>3 DEF vs

\* The fields that SetState does not name stay, and so do the other vCPUs.
LEMMA SetCurrentFrame ==
    ASSUME IInv, NEW vs, Typed(vs), Respects(vs), NEW st \in HvVcpuState
    PROVE  Typed(SetState(vs, cur_idx, st)) /\ Respects(SetState(vs, cur_idx, st))
<1>1. \A g \in Guests : vcpus[g].state \in {"EXITED", "RUNNABLE"} => g # cur_idx
  BY CurrentTyped DEF Cur
<1>2. \A i \in Vcpus \ {cur_idx} : SetState(vs, cur_idx, st)[i] = vs[i]
  BY DEF SetState
<1>3. Typed(SetState(vs, cur_idx, st))
  BY CurrentTyped, SetStateFacts
<1>4. Respects(SetState(vs, cur_idx, st))
  BY <1>1, <1>2, Indices DEF Respects
<1>. QED BY <1>3, <1>4

\* HYPERCALL_EXIT and fatal guest aborts.
LEMMA StopFrame ==
    ASSUME IInv, stop_current_guest_vcpu
    PROVE  ExitKept /\ ScanMoves
<1>. DEFINE us == [vcpus EXCEPT ![cur_idx] = hv_vcpu_timer_disable(@)]
            vs == SetState(us, cur_idx, "EXITED")
<1>1. hv_scheduler_advance(vs)
  BY DEF stop_current_guest_vcpu
<1>2. hv_vcpu_timer_disable(Cur) \in HvVcpu
  BY CurrentTyped, TimerOps
<1>3. us = [vcpus EXCEPT ![cur_idx] = hv_vcpu_timer_disable(Cur)]
  BY DEF Cur
<1>4. Typed(us) /\ Respects(us) /\ \A i \in Vcpus \ {cur_idx} : us[i] = vcpus[i]
  BY <1>2, <1>3, CurrentFrame
<1>5. "EXITED" \in HvVcpuState
  BY DEF HvVcpuState
<1>. HIDE DEF us
<1>6. Typed(vs) /\ Respects(vs)
  BY <1>4, <1>5, SetCurrentFrame
<1>7. OnlyCurRuns(vs)
  BY <1>4, <1>5, CurrentTyped, SetStateFacts DEF OnlyCurRuns
<1>. HIDE DEF vs
<1>. QED BY <1>1, <1>6, <1>7, RescheduleFrame

\* hv_scheduler_yield: the early return, and the switch to the vCPU it picked.
LEMMA YieldFrame ==
    ASSUME IInv, hv_scheduler_yield
    PROVE  ExitKept /\ ScanMoves
<1>. DEFINE vs   == SetState(vcpus, cur_idx, "RUNNABLE")
            next == hv_scheduler_pick_next_idx(vs)
<1>1. "RUNNABLE" \in HvVcpuState /\ "RUNNING" \in HvVcpuState
  BY DEF HvVcpuState
<1>2. Respects(vcpus)
  BY DEF Respects
<1>3. Typed(vs) /\ Respects(vs)
  BY <1>1, <1>2, CurrentTyped, SetCurrentFrame
<1>4. /\ gen' = gen
      /\ IF next = None \/ next = cur_idx
         THEN vcpus' = SetState(vs, cur_idx, "RUNNING") /\ UNCHANGED <<cur_idx, hcr, vttbr>>
         ELSE hv_scheduler_switch_to(vs, next)
  BY DEF hv_scheduler_yield
<1>5. \/ next = None
      \/ next \in Guests /\ vs[next].state = "RUNNABLE"
  BY <1>3, CurrentTyped, PickNext
<1>6. ASSUME NEW g \in Guests, g # cur_idx, vs[g].state = "RUNNABLE"
      PROVE  ScanDistance(next, g) < ScanDistance(cur_idx, g)
  BY <1>3, <1>6, CurrentTyped, PickIsNearer
<1>. HIDE DEF vs, next
<1>7. CASE next = None \/ next = cur_idx
  <2>1. Respects(vcpus')
    BY <1>1, <1>3, <1>4, <1>7, SetCurrentFrame
  <2>. QED BY <1>4, <1>7, <2>1, ReturnFrame
<1>8. CASE ~ (next = None \/ next = cur_idx)
  <2>1. /\ next \in Guests /\ vs[next].state = "RUNNABLE" /\ next \in Vcpus
        /\ hv_scheduler_switch_to(vs, next)
    BY <1>4, <1>5, <1>8, Indices
  <2>2. cur_idx' = next
    BY <2>1 DEF hv_scheduler_switch_to
  <2>3. ExitKept
    <3>. SUFFICES ASSUME NEW g \in Guests, vcpus[g].state = "EXITED"
                  PROVE  vcpus'[g] = vcpus[g]
      BY DEF ExitKept
    <3>1. vs[g] = vcpus[g] /\ vs[g].state = "EXITED" /\ g # next
      BY <1>3, <2>1 DEF Respects
    <3>2. vcpus'[g] = vs[g]
      BY <1>3, <2>1, <3>1, CurrentTyped, SwitchFrame
    <3>. QED BY <3>1, <3>2
  <2>4. ScanMoves
    <3>. SUFFICES ASSUME NEW g \in Guests, vcpus[g].state = "RUNNABLE"
                  PROVE  ScanDistance(cur_idx', g) < ScanDistance(cur_idx, g)
      BY DEF ScanMoves
    <3>1. g # cur_idx /\ vs[g].state = "RUNNABLE"
      BY <1>3, CurrentTyped DEF Respects, Cur
    <3>. QED BY <1>6, <2>2, <3>1
  <2>. QED BY <2>3, <2>4
<1>. QED BY <1>7, <1>8

\* The hypercalls on the caller's interrupt bitmaps, and a WFI that completes.
LEMMA UpdateFrame ==
    ASSUME IInv, NEW v \in HvVcpu, UpdateCurVirqs(v)
    PROVE  ExitKept /\ ScanMoves
<1>1. vcpus' = [vcpus EXCEPT ![cur_idx] = v] /\ cur_idx' = cur_idx /\ gen' = gen
  BY DEF UpdateCurVirqs
<1>2. Respects(vcpus')
  BY <1>1, CurrentFrame
<1>. QED BY <1>1, <1>2, ReturnFrame

\* A handler that blocks the current vCPU, and reschedules.
LEMMA BlockFrame ==
    ASSUME IInv, NEW v \in HvVcpu, hv_scheduler_advance([vcpus EXCEPT ![cur_idx] = v])
    PROVE  ExitKept /\ ScanMoves
<1>. DEFINE vs == [vcpus EXCEPT ![cur_idx] = v]
<1>1. Typed(vs) /\ Respects(vs) /\ \A i \in Vcpus \ {cur_idx} : vs[i] = vcpus[i]
  BY CurrentFrame
<1>. HIDE DEF vs
<1>2. OnlyCurRuns(vs)
  BY <1>1, CurrentTyped DEF OnlyCurRuns
<1>. QED BY <1>1, <1>2, RescheduleFrame DEF vs

\* Every hypercall.
LEMMA HypercallFrame ==
    ASSUME IInv, NEW call, hyp_handle_guest_hypercall(call)
    PROVE  (ExitKept /\ ScanMoves) \/ UNCHANGED vars \/ hyp_halt
<1>1. ASSUME HypercallVirqClaim PROVE ExitKept /\ ScanMoves
  BY <1>1, CurrentTyped, ClaimFacts, UpdateFrame DEF HypercallVirqClaim
<1>2. ASSUME NEW virq \in VIRQ_Source, HypercallVirqComplete(virq)
      PROVE  ExitKept /\ ScanMoves
  BY <1>2, CurrentTyped, CompleteFacts, UpdateFrame DEF HypercallVirqComplete
<1>3. ASSUME NEW delay \in Delays, HypercallTimerDelay(delay)
      PROVE  (ExitKept /\ ScanMoves) \/ UNCHANGED vars
  <2>1. delay \in Nat
    BY HypervisorAssumption
  <2>2. CASE delay = 0
    BY <1>3, <2>2 DEF HypercallTimerDelay
  <2>3. CASE delay # 0
    <3>1. hv_vcpu_timer_delay(Cur, now, delay) \in HvVcpu
      BY <2>1, CurrentTyped, TimerOps
    <3>2. hv_scheduler_advance([vcpus EXCEPT ![cur_idx] = hv_vcpu_timer_delay(Cur, now, delay)])
      BY <1>3, <2>3 DEF HypercallTimerDelay, Cur
    <3>. QED BY <3>1, <3>2, BlockFrame
  <2>. QED BY <2>2, <2>3
<1>. QED BY <1>1, <1>2, <1>3, StopFrame, YieldFrame DEF hyp_handle_guest_hypercall

\* hv_scheduler_handle_wfi.
LEMMA WfiFrame ==
    ASSUME IInv, hv_scheduler_handle_wfi
    PROVE  ExitKept /\ ScanMoves
<1>1. CASE Cur.virq_pending # {}
  <2>1. UpdateCurVirqs(Cur)
    BY <1>1 DEF hv_scheduler_handle_wfi
  <2>. QED BY <2>1, CurrentTyped, UpdateFrame
<1>2. CASE Cur.virq_pending = {}
  <2>1. hv_scheduler_advance([vcpus EXCEPT ![cur_idx] = hv_vcpu_block(Cur)])
    BY <1>2 DEF hv_scheduler_handle_wfi, Cur
  <2>2. hv_vcpu_block(Cur) \in HvVcpu
    BY CurrentTyped DEF hv_vcpu_block, HvVcpu, HvVcpuState
  <2>. QED BY <2>1, <2>2, BlockFrame
<1>. QED BY <1>1, <1>2

\* hv_virq_raise leaves the timer alone and at most wakes the vCPU.
LEMMA RaiseKeeps ==
    ASSUME NEW v \in HvVcpu, NEW virq \in VIRQ_Source
    PROVE  /\ hv_virq_raise(v, virq).timer = v.timer
           /\ \/ hv_virq_raise(v, virq).state = v.state
              \/ v.state = "BLOCKED" /\ hv_virq_raise(v, virq).state = "RUNNABLE"
<1>1. CASE RaiseBusy(v, virq)
  BY <1>1 DEF hv_virq_raise
<1>2. CASE ~ RaiseBusy(v, virq)
  <2>. DEFINE w == [v EXCEPT !.virq_pending = @ \cup {virq}]
  <2>1. w \in HvVcpu /\ w.timer = v.timer /\ w.state = v.state
    BY DEF HvVcpu
  <2>2. hv_virq_raise(v, virq) = hv_vcpu_wake(w)
    BY <1>2 DEF hv_virq_raise
  <2>. HIDE DEF w
  <2>3. /\ hv_vcpu_wake(w).timer = w.timer
        /\ hv_vcpu_wake(w).state = IF w.state = "BLOCKED" THEN "RUNNABLE" ELSE w.state
    BY <2>1 DEF hv_vcpu_wake, HvVcpu
  <2>. QED BY <2>1, <2>2, <2>3
<1>. QED BY <1>1, <1>2

\* Once hv_vcpu_timer_advance is through, the timer has not expired.
LEMMA AdvancedNotExpired ==
    ASSUME NEW v \in HvVcpu, NEW n \in Nat
    PROVE  ~ hv_vcpu_timer_expired(hv_vcpu_timer_advance(v, n), n)
<1>1. v.timer \in HvVcpuTimer
  BY DEF HvVcpu
<1>2. CASE v.timer.enabled /\ v.timer.period # 0
  <2>1. NextDeadline(v.timer, n) \in Nat /\ n < NextDeadline(v.timer, n)
    BY <1>1, <1>2, NextDeadlineType
  <2>2. hv_vcpu_timer_advance(v, n)
          = [v EXCEPT !.timer.deadline = NextDeadline(v.timer, n)]
    BY <1>2 DEF hv_vcpu_timer_advance
  <2>3. hv_vcpu_timer_advance(v, n).timer.deadline = NextDeadline(v.timer, n)
    BY <2>2 DEF HvVcpu, HvVcpuTimer
  <2>. QED BY <2>1, <2>3 DEF hv_vcpu_timer_expired
<1>3. CASE ~ v.timer.enabled
  BY <1>3 DEF hv_vcpu_timer_advance, hv_vcpu_timer_expired
<1>4. CASE v.timer.enabled /\ v.timer.period = 0
  <2>1. hv_vcpu_timer_advance(v, n) = hv_vcpu_timer_disable(v)
    BY <1>4 DEF hv_vcpu_timer_advance
  <2>. QED
    BY <2>1 DEF hv_vcpu_timer_disable, TimerOff, hv_vcpu_timer_expired, HvVcpu
<1>. QED BY <1>2, <1>3, <1>4

\* The loop of deliver_expired_timers: only guests that may run are touched, and
\* none of these is left with an expired timer.
LEMMA DeliverFacts ==
    ASSUME IInv
    PROVE  LET vs == deliver_expired_timers
           IN  /\ Typed(vs) /\ OnlyCurRuns(vs) /\ Respects(vs)
               /\ \A g \in Armed(vs) : ~ hv_vcpu_timer_expired(vs[g], now)
<1>. DEFINE vs == deliver_expired_timers
<1>1. VIRQ_TIMER \in VIRQ_Source
  BY VirqAssumption DEF VIRQ_TIMER, VIRQ_Source
<1>2. ASSUME NEW i \in Vcpus, ~ (i \in Guests /\ Delivers(i))
      PROVE  vs[i] = vcpus[i]
  BY <1>2 DEF deliver_expired_timers
<1>3. ASSUME NEW i \in Vcpus, i \in Guests, Delivers(i)
      PROVE  /\ vs[i] \in HvVcpu
             /\ vs[i].state = "RUNNING" <=> vcpus[i].state = "RUNNING"
             /\ vcpus[i].state = "RUNNABLE" => vs[i].state = "RUNNABLE"
             /\ vcpus[i].state # "EXITED"
             /\ ~ hv_vcpu_timer_expired(vs[i], now)
  <2>. DEFINE r == hv_virq_raise(vcpus[i], VIRQ_TIMER)
  <2>1. vcpus[i] \in HvVcpu /\ now \in Nat
    BY CurrentTyped DEF Typed
  <2>2. /\ r \in HvVcpu
        /\ r.state = "RUNNING" <=> vcpus[i].state = "RUNNING"
        /\ vcpus[i].state = "RUNNABLE" => r.state = "RUNNABLE"
    BY <1>1, <2>1, RaiseFacts, RaiseKeeps
  <2>3. vs[i] = hv_vcpu_timer_advance(r, now)
    BY <1>3 DEF deliver_expired_timers
  <2>4. vcpus[i].state # "EXITED"
    BY <1>3 DEF Delivers
  <2>. HIDE DEF r, vs
  <2>5. /\ hv_vcpu_timer_advance(r, now) \in HvVcpu
        /\ hv_vcpu_timer_advance(r, now).state = r.state
    BY <2>1, <2>2, TimerOps
  <2>6. ~ hv_vcpu_timer_expired(hv_vcpu_timer_advance(r, now), now)
    BY <2>1, <2>2, AdvancedNotExpired
  <2>. QED BY <2>2, <2>3, <2>4, <2>5, <2>6
<1>4. vs = [i \in Vcpus |-> vs[i]]
  BY DEF deliver_expired_timers
<1>. HIDE DEF vs
<1>5. Typed(vs)
  <2>1. \A i \in Vcpus : vs[i] \in HvVcpu
    BY <1>2, <1>3, CurrentTyped DEF Typed
  <2>. QED BY <1>4, <2>1 DEF Typed
<1>6. OnlyCurRuns(vs)
  BY <1>2, <1>3, CurrentTyped DEF OnlyCurRuns
<1>7. Respects(vs)
  BY <1>2, <1>3, Indices DEF Respects
<1>8. ASSUME NEW g \in Armed(vs) PROVE ~ hv_vcpu_timer_expired(vs[g], now)
  <2>1. g \in Guests /\ g \in Vcpus /\ vs[g].state \notin {"IDLE", "EXITED"}
    BY Indices DEF Armed
  <2>2. CASE Delivers(g)
    BY <1>3, <2>1, <2>2
  <2>3. CASE ~ Delivers(g)
    BY <1>2, <2>1, <2>3 DEF Delivers
  <2>. QED BY <2>2, <2>3
<1>. QED BY <1>5, <1>6, <1>7, <1>8 DEF vs

\* The virtual-timer interrupt.
LEMMA BcmFrame ==
    ASSUME IInv, handle_irq_bcm
    PROVE  ExitKept /\ ScanMoves
<1>. DEFINE vs == deliver_expired_timers
<1>1. Typed(vs) /\ OnlyCurRuns(vs) /\ Respects(vs)
  BY DeliverFacts
<1>2. AfterDelivery(vs, \E g \in Guests : Delivers(g)) /\ gen' = gen
  BY DEF handle_irq_bcm
<1>. HIDE DEF vs
<1>3. CASE hv_scheduler_is_idle_idx(cur_idx)
  BY <1>1, <1>2, <1>3, RescheduleFrame DEF AfterDelivery
<1>4. CASE ~ hv_scheduler_is_idle_idx(cur_idx)
  <2>1. vcpus' = vs /\ cur_idx' = cur_idx
    BY <1>2, <1>4 DEF AfterDelivery
  <2>. QED BY <1>1, <1>2, <2>1, ReturnFrame
<1>. QED BY <1>3, <1>4

\* What hv_vtimer_rearm_physical programs lies in the future.
LEMMA RearmedInFuture ==
    ASSUME NEW vs, Typed(vs), now \in Nat
    PROVE  ~ (RearmedTimer(vs).irq_en /\ RearmedTimer(vs).count <= 0)
<1>1. CASE Armed(vs) = {}
  BY <1>1 DEF RearmedTimer, TIM_Disable_IRQ
<1>2. CASE Armed(vs) # {}
  <2>. DEFINE D == {vs[g].timer.deadline : g \in Armed(vs)}
  <2>1. \A g \in Armed(vs) : vs[g].timer.deadline \in Nat
    BY Indices DEF Armed, Typed, HvVcpu, HvVcpuTimer
  <2>2. D \in SUBSET Nat /\ D # {}
    BY <1>2, <2>1
  <2>3. PICK d \in D : \A e \in D : d <= e
    BY <2>2, NatMin
  <2>4. Earliest(vs) \in D
    BY <2>3 DEF Earliest
  <2>5. Earliest(vs) \in Nat
    BY <2>2, <2>4
  <2>6. RearmDelta(vs) \in Nat \ {0}
    BY <2>5, HypervisorAssumption DEF RearmDelta
  <2>7. RearmedTimer(vs) = [irq_en |-> TRUE, count |-> RearmDelta(vs)]
    BY <1>2 DEF RearmedTimer, TIM_Arm_Usec
  <2>. QED BY <2>6, <2>7
<1>. QED BY <1>1, <1>2

\* After the timer interrupt neither the physical nor a virtual timer is due.
LEMMA BcmLeavesNothingDue ==
    ASSUME IInv, handle_irq_bcm
    PROVE  /\ ~ (tim'.irq_en /\ tim'.count <= 0)
           /\ \A g \in Armed(vcpus') : ~ hv_vcpu_timer_expired(vcpus'[g], now')
<1>. DEFINE vs == deliver_expired_timers
<1>1. /\ Typed(vs) /\ OnlyCurRuns(vs)
      /\ \A g \in Armed(vs) : ~ hv_vcpu_timer_expired(vs[g], now)
  BY DeliverFacts
<1>2. /\ tim' = RearmedTimer(vs) /\ now' = now
      /\ AfterDelivery(vs, \E g \in Guests : Delivers(g))
  BY DEF handle_irq_bcm, hv_vtimer_rearm_physical
<1>. HIDE DEF vs
<1>3. ~ (tim'.irq_en /\ tim'.count <= 0)
  BY <1>1, <1>2, CurrentTyped, RearmedInFuture
<1>4. SameTimers(vs, vcpus')
  <2>1. CASE hv_scheduler_is_idle_idx(cur_idx)
    <3>1. hv_scheduler_advance(vs)
      BY <1>2, <2>1 DEF AfterDelivery
    <3>2. Switched(vs)
      BY <1>1, <3>1, CurrentTyped, Advance
    <3>. QED BY <3>2 DEF Switched
  <2>2. CASE ~ hv_scheduler_is_idle_idx(cur_idx)
    BY <1>2, <2>2 DEF AfterDelivery, SameTimers
  <2>. QED BY <2>1, <2>2
<1>5. Armed(vcpus') = Armed(vs) /\ \A g \in Armed(vs) : vcpus'[g].timer = vs[g].timer
  BY <1>4 DEF Armed, SameTimers
<1>6. \A g \in Armed(vcpus') : ~ hv_vcpu_timer_expired(vcpus'[g], now')
  BY <1>1, <1>2, <1>5 DEF hv_vcpu_timer_expired
<1>. QED BY <1>3, <1>6

\* Every step leaves exited vCPUs alone and moves the scan forward.
LEMMA StepFrame == IInv /\ [Next]_vars => [ExitKept]_vars /\ [ScanMoves]_vars
<1>. SUFFICES ASSUME IInv, Next PROVE (ExitKept /\ ScanMoves) \/ UNCHANGED vars
  OBVIOUS
<1>1. ASSUME UNCHANGED <<vcpus, cur_idx>>, gen' = gen \/ gen' = TRUE
      PROVE  ExitKept /\ ScanMoves
  BY <1>1, CurrentTyped DEF ExitKept, ScanMoves
<1>2. ASSUME hyp_halt PROVE ExitKept /\ ScanMoves
  BY <1>1, <1>2 DEF hyp_halt
<1>3. ASSUME NEW call, hyp_handle_guest_hypercall(call)
      PROVE  (ExitKept /\ ScanMoves) \/ UNCHANGED vars
  BY <1>2, <1>3, HypercallFrame
<1>4. CASE hv_scheduler_handle_wfi
  BY <1>4, WfiFrame
<1>5. CASE handle_guest_abort
  BY <1>5, StopFrame DEF handle_guest_abort
<1>6. CASE UnhandledTrap \/ UnexpectedIrq
  BY <1>2, <1>6 DEF UnhandledTrap, UnexpectedIrq
<1>7. CASE handle_irq_generic
  <2>1. hv_scheduler_advance(vcpus) /\ Respects(vcpus)
    BY <1>7 DEF handle_irq_generic, Respects
  <2>. QED BY <2>1, CurrentTyped, RescheduleFrame
<1>8. CASE handle_irq_bcm
  BY <1>8, BcmFrame
<1>9. CASE Tick
  BY <1>1, <1>9 DEF Tick
<1>10. CASE GenericTimerExpires
  BY <1>1, <1>10 DEF GenericTimerExpires
<1>11. CASE HaltLoop
  BY <1>11 DEF HaltLoop
<1>. QED
  BY <1>3, <1>4, <1>5, <1>6, <1>7, <1>8, <1>9, <1>10, <1>11 DEF Next

\* For any number of guests, an exited vCPU is never written again: not by the
\* scheduler, not by the delivery of timers, not by another guest's calls.
THEOREM ExitedStaysExited == Spec => ExitIsFinal
<1>1. IInv /\ [Next]_vars => [ExitKept]_vars
  BY StepFrame
<1>. QED BY <1>1, Invariance, PTL DEF Spec, ExitIsFinal, ExitKept

\* For any number of guests, every switch and every preemption comes strictly
\* nearer to each waiting guest on the ring of slots: a guest is passed over by
\* each of the others at most once.
THEOREM NobodyIsPassedOver == Spec => RoundRobin
<1>1. IInv /\ [Next]_vars => [ScanMoves]_vars
  BY StepFrame
<1>. QED BY <1>1, Invariance, PTL DEF Spec, RoundRobin, ScanMoves

\* For any periods, delays and lateness, a timer interrupt leaves neither the
\* physical timer nor a virtual one due.
THEOREM TimerInterruptSettles == Spec => NoInterruptStorm
<1>. DEFINE Settled == handle_irq_bcm =>
                          /\ ~ (tim'.irq_en /\ tim'.count <= 0)
                          /\ \A g \in Armed(vcpus') : ~ hv_vcpu_timer_expired(vcpus'[g], now')
<1>1. IInv /\ [Next]_vars => [Settled]_vars
  BY BcmLeavesNothingDue
<1>. QED BY <1>1, Invariance, PTL DEF Spec, NoInterruptStorm
=============================================================================
