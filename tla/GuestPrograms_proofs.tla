------------------------ MODULE GuestPrograms_proofs ------------------------
(***************************************************************************)
(* Proofs about the guest programs on the hypervisor, for every number of  *)
(* guests, timer period, delay, loop count and latency.  Deadlines count   *)
(* from now in this model and may be negative, so the vCPU table has a     *)
(* type of its own; of the physical timer nothing is needed.               *)
(***************************************************************************)
EXTENDS GuestPrograms, Hypervisor_proofs

GuestTimer == [enabled : BOOLEAN, deadline : Int, period : Nat]

GuestVcpu == [state        : HvVcpuState,
              virq_pending : SUBSET VIRQ_Source,
              virq_active  : SUBSET VIRQ_Source,
              timer        : GuestTimer]

Table(vs) == vs \in [Vcpus -> GuestVcpu]

\* The machine between two steps: one vCPU runs, and it is the current one.
Machine == Table(vcpus) /\ cur_idx \in Vcpus /\ now = 0 /\ OneRunning

(***************************************************************************)
(* What a step that only schedules leaves alone: pending interrupts, and a *)
(* guest that is blocked, with its timer.                                  *)
(***************************************************************************)
Calm(vs) ==
    \A g \in Guests :
        /\ vcpus'[g].virq_pending = vs[g].virq_pending
        /\ vs[g].state = "BLOCKED" => /\ vcpus'[g].state = "BLOCKED"
                                      /\ vcpus'[g].timer = vs[g].timer

-----------------------------------------------------------------------------
\* Only the state field of one vCPU changes.
LEMMA TableSetState ==
    ASSUME NEW vs, Table(vs), NEW i \in Vcpus, NEW st \in HvVcpuState
    PROVE  /\ Table(SetState(vs, i, st))
           /\ \A j \in Vcpus :
                 /\ SetState(vs, i, st)[j].state = IF j = i THEN st ELSE vs[j].state
                 /\ SetState(vs, i, st)[j].timer = vs[j].timer
                 /\ SetState(vs, i, st)[j].virq_pending = vs[j].virq_pending
  BY DEF SetState, Table, GuestVcpu

\* The vCPU that is switched away from stops running; nothing else changes.
LEMMA TableDeschedule ==
    ASSUME NEW vs, Table(vs), cur_idx \in Vcpus, OnlyCurRuns(vs)
    PROVE  /\ Table(Deschedule(vs))
           /\ \A i \in Vcpus :
                 /\ Deschedule(vs)[i].state # "RUNNING"
                 /\ vs[i].state # "RUNNING" => Deschedule(vs)[i].state = vs[i].state
                 /\ Deschedule(vs)[i].timer = vs[i].timer
                 /\ Deschedule(vs)[i].virq_pending = vs[i].virq_pending
<1> DEFINE st == IF hv_scheduler_is_idle_idx(cur_idx) THEN "IDLE" ELSE "RUNNABLE"
<1>1. st \in HvVcpuState /\ st # "RUNNING" BY DEF HvVcpuState
<1>2. CASE vs[cur_idx].state = "RUNNING"
  <2>1. Deschedule(vs) = SetState(vs, cur_idx, st) BY <1>2 DEF Deschedule
  <2> HIDE DEF st
  <2> QED BY <1>1, <1>2, <2>1, TableSetState DEF OnlyCurRuns
<1>3. CASE vs[cur_idx].state # "RUNNING"
  BY <1>3 DEF Deschedule, OnlyCurRuns
<1> QED BY <1>2, <1>3

\* hv_scheduler_switch_to, to the idle vCPU or to a runnable guest.
LEMMA TableSwitch ==
    ASSUME NEW vs, Table(vs), cur_idx \in Vcpus, OnlyCurRuns(vs), NEW next \in Vcpus,
           next \in Guests => vs[next].state # "BLOCKED",
           vcpus' = SetState(Deschedule(vs), next, "RUNNING"), cur_idx' = next
    PROVE  Table(vcpus') /\ cur_idx' \in Vcpus /\ OneRunning' /\ Calm(vs)
<1> DEFINE ws == Deschedule(vs)
<1>1. /\ Table(ws)
      /\ \A i \in Vcpus :
            /\ ws[i].state # "RUNNING"
            /\ vs[i].state # "RUNNING" => ws[i].state = vs[i].state
            /\ ws[i].timer = vs[i].timer
            /\ ws[i].virq_pending = vs[i].virq_pending
  BY TableDeschedule
<1>2. vcpus' = SetState(ws, next, "RUNNING") OBVIOUS
<1> HIDE DEF ws
<1>3. "RUNNING" \in HvVcpuState BY DEF HvVcpuState
<1>4. /\ Table(vcpus')
      /\ \A j \in Vcpus :
            /\ vcpus'[j].state = IF j = next THEN "RUNNING" ELSE ws[j].state
            /\ vcpus'[j].timer = ws[j].timer
            /\ vcpus'[j].virq_pending = ws[j].virq_pending
  BY <1>1, <1>2, <1>3, TableSetState
<1>5. OneRunning' BY <1>1, <1>4 DEF OneRunning
<1>6. Calm(vs)
  <2> SUFFICES ASSUME NEW g \in Guests
               PROVE  /\ vcpus'[g].virq_pending = vs[g].virq_pending
                      /\ vs[g].state = "BLOCKED" => /\ vcpus'[g].state = "BLOCKED"
                                                    /\ vcpus'[g].timer = vs[g].timer
    BY DEF Calm
  <2>1. g \in Vcpus BY Indices
  <2> QED BY <1>1, <1>4, <2>1
<1> QED BY <1>4, <1>5, <1>6

\* hv_scheduler_advance.
LEMMA TableAdvance ==
    ASSUME NEW vs, Table(vs), cur_idx \in Vcpus, OnlyCurRuns(vs), hv_scheduler_advance(vs)
    PROVE  Table(vcpus') /\ cur_idx' \in Vcpus /\ OneRunning' /\ Calm(vs)
<1> DEFINE ws == Deschedule(vs)
           next == hv_scheduler_pick_next_idx(ws)
<1>1. /\ Table(ws)
      /\ \A i \in Vcpus :
            /\ ws[i].state # "RUNNING"
            /\ vs[i].state # "RUNNING" => ws[i].state = vs[i].state
            /\ ws[i].timer = vs[i].timer
            /\ ws[i].virq_pending = vs[i].virq_pending
  BY TableDeschedule
<1>2. next = None \/ (next \in Guests /\ ws[next].state = "RUNNABLE")
  BY PickNext
<1>3. \E n \in Vcpus : /\ n \in Guests => ws[n].state # "BLOCKED"
                       /\ vcpus' = SetState(Deschedule(ws), n, "RUNNING") /\ cur_idx' = n
  <2>1. CASE next = None
    <3>1. hv_scheduler_switch_to(ws, HV_IDLE_VCPU_IDX)
      BY <2>1 DEF hv_scheduler_advance, hv_scheduler_enter_idle
    <3> QED BY <3>1, Indices DEF hv_scheduler_switch_to
  <2>2. CASE next # None
    <3>1. hv_scheduler_switch_to(ws, next) BY <2>2 DEF hv_scheduler_advance
    <3> HIDE DEF next
    <3> QED BY <1>2, <2>2, <3>1, Indices DEF hv_scheduler_switch_to
  <2> QED BY <2>1, <2>2
<1>4. OnlyCurRuns(ws) BY <1>1 DEF OnlyCurRuns
<1> HIDE DEF ws, next
<1>5. Table(vcpus') /\ cur_idx' \in Vcpus /\ OneRunning' /\ Calm(ws)
  BY <1>1, <1>3, <1>4, TableSwitch
<1>6. Calm(vs)
  <2> SUFFICES ASSUME NEW g \in Guests
               PROVE  /\ vcpus'[g].virq_pending = vs[g].virq_pending
                      /\ vs[g].state = "BLOCKED" => /\ vcpus'[g].state = "BLOCKED"
                                                    /\ vcpus'[g].timer = vs[g].timer
    BY DEF Calm
  <2>1. g \in Vcpus BY Indices
  <2> QED BY <1>1, <1>5, <2>1 DEF Calm
<1> QED BY <1>5, <1>6

-----------------------------------------------------------------------------
(***************************************************************************)
(* The operations of the hypervisor that guest programs use.               *)
(***************************************************************************)
\* A guest that executes is the one running vCPU.
LEMMA RunningGuest ==
    ASSUME Machine, GuestRuns
    PROVE  /\ cur_idx \in Guests /\ cur_idx \in Vcpus /\ Table(vcpus)
           /\ OnlyCurRuns(vcpus) /\ Cur \in GuestVcpu /\ Cur.state = "RUNNING"
  BY Indices DEF Machine, GuestRuns, hv_scheduler_is_idle_idx, OneRunning, OnlyCurRuns,
                 Table, Cur

\* A new timer in a vCPU.
LEMMA SetTimer ==
    ASSUME NEW v \in GuestVcpu, NEW t \in GuestTimer, NEW w, w = [v EXCEPT !.timer = t]
    PROVE  /\ w \in GuestVcpu /\ w.timer = t
           /\ w.state = v.state /\ w.virq_pending = v.virq_pending
  BY DEF GuestVcpu

\* hv_vcpu_timer_delay: asleep, with the timer on and the deadline it asked for.
LEMMA DelayedVcpu ==
    ASSUME NEW v \in GuestVcpu, NEW delay \in Nat \ {0},
           NEW w, w = hv_vcpu_timer_delay(v, 0, delay)
    PROVE  /\ w \in GuestVcpu /\ w.virq_pending = v.virq_pending /\ w.state = "BLOCKED"
           /\ w.timer.enabled /\ w.timer.deadline = delay
<1> DEFINE t == [v.timer EXCEPT !.enabled = TRUE, !.deadline = delay]
           u == [v EXCEPT !.timer = t]
<1>1. v.timer \in GuestTimer BY DEF GuestVcpu
<1>2. t \in GuestTimer /\ t.enabled /\ t.deadline = delay
  <2>1. t \in GuestTimer
    <3>1. delay \in Int OBVIOUS
    <3> HIDE DEF u
    <3> QED BY <1>1, <3>1 DEF GuestTimer
  <2>2. t.deadline = delay BY <1>1 DEF GuestTimer
  <2>3. t.enabled = TRUE BY <1>1, Zenon DEF GuestTimer
  <2> QED BY <2>1, <2>2, <2>3
<1>3. w = hv_vcpu_block(u)
  <2>1. 0 + delay = delay OBVIOUS
  <2> QED BY <1>1, <2>1 DEF hv_vcpu_timer_delay, GuestVcpu, GuestTimer
<1> HIDE DEF t
<1>4. u \in GuestVcpu /\ u.timer = t /\ u.virq_pending = v.virq_pending BY <1>2, SetTimer
<1> HIDE DEF u
<1> QED BY <1>2, <1>3, <1>4 DEF hv_vcpu_block, GuestVcpu, HvVcpuState

\* A new value for the current vCPU, before the scheduler is called.
LEMMA TableUpdate ==
    ASSUME Machine, NEW v \in GuestVcpu, NEW vs, vs = [vcpus EXCEPT ![cur_idx] = v]
    PROVE  /\ Table(vs) /\ OnlyCurRuns(vs)
           /\ \A i \in Vcpus : vs[i] = IF i = cur_idx THEN v ELSE vcpus[i]
  BY DEF Machine, Table, OneRunning, OnlyCurRuns

\* stop_current_guest_vcpu: the caller was running, so no sleeper is disturbed.
LEMMA StopCalm ==
    ASSUME Machine, GuestRuns, stop_current_guest_vcpu
    PROVE  Machine' /\ Calm(vcpus)
<1> DEFINE v  == hv_vcpu_timer_disable(vcpus[cur_idx])
           us == [vcpus EXCEPT ![cur_idx] = v]
           vs == SetState(us, cur_idx, "EXITED")
<1>1. hv_scheduler_advance(vs) /\ now' = now
  BY DEF stop_current_guest_vcpu
<1>2. /\ v \in GuestVcpu /\ v.virq_pending = Cur.virq_pending /\ v.state = "RUNNING"
  <2>1. TimerOff \in GuestTimer BY DEF TimerOff, GuestTimer
  <2>2. v = [Cur EXCEPT !.timer = TimerOff] BY DEF Cur, hv_vcpu_timer_disable
  <2> QED BY <2>1, <2>2, RunningGuest, SetTimer
<1> HIDE DEF v
<1>3. /\ Table(us) /\ OnlyCurRuns(us)
      /\ \A i \in Vcpus : us[i] = IF i = cur_idx THEN v ELSE vcpus[i]
  BY <1>2, TableUpdate
<1> HIDE DEF us
<1>4. cur_idx \in Vcpus /\ "EXITED" \in HvVcpuState /\ Cur.state = "RUNNING"
  BY RunningGuest DEF HvVcpuState
<1>5. /\ Table(vs)
      /\ \A j \in Vcpus :
            /\ vs[j].state = IF j = cur_idx THEN "EXITED" ELSE us[j].state
            /\ vs[j].timer = us[j].timer
            /\ vs[j].virq_pending = us[j].virq_pending
  BY <1>3, <1>4, TableSetState
<1> HIDE DEF vs
<1>6. OnlyCurRuns(vs) BY <1>3, <1>5 DEF OnlyCurRuns
<1>7. Table(vcpus') /\ cur_idx' \in Vcpus /\ OneRunning' /\ Calm(vs)
  BY <1>1, <1>4, <1>5, <1>6, TableAdvance
<1>8. Machine' BY <1>1, <1>7 DEF Machine
<1>9. Calm(vcpus)
  <2> SUFFICES ASSUME NEW g \in Guests
               PROVE  /\ vcpus'[g].virq_pending = vcpus[g].virq_pending
                      /\ vcpus[g].state = "BLOCKED" => /\ vcpus'[g].state = "BLOCKED"
                                                       /\ vcpus'[g].timer = vcpus[g].timer
    BY DEF Calm
  <2>1. g \in Vcpus BY Indices
  <2> QED BY <1>2, <1>3, <1>4, <1>5, <1>7, <2>1 DEF Calm, Cur
<1> QED BY <1>8, <1>9

\* hv_scheduler_yield, both with and without another guest to run.
LEMMA YieldCalm ==
    ASSUME Machine, GuestRuns, hv_scheduler_yield
    PROVE  Machine' /\ Calm(vcpus)
<1> DEFINE vs   == SetState(vcpus, cur_idx, "RUNNABLE")
           next == hv_scheduler_pick_next_idx(vs)
<1>1. /\ cur_idx \in Vcpus /\ Table(vcpus) /\ OnlyCurRuns(vcpus)
      /\ vcpus[cur_idx].state = "RUNNING"
      /\ {"RUNNABLE", "RUNNING"} \subseteq HvVcpuState
  BY RunningGuest DEF HvVcpuState, Cur
<1>2. /\ Table(vs)
      /\ \A j \in Vcpus :
            /\ vs[j].state = IF j = cur_idx THEN "RUNNABLE" ELSE vcpus[j].state
            /\ vs[j].timer = vcpus[j].timer
            /\ vs[j].virq_pending = vcpus[j].virq_pending
  BY <1>1, TableSetState
<1>3. next = None \/ (next \in Guests /\ vs[next].state = "RUNNABLE")
  BY <1>1, PickNext
<1>4. \/ vcpus' = SetState(vs, cur_idx, "RUNNING") /\ cur_idx' = cur_idx
      \/ next \in Guests /\ hv_scheduler_switch_to(vs, next)
  BY <1>3 DEF hv_scheduler_yield
<1>5. now' = now BY DEF hv_scheduler_yield
<1> HIDE DEF vs, next
<1>6. OnlyCurRuns(vs) BY <1>1, <1>2 DEF OnlyCurRuns
<1>7. CASE vcpus' = SetState(vs, cur_idx, "RUNNING") /\ cur_idx' = cur_idx
  <2>1. /\ Table(vcpus')
        /\ \A j \in Vcpus :
              /\ vcpus'[j].state = IF j = cur_idx THEN "RUNNING" ELSE vs[j].state
              /\ vcpus'[j].timer = vs[j].timer
              /\ vcpus'[j].virq_pending = vs[j].virq_pending
    BY <1>1, <1>2, <1>7, TableSetState
  <2>2. OneRunning' BY <1>1, <1>2, <1>6, <1>7, <2>1 DEF OneRunning, OnlyCurRuns
  <2>3. Calm(vcpus) BY <1>1, <1>2, <2>1, Indices DEF Calm
  <2> QED BY <1>1, <1>5, <1>7, <2>1, <2>2, <2>3 DEF Machine
<1>8. CASE next \in Guests /\ hv_scheduler_switch_to(vs, next)
  <2>1. Table(vcpus') /\ cur_idx' \in Vcpus /\ OneRunning' /\ Calm(vs)
    BY <1>1, <1>2, <1>3, <1>6, <1>8, TableSwitch, Indices DEF hv_scheduler_switch_to
  <2>2. Calm(vcpus) BY <1>1, <1>2, <2>1, Indices DEF Calm
  <2> QED BY <1>5, <2>1, <2>2 DEF Machine
<1> QED BY <1>4, <1>7, <1>8

\* hv_virq_claim and hv_virq_complete change the bitmaps of the caller only.
LEMMA UpdateKeeps ==
    ASSUME Machine, GuestRuns, NEW v \in GuestVcpu, UpdateCurVirqs(v),
           v.state = Cur.state, v.timer = Cur.timer
    PROVE  /\ Machine'
           /\ \A i \in Vcpus : vcpus'[i] = IF i = cur_idx THEN v ELSE vcpus[i]
<1>1. vcpus' = [vcpus EXCEPT ![cur_idx] = v] /\ cur_idx' = cur_idx /\ now' = now
  BY DEF UpdateCurVirqs
<1>2. /\ Table(vcpus')
      /\ \A i \in Vcpus : vcpus'[i] = IF i = cur_idx THEN v ELSE vcpus[i]
  BY <1>1, TableUpdate
<1>3. OneRunning' BY <1>1, <1>2, RunningGuest DEF Machine, OneRunning, Cur
<1> QED BY <1>1, <1>2, <1>3 DEF Machine

\* hv_virq_complete touches the active bitmap only.
LEMMA CompleteCalm ==
    ASSUME Machine, GuestRuns, NEW virq, HypercallVirqComplete(virq)
    PROVE  Machine' /\ Calm(vcpus)
<1> DEFINE v == hv_virq_complete(Cur, virq)
<1>1. /\ v \in GuestVcpu /\ v.state = Cur.state /\ v.timer = Cur.timer
      /\ v.virq_pending = Cur.virq_pending
  <2>1. Cur \in GuestVcpu BY RunningGuest
  <2> QED BY <2>1 DEF hv_virq_complete, GuestVcpu
<1>2. UpdateCurVirqs(v) BY DEF HypercallVirqComplete
<1> HIDE DEF v
<1>3. /\ Machine'
      /\ \A i \in Vcpus : vcpus'[i] = IF i = cur_idx THEN v ELSE vcpus[i]
  BY <1>1, <1>2, UpdateKeeps
<1> QED BY <1>1, <1>3, Indices DEF Calm, Cur

\* hv_virq_claim takes the timer line, the only one that is ever raised, or
\* finds nothing.
LEMMA ClaimTakes ==
    ASSUME Machine, GuestRuns, HypercallVirqClaim, Cur.virq_pending \subseteq {VIRQ_TIMER}
    PROVE  /\ Machine'
           /\ \A i \in Vcpus : /\ vcpus'[i].state = vcpus[i].state
                               /\ vcpus'[i].timer = vcpus[i].timer
           /\ \A i \in Vcpus \ {cur_idx} : vcpus'[i] = vcpus[i]
           /\ vcpus'[cur_idx].virq_pending = {}
           /\ ClaimedVirq(Cur) = IF Cur.virq_pending = {} THEN NoPending ELSE VIRQ_TIMER
<1> DEFINE v == hv_virq_claim(Cur)
           c == ClaimedVirq(Cur)
<1>1. Cur \in GuestVcpu BY RunningGuest
<1>2. c = IF Cur.virq_pending = {} THEN NoPending ELSE VIRQ_TIMER
  <2>1. CASE Cur.virq_pending = {} BY <2>1 DEF ClaimedVirq
  <2>2. CASE Cur.virq_pending # {}
    <3>1. Cur.virq_pending = {VIRQ_TIMER} BY <2>2
    <3>2. c = CHOOSE i \in {VIRQ_TIMER} : \A j \in {VIRQ_TIMER} : i <= j
      BY <3>1 DEF ClaimedVirq
    <3>3. \E i \in {VIRQ_TIMER} : \A j \in {VIRQ_TIMER} : i <= j BY DEF VIRQ_TIMER
    <3>4. c = VIRQ_TIMER BY <3>2, <3>3
    <3> QED BY <2>2, <3>4
  <2> QED BY <2>1, <2>2
<1>3. v = IF Cur.virq_pending = {} THEN Cur
          ELSE [Cur EXCEPT !.virq_pending = Cur.virq_pending \ {c},
                           !.virq_active = Cur.virq_active \cup {c}]
  BY DEF hv_virq_claim
<1> HIDE DEF c
<1>4. /\ v \in GuestVcpu /\ v.state = Cur.state /\ v.timer = Cur.timer
      /\ v.virq_pending = {}
  <2>1. CASE Cur.virq_pending = {} BY <1>1, <1>3, <2>1
  <2>2. CASE Cur.virq_pending # {}
    <3>1. /\ Cur.virq_pending \ {c} = {}
          /\ Cur.virq_active \cup {c} \in SUBSET VIRQ_Source
      BY <1>1, <1>2, <2>2 DEF GuestVcpu
    <3> DEFINE q == Cur.virq_pending \ {c}
               a == Cur.virq_active \cup {c}
    <3>2. v = [Cur EXCEPT !.virq_pending = q, !.virq_active = a] BY <1>3, <2>2
    <3>3. q = {} /\ q \in SUBSET VIRQ_Source /\ a \in SUBSET VIRQ_Source BY <3>1
    <3> HIDE DEF q, a, v
    <3> QED BY <1>1, <3>2, <3>3 DEF GuestVcpu
  <2> QED BY <2>1, <2>2
<1>5. UpdateCurVirqs(v) BY DEF HypercallVirqClaim
<1> HIDE DEF v
<1>6. /\ Machine'
      /\ \A i \in Vcpus : vcpus'[i] = IF i = cur_idx THEN v ELSE vcpus[i]
  BY <1>4, <1>5, UpdateKeeps
<1>7. cur_idx \in Vcpus BY RunningGuest
<1> QED BY <1>2, <1>4, <1>6, <1>7 DEF c, Cur

\* HYPERCALL_TIMER_DELAY_TICKS puts the caller to sleep until the delay is over,
\* whatever its periodic timer was set to.
LEMMA DelaySleeps ==
    ASSUME Machine, GuestRuns, NEW delay \in Nat \ {0}, HypercallTimerDelay(delay)
    PROVE  /\ Machine'
           /\ \A g \in Guests : vcpus'[g].virq_pending = vcpus[g].virq_pending
           /\ \A g \in Guests \ {cur_idx} :
                 vcpus[g].state = "BLOCKED" => /\ vcpus'[g].state = "BLOCKED"
                                               /\ vcpus'[g].timer = vcpus[g].timer
           /\ vcpus'[cur_idx].state = "BLOCKED"
           /\ vcpus'[cur_idx].timer.enabled
           /\ vcpus'[cur_idx].timer.deadline = delay
<1> DEFINE v  == hv_vcpu_timer_delay(vcpus[cur_idx], now, delay)
           vs == [vcpus EXCEPT ![cur_idx] = v]
<1>1. hv_scheduler_advance(vs) /\ now' = now
  BY DEF HypercallTimerDelay
<1>2. Cur \in GuestVcpu /\ now = 0 /\ cur_idx \in Vcpus /\ cur_idx \in Guests
  BY RunningGuest DEF Machine
<1>3. /\ v \in GuestVcpu /\ v.virq_pending = Cur.virq_pending /\ v.state = "BLOCKED"
      /\ v.timer.enabled /\ v.timer.deadline = delay
  BY <1>2, DelayedVcpu DEF Cur
<1> HIDE DEF v
<1>4. /\ Table(vs) /\ OnlyCurRuns(vs)
      /\ \A i \in Vcpus : vs[i] = IF i = cur_idx THEN v ELSE vcpus[i]
  BY <1>3, TableUpdate
<1> HIDE DEF vs
<1>5. Table(vcpus') /\ cur_idx' \in Vcpus /\ OneRunning' /\ Calm(vs)
  BY <1>1, <1>2, <1>4, TableAdvance
<1>6. Machine' BY <1>1, <1>5 DEF Machine
<1>7. \A g \in Guests : /\ vcpus'[g].virq_pending = vs[g].virq_pending
                        /\ vs[g].state = "BLOCKED" => /\ vcpus'[g].state = "BLOCKED"
                                                      /\ vcpus'[g].timer = vs[g].timer
  BY <1>5 DEF Calm
<1> QED BY <1>2, <1>3, <1>4, <1>6, <1>7, Indices DEF Cur

\* WFI: the caller goes on or blocks; it was running, so no sleeper changes.
LEMMA WfiCalm ==
    ASSUME Machine, hv_scheduler_handle_wfi
    PROVE  Machine' /\ Calm(vcpus)
<1>1. GuestRuns BY DEF hv_scheduler_handle_wfi
<1>2. Cur \in GuestVcpu /\ cur_idx \in Vcpus /\ Cur.state = "RUNNING" BY <1>1, RunningGuest
<1>3. CASE Cur.virq_pending # {}
  <2>1. UpdateCurVirqs(Cur) BY <1>3 DEF hv_scheduler_handle_wfi
  <2>2. /\ Machine'
        /\ \A i \in Vcpus : vcpus'[i] = IF i = cur_idx THEN Cur ELSE vcpus[i]
    BY <1>1, <1>2, <2>1, UpdateKeeps
  <2> QED BY <2>2, Indices DEF Calm, Cur
<1>4. CASE Cur.virq_pending = {}
  <2> DEFINE v  == hv_vcpu_block(vcpus[cur_idx])
             vs == [vcpus EXCEPT ![cur_idx] = v]
  <2>1. hv_scheduler_advance(vs) /\ now' = now
    BY <1>4 DEF hv_scheduler_handle_wfi
  <2>2. v \in GuestVcpu /\ v.virq_pending = Cur.virq_pending
    BY <1>2 DEF hv_vcpu_block, Cur, GuestVcpu, HvVcpuState
  <2> HIDE DEF v
  <2>3. /\ Table(vs) /\ OnlyCurRuns(vs)
        /\ \A i \in Vcpus : vs[i] = IF i = cur_idx THEN v ELSE vcpus[i]
    BY <2>2, TableUpdate
  <2> HIDE DEF vs
  <2>4. Table(vcpus') /\ cur_idx' \in Vcpus /\ OneRunning' /\ Calm(vs)
    BY <1>2, <2>1, <2>3, TableAdvance
  <2>5. Machine' BY <2>1, <2>4 DEF Machine
  <2>6. \A g \in Guests : /\ vcpus'[g].virq_pending = vs[g].virq_pending
                          /\ vs[g].state = "BLOCKED" => /\ vcpus'[g].state = "BLOCKED"
                                                        /\ vcpus'[g].timer = vs[g].timer
    BY <2>4 DEF Calm
  <2>7. Calm(vcpus) BY <1>2, <2>2, <2>3, <2>6, Indices DEF Calm, Cur
  <2> QED BY <2>5, <2>7
<1> QED BY <1>3, <1>4

\* The end of a time slice.
LEMMA GenericCalm ==
    ASSUME Machine, handle_irq_generic
    PROVE  Machine' /\ Calm(vcpus)
<1>1. hv_scheduler_advance(vcpus) /\ now' = now BY DEF handle_irq_generic
<1>2. Table(vcpus) /\ cur_idx \in Vcpus /\ OnlyCurRuns(vcpus) /\ now = 0
  BY DEF Machine, OneRunning, OnlyCurRuns
<1> QED BY <1>1, <1>2, TableAdvance DEF Machine

-----------------------------------------------------------------------------
(***************************************************************************)
(* The timer interrupt.                                                    *)
(***************************************************************************)
\* hv_vcpu_timer_advance: the loop leaves some deadline, the rest is untouched.
LEMMA AdvancedVcpu ==
    ASSUME NEW v \in GuestVcpu, NEW w, w = hv_vcpu_timer_advance(v, 0)
    PROVE  w \in GuestVcpu /\ w.virq_pending = v.virq_pending /\ w.state = v.state
<1>1. v.timer \in GuestTimer BY DEF GuestVcpu
<1>2. CASE v.timer.enabled /\ v.timer.period # 0
  <2> DEFINE d == NextDeadline(v.timer, 0)
             t == [v.timer EXCEPT !.deadline = d]
  <2>1. d \in Int
    <3>1. v.timer.deadline \in Int /\ v.timer.period \in Nat \ {0}
      BY <1>1, <1>2 DEF GuestTimer
    <3> DEFINE m == MissedPeriods(v.timer, 0)
    <3>2. m \in Int BY <3>1 DEF MissedPeriods
    <3>3. d = v.timer.deadline + v.timer.period * (m + 1) BY DEF NextDeadline
    <3> HIDE DEF m, d
    <3> QED BY <3>1, <3>2, <3>3
  <2>2. w = [v EXCEPT !.timer = t]
    BY <1>1, <1>2 DEF hv_vcpu_timer_advance, GuestVcpu, GuestTimer
  <2> HIDE DEF d
  <2>3. t \in GuestTimer BY <1>1, <2>1 DEF GuestTimer
  <2> HIDE DEF t
  <2> QED BY <2>2, <2>3, SetTimer
<1>3. CASE v.timer.enabled /\ v.timer.period = 0
  <2>1. TimerOff \in GuestTimer BY DEF TimerOff, GuestTimer
  <2>2. w = [v EXCEPT !.timer = TimerOff]
    BY <1>3 DEF hv_vcpu_timer_advance, hv_vcpu_timer_disable
  <2> QED BY <2>1, <2>2, SetTimer
<1>4. CASE ~ v.timer.enabled BY <1>4 DEF hv_vcpu_timer_advance
<1> QED BY <1>2, <1>3, <1>4

\* hv_virq_raise of the timer line.
LEMMA RaisedVcpu ==
    ASSUME NEW v \in GuestVcpu, NEW w, w = hv_virq_raise(v, VIRQ_TIMER)
    PROVE  /\ w \in GuestVcpu
           /\ w.virq_pending \in {v.virq_pending, v.virq_pending \cup {VIRQ_TIMER}}
           /\ w.state = "RUNNING" <=> v.state = "RUNNING"
<1>1. CASE RaiseBusy(v, VIRQ_TIMER) BY <1>1 DEF hv_virq_raise
<1>2. CASE ~ RaiseBusy(v, VIRQ_TIMER)
  <2> DEFINE p == v.virq_pending \cup {VIRQ_TIMER}
             u == [v EXCEPT !.virq_pending = p]
  <2>1. w = hv_vcpu_wake(u) BY <1>2 DEF hv_virq_raise
  <2>2. p \in SUBSET VIRQ_Source
    BY VirqAssumption DEF GuestVcpu, VIRQ_TIMER, VIRQ_Source
  <2> HIDE DEF p
  <2>3. u \in GuestVcpu /\ u.virq_pending = p /\ u.state = v.state
    BY <2>2 DEF GuestVcpu
  <2> HIDE DEF u
  <2>4. w \in GuestVcpu /\ w.virq_pending = p
    BY <2>1, <2>3 DEF hv_vcpu_wake, GuestVcpu, HvVcpuState
  <2>5. w.state = "RUNNING" <=> v.state = "RUNNING"
    BY <2>1, <2>3 DEF hv_vcpu_wake, GuestVcpu, HvVcpuState
  <2> QED BY <2>4, <2>5 DEF p
<1> QED BY <1>1, <1>2

\* deliver_expired_timers and the return to a guest: the timer line is the only
\* one that becomes pending, and a sleeper whose deadline has not come sleeps on.
LEMMA BcmDelivers ==
    ASSUME Machine, handle_irq_bcm
    PROVE  /\ Machine'
           /\ \A g \in Guests :
                 /\ vcpus'[g].virq_pending
                       \in {vcpus[g].virq_pending, vcpus[g].virq_pending \cup {VIRQ_TIMER}}
                 /\ ~ Delivers(g) /\ vcpus[g].state = "BLOCKED" =>
                       vcpus'[g].state = "BLOCKED" /\ vcpus'[g].timer = vcpus[g].timer
<1> DEFINE ds == deliver_expired_timers
<1>1. Table(vcpus) /\ cur_idx \in Vcpus /\ now = 0 /\ OnlyCurRuns(vcpus) /\ now' = now
  BY DEF Machine, OneRunning, OnlyCurRuns, handle_irq_bcm
<1>2. ASSUME NEW i \in Vcpus
      PROVE  /\ ds[i] \in GuestVcpu
             /\ ds[i].virq_pending
                   \in {vcpus[i].virq_pending, vcpus[i].virq_pending \cup {VIRQ_TIMER}}
             /\ ds[i].state = "RUNNING" <=> vcpus[i].state = "RUNNING"
             /\ ~ Delivers(i) => ds[i] = vcpus[i]
  <2> DEFINE u == hv_virq_raise(vcpus[i], VIRQ_TIMER)
             w == hv_vcpu_timer_advance(u, 0)
  <2>1. vcpus[i] \in GuestVcpu BY <1>1 DEF Table
  <2>2. /\ u \in GuestVcpu
        /\ u.virq_pending \in {vcpus[i].virq_pending, vcpus[i].virq_pending \cup {VIRQ_TIMER}}
        /\ u.state = "RUNNING" <=> vcpus[i].state = "RUNNING"
    BY <2>1, RaisedVcpu
  <2>3. w \in GuestVcpu /\ w.virq_pending = u.virq_pending /\ w.state = u.state
    <3> HIDE DEF u
    <3> QED BY <2>2, AdvancedVcpu
  <2>4. ds[i] = IF i \in Guests /\ Delivers(i) THEN w ELSE vcpus[i]
    BY <1>1 DEF deliver_expired_timers
  <2> HIDE DEF w, u, ds
  <2> QED BY <2>1, <2>2, <2>3, <2>4
<1>3. ds = [i \in Vcpus |-> ds[i]] BY DEF deliver_expired_timers
<1>4. AfterDelivery(ds, \E g \in Guests : Delivers(g)) BY DEF handle_irq_bcm
<1> HIDE DEF ds
<1>5. Table(ds) BY <1>2, <1>3 DEF Table
<1>6. OnlyCurRuns(ds) BY <1>1, <1>2 DEF OnlyCurRuns
<1>7. Table(vcpus') /\ cur_idx' \in Vcpus /\ OneRunning' /\ Calm(ds)
  <2>1. CASE hv_scheduler_is_idle_idx(cur_idx)
    <3>1. hv_scheduler_advance(ds) BY <1>4, <2>1 DEF AfterDelivery
    <3> QED BY <1>1, <1>5, <1>6, <3>1, TableAdvance
  <2>2. CASE ~ hv_scheduler_is_idle_idx(cur_idx)
    <3>1. vcpus' = ds /\ cur_idx' = cur_idx BY <1>4, <2>2 DEF AfterDelivery
    <3>2. OneRunning' BY <1>2, <3>1 DEF Machine, OneRunning
    <3> QED BY <1>1, <1>5, <3>1, <3>2 DEF Calm
  <2> QED BY <2>1, <2>2
<1>8. Machine' BY <1>1, <1>7 DEF Machine
<1>9. ASSUME NEW g \in Guests
      PROVE  /\ vcpus'[g].virq_pending
                   \in {vcpus[g].virq_pending, vcpus[g].virq_pending \cup {VIRQ_TIMER}}
             /\ ~ Delivers(g) /\ vcpus[g].state = "BLOCKED" =>
                   vcpus'[g].state = "BLOCKED" /\ vcpus'[g].timer = vcpus[g].timer
  <2>1. g \in Vcpus BY Indices
  <2>2. /\ vcpus'[g].virq_pending = ds[g].virq_pending
        /\ ds[g].state = "BLOCKED" => /\ vcpus'[g].state = "BLOCKED"
                                      /\ vcpus'[g].timer = ds[g].timer
    BY <1>7 DEF Calm
  <2> QED BY <1>2, <2>1, <2>2
<1> QED BY <1>8, <1>9

-----------------------------------------------------------------------------
(***************************************************************************)
(* The guests' own state.  The handler runs with IRQs masked, so it is     *)
(* never entered from itself, and the address it returns to lies outside.  *)
(***************************************************************************)
GuestPcs == {"start", "delay", "loop", "wfi", "exit", "fail", "done",
             "claim", "complete", "drain", "drained"}

GuestRec == [pc : GuestPcs, irq_masked : BOOLEAN, lr_irq : GuestPcs, virq : Int,
             ticks : Nat, i : Nat, disturbed : BOOLEAN]

InHandler(pc) == pc \in {"claim", "complete"}

NotNested(r) == (InHandler(r.pc) => r.irq_masked) /\ ~ InHandler(r.lr_irq)

GuestsSane ==
    /\ guest \in [Guests -> GuestRec]
    /\ Handles(harness.program) => \A g \in Guests : NotNested(guest[g])

TimerLineOnly == \A g \in Guests : vcpus[g].virq_pending \subseteq {VIRQ_TIMER}

\* A guest whose delay is not over sleeps, and its timer is set no earlier.
Promised ==
    /\ due \in [Guests -> Nat]
    /\ \A g \in Guests :
          due[g] > 0 => /\ vcpus[g].state = "BLOCKED"
                        /\ vcpus[g].timer.enabled
                        /\ vcpus[g].timer.deadline >= due[g]

GInv ==
    /\ Machine
    /\ GuestsSane
    /\ TimerLineOnly
    /\ Promised
    /\ uncounted \in [Guests -> Int]
    /\ InterruptsCounted

\* The step DelayLasts allows.
NotEarly ==
    \A g \in Guests :
        vcpus[g].state = "BLOCKED" /\ vcpus'[g].state # "BLOCKED" => due[g] = 0

SamePending == \A g \in Guests : vcpus'[g].virq_pending = vcpus[g].virq_pending

\* A step that only schedules keeps every promise about sleepers.
LEMMA CalmKeeps ==
    ASSUME Promised, TimerLineOnly, Calm(vcpus), due' = due
    PROVE  Promised' /\ TimerLineOnly' /\ NotEarly /\ SamePending
  BY DEF Promised, TimerLineOnly, Calm, NotEarly, SamePending

\* One guest moves, the others stay where they are.
LEMMA GuestMoves ==
    ASSUME GuestsSane, NEW g \in Guests, NEW r \in GuestRec,
           Handles(harness.program) => NotNested(r),
           guest' = [guest EXCEPT ![g] = r], harness' = harness
    PROVE  /\ GuestsSane'
           /\ \A h \in Guests : guest'[h] = IF h = g THEN r ELSE guest[h]
<1>1. /\ guest' \in [Guests -> GuestRec]
      /\ \A h \in Guests : guest'[h] = IF h = g THEN r ELSE guest[h]
  BY DEF GuestsSane
<1> QED BY <1>1 DEF GuestsSane

\* A guest step that neither starts nor ends the service of an interrupt.
LEMMA PlainGuestStep ==
    ASSUME GuestsSane, InterruptsCounted, NEW g \in Guests, NEW r \in GuestRec,
           Handles(harness.program) =>
              NotNested(r) /\ (r.pc = "complete" <=> guest[g].pc = "complete"),
           Becomes(g, r), SamePending, uncounted' = uncounted
    PROVE  GuestsSane' /\ InterruptsCounted'
<1>1. guest' = [guest EXCEPT ![g] = r] /\ harness' = harness BY DEF Becomes
<1>2. /\ GuestsSane'
      /\ \A h \in Guests : guest'[h] = IF h = g THEN r ELSE guest[h]
  BY <1>1, GuestMoves
<1>3. InterruptsCounted'
  <2> SUFFICES ASSUME NEW h \in Guests, Handles(harness.program)
               PROVE  uncounted[h]
                        = (IF hv_virq_is_pending(vcpus'[h], VIRQ_TIMER) THEN 1 ELSE 0)
                          + (IF guest'[h].pc = "complete" THEN 1 ELSE 0)
    BY <1>1 DEF InterruptsCounted, hv_virq_is_pending
  <2>1. guest'[h].pc = "complete" <=> guest[h].pc = "complete" BY <1>2
  <2>2. hv_virq_is_pending(vcpus'[h], VIRQ_TIMER) <=> hv_virq_is_pending(vcpus[h], VIRQ_TIMER)
    BY DEF SamePending, hv_virq_is_pending
  <2> QED BY <2>1, <2>2 DEF InterruptsCounted
<1> QED BY <1>2, <1>3

\* The same with a hypervisor that only schedules: the whole invariant, and no
\* sleeper is woken.
LEMMA CalmGuestStep ==
    ASSUME GInv, NEW g \in Guests, NEW r \in GuestRec, Becomes(g, r),
           Handles(harness.program) =>
              NotNested(r) /\ (r.pc = "complete" <=> guest[g].pc = "complete"),
           Machine', Calm(vcpus), uncounted' = uncounted, due' = due
    PROVE  GInv' /\ NotEarly
<1>1. Promised' /\ TimerLineOnly' /\ NotEarly /\ SamePending BY CalmKeeps DEF GInv
<1>2. GuestsSane' /\ InterruptsCounted' BY <1>1, PlainGuestStep DEF GInv
<1> QED BY <1>1, <1>2 DEF GInv

\* The hypervisor is not entered.
LEMMA NoTrap ==
    ASSUME Machine, UNCHANGED vars
    PROVE  Machine' /\ Calm(vcpus)
  BY DEF Machine, vars, Calm, OneRunning, Table

-----------------------------------------------------------------------------
(***************************************************************************)
(* The instructions of the guest programs, one lemma each.                 *)
(***************************************************************************)
\* What an instruction outside the handler may write: pc, the IRQ mask, a counter.
Wrote(r, w, pc, m, n) ==
    \/ w = [r EXCEPT !.pc = pc]
    \/ w = [r EXCEPT !.i = n]
    \/ w = [r EXCEPT !.pc = pc, !.i = n]
    \/ w = [r EXCEPT !.pc = pc, !.irq_masked = m]

\* Such a write keeps the registers well formed.
LEMMA GuestWrites ==
    ASSUME NEW r \in GuestRec, NEW pc \in GuestPcs, NEW m \in BOOLEAN, NEW n \in Nat,
           NEW w, Wrote(r, w, pc, m, n)
    PROVE  w \in GuestRec /\ w.pc \in {pc, r.pc} /\ w.lr_irq = r.lr_irq
<1>1. CASE w = [r EXCEPT !.pc = pc] BY <1>1 DEF GuestRec
<1>2. CASE w = [r EXCEPT !.i = n] BY <1>2 DEF GuestRec
<1>3. CASE w = [r EXCEPT !.pc = pc, !.i = n] BY <1>3 DEF GuestRec
<1>4. CASE w = [r EXCEPT !.pc = pc, !.irq_masked = m] BY <1>4 DEF GuestRec
<1> QED BY <1>1, <1>2, <1>3, <1>4 DEF Wrote

\* An instruction of main: the handler is not involved.
LEMMA MainStep ==
    ASSUME GInv, NEW g \in Guests, NEW pc \in GuestPcs, NEW m \in BOOLEAN, NEW n \in Nat,
           NEW w, Wrote(guest[g], w, pc, m, n),
           Becomes(g, w), ~ InHandler(pc), ~ InHandler(guest[g].pc),
           Machine', Calm(vcpus), UNCHANGED <<uncounted, due>>
    PROVE  GInv' /\ NotEarly
<1>1. guest[g] \in GuestRec /\ (Handles(harness.program) => NotNested(guest[g]))
  BY DEF GInv, GuestsSane
<1>2. w \in GuestRec /\ w.pc \in {pc, guest[g].pc} /\ w.lr_irq = guest[g].lr_irq
  BY <1>1, GuestWrites
<1>3. Handles(harness.program) =>
         NotNested(w) /\ (w.pc = "complete" <=> guest[g].pc = "complete")
  BY <1>1, <1>2 DEF NotNested, InHandler
<1> QED BY <1>2, <1>3, CalmGuestStep

\* The guest is entered at its vector: not from within the handler.
LEMMA IrqTaken ==
    ASSUME GInv, NEW g \in Guests, guest_irq(g)
    PROVE  GInv' /\ NotEarly
<1> DEFINE pc == IF Handles(harness.program) THEN "claim" ELSE "fail"
           w  == [guest[g] EXCEPT !.pc = pc, !.lr_irq = guest[g].pc, !.irq_masked = TRUE]
<1>1. /\ ~ guest[g].irq_masked /\ Becomes(g, w) /\ UNCHANGED vars
      /\ uncounted' = uncounted /\ due' = due
  BY DEF guest_irq, TakesIrq
<1>2. guest[g] \in GuestRec /\ (Handles(harness.program) => NotNested(guest[g]))
  BY DEF GInv, GuestsSane
<1>3. pc \in GuestPcs /\ pc # "complete" BY DEF GuestPcs
<1> HIDE DEF pc
<1>4. /\ w \in GuestRec /\ w.pc = pc /\ w.lr_irq = guest[g].pc /\ w.irq_masked = TRUE
  <2> DEFINE r == guest[g]
             q == guest[g].pc
  <2>1. w = [r EXCEPT !.pc = pc, !.lr_irq = q, !.irq_masked = TRUE] OBVIOUS
  <2>2. r \in GuestRec /\ q \in GuestPcs BY <1>2 DEF GuestRec
  <2> HIDE DEF r, q, w
  <2>3. w \in GuestRec /\ w.pc = pc /\ w.lr_irq = q /\ w.irq_masked = TRUE
    BY <1>3, <2>1, <2>2 DEF GuestRec
  <2> QED BY <2>3 DEF q
<1> HIDE DEF w
<1>5. Handles(harness.program) =>
         NotNested(w) /\ (w.pc = "complete" <=> guest[g].pc = "complete")
  BY <1>1, <1>2, <1>3, <1>4 DEF NotNested, InHandler
<1>6. Machine' /\ Calm(vcpus) BY <1>1, NoTrap DEF GInv
<1> QED BY <1>1, <1>4, <1>5, <1>6, CalmGuestStep

\* guest_virq_claim, in the handler and in complete_pending_virqs.
LEMMA ClaimGuestStep ==
    ASSUME GInv, NEW g \in Guests, GuestRuns, cur_idx = g,
           NEW claimed \in GuestPcs, NEW empty \in GuestRec, Claim(g, claimed, empty),
           Handles(harness.program) =>
              /\ guest[g].pc = "claim" /\ claimed = "complete"
              /\ NotNested(empty) /\ empty.pc # "complete"
    PROVE  GInv' /\ NotEarly
<1> DEFINE c == ClaimedVirq(Cur)
           r == guest[g]
           t == [r EXCEPT !.pc = claimed, !.virq = c]
           w == IF c >= 0 THEN t ELSE empty
<1>1. Becomes(g, w) /\ HypercallVirqClaim /\ uncounted' = uncounted /\ due' = due
  BY DEF Claim
<1>2. /\ Machine /\ Cur.virq_pending \subseteq {VIRQ_TIMER} /\ Cur = vcpus[g]
      /\ g \in Vcpus
  BY Indices DEF GInv, TimerLineOnly, Cur
<1>3. /\ Machine'
      /\ \A i \in Vcpus : /\ vcpus'[i].state = vcpus[i].state
                          /\ vcpus'[i].timer = vcpus[i].timer
      /\ \A i \in Vcpus \ {g} : vcpus'[i] = vcpus[i]
      /\ vcpus'[g].virq_pending = {}
      /\ c = IF Cur.virq_pending = {} THEN NoPending ELSE VIRQ_TIMER
  BY <1>1, <1>2, ClaimTakes
<1>4. r \in GuestRec /\ (Handles(harness.program) => NotNested(r))
  BY DEF GInv, GuestsSane
<1>5. /\ c \in Int
      /\ c >= 0 <=> VIRQ_TIMER \in vcpus[g].virq_pending
  BY <1>2, <1>3 DEF NoPending, VIRQ_TIMER
<1> HIDE DEF c, r
<1>6. t \in GuestRec /\ t.pc = claimed /\ t.lr_irq = r.lr_irq /\ t.irq_masked = r.irq_masked
  BY <1>4, <1>5 DEF GuestRec
<1> HIDE DEF t
<1>7. w \in GuestRec BY <1>6
<1>8. Handles(harness.program) =>
        /\ NotNested(w)
        /\ w.pc = "complete" <=> VIRQ_TIMER \in vcpus[g].virq_pending
        /\ r.pc # "complete"
  BY <1>4, <1>5, <1>6 DEF NotNested, InHandler, r
<1> HIDE DEF w
<1>9. guest' = [guest EXCEPT ![g] = w] /\ harness' = harness BY <1>1 DEF Becomes
<1>10. /\ GuestsSane'
       /\ \A h \in Guests : guest'[h] = IF h = g THEN w ELSE guest[h]
  BY <1>7, <1>8, <1>9, GuestMoves DEF GInv
<1>11. InterruptsCounted'
  <2> SUFFICES ASSUME NEW h \in Guests, Handles(harness.program)
               PROVE  uncounted[h]
                        = (IF hv_virq_is_pending(vcpus'[h], VIRQ_TIMER) THEN 1 ELSE 0)
                          + (IF guest'[h].pc = "complete" THEN 1 ELSE 0)
    BY <1>1, <1>9 DEF InterruptsCounted, hv_virq_is_pending
  <2>1. uncounted[h] = (IF hv_virq_is_pending(vcpus[h], VIRQ_TIMER) THEN 1 ELSE 0)
                       + (IF guest[h].pc = "complete" THEN 1 ELSE 0)
    BY DEF GInv, InterruptsCounted
  <2>2. CASE h = g
    BY <1>3, <1>8, <1>10, <2>1, <2>2 DEF hv_virq_is_pending, r
  <2>3. CASE h # g
    <3>1. vcpus'[h] = vcpus[h] /\ guest'[h] = guest[h] BY <1>3, <1>10, <2>3, Indices
    <3> QED BY <2>1, <3>1
  <2> QED BY <2>2, <2>3
<1>12. TimerLineOnly'
  BY <1>3, Indices DEF GInv, TimerLineOnly
<1>13. Promised' /\ NotEarly
  BY <1>1, <1>3, Indices DEF GInv, Promised, NotEarly
<1>14. uncounted' \in [Guests -> Int] BY <1>1 DEF GInv
<1> QED BY <1>3, <1>10, <1>11, <1>12, <1>13, <1>14 DEF GInv

\* The return of guest_irq goes to the interrupted instruction.
LEMMA ReturnedRec ==
    ASSUME NEW r \in GuestRec, NEW w, w = Returned(r)
    PROVE  w \in GuestRec /\ w.pc = r.lr_irq /\ w.lr_irq = "start"
<1> DEFINE q == r.lr_irq
<1>1. w = [r EXCEPT !.pc = q, !.irq_masked = FALSE, !.lr_irq = "start",
                    !.disturbed = FALSE]
  BY DEF Returned
<1>2. q \in GuestPcs /\ "start" \in GuestPcs BY DEF GuestRec, GuestPcs
<1> HIDE DEF q
<1>3. w \in GuestRec /\ w.pc = q /\ w.lr_irq = "start" BY <1>1, <1>2 DEF GuestRec
<1> QED BY <1>3 DEF q

\* guest_irq_handler: the claimed interrupt is counted and completed.
LEMMA HandlerStep ==
    ASSUME GInv, NEW g \in Guests, guest_irq_handler(g)
    PROVE  GInv' /\ NotEarly
<1> DEFINE r == guest[g]
<1>1. r \in GuestRec /\ (Handles(harness.program) => NotNested(r))
  BY DEF GInv, GuestsSane
<1>2. CASE At(g, "claim") /\ Claim(g, "complete", Returned(r))
  <2> DEFINE e == Returned(r)
  <2>1. GuestRuns /\ cur_idx = g /\ guest[g].pc = "claim" BY <1>2 DEF At
  <2>2. e \in GuestRec /\ e.pc = r.lr_irq /\ e.lr_irq = "start"
    <3> HIDE DEF r
    <3> QED BY <1>1, ReturnedRec
  <2>3. Claim(g, "complete", e) BY <1>2
  <2> HIDE DEF e
  <2>4. Handles(harness.program) => NotNested(e) /\ e.pc # "complete"
    BY <1>1, <2>2 DEF NotNested, InHandler
  <2>5. "complete" \in GuestPcs BY DEF GuestPcs
  <2> QED BY <2>1, <2>2, <2>3, <2>4, <2>5, ClaimGuestStep
<1>3. CASE /\ At(g, "complete")
           /\ Becomes(g, [guest[g] EXCEPT !.pc = "claim", !.virq = NoPending,
                                          !.ticks = NextTicks(guest[g])])
           /\ uncounted' = [uncounted EXCEPT ![g] = @ - 1]
           /\ HypercallVirqComplete(guest[g].virq)
           /\ UNCHANGED due
  <2> DEFINE n == NextTicks(r)
             w == [r EXCEPT !.pc = "claim", !.virq = NoPending, !.ticks = n]
  <2>1. GuestRuns /\ guest[g].pc = "complete" BY <1>3 DEF At
  <2>2. Machine' /\ Calm(vcpus) BY <1>3, <2>1, CompleteCalm DEF GInv
  <2>3. Promised' /\ TimerLineOnly' /\ NotEarly /\ SamePending
    BY <1>3, <2>2, CalmKeeps DEF GInv
  <2>4. n \in Nat
    <3>1. r.ticks \in Nat BY <1>1 DEF GuestRec
    <3> HIDE DEF r
    <3> QED BY <3>1 DEF NextTicks
  <2>5. guest' = [guest EXCEPT ![g] = w] /\ harness' = harness BY <1>3 DEF Becomes
  <2> HIDE DEF n
  <2>6. w \in GuestRec /\ w.pc = "claim" /\ w.lr_irq = r.lr_irq /\ w.irq_masked = r.irq_masked
    <3>1. "claim" \in GuestPcs /\ NoPending \in Int BY DEF GuestPcs, NoPending
    <3> HIDE DEF r
    <3> QED BY <1>1, <2>4, <3>1 DEF GuestRec
  <2> HIDE DEF w
  <2>7. Handles(harness.program) => NotNested(w)
    BY <1>1, <2>1, <2>6 DEF NotNested, InHandler
  <2>8. /\ GuestsSane'
        /\ \A h \in Guests : guest'[h] = IF h = g THEN w ELSE guest[h]
    BY <2>5, <2>6, <2>7, GuestMoves DEF GInv
  <2>9. /\ uncounted' \in [Guests -> Int]
        /\ \A h \in Guests : uncounted'[h] = IF h = g THEN uncounted[g] - 1 ELSE uncounted[h]
    BY <1>3 DEF GInv
  <2>10. InterruptsCounted'
    <3> SUFFICES ASSUME NEW h \in Guests, Handles(harness.program)
                 PROVE  uncounted'[h]
                          = (IF hv_virq_is_pending(vcpus'[h], VIRQ_TIMER) THEN 1 ELSE 0)
                            + (IF guest'[h].pc = "complete" THEN 1 ELSE 0)
      BY <2>5 DEF InterruptsCounted, hv_virq_is_pending
    <3>1. uncounted[h] = (IF hv_virq_is_pending(vcpus[h], VIRQ_TIMER) THEN 1 ELSE 0)
                         + (IF guest[h].pc = "complete" THEN 1 ELSE 0)
      BY DEF GInv, InterruptsCounted
    <3>2. hv_virq_is_pending(vcpus'[h], VIRQ_TIMER)
            <=> hv_virq_is_pending(vcpus[h], VIRQ_TIMER)
      BY <2>3 DEF SamePending, hv_virq_is_pending
    <3>3. CASE h = g
      <4>1. uncounted'[h] = uncounted[h] - 1 /\ guest[h].pc = "complete"
            /\ guest'[h].pc # "complete"
        BY <2>1, <2>6, <2>8, <2>9, <3>3
      <4> QED BY <3>1, <3>2, <4>1
    <3>4. CASE h # g
      <4>1. uncounted'[h] = uncounted[h] /\ guest'[h] = guest[h] BY <2>8, <2>9, <3>4
      <4> QED BY <3>1, <3>2, <4>1
    <3> QED BY <3>3, <3>4
  <2> QED BY <2>2, <2>3, <2>8, <2>9, <2>10 DEF GInv
<1> QED BY <1>2, <1>3 DEF guest_irq_handler

\* guest_timer_delay_millis: the caller sleeps with the deadline it asked for.
LEMMA DelayGuestStep ==
    ASSUME GInv, NEW g \in Guests, GuestRuns, cur_idx = g, NEW pc \in GuestPcs,
           guest_timer_delay(g, pc), ~ InHandler(pc), ~ InHandler(guest[g].pc)
    PROVE  GInv' /\ NotEarly
<1> DEFINE w == [guest[g] EXCEPT !.pc = pc]
<1>1. /\ Becomes(g, w) /\ HypercallTimerDelay(DelayTicks)
      /\ due' = [due EXCEPT ![g] = DelayTicks] /\ uncounted' = uncounted
  BY DEF guest_timer_delay, Goto
<1>2. guest[g] \in GuestRec /\ (Handles(harness.program) => NotNested(guest[g]))
  BY DEF GInv, GuestsSane
<1>4. w \in GuestRec /\ w.pc = pc /\ w.lr_irq = guest[g].lr_irq
  <2> DEFINE r == guest[g]
  <2>1. r \in GuestRec /\ w = [r EXCEPT !.pc = pc] BY <1>2
  <2> HIDE DEF r, w
  <2>2. w \in GuestRec /\ w.pc = pc /\ w.lr_irq = r.lr_irq BY <2>1 DEF GuestRec
  <2> QED BY <2>2 DEF r
<1> HIDE DEF w
<1>5. Handles(harness.program) =>
         NotNested(w) /\ (w.pc = "complete" <=> guest[g].pc = "complete")
  BY <1>2, <1>4 DEF NotNested, InHandler
<1>6. DelayTicks \in Nat \ {0} BY GuestAssumption
<1>7. /\ Machine'
      /\ \A h \in Guests : vcpus'[h].virq_pending = vcpus[h].virq_pending
      /\ \A h \in Guests \ {g} :
            vcpus[h].state = "BLOCKED" => /\ vcpus'[h].state = "BLOCKED"
                                          /\ vcpus'[h].timer = vcpus[h].timer
      /\ vcpus'[g].state = "BLOCKED"
      /\ vcpus'[g].timer.enabled
      /\ vcpus'[g].timer.deadline = DelayTicks
  BY <1>1, <1>6, DelaySleeps DEF GInv
<1>8. SamePending /\ TimerLineOnly' BY <1>7 DEF GInv, SamePending, TimerLineOnly
<1>9. GuestsSane' /\ InterruptsCounted'
  BY <1>1, <1>4, <1>5, <1>8, PlainGuestStep DEF GInv
<1>10. /\ due' \in [Guests -> Nat]
       /\ \A h \in Guests : due'[h] = IF h = g THEN DelayTicks ELSE due[h]
  BY <1>1, <1>6 DEF GInv, Promised
<1>11. Promised'
  <2> SUFFICES ASSUME NEW h \in Guests, due'[h] > 0
               PROVE  /\ vcpus'[h].state = "BLOCKED" /\ vcpus'[h].timer.enabled
                      /\ vcpus'[h].timer.deadline >= due'[h]
    BY <1>10 DEF Promised
  <2>1. CASE h = g BY <1>6, <1>7, <1>10, <2>1
  <2>2. CASE h # g BY <1>7, <1>10, <2>2 DEF GInv, Promised
  <2> QED BY <2>1, <2>2
<1>12. NotEarly BY <1>7 DEF NotEarly
<1> QED BY <1>1, <1>7, <1>8, <1>9, <1>11, <1>12 DEF GInv

\* guests/timer-main.c.
LEMMA TimerMainStep ==
    ASSUME GInv, NEW g \in Guests, timer_main(g)
    PROVE  GInv' /\ NotEarly
<1> DEFINE pc == IF guest[g].ticks < Target THEN "wfi" ELSE "exit"
<1>1. {"delay", "loop", "wfi", "exit"} \subseteq GuestPcs /\ pc \in {"wfi", "exit"}
  BY DEF GuestPcs
<1>2. CASE /\ At(g, "start")
           /\ Becomes(g, [guest[g] EXCEPT !.pc = "delay", !.irq_masked = FALSE])
           /\ UNCHANGED <<vars, uncounted, due>>
  <2> DEFINE w == [guest[g] EXCEPT !.pc = "delay", !.irq_masked = FALSE]
  <2>1. /\ Wrote(guest[g], w, "delay", FALSE, 0) /\ Becomes(g, w)
        /\ UNCHANGED vars /\ UNCHANGED <<uncounted, due>>
        /\ ~ InHandler(guest[g].pc) /\ ~ InHandler("delay")
    BY <1>2 DEF Wrote, At, InHandler
  <2> HIDE DEF w
  <2>2. Machine' /\ Calm(vcpus) BY <2>1, NoTrap DEF GInv
  <2> QED BY <1>1, <2>1, <2>2, MainStep
<1>3. CASE At(g, "delay") /\ guest_timer_delay(g, "loop")
  BY <1>1, <1>3, DelayGuestStep DEF At, InHandler
<1>4. CASE At(g, "loop") /\ Goto(g, pc) /\ UNCHANGED <<vars, uncounted, due>>
  <2> HIDE DEF pc
  <2> DEFINE w == [guest[g] EXCEPT !.pc = pc]
  <2>1. /\ Wrote(guest[g], w, pc, FALSE, 0) /\ Becomes(g, w)
        /\ UNCHANGED vars /\ UNCHANGED <<uncounted, due>>
        /\ ~ InHandler(guest[g].pc) /\ ~ InHandler(pc)
    BY <1>1, <1>4 DEF Wrote, At, InHandler, Goto
  <2> HIDE DEF w
  <2>2. Machine' /\ Calm(vcpus) BY <2>1, NoTrap DEF GInv
  <2> QED BY <1>1, <2>1, <2>2, MainStep
<1>5. CASE /\ At(g, "wfi") /\ Goto(g, "loop") /\ hv_scheduler_handle_wfi
           /\ UNCHANGED <<uncounted, due>>
  <2> DEFINE w == [guest[g] EXCEPT !.pc = "loop"]
  <2>1. /\ Wrote(guest[g], w, "loop", FALSE, 0) /\ Becomes(g, w)
        /\ UNCHANGED <<uncounted, due>>
        /\ ~ InHandler(guest[g].pc) /\ ~ InHandler("loop")
    BY <1>5 DEF Wrote, At, InHandler, Goto
  <2> HIDE DEF w
  <2>2. Machine' /\ Calm(vcpus) BY <1>5, WfiCalm DEF GInv
  <2> QED BY <1>1, <2>1, <2>2, MainStep
<1> QED BY <1>2, <1>3, <1>4, <1>5 DEF timer_main

\* guests/virq-main.c.
LEMMA VirqMainStep ==
    ASSUME GInv, NEW g \in Guests, virq_main(g)
    PROVE  GInv' /\ NotEarly
<1> DEFINE pc == IF guest[g].i = 0 THEN "loop" ELSE "exit"
<1>1. {"loop", "exit"} \subseteq GuestPcs /\ pc \in {"loop", "exit"} BY DEF GuestPcs
<1>2. UNCHANGED vars /\ UNCHANGED <<uncounted, due>> BY DEF virq_main
<1>3. Machine' /\ Calm(vcpus) BY <1>2, NoTrap DEF GInv
<1>4. CASE /\ At(g, "start")
           /\ Becomes(g, [guest[g] EXCEPT !.pc = "loop", !.irq_masked = FALSE])
  <2> DEFINE w == [guest[g] EXCEPT !.pc = "loop", !.irq_masked = FALSE]
  <2>1. /\ Wrote(guest[g], w, "loop", FALSE, 0) /\ Becomes(g, w)
        /\ ~ InHandler(guest[g].pc) /\ ~ InHandler("loop")
    BY <1>4 DEF Wrote, At, InHandler
  <2> HIDE DEF w
  <2> QED BY <1>1, <1>2, <1>3, <2>1, MainStep
<1>5. CASE At(g, "loop") /\ Becomes(g, [guest[g] EXCEPT !.pc = pc, !.i = 1])
  <2> HIDE DEF pc
  <2> DEFINE w == [guest[g] EXCEPT !.pc = pc, !.i = 1]
  <2>1. /\ Wrote(guest[g], w, pc, FALSE, 1) /\ Becomes(g, w)
        /\ ~ InHandler(guest[g].pc) /\ ~ InHandler(pc)
    BY <1>1, <1>5 DEF Wrote, At, InHandler
  <2> HIDE DEF w
  <2> QED BY <1>1, <1>2, <1>3, <2>1, MainStep
<1> QED BY <1>4, <1>5 DEF virq_main

\* guests/sched-main.c.
LEMMA SchedMainStep ==
    ASSUME GInv, NEW g \in Guests, sched_main(g)
    PROVE  GInv' /\ NotEarly
<1>1. /\ GuestRuns /\ UNCHANGED <<uncounted, due>> /\ ~ InHandler(guest[g].pc)
      /\ "exit" \in GuestPcs /\ ~ InHandler("exit") /\ guest[g].i \in Nat
  BY DEF sched_main, At, InHandler, GuestPcs, GInv, GuestsSane, GuestRec
<1>2. CASE Becomes(g, [guest[g] EXCEPT !.i = @ + 1]) /\ hv_scheduler_yield
  <2> DEFINE n == guest[g].i + 1
             w == [guest[g] EXCEPT !.i = n]
  <2>1. Becomes(g, w) /\ n \in Nat BY <1>1, <1>2
  <2> HIDE DEF n
  <2>2. Wrote(guest[g], w, "exit", FALSE, n) BY DEF Wrote
  <2> HIDE DEF w
  <2>3. Machine' /\ Calm(vcpus) BY <1>1, <1>2, YieldCalm DEF GInv
  <2> QED BY <1>1, <2>1, <2>2, <2>3, MainStep
<1>3. CASE Goto(g, "exit") /\ UNCHANGED vars
  <2> DEFINE w == [guest[g] EXCEPT !.pc = "exit"]
  <2>1. Becomes(g, w) /\ Wrote(guest[g], w, "exit", FALSE, 0) BY <1>3 DEF Goto, Wrote
  <2> HIDE DEF w
  <2>2. Machine' /\ Calm(vcpus) BY <1>3, NoTrap DEF GInv
  <2> QED BY <1>1, <2>1, <2>2, MainStep
<1> QED BY <1>2, <1>3 DEF sched_main

\* guests/mmio-uart-main.c.
LEMMA MmioMainStep ==
    ASSUME GInv, NEW g \in Guests, harness.program = "mmio", mmio_main(g)
    PROVE  GInv' /\ NotEarly
<1>1. /\ guest[g] \in GuestRec /\ guest[g].i \in Nat /\ ~ Handles(harness.program)
      /\ {"start", "drain", "drained", "exit"} \subseteq GuestPcs
  BY DEF GInv, GuestsSane, GuestRec, GuestPcs, Handles
<1>2. CASE At(g, "start") /\ guest_timer_delay(g, "drain")
  BY <1>1, <1>2, DelayGuestStep DEF At, InHandler
<1>3. CASE At(g, "start") /\ Goto(g, "exit") /\ UNCHANGED <<vars, uncounted, due>>
  <2> DEFINE w == [guest[g] EXCEPT !.pc = "exit"]
  <2>1. /\ Becomes(g, w) /\ Wrote(guest[g], w, "exit", FALSE, 0)
        /\ ~ InHandler(guest[g].pc) /\ ~ InHandler("exit")
        /\ UNCHANGED vars /\ UNCHANGED <<uncounted, due>>
    BY <1>3 DEF Goto, Wrote, At, InHandler
  <2> HIDE DEF w
  <2>2. Machine' /\ Calm(vcpus) BY <2>1, NoTrap DEF GInv
  <2> QED BY <1>1, <2>1, <2>2, MainStep
<1>4. CASE At(g, "drain") /\ Claim(g, "drained", [guest[g] EXCEPT !.pc = "start", !.i = @ + 1])
  <2> DEFINE n == guest[g].i + 1
             r == guest[g]
             e == [r EXCEPT !.pc = "start", !.i = n]
  <2>1. Claim(g, "drained", e) /\ GuestRuns /\ cur_idx = g BY <1>4 DEF At
  <2>2. n \in Nat /\ r \in GuestRec BY <1>1
  <2> HIDE DEF n, r
  <2>3. e \in GuestRec BY <1>1, <2>2 DEF GuestRec
  <2> HIDE DEF e
  <2> QED BY <1>1, <2>1, <2>3, ClaimGuestStep
<1>5. CASE /\ At(g, "drained")
           /\ Becomes(g, [guest[g] EXCEPT !.pc = "drain", !.virq = NoPending])
           /\ HypercallVirqComplete(guest[g].virq)
           /\ UNCHANGED <<uncounted, due>>
  <2> DEFINE r == guest[g]
             w == [r EXCEPT !.pc = "drain", !.virq = NoPending]
  <2>1. Machine' /\ Calm(vcpus) BY <1>5, CompleteCalm DEF GInv, At
  <2>2. Becomes(g, w) /\ uncounted' = uncounted /\ due' = due BY <1>5
  <2>3. r \in GuestRec /\ NoPending \in Int BY <1>1 DEF NoPending
  <2> HIDE DEF r
  <2>4. w \in GuestRec BY <1>1, <2>3 DEF GuestRec
  <2> HIDE DEF w
  <2> QED BY <1>1, <2>1, <2>2, <2>4, CalmGuestStep
<1> QED BY <1>2, <1>3, <1>4, <1>5 DEF mmio_main

\* Exit by hypercall or by a fatal fault.
LEMMA StopGuestStep ==
    ASSUME GInv, NEW g \in Guests, GuestRuns, ~ InHandler(guest[g].pc), Goto(g, "done"),
           stop_current_guest_vcpu, UNCHANGED <<uncounted, due>>
    PROVE  GInv' /\ NotEarly
<1> DEFINE w == [guest[g] EXCEPT !.pc = "done"]
<1>1. /\ Becomes(g, w) /\ Wrote(guest[g], w, "done", FALSE, 0)
      /\ "done" \in GuestPcs /\ ~ InHandler("done")
  BY DEF Goto, Wrote, GuestPcs, InHandler
<1> HIDE DEF w
<1>2. Machine' /\ Calm(vcpus) BY StopCalm DEF GInv
<1> QED BY <1>1, <1>2, MainStep

\* Every guest step keeps the invariant and wakes no sleeper early.
LEMMA GuestStepKeeps ==
    ASSUME GInv, NEW g \in Guests, GuestStep(g)
    PROVE  GInv' /\ NotEarly
<1>1. ASSUME guest_main(g) PROVE GInv' /\ NotEarly
  <2>1. CASE timer_main(g) BY <2>1, TimerMainStep
  <2>2. CASE virq_main(g) BY <2>2, VirqMainStep
  <2>3. CASE sched_main(g) BY <2>3, SchedMainStep
  <2>4. CASE harness.program = "mmio" /\ mmio_main(g) BY <2>4, MmioMainStep
  <2>5. CASE fault_main(g) BY <2>5, StopGuestStep DEF fault_main, At, InHandler
  <2>6. CASE hello_main(g)
    <3> DEFINE w == [guest[g] EXCEPT !.pc = "exit"]
    <3>1. /\ Becomes(g, w) /\ Wrote(guest[g], w, "exit", FALSE, 0) /\ "exit" \in GuestPcs
          /\ ~ InHandler(guest[g].pc) /\ ~ InHandler("exit")
          /\ UNCHANGED vars /\ UNCHANGED <<uncounted, due>>
      BY <2>6 DEF hello_main, Goto, Wrote, At, InHandler, GuestPcs
    <3> HIDE DEF w
    <3>2. Machine' /\ Calm(vcpus) BY <3>1, NoTrap DEF GInv
    <3> QED BY <3>1, <3>2, MainStep
  <2> QED BY <1>1, <2>1, <2>2, <2>3, <2>4, <2>5, <2>6 DEF guest_main
<1>2. ASSUME guest_exit(g) PROVE GInv' /\ NotEarly
  BY <1>2, StopGuestStep DEF guest_exit, At, InHandler
<1> QED BY <1>1, <1>2, IrqTaken, HandlerStep DEF GuestStep

-----------------------------------------------------------------------------
(***************************************************************************)
(* The steps of the machine.                                               *)
(***************************************************************************)
\* A sleeper whose delay is not over has a deadline in the future, so the
\* interrupt does not wake it; a newly pending timer line is recorded.
LEMMA TimerInterruptKeeps ==
    ASSUME GInv, TimerInterrupt
    PROVE  GInv' /\ NotEarly
<1>1. /\ handle_irq_bcm /\ harness' = harness /\ guest' = guest /\ due' = due
      /\ uncounted' = [g \in Guests |->
                         IF /\ Handles(harness.program)
                            /\ VIRQ_TIMER \in vcpus'[g].virq_pending \ vcpus[g].virq_pending
                         THEN uncounted[g] + 1 ELSE uncounted[g]]
  BY DEF TimerInterrupt
<1>2. /\ Machine'
      /\ \A g \in Guests :
            /\ vcpus'[g].virq_pending
                  \in {vcpus[g].virq_pending, vcpus[g].virq_pending \cup {VIRQ_TIMER}}
            /\ ~ Delivers(g) /\ vcpus[g].state = "BLOCKED" =>
                  vcpus'[g].state = "BLOCKED" /\ vcpus'[g].timer = vcpus[g].timer
  BY <1>1, BcmDelivers DEF GInv
<1>3. TimerLineOnly' BY <1>2 DEF GInv, TimerLineOnly
<1>4. ASSUME NEW g \in Guests, due[g] > 0
      PROVE  /\ vcpus'[g].state = "BLOCKED" /\ vcpus'[g].timer.enabled
             /\ vcpus'[g].timer.deadline >= due[g]
  <2>1. /\ vcpus[g].state = "BLOCKED" /\ vcpus[g].timer.enabled
        /\ vcpus[g].timer.deadline >= due[g] /\ due[g] \in Nat /\ now = 0
        /\ vcpus[g].timer.deadline \in Int
    BY <1>4, Indices DEF GInv, Promised, Machine, Table, GuestVcpu, GuestTimer
  <2>2. ~ Delivers(g) BY <1>4, <2>1 DEF Delivers, hv_vcpu_timer_expired
  <2> QED BY <1>2, <2>1, <2>2
<1>5. Promised' BY <1>1, <1>4 DEF GInv, Promised
<1>6. NotEarly BY <1>4 DEF NotEarly, GInv, Promised
<1>7. uncounted' \in [Guests -> Int] BY <1>1 DEF GInv
<1>8. InterruptsCounted'
  <2> SUFFICES ASSUME NEW h \in Guests, Handles(harness.program)
               PROVE  uncounted'[h]
                        = (IF hv_virq_is_pending(vcpus'[h], VIRQ_TIMER) THEN 1 ELSE 0)
                          + (IF guest[h].pc = "complete" THEN 1 ELSE 0)
    BY <1>1 DEF InterruptsCounted, hv_virq_is_pending
  <2>1. uncounted[h] = (IF hv_virq_is_pending(vcpus[h], VIRQ_TIMER) THEN 1 ELSE 0)
                       + (IF guest[h].pc = "complete" THEN 1 ELSE 0)
    BY DEF GInv, InterruptsCounted
  <2>2. uncounted'[h] = IF VIRQ_TIMER \in vcpus'[h].virq_pending \ vcpus[h].virq_pending
                        THEN uncounted[h] + 1 ELSE uncounted[h]
    BY <1>1
  <2>3. VIRQ_TIMER \in vcpus[h].virq_pending => VIRQ_TIMER \in vcpus'[h].virq_pending
    BY <1>2
  <2> QED BY <2>1, <2>2, <2>3 DEF hv_virq_is_pending
<1>9. GuestsSane' BY <1>1 DEF GInv, GuestsSane
<1> QED BY <1>2, <1>3, <1>5, <1>6, <1>7, <1>8, <1>9 DEF GInv

\* Nothing of the guests' own state changes at the end of a slice.
LEMMA PreemptionKeeps ==
    ASSUME GInv, Preemption
    PROVE  GInv' /\ NotEarly
<1>1. handle_irq_generic /\ harness' = harness /\ guest' = guest
      /\ uncounted' = uncounted /\ due' = due
  BY DEF Preemption, gvars
<1>2. Machine' /\ Calm(vcpus) BY <1>1, GenericCalm DEF GInv
<1>3. Promised' /\ TimerLineOnly' /\ NotEarly /\ SamePending
  BY <1>1, <1>2, CalmKeeps DEF GInv
<1>4. InterruptsCounted'
  BY <1>1, <1>3 DEF GInv, InterruptsCounted, SamePending, hv_virq_is_pending
<1>5. GuestsSane' BY <1>1 DEF GInv, GuestsSane
<1> QED BY <1>1, <1>2, <1>3, <1>4, <1>5 DEF GInv

\* The mark of Disturbs has no part in the count.
LEMMA DisturbsKeeps ==
    ASSUME GInv, Disturbs, SamePending, harness' = harness, uncounted' = uncounted
    PROVE  GuestsSane' /\ InterruptsCounted'
<1>1. CASE guest' = guest
  <2>1. GuestsSane' BY <1>1 DEF GInv, GuestsSane
  <2>2. InterruptsCounted'
    BY <1>1 DEF GInv, InterruptsCounted, SamePending, hv_virq_is_pending
  <2> QED BY <2>1, <2>2
<1>2. CASE cur_idx \in Guests /\ guest' = [guest EXCEPT ![cur_idx].disturbed = TRUE]
  <2> DEFINE r == guest[cur_idx]
             w == [r EXCEPT !.disturbed = TRUE]
  <2>1. r \in GuestRec /\ (Handles(harness.program) => NotNested(r))
    BY <1>2 DEF GInv, GuestsSane
  <2>2. Becomes(cur_idx, w) BY <1>2 DEF Becomes
  <2>3. /\ w \in GuestRec /\ w.pc = r.pc /\ w.lr_irq = r.lr_irq
        /\ w.irq_masked = r.irq_masked
    <3> HIDE DEF r
    <3> QED BY <2>1 DEF GuestRec
  <2> HIDE DEF w
  <2>4. Handles(harness.program) =>
           NotNested(w) /\ (w.pc = "complete" <=> guest[cur_idx].pc = "complete")
    BY <2>1, <2>3 DEF NotNested
  <2> QED BY <1>2, <2>2, <2>3, <2>4, PlainGuestStep DEF GInv
<1> QED BY <1>1, <1>2 DEF Disturbs

\* A tick brings every deadline and the end of every delay nearer by one.
LEMMA ClockTickKeeps ==
    ASSUME GInv, ClockTick
    PROVE  GInv' /\ NotEarly
<1>1. /\ Disturbs /\ harness' = harness /\ uncounted' = uncounted
      /\ cur_idx' = cur_idx /\ now' = now
      /\ vcpus' = [i \in Vcpus |->
                      IF vcpus[i].timer.enabled
                      THEN [vcpus[i] EXCEPT !.timer.deadline = @ - 1] ELSE vcpus[i]]
      /\ due' = [g \in Guests |-> IF due[g] > 0 THEN due[g] - 1 ELSE 0]
  BY DEF ClockTick
<1>2. ASSUME NEW i \in Vcpus
      PROVE  /\ vcpus'[i] \in GuestVcpu
             /\ vcpus'[i].state = vcpus[i].state
             /\ vcpus'[i].virq_pending = vcpus[i].virq_pending
             /\ vcpus[i].timer.enabled => /\ vcpus'[i].timer.enabled
                                          /\ vcpus'[i].timer.deadline
                                                = vcpus[i].timer.deadline - 1
  <2> DEFINE v == vcpus[i]
             d == v.timer.deadline - 1
             t == [v.timer EXCEPT !.deadline = d]
             w == [v EXCEPT !.timer = t]
  <2>1. v \in GuestVcpu /\ v.timer \in GuestTimer BY DEF GInv, Machine, Table, GuestVcpu
  <2>2. vcpus'[i] = IF v.timer.enabled THEN w ELSE v BY <1>1
  <2>3. d \in Int BY <2>1 DEF GuestTimer
  <2> HIDE DEF d
  <2>4. t \in GuestTimer /\ t.deadline = d
    <3> HIDE DEF v
    <3> QED BY <2>1, <2>3 DEF GuestTimer
  <2>5. t.enabled <=> v.timer.enabled
    <3> HIDE DEF v
    <3> QED BY <2>1 DEF GuestTimer
  <2> HIDE DEF t, v
  <2>6. /\ w \in GuestVcpu /\ w.timer = t
        /\ w.state = v.state /\ w.virq_pending = v.virq_pending
    BY <2>1, <2>4, SetTimer
  <2> HIDE DEF w
  <2>7. /\ vcpus'[i] \in GuestVcpu
        /\ vcpus'[i].state = v.state
        /\ vcpus'[i].virq_pending = v.virq_pending
    BY <2>1, <2>2, <2>6
  <2>8. v.timer.enabled => vcpus'[i].timer.enabled /\ vcpus'[i].timer.deadline = d
    BY <2>2, <2>4, <2>5, <2>6
  <2> QED BY <2>7, <2>8 DEF v, d
<1>3. Table(vcpus') BY <1>1, <1>2 DEF Table
<1>4. OneRunning' BY <1>1, <1>2 DEF GInv, Machine, OneRunning
<1>5. Machine' BY <1>1, <1>3, <1>4 DEF GInv, Machine
<1>6. SamePending /\ NotEarly BY <1>2, Indices DEF SamePending, NotEarly
<1>7. TimerLineOnly' BY <1>6 DEF GInv, TimerLineOnly, SamePending
<1>8. due' \in [Guests -> Nat] BY <1>1 DEF GInv, Promised
<1>9. ASSUME NEW g \in Guests, due'[g] > 0
      PROVE  /\ vcpus'[g].state = "BLOCKED" /\ vcpus'[g].timer.enabled
             /\ vcpus'[g].timer.deadline >= due'[g]
  <2>1. due[g] \in Nat /\ due'[g] = IF due[g] > 0 THEN due[g] - 1 ELSE 0
    BY <1>1 DEF GInv, Promised
  <2>2. due[g] > 0 /\ due'[g] = due[g] - 1 BY <1>9, <2>1
  <2>3. /\ vcpus[g].state = "BLOCKED" /\ vcpus[g].timer.enabled
        /\ vcpus[g].timer.deadline >= due[g] /\ vcpus[g].timer.deadline \in Int
    BY <2>2, Indices DEF GInv, Promised, Machine, Table, GuestVcpu, GuestTimer
  <2>4. /\ vcpus'[g].state = "BLOCKED" /\ vcpus'[g].timer.enabled
        /\ vcpus'[g].timer.deadline = vcpus[g].timer.deadline - 1
    BY <1>2, <2>3, Indices
  <2> QED BY <2>1, <2>2, <2>3, <2>4
<1>10. Promised' BY <1>8, <1>9 DEF Promised
<1>11. GuestsSane' /\ InterruptsCounted' BY <1>1, <1>6, DisturbsKeeps
<1> QED BY <1>1, <1>5, <1>6, <1>7, <1>10, <1>11 DEF GInv

\* The end of a slice is only signalled here.
LEMMA PreemptionTimerKeeps ==
    ASSUME GInv, PreemptionTimer
    PROVE  GInv' /\ NotEarly
<1>1. /\ Disturbs /\ harness' = harness /\ uncounted' = uncounted /\ due' = due
      /\ vcpus' = vcpus /\ cur_idx' = cur_idx /\ now' = now
  BY DEF PreemptionTimer, GenericTimerExpires
<1>2. Machine' BY <1>1 DEF GInv, Machine, Table, OneRunning
<1>3. SamePending /\ NotEarly BY <1>1 DEF SamePending, NotEarly
<1>4. TimerLineOnly' /\ Promised' BY <1>1 DEF GInv, TimerLineOnly, Promised
<1>5. GuestsSane' /\ InterruptsCounted' BY <1>1, <1>3, DisturbsKeeps
<1> QED BY <1>1, <1>2, <1>3, <1>4, <1>5 DEF GInv

\* A stuttering step.
LEMMA GuestStutter ==
    ASSUME GInv, UNCHANGED allvars
    PROVE  GInv' /\ NotEarly
<1>1. /\ harness' = harness /\ guest' = guest /\ uncounted' = uncounted /\ due' = due
      /\ vcpus' = vcpus /\ cur_idx' = cur_idx /\ now' = now
  BY DEF allvars, vars, gvars
<1>2. Machine' BY <1>1 DEF GInv, Machine, Table, OneRunning
<1>3. TimerLineOnly' /\ Promised' /\ GuestsSane' /\ NotEarly
  BY <1>1 DEF GInv, TimerLineOnly, Promised, GuestsSane, NotEarly
<1>4. InterruptsCounted' BY <1>1 DEF GInv, InterruptsCounted, hv_virq_is_pending
<1> QED BY <1>1, <1>2, <1>3, <1>4 DEF GInv

\* What every harness boots.
LEMMA GuestInitial ==
    ASSUME GuestInit
    PROVE  GInv
<1> PICK h \in Harnesses : Boot(h) BY DEF GuestInit
<1>1. h.loaded \subseteq Guests /\ 0 \in h.loaded /\ h.period \in Nat
  BY Indices, GuestAssumption DEF Harnesses
<1>2. ASSUME NEW i \in Vcpus
      PROVE  /\ vcpus[i] \in GuestVcpu /\ vcpus[i].virq_pending = {}
             /\ vcpus[i].state = "RUNNING" <=> i = 0
  <2> DEFINE t == [enabled |-> TRUE, deadline |-> h.period, period |-> h.period]
             u == IF h.period = 0 THEN hv_vcpu_init ELSE [hv_vcpu_init EXCEPT !.timer = t]
             st == IF i = 0 THEN "RUNNING" ELSE "RUNNABLE"
             w == [u EXCEPT !.state = st]
  <2>1. vcpus[i] = BootVcpu(h.loaded, h.period, i) BY DEF Boot
  <2>2. vcpus[i] = IF i \in h.loaded THEN w ELSE EmptyVcpu
    <3>1. 0 + h.period = h.period BY <1>1
    <3> QED BY <2>1, <3>1 DEF BootVcpu, hv_vcpu_timer_start_periodic
  <2>3. EmptyVcpu \in GuestVcpu /\ EmptyVcpu.virq_pending = {} /\ EmptyVcpu.state = "IDLE"
    BY DEF EmptyVcpu, TimerOff, GuestVcpu, GuestTimer, HvVcpuState
  <2>4. hv_vcpu_init \in GuestVcpu /\ hv_vcpu_init.virq_pending = {}
    BY <2>3 DEF hv_vcpu_init, GuestVcpu, HvVcpuState
  <2>5. t \in GuestTimer BY <1>1 DEF GuestTimer
  <2>6. st \in HvVcpuState /\ (st = "RUNNING" <=> i = 0) BY DEF HvVcpuState
  <2> HIDE DEF t, st
  <2>7. u \in GuestVcpu /\ u.virq_pending = {} BY <2>4, <2>5, SetTimer
  <2> HIDE DEF u
  <2>8. w \in GuestVcpu /\ w.virq_pending = {} /\ w.state = st
    BY <2>6, <2>7 DEF GuestVcpu
  <2> HIDE DEF w
  <2> QED BY <1>1, <2>2, <2>3, <2>6, <2>8
<1>3. vcpus = [i \in Vcpus |-> vcpus[i]] BY DEF Boot
<1>4. Table(vcpus) BY <1>2, <1>3 DEF Table
<1>5. Machine BY <1>2, <1>4, Indices DEF Machine, OneRunning, GuestInit
<1>6. GuestStart \in GuestRec /\ NotNested(GuestStart) /\ GuestStart.pc = "start"
  BY DEF GuestStart, GuestRec, GuestPcs, NotNested, InHandler, NoPending
<1>7. guest = [g \in Guests |-> GuestStart] BY DEF GuestInit
<1>8. GuestsSane BY <1>6, <1>7 DEF GuestsSane
<1>9. TimerLineOnly BY <1>2, Indices DEF TimerLineOnly
<1>10. Promised BY DEF GuestInit, Promised
<1>11. uncounted \in [Guests -> Int] /\ \A g \in Guests : uncounted[g] = 0
  BY DEF GuestInit
<1>12. InterruptsCounted
  <2> SUFFICES ASSUME NEW g \in Guests
               PROVE  uncounted[g]
                        = (IF hv_virq_is_pending(vcpus[g], VIRQ_TIMER) THEN 1 ELSE 0)
                          + (IF guest[g].pc = "complete" THEN 1 ELSE 0)
    BY DEF InterruptsCounted
  <2>1. guest[g].pc # "complete" BY <1>6, <1>7
  <2>2. ~ hv_virq_is_pending(vcpus[g], VIRQ_TIMER)
    BY <1>2, Indices DEF hv_virq_is_pending
  <2> QED BY <1>11, <2>1, <2>2
<1> QED BY <1>5, <1>8, <1>9, <1>10, <1>11, <1>12 DEF GInv

-----------------------------------------------------------------------------
\* Every step keeps the invariant and wakes no sleeper early.
LEMMA GuestNextKeeps ==
    ASSUME GInv, [GuestNext]_allvars
    PROVE  GInv' /\ NotEarly
<1>1. ASSUME NEW g \in Guests, GuestStep(g) PROVE GInv' /\ NotEarly
  BY <1>1, GuestStepKeeps
<1>2. CASE TimerInterrupt BY <1>2, TimerInterruptKeeps
<1>3. CASE Preemption BY <1>3, PreemptionKeeps
<1>4. CASE ClockTick BY <1>4, ClockTickKeeps
<1>5. CASE PreemptionTimer BY <1>5, PreemptionTimerKeeps
<1>6. CASE UNCHANGED allvars BY <1>6, GuestStutter
<1> QED BY <1>1, <1>2, <1>3, <1>4, <1>5, <1>6 DEF GuestNext

\* No timer interrupt is lost or counted twice between hv_virq_raise and the
\* guest's handler (guests/timer-main.c, guests/virq-main.c), for any number of
\* guests, timer period and latency.
THEOREM InterruptsReachCounter == GuestSpec => []InterruptsCounted
<1>1. GuestInit => GInv BY GuestInitial
<1>2. GInv /\ [GuestNext]_allvars => GInv' BY GuestNextKeeps
<1>3. GInv => InterruptsCounted BY DEF GInv
<1> QED BY <1>1, <1>2, <1>3, PTL DEF GuestSpec

\* HYPERCALL_TIMER_DELAY_TICKS: no step of the scheduler, of another guest or of
\* the periodic timer wakes the caller before its delay is over.
THEOREM DelaysAreKept == GuestSpec => DelayLasts
<1>1. GuestInit => GInv BY GuestInitial
<1>2. GInv /\ [GuestNext]_allvars => GInv' BY GuestNextKeeps
<1>3. GInv /\ [GuestNext]_allvars =>
        [\A g \in Guests :
            vcpus[g].state = "BLOCKED" /\ vcpus'[g].state # "BLOCKED" => due[g] = 0]_allvars
  BY GuestNextKeeps DEF NotEarly
<1> QED BY <1>1, <1>2, <1>3, PTL DEF GuestSpec, DelayLasts
=============================================================================
