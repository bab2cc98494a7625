------------------------- MODULE VcpuContext_proofs -------------------------
(***************************************************************************)
(* The context switch preserves every saved register, for any number of    *)
(* vCPUs and any register values.  The inductive invariant says where each *)
(* register of each vCPU is between its runs: in the core, in the frame on *)
(* the Hyp stack, or in the saved context.                                 *)
(***************************************************************************)
EXTENDS VcpuContext, TLAPS

\* The frame holds what the vCPU with registers o must find.
FrameMatches(f, o) == f.r0 = o.r0 /\ f.gpr = o.gpr /\ f.elr_hyp = o.pc

\* A vCPU that is not current is entirely in its saved context.
SavedMatch ==
    \A i \in Vcpus \ {cur} :
        /\ FrameMatches(ctx[i].hyp_state, own[i])
        /\ ctx[i].banked_regs = own[i].banked
        /\ ctx[i].vbar = own[i].vbar

\* Hyp code uses neither the banked registers nor VBAR, so they stay in the core.
UnframedMatch == regs.banked = own[cur].banked /\ regs.vbar = own[cur].vbar

FramedMatch ==
    IF mode = "guest"
    THEN regs.r0 = own[cur].r0 /\ regs.gpr = own[cur].gpr /\ regs.pc = own[cur].pc
    ELSE FrameMatches(frame, own[cur])

CInv == TypeOK /\ SavedMatch /\ UnframedMatch /\ FramedMatch

-----------------------------------------------------------------------------
\* A program counter that is stepped stays a program counter.
LEMMA NextPcType == \A pc \in Pcs : NextPc(pc) \in Pcs
  BY ContextAssumption DEF Pcs, NextPc

\* The reset context is well formed.
LEMMA BootType == hv_vcpu_init \in HvVcpuContext /\ NoFrame \in HypExceptState
  BY ContextAssumption DEF hv_vcpu_init, NoFrame, HvVcpuContext, HypExceptState, Pcs

\* After hv_vcpu_init and hv_vcpu_enter_initial every register is in its place.
LEMMA InitContext == Init => CInv
<1>. SUFFICES ASSUME Init PROVE CInv
  OBVIOUS
<1>. USE ContextAssumption
<1>1. PICK w \in Words :
         /\ regs = [r0 |-> Zero, gpr |-> Zero, pc |-> 0, banked |-> Zero,
                    vbar |-> w, cp15 |-> Zero]
         /\ own = [i \in Vcpus |-> [regs EXCEPT !.vbar = IF i = Boot THEN w ELSE Zero]]
  BY DEF Init
<1>2. /\ ctx = [i \in Vcpus |-> hv_vcpu_init] /\ cur = Boot
      /\ frame = NoFrame /\ mode = "guest"
  BY DEF Init
<1>3. regs \in Registers /\ 0 \in Pcs
  BY <1>1 DEF Registers, Pcs
<1>4. \A i \in Vcpus : own[i] = [r0 |-> Zero, gpr |-> Zero, pc |-> 0, banked |-> Zero,
                                 vbar |-> IF i = Boot THEN w ELSE Zero, cp15 |-> Zero]
  BY <1>1
<1>5. own \in [Vcpus -> Registers]
  BY <1>1, <1>3 DEF Registers
<1>6. TypeOK
  BY <1>2, <1>3, <1>5, BootType DEF TypeOK
<1>7. SavedMatch
  <2>. SUFFICES ASSUME NEW i \in Vcpus \ {cur}
                PROVE  /\ FrameMatches(ctx[i].hyp_state, own[i])
                       /\ ctx[i].banked_regs = own[i].banked
                       /\ ctx[i].vbar = own[i].vbar
    BY DEF SavedMatch
  <2>1. ctx[i] = hv_vcpu_init /\ i # Boot
    BY <1>2
  <2>2. /\ own[i].r0 = Zero /\ own[i].gpr = Zero /\ own[i].pc = 0
        /\ own[i].banked = Zero /\ own[i].vbar = Zero
    <3>1. own[i] = [r0 |-> Zero, gpr |-> Zero, pc |-> 0, banked |-> Zero,
                    vbar |-> Zero, cp15 |-> Zero]
      BY <1>4, <2>1, Zenon
    <3>. QED BY <3>1
  <2>. QED BY <2>1, <2>2 DEF FrameMatches, hv_vcpu_init
<1>8. UnframedMatch /\ FramedMatch
  BY <1>1, <1>2, <1>4 DEF UnframedMatch, FramedMatch
<1>. QED BY <1>6, <1>7, <1>8 DEF CInv

-----------------------------------------------------------------------------
\* A guest that runs changes only registers that are its own and in the core.
LEMMA GuestWritesStep ==
    ASSUME CInv, NEW reg \in GuestRegs, NEW w \in Words, GuestWrites(reg, w)
    PROVE  CInv'
<1>. USE DEF CInv
<1>1. /\ mode = "guest"
      /\ regs' = [regs EXCEPT ![reg] = w]
      /\ own' = [own EXCEPT ![cur] = [own[cur] EXCEPT ![reg] = w]]
      /\ UNCHANGED <<frame, ctx, cur, mode>>
  BY DEF GuestWrites
<1>2. regs \in Registers /\ cur \in Vcpus /\ own[cur] \in Registers
      /\ own \in [Vcpus -> Registers]
  BY DEF TypeOK
<1>3. reg \in {"gpr", "banked", "vbar", "cp15"}
  BY ContextAssumption
<1>4. regs' \in Registers /\ own'[cur] \in Registers
  BY <1>1, <1>2, <1>3 DEF Registers
<1>5. own' \in [Vcpus -> Registers] /\ \A i \in Vcpus \ {cur} : own'[i] = own[i]
  BY <1>1, <1>2, <1>4
<1>6. TypeOK'
  BY <1>1, <1>4, <1>5 DEF TypeOK
<1>7. SavedMatch'
  BY <1>1, <1>5 DEF SavedMatch, FrameMatches
<1>8. UnframedMatch' /\ FramedMatch'
  BY <1>1, <1>2, <1>3 DEF UnframedMatch, FramedMatch, Registers
<1>. QED BY <1>6, <1>7, <1>8

\* So does one that executes an instruction.
LEMMA GuestStepsStep == ASSUME CInv, GuestSteps PROVE CInv'
<1>. USE DEF CInv
<1>1. /\ mode = "guest"
      /\ regs' = [regs EXCEPT !.pc = NextPc(regs.pc)]
      /\ own' = [own EXCEPT ![cur] = [own[cur] EXCEPT !.pc = NextPc(own[cur].pc)]]
      /\ UNCHANGED <<frame, ctx, cur, mode>>
  BY DEF GuestSteps
<1>2. regs \in Registers /\ cur \in Vcpus /\ own[cur] \in Registers
      /\ own \in [Vcpus -> Registers]
  BY DEF TypeOK
<1>3. regs.pc \in Pcs /\ own[cur].pc \in Pcs
  BY <1>2 DEF Registers
<1>4. NextPc(regs.pc) \in Pcs /\ NextPc(own[cur].pc) \in Pcs
  BY <1>3, NextPcType
<1>5. regs' \in Registers /\ own'[cur] \in Registers
  BY <1>1, <1>2, <1>4 DEF Registers
<1>6. own' \in [Vcpus -> Registers] /\ \A i \in Vcpus \ {cur} : own'[i] = own[i]
  BY <1>1, <1>2, <1>5
<1>7. TypeOK'
  BY <1>1, <1>5, <1>6 DEF TypeOK
<1>8. SavedMatch'
  BY <1>1, <1>6 DEF SavedMatch, FrameMatches
<1>9. UnframedMatch' /\ FramedMatch'
  BY <1>1, <1>2 DEF UnframedMatch, FramedMatch, Registers
<1>. QED BY <1>7, <1>8, <1>9

\* The entry code moves the framed registers from the core into the frame.
LEMMA EntryStep == ASSUME CInv, NEW t \in Traps, hyp_except_entry(t) PROVE CInv'
<1>. USE DEF CInv
<1>1. /\ mode = "guest" /\ mode' = t
      /\ frame' = [r0 |-> regs.r0, gpr |-> regs.gpr, elr_hyp |-> ReturnPc(t)]
      /\ own' = [own EXCEPT ![cur] = [own[cur] EXCEPT !.pc = ReturnPc(t)]]
      /\ UNCHANGED <<regs, ctx, cur>>
  BY DEF hyp_except_entry
<1>2. regs \in Registers /\ cur \in Vcpus /\ own[cur] \in Registers
      /\ own \in [Vcpus -> Registers]
  BY DEF TypeOK
<1>3. ReturnPc(t) \in Pcs
  BY <1>2, NextPcType DEF ReturnPc, Registers
<1>4. frame' \in HypExceptState /\ own'[cur] \in Registers
  BY <1>1, <1>2, <1>3 DEF Registers, HypExceptState
<1>5. own' \in [Vcpus -> Registers] /\ \A i \in Vcpus \ {cur} : own'[i] = own[i]
  BY <1>1, <1>2, <1>4
<1>6. TypeOK'
  BY <1>1, <1>4, <1>5 DEF TypeOK
<1>7. SavedMatch'
  BY <1>1, <1>5 DEF SavedMatch, FrameMatches
<1>8. t # "guest"
  BY DEF Traps
<1>9. UnframedMatch' /\ FramedMatch'
  BY <1>1, <1>2, <1>8 DEF UnframedMatch, FramedMatch, FrameMatches, Registers
<1>. QED BY <1>6, <1>7, <1>9

\* The exit code moves them back.
LEMMA ExitStep == ASSUME CInv, hyp_except_exit PROVE CInv'
<1>. USE DEF CInv
<1>1. /\ mode = "exit" /\ mode' = "guest" /\ frame' = NoFrame
      /\ regs' = [regs EXCEPT !.r0 = frame.r0, !.gpr = frame.gpr, !.pc = frame.elr_hyp]
      /\ UNCHANGED <<ctx, cur, own>>
  BY DEF hyp_except_exit
<1>2. regs \in Registers /\ frame \in HypExceptState
  BY DEF TypeOK
<1>3. regs' \in Registers
  BY <1>1, <1>2 DEF Registers, HypExceptState
<1>4. TypeOK'
  BY <1>1, <1>3, BootType DEF TypeOK
<1>5. SavedMatch'
  BY <1>1 DEF SavedMatch
<1>6. UnframedMatch' /\ FramedMatch'
  BY <1>1, <1>2 DEF UnframedMatch, FramedMatch, FrameMatches, Registers
<1>. QED BY <1>4, <1>5, <1>6

-----------------------------------------------------------------------------
\* A handler that leaves frame f for the current vCPU and owes it o, and then
\* returns or switches, keeps the invariant provided f and o agree.
LEMMA HandlerStep ==
    ASSUME CInv, NEW f \in HypExceptState, NEW o \in Registers,
           mode # "guest", mode' = "exit",
           Return(f) \/ \E next \in Vcpus : hv_scheduler_switch_to(f, next),
           own' = [own EXCEPT ![cur] = o],
           FrameMatches(f, o), o.banked = own[cur].banked, o.vbar = own[cur].vbar
    PROVE  CInv'
<1>. USE DEF CInv
<1>1. regs \in Registers /\ cur \in Vcpus /\ own \in [Vcpus -> Registers]
      /\ ctx \in [Vcpus -> HvVcpuContext]
  BY DEF TypeOK
<1>2. own' \in [Vcpus -> Registers] /\ own'[cur] = o /\ \A i \in Vcpus \ {cur} : own'[i] = own[i]
  BY <1>1
<1>3. CASE Return(f)
  <2>1. frame' = f /\ UNCHANGED <<regs, ctx, cur>>
    BY <1>3 DEF Return
  <2>2. TypeOK'
    BY <1>2, <2>1 DEF TypeOK
  <2>3. SavedMatch'
    BY <1>2, <2>1 DEF SavedMatch
  <2>4. UnframedMatch' /\ FramedMatch'
    BY <1>2, <2>1 DEF UnframedMatch, FramedMatch
  <2>. QED BY <2>2, <2>3, <2>4
<1>4. ASSUME NEW next \in Vcpus, hv_scheduler_switch_to(f, next) PROVE CInv'
  <2>. DEFINE c == hv_vcpu_save(ctx[cur], f)
  <2>1. ctx' = [ctx EXCEPT ![cur] = c] /\ cur' = next
    BY <1>4 DEF hv_scheduler_switch_to
  <2>2. /\ regs' = [regs EXCEPT !.banked = ctx'[next].banked_regs, !.vbar = ctx'[next].vbar]
        /\ frame' = ctx'[next].hyp_state
    BY <1>4 DEF hv_scheduler_switch_to, hv_vcpu_load, hyp_load_banked_regs
  <2>3. /\ c \in HvVcpuContext /\ c.hyp_state = f
        /\ c.banked_regs = regs.banked /\ c.vbar = regs.vbar
    BY <1>1 DEF hv_vcpu_save, hyp_save_banked_regs, HvVcpuContext, Registers
  <2>. HIDE DEF c
  <2>4. /\ ctx' \in [Vcpus -> HvVcpuContext] /\ ctx'[cur] = c
        /\ \A i \in Vcpus \ {cur} : ctx'[i] = ctx[i]
    BY <1>1, <2>1, <2>3
  <2>5. \A i \in Vcpus : /\ FrameMatches(ctx'[i].hyp_state, own'[i])
                         /\ ctx'[i].banked_regs = own'[i].banked
                         /\ ctx'[i].vbar = own'[i].vbar
    <3>1. ASSUME NEW i \in Vcpus \ {cur}
          PROVE  /\ FrameMatches(ctx'[i].hyp_state, own'[i])
                 /\ ctx'[i].banked_regs = own'[i].banked
                 /\ ctx'[i].vbar = own'[i].vbar
      BY <1>2, <2>4 DEF SavedMatch
    <3>2. /\ FrameMatches(ctx'[cur].hyp_state, own'[cur])
          /\ ctx'[cur].banked_regs = own'[cur].banked
          /\ ctx'[cur].vbar = own'[cur].vbar
      BY <1>2, <2>3, <2>4 DEF UnframedMatch
    <3>. QED BY <3>1, <3>2
  <2>6. ctx'[next] \in HvVcpuContext
    BY <2>4
  <2>7. /\ regs' \in Registers /\ frame' \in HypExceptState
        /\ regs'.banked = ctx'[next].banked_regs /\ regs'.vbar = ctx'[next].vbar
    BY <1>1, <2>2, <2>6 DEF Registers, HvVcpuContext
  <2>8. TypeOK'
    BY <1>2, <2>1, <2>4, <2>7 DEF TypeOK
  <2>9. SavedMatch'
    BY <2>5 DEF SavedMatch
  <2>10. UnframedMatch' /\ FramedMatch'
    BY <2>1, <2>2, <2>5, <2>7 DEF UnframedMatch, FramedMatch
  <2>. QED BY <2>8, <2>9, <2>10
<1>. QED BY <1>3, <1>4

\* Each handler meets the conditions of HandlerStep.
LEMMA HandlersKeepContext ==
    ASSUME CInv, NEW w \in Words,
           \/ HypercallResult(w) \/ HypercallDelay(w) \/ handle_guest_abort(w)
           \/ HypercallYield \/ HypercallExit \/ hv_scheduler_handle_wfi \/ handle_irq
    PROVE  CInv'
<1>1. /\ frame \in HypExceptState /\ own[cur] \in Registers
      /\ own \in [Vcpus -> Registers] /\ cur \in Vcpus
  BY DEF CInv, TypeOK
<1>2. mode # "guest" /\ mode' = "exit"
  BY DEF HypercallResult, HypercallDelay, handle_guest_abort, HypercallYield,
         HypercallExit, hv_scheduler_handle_wfi, handle_irq, Handles
<1>3. FrameMatches(frame, own[cur])
  BY <1>2 DEF CInv, FramedMatch
<1>4. frame.elr_hyp \in Pcs
  BY <1>1 DEF HypExceptState
<1>5. NextPc(frame.elr_hyp) \in Pcs
  BY <1>4, NextPcType
<1>6. CASE HypercallResult(w) \/ HypercallDelay(w)
  <2>. DEFINE f == [frame EXCEPT !.r0 = w]
              o == [own[cur] EXCEPT !.r0 = w]
  <2>1. /\ Return(f) \/ \E next \in Vcpus : hv_scheduler_switch_to(f, next)
        /\ own' = [own EXCEPT ![cur] = o]
    BY <1>6 DEF HypercallResult, HypercallDelay
  <2>2. /\ f \in HypExceptState /\ o \in Registers /\ FrameMatches(f, o)
        /\ o.banked = own[cur].banked /\ o.vbar = own[cur].vbar
    BY <1>1, <1>3 DEF HypExceptState, Registers, FrameMatches
  <2>. HIDE DEF f, o
  <2>. QED BY <1>2, <2>1, <2>2, HandlerStep
<1>7. CASE handle_guest_abort(w)
  <2>. DEFINE f == [advance_trapped_instr EXCEPT !.gpr = w]
              o == [own[cur] EXCEPT !.gpr = w, !.pc = NextPc(own[cur].pc)]
  <2>1. Return(f) /\ own' = [own EXCEPT ![cur] = o]
    BY <1>1, <1>7 DEF handle_guest_abort, Registers
  <2>2. /\ f \in HypExceptState /\ o \in Registers /\ FrameMatches(f, o)
        /\ o.banked = own[cur].banked /\ o.vbar = own[cur].vbar
    BY <1>1, <1>3, <1>5
    DEF HypExceptState, Registers, FrameMatches, advance_trapped_instr
  <2>. HIDE DEF f, o
  <2>. QED BY <1>2, <2>1, <2>2, HandlerStep
<1>8. CASE hv_scheduler_handle_wfi
  <2>. DEFINE f == advance_trapped_instr
              o == [own[cur] EXCEPT !.pc = NextPc(own[cur].pc)]
  <2>1. /\ Return(f) \/ \E next \in Vcpus : hv_scheduler_switch_to(f, next)
        /\ own' = [own EXCEPT ![cur] = o]
    BY <1>8 DEF hv_scheduler_handle_wfi, Schedule
  <2>2. /\ f \in HypExceptState /\ o \in Registers /\ FrameMatches(f, o)
        /\ o.banked = own[cur].banked /\ o.vbar = own[cur].vbar
    BY <1>1, <1>3, <1>5
    DEF HypExceptState, Registers, FrameMatches, advance_trapped_instr
  <2>. HIDE DEF f, o
  <2>. QED BY <1>2, <2>1, <2>2, HandlerStep
<1>9. CASE HypercallYield \/ HypercallExit \/ handle_irq
  <2>1. /\ Return(frame) \/ \E next \in Vcpus : hv_scheduler_switch_to(frame, next)
        /\ own' = own
    BY <1>9 DEF HypercallYield, HypercallExit, handle_irq, Schedule
  <2>2. own' = [own EXCEPT ![cur] = own[cur]]
    BY <1>1, <2>1
  <2>. QED BY <1>1, <1>2, <1>3, <2>1, <2>2, HandlerStep
<1>. QED BY <1>6, <1>7, <1>8, <1>9

\* Every step keeps every register in its place.
LEMMA ContextStep == CInv /\ [Next]_vars => CInv'
<1>. SUFFICES ASSUME CInv, [Next]_vars PROVE CInv'
  OBVIOUS
<1>1. CASE UNCHANGED vars
  BY <1>1 DEF vars, CInv, TypeOK, SavedMatch, UnframedMatch, FramedMatch
<1>2. ASSUME NEW reg \in GuestRegs, NEW w \in Words, GuestWrites(reg, w) PROVE CInv'
  BY <1>2, GuestWritesStep
<1>3. CASE GuestSteps
  BY <1>3, GuestStepsStep
<1>4. ASSUME NEW t \in Traps, hyp_except_entry(t) PROVE CInv'
  BY <1>4, EntryStep
<1>5. CASE hyp_except_exit
  BY <1>5, ExitStep
<1>6. ASSUME NEW w \in Words,
             HypercallResult(w) \/ HypercallDelay(w) \/ handle_guest_abort(w)
      PROVE  CInv'
  BY <1>6, HandlersKeepContext
<1>7. CASE HypercallYield \/ HypercallExit \/ hv_scheduler_handle_wfi \/ handle_irq
  BY <1>7, HandlersKeepContext, ContextAssumption
<1>. QED BY <1>1, <1>2, <1>3, <1>4, <1>5, <1>6, <1>7 DEF Next

\* For any number of vCPUs, whenever one runs it finds every saved register as
\* it left it or as a handler promised it.
THEOREM ContextSwitchCorrect == Spec => []ContextPreserved
<1>1. CInv => ContextPreserved
  BY DEF CInv, UnframedMatch, FramedMatch, ContextPreserved
<1>. QED BY <1>1, InitContext, ContextStep, PTL DEF Spec
=============================================================================
