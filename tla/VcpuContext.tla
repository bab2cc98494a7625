---------------------------- MODULE VcpuContext ----------------------------
(***************************************************************************)
(* The register state of a vCPU across traps and switches: the exception   *)
(* frame that src/arch/hyp-vectors.S builds on the Hyp stack, the context  *)
(* that hv_vcpu_save and hv_vcpu_load of src/hv/vcpu.c move in and out of  *)
(* it, and the handlers that edit the frame in between.  Which vCPU comes  *)
(* next is the business of module Hypervisor: here it is any other one.    *)
(*                                                                         *)
(* The variable own is a history variable: what each vCPU wrote or was     *)
(* given last, that is, what it must find when it runs again.              *)
(***************************************************************************)
EXTENDS Integers

CONSTANTS
    Vcpus,      \* the vCPUs, idle included
    Boot,       \* the one hv_vcpu_enter_initial starts
    Words,      \* values a register can hold
    Zero,       \* the one hv_vcpu_init clears registers to
    PcLimit,    \* bound: program counters are taken modulo this
    GuestRegs   \* bound: the registers that guests write

ASSUME ContextAssumption ==
    /\ Boot \in Vcpus
    /\ Zero \in Words
    /\ PcLimit \in Nat \ {0}
    /\ GuestRegs \subseteq {"gpr", "banked", "vbar", "cp15"}

VARIABLES
    regs,    \* the core's registers
    frame,   \* the HypExceptState on the Hyp stack
    ctx,     \* vcpu->context of every vCPU
    cur,     \* scheduler.cur_vcpu
    mode,    \* "guest", the trap being handled, or "exit" (handler returned)
    own      \* history: the registers each vCPU must find

vars == <<regs, frame, ctx, cur, mode, own>>

Pcs == 0 .. PcLimit - 1

\* r0 carries hypercall results; gpr stands for r1-r12, lr and spsr_hyp, which
\* travel in the frame with it; banked for the seven words of HypBankedRegs;
\* cp15 for SCTLR and DACR of HvGuestSysRegs, which nothing saves or loads.
HypExceptState == [r0 : Words, gpr : Words, elr_hyp : Pcs]

HvVcpuContext == [hyp_state : HypExceptState, banked_regs : Words, vbar : Words]

Registers == [r0 : Words, gpr : Words, pc : Pcs, banked : Words, vbar : Words,
              cp15 : Words]

\* The hypercalls by what they do to the caller's context; MMIO is an abort
\* that is emulated.
Traps == {"CALL_RESULT", "CALL_YIELD", "CALL_EXIT", "CALL_DELAY", "WFI", "MMIO", "IRQ"}

TypeOK ==
    /\ regs \in Registers
    /\ frame \in HypExceptState
    /\ ctx \in [Vcpus -> HvVcpuContext]
    /\ cur \in Vcpus
    /\ mode \in Traps \cup {"guest", "exit"}
    /\ own \in [Vcpus -> Registers]

-----------------------------------------------------------------------------
(***************************************************************************)
(* The core in guest mode.  None of these registers is trapped.            *)
(***************************************************************************)
NextPc(pc) == (pc + 1) % PcLimit

GuestWrites(reg, w) ==
    /\ mode = "guest"
    /\ regs' = [regs EXCEPT ![reg] = w]
    /\ own' = [own EXCEPT ![cur][reg] = w]
    /\ UNCHANGED <<frame, ctx, cur, mode>>

GuestSteps ==
    /\ mode = "guest"
    /\ regs' = [regs EXCEPT !.pc = NextPc(@)]
    /\ own' = [own EXCEPT ![cur].pc = NextPc(@)]
    /\ UNCHANGED <<frame, ctx, cur, mode>>

\* HVC leaves the address of the next instruction in ELR_hyp; the other traps
\* leave the address of the instruction that was trapped or interrupted.
ReturnPc(t) ==
    IF t \in {"CALL_RESULT", "CALL_YIELD", "CALL_EXIT", "CALL_DELAY"}
    THEN NextPc(regs.pc) ELSE regs.pc

hyp_except_entry(t) ==
    /\ mode = "guest"
    /\ frame' = [r0 |-> regs.r0, gpr |-> regs.gpr, elr_hyp |-> ReturnPc(t)]
    /\ own' = [own EXCEPT ![cur].pc = ReturnPc(t)]
    /\ mode' = t
    /\ UNCHANGED <<regs, ctx, cur>>

\* What is left on the stack below the stack pointer: nothing reads it.
NoFrame == [r0 |-> Zero, gpr |-> Zero, elr_hyp |-> 0]

\* The frame's registers are popped and ERET resumes at ELR_hyp.
hyp_except_exit ==
    /\ mode = "exit"
    /\ frame' = NoFrame
    /\ regs' = [regs EXCEPT !.r0 = frame.r0, !.gpr = frame.gpr, !.pc = frame.elr_hyp]
    /\ mode' = "guest"
    /\ UNCHANGED <<ctx, cur, own>>

-----------------------------------------------------------------------------
(***************************************************************************)
(* Saving and loading.  f is the frame as the handler has left it.         *)
(***************************************************************************)

hyp_save_banked_regs == regs.banked

\* VBAR is not saved, the bug of 6/8/26 in docs/dev-log.MD.
Mutant_hv_vcpu_save(c, f) == [c EXCEPT !.hyp_state = f, !.banked_regs = hyp_save_banked_regs]

hv_vcpu_save(c, f) ==
    [c EXCEPT !.hyp_state = f, !.banked_regs = hyp_save_banked_regs, !.vbar = regs.vbar]

hyp_load_banked_regs(c) == [regs EXCEPT !.banked = c.banked_regs]

hv_vcpu_load(c) ==
    /\ regs' = [hyp_load_banked_regs(c) EXCEPT !.vbar = c.vbar]
    /\ frame' = c.hyp_state

hv_scheduler_switch_to(f, next) ==
    /\ ctx' = [ctx EXCEPT ![cur] = hv_vcpu_save(@, f)]
    /\ hv_vcpu_load(ctx'[next])
    /\ cur' = next

\* The handler returns to the vCPU it came from.
Return(f) == frame' = f /\ UNCHANGED <<regs, ctx, cur>>

\* The scheduler returns to the caller or switches to another vCPU.  A switch
\* of the sole runnable vCPU to itself saves and loads the same context.
Schedule(f) == Return(f) \/ \E next \in Vcpus : hv_scheduler_switch_to(f, next)

-----------------------------------------------------------------------------
(***************************************************************************)
(* The handlers.                                                           *)
(***************************************************************************)
Handles(t) == mode = t /\ mode' = "exit"

\* Every hypercall that only sets r0.
HypercallResult(w) ==
    /\ Handles("CALL_RESULT")
    /\ Return([frame EXCEPT !.r0 = w])
    /\ own' = [own EXCEPT ![cur].r0 = w]

\* r0 keeps the call number.
HypercallYield ==
    /\ Handles("CALL_YIELD")
    /\ Schedule(frame)
    /\ UNCHANGED own

\* A vCPU that exits is never scheduled again, so nothing is owed to it.
HypercallExit ==
    /\ Handles("CALL_EXIT")
    /\ \E next \in Vcpus \ {cur} : hv_scheduler_switch_to(frame, next)
    /\ UNCHANGED own

\* The result is put into the frame before the frame is saved.
HypercallDelay(success) ==
    /\ Handles("CALL_DELAY")
    /\ \E next \in Vcpus \ {cur} :
          hv_scheduler_switch_to([frame EXCEPT !.r0 = success], next)
    /\ own' = [own EXCEPT ![cur].r0 = success]

\* The trapped instruction is stepped over in the frame.
advance_trapped_instr == [frame EXCEPT !.elr_hyp = NextPc(@)]

\* WFI counts as done before the vCPU sleeps, so it resumes after it.
hv_scheduler_handle_wfi ==
    /\ Handles("WFI")
    /\ Schedule(advance_trapped_instr)
    /\ own' = [own EXCEPT ![cur].pc = NextPc(@)]

\* mmio_write_guest_reg puts what was read into the frame; a write leaves it.
handle_guest_abort(w) ==
    /\ Handles("MMIO")
    /\ Return([advance_trapped_instr EXCEPT !.gpr = w])
    /\ own' = [own EXCEPT ![cur].gpr = w, ![cur].pc = NextPc(@)]

handle_irq ==
    /\ Handles("IRQ")
    /\ Schedule(frame)
    /\ UNCHANGED own

-----------------------------------------------------------------------------
\* hv_vcpu_init clears the context; stack pointers are among the banked words.
hv_vcpu_init ==
    [hyp_state |-> [r0 |-> Zero, gpr |-> Zero, elr_hyp |-> 0],
     banked_regs |-> Zero, vbar |-> Zero]

\* hv_vcpu_enter_initial loads the frame and the banked registers of the first
\* vCPU, and no VBAR: that one starts with whatever the core holds.
Init ==
    /\ ctx = [i \in Vcpus |-> hv_vcpu_init]
    /\ cur = Boot
    /\ \E w \in Words :
          /\ regs = [r0 |-> Zero, gpr |-> Zero, pc |-> 0, banked |-> Zero,
                     vbar |-> w, cp15 |-> Zero]
          /\ own = [i \in Vcpus |-> [regs EXCEPT !.vbar = IF i = Boot THEN w ELSE Zero]]
    /\ frame = NoFrame
    /\ mode = "guest"

Next ==
    \/ \E reg \in GuestRegs, w \in Words : GuestWrites(reg, w)
    \/ GuestSteps
    \/ \E t \in Traps : hyp_except_entry(t)
    \/ hyp_except_exit
    \/ \E w \in Words : HypercallResult(w) \/ HypercallDelay(w) \/ handle_guest_abort(w)
    \/ HypercallYield
    \/ HypercallExit
    \/ hv_scheduler_handle_wfi
    \/ handle_irq

Spec == Init /\ [][Next]_vars

-----------------------------------------------------------------------------
\* Whenever a vCPU runs, it finds the program counter, the general registers,
\* the banked registers and the vector base that it left or was given, however
\* often and for whom the core was used in between (hv_vcpu_save, hv_vcpu_load
\* and the handlers that edit the frame before it is saved).
ContextPreserved ==
    mode = "guest" =>
        \A reg \in {"r0", "gpr", "pc", "banked", "vbar"} : regs[reg] = own[cur][reg]

\* docs/presentation-diagrams.md lists SCTLR and DACR in the context that is
\* "everything needed to resume execution" (HvGuestSysRegs, hv_vcpu_save).
SysRegsPreserved == mode = "guest" => regs.cp15 = own[cur].cp15
=============================================================================
