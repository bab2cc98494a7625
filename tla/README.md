# Verification of pi-pervisor

TLA+ specifications, TLC model-checking runs and TLAPS proofs for pi-pervisor, a
bare-metal AArch32 hypervisor for the Raspberry Pi Zero 2 W, and for the serial
bootloader that installs it. `PROJECT.json` is the index: components, runs, mutants, the
map from definitions to source lines, findings, hazards and theorems. In it `src/` is the
root of the repository, so `src/src/hv/vm.c` is the repository's `src/hv/vm.c`; this
document uses the repository's own paths.

## 1. Inventory

| Component | State | Operations | Hard because |
|---|---|---|---|
| Scheduler (`src/hv/scheduler.c`) | vCPU table, current index | yield, advance, switch, WFI, enter idle | preemption, blocking, waking and exit in any order; core registers must follow |
| vCPU and virtual timer (`src/hv/vcpu.c`) | state, deadline, period | block, wake, start, advance, delay, disable | late interrupts, 32-bit clock against 64-bit deadlines |
| Virtual interrupts (`src/hv/virq.c`) | pending and active bitmaps, HCR.VI | raise, claim, complete, sync | raised while descheduled, while serviced, while blocked |
| Timer multiplexing (`hv_vtimer_rearm_physical`, `src/drivers/timer.c`) | one physical timer | rearm at every change | many virtual timers, clamped delta |
| Hypercalls (`src/hv/hypercall.c`) and traps (`src/arch/hyp-exceptions.c`) | exception frame | the handlers | one guest's error must not corrupt another |
| Context switch (`src/hv/vcpu.c`, `src/arch/hyp-vectors.S`, `hyp-banked-regs.S`) | frame, banked registers, VBAR | entry, save, load, exit | effects show only when the vCPU runs again |
| VM regions (`src/hv/vm.c`) | region table | add, find, build | order of requests, overlaps, capacity |
| Stage-2 tables (`src/hv/stage2.c`, `src/hv/mmu.c`) | table pool, VTTBR, TLB | map, unmap, translate, activate | failure half way, exhausted pool, stale TLB entries |
| MMIO and virtual UART (`src/hv/mmio.c`, `virtual-device.c`, `vuart.c`) | registers per VM, one physical UART | load, store | decode cases, sign extension, shared line |
| Guest memory layout (`hv_scheduler_init`, `include/hv/guest-image.h`, `linker.ld`) | slots | regions of each guest | nothing compares the frames of two VMs |
| Guests (`guests/`) and the harnesses that boot them (`tests/test-guest-*.c`) | tick counter, masked IRQs, program counter | the programs and their interrupt handlers | interrupts between a test and the WFI after it, delays that replace periodic timers |
| Bootloader (`bootloader/`) | two state machines and a line | install protocol | lost and junk bytes, time-outs, repeated runs, output of a program that runs already |
| Output (`src/lib/`, `src/drivers/uart.c`, `src/platform/platform.c`) and console of the installer (`bootloader/src/pi-echo.c`, `tty-helpers.c`) | transmit FIFO, receive buffer, marker position, buffer of stdio | print, panic, fail an assertion, reboot; find, open, echo, end | the reads cut the text anywhere, resets with a full FIFO, no flow control, buffered output, the cable |

How they interact: a guest traps (hypercall, WFI, abort) or an interrupt arrives;
`hyp-vectors.S` builds a frame; the handler changes vCPU state, timers or devices, and may
call the scheduler, which saves the frame in the current vCPU, programs the MMU, HCR and
VI for the next one and puts its frame on the stack. There is one core and Hyp mode runs
with interrupts masked, so a handler is atomic with respect to guests; what interleaves
is guest code, the two physical timers, the clock, the MMU's table walks and the UART.

## 2. Modules

* `Vcpu`, `Virq`: the functions of `vcpu.c` and `virq.c` as operators on a vCPU record.
  The bitmaps are sets of line numbers.
* `Hypervisor` (extends both): scheduler, hypercalls, timers, interrupt handlers.
  Variables: `vcpus`, `cur_idx` (the scheduler's), `hcr` and `vttbr` (the core's), `tim`
  (BCM timer), `gen` (generic timer condition), `now` (system timer), `halted`. One action
  per handler; the scheduler functions are operators on the vCPU table the handler has
  made so far. Timer interrupts may be taken up to `MaxLatency` ticks late. Guests may
  make any hypercall at any time. An MMIO access that is emulated leaves this state alone;
  the others stop the guest. An interrupt whose source `handle_irq` does not know halts the
  hypervisor (`UnexpectedIrq`).
* `VcpuContext`: the registers. `regs` is the core, `frame` the `HypExceptState` on the
  Hyp stack, `ctx` the saved contexts; `own` is a history variable with what each vCPU
  must find. Registers that are always moved together are one field (`gpr` stands for
  r1-r12, lr and spsr_hyp). Any vCPU may be scheduled next.
* `VmRegions`, `Stage2Tables`: the functions of `vm.c` and `stage2.c` as operators.
  Addresses are page numbers, a table page is its index in the pool.
* `Stage2` (extends both): regions, tables, TLB, VTTBR and HCR.VM. One iteration of the
  mapping loop is a step, because the MMU may walk the tables in between.
* `AddressSpace`: the abstract specification that `Stage2` implements: per VM a grant and
  a partial map, changed one page at a time and only within the grant. The refinement
  mapping takes `xlate` to be what a walk of the tables finds and `grant` to be the RAM regions.
* `Mmio`: trapped accesses of all guests to their virtual UART. Words are four digits of
  base `ByteValues` (2^8 on the machine). `last` records what the last access did.
* `GuestLayout` (extends `Stage2`): the memory map that `hv_scheduler_init` gives the
  guests, and where the hypervisor is (`HypFrames`): its image, bss and tables below the slots,
  as the linker asserts, and the Hyp stack above them, under `HYP_STACK_TOP`. That the slots
  end below the stack, which grows by `HypStackPages` at most, is an assumption: no code and
  no linker assertion checks it (the two slots of the code end at 0x40000, the
  stack starts down from 0x4000000).
* `GuestPrograms` (extends `Hypervisor`): the guest programs of the repository on the
  hypervisor. A guest step is an instruction of its program: unmasking IRQs, a hypercall,
  a test, WFI, the entry and the claim loop of its interrupt handler. Times are counted
  from now on, so that `now` stays 0 and the clock does not wrap; everything else is
  `Hypervisor`'s own actions.
* `Bootloader`: host program, loader and the two byte channels between them. Numbers of the
  header are `uint32_t` (modulo `AddressSpan`), also their sum in the overlap check
  (`Collides`). Once the loader has started a program, the host may receive any text
  (`Incoming`) or nothing; the line may lose single bytes or all that is on its way to the Pi.
* `PrintkFormat`: what the number conversions of `printk_format.c` and the number printers
  of `uart.c` emit, as sequences of characters, with the width of a word as a parameter,
  counted in hexadecimal digits (`HexDigits`, 8 in the code). The 33 and 11 characters of
  the digit buffers are left out, because the digits always fit (`BuffersFit`, section 4).
* `Console` (extends `PrintkFormat`): what happens after the code was sent. The loader
  answers, flushes its FIFO and branches; the program prints and reboots, panics or fails an
  assertion; the host waits for the answer and echoes. A program is the text that it prints,
  by `printk` or raw (`UART_Send_String`, the putchar hypercall, the virtual UART), or one
  number with its conversion; the loader's answer, a word, is one byte. `printed` is what
  `pi_echo` gave to `printf`, `Screen` the part of it that stdio has written (`written`):
  at least up to the last newline and at most `StdoutSize` characters less than all, and all
  of it when rpi-install exits.
* `MCStage2`, `MCMmio`, `MCBootloader`, `MCConsole`: the request sets and constants for TLC.
* `Hypervisor_proofs`, `GuestPrograms_proofs`, `VcpuContext_proofs`, `Stage2_proofs`,
  `GuestLayout_proofs`, `Mmio_proofs`, `Bootloader_proofs`, `Console_proofs`: theorems about
  the module each is named after.

A definition `Mutant_X` next to `X` is a plausible bug in `X`; with it in place of `X` the
property that `PROJECT.json` names must fail, which shows that the property has teeth.

## 3. Runs

| Run | Checks | Bounds and why they are enough |
|---|---|---|
| `hypervisor` | the invariants of section 4, `ExitIsFinal`, `NoInterruptStorm`, `RoundRobin`, `RunnableRuns`, `SleeperWakes` | two guests (the code's `HV_MAX_VMS`), one interrupt line, a clock of 6 ticks that wraps, delays of 0 and 3 with the delta clamped at 2 so that a deadline needs two interrupts, interrupts up to a tick late so that a period of 1 is missed. 106 259 states |
| `guests` | `InterruptsCounted`, `DelayLasts`, `GuestsFinish` | six harnesses, two guests, targets of 2 ticks and loops of 2 rounds (the second pass starts from what the first left behind), a delay of 2 periods, so that a tick falls into it. 62 325 states. A behaviour may end: the machine sleeps in the idle vCPU when all programs are over and no timer is armed |
| `vcpu_context` | `ContextPreserved` | two vCPUs, two values per register, two program counters; every register class written by guests between traps |
| `stage2_tables` | `TableTree`, `RegionsDisjoint`, `CallResultsHold`, `ImplementsAddressSpace` | tables of two descriptors (eight pages), a pool of five where the regions need more, so mapping fails at each level; requests of every refused kind |
| `stage2_isolation` | `TlbCoherent`, `GuestConfined`, `FramesNotShared` | two VMs in slots of three pages above a hypervisor of nine, six of them stage-2 tables, and below its stack; requests for the other VM's frames, for the tables and for the stack; a TLB of one entry, which is enough to be stale across an unmapping or a switch; two of the three regions of a VM, so that one is refused as too many. 171 925 states |
| `mmio` | `LoadsExtend`, `RegistersPrivate`, `InputDelivered`, `RefusalIsFinal` | two guests, values at the sign bits, every decode failure, each class of register, FIFOs of one byte. A refused access leaves devices and FIFOs alone, but for a load into r13 or r15, which has read the device already. A behaviour may end: all guests can be stopped |
| `bootloader` | `SuccessMeansInstalled`, `GuardedIntact`, `HangsOnlyIfFed`, `InstallCompletes` | a program of three bytes two of which are opcode bytes, a loader that collides with it or not, up to two losses, of a byte or of a whole burst (a lost header included), junk at two moments, two runs of the host, text of two different bytes from the installed program. 234,621 states. A behaviour may end when the host gives up or succeeds |
| `console` | `ScreenFaithful`, `ExitMeansDone`, `NumbersReadBack`, `DoneEndsConsole`, `CableEndsConsole` | programs that print nothing, parts of the marker, the marker itself, a byte 0, or a number at a boundary of eight bits; two that print raw, one that panics, one that fails an assertion after the marker's text; FIFO, receive buffer, reads and stdio's buffer of two bytes, so that reads cut the marker (four characters, with the repetition of the real one) everywhere and one byte can be lost; one key; one device or two. 856,448 states. A behaviour ends with rpi-install |

One passing run of each of `Hypervisor`, `Stage2`, `Mmio` and `Bootloader` also checks the
type invariant of its module where it says something about bounds (bitmaps, table
capacities, word widths).

Four runs expect a violation. They show where the code departs from what the repository
says of it:

* `hypervisor_lost_wakeup`: `hv_virq_raise` "raise a virtual IRQ to a vCPU and unblock
  it", but a busy line drops the wake-up and the one-shot timer is disabled all the same,
  so a guest that delays while its timer interrupt is pending or active sleeps for ever.
* `hypervisor_tick_wrap`: the physical timer wakes Hyp "exactly when the next virtual
  timer is due", but a deadline beyond 2^32 is never reached by the 32-bit clock.
* `vcpu_sys_regs`: SCTLR and DACR are listed in the context that is "everything needed to
  resume execution" and are never switched.
* `mmio_link_register`: an MMIO access through r14 uses the user-mode link register of the
  frame, not the SVC-mode one of the guest.

Met while modelling, without a run: `include/hv/vcpu.h` says of `HV_VCPU_EXITED` "exited, but
can potentially run again"; nothing in the code takes a vCPU out of that state, and
`ExitIsFinal` (checked and proved) says that no step writes such a vCPU at all. It is the
hazard that matters today: an exited guest whose timer is still served. Code that restarts
guests will have to weaken it. `bootloader/src/main.c` says "check that sent code doesn't
collide with bootloader code", but the range it checks starts at `PUT32`, and `.text.boot` and
`main` are linked below it: a program that ends there is stored over the loader. `GuardedIntact`
says what the check does guarantee; it needs that the 32-bit sum of address and length does not
wrap. The host's own headers do not wrap, and after one that was read out of step the host
refuses the echoed checksum and sends no code. `bootloader/src/pi-echo.c` says that the console
runs until "we see a string indicating a clean shutdown", but `assert` sends its newline raw:
after `DONE!!!` without a newline it completes the marker, and rpi-install says "pi exited"
while the program panics. `ExitMeansDone` is therefore about programs that print by `printk`
and fail no assertion; programs that do otherwise are in the run, and without that condition
TLC finds the false exit in it. `put_code` has two loops without a bound of their own: the
one that waits for an announcement is fed for ever by a program that already runs and prints
(`src/kernel/main.c` prints each second), the one that drops further announcements by a loader
that the header never reached, or that was reset; `HangsOnlyIfFed` shows that there is no
third way to hang. `include/hv/hypercall.h` lists `HYPERCALL_ADVANCE` among
the "hypercall numbers implemented by the hypervisor", and it has no case: it halts the
machine like an unknown call. `UART_Disable`, which has no caller, clears all AUX enables
(`enables &= !0b1`) where its comment says bit 0. `docs/presentation-diagrams.md` says that a switch needs no
TLB flush, the code flushes, and `hv_stage2_unmap_page` on an inactive VM relies on it
(the mutant of `TlbCoherent` shows that). A junk byte that reaches the loader before the
host has seen an announcement ends the announcements, and the host times out, although
`docs/dev-log.MD` describes the junk byte as handled; `InstallCompletes` therefore
excludes that moment.

### Fairness

`Hypervisor!FairSpec` assumes that the clock runs, that the generic timer expires again
after each interrupt (`GEN_TIM_rearm`), and that both interrupts are taken: HCR.IMO routes
them to Hyp whatever a guest masks. The BCM interrupt gets strong fairness because the
generic timer, which `handle_irq` looks at first, can delay it but its period is much
longer than a handler. Nothing is assumed of guests. `Bootloader!FairSpec` assumes that both
processors run and that the host program is started; a time-out of the host happens only
when the loader is not about to send, since the loader's steps are far shorter than two
seconds; an installed program may print or be silent for ever. Losses and interruptions are
never forced.

`GuestPrograms!GuestSpec` adds that a guest that gets the core again and again executes
its program and, when one is pending, its interrupt handler: a slice and a period are
far longer than the handler (the same fact bounds how often a handler is disturbed). It
does not assume that slices end: the programs give the core up themselves.
`Console!Spec` assumes that both processors run, that the UART sends what is in its FIFO and
that the host's kernel removes the node of a device that is gone; nobody has to type or to
pull the cable.

## 4. Proofs

TLAPS proves every safety property of the runs that expect to pass, for every value of
the constants that the modules' assumptions allow. Each inductive invariant was checked by
TLC on a run before it was proved.

* `Hypervisor_proofs`: `Spec => []IInv`, and from it `TypeOK`, `OneRunning`,
  `WorkConserving`, `VirqLineInSync`, `MachineFollowsVcpu`, `PhysicalTimerCovers` and
  `LineNotNested`. `IInv` is their conjunction: they need each other. `WorkConserving`
  after a timer interrupt needs that only the current vCPU runs; `VirqLineInSync` needs it
  to know which bitmap a handler changed; `PhysicalTimerCovers` is kept because every
  handler that touches a timer or a state ends in a rearm, and the others change neither
  the deadlines nor the set of armed timers. The proof has lemmas for the scheduler
  functions on an arbitrary vCPU table (`Deschedule`, `hv_scheduler_switch_to`,
  `hv_scheduler_advance`), for rearming, and for the delivery loop; then one step per
  action of `Next`. From `IInv` also the action properties: `ExitIsFinal` (every handler
  writes the current vCPU, which runs, or one that is runnable or blocked), `RoundRobin`
  (the scan stops at the nearest runnable slot, and the distance on the ring of slots
  from the new current vCPU to any waiting one is what is left of the old distance) and
  `NoInterruptStorm` (the loop of `hv_vcpu_timer_advance` leaves every deadline after now).
* `GuestPrograms_proofs`: `InterruptsCounted` and `DelayLasts`. The invariant `GInv` adds to
  them that the handler is never entered from itself and never returns into itself (it
  runs with IRQs masked), that the timer's is the only line ever pending, and that a
  guest with a delay left is blocked with its timer on and set no earlier. Most steps are
  calm: they change no pending bitmap and no sleeper, because the vCPU they write was
  running. The clock of this module counts from now, so deadlines may be negative and the
  vCPU table has a type of its own; nothing is needed of the physical timer.
* `VcpuContext_proofs`: `ContextPreserved`. The inductive invariant `CInv` says
  where the registers of each vCPU are at any moment: those of a vCPU that is not current
  in its saved context, those of the current one in the core, or in the frame while Hyp
  handles its trap; banked registers and VBAR stay in the core meanwhile.
* `Stage2_proofs`: `TypeOK`, `TableTree`, `RegionsDisjoint`, `CallResultsHold`,
  `TlbCoherent`, `GuestConfined`, and the refinement `ImplementsAddressSpace`. `S2Inv` says
  of every VM that its tables are well formed (a used entry of an upper-level table leads to
  a page that was handed out, no page is led to by two entries, none that was handed out is
  lost, free ones are clean, no entry is a block), that its regions are disjoint and in range, and that
  the tables translate RAM of the regions to its own frames only; of the TLB that its
  entries are translations of their VM; and of the mapping call in progress that the pages
  before its loop index are mapped as requested. Well-formedness is what makes a store to
  one descriptor change the translation of one page (or, for a new table, of none): that
  is the lemma from which both confinement and the refinement follow. The lemmas about one
  set of tables come first, those about all VMs and the TLB after them. The refinement
  theorem has one lemma per action: one loop iteration is a page mapped or a stutter, an
  unmapping is a page unmapped or a stutter, region calls change the grant or stutter.
* `GuestLayout_proofs`: `FramesNotShared`. `S2Inv` bounds what a VM reaches by its RAM
  regions; here the regions are those of `hv_scheduler_init` (`BootRegionsOnly`), so a VM
  reaches its slot, and slots are apart, above the hypervisor's image and below its stack.
* `Mmio_proofs`: `TypeOK`, `LoadsExtend` (from lemmas on division: an access of one, two or
  four bytes divides the word evenly), `RegistersPrivate`, `InputDelivered`,
  `RefusalIsFinal`.
* `Bootloader_proofs`: `TypeOK`, `GuardedIntact` and `SuccessMeansInstalled`, for any number of
  losses and restarts and any text from an installed program. `GuardedIntact` needs that a stored byte is covered by the range
  check made on the header (`PiPhase`). For `SuccessMeansInstalled` the argument counts bytes. Loss
  makes a line shorter and never longer, so a line with as many bytes as were sent is what
  was sent (`Exact`); a stale session from an earlier run leaves the Pi with less to say
  than the host still has to read (`Starved`), because each announcement, request and
  answer is said once; and a junk byte before the host's opcode, or in place of a lost one, is told from the
  opcode by the loader's scan, byte by byte (`Opening`). `Session` says for each step
  of the host which of these cases the two sides are in; only `Installed` is left when
  BOOT_SUCCESS arrives. Text cannot be taken for that word, because its bytes are below 128.
* `Console_proofs`: `ScreenFaithful`, `ExitMeansDone` and `NumbersReadBack`. The invariant
  `ConsoleInv` follows every byte. `Asleep`: the Pi sends nothing before the port is open, so
  nothing is lost that way. `Screened`: what was delivered is the loader's answer, then what
  was printed, then what waits in the receive buffer. `HeldBack`, which is inductive next to
  it: what stdio has not written is part of the last line, no longer than its buffer, and
  nothing when rpi-install has ended. `ScreenFaithful` is these two in other words. `Streamed`: as long as the host listens and nothing is lost, what was delivered, the
  FIFO and what is still to be sent are, in this order, all that the Pi ever sends.
  `Matched`: what `pi_done` has counted stands at the end of what was printed; it is needed when a
  read cuts the marker. `AllShown`: after the marker the whole output of a program that prints
  by `printk` was sent and printed.
  The step that matters is the read in which `pi_done` completes the marker. The last two
  characters it matched are adjacent in what was printed, so they are adjacent in the stream,
  and `OutputMarker` says that only the end of `clean_reboot` has them: in what `printk` sends
  a newline follows a carriage return (shown as a blank), in a panic it follows a digit, and
  the marker has neither before its newline. This needs nothing of the rest of the marker
  and nothing of the texts programs print by `printk`. `NumbersReadBack` follows from `AllShown` and from
  what the conversions print: `output_num` pads with zeros and emits the digits of the
  quotient and then the last one, so by induction on the number they read as it; the nibbles
  of `UART_Send_Hex` read, up to each digit, as the word shifted; the magnitude of a negative
  int is right even for the smallest one (`IntAsWord`); and neither `printk_uart_putc` nor
  `remove_nonprint` changes a character of a number. `BuffersFit`, which no run states: for
  words of 32 bits the digits fit the buffers of `output_num` and `UART_Send_Int`, where the
  latter's loop would stop and drop leading digits.

The loops over texts and digits in `Console` are inductions over data. The library's
induction rules take a predicate as an operator parameter, which the provers here cannot
instantiate; `Console_proofs` derives from the library's well-foundedness of the naturals an
induction rule about sets (`NatSets`), and a lemma that a recursion over `0 .. n` has a
solution (`RecursionExists`), and uses those.

Assumptions. The constants have their types (requests to the stage-2 code are records of
page numbers, trapped accesses are decoded faults). Beyond that: the address range has at
most as many pages as three levels of tables can name; a byte has an even number of values,
at least 128 (it has 256); the length of a program fits the four bytes of the header, and
its load address, a constant of `boot-defs.h`, is not 0, where the loader would answer
BOOT_SUCCESS and reboot; installed programs print text, of bytes below 128; the guests get
the regions of `hv_scheduler_init`, above the hypervisor's image, as the linker script
asserts, and below its stack; the characters before the newline that ends the
marker are neither blanks, digits (`a` to `f` in lower case) nor unprintable, as in
`DONE!!!`; a program prints any text, or one number at the start of a line with an argument
of the type its conversion reads. TLC evaluates these assumptions on the runs.
`BuffersFit` takes `HexDigits = 8`, the width of a `uint32_t`.

Only model-checked: the liveness properties (`RunnableRuns`, `SleeperWakes`, `GuestsFinish`,
`HangsOnlyIfFed`, `InstallCompletes`, `DoneEndsConsole`, `CableEndsConsole`), because the prover
does not handle fairness.

## 5. Not modelled

Boot code and interrupt-controller set-up run once before anything interleaves. GPIO and
the UART's set-up are register writes. `boot-crc.h` is a loop over a file on the host, whose result the
protocol only compares. Of `printk` the scan of the format string is left out: formats are
literals. `test-guest-virq-image.c` enters its guest without a vCPU of its own
(`hyp_enter_lower_mode`), so that the scheduler's vCPU 0 is RUNNABLE while it runs; it
tests the entry, not the scheduler. Attribute bits of leaf descriptors, memory barriers
and cache maintenance are taken to do what the architecture says. Corrupted (as opposed to
lost or added) bytes on the serial line are not modelled: the loader does not compute the
checksum, so nothing could be shown. The host's receive buffer, its device manager and
the hang-up of a port are modelled as Linux does it; the C library's stdio by what the C
standard says of a line-buffered stream, and the output of rpi-install is a terminal (into a
pipe, complete lines would be held back too).

## 6. Plan

Done: every module of section 2 with its runs, and the proofs of section 4. Next:

1. ABT, UND and FIQ banked registers in `VcpuContext`.
2. A composition of `Hypervisor` and `Mmio`, so that an abort's outcome is decided by the
   device state and not by choice.
