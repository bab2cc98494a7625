-------------------------------- MODULE Mmio --------------------------------
(***************************************************************************)
(* Device emulation: a guest access to an unmapped page traps and is       *)
(* routed by handle_guest_abort (src/arch/hyp-exceptions.c), decoded by    *)
(* src/hv/mmio.c, dispatched by src/hv/virtual-device.c and carried out by *)
(* the virtual UART of src/hv/vuart.c, which keeps one set of registers    *)
(* per VM but forwards the data register of every VM to the one physical   *)
(* mini-UART.                                                              *)
(*                                                                         *)
(* Handlers run with interrupts masked, so an access is one step; any      *)
(* guest that has not been stopped may be the running one at the next.     *)
(* Words are made of four bytes of ByteValues values each (2^8 on the      *)
(* machine), so that the register values fit the checker's integers.       *)
(***************************************************************************)
EXTENDS Integers, Sequences

CONSTANTS Guests,      \* the VMs, one vCPU each
          ByteValues,  \* number of values of a byte
          Values,      \* the register contents that guests work with
          Bytes,       \* the bytes that arrive on the serial line
          RxFifo,      \* capacity of the receive FIFO
          TxFifo,      \* capacity of the transmit FIFO
          Faults       \* the trapped accesses that guests make

VARIABLES vuarts,      \* vuarts[g]: the HvVirtualUart registers of g's VM
          rx,          \* receive FIFO of the physical UART
          tx,          \* transmit FIFO of the physical UART
          stopped,     \* the guests whose vCPU is EXITED
          last         \* what the last trapped access did

vars == <<vuarts, rx, tx, stopped, last>>

-----------------------------------------------------------------------------
HV_GUEST_AUX_ENABLES    == 4
HV_GUEST_AUX_MU_IO_REG  == 64
HV_GUEST_AUX_MU_LSR_REG == 84
HV_GUEST_AUX_MU_MSR_REG == 88
HV_GUEST_AUX_MU_STAT_REG == 100

\* IER, IIR, LCR, MCR, SCRATCH, CNTL and BAUD store and return what is written.
PlainRegs == {68, 72, 76, 80, 92, 96, 104}

HvVirtualUart == PlainRegs \cup
    {HV_GUEST_AUX_ENABLES, HV_GUEST_AUX_MU_MSR_REG, HV_GUEST_AUX_MU_STAT_REG}

\* The number of values of n bytes, for the sizes that occur.
Pow(n) == CASE n = 1 -> ByteValues
            [] n = 2 -> ByteValues * ByteValues
            [] OTHER -> ByteValues * ByteValues * ByteValues * ByteValues

Word == 0 .. Pow(4) - 1

(***************************************************************************)
(* A trapped access: the kind of region its IPA lies in, the page offset   *)
(* and the syndrome bits that the code looks at.                           *)
(***************************************************************************)
FaultInfo == [region : {"none", "RAM", "RAM_GUARD", "MMIO"},
              is_instruction : BOOLEAN, fnv : BOOLEAN, isv : BOOLEAN,
              s1ptw : BOOLEAN, is_write : BOOLEAN, sas : 0 .. 3,
              srt : 0 .. 15, sse : BOOLEAN, offset : Nat]

\* Bytes are made of bits, seven at least: the line status is one byte.
ASSUME MmioAssumption ==
    /\ ByteValues \in Nat /\ ByteValues >= 128 /\ ByteValues % 2 = 0
    /\ Values \subseteq Word /\ Bytes \subseteq 0 .. ByteValues - 1
    /\ RxFifo \in Nat /\ TxFifo \in Nat
    /\ Faults \subseteq FaultInfo

-----------------------------------------------------------------------------
mmio_access_size(sas) == CASE sas = 0 -> 1 [] sas = 1 -> 2 [] sas = 2 -> 4 [] OTHER -> 0

mmio_decode_ok(f) ==
    /\ ~ f.is_instruction
    /\ ~ f.fnv
    /\ f.isv
    /\ ~ f.s1ptw
    /\ mmio_access_size(f.sas) # 0

\* The registers that the exception frame has a slot for.
FrameReg(rt) == rt < 13 \/ rt = 14

\* The halfword case tests the sign bit of the byte.
Mutant_mmio_mask_value(value, size, sign_extend) ==
    LET v == value % Pow(size)
    IN  IF size < 4 /\ sign_extend /\ v % Pow(1) >= Pow(1) \div 2
        THEN v + (Pow(4) - Pow(size)) ELSE v

\* Truncation to size bytes; the sign bit is copied into the bytes above.
mmio_mask_value(value, size, sign_extend) ==
    LET v == value % Pow(size)
    IN  IF size < 4 /\ sign_extend /\ v >= Pow(size) \div 2
        THEN v + (Pow(4) - Pow(size)) ELSE v

(***************************************************************************)
(* The slot of register rt in the frame of a guest whose register reads    *)
(* "seen".  Guests run in SVC mode, where r14 is LR_svc; the frame holds   *)
(* the LR that Hyp mode shares with user mode, here "usr".                 *)
(***************************************************************************)
FrameSlot(rt, seen, usr) == IF rt = 14 THEN usr ELSE seen

\* What the guest sees in rt once value was stored in the frame's slot.
SeenAfter(rt, seen, value) == IF rt = 14 THEN seen ELSE value

-----------------------------------------------------------------------------
\* VUART_STAT_TX_CAN_ACCEPT is bit 1; the line status has bits 5 and 6 set.
WithBit1(v) == IF (v \div 2) % 2 = 0 THEN v + 2 ELSE v

LineStatus == 96 + (IF rx # <<>> THEN 1 ELSE 0)

Readable(offset) == offset \in HvVirtualUart \cup {HV_GUEST_AUX_MU_IO_REG,
                                                   HV_GUEST_AUX_MU_LSR_REG}

\* UART_Get8_Async returns -1 without data, which hv_vuart_read turns into 0.
hv_vuart_read(g, offset) ==
    CASE offset = HV_GUEST_AUX_MU_IO_REG   -> IF rx = <<>> THEN 0 ELSE Head(rx)
      [] offset = HV_GUEST_AUX_MU_LSR_REG  -> LineStatus
      [] offset = HV_GUEST_AUX_MU_STAT_REG -> WithBit1(vuarts[g][offset])
      [] OTHER                             -> vuarts[g][offset]

Writable(offset) == offset \in (HvVirtualUart \ {HV_GUEST_AUX_MU_MSR_REG})
                                 \cup {HV_GUEST_AUX_MU_IO_REG}

\* The registers of every VM in one structure.
Mutant_StoredRegs(g, offset, value) ==
    [h \in Guests |-> [vuarts[h] EXCEPT ![offset] =
        IF offset = HV_GUEST_AUX_ENABLES THEN value % 2 ELSE value]]

\* The enable bit stored without its mask.
Mutant_UnmaskedRegs(g, offset, value) == [vuarts EXCEPT ![g][offset] = value]

\* hv_vuart_write of a register that is kept.
StoredRegs(g, offset, value) ==
    [vuarts EXCEPT ![g][offset] =
        IF offset = HV_GUEST_AUX_ENABLES THEN value % 2 ELSE value]

\* The checks of hv_virtual_device_access and of the two vUART functions.
DeviceAccepts(f) ==
    /\ f.offset % mmio_access_size(f.sas) = 0
    /\ IF f.is_write THEN Writable(f.offset) ELSE Readable(f.offset)

-----------------------------------------------------------------------------
Record(g, f, ok, dev, seen) ==
    [guest |-> g, ok |-> ok, is_write |-> f.is_write, offset |-> f.offset,
     size |-> mmio_access_size(f.sas), sse |-> f.sse, srt |-> f.srt,
     dev |-> dev, seen |-> seen]

\* stop_current_guest_vcpu; module Hypervisor has its effect on the scheduler.
stop_current_guest_vcpu(g, f) ==
    /\ stopped' = stopped \cup {g}
    /\ last' = Record(g, f, FALSE, 0, 0)

\* A byte is sent before the access is known to be valid.
Mutant_AbortStops(g, f) ==
    /\ \/ f.region # "MMIO"
       \/ ~ mmio_decode_ok(f)
       \/ f.is_write /\ ~ FrameReg(f.srt)
       \/ mmio_decode_ok(f) /\ ~ DeviceAccepts(f)
    /\ stop_current_guest_vcpu(g, f)
    /\ tx' = IF f.is_write /\ Len(tx) < TxFifo THEN Append(tx, 0) ELSE tx
    /\ UNCHANGED <<vuarts, rx>>

\* Not an MMIO region, or refused before a device function has an effect.
AbortStops(g, f) ==
    /\ \/ f.region # "MMIO"
       \/ ~ mmio_decode_ok(f)
       \/ f.is_write /\ ~ FrameReg(f.srt)
       \/ mmio_decode_ok(f) /\ ~ DeviceAccepts(f)
    /\ stop_current_guest_vcpu(g, f)
    /\ UNCHANGED <<vuarts, rx, tx>>

\* A store; UART_Put8 waits in Hyp mode until the transmit FIFO has room.
MmioStore(g, f, seen, usr) ==
    LET value == mmio_mask_value(FrameSlot(f.srt, seen, usr),
                                 mmio_access_size(f.sas), FALSE)
        isIO  == f.offset = HV_GUEST_AUX_MU_IO_REG
    IN  /\ f.region = "MMIO" /\ mmio_decode_ok(f) /\ f.is_write
        /\ FrameReg(f.srt)
        /\ DeviceAccepts(f)
        /\ isIO => Len(tx) < TxFifo
        /\ tx' = IF isIO THEN Append(tx, value % ByteValues) ELSE tx
        /\ vuarts' = IF isIO THEN vuarts ELSE StoredRegs(g, f.offset, value)
        /\ last' = Record(g, f, TRUE, value, seen)
        /\ UNCHANGED <<rx, stopped>>

\* The line status is found out by reading the data register.
Mutant_DeviceReads(f) ==
    rx' = IF f.offset \in {HV_GUEST_AUX_MU_IO_REG, HV_GUEST_AUX_MU_LSR_REG} /\ rx # <<>>
          THEN Tail(rx) ELSE rx

\* The data register gives up its byte when it is read, whoever reads it.
DeviceReads(f) ==
    rx' = IF f.offset = HV_GUEST_AUX_MU_IO_REG /\ rx # <<>> THEN Tail(rx) ELSE rx

(***************************************************************************)
(* A load: the device is read first and only then is the target register   *)
(* looked at, so a load to a register without a slot has had its effect on *)
(* the device when the guest is stopped for it.                            *)
(***************************************************************************)
MmioLoad(g, f, seen) ==
    LET value == hv_vuart_read(g, f.offset)
        result == mmio_mask_value(value, mmio_access_size(f.sas), f.sse)
    IN  /\ f.region = "MMIO" /\ mmio_decode_ok(f) /\ ~ f.is_write
        /\ DeviceAccepts(f)
        /\ DeviceReads(f)
        /\ IF FrameReg(f.srt)
           THEN /\ last' = Record(g, f, TRUE, value, SeenAfter(f.srt, seen, result))
                /\ UNCHANGED stopped
           ELSE stop_current_guest_vcpu(g, f)
        /\ UNCHANGED <<vuarts, tx>>

handle_guest_abort(g, f) ==
    /\ g \notin stopped
    /\ \/ AbortStops(g, f)
       \/ \E seen, usr \in Values : MmioStore(g, f, seen, usr)
       \/ \E seen \in Values : MmioLoad(g, f, seen)

\* The serial line delivers a byte, or takes one.
Arrive(b) == /\ Len(rx) < RxFifo
             /\ rx' = Append(rx, b)
             /\ UNCHANGED <<vuarts, tx, stopped, last>>

Drain == /\ tx # <<>>
         /\ tx' = Tail(tx)
         /\ UNCHANGED <<vuarts, rx, stopped, last>>

NoAccess == [guest |-> CHOOSE g \in Guests : TRUE, ok |-> FALSE, is_write |-> FALSE,
             offset |-> 0, size |-> 0, sse |-> FALSE, srt |-> 0, dev |-> 0,
             seen |-> 0]

\* vuarts is static storage, so all registers start as zero.
Init == /\ vuarts = [g \in Guests |-> [r \in HvVirtualUart |-> 0]]
        /\ rx = <<>> /\ tx = <<>>
        /\ stopped = {}
        /\ last = NoAccess

Next == \/ \E g \in Guests, f \in Faults : handle_guest_abort(g, f)
        \/ \E b \in Bytes : Arrive(b)
        \/ Drain

Spec == Init /\ [][Next]_vars

-----------------------------------------------------------------------------
TypeOK ==
    /\ vuarts \in [Guests -> [HvVirtualUart -> Word]]
    /\ \A g \in Guests : vuarts[g][HV_GUEST_AUX_ENABLES] \in 0 .. 1
    /\ rx \in Seq(Bytes) /\ Len(rx) <= RxFifo
    /\ tx \in Seq(0 .. ByteValues - 1) /\ Len(tx) <= TxFifo
    /\ stopped \subseteq Guests
    /\ last.dev \in Word /\ last.seen \in Word

(***************************************************************************)
(* A load gives the guest the value of the device register as the          *)
(* architecture defines the load: read as a signed or unsigned number it   *)
(* is the one congruent to the register modulo the access size.  (A target *)
(* of r14 is the subject of LinkRegisterAccess.)                           *)
(***************************************************************************)
Signed(v) == IF v >= Pow(4) \div 2 THEN v - Pow(4) ELSE v

LoadsExtend ==
    LET m == Pow(last.size)
    IN  last.ok /\ ~ last.is_write /\ last.srt # 14 =>
          /\ (last.seen - last.dev) % m = 0
          /\ IF last.sse /\ last.size < 4
             THEN 0 - m <= 2 * Signed(last.seen) /\ 2 * Signed(last.seen) < m
             ELSE last.seen < m

(***************************************************************************)
(* Device state is private: an access by one guest, completed or refused,  *)
(* leaves the virtual registers of every other guest as they were.         *)
(***************************************************************************)
RegistersPrivate == [][\A g \in Guests : last' # last /\ last'.guest # g =>
                                            vuarts'[g] = vuarts[g]]_vars

(***************************************************************************)
(* Input is not lost: a byte leaves the receive FIFO only when a guest     *)
(* reads the data register, and then it is the low byte of the guest's     *)
(* target register, unless the guest is stopped for the access.            *)
(***************************************************************************)
InputDelivered ==
    [][Len(rx') < Len(rx) =>
         \/ last'.ok /\ (last'.srt # 14 => last'.seen % ByteValues = Head(rx))
         \/ last'.guest \in stopped' \ stopped]_vars

(***************************************************************************)
(* A refused access is the guest's last one and has no output: the guest   *)
(* stops, nothing is sent and no register of any VM changes.  Input is     *)
(* kept too, but for one case: a load of the data register into r13 or     *)
(* r15, which the frame has no slot for, is refused after the device was   *)
(* read (hv_mmio_handle_fault), and the byte it took is gone.              *)
(***************************************************************************)
RefusalIsFinal ==
    [][/\ stopped' # stopped =>
             /\ vuarts' = vuarts /\ tx' = tx /\ ~ last'.ok
             /\ rx' # rx => /\ rx' = Tail(rx)
                            /\ ~ last'.is_write /\ last'.offset = HV_GUEST_AUX_MU_IO_REG
                            /\ ~ FrameReg(last'.srt)
       /\ last' # last => last'.guest \notin stopped]_vars

-----------------------------------------------------------------------------
(***************************************************************************)
(* src/hv/mmio.c, "reads saved guest register from exception frame" and    *)
(* "write to guest register": the value a store hands to the device is the *)
(* one in the guest's register.                                            *)
(***************************************************************************)
LinkRegisterAccess ==
    last.ok /\ last.is_write => last.dev = last.seen % Pow(last.size)
=============================================================================
