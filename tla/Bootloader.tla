----------------------------- MODULE Bootloader -----------------------------
(***************************************************************************)
(* Installing a program over the serial line: the host side put_code       *)
(* (bootloader/src/put-code.c, boot-unix-io.c) and the loader on the Pi    *)
(* (bootloader/src/main.c, bootloader/include/boot-mmio.h).  The channels  *)
(* carry bytes, little-endian words of four, so that both sides can fall   *)
(* out of step with the word boundaries.                                   *)
(*                                                                         *)
(* The line may lose a byte, or all that is on the way to the Pi, and a    *)
(* junk byte may reach the Pi before the host's first one                  *)
(* (docs/dev-log.MD, 5/22/26): when the port is opened or just before the  *)
(* host sends.  The host program may be interrupted and run again, also    *)
(* when the installed program runs and prints; the Pi is only reset by     *)
(* hand, which starts a new behaviour.                                     *)
(***************************************************************************)
EXTENDS Integers, Sequences, SequencesExt

CONSTANTS Code,             \* the bytes of the program to install
          crc32,            \* its checksum, as the four bytes of a word
          ARMBASE,          \* where the program is put, as a word
          AddressSpan,      \* how many addresses there are: 2^32
          LoaderStarts,     \* where PUT32, the start of the checked range, may be
          LoaderSize,       \* the loader's size from there to __prog_end__
          Printed,          \* bytes that an installed program may print
          Junk,             \* a byte that the host did not send
          Glitches,         \* when it reaches the Pi: "none", "open", "send"
          MaxLosses,        \* bound: how often the line loses bytes
          MaxRuns,          \* bound: runs of the host program
          MaxUnread         \* bound: announcements waiting to be read

VARIABLES host,    \* the host program: its step, the bytes of a word so far
          pi,      \* the loader: its step, window, header words, memory
          h2p,     \* bytes on the way to the Pi
          p2h,     \* bytes on the way to the host
          losses, runs

vars == <<host, pi, h2p, p2h, losses, runs>>

-----------------------------------------------------------------------------
GET_PROG_INFO == <<34, 34, 17, 17>>
PUT_PROG_INFO == <<68, 68, 51, 51>>
GET_CODE      == <<102, 102, 85, 85>>
PUT_CODE      == <<136, 136, 119, 119>>
BOOT_SUCCESS  == <<170, 170, 153, 153>>
BAD_CODE_ADDR == <<2, 0, 173, 222>>
PRINT_STRING  == <<238, 238, 221, 221>>

W == 4

Number(w) == w[1] + 256 * w[2] + 65536 * w[3] + 16777216 * w[4]

Word(n) == <<n % 256, (n \div 256) % 256, (n \div 65536) % 256, n \div 16777216>>

\* The program is not put at address 0, and its length fits a word.  Programs
\* print text, whose bytes are below 128.
ASSUME BootAssumption ==
    /\ Code \in Seq(0 .. 255) /\ Len(Code) \div 16777216 < 256
    /\ crc32 \in Seq(0 .. 255) /\ Len(crc32) = W
    /\ ARMBASE \in Seq(0 .. 255) /\ Len(ARMBASE) = W /\ Number(ARMBASE) % AddressSpan # 0
    /\ AddressSpan \in Nat \ {0} /\ Len(Code) < AddressSpan
    /\ Printed \subseteq 0 .. 127
    /\ Junk \in 0 .. 255 /\ Glitches \subseteq {"none", "open", "send"}
    /\ LoaderStarts \subseteq Nat /\ LoaderSize \in Nat
    /\ MaxLosses \in Nat /\ MaxRuns \in Nat /\ MaxUnread \in Nat

-----------------------------------------------------------------------------
\* The Pi has announced itself once; nobody listens yet.
Init ==
    /\ host = [pc |-> "off", buf |-> <<>>, sent |-> 0, glitch |-> "none"]
    /\ \E start \in LoaderStarts :
          pi = [pc |-> "announce", window |-> <<>>, words |-> <<>>, mem |-> <<>>,
                start |-> start]
    /\ h2p = <<>> /\ p2h = <<>>
    /\ losses = 0 /\ runs = 0

Listening == host.pc \notin {"off", "failed", "killed"}

\* Bytes for a host that has not opened the port are gone.
PiSends(bytes) == p2h' = IF Listening THEN p2h \o bytes ELSE p2h

\* Every 300 ms while UART_Has_Data says there is nothing to read.
PiAnnounce ==
    /\ pi.pc = "announce" /\ h2p = <<>>
    /\ Len(p2h) < W * MaxUnread
    /\ PiSends(GET_PROG_INFO)
    /\ UNCHANGED <<host, pi, h2p, losses, runs>>

PiSeesData ==
    /\ pi.pc = "announce" /\ h2p # <<>>
    /\ pi' = [pi EXCEPT !.pc = "wait_info"]
    /\ UNCHANGED <<host, h2p, p2h, losses, runs>>

PiReads == h2p # <<>> /\ h2p' = Tail(h2p)

\* Nothing is shifted out.
Mutant_Window(bytes, b) == Append(bytes, b)

\* Whole words instead of a sliding window: the loader before the junk-byte fix.
Mutant_Words(bytes, b) == IF Len(bytes) = W THEN <<b>> ELSE Append(bytes, b)

\* The last W bytes that boot_wait_for_opcode has shifted in.
Window(bytes, b) == IF Len(bytes) = W THEN Append(Tail(bytes), b) ELSE Append(bytes, b)

\* boot_wait_for_opcode: reading goes on until the window is the opcode.
PiScans(at, expected, then) ==
    LET w == Window(pi.window, Head(h2p))
    IN  /\ pi.pc = at
        /\ PiReads
        /\ pi' = IF w = expected THEN [pi EXCEPT !.pc = then, !.window = <<>>]
                 ELSE [pi EXCEPT !.window = w]
        /\ UNCHANGED <<host, p2h, losses, runs>>

PiWaitsForInfo == PiScans("wait_info", PUT_PROG_INFO, "info")

PiWaitsForCode == PiScans("wait_code", PUT_CODE, "code")

\* A uint32_t.
AsUint32(w) == Number(w) % AddressSpan

\* Only the first address is compared with the loader.
Mutant_Collides(base_addr, nbytes) ==
    base_addr >= pi.start /\ base_addr < pi.start + LoaderSize

\* The sum is one of uint32_t: it wraps.  The range is that from PUT32 on.
Collides(base_addr, nbytes) ==
    ~ (\/ (base_addr + nbytes) % AddressSpan <= pi.start
       \/ base_addr >= pi.start + LoaderSize)

\* base_addr, nbytes and expected_crc; the last byte decides what is answered.
PiReadsInfo ==
    LET words == Append(pi.words, Head(h2p))
        base_addr == AsUint32(SubSeq(words, 1, W))
        nbytes == AsUint32(SubSeq(words, W + 1, 2 * W))
        expected_crc == SubSeq(words, 2 * W + 1, 3 * W)
    IN  /\ pi.pc = "info"
        /\ PiReads
        /\ IF Len(words) < 3 * W
           THEN pi' = [pi EXCEPT !.words = words] /\ UNCHANGED p2h
           ELSE IF Collides(base_addr, nbytes)
           THEN pi' = [pi EXCEPT !.words = words, !.pc = "bad_addr"]
                /\ PiSends(BAD_CODE_ADDR)
           ELSE pi' = [pi EXCEPT !.words = words, !.pc = "wait_code"]
                /\ PiSends(GET_CODE \o expected_crc)
        /\ UNCHANGED <<host, losses, runs>>

nbytes_of(p) == AsUint32(SubSeq(p.words, W + 1, 2 * W))

base_of(p) == AsUint32(SubSeq(p.words, 1, W))

\* One byte at a time is stored at base_addr + i.
PiStores ==
    /\ pi.pc = "code" /\ Len(pi.mem) < nbytes_of(pi)
    /\ PiReads
    /\ pi' = [pi EXCEPT !.mem = Append(@, Head(h2p))]
    /\ UNCHANGED <<host, p2h, losses, runs>>

\* BOOT_SUCCESS is sent before the branch; address 0 reboots instead.
PiBoots ==
    /\ pi.pc = "code" /\ Len(pi.mem) = nbytes_of(pi)
    /\ pi' = [pi EXCEPT !.pc = IF base_of(pi) = 0 THEN "reboot" ELSE "running"]
    /\ PiSends(BOOT_SUCCESS)
    /\ UNCHANGED <<host, h2p, losses, runs>>

PiStep == \/ PiAnnounce \/ PiSeesData \/ PiWaitsForInfo \/ PiReadsInfo
          \/ PiWaitsForCode \/ PiStores \/ PiBoots

-----------------------------------------------------------------------------
\* Opening the port: the tail of an announcement in progress may be caught.
HostStarts(glitch) ==
    /\ ~ Listening /\ runs < MaxRuns
    /\ host' = [pc |-> "sync", buf |-> <<>>, sent |-> 0, glitch |-> glitch]
    /\ p2h' \in IF pi.pc = "announce" /\ h2p = <<>> THEN Suffixes(Tail(GET_PROG_INFO)) ELSE {<<>>}
    /\ h2p' = IF glitch = "open" THEN Append(h2p, Junk) ELSE h2p
    /\ runs' = runs + 1
    /\ UNCHANGED <<pi, losses>>

\* What comes next: the loader's bytes in their order, then whatever the
\* program that it has started prints.
Incoming == IF p2h # <<>> THEN {Head(p2h)} ELSE IF pi.pc = "running" THEN Printed ELSE {}

\* unix_getuint8 into the word that unix_getuint32 is building.
HostReads ==
    /\ p2h' = IF p2h = <<>> THEN p2h ELSE Tail(p2h)
    /\ UNCHANGED <<pi, losses, runs>>

Got(b) == Append(host.buf, b)

GoOn(pc) == host' = [host EXCEPT !.pc = pc, !.buf = <<>>]

\* A word that is not yet complete.
HostCollects(b) ==
    /\ host.pc \in {"sync", "drain", "crc", "result"}
    /\ Len(host.buf) < W - 1
    /\ HostReads
    /\ host' = [host EXCEPT !.buf = Got(b)]
    /\ UNCHANGED h2p

\* Trying the next word without skipping a byte after a wrong one.
Mutant_AfterWrongWord == "sync"

AfterWrongWord == "skip"

\* The first loop of put_code: get_op drops PRINT_STRING, and any other wrong word
\* is followed by one skipped byte.
HostSyncs(b) ==
    /\ host.pc = "sync" /\ Len(host.buf) = W - 1
    /\ HostReads
    /\ IF Got(b) = GET_PROG_INFO
       THEN /\ GoOn("info")
            /\ h2p' = h2p \o (IF host.glitch = "send" THEN <<Junk>> ELSE <<>>)
                         \o PUT_PROG_INFO
       ELSE /\ GoOn(IF Got(b) = PRINT_STRING THEN "sync" ELSE AfterWrongWord)
            /\ UNCHANGED h2p

HostSkips(b) ==
    /\ host.pc = "skip"
    /\ HostReads
    /\ GoOn("sync")
    /\ UNCHANGED h2p

\* After usleep: the address, the size and the checksum.
HostSendsInfo ==
    /\ host.pc = "info"
    /\ GoOn("drain")
    /\ h2p' = h2p \o ARMBASE \o Word(Len(Code)) \o crc32
    /\ UNCHANGED <<pi, p2h, losses, runs>>

\* Further announcements, and PRINT_STRING, are dropped; anything else must be
\* GET_CODE.
HostDrains(b) ==
    /\ host.pc = "drain" /\ Len(host.buf) = W - 1
    /\ HostReads
    /\ GoOn(CASE Got(b) \in {GET_PROG_INFO, PRINT_STRING} -> "drain"
              [] Got(b) = GET_CODE                         -> "crc"
              [] OTHER                                     -> "failed")
    /\ UNCHANGED h2p

HostChecksCrc(b) ==
    /\ host.pc = "crc" /\ Len(host.buf) = W - 1
    /\ HostReads
    /\ IF Got(b) = crc32
       THEN GoOn("code") /\ h2p' = h2p \o PUT_CODE
       ELSE GoOn("failed") /\ UNCHANGED h2p

HostSendsByte ==
    /\ host.pc = "code" /\ host.sent < Len(Code)
    /\ host' = [host EXCEPT !.sent = @ + 1]
    /\ h2p' = Append(h2p, Code[host.sent + 1])
    /\ UNCHANGED <<pi, p2h, losses, runs>>

\* Success without waiting for the loader's answer.
Mutant_HostAllSent ==
    /\ host.pc = "code" /\ host.sent = Len(Code)
    /\ GoOn("success")
    /\ UNCHANGED <<pi, h2p, p2h, losses, runs>>

HostAllSent ==
    /\ host.pc = "code" /\ host.sent = Len(Code)
    /\ GoOn("result")
    /\ UNCHANGED <<pi, h2p, p2h, losses, runs>>

HostGetsResult(b) ==
    /\ host.pc = "result" /\ Len(host.buf) = W - 1
    /\ HostReads
    /\ GoOn(IF Got(b) = BOOT_SUCCESS THEN "success" ELSE "failed")
    /\ UNCHANGED h2p

(***************************************************************************)
(* read() returns 0 after VTIME, two seconds, without a byte.  The loader  *)
(* needs far less for a step and announces itself every 0.3 s, so this     *)
(* happens only when it is itself waiting for bytes or has finished.  The  *)
(* program that it has started may print for ever or be silent for ever.   *)
(***************************************************************************)
PiSilent == ~ (\/ h2p # <<>> /\ pi.pc \notin {"bad_addr", "running", "reboot"}
               \/ pi.pc = "announce"
               \/ pi.pc = "code" /\ Len(pi.mem) = nbytes_of(pi))

HostTimesOut ==
    /\ host.pc \in {"sync", "skip", "drain", "crc", "result"}
    /\ p2h = <<>> /\ PiSilent
    /\ GoOn("failed")
    /\ UNCHANGED <<pi, h2p, p2h, losses, runs>>

HostGetsByte(b) == \/ HostCollects(b) \/ HostSyncs(b) \/ HostSkips(b) \/ HostDrains(b)
                   \/ HostChecksCrc(b) \/ HostGetsResult(b)

HostStep == \/ \E b \in Incoming : HostGetsByte(b)
            \/ HostSendsInfo \/ HostSendsByte \/ HostAllSent \/ HostTimesOut

\* The user interrupts the host program; what it has written is on its way.
HostKilled ==
    /\ Listening /\ host.pc # "success" /\ runs < MaxRuns
    /\ GoOn("killed")
    /\ p2h' = <<>>
    /\ UNCHANGED <<pi, h2p, losses, runs>>

LoseBytes ==
    /\ losses < MaxLosses
    /\ losses' = losses + 1
    /\ \/ h2p # <<>> /\ h2p' = <<>> /\ UNCHANGED p2h
       \/ \E i \in DOMAIN h2p : h2p' = RemoveAt(h2p, i) /\ UNCHANGED p2h
       \/ \E i \in DOMAIN p2h : p2h' = RemoveAt(p2h, i) /\ UNCHANGED h2p
    /\ UNCHANGED <<host, pi, runs>>

Next == \/ PiStep
        \/ HostStep
        \/ \E glitch \in Glitches : HostStarts(glitch)
        \/ HostKilled
        \/ LoseBytes

Spec == Init /\ [][Next]_vars

\* Both processors run; the host program is started at least once.
FairSpec == /\ Spec
            /\ WF_vars(PiStep) /\ WF_vars(HostStep)
            /\ WF_vars(\E glitch \in Glitches : HostStarts(glitch))

-----------------------------------------------------------------------------
TypeOK ==
    /\ host.pc \in {"off", "sync", "skip", "info", "drain", "crc", "code",
                    "result", "success", "failed", "killed"}
    /\ host.glitch \in {"none", "open", "send"}
    /\ Len(host.buf) < W /\ host.sent \in 0 .. Len(Code)
    /\ pi.pc \in {"announce", "wait_info", "info", "wait_code", "code",
                  "running", "reboot", "bad_addr"}
    /\ Len(pi.window) <= W /\ Len(pi.words) <= 3 * W
    /\ \A s \in {h2p, p2h, host.buf, pi.window, pi.words, pi.mem} : s \in Seq(0 .. 255)

(***************************************************************************)
(* "boot successful" on the host is the truth: the program is in memory,   *)
(* complete and at its address, whatever bytes the line lost, whatever     *)
(* junk it added when the port was opened and however often the host       *)
(* program was interrupted and run again.                                  *)
(***************************************************************************)
SuccessMeansInstalled ==
    host.pc = "success" =>
        pi.mem = Code /\ base_of(pi) = AsUint32(ARMBASE) /\ pi.pc = "running"

\* Where the i-th byte of the program is stored.
StoredAt(i) == (base_of(pi) + i) % AddressSpan

(***************************************************************************)
(* What the overlap check of main.c guarantees: no received byte is stored *)
(* between PUT32 and __prog_end__, whatever header the loader believes to  *)
(* have read, as long as the sum of its address and length does not wrap.  *)
(* A sum that wraps may pass although the range lies over the loader, and  *)
(* what is linked below PUT32 (.text.boot and main: bootloader/Makefile:50,*)
(* bootloader/linker.ld:16) is not looked at: bootloader/src/main.c:29,    *)
(* "check that sent code doesn't collide with bootloader code", promises   *)
(* more than the check does.                                               *)
(***************************************************************************)
GuardedIntact ==
    pi.pc \in {"code", "running", "reboot"} /\ base_of(pi) + nbytes_of(pi) < AddressSpan =>
        \A i \in 0 .. Len(pi.mem) - 1 :
            ~ (pi.start <= StoredAt(i) /\ StoredAt(i) < pi.start + LoaderSize)

(***************************************************************************)
(* put_code ends, with success or not, but for two cases in which the Pi   *)
(* keeps its loops fed for ever: the first loop by the output of a program *)
(* that runs already, the second by the announcements of a loader that the *)
(* header has never reached.  In particular an announcing loader is found  *)
(* however the words are shifted, and a silent one is given up on.         *)
(***************************************************************************)
HangsOnlyIfFed ==
    \/ []<>(~ Listening \/ host.pc = "success")
    \/ <>[](host.pc \in {"sync", "skip"} /\ pi.pc = "running")
    \/ <>[](host.pc = "drain" /\ pi.pc = "announce")

\* What may keep the first run from completing: a lost byte, an interruption, a
\* junk byte while the loader announces itself, a program that would overwrite
\* the loader.
Disturbed ==
    \/ runs <= 1 /\ (losses > 0 \/ host.pc = "killed" \/ host.glitch = "open")
    \/ Collides(AsUint32(ARMBASE), Len(Code) % AddressSpan)

(***************************************************************************)
(* Undisturbed, the first run of the host program starts the installed     *)
(* program, however the host's first word is shifted, however many         *)
(* announcements cross its header, and even with a junk byte right before  *)
(* its first opcode, which boot_wait_for_opcode scans over.                *)
(***************************************************************************)
InstallCompletes ==
    <>Disturbed \/ <>(runs = 1 /\ host.pc = "success" /\ pi.pc = "running")
=============================================================================
