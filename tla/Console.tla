------------------------------ MODULE Console ------------------------------
(***************************************************************************)
(* From printk on the Pi to the user's screen.  A program that was just    *)
(* loaded prints and then panics or reboots (src/lib/printk.c, check.c,    *)
(* src/drivers/uart.c, src/platform/platform.c); its bytes go through the  *)
(* transmit FIFO of the mini UART, the wire and the receive buffer of the  *)
(* host's serial port; rpi-install, having installed it (module            *)
(* Bootloader), echoes them until it sees the end marker or the port goes  *)
(* away (bootloader/src/pi-echo.c, tty-helpers.c).  It prints with the     *)
(* buffered stdio of the C library and never flushes it: the screen is     *)
(* what stdio has written so far.  The output is a terminal.               *)
(*                                                                         *)
(* There is no flow control (set_tty_to_8n1 switches it off): a byte that  *)
(* finds the receive buffer full is lost.  The cable may be pulled out at  *)
(* any time; the device node disappears some time after it.                *)
(***************************************************************************)
EXTENDS PrintkFormat, FiniteSets

CONSTANTS Char,                \* the bytes on the line, as characters
          exit_string,         \* the end marker of pi_done and clean_reboot
          Programs,            \* what a loaded program may print
          DeviceCounts,        \* how many serial devices the host may have
          TxFifo,              \* places in the transmit FIFO
          TtyBuffer,           \* bytes the host's serial port buffers
          BufSize,             \* sizeof buf - 1 in pi_echo
          StdoutSize,          \* characters that the buffer of stdout holds
          MAX_OPEN_ATTEMPTS,
          MaxKeys,             \* bound: what the user types
          MaxLost              \* bound: bytes the receive buffer loses

VARIABLES program,    \* the loaded program
          pi,         \* the Pi: its step pc ("loaded", "main" or "reset") and the
                      \* bytes out that it has still to send
          fifo,       \* the transmit FIFO
          tty,        \* the receive buffer of the port
          port,       \* the number of devices, the cable ("in", "out" or, when the
                      \* node is removed, "gone") and whether it can be opened
          host,       \* rpi-install: its step pc, the tries of open_tty and how
                      \* much of the marker it has seen
          keys,       \* how many keys were typed and how many echoed to the Pi
          delivered,  \* history: the bytes that entered the receive buffer
          printed,    \* history: the characters given to printf
          written,    \* how many of them stdio has written to the terminal
          lost        \* history: how many bytes were lost

vars == <<program, pi, fifo, tty, port, host, keys, delivered, printed, written, lost>>

history == <<delivered, printed, lost>>

ASSUME ConsoleAssumption ==
    /\ {TxFifo, TtyBuffer, BufSize, MAX_OPEN_ATTEMPTS} \subseteq Nat \ {0}
    /\ BufSize <= TtyBuffer /\ StdoutSize \in Nat
    /\ MaxKeys \in Nat /\ MaxLost \in Nat /\ DeviceCounts \subseteq Nat

-----------------------------------------------------------------------------
\* The answer of the loader, a word, is one byte here; a byte 0 is "NUL".
BOOT_SUCCESS == "BOOT_SUCCESS"

\* PANIC with its message and line number.
Panic(msg, line) == <<"P">> \o msg \o <<":">> \o UART_Send_Int(line) \o <<"\n">>

\* assert announces itself with a string that starts with a newline, then panics.
Assertion(msg, line) == <<"\n", " ">> \o Panic(msg, line)

(***************************************************************************)
(* What main prints, by printk, which puts a carriage return before each   *)
(* newline, or raw, byte by byte as it is: by UART_Send_String or, for a   *)
(* guest, by the putchar hypercall or the virtual UART.  Then it returns   *)
(* to start.S, which calls clean_reboot (the marker is sent by             *)
(* UART_Send_String), or it has panicked or failed an assertion.           *)
(***************************************************************************)
Output(p) ==
    (IF p.raw THEN p.text ELSE PutcUart(p.text))
        \o CASE p.asserts -> Assertion(<<>>, p.line)
             [] p.panics /\ ~ p.asserts -> Panic(<<>>, p.line)
             [] OTHER -> exit_string

ASSUME CharAssumption ==
    {"\n", "\r", " ", "NUL", BOOT_SUCCESS, "-", "x", "P", ":"}
        \cup Range(BASE16_CHARS) \cup Range(UpperHex) \subseteq Char

(***************************************************************************)
(* DONE!!! and a newline: what comes before the newline is printable and   *)
(* neither a blank nor a digit.                                            *)
(***************************************************************************)
ASSUME MarkerAssumption ==
    /\ exit_string \in Seq(Char) /\ Len(exit_string) > 1
    /\ exit_string[Len(exit_string)] = "\n"
    /\ \A i \in 1 .. Len(exit_string) - 1 :
          exit_string[i] \notin {"\n", "\r", "NUL", BOOT_SUCCESS, " "} \cup Range(BASE16_CHARS)

\* The arguments of a conversion: an int, or what the printers of the UART take.
Arguments(conv) ==
    CASE conv \in {"d", "0d"} -> 0 - (WordValues \div 2) .. (WordValues \div 2) - 1
      [] conv \in {"int", "hex"} -> Word
      [] OTHER -> Int

(***************************************************************************)
(* A program prints a text of its own (conv is "none") or, with printk,    *)
(* one number, at the start of a line.  One that fails an assertion panics.*)
(***************************************************************************)
ASSUME ProgramsAssumption ==
    \A p \in Programs :
        /\ p.text \in Seq(Char) /\ p.line \in Word
        /\ {p.raw, p.panics, p.asserts} \subseteq BOOLEAN /\ (p.asserts => p.panics)
        /\ p.conv # "none" =>
              /\ ~ p.raw /\ ~ p.asserts
              /\ p.conv \in {"b", "u", "x", "p", "d", "0x", "0d", "int", "hex"}
              /\ p.arg \in Arguments(p.conv) /\ p.padding \in Nat
              /\ p.conv \notin {"0x", "0d"} => p.padding = 0
              /\ p.text = NumberText(p.conv, p.arg, p.padding) \o <<"\n">>

Init ==
    /\ program \in Programs
    /\ pi = [pc |-> "loaded", out |-> <<BOOT_SUCCESS>>]
    /\ fifo = <<>> /\ tty = <<>>
    /\ port \in [devices : DeviceCounts, cable : {"in"}, ready : BOOLEAN]
    /\ host = [pc |-> "find", tries |-> 0, pos |-> 0]
    /\ keys = [typed |-> 0, echoed |-> 0]
    /\ delivered = <<>> /\ printed = <<>> /\ written = 0 /\ lost = 0

-----------------------------------------------------------------------------
\* The loader answers once the host has sent the program.
Awake == pi.pc = "loaded" => host.pc = "install"

UART_Put8 ==
    /\ Awake /\ pi.out # <<>>
    /\ Len(fifo) < TxFifo
    /\ fifo' = Append(fifo, Head(pi.out))
    /\ pi' = [pi EXCEPT !.out = Tail(@)]
    /\ UNCHANGED <<program, tty, port, host, keys, history, written>>

\* The FIFO is not waited for.
Mutant_UART_Flush_Tx == TRUE

UART_Flush_Tx == fifo = <<>>

\* The loader branches to the program, whose UART_Init clears the FIFOs.
Branch ==
    /\ pi.pc = "loaded" /\ pi.out = <<>>
    /\ UART_Flush_Tx
    /\ pi' = [pc |-> "main", out |-> Output(program)]
    /\ fifo' = <<>>
    /\ UNCHANGED <<program, tty, port, host, keys, history, written>>

\* The watchdog resets the chip, the UART included.
rpi_reboot ==
    /\ pi.pc = "main" /\ pi.out = <<>> /\ ~ program.panics
    /\ UART_Flush_Tx
    /\ pi' = [pi EXCEPT !.pc = "reset"]
    /\ fifo' = <<>>
    /\ UNCHANGED <<program, tty, port, host, keys, history, written>>

PiStep == UART_Put8 \/ Branch \/ rpi_reboot

\* The bytes for a host that has not opened the port, or that has left it, or
\* that is no longer connected, are gone.
Listening == port.cable = "in" /\ host.pc \in {"install", "stdin", "poll", "read"}

Wire ==
    /\ fifo # <<>>
    /\ fifo' = Tail(fifo)
    /\ \/ /\ ~ Listening
          /\ UNCHANGED <<tty, delivered, lost>>
       \/ /\ Listening /\ Len(tty) < TtyBuffer
          /\ tty' = Append(tty, Head(fifo))
          /\ delivered' = Append(delivered, Head(fifo))
          /\ UNCHANGED lost
       \/ /\ Listening /\ Len(tty) = TtyBuffer
          /\ lost < MaxLost /\ lost' = lost + 1
          /\ UNCHANGED <<tty, delivered>>
    /\ UNCHANGED <<program, pi, port, host, keys, printed, written>>

-----------------------------------------------------------------------------
\* The user and the cable.
Type ==
    /\ keys.typed < MaxKeys
    /\ keys' = [keys EXCEPT !.typed = @ + 1]
    /\ UNCHANGED <<program, pi, fifo, tty, port, host, history, written>>

\* The new device node gets its permissions.
PortReady ==
    /\ ~ port.ready /\ port.cable = "in"
    /\ port' = [port EXCEPT !.ready = TRUE]
    /\ UNCHANGED <<program, pi, fifo, tty, host, keys, history, written>>

\* What was received and not yet read is gone with the port.
Unplug ==
    /\ port.cable = "in"
    /\ port' = [port EXCEPT !.cable = "out"]
    /\ tty' = <<>>
    /\ UNCHANGED <<program, pi, fifo, host, keys, history, written>>

NodeRemoved ==
    /\ port.cable = "out"
    /\ port' = [port EXCEPT !.cable = "gone"]
    /\ UNCHANGED <<program, pi, fifo, tty, host, keys, history, written>>

-----------------------------------------------------------------------------
Ended == {"done", "closed", "exit1"}

\* Leaving through exit flushes stdio.
Flush(pc) == written' = IF pc \in Ended THEN Len(printed) ELSE written

GoTo(pc) == host' = [host EXCEPT !.pc = pc] /\ Flush(pc)

\* Exactly one device must match.
find_ttyusb ==
    /\ host.pc = "find"
    /\ GoTo(IF port.devices = 1 /\ port.cable # "gone" THEN "open" ELSE "exit1")
    /\ UNCHANGED <<program, pi, fifo, tty, port, keys, history>>

open_tty ==
    /\ host.pc = "open" /\ port.ready /\ port.cable = "in"
    /\ host' = [host EXCEPT !.pc = "install", !.tries = 0]
    /\ UNCHANGED <<program, pi, fifo, tty, port, keys, history, written>>

open_tty_retries ==
    /\ host.pc = "open" /\ ~ (port.ready /\ port.cable = "in")
    /\ LET pc == IF host.tries + 1 < MAX_OPEN_ATTEMPTS THEN "open" ELSE "exit1"
       IN  host' = [host EXCEPT !.tries = @ + 1, !.pc = pc] /\ Flush(pc)
    /\ UNCHANGED <<program, pi, fifo, tty, port, keys, history>>

\* The last read of put_code; any other byte than the answer is a failure.
put_code ==
    /\ host.pc = "install" /\ tty # <<>>
    /\ GoTo(IF Head(tty) = BOOT_SUCCESS THEN "stdin" ELSE "exit1")
    /\ tty' = Tail(tty)
    /\ UNCHANGED <<program, pi, fifo, port, keys, history>>

\* read() fails, or returns 0 because nothing came for two seconds: the Pi
\* needs far less than that for a step.
put_code_fails ==
    /\ host.pc = "install" /\ tty = <<>>
    /\ port.cable # "in" \/ (fifo = <<>> /\ pi.out = <<>>)
    /\ GoTo("exit1")
    /\ UNCHANGED <<program, pi, fifo, tty, port, keys, history>>

\* read_timeout on stdin, at most a second; what was typed goes to the Pi, and
\* write_exact gives up when the port is gone.
read_timeout ==
    /\ host.pc = "stdin"
    /\ \/ /\ keys.echoed < keys.typed
          /\ keys' = [keys EXCEPT !.echoed = @ + 1]
          /\ GoTo(IF port.cable = "in" THEN "poll" ELSE "exit1")
       \/ /\ keys.echoed = keys.typed
          /\ GoTo("poll")
          /\ UNCHANGED keys
    /\ UNCHANGED <<program, pi, fifo, tty, port, history>>

\* A port that was hung up is ready too.
can_read_timeout ==
    /\ host.pc = "poll"
    /\ GoTo(IF tty # <<>> \/ port.cable # "in" THEN "read" ELSE "stdin")
    /\ UNCHANGED <<program, pi, fifo, tty, port, keys, history>>

\* The buffer is shown as it came.
Mutant_remove_nonprint(buf) == buf

remove_nonprint(buf) ==
    [i \in 1 .. Len(buf) |-> IF buf[i] \in {"\r", "NUL", BOOT_SUCCESS} THEN " " ELSE buf[i]]

\* A C string ends at its first NUL.
CString(buf) ==
    IF Contains(buf, "NUL") THEN SubSeq(buf, 1, SelectInSeq(buf, LAMBDA c : c = "NUL") - 1)
    ELSE buf

\* The characters that matched stay counted.
Mutant_pi_done(s, pos) ==
    LET seen[i \in 0 .. Len(s)] ==
            IF i = 0 THEN pos
            ELSE LET p == seen[i - 1]
                 IN  IF p < Len(exit_string) /\ s[i] = exit_string[p + 1] THEN p + 1 ELSE p
    IN  seen[Len(s)]

\* Every buffer is matched from the start of the marker.
Mutant_pi_done_restarts(s, pos) ==
    LET seen[i \in 0 .. Len(s)] ==
            IF i = 0 THEN 0
            ELSE LET p == seen[i - 1]
                 IN  IF p = Len(exit_string) THEN p
                     ELSE IF s[i] = exit_string[p + 1] THEN p + 1 ELSE 0
    IN  seen[Len(s)]

\* How much of the marker has been seen after s, pos of it before: all of it
\* ends the search; the character that does not match is not tried as the
\* first one of the marker.
pi_done(s, pos) ==
    LET seen[i \in 0 .. Len(s)] ==
            IF i = 0 THEN pos
            ELSE LET p == seen[i - 1]
                 IN  IF p = Len(exit_string) THEN p
                     ELSE IF s[i] = exit_string[p + 1] THEN p + 1 ELSE 0
    IN  seen[Len(s)]

\* stdio writes at least up to the last newline, and what does not fit its buffer.
LineBuffered(chars) ==
    {k \in written .. Len(chars) : /\ Len(chars) - k <= StdoutSize
                                   /\ \A i \in k + 1 .. Len(chars) : chars[i] # "\n"}

\* The body of the loop of pi_echo after a read that returned bytes.
pi_echo ==
    LET n == IF Len(tty) < BufSize THEN Len(tty) ELSE BufSize
        buf == CString(remove_nonprint(SubSeq(tty, 1, n)))
        seen == pi_done(buf, host.pos)
    IN  /\ host.pc = "read" /\ n > 0
        /\ tty' = SubSeq(tty, n + 1, Len(tty))
        /\ printed' = printed \o buf
        /\ \/ /\ seen = Len(exit_string)
              /\ host' = [host EXCEPT !.pos = seen, !.pc = "done"]
              /\ written' = Len(printed')
           \/ /\ seen # Len(exit_string)
              /\ host' = [host EXCEPT !.pos = seen, !.pc = "stdin"]
              /\ written' \in LineBuffered(printed')
        /\ UNCHANGED <<program, pi, fifo, port, keys, delivered, lost>>

\* An empty read is always tried again.
Mutant_pi_echo_closed ==
    /\ host.pc = "read" /\ tty = <<>>
    /\ GoTo("stdin")
    /\ UNCHANGED <<program, pi, fifo, tty, port, keys, history>>

\* A port that was hung up: read() returns 0 or fails.
pi_echo_closed ==
    /\ host.pc = "read" /\ tty = <<>>
    /\ \/ GoTo(IF port.cable = "gone" THEN "closed" ELSE "stdin")
       \/ GoTo("exit1")
    /\ UNCHANGED <<program, pi, fifo, tty, port, keys, history>>

HostStep == \/ find_ttyusb \/ open_tty \/ open_tty_retries \/ put_code \/ put_code_fails
            \/ read_timeout \/ can_read_timeout \/ pi_echo \/ pi_echo_closed

Next == PiStep \/ Wire \/ Type \/ PortReady \/ Unplug \/ NodeRemoved \/ HostStep

(***************************************************************************)
(* The processors run, the UART sends what is in its FIFO and the host's   *)
(* kernel removes the node of a device that is gone.  Nobody has to type   *)
(* or to pull the cable.                                                   *)
(***************************************************************************)
Fairness == WF_vars(PiStep) /\ WF_vars(Wire) /\ WF_vars(HostStep) /\ WF_vars(NodeRemoved)

Spec == Init /\ [][Next]_vars /\ Fairness

-----------------------------------------------------------------------------
\* The program's own bytes among those delivered, as a terminal shows them: all
\* but the first, the loader's answer.
Visible == remove_nonprint(SubSeq(delivered, 2, Len(delivered)))

\* What the user sees.
Screen == SubSeq(printed, 1, written)

(***************************************************************************)
(* The screen shows what the port received, in its order and nothing       *)
(* twice, however the reads cut it and whatever bytes the program sent.    *)
(* What it does not show yet still waits in the port's buffer or, if it is *)
(* part of an unfinished line and no longer than stdio's buffer, in stdio; *)
(* nothing is left there when rpi-install ends.                            *)
(***************************************************************************)
ScreenFaithful ==
    /\ Len(printed) <= Len(Visible) /\ SubSeq(Visible, 1, Len(printed)) = printed
    /\ port.cable = "in" /\ host.pc \in {"stdin", "poll", "read", "done"} =>
           Len(printed) + Len(tty) = Len(Visible)
    /\ Len(Screen) = written /\ written <= Len(printed)
    /\ Len(printed) - written <= StdoutSize
    /\ \A i \in written + 1 .. Len(printed) : printed[i] # "\n"
    /\ host.pc \in Ended => Screen = printed

\* Every newline that such a program sends before the marker follows a carriage
\* return.
PrintsByPrintk(p) == ~ p.raw /\ ~ p.asserts

(***************************************************************************)
(* rpi-install says "pi exited" only when the program is over: it was in   *)
(* clean_reboot and all of the marker was sent.  In particular a program   *)
(* that prints the marker's text with printk, or parts of it, does not end *)
(* the console (printk puts a carriage return before the newline), as long *)
(* as that carriage return is not lost.  The repository's words go further *)
(* ("a string indicating a clean shutdown", bootloader/src/pi-echo.c:91):  *)
(* they fail of a program that prints the marker's text and then fails an  *)
(* assertion, whose newline check.c:5 sends raw.                           *)
(***************************************************************************)
ExitMeansDone ==
    host.pc = "done" /\ lost = 0 /\ PrintsByPrintk(program) =>
        ~ program.panics /\ pi.pc # "loaded" /\ pi.out = <<>> /\ fifo = <<>>

\* A number as a reader takes it: digits of the base, a sign in front.
Digit(c) == CHOOSE d \in 0 .. 15 : c \in {BASE16_CHARS[d + 1], UpperHex[d + 1]}

Value(text, base) ==
    LET val[i \in 0 .. Len(text)] ==
            IF i = 0 THEN 0 ELSE val[i - 1] * base + Digit(text[i])
    IN  val[Len(text)]

ReadBack(text, conv) ==
    CASE conv \in {"d", "0d"} ->
            IF Head(text) = "-" THEN 0 - Value(Tail(text), 10) ELSE Value(text, 10)
      [] conv \in {"u", "int"} -> Value(text, 10)
      [] conv \in {"x", "0x"} -> Value(text, 16)
      [] conv \in {"p", "hex"} -> Value(SubSeq(text, 3, Len(text)), 16)
      [] conv = "b" -> Value(SubSeq(text, 3, Len(text)), 2)

(***************************************************************************)
(* A number that a program printed can be read off the screen again: for   *)
(* every conversion, at the largest and the smallest argument too, and not *)
(* narrower than the width that was asked for.                             *)
(***************************************************************************)
NumbersReadBack ==
    host.pc = "done" /\ lost = 0 /\ program.conv # "none" =>
        LET text == SubSeq(Screen, 1, Len(Screen) - Len(exit_string) - 2)
        IN  /\ ReadBack(text, program.conv) =
                   IF program.conv \in {"d", "0d"} THEN program.arg ELSE AsWord(program.arg)
            /\ Len(text) >= program.padding

\* Lines end before the marker.
LastLineEnded == program.text = <<>> \/ Last(program.text) = "\n"

(***************************************************************************)
(* The user gets the prompt back when the program is over: the marker is   *)
(* recognised wherever the reads cut it, and no reset swallows the loader's *)
(* answer or the end of the marker, unless bytes are lost, the port is not *)
(* there or the cable is pulled.                                           *)
(***************************************************************************)
DoneEndsConsole ==
    /\ ~ program.panics /\ LastLineEnded /\ port.devices = 1 /\ port.ready
    /\ [](port.cable = "in" /\ lost = 0)
    => <>(host.pc = "done")

(***************************************************************************)
(* Pulling the cable ends rpi-install in whatever it is doing.             *)
(***************************************************************************)
CableEndsConsole == port.cable # "in" ~> host.pc \in Ended
=============================================================================
