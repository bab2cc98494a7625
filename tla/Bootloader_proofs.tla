------------------------- MODULE Bootloader_proofs -------------------------
(***************************************************************************)
(* Proofs about installing a program, for every program, address, checksum *)
(* and junk byte, any placement of the loader, any number of lost bytes,   *)
(* any text that the installed program prints and any number of runs of    *)
(* the host program.                                                       *)
(***************************************************************************)
EXTENDS Bootloader, SequenceTheorems, TLAPS

Byte == 0 .. 255

HostSteps == {"off", "sync", "skip", "info", "drain", "crc", "code",
              "result", "success", "failed", "killed"}

PiSteps == {"announce", "wait_info", "info", "wait_code", "code",
            "running", "reboot", "bad_addr"}

HostRec == [pc : HostSteps, buf : Seq(Byte), sent : 0 .. Len(Code),
            glitch : {"none", "open", "send"}]

PiRec == [pc : PiSteps, window : Seq(Byte), words : Seq(Byte), mem : Seq(Byte),
          start : LoaderStarts]

\* The records and channels have their shape, and no buffer overflows.
Typed ==
    /\ host \in HostRec /\ Len(host.buf) < W
    /\ pi \in PiRec /\ Len(pi.window) <= W /\ Len(pi.words) <= 3 * W
    /\ h2p \in Seq(Byte) /\ p2h \in Seq(Byte)

\* The loader has accepted a header.
Ready == {"wait_code", "code", "running", "reboot"}

(***************************************************************************)
(* What the loader holds at each of its steps: buffers are empty until     *)
(* they are filled, and from GET_CODE on the header is complete and does   *)
(* not collide with the loader.                                            *)
(***************************************************************************)
PiPhase ==
    /\ pi.pc \notin {"code", "running", "reboot"} => pi.mem = <<>>
    /\ pi.pc \in {"announce", "info"} => pi.window = <<>>
    /\ pi.pc \in {"announce", "wait_info"} => pi.words = <<>>
    /\ pi.pc = "info" => Len(pi.words) < 3 * W
    /\ pi.pc \in Ready => /\ Len(pi.words) = 3 * W
                          /\ ~ Collides(base_of(pi), nbytes_of(pi))
                          /\ Len(pi.mem) <= nbytes_of(pi)

-----------------------------------------------------------------------------
\* Facts about sequences, in the form in which they are cited.
LEMMA Element ==
    ASSUME NEW S, NEW q \in Seq(S), NEW i \in 1 .. Len(q) PROVE q[i] \in S
  BY ElementOfSeq

\* A sequence is empty when its length is zero.
LEMMA NonEmpty ==
    ASSUME NEW S, NEW q \in Seq(S)
    PROVE  Len(q) \in Nat /\ (q # <<>> <=> Len(q) # 0)
  OBVIOUS

\* Type and length of a concatenation.
LEMMA Joined ==
    ASSUME NEW S, NEW q \in Seq(S), NEW r \in Seq(S)
    PROVE  q \o r \in Seq(S) /\ Len(q \o r) = Len(q) + Len(r)
  OBVIOUS

\* Type and length of Append.
LEMMA Appended ==
    ASSUME NEW S, NEW q \in Seq(S), NEW b \in S
    PROVE  Append(q, b) \in Seq(S) /\ Len(Append(q, b)) = Len(q) + 1
  OBVIOUS

\* Reading a byte from a channel and appending it to a buffer, or losing one.
LEMMA ReadByte ==
    ASSUME NEW S, NEW q \in Seq(S), q # <<>>
    PROVE  /\ Head(q) \in S /\ Tail(q) \in Seq(S)
           /\ Len(Tail(q)) = Len(q) - 1 /\ Len(q) \in Nat /\ Len(q) >= 1
  BY HeadTailProperties, LenProperties

\* What is left of a line that lost its i-th byte.
LEMMA RemoveByte ==
    ASSUME NEW S, NEW q \in Seq(S), NEW i \in DOMAIN q
    PROVE  /\ RemoveAt(q, i) \in Seq(S)
           /\ Len(RemoveAt(q, i)) = Len(q) - 1
           /\ \A j \in 1 .. Len(q) - 1 :
                 RemoveAt(q, i)[j] = IF j < i THEN q[j] ELSE q[j + 1]
<1>1. Len(q) \in Nat /\ i \in 1 .. Len(q) BY LenProperties
<1> DEFINE a == SubSeq(q, 1, i - 1)
           b == SubSeq(q, i + 1, Len(q))
<1>2. \A j \in 1 .. i - 1 : q[j] \in S BY <1>1, ElementOfSeq
<1>3. \A j \in i + 1 .. Len(q) : q[j] \in S BY <1>1, ElementOfSeq
<1>4. /\ a \in Seq(S) /\ Len(a) = i - 1
      /\ \A j \in 1 .. i - 1 : a[j] = q[j]
  <2>1. 1 \in Int /\ i - 1 \in Int BY <1>1
  <2>2. /\ a \in Seq(S) /\ Len(a) = IF 1 <= i - 1 THEN i - 1 - 1 + 1 ELSE 0
        /\ \A j \in 1 .. i - 1 - 1 + 1 : a[j] = q[1 + j - 1]
    BY <2>1, <1>2, SubSeqProperties
  <2> HIDE DEF a
  <2> QED BY <2>2, <1>1
<1>5. /\ b \in Seq(S) /\ Len(b) = Len(q) - i
      /\ \A j \in 1 .. Len(q) - i : b[j] = q[i + j]
  <2>1. i + 1 \in Int /\ Len(q) \in Int BY <1>1
  <2>2. /\ b \in Seq(S) /\ Len(b) = IF i + 1 <= Len(q) THEN Len(q) - (i + 1) + 1 ELSE 0
        /\ \A j \in 1 .. Len(q) - (i + 1) + 1 : b[j] = q[(i + 1) + j - 1]
    BY <2>1, <1>3, SubSeqProperties
  <2> HIDE DEF b
  <2> QED BY <2>2, <1>1
<1>6. RemoveAt(q, i) = a \o b BY DEF RemoveAt
<1> HIDE DEF a, b
<1>7. /\ a \o b \in Seq(S)
      /\ Len(a \o b) = Len(a) + Len(b)
      /\ \A j \in 1 .. Len(a) + Len(b) :
            (a \o b)[j] = IF j <= Len(a) THEN a[j] ELSE b[j - Len(a)]
  BY <1>4, <1>5, ConcatProperties
<1>8. ASSUME NEW j \in 1 .. Len(q) - 1
      PROVE  (a \o b)[j] = IF j < i THEN q[j] ELSE q[j + 1]
  <2>1. j \in 1 .. Len(a) + Len(b) BY <1>1, <1>4, <1>5
  <2>2. CASE j < i
    BY <1>1, <1>4, <1>7, <2>1, <2>2
  <2>3. CASE ~ (j < i)
    <3>1. j - Len(a) \in 1 .. Len(q) - i /\ ~ (j <= Len(a)) BY <1>1, <1>4, <2>3
    <3>2. b[j - Len(a)] = q[i + (j - Len(a))] BY <1>5, <3>1
    <3>3. i + (j - Len(a)) = j + 1 BY <1>1, <1>4
    <3> QED BY <1>7, <2>1, <2>3, <3>1, <3>2, <3>3
  <2> QED BY <2>2, <2>3
<1>9. Len(a \o b) = Len(q) - 1 BY <1>1, <1>4, <1>5, <1>7
<1> QED BY <1>6, <1>7, <1>8, <1>9

\* The addresses; the program is not longer than they reach.
LEMMA SpanTyped == AddressSpan \in Nat /\ AddressSpan > 0 /\ Len(Code) < AddressSpan
  BY BootAssumption, SMT

\* Text is made of bytes, none of which is the last one of BOOT_SUCCESS.
LEMMA PrintedTyped == Printed \subseteq Byte /\ 153 \notin Printed
<1>1. Printed \subseteq 0 .. 127 BY BootAssumption, SMT
<1> QED BY <1>1 DEF Byte

\* A word of the header is a number.
LEMMA WordsAreNumbers ==
    ASSUME NEW words \in Seq(Byte), Len(words) = 3 * W
    PROVE  /\ AsUint32(SubSeq(words, 1, W)) \in Nat
           /\ AsUint32(SubSeq(words, W + 1, 2 * W)) \in Nat
           /\ SubSeq(words, 2 * W + 1, 3 * W) \in Seq(Byte)
           /\ Len(SubSeq(words, 2 * W + 1, 3 * W)) = W
<1>0. Len(words) = 12 BY DEF W
<1>1. ASSUME NEW i \in 1 .. 12 PROVE words[i] \in Byte
  <2>1. i \in 1 .. Len(words) BY <1>0
  <2> QED BY <2>1, Element
<1>2. SubSeq(words, 1, 4) \in Seq(Byte) /\ Len(SubSeq(words, 1, 4)) = 4
  BY <1>1, SubSeqProperties
<1>3. SubSeq(words, 5, 8) \in Seq(Byte) /\ Len(SubSeq(words, 5, 8)) = 4
  BY <1>1, SubSeqProperties
<1>4. SubSeq(words, 9, 12) \in Seq(Byte) /\ Len(SubSeq(words, 9, 12)) = 4
  BY <1>1, SubSeqProperties
<1>5. ASSUME NEW w \in Seq(Byte), Len(w) = 4 PROVE AsUint32(w) \in Nat
  <2>1. ASSUME NEW i \in 1 .. 4 PROVE w[i] \in Byte
    <3>1. i \in 1 .. Len(w) BY <1>5
    <3> QED BY <3>1, Element
  <2>2. \A a, b, c, d \in Byte : a + 256 * b + 65536 * c + 16777216 * d \in Nat
    BY DEF Byte
  <2> DEFINE a == w[1]
             b == w[2]
             c == w[3]
             d == w[4]
  <2>3. a \in Byte /\ b \in Byte /\ c \in Byte /\ d \in Byte BY <2>1
  <2>4. Number(w) = a + 256 * b + 65536 * c + 16777216 * d BY DEF Number
  <2> HIDE DEF a, b, c, d
  <2>5. a + 256 * b + 65536 * c + 16777216 * d \in Nat BY <2>2, <2>3
  <2>6. Number(w) \in Nat BY <2>4, <2>5
  <2>7. \A n \in Nat : n % AddressSpan \in Nat BY SpanTyped
  <2> QED BY <2>6, <2>7 DEF AsUint32
<1>6. W = 4 /\ W + 1 = 5 /\ 2 * W = 8 /\ 2 * W + 1 = 9 /\ 3 * W = 12 BY DEF W
<1> QED BY <1>2, <1>3, <1>4, <1>5, <1>6

\* Where the loader may lie, and its size.
LEMMA LoaderTyped == LoaderStarts \subseteq Nat /\ LoaderSize \in Nat
  BY BootAssumption, SMT

\* The parts of BootAssumption about what the installer sends.
LEMMA PayloadTyped ==
    /\ Code \in Seq(Byte) /\ Len(Code) \in Nat
    /\ crc32 \in Seq(Byte) /\ Len(crc32) = W
    /\ ARMBASE \in Seq(Byte) /\ Len(ARMBASE) = W
    /\ Junk \in Byte /\ Glitches \subseteq {"none", "open", "send"}
  BY BootAssumption, SMT DEF Byte

\* The words that both sides send.
LEMMA OpcodesTyped ==
    /\ \A w \in {GET_PROG_INFO, PUT_PROG_INFO, GET_CODE, PUT_CODE, BOOT_SUCCESS,
                  BAD_CODE_ADDR} : w \in Seq(Byte) /\ Len(w) = W
    /\ <<>> \in Seq(Byte) /\ <<Junk>> \in Seq(Byte)
  BY PayloadTyped DEF GET_PROG_INFO, PUT_PROG_INFO, GET_CODE, PUT_CODE, BOOT_SUCCESS,
                        BAD_CODE_ADDR, Byte, W

\* The length of the program as a word on the line.
LEMMA LengthTyped == Word(Len(Code)) \in Seq(Byte) /\ Len(Word(Len(Code))) = W
<1> DEFINE n == Len(Code)
<1>1. n \in Nat /\ n \div 16777216 < 256 BY BootAssumption, SMT
<1> HIDE DEF n
<1>2. /\ n % 256 \in Byte /\ (n \div 256) % 256 \in Byte
      /\ (n \div 65536) % 256 \in Byte /\ n \div 16777216 \in Byte
  BY <1>1 DEF Byte
<1> QED BY <1>2 DEF Word, W, n

\* What the host sends after PUT_PROG_INFO.
Header == ARMBASE \o Word(Len(Code)) \o crc32

\* The header is three words.
LEMMA HeaderTyped == Header \in Seq(Byte) /\ Len(Header) = 3 * W
<1>1. /\ ARMBASE \in Seq(Byte) /\ Len(ARMBASE) = W
      /\ crc32 \in Seq(Byte) /\ Len(crc32) = W
  BY PayloadTyped
<1>2. ARMBASE \o Word(Len(Code)) \in Seq(Byte) /\ Len(ARMBASE \o Word(Len(Code))) = W + W
  BY <1>1, LengthTyped, Joined
<1>3. /\ (ARMBASE \o Word(Len(Code))) \o crc32 \in Seq(Byte)
      /\ Len((ARMBASE \o Word(Len(Code))) \o crc32) = W + W + W
  BY <1>1, <1>2, Joined
<1> QED BY <1>3 DEF Header, W

-----------------------------------------------------------------------------
\* What the Pi sends reaches the line if the host is listening.
LEMMA PiSendsTyped ==
    ASSUME NEW bytes \in Seq(Byte), p2h \in Seq(Byte), PiSends(bytes)
    PROVE  /\ p2h' \in Seq(Byte)
           /\ Len(p2h') = IF Listening THEN Len(p2h) + Len(bytes) ELSE Len(p2h)
  BY ConcatProperties DEF PiSends

\* The scan window never holds more than a word.
LEMMA WindowTyped ==
    ASSUME NEW q \in Seq(Byte), Len(q) <= W, NEW b \in Byte
    PROVE  Window(q, b) \in Seq(Byte) /\ Len(Window(q, b)) <= W
<1>1. CASE Len(q) = W
  <2>1. q # <<>> BY <1>1, NonEmpty DEF W
  <2>2. Tail(q) \in Seq(Byte) /\ Len(Tail(q)) = W - 1 BY <1>1, <2>1, ReadByte
  <2>3. Append(Tail(q), b) \in Seq(Byte) /\ Len(Append(Tail(q), b)) = W - 1 + 1
    BY <2>2, Appended
  <2>4. Window(q, b) = Append(Tail(q), b) BY <1>1 DEF Window
  <2>5. W - 1 + 1 <= W BY DEF W
  <2> QED BY <2>3, <2>4, <2>5
<1>2. CASE Len(q) # W
  <2>1. Append(q, b) \in Seq(Byte) /\ Len(Append(q, b)) = Len(q) + 1 BY Appended
  <2>2. Window(q, b) = Append(q, b) BY <1>2 DEF Window
  <2>3. Len(q) + 1 <= W
    <3> DEFINE n == Len(q)
    <3>1. n \in Nat /\ n <= W /\ n # W BY <1>2, NonEmpty
    <3> HIDE DEF n
    <3>2. n + 1 <= W BY <3>1 DEF W
    <3> QED BY <3>2 DEF n
  <2> QED BY <2>1, <2>2, <2>3
<1> QED BY <1>1, <1>2

\* Scanning for an opcode: the window moves on, or the opcode is found.
LEMMA ScanEffect ==
    ASSUME Typed, NEW at \in PiSteps, NEW expected, NEW then \in PiSteps,
           PiScans(at, expected, then)
    PROVE  LET w == Window(pi.window, Head(h2p))
           IN  /\ pi.pc = at /\ h2p # <<>> /\ h2p' = Tail(h2p) /\ h2p' \in Seq(Byte)
               /\ host' = host /\ p2h' = p2h
               /\ w \in Seq(Byte) /\ Len(w) <= W
               /\ pi' \in PiRec /\ pi'.words = pi.words /\ pi'.mem = pi.mem
               /\ pi'.start = pi.start
               /\ \/ w = expected /\ pi'.pc = then /\ pi'.window = <<>>
                  \/ w # expected /\ pi'.pc = at /\ pi'.window = w
<1> DEFINE w == Window(pi.window, Head(h2p))
<1>1. /\ pi.pc = at /\ h2p # <<>> /\ h2p' = Tail(h2p) /\ host' = host /\ p2h' = p2h
      /\ pi' = IF w = expected THEN [pi EXCEPT !.pc = then, !.window = <<>>]
               ELSE [pi EXCEPT !.window = w]
  BY DEF PiScans, PiReads
<1>2. Head(h2p) \in Byte /\ Tail(h2p) \in Seq(Byte) BY <1>1, ReadByte DEF Typed
<1>3. w \in Seq(Byte) /\ Len(w) <= W
  <2>1. pi.window \in Seq(Byte) /\ Len(pi.window) <= W BY DEF Typed, PiRec
  <2> QED BY <1>2, <2>1, WindowTyped
<1> HIDE DEF w
<1>4. CASE w = expected
  <2>1. pi' = [pi EXCEPT !.pc = then, !.window = <<>>] BY <1>1, <1>4
  <2> DEFINE q == [pi EXCEPT !.pc = then]
  <2>2. q \in PiRec /\ q.pc = then /\ q.words = pi.words /\ q.mem = pi.mem
        /\ q.start = pi.start
    BY DEF Typed, PiRec
  <2>3. pi' = [q EXCEPT !.window = <<>>] BY <2>1
  <2>4. <<>> \in Seq(Byte) BY OpcodesTyped
  <2> HIDE DEF q
  <2>5. /\ pi' \in PiRec /\ pi'.pc = then /\ pi'.window = <<>> /\ pi'.words = pi.words
        /\ pi'.mem = pi.mem /\ pi'.start = pi.start
    BY <2>2, <2>3, <2>4 DEF PiRec
  <2> QED BY <1>1, <1>2, <1>3, <1>4, <2>5 DEF w
<1>5. CASE w # expected
  <2>1. pi' = [pi EXCEPT !.window = w] BY <1>1, <1>5
  <2>2. /\ pi' \in PiRec /\ pi'.pc = pi.pc /\ pi'.window = w /\ pi'.words = pi.words
        /\ pi'.mem = pi.mem /\ pi'.start = pi.start
    BY <1>3, <2>1 DEF Typed, PiRec
  <2> QED BY <1>1, <1>2, <1>3, <1>5, <2>2 DEF w
<1> QED BY <1>4, <1>5

\* Both word scans of the loader keep types and phase.
LEMMA ScanTyped ==
    ASSUME Typed, PiPhase, NEW at \in PiSteps, NEW expected, NEW then \in PiSteps,
           PiScans(at, expected, then),
           <<at, then>> \in {<<"wait_info", "info">>, <<"wait_code", "code">>}
    PROVE  Typed' /\ PiPhase'
<1>1. /\ pi.pc = at /\ h2p' \in Seq(Byte) /\ host' = host /\ p2h' = p2h
      /\ pi' \in PiRec /\ pi'.words = pi.words /\ pi'.mem = pi.mem
      /\ pi'.start = pi.start
      /\ \/ pi'.pc = then /\ pi'.window = <<>>
         \/ pi'.pc = at /\ Len(pi'.window) <= W
  BY ScanEffect
<1>2. Len(<<>>) <= W BY DEF W
<1>3. Typed' BY <1>1, <1>2 DEF Typed
<1>4. PiPhase'
  BY <1>1 DEF PiPhase, Ready, W, Collides, base_of, nbytes_of, PiSteps
<1> QED BY <1>3, <1>4

\* The three outcomes of reading a header byte.
LEMMA ReadsInfoCases ==
    ASSUME Typed, PiPhase, PiReadsInfo
    PROVE  LET words == Append(pi.words, Head(h2p))
               crc == SubSeq(words, 2 * W + 1, 3 * W)
           IN  /\ pi.pc = "info" /\ h2p # <<>> /\ h2p' = Tail(h2p) /\ host' = host
               /\ words \in Seq(Byte) /\ Len(words) = Len(pi.words) + 1
               /\ pi'.words = words /\ pi'.mem = pi.mem /\ pi'.window = pi.window
               /\ pi'.start = pi.start /\ pi' \in PiRec
               /\ \/ pi'.pc = "info" /\ Len(words) < 3 * W /\ p2h' = p2h
                  \/ pi'.pc = "bad_addr" /\ Len(words) = 3 * W /\ PiSends(BAD_CODE_ADDR)
                  \/ /\ pi'.pc = "wait_code" /\ Len(words) = 3 * W
                     /\ PiSends(GET_CODE \o crc)
                     /\ ~ Collides(base_of(pi'), nbytes_of(pi'))
                     /\ nbytes_of(pi') \in Nat /\ crc \in Seq(Byte) /\ Len(crc) = W
<1> DEFINE words == Append(pi.words, Head(h2p))
           crc == SubSeq(words, 2 * W + 1, 3 * W)
           base_addr == AsUint32(SubSeq(words, 1, W))
           nbytes == AsUint32(SubSeq(words, W + 1, 2 * W))
<1>1. /\ pi.pc = "info" /\ h2p # <<>> /\ h2p' = Tail(h2p) /\ host' = host
      /\ \/ Len(words) < 3 * W /\ pi' = [pi EXCEPT !.words = words] /\ p2h' = p2h
         \/ /\ ~ (Len(words) < 3 * W) /\ PiSends(BAD_CODE_ADDR)
            /\ pi' = [pi EXCEPT !.words = words, !.pc = "bad_addr"]
         \/ /\ ~ (Len(words) < 3 * W) /\ ~ Collides(base_addr, nbytes)
            /\ pi' = [pi EXCEPT !.words = words, !.pc = "wait_code"]
            /\ PiSends(GET_CODE \o crc)
  BY DEF PiReadsInfo, PiReads
<1>2. pi.words \in Seq(Byte) /\ Len(pi.words) < 3 * W /\ Len(pi.words) \in Nat
  BY <1>1, LenProperties DEF Typed, PiRec, PiPhase
<1>3. Head(h2p) \in Byte BY <1>1, ReadByte DEF Typed
<1>4. words \in Seq(Byte) /\ Len(words) = Len(pi.words) + 1
  BY <1>2, <1>3, AppendProperties
<1> HIDE DEF words
<1>5. ~ (Len(words) < 3 * W) => Len(words) = 3 * W BY <1>2, <1>4 DEF W
<1>6. CASE Len(words) < 3 * W /\ pi' = [pi EXCEPT !.words = words] /\ p2h' = p2h
  <2>1. /\ pi'.words = words /\ pi'.mem = pi.mem /\ pi'.window = pi.window
        /\ pi'.start = pi.start /\ pi' \in PiRec /\ pi'.pc = "info"
    BY <1>1, <1>4, <1>6 DEF Typed, PiRec
  <2> QED BY <1>1, <1>4, <1>6, <2>1 DEF words
<1>7. CASE /\ ~ (Len(words) < 3 * W) /\ PiSends(BAD_CODE_ADDR)
           /\ pi' = [pi EXCEPT !.words = words, !.pc = "bad_addr"]
  <2>1. /\ pi'.words = words /\ pi'.mem = pi.mem /\ pi'.window = pi.window
        /\ pi'.start = pi.start /\ pi' \in PiRec /\ pi'.pc = "bad_addr"
    BY <1>1, <1>4, <1>7 DEF Typed, PiRec, PiSteps
  <2> QED BY <1>1, <1>4, <1>5, <1>7, <2>1 DEF words
<1>8. CASE /\ ~ (Len(words) < 3 * W) /\ ~ Collides(base_addr, nbytes)
           /\ pi' = [pi EXCEPT !.words = words, !.pc = "wait_code"]
           /\ PiSends(GET_CODE \o crc)
  <2>1. /\ pi'.words = words /\ pi'.mem = pi.mem /\ pi'.window = pi.window
        /\ pi'.start = pi.start /\ pi' \in PiRec /\ pi'.pc = "wait_code"
    BY <1>1, <1>4, <1>8 DEF Typed, PiRec, PiSteps
  <2>2. base_of(pi') = base_addr /\ nbytes_of(pi') = nbytes
    BY <2>1 DEF base_of, nbytes_of
  <2>3. nbytes \in Nat /\ crc \in Seq(Byte) /\ Len(crc) = W
    BY <1>4, <1>5, <1>8, WordsAreNumbers
  <2>4. PiSends(GET_CODE \o crc) BY <1>8
  <2>5. ~ Collides(base_of(pi'), nbytes_of(pi')) BY <1>8, <2>2
  <2>6. nbytes_of(pi') \in Nat BY <2>2, <2>3
  <2> HIDE DEF crc
  <2> QED BY <1>1, <1>4, <1>5, <1>8, <2>1, <2>3, <2>4, <2>5, <2>6 DEF words, crc
<1> QED BY <1>1, <1>6, <1>7, <1>8

\* The phase depends on the Pi only.
LEMMA PiPhaseStays == PiPhase /\ pi' = pi => PiPhase'
  BY DEF PiPhase, Collides

\* A step of the host that clears the buffer, and one that reads a byte.
LEMMA GoOnTyped ==
    ASSUME host \in HostRec, NEW pc \in HostSteps, GoOn(pc)
    PROVE  /\ host' \in HostRec /\ host'.pc = pc /\ host'.buf = <<>>
           /\ Len(host'.buf) = 0
           /\ host'.sent = host.sent /\ host'.glitch = host.glitch
<1> DEFINE q == [host EXCEPT !.pc = pc]
<1>1. q \in HostRec /\ q.pc = pc /\ q.sent = host.sent /\ q.glitch = host.glitch
  BY DEF HostRec
<1>2. host' = [q EXCEPT !.buf = <<>>] BY DEF GoOn
<1>3. <<>> \in Seq(Byte) BY OpcodesTyped
<1> HIDE DEF q
<1>4. /\ host' \in HostRec /\ host'.pc = pc /\ host'.buf = <<>>
      /\ host'.sent = host.sent /\ host'.glitch = host.glitch
  BY <1>1, <1>2, <1>3 DEF HostRec
<1> QED BY <1>4

\* What the host may read next.
LEMMA IncomingTyped ==
    ASSUME Typed
    PROVE  /\ Incoming \subseteq Byte
           /\ p2h # <<>> => Incoming = {Head(p2h)}
           /\ p2h = <<>> /\ Incoming # {} => pi.pc = "running" /\ Incoming = Printed
<1>1. p2h # <<>> => Head(p2h) \in Byte BY ReadByte DEF Typed
<1> QED BY <1>1, PrintedTyped DEF Incoming

\* A read of the host: a byte of the loader is taken off the line.
LEMMA HostReadsByte ==
    ASSUME Typed, HostReads, NEW b \in Byte
    PROVE  /\ pi' = pi /\ p2h' \in Seq(Byte)
           /\ host.buf \in Seq(Byte) /\ Len(host.buf) \in Nat
           /\ Got(b) \in Seq(Byte) /\ Len(Got(b)) = Len(host.buf) + 1
<1>1. pi' = pi /\ p2h' = IF p2h = <<>> THEN p2h ELSE Tail(p2h) BY DEF HostReads
<1>2. p2h \in Seq(Byte) /\ host.buf \in Seq(Byte) BY DEF Typed, HostRec
<1>3. p2h # <<>> => Tail(p2h) \in Seq(Byte) BY <1>2, ReadByte
<1>4. Got(b) \in Seq(Byte) /\ Len(Got(b)) = Len(host.buf) + 1
  BY <1>2, Appended DEF Got
<1>5. Len(host.buf) \in Nat BY <1>2, NonEmpty
<1> QED BY <1>1, <1>2, <1>3, <1>4, <1>5

\* The same for a byte that is on the line.
LEMMA HostReadsTyped ==
    ASSUME Typed, p2h # <<>>, HostReads
    PROVE  /\ p2h' = Tail(p2h) /\ pi' = pi
           /\ p2h' \in Seq(Byte) /\ Len(p2h) \in Nat /\ Len(p2h) >= 1
           /\ Len(p2h') = Len(p2h) - 1 /\ Head(p2h) \in Byte
           /\ host.buf \in Seq(Byte) /\ Len(host.buf) \in Nat
           /\ Got(Head(p2h)) \in Seq(Byte) /\ Len(Got(Head(p2h))) = Len(host.buf) + 1
<1>1. p2h' = Tail(p2h) BY DEF HostReads
<1>2. p2h \in Seq(Byte) BY DEF Typed
<1>3. /\ Head(p2h) \in Byte /\ Tail(p2h) \in Seq(Byte)
      /\ Len(Tail(p2h)) = Len(p2h) - 1 /\ Len(p2h) \in Nat /\ Len(p2h) >= 1
  BY <1>2, ReadByte
<1> QED BY <1>1, <1>3, HostReadsByte

\* Where the host goes when a word is complete.
LEMMA HostGoesOn ==
    ASSUME Typed, NEW pc \in HostSteps, GoOn(pc), pi' = pi, h2p' \in Seq(Byte),
           p2h' \in Seq(Byte)
    PROVE  Typed'
<1>1. host' \in HostRec /\ Len(host'.buf) = 0 BY GoOnTyped DEF Typed
<1> QED BY <1>1 DEF Typed, W

\* A byte that does not complete a word.
LEMMA CollectTyped ==
    ASSUME Typed, NEW b \in Byte, HostCollects(b)
    PROVE  /\ Typed' /\ pi' = pi /\ h2p' = h2p
           /\ host'.pc = host.pc /\ host'.buf = Got(b) /\ host'.sent = host.sent
<1>1. /\ Len(host.buf) < W - 1 /\ HostReads /\ h2p' = h2p
      /\ host' = [host EXCEPT !.buf = Got(b)]
  BY DEF HostCollects
<1>2. /\ Got(b) \in Seq(Byte) /\ Len(Got(b)) = Len(host.buf) + 1
      /\ pi' = pi /\ p2h' \in Seq(Byte) /\ Len(host.buf) \in Nat
  BY <1>1, HostReadsByte
<1>3. /\ host' \in HostRec /\ host'.buf = Got(b) /\ host'.pc = host.pc
      /\ host'.sent = host.sent
  BY <1>1, <1>2 DEF Typed, HostRec
<1>4. Len(host'.buf) < W
  <2> DEFINE n == Len(host.buf)
  <2>1. n \in Nat /\ n < W - 1 BY <1>1, <1>2
  <2> HIDE DEF n
  <2>2. n + 1 < W BY <2>1 DEF W
  <2> QED BY <1>2, <1>3, <2>2 DEF n
<1> QED BY <1>1, <1>2, <1>3, <1>4 DEF Typed

\* What the host has put on the line once it has found the loader.
Opened == (IF host.glitch = "send" THEN <<Junk>> ELSE <<>>) \o PUT_PROG_INFO

\* What opening the port puts on the line.
LEMMA OpenedTyped ==
    /\ (IF host.glitch = "send" THEN <<Junk>> ELSE <<>>) \in Seq(Byte)
    /\ PUT_PROG_INFO \in Seq(Byte)
    /\ Opened \in Seq(Byte)
<1>1. /\ (IF host.glitch = "send" THEN <<Junk>> ELSE <<>>) \in Seq(Byte)
      /\ PUT_PROG_INFO \in Seq(Byte)
  BY OpcodesTyped
<1> QED BY <1>1, Joined DEF Opened

\* rpi-install starts with a line of at most three leftover bytes.
LEMMA StartTyped ==
    ASSUME Typed, NEW glitch \in Glitches, HostStarts(glitch)
    PROVE  /\ Typed' /\ pi' = pi
           /\ host'.pc = "sync" /\ host'.buf = <<>> /\ host'.sent = 0
           /\ host'.glitch = glitch
           /\ p2h' \in Seq({17, 34}) /\ Len(p2h') <= 3
<1>1. /\ host' = [pc |-> "sync", buf |-> <<>>, sent |-> 0, glitch |-> glitch]
      /\ pi' = pi
      /\ p2h' \in Suffixes(Tail(GET_PROG_INFO)) \cup {<<>>}
      /\ h2p' = IF glitch = "open" THEN Append(h2p, Junk) ELSE h2p
  BY DEF HostStarts
<1>2. Tail(GET_PROG_INFO) = <<34, 17, 17>> BY DEF GET_PROG_INFO
<1>3. p2h' \in Seq({17, 34}) /\ Len(p2h') <= 3
  <2> DEFINE t == <<34, 17, 17>>
  <2>1. t \in Seq({17, 34}) /\ Len(t) = 3 OBVIOUS
  <2>2. ASSUME NEW l \in 1 .. 3
        PROVE  SubSeq(t, l, 3) \in Seq({17, 34}) /\ Len(SubSeq(t, l, 3)) <= 3
    <3>1. ASSUME NEW i \in l .. 3 PROVE t[i] \in {17, 34} OBVIOUS
    <3> HIDE DEF t
    <3>2. /\ SubSeq(t, l, 3) \in Seq({17, 34})
          /\ Len(SubSeq(t, l, 3)) = IF l <= 3 THEN 3 - l + 1 ELSE 0
      BY <3>1, SubSeqProperties
    <3> QED BY <3>2
  <2>3. p2h' = <<>> \/ \E l \in 1 .. 3 : p2h' = SubSeq(t, l, 3)
    <3> HIDE DEF t
    <3>1. Suffixes(t) = {SubSeq(t, l, Len(t)) : l \in 1 .. Len(t)} \cup {<<>>}
      BY DEF Suffixes
    <3> QED BY <1>1, <1>2, <2>1, <3>1 DEF t
  <2>4. <<>> \in Seq({17, 34}) /\ Len(<<>>) <= 3 OBVIOUS
  <2> HIDE DEF t
  <2> QED BY <2>2, <2>3, <2>4
<1>4. p2h' \in Seq(Byte)
  <2>1. {17, 34} \subseteq Byte BY DEF Byte
  <2> QED BY <1>3, <2>1, SeqMonotonic
<1>5. h2p' \in Seq(Byte)
  <2>1. Junk \in Byte /\ h2p \in Seq(Byte) BY PayloadTyped DEF Typed
  <2>2. Append(h2p, Junk) \in Seq(Byte) BY <2>1, Appended
  <2> QED BY <1>1, <2>1, <2>2
<1>6. /\ host' \in HostRec /\ Len(host'.buf) < W
      /\ host'.pc = "sync" /\ host'.buf = <<>> /\ host'.sent = 0 /\ host'.glitch = glitch
  <2>1. <<>> \in Seq(Byte) /\ 0 \in 0 .. Len(Code) /\ glitch \in {"none", "open", "send"}
    BY PayloadTyped, OpcodesTyped
  <2>2. host' \in HostRec BY <1>1, <2>1 DEF HostRec, HostSteps
  <2>3. host'.buf = <<>> BY <1>1
  <2>4. Len(host'.buf) < W BY <2>3 DEF W
  <2> QED BY <1>1, <2>2, <2>4
<1> QED BY <1>1, <1>3, <1>4, <1>5, <1>6 DEF Typed

\* The loader stores a byte, and starts the program.
LEMMA StoreEffect ==
    ASSUME Typed, PiStores
    PROVE  /\ pi.pc = "code" /\ Len(pi.mem) < nbytes_of(pi) /\ host' = host /\ p2h' = p2h
           /\ h2p # <<>> /\ h2p' = Tail(h2p) /\ h2p' \in Seq(Byte) /\ Head(h2p) \in Byte
           /\ pi' \in PiRec /\ pi'.pc = "code" /\ pi'.mem = Append(pi.mem, Head(h2p))
           /\ pi'.window = pi.window /\ pi'.words = pi.words /\ pi'.start = pi.start
           /\ Len(pi'.mem) = Len(pi.mem) + 1
<1>1. /\ pi.pc = "code" /\ Len(pi.mem) < nbytes_of(pi) /\ host' = host /\ p2h' = p2h
      /\ h2p # <<>> /\ h2p' = Tail(h2p)
      /\ pi' = [pi EXCEPT !.mem = Append(pi.mem, Head(h2p))]
  BY DEF PiStores, PiReads
<1>2. h2p \in Seq(Byte) /\ pi.mem \in Seq(Byte) BY DEF Typed, PiRec
<1>3. Head(h2p) \in Byte /\ Tail(h2p) \in Seq(Byte) BY <1>1, <1>2, ReadByte
<1> DEFINE m == Append(pi.mem, Head(h2p))
<1>4. m \in Seq(Byte) /\ Len(m) = Len(pi.mem) + 1 BY <1>2, <1>3, Appended
<1>5. pi' = [pi EXCEPT !.mem = m] BY <1>1
<1> HIDE DEF m
<1>6. /\ pi' \in PiRec /\ pi'.pc = "code" /\ pi'.mem = m
      /\ pi'.window = pi.window /\ pi'.words = pi.words /\ pi'.start = pi.start
  BY <1>1, <1>4, <1>5 DEF Typed, PiRec
<1> QED BY <1>1, <1>3, <1>4, <1>6 DEF m

\* The loader's jump to the program, or its reboot for base 0.
LEMMA BootEffect ==
    ASSUME Typed, PiBoots
    PROVE  /\ pi.pc = "code" /\ Len(pi.mem) = nbytes_of(pi) /\ host' = host /\ h2p' = h2p
           /\ PiSends(BOOT_SUCCESS)
           /\ pi' \in PiRec /\ pi'.pc = IF base_of(pi) = 0 THEN "reboot" ELSE "running"
           /\ pi'.mem = pi.mem /\ pi'.window = pi.window /\ pi'.words = pi.words
           /\ pi'.start = pi.start
<1>1. /\ pi.pc = "code" /\ Len(pi.mem) = nbytes_of(pi) /\ host' = host /\ h2p' = h2p
      /\ PiSends(BOOT_SUCCESS)
      /\ pi' = [pi EXCEPT !.pc = IF base_of(pi) = 0 THEN "reboot" ELSE "running"]
  BY DEF PiBoots
<1> DEFINE next == IF base_of(pi) = 0 THEN "reboot" ELSE "running"
<1>2. next \in PiSteps BY DEF PiSteps
<1>3. pi' = [pi EXCEPT !.pc = next] BY <1>1
<1> HIDE DEF next
<1>4. /\ pi' \in PiRec /\ pi'.pc = next /\ pi'.mem = pi.mem /\ pi'.window = pi.window
      /\ pi'.words = pi.words /\ pi'.start = pi.start
  BY <1>2, <1>3 DEF Typed, PiRec
<1> QED BY <1>1, <1>4 DEF next

\* The loader stops announcing when the first byte arrives.
LEMMA SeesDataEffect ==
    ASSUME Typed, PiSeesData
    PROVE  /\ pi.pc = "announce" /\ h2p # <<>> /\ host' = host /\ h2p' = h2p /\ p2h' = p2h
           /\ pi' \in PiRec /\ pi'.pc = "wait_info" /\ pi'.mem = pi.mem
           /\ pi'.window = pi.window /\ pi'.words = pi.words /\ pi'.start = pi.start
<1>1. pi' = [pi EXCEPT !.pc = "wait_info"] BY DEF PiSeesData
<1>2. /\ pi' \in PiRec /\ pi'.pc = "wait_info" /\ pi'.mem = pi.mem
      /\ pi'.window = pi.window /\ pi'.words = pi.words /\ pi'.start = pi.start
  BY <1>1 DEF Typed, PiRec, PiSteps
<1> QED BY <1>2 DEF PiSeesData

-----------------------------------------------------------------------------
\* Every step of the Pi keeps types and phase.
LEMMA PiStepTyped ==
    ASSUME Typed, PiPhase, PiStep
    PROVE  Typed' /\ PiPhase'
<1>1. CASE PiAnnounce
  <2>1. p2h' \in Seq(Byte)
    <3>1. GET_PROG_INFO \in Seq(Byte) /\ p2h \in Seq(Byte) /\ PiSends(GET_PROG_INFO)
      BY <1>1, OpcodesTyped DEF PiAnnounce, Typed
    <3> QED BY <3>1, PiSendsTyped
  <2>2. host' = host /\ pi' = pi /\ h2p' = h2p BY <1>1 DEF PiAnnounce
  <2> QED BY <2>1, <2>2, PiPhaseStays DEF Typed
<1>2. CASE PiSeesData
  <2>1. Typed' BY <1>2, SeesDataEffect DEF Typed
  <2>2. PiPhase' BY <1>2, SeesDataEffect DEF PiPhase, Ready
  <2> QED BY <2>1, <2>2
<1>3. CASE PiWaitsForInfo
  <2>1. "wait_info" \in PiSteps /\ "info" \in PiSteps BY DEF PiSteps
  <2> QED BY <1>3, <2>1, ScanTyped DEF PiWaitsForInfo
<1>4. CASE PiWaitsForCode
  <2>1. "wait_code" \in PiSteps /\ "code" \in PiSteps BY DEF PiSteps
  <2> QED BY <1>4, <2>1, ScanTyped DEF PiWaitsForCode
<1>5. CASE PiReadsInfo
  <2> DEFINE words == Append(pi.words, Head(h2p))
             crc == SubSeq(words, 2 * W + 1, 3 * W)
  <2>1. /\ pi.pc = "info" /\ h2p # <<>> /\ h2p' = Tail(h2p) /\ host' = host
        /\ words \in Seq(Byte)
        /\ pi'.words = words /\ pi'.mem = pi.mem /\ pi'.window = pi.window
        /\ pi'.start = pi.start /\ pi' \in PiRec
        /\ \/ pi'.pc = "info" /\ Len(words) < 3 * W /\ p2h' = p2h
           \/ pi'.pc = "bad_addr" /\ Len(words) = 3 * W /\ PiSends(BAD_CODE_ADDR)
           \/ /\ pi'.pc = "wait_code" /\ Len(words) = 3 * W
              /\ PiSends(GET_CODE \o crc)
              /\ ~ Collides(base_of(pi'), nbytes_of(pi'))
              /\ nbytes_of(pi') \in Nat /\ crc \in Seq(Byte) /\ Len(crc) = W
    BY <1>5, ReadsInfoCases
  <2> HIDE DEF words, crc
  <2>2. pi.mem = <<>> /\ pi.window = <<>> BY <2>1 DEF PiPhase
  <2>3. h2p' \in Seq(Byte) BY <2>1, ReadByte DEF Typed
  <2>4. Len(pi'.window) <= W /\ Len(pi'.mem) = 0 BY <2>1, <2>2 DEF W
  <2>5. p2h' \in Seq(Byte)
    <3>1. p2h \in Seq(Byte) /\ BAD_CODE_ADDR \in Seq(Byte) /\ GET_CODE \in Seq(Byte)
      BY OpcodesTyped DEF Typed
    <3>2. crc \in Seq(Byte) => GET_CODE \o crc \in Seq(Byte) BY <3>1, Joined
    <3> QED BY <2>1, <3>1, <3>2, PiSendsTyped
  <2>6. Len(pi'.words) <= 3 * W
    <3> DEFINE n == Len(words)
    <3>1. n \in Nat /\ (n < 3 * W \/ n = 3 * W) BY <2>1, NonEmpty
    <3> HIDE DEF n
    <3>2. n <= 3 * W BY <3>1 DEF W
    <3> QED BY <2>1, <3>2 DEF n
  <2>7. Typed' BY <2>1, <2>3, <2>4, <2>5, <2>6 DEF Typed
  <2>8. /\ pi'.pc \notin {"code", "running", "reboot"} => pi'.mem = <<>>
        /\ pi'.pc \in {"announce", "info"} => pi'.window = <<>>
        /\ pi'.pc \in {"announce", "wait_info"} => pi'.words = <<>>
        /\ pi'.pc = "info" => Len(pi'.words) < 3 * W
    BY <2>1, <2>2
  <2>9. ASSUME pi'.pc \in Ready
        PROVE  /\ Len(pi'.words) = 3 * W
               /\ ~ Collides(base_of(pi), nbytes_of(pi))'
               /\ Len(pi'.mem) <= nbytes_of(pi')
    <3>1. /\ pi'.pc = "wait_code" /\ Len(words) = 3 * W
          /\ ~ Collides(base_of(pi'), nbytes_of(pi'))
          /\ nbytes_of(pi') \in Nat
      BY <2>1, <2>9 DEF Ready
    <3>2. ~ Collides(base_of(pi), nbytes_of(pi))' BY <2>1, <3>1 DEF Collides
    <3> QED BY <2>1, <2>4, <3>1, <3>2
  <2>10. PiPhase' BY <2>8, <2>9 DEF PiPhase
  <2> QED BY <2>7, <2>10
<1>6. CASE PiStores
  <2>1. /\ pi.pc = "code" /\ Len(pi.mem) < nbytes_of(pi) /\ host' = host /\ p2h' = p2h
        /\ h2p' \in Seq(Byte) /\ pi' \in PiRec /\ pi'.pc = "code"
        /\ pi'.window = pi.window /\ pi'.words = pi.words /\ pi'.start = pi.start
        /\ Len(pi'.mem) = Len(pi.mem) + 1
    BY <1>6, StoreEffect
  <2>2. Typed' BY <2>1 DEF Typed
  <2>3. /\ Len(pi.words) = 3 * W /\ ~ Collides(base_of(pi), nbytes_of(pi))
    BY <2>1 DEF PiPhase, Ready
  <2>4. nbytes_of(pi') = nbytes_of(pi) /\ base_of(pi') = base_of(pi)
    BY <2>1 DEF nbytes_of, base_of
  <2>5. nbytes_of(pi) \in Nat BY <2>3, WordsAreNumbers DEF nbytes_of, Typed, PiRec
  <2>6. Len(pi.mem) \in Nat BY NonEmpty DEF Typed, PiRec
  <2>7. Len(pi'.mem) <= nbytes_of(pi)
    <3> DEFINE n == Len(pi.mem)
               k == nbytes_of(pi)
    <3>1. n \in Nat /\ k \in Nat /\ n < k BY <2>1, <2>5, <2>6
    <3> HIDE DEF n, k
    <3>2. n + 1 <= k BY <3>1
    <3> QED BY <2>1, <3>2 DEF n, k
  <2>8. ~ Collides(base_of(pi), nbytes_of(pi))' BY <2>1, <2>3, <2>4 DEF Collides
  <2>9. PiPhase' BY <2>1, <2>3, <2>4, <2>7, <2>8 DEF PiPhase
  <2> QED BY <2>2, <2>9
<1>7. CASE PiBoots
  <2>1. /\ pi.pc = "code" /\ host' = host /\ h2p' = h2p
        /\ PiSends(BOOT_SUCCESS)
        /\ pi' \in PiRec /\ pi'.pc \in {"reboot", "running"}
        /\ pi'.mem = pi.mem /\ pi'.window = pi.window /\ pi'.words = pi.words
        /\ pi'.start = pi.start
    BY <1>7, BootEffect
  <2>2. p2h' \in Seq(Byte)
    <3>1. BOOT_SUCCESS \in Seq(Byte) /\ p2h \in Seq(Byte) BY OpcodesTyped DEF Typed
    <3> QED BY <2>1, <3>1, PiSendsTyped
  <2>3. Typed' BY <2>1, <2>2 DEF Typed
  <2>4. nbytes_of(pi') = nbytes_of(pi) /\ base_of(pi') = base_of(pi)
    BY <2>1 DEF nbytes_of, base_of
  <2>5. /\ Len(pi.words) = 3 * W /\ ~ Collides(base_of(pi), nbytes_of(pi))
        /\ Len(pi.mem) <= nbytes_of(pi)
    BY <2>1 DEF PiPhase, Ready
  <2>6. ~ Collides(base_of(pi), nbytes_of(pi))' BY <2>1, <2>4, <2>5 DEF Collides
  <2>7. PiPhase' BY <2>1, <2>4, <2>5, <2>6 DEF PiPhase
  <2> QED BY <2>3, <2>7
<1> QED BY <1>1, <1>2, <1>3, <1>4, <1>5, <1>6, <1>7 DEF PiStep

\* Every step of the host keeps types and does not touch the Pi.
LEMMA HostStepTyped ==
    ASSUME Typed, HostStep
    PROVE  Typed' /\ pi' = pi
<1>0. h2p \in Seq(Byte) /\ p2h \in Seq(Byte) BY DEF Typed
<1>1. ASSUME NEW b \in Byte, HostCollects(b) PROVE Typed' /\ pi' = pi
  BY <1>1, CollectTyped
<1>2. ASSUME NEW b \in Byte, HostSyncs(b) PROVE Typed' /\ pi' = pi
  <2>1. HostReads BY <1>2 DEF HostSyncs
  <2>2. p2h' \in Seq(Byte) /\ pi' = pi BY <2>1, HostReadsByte
  <2>3. CASE Got(b) = GET_PROG_INFO
    <3>1. /\ GoOn("info")
          /\ h2p' = h2p \o (IF host.glitch = "send" THEN <<Junk>> ELSE <<>>)
                       \o PUT_PROG_INFO
      BY <1>2, <2>3 DEF HostSyncs
    <3>2. h2p' \in Seq(Byte) BY <1>0, <3>1, OpenedTyped, Joined
    <3>3. "info" \in HostSteps BY DEF HostSteps
    <3> QED BY <2>2, <3>1, <3>2, <3>3, HostGoesOn
  <2>4. CASE Got(b) # GET_PROG_INFO
    <3>1. (GoOn("skip") \/ GoOn("sync")) /\ h2p' = h2p
      BY <1>2, <2>4 DEF HostSyncs, AfterWrongWord
    <3>2. "skip" \in HostSteps /\ "sync" \in HostSteps BY DEF HostSteps
    <3> QED BY <1>0, <2>2, <3>1, <3>2, HostGoesOn
  <2> QED BY <2>3, <2>4
<1>3. ASSUME NEW b \in Byte, HostSkips(b) PROVE Typed' /\ pi' = pi
  <2>1. HostReads /\ GoOn("sync") /\ h2p' = h2p BY <1>3 DEF HostSkips
  <2>2. p2h' \in Seq(Byte) /\ pi' = pi BY <2>1, HostReadsByte
  <2>3. "sync" \in HostSteps BY DEF HostSteps
  <2> QED BY <1>0, <2>1, <2>2, <2>3, HostGoesOn
<1>4. CASE HostSendsInfo
  <2>1. /\ GoOn("drain") /\ h2p' = h2p \o ARMBASE \o Word(Len(Code)) \o crc32
        /\ pi' = pi /\ p2h' = p2h
    BY <1>4 DEF HostSendsInfo
  <2>2. ARMBASE \in Seq(Byte) /\ crc32 \in Seq(Byte) BY PayloadTyped
  <2>3. h2p \o ARMBASE \in Seq(Byte) BY <1>0, <2>2, Joined
  <2>4. h2p \o ARMBASE \o Word(Len(Code)) \in Seq(Byte) BY <2>3, LengthTyped, Joined
  <2>5. h2p' \in Seq(Byte) BY <2>1, <2>2, <2>4, Joined
  <2>6. "drain" \in HostSteps BY DEF HostSteps
  <2> QED BY <1>0, <2>1, <2>5, <2>6, HostGoesOn
<1>5. ASSUME NEW b \in Byte, HostDrains(b) PROVE Typed' /\ pi' = pi
  <2> DEFINE next == CASE Got(b) \in {GET_PROG_INFO, PRINT_STRING} -> "drain"
                       [] Got(b) = GET_CODE                         -> "crc"
                       [] OTHER                                     -> "failed"
  <2>1. HostReads /\ GoOn(next) /\ h2p' = h2p BY <1>5 DEF HostDrains
  <2>2. p2h' \in Seq(Byte) /\ pi' = pi BY <2>1, HostReadsByte
  <2>3. next \in HostSteps BY DEF HostSteps
  <2> HIDE DEF next
  <2> QED BY <1>0, <2>1, <2>2, <2>3, HostGoesOn
<1>6. ASSUME NEW b \in Byte, HostChecksCrc(b) PROVE Typed' /\ pi' = pi
  <2>1. HostReads BY <1>6 DEF HostChecksCrc
  <2>2. p2h' \in Seq(Byte) /\ pi' = pi BY <2>1, HostReadsByte
  <2>3. h2p \o PUT_CODE \in Seq(Byte) BY <1>0, OpcodesTyped, Joined
  <2>4. \/ GoOn("code") /\ h2p' = h2p \o PUT_CODE
        \/ GoOn("failed") /\ h2p' = h2p
    BY <1>6 DEF HostChecksCrc
  <2>5. "code" \in HostSteps /\ "failed" \in HostSteps BY DEF HostSteps
  <2> QED BY <1>0, <2>2, <2>3, <2>4, <2>5, HostGoesOn
<1>7. CASE HostSendsByte
  <2>1. /\ host.sent < Len(Code) /\ host' = [host EXCEPT !.sent = host.sent + 1]
        /\ h2p' = Append(h2p, Code[host.sent + 1])
        /\ pi' = pi /\ p2h' = p2h
    BY <1>7 DEF HostSendsByte
  <2> DEFINE k == host.sent + 1
  <2>2. k \in 0 .. Len(Code) /\ k \in 1 .. Len(Code)
    <3> DEFINE n == Len(Code)
               m == host.sent
    <3>1. n \in Nat /\ m \in 0 .. n /\ m < n
      BY <2>1, PayloadTyped DEF Typed, HostRec
    <3> HIDE DEF n, m
    <3>2. m + 1 \in 0 .. n /\ m + 1 \in 1 .. n BY <3>1
    <3> QED BY <3>2 DEF n, m
  <2>3. Code[k] \in Byte BY <2>2, PayloadTyped, Element
  <2>4. h2p' \in Seq(Byte) BY <1>0, <2>1, <2>3, Appended
  <2>5. host' = [host EXCEPT !.sent = k] BY <2>1
  <2> HIDE DEF k
  <2>6. host' \in HostRec /\ host'.buf = host.buf
    BY <2>2, <2>5 DEF Typed, HostRec
  <2> QED BY <1>0, <2>1, <2>4, <2>6 DEF Typed
<1>8. CASE HostAllSent
  <2>1. GoOn("result") /\ h2p' = h2p /\ p2h' = p2h /\ pi' = pi BY <1>8 DEF HostAllSent
  <2>2. "result" \in HostSteps BY DEF HostSteps
  <2> QED BY <1>0, <2>1, <2>2, HostGoesOn
<1>9. ASSUME NEW b \in Byte, HostGetsResult(b) PROVE Typed' /\ pi' = pi
  <2>1. HostReads /\ h2p' = h2p BY <1>9 DEF HostGetsResult
  <2>2. p2h' \in Seq(Byte) /\ pi' = pi BY <2>1, HostReadsByte
  <2>3. GoOn("success") \/ GoOn("failed") BY <1>9 DEF HostGetsResult
  <2>4. "success" \in HostSteps /\ "failed" \in HostSteps BY DEF HostSteps
  <2> QED BY <1>0, <2>1, <2>2, <2>3, <2>4, HostGoesOn
<1>10. CASE HostTimesOut
  <2>1. GoOn("failed") /\ h2p' = h2p /\ p2h' = p2h /\ pi' = pi BY <1>10 DEF HostTimesOut
  <2>2. "failed" \in HostSteps BY DEF HostSteps
  <2> QED BY <1>0, <2>1, <2>2, HostGoesOn
<1> QED BY <1>1, <1>2, <1>3, <1>4, <1>5, <1>6, <1>7, <1>8, <1>9, <1>10, IncomingTyped
     DEF HostStep, HostGetsByte

\* Power-on: types and phase.
LEMMA InitTyped == Init => Typed /\ PiPhase
<1> SUFFICES ASSUME Init PROVE Typed /\ PiPhase OBVIOUS
<1>1. PICK start \in LoaderStarts :
        pi = [pc |-> "announce", window |-> <<>>, words |-> <<>>, mem |-> <<>>,
              start |-> start]
  BY DEF Init
<1>2. host = [pc |-> "off", buf |-> <<>>, sent |-> 0, glitch |-> "none"] BY DEF Init
<1>3. <<>> \in Seq(Byte) /\ 0 \in 0 .. Len(Code) BY OpcodesTyped, PayloadTyped
<1>4. host \in HostRec /\ host.buf = <<>> BY <1>2, <1>3 DEF HostRec, HostSteps
<1>5. pi \in PiRec /\ pi.window = <<>> /\ pi.words = <<>> /\ pi.mem = <<>>
      /\ pi.pc = "announce"
  BY <1>1, <1>3 DEF PiRec, PiSteps
<1>6. Len(host.buf) < W /\ Len(pi.window) <= W /\ Len(pi.words) <= 3 * W
  BY <1>4, <1>5 DEF W
<1>7. h2p \in Seq(Byte) /\ p2h \in Seq(Byte) BY <1>3 DEF Init
<1> QED BY <1>4, <1>5, <1>6, <1>7 DEF Typed, PiPhase, Ready

\* Every step keeps types and phase.
LEMMA StepTyped == Typed /\ PiPhase /\ [Next]_vars => Typed' /\ PiPhase'
<1> SUFFICES ASSUME Typed, PiPhase, [Next]_vars PROVE Typed' /\ PiPhase' OBVIOUS
<1>1. CASE PiStep BY <1>1, PiStepTyped
<1>2. CASE HostStep BY <1>2, HostStepTyped, PiPhaseStays
<1>3. ASSUME NEW glitch \in Glitches, HostStarts(glitch) PROVE Typed' /\ PiPhase'
  BY <1>3, StartTyped, PiPhaseStays
<1>4. CASE HostKilled
  <2>1. GoOn("killed") /\ p2h' = <<>> /\ pi' = pi /\ h2p' = h2p BY <1>4 DEF HostKilled
  <2>2. "killed" \in HostSteps /\ <<>> \in Seq(Byte) BY OpcodesTyped DEF HostSteps
  <2>3. h2p' \in Seq(Byte) BY <2>1 DEF Typed
  <2> QED BY <2>1, <2>2, <2>3, HostGoesOn, PiPhaseStays
<1>5. CASE LoseBytes
  <2>1. host' = host /\ pi' = pi BY <1>5 DEF LoseBytes
  <2>2. h2p \in Seq(Byte) /\ p2h \in Seq(Byte) BY DEF Typed
  <2>3. ASSUME h2p' = <<>>, p2h' = p2h PROVE h2p' \in Seq(Byte) /\ p2h' \in Seq(Byte)
    BY <2>2, <2>3, OpcodesTyped
  <2>4. ASSUME NEW i \in DOMAIN h2p, h2p' = RemoveAt(h2p, i), p2h' = p2h
        PROVE  h2p' \in Seq(Byte) /\ p2h' \in Seq(Byte)
    BY <2>2, <2>4, RemoveByte
  <2>5. ASSUME NEW i \in DOMAIN p2h, p2h' = RemoveAt(p2h, i), h2p' = h2p
        PROVE  h2p' \in Seq(Byte) /\ p2h' \in Seq(Byte)
    BY <2>2, <2>5, RemoveByte
  <2>6. h2p' \in Seq(Byte) /\ p2h' \in Seq(Byte)
    BY <1>5, <2>3, <2>4, <2>5 DEF LoseBytes
  <2> QED BY <2>1, <2>6, PiPhaseStays DEF Typed
<1>6. CASE UNCHANGED vars BY <1>6, PiPhaseStays DEF vars, Typed
<1> QED BY <1>1, <1>2, <1>3, <1>4, <1>5, <1>6 DEF Next

\* Types and phase hold in every reachable state.
LEMMA AlwaysTyped == Spec => [](Typed /\ PiPhase)
  BY InitTyped, StepTyped, PTL DEF Spec

(***************************************************************************)
(* The two programs stay within their buffers and send nothing but bytes,  *)
(* whatever is lost, and the host never sends more than the program.       *)
(***************************************************************************)
THEOREM BootTypeCorrect == Spec => []TypeOK
<1>1. Typed => TypeOK
  BY DEF Typed, TypeOK, HostRec, PiRec, HostSteps, PiSteps, Byte
<1> QED BY <1>1, AlwaysTyped, PTL

(***************************************************************************)
(* The range check of main.c, made once on the header, covers every byte   *)
(* that is stored: none lands between PUT32 and __prog_end__, wherever the *)
(* loader is linked and whatever it takes for a header, unless the end of  *)
(* the range in that header wraps.  What is linked below PUT32 is not      *)
(* protected.                                                              *)
(***************************************************************************)
THEOREM GuardedRangeIntact == Spec => []GuardedIntact
<1>1. Typed /\ PiPhase => GuardedIntact
  <2> SUFFICES ASSUME Typed, PiPhase, pi.pc \in {"code", "running", "reboot"},
                      base_of(pi) + nbytes_of(pi) < AddressSpan,
                      NEW i \in 0 .. Len(pi.mem) - 1
               PROVE  ~ (pi.start <= StoredAt(i) /\ StoredAt(i) < pi.start + LoaderSize)
    BY DEF GuardedIntact
  <2>1. pi.pc \in Ready BY DEF Ready
  <2>2. /\ Len(pi.words) = 3 * W /\ Len(pi.mem) <= nbytes_of(pi)
        /\ \/ (base_of(pi) + nbytes_of(pi)) % AddressSpan <= pi.start
           \/ base_of(pi) >= pi.start + LoaderSize
    BY <2>1 DEF PiPhase, Collides
  <2>3. nbytes_of(pi) \in Nat /\ base_of(pi) \in Nat
    BY <2>2, WordsAreNumbers DEF nbytes_of, base_of, Typed, PiRec
  <2>4. Len(pi.mem) \in Nat BY NonEmpty DEF Typed, PiRec
  <2>5. pi.start \in Nat /\ LoaderSize \in Nat BY LoaderTyped DEF Typed, PiRec
  <2>6. \A x \in Nat : x < AddressSpan => x % AddressSpan = x BY SpanTyped
  <2> DEFINE m == Len(pi.mem)
             n == nbytes_of(pi)
             b == base_of(pi)
             s == pi.start
  <2>7. b + n \in Nat /\ b + i \in Nat /\ b + n < AddressSpan /\ b + i < AddressSpan
    <3>1. m \in Nat /\ n \in Nat /\ b \in Nat /\ i \in 0 .. m - 1 /\ m <= n
          /\ b + n < AddressSpan /\ AddressSpan \in Nat
      BY <2>2, <2>3, <2>4, SpanTyped
    <3> HIDE DEF m, n, b
    <3> QED BY <3>1
  <2>8. (b + n) % AddressSpan = b + n /\ (b + i) % AddressSpan = b + i
    <3> HIDE DEF n, b
    <3> QED BY <2>6, <2>7
  <2>9. /\ m \in Nat /\ n \in Nat /\ b \in Nat /\ s \in Nat /\ LoaderSize \in Nat
        /\ i \in 0 .. m - 1 /\ m <= n /\ (b + n <= s \/ b >= s + LoaderSize)
    BY <2>2, <2>3, <2>4, <2>5, <2>8
  <2>10. StoredAt(i) = b + i BY <2>8 DEF StoredAt
  <2> HIDE DEF m, n, b, s
  <2>11. ~ (s <= b + i /\ b + i < s + LoaderSize) BY <2>9
  <2> QED BY <2>10, <2>11 DEF s
<1> QED BY <1>1, AlwaysTyped, PTL

-----------------------------------------------------------------------------
(***************************************************************************)
(* Success means installed.  The argument counts bytes instead of          *)
(* following them: what has arrived of a message is never longer than what *)
(* was sent, and when it is as long, it is the message (Exact).  A lost    *)
(* byte makes it shorter for good, and then the receiver starves.          *)
(***************************************************************************)
Exact(s, t) == Len(s) <= Len(t) /\ (Len(s) = Len(t) => s = t)

(***************************************************************************)
(* The same for the host's first bytes, t being what follows its opcode: a *)
(* junk byte may stand before them or in place of a lost one, and is told  *)
(* from the opcode's bytes by the opcode.                                  *)
(***************************************************************************)
Opening(s, t) ==
    \/ s = <<Junk>> \o PUT_PROG_INFO \o t
    \/ /\ Len(s) = W + Len(t)
       /\ SubSeq(s, 1, W) = PUT_PROG_INFO => s = PUT_PROG_INFO \o t
    \/ Len(s) < W + Len(t)

\* A line that is too short vouches for anything: it will never be complete.
LEMMA ExactShorter ==
    ASSUME NEW s \in Seq(Byte), NEW t \in Seq(Byte), Len(s) < Len(t)
    PROVE  Exact(s, t)
  BY DEF Exact

\* A line that lost a byte is too short.
LEMMA ExactDrop ==
    ASSUME NEW s \in Seq(Byte), NEW t \in Seq(Byte), Exact(s, t),
           NEW r \in Seq(Byte), Len(r) = Len(s) - 1
    PROVE  Exact(r, t)
<1>1. Len(s) \in Nat /\ Len(t) \in Nat /\ Len(r) \in Nat BY NonEmpty
<1>2. Len(s) <= Len(t) BY DEF Exact
<1>3. Len(r) < Len(t)
  <2> DEFINE a == Len(s)
             b == Len(t)
             c == Len(r)
  <2>1. a \in Nat /\ b \in Nat /\ c \in Nat /\ a <= b /\ c = a - 1 BY <1>1, <1>2
  <2> HIDE DEF a, b, c
  <2>2. c < b BY <2>1
  <2> QED BY <2>2 DEF b, c
<1> QED BY <1>3, ExactShorter

\* The same bytes added to both sides.
LEMMA ExactJoin ==
    ASSUME NEW s \in Seq(Byte), NEW t \in Seq(Byte), Exact(s, t), NEW u \in Seq(Byte)
    PROVE  Exact(s \o u, t \o u)
<1>1. Len(s \o u) = Len(s) + Len(u) /\ Len(t \o u) = Len(t) + Len(u) BY Joined
<1>2. Len(s) \in Nat /\ Len(t) \in Nat /\ Len(u) \in Nat BY NonEmpty
<1> DEFINE a == Len(s)
           b == Len(t)
           c == Len(u)
<1>3. a \in Nat /\ b \in Nat /\ c \in Nat /\ a <= b /\ (a = b => s = t)
  BY <1>2 DEF Exact
<1>4. Len(s \o u) = a + c /\ Len(t \o u) = b + c BY <1>1
<1> HIDE DEF a, b, c
<1>5. a + c <= b + c /\ (a + c = b + c => a = b) BY <1>3
<1> QED BY <1>3, <1>4, <1>5 DEF Exact

\* A common prefix taken from both sides.
LEMMA ExactCancel ==
    ASSUME NEW u \in Seq(Byte), NEW s \in Seq(Byte), NEW t \in Seq(Byte),
           Exact(u \o s, u \o t)
    PROVE  Exact(s, t)
<1>1. Len(u \o s) = Len(u) + Len(s) /\ Len(u \o t) = Len(u) + Len(t) BY Joined
<1>2. Len(s) \in Nat /\ Len(t) \in Nat /\ Len(u) \in Nat BY NonEmpty
<1>3. u \o s = u \o t => s = t OBVIOUS
<1> DEFINE a == Len(s)
           b == Len(t)
           c == Len(u)
<1>4. a \in Nat /\ b \in Nat /\ c \in Nat BY <1>2
<1>5. c + a <= c + b /\ (c + a = c + b => s = t) BY <1>1, <1>3 DEF Exact
<1>6. Len(s) = a /\ Len(t) = b OBVIOUS
<1> HIDE DEF a, b, c
<1>7. a <= b /\ (a = b => s = t) BY <1>4, <1>5
<1> QED BY <1>6, <1>7 DEF Exact

\* A byte moves from a channel into a buffer.
LEMMA Shift ==
    ASSUME NEW q \in Seq(Byte), NEW h \in Seq(Byte), h # <<>>
    PROVE  Append(q, Head(h)) \o Tail(h) = q \o h
  OBVIOUS

\* Concatenation is associative.
LEMMA Assoc ==
    ASSUME NEW q \in Seq(Byte), NEW h \in Seq(Byte), NEW u \in Seq(Byte)
    PROVE  q \o (h \o u) = (q \o h) \o u
  OBVIOUS

\* Three messages in a row, on their own and behind what is on the line.
Three(a, b, c) == (a \o b) \o c

Behind(q, a, b, c) == ((q \o a) \o b) \o c

\* Sending three messages is sending them as one.
LEMMA SentAsOne ==
    ASSUME NEW q \in Seq(Byte), NEW a \in Seq(Byte), NEW b \in Seq(Byte), NEW c \in Seq(Byte)
    PROVE  Behind(q, a, b, c) = q \o Three(a, b, c)
<1> DEFINE d == a \o b
<1>1. d \in Seq(Byte) BY Joined
<1>2. q \o d = (q \o a) \o b BY Assoc, ZenonT(60)
<1> HIDE DEF d
<1>3. q \o (d \o c) = (q \o d) \o c BY <1>1, Assoc, ZenonT(60)
<1> QED BY <1>2, <1>3, ZenonT(60) DEF d, Behind, Three

\* A byte appended to the second part.
LEMMA AppendAtEnd ==
    ASSUME NEW q \in Seq(Byte), NEW h \in Seq(Byte), NEW b \in Byte
    PROVE  q \o Append(h, b) = Append(q \o h, b)
  OBVIOUS

\* One element less: r is s without the element at position k.
Without(r, s, k) ==
    /\ Len(r) = Len(s) - 1
    /\ \A j \in 1 .. Len(s) - 1 : r[j] = IF j < k THEN s[j] ELSE s[j + 1]

\* A full window gives up its first byte.
LEMMA ReadWindow ==
    ASSUME NEW q \in Seq(Byte), Len(q) <= W, NEW h \in Seq(Byte), h # <<>>
    PROVE  LET r == Window(q, Head(h)) \o Tail(h)
           IN  /\ r \in Seq(Byte)
               /\ r = q \o h \/ Without(r, q \o h, 1)
<1>1. Head(h) \in Byte /\ Tail(h) \in Seq(Byte) BY ReadByte
<1>2. Window(q, Head(h)) \in Seq(Byte) BY <1>1, WindowTyped
<1>3. Window(q, Head(h)) \o Tail(h) \in Seq(Byte) BY <1>1, <1>2, Joined
<1>4. CASE Len(q) = W
  <2>0. Len(q) # 0 BY <1>4 DEF W
  <2>1. q # <<>> BY <2>0, NonEmpty
  <2>2. Tail(q) \in Seq(Byte) BY <2>1, ReadByte
  <2>3. Window(q, Head(h)) = Append(Tail(q), Head(h)) BY <1>4 DEF Window
  <2>4. Append(Tail(q), Head(h)) \o Tail(h) = Tail(q) \o h BY <2>2, Shift
  <2>5. Tail(q) \o h = Tail(q \o h) BY <2>1
  <2>6. q \o h \in Seq(Byte) /\ q \o h # <<>> BY <2>1
  <2> DEFINE s == q \o h
             r == Tail(s)
  <2>7. /\ Len(Tail(s)) = Len(s) - 1 /\ Len(s) \in Nat
        /\ \A j \in 1 .. Len(Tail(s)) : Tail(s)[j] = s[j + 1]
    <3> HIDE DEF s
    <3>1. s \in Seq(Byte) /\ s # <<>> BY <2>6 DEF s
    <3> QED BY <3>1, HeadTailProperties, NonEmpty
  <2>8. Without(r, s, 1)
    <3> HIDE DEF s, r
    <3>1. ASSUME NEW j \in 1 .. Len(s) - 1
          PROVE  ~ (j < 1) /\ r[j] = s[j + 1]
      BY <2>7 DEF r
    <3>2. Len(r) = Len(s) - 1 BY <2>7 DEF r
    <3> QED BY <3>1, <3>2 DEF Without
  <2> QED BY <1>3, <2>3, <2>4, <2>5, <2>8
<1>5. CASE Len(q) # W
  <2>1. Window(q, Head(h)) = Append(q, Head(h)) BY <1>5 DEF Window
  <2> QED BY <1>3, <2>1, Shift
<1> QED BY <1>4, <1>5

\* A byte of the channel is lost.
LEMMA RemoveLater ==
    ASSUME NEW q \in Seq(Byte), NEW h \in Seq(Byte), NEW i \in DOMAIN h
    PROVE  /\ q \o RemoveAt(h, i) \in Seq(Byte)
           /\ Len(q) + i \in 1 .. Len(q \o h)
           /\ Without(q \o RemoveAt(h, i), q \o h, Len(q) + i)
<1> DEFINE g == RemoveAt(h, i)
<1>1. /\ g \in Seq(Byte) /\ Len(g) = Len(h) - 1
      /\ \A j \in 1 .. Len(h) - 1 : g[j] = IF j < i THEN h[j] ELSE h[j + 1]
  BY RemoveByte
<1>2. Len(q) \in Nat /\ Len(h) \in Nat /\ i \in 1 .. Len(h) BY LenProperties
<1> HIDE DEF g
<1>3. /\ q \o g \in Seq(Byte) /\ Len(q \o g) = Len(q) + Len(g)
      /\ \A j \in 1 .. Len(q) + Len(g) :
            (q \o g)[j] = IF j <= Len(q) THEN q[j] ELSE g[j - Len(q)]
  BY <1>1, ConcatProperties
<1>4. /\ q \o h \in Seq(Byte) /\ Len(q \o h) = Len(q) + Len(h)
      /\ \A j \in 1 .. Len(q) + Len(h) :
            (q \o h)[j] = IF j <= Len(q) THEN q[j] ELSE h[j - Len(q)]
  BY ConcatProperties
<1> DEFINE s == q \o h
           r == q \o g
           m == Len(q)
           n == Len(h)
<1>5. /\ m \in Nat /\ n \in Nat /\ i \in 1 .. n
      /\ Len(s) = m + n /\ Len(r) = m + n - 1
      /\ \A j \in 1 .. m + n : s[j] = IF j <= m THEN q[j] ELSE h[j - m]
      /\ \A j \in 1 .. m + n - 1 : r[j] = IF j <= m THEN q[j] ELSE g[j - m]
      /\ \A j \in 1 .. n - 1 : g[j] = IF j < i THEN h[j] ELSE h[j + 1]
  <2>1. Len(q) + Len(g) = m + n - 1 BY <1>1, <1>2
  <2> QED BY <1>1, <1>2, <1>3, <1>4, <2>1
<1> HIDE DEF s, r, m, n
<1>6. m + i \in 1 .. Len(s) BY <1>5
<1>7. Len(r) = Len(s) - 1 BY <1>5
<1>8. ASSUME NEW j \in 1 .. Len(s) - 1
      PROVE  r[j] = IF j < m + i THEN s[j] ELSE s[j + 1]
  <2>1. j \in 1 .. m + n - 1 /\ j \in 1 .. m + n /\ j + 1 \in 1 .. m + n BY <1>5
  <2>2. CASE j <= m
    <3>1. j < m + i BY <1>5, <2>1, <2>2
    <3>2. r[j] = q[j] /\ s[j] = q[j] BY <1>5, <2>1, <2>2
    <3> QED BY <3>1, <3>2
  <2>3. CASE ~ (j <= m)
    <3>1. j - m \in 1 .. n - 1 /\ ~ (j + 1 <= m) /\ (j + 1) - m = (j - m) + 1
          /\ (j - m < i <=> j < m + i)
      BY <1>5, <2>1, <2>3
    <3>2. r[j] = g[j - m] /\ s[j] = h[j - m] BY <1>5, <2>1, <2>3
    <3>3. s[j + 1] = h[(j - m) + 1] BY <1>5, <2>1, <3>1
    <3>4. g[j - m] = IF j - m < i THEN h[j - m] ELSE h[(j - m) + 1] BY <1>5, <3>1
    <3> QED BY <3>1, <3>2, <3>3, <3>4
  <2> QED BY <2>2, <2>3
<1>9. Without(r, s, m + i) BY <1>7, <1>8 DEF Without
<1> QED BY <1>3, <1>6, <1>9 DEF g, s, r, m

\* Where the bytes of two joined sequences come from.
LEMMA JoinedAt ==
    ASSUME NEW q \in Seq(Byte), NEW r \in Seq(Byte)
    PROVE  \A j \in 1 .. Len(q) + Len(r) :
              (q \o r)[j] = IF j <= Len(q) THEN q[j] ELSE r[j - Len(q)]
  BY ConcatProperties

\* A glitch byte before PUT_PROG_INFO shifts the word.
LEMMA JunkFirst ==
    LET o == <<Junk>> \o PUT_PROG_INFO
    IN  o \in Seq(Byte) /\ Len(o) = 5 /\ o[3] = 68
<1> DEFINE a == <<Junk>>
           b == PUT_PROG_INFO
<1>1. a \in Seq(Byte) /\ 1 = Len(a) BY PayloadTyped
<1>2. b \in Seq(Byte) /\ 4 = Len(b) /\ b[2] = 68 BY OpcodesTyped DEF W, PUT_PROG_INFO
<1> HIDE DEF a, b
<1>3. /\ a \o b \in Seq(Byte) /\ Len(a \o b) = 1 + 4
      /\ \A j \in 1 .. 1 + 4 : (a \o b)[j] = IF j <= 1 THEN a[j] ELSE b[j - 1]
  <2>1. a \o b \in Seq(Byte) /\ Len(a \o b) = Len(a) + Len(b) BY <1>1, <1>2, Joined
  <2>2. \A j \in 1 .. Len(a) + Len(b) :
           (a \o b)[j] = IF j <= Len(a) THEN a[j] ELSE b[j - Len(a)]
    BY <1>1, <1>2, JoinedAt
  <2> QED BY <1>1, <1>2, <2>1, <2>2
<1>4. (a \o b)[3] = b[3 - 1]
  <2>1. 3 \in 1 .. 1 + 4 /\ ~ (3 <= 1) OBVIOUS
  <2> QED BY <1>3, <2>1
<1>5. 3 - 1 = 2 /\ 1 + 4 = 5 OBVIOUS
<1> QED BY <1>2, <1>3, <1>4, <1>5 DEF a, b

\* The opening survives a loss, ...
LEMMA OpeningDrop ==
    ASSUME NEW s \in Seq(Byte), NEW t \in Seq(Byte), Opening(s, t),
           NEW r \in Seq(Byte), NEW k \in 1 .. Len(s), Without(r, s, k)
    PROVE  Opening(r, t)
<1> DEFINE n == Len(t)
           m == Len(s)
<1>1. n \in Nat /\ m \in Nat /\ Len(r) \in Nat /\ k \in 1 .. m /\ Len(r) = m - 1
  BY NonEmpty DEF Without
<1>2. W = 4 BY DEF W
<1>3. CASE s # <<Junk>> \o PUT_PROG_INFO \o t
  <2>1. m <= W + n
    <3>1. m = W + n \/ m < W + n BY <1>3 DEF Opening
    <3> HIDE DEF m, n
    <3> QED BY <1>1, <1>2, <3>1
  <2> HIDE DEF m, n
  <2>2. Len(r) < W + n BY <1>1, <1>2, <2>1
  <2> QED BY <2>2 DEF Opening, n
<1>4. CASE s = <<Junk>> \o PUT_PROG_INFO \o t
  <2> DEFINE o == <<Junk>> \o PUT_PROG_INFO
  <2>2. o \in Seq(Byte) /\ 5 = Len(o) /\ o[3] = 68 BY JunkFirst
  <2>3. s = o \o t BY <1>4
  <2> HIDE DEF o
  <2>4. n = Len(t) OBVIOUS
  <2>5. /\ m = 5 + n
        /\ \A j \in 1 .. 5 + n : s[j] = IF j <= 5 THEN o[j] ELSE t[j - 5]
    <3>1. Len(o \o t) = Len(o) + Len(t) BY <2>2, Joined
    <3>2. \A j \in 1 .. Len(o) + Len(t) :
             (o \o t)[j] = IF j <= Len(o) THEN o[j] ELSE t[j - Len(o)]
      BY <2>2, JoinedAt
    <3> QED BY <2>2, <2>3, <3>1, <3>2
  <2>6. \A j \in 1 .. m - 1 : r[j] = IF j < k THEN s[j] ELSE s[j + 1] BY DEF Without
  <2>7. n = Len(t) /\ n \in Nat BY <1>1
  <2>8. PUT_PROG_INFO \in Seq(Byte) /\ Len(PUT_PROG_INFO) = 4 /\ PUT_PROG_INFO[3] = 51
    BY OpcodesTyped, <1>2 DEF PUT_PROG_INFO
  <2> HIDE DEF m, n
  <2>9. Len(r) = W + n BY <1>1, <1>2, <2>5
  <2>10. ASSUME SubSeq(r, 1, W) = PUT_PROG_INFO PROVE r = PUT_PROG_INFO \o t
    <3> DEFINE p == PUT_PROG_INFO
    <3>1. ASSUME NEW j \in 1 .. 4 PROVE r[j] = p[j]
      <4>1. \A i \in 1 .. 4 : r[i] \in Byte
        <5>1. ASSUME NEW i \in 1 .. 4 PROVE r[i] \in Byte
          <6>1. i \in 1 .. Len(r) BY <1>2, <2>7, <2>9
          <6> QED BY <6>1, Element
        <5> QED BY <5>1
      <4>2. \A i \in 1 .. 4 - 1 + 1 : SubSeq(r, 1, 4)[i] = r[1 + i - 1]
        BY <4>1, SubSeqProperties
      <4>3. SubSeq(r, 1, 4)[j] = r[j] BY <4>2
      <4> QED BY <1>2, <2>10, <4>3
    <3>2. r[3] = 51 BY <2>8, <3>1
    <3>3. k <= 3
      <4> SUFFICES ASSUME k > 3 PROVE FALSE BY <1>1
      <4>1. 3 \in 1 .. m - 1 /\ 3 < k /\ 3 \in 1 .. 5 + n BY <1>1, <2>5, <2>7
      <4>2. r[3] = s[3] BY <2>6, <4>1
      <4>3. s[3] = o[3] BY <2>5, <4>1
      <4> QED BY <2>2, <3>2, <4>2, <4>3
    <3> HIDE DEF p
    <3>4. p \in Seq(Byte) /\ 4 = Len(p) BY <2>8 DEF p
    <3>5. /\ p \o t \in Seq(Byte) /\ Len(p \o t) = 4 + n
          /\ \A j \in 1 .. 4 + n : (p \o t)[j] = IF j <= 4 THEN p[j] ELSE t[j - 4]
      <4>1. p \o t \in Seq(Byte) /\ Len(p \o t) = Len(p) + Len(t) BY <3>4, Joined
      <4>2. \A j \in 1 .. Len(p) + Len(t) :
               (p \o t)[j] = IF j <= Len(p) THEN p[j] ELSE t[j - Len(p)]
        BY <3>4, JoinedAt
      <4> QED BY <2>7, <3>4, <4>1, <4>2
    <3>6. Len(r) = Len(p \o t) BY <1>2, <2>9, <3>5
    <3>7. ASSUME NEW j \in 1 .. Len(r) PROVE r[j] = (p \o t)[j]
      <4>1. j \in 1 .. 4 + n BY <1>2, <2>7, <2>9
      <4>2. CASE j <= 4
        <5>1. j \in 1 .. 4 BY <4>1, <4>2
        <5>2. (p \o t)[j] = p[j] BY <3>5, <4>1, <4>2
        <5>3. r[j] = p[j] BY <3>1, <5>1
        <5> QED BY <5>2, <5>3
      <4>3. CASE ~ (j <= 4)
        <5>1. j \in 1 .. m - 1 /\ ~ (j < k) /\ j + 1 \in 1 .. 5 + n /\ ~ (j + 1 <= 5)
              /\ (j + 1) - 5 = j - 4
          BY <1>1, <2>5, <2>7, <3>3, <4>1, <4>3
        <5>2. r[j] = s[j + 1] BY <2>6, <5>1
        <5>3. s[j + 1] = t[j - 4] BY <2>5, <5>1
        <5>4. (p \o t)[j] = t[j - 4] BY <3>5, <4>1, <4>3
        <5> QED BY <5>2, <5>3, <5>4
      <4> QED BY <4>2, <4>3
    <3> QED BY <3>5, <3>6, <3>7, SeqEqual DEF p
  <2> QED BY <2>7, <2>9, <2>10 DEF Opening
<1> QED BY <1>3, <1>4

\* The first part of a concatenation.
LEMMA FirstPart ==
    ASSUME NEW q \in Seq(Byte), NEW r \in Seq(Byte)
    PROVE  SubSeq(q \o r, 1, Len(q)) = q
  OBVIOUS

\* Concatenation with nothing.
LEMMA EmptyEnds ==
    ASSUME NEW q \in Seq(Byte)
    PROVE  q \o <<>> = q /\ <<>> \o q = q
  OBVIOUS

\* ... grows with the header, ...
LEMMA OpeningJoin ==
    ASSUME NEW s \in Seq(Byte), Opening(s, <<>>), NEW t \in Seq(Byte)
    PROVE  Opening(s \o t, t)
<1> DEFINE o == <<Junk>> \o PUT_PROG_INFO
           p == PUT_PROG_INFO
<1>1. o \in Seq(Byte) /\ p \in Seq(Byte) BY JunkFirst, OpcodesTyped
<1>2. /\ Len(s \o t) = Len(s) + Len(t) /\ Len(s) \in Nat /\ Len(t) \in Nat
      /\ Len(<<>>) = 0 /\ W = 4
  BY Joined, NonEmpty DEF W
<1>3. \/ s = o \o <<>>
      \/ Len(s) = W + 0 /\ (SubSeq(s, 1, W) = p => s = p \o <<>>)
      \/ Len(s) < W + 0
  BY <1>2 DEF Opening
<1> HIDE DEF o, p
<1>4. CASE s = o \o <<>>
  <2>1. s = o BY <1>1, <1>4, EmptyEnds
  <2> QED BY <2>1 DEF Opening, o
<1>5. CASE Len(s) = W + 0 /\ (SubSeq(s, 1, W) = p => s = p \o <<>>)
  <2>1. Len(s) = W BY <1>5, <1>2
  <2>2. SubSeq(s \o t, 1, W) = s /\ SubSeq(s \o <<>>, 1, W) = s
    <3>1. <<>> \in Seq(Byte) BY OpcodesTyped
    <3> QED BY <2>1, <3>1, FirstPart
  <2>3. SubSeq(s, 1, W) = s BY <2>2, EmptyEnds
  <2>4. SubSeq(s \o t, 1, W) = p => s \o t = p \o t
    BY <1>1, <1>5, <2>2, <2>3, EmptyEnds
  <2>5. Len(s \o t) = W + Len(t) BY <1>2, <2>1
  <2> QED BY <2>4, <2>5 DEF Opening, p
<1>6. CASE Len(s) < W + 0
  <2> DEFINE m == Len(s)
             n == Len(t)
  <2>1. m \in Nat /\ n \in Nat /\ m < W + 0 BY <1>2, <1>6
  <2> HIDE DEF m, n
  <2>2. m + n < W + n BY <1>2, <2>1
  <2>3. Len(s \o t) < W + Len(t) BY <1>2, <2>2 DEF m, n
  <2> QED BY <2>3 DEF Opening
<1> QED BY <1>3, <1>4, <1>5, <1>6

\* The third byte lies in the first part.
LEMMA ThirdByte ==
    ASSUME NEW q \in Seq(Byte), NEW r \in Seq(Byte), Len(q) >= 3
    PROVE  (q \o r)[3] = q[3]
  OBVIOUS

\* ... and leaves what follows the opcode when the opcode is found.
LEMMA OpeningMatch ==
    ASSUME NEW h \in Seq(Byte), NEW t \in Seq(Byte), Opening(PUT_PROG_INFO \o h, t)
    PROVE  Exact(h, t)
<1> DEFINE o == <<Junk>> \o PUT_PROG_INFO
           p == PUT_PROG_INFO
           m == Len(h)
           n == Len(t)
<1>1. o \in Seq(Byte) /\ 5 = Len(o) /\ o[3] = 68 BY JunkFirst
<1>2. p \in Seq(Byte) /\ 4 = Len(p) /\ p[3] = 51 BY OpcodesTyped DEF W, PUT_PROG_INFO
<1>3. \/ p \o h = o \o t
      \/ Len(p \o h) = W + n /\ (SubSeq(p \o h, 1, W) = p => p \o h = p \o t)
      \/ Len(p \o h) < W + n
  BY DEF Opening
<1>4. m \in Nat /\ n \in Nat /\ W = 4 /\ m = Len(h) /\ n = Len(t) BY NonEmpty DEF W
<1> HIDE DEF o, p, m, n
<1>5. Len(p \o h) = Len(p) + Len(h) /\ Len(p \o t) = Len(p) + Len(t)
      /\ Len(p) = 4
  BY <1>2, Joined
<1>6. CASE p \o h = o \o t
  <2>1. Len(p) >= 3 /\ Len(o) >= 3
    <3>1. 4 >= 3 /\ 5 >= 3 OBVIOUS
    <3> QED BY <1>1, <1>2, <3>1, Zenon
  <2>2. (p \o h)[3] = p[3] BY <1>2, <2>1, ThirdByte
  <2>3. (o \o t)[3] = o[3] BY <1>1, <2>1, ThirdByte
  <2> DEFINE x == p \o h
             y == o \o t
  <2>4. x = y /\ x[3] = 51 /\ y[3] = 68 BY <1>1, <1>2, <1>6, <2>2, <2>3
  <2> HIDE DEF x, y
  <2> QED BY <2>4
<1>7. CASE Len(p \o h) = W + n /\ (SubSeq(p \o h, 1, W) = p => p \o h = p \o t)
  <2>1. SubSeq(p \o h, 1, W) = p BY <1>2, <1>4, FirstPart
  <2>2. p \o h = p \o t BY <1>7, <2>1
  <2>3. Exact(p \o h, p \o t)
    <3>1. p \o t \in Seq(Byte) BY <1>2, Joined
    <3>2. Len(p \o h) = Len(p \o t) /\ Len(p \o t) \in Nat BY <2>2, <3>1, NonEmpty
    <3> DEFINE x == Len(p \o t)
    <3>3. x <= x /\ x = Len(p \o t) BY <3>2
    <3> QED BY <2>2, <3>2, <3>3 DEF Exact
  <2> QED BY <1>2, <2>3, ExactCancel
<1>8. CASE Len(p \o h) < W + n
  <2>1. m < n BY <1>4, <1>5, <1>8
  <2> QED BY <1>4, <2>1, ExactShorter
<1> QED BY <1>3, <1>6, <1>7, <1>8

\* The second part of a concatenation.
LEMMA LastPart ==
    ASSUME NEW q \in Seq(Byte), NEW r \in Seq(Byte)
    PROVE  SubSeq(q \o r, Len(q) + 1, Len(q) + Len(r)) = r
  OBVIOUS

\* A slice that ends within the first part.
LEMMA EarlyPart ==
    ASSUME NEW q \in Seq(Byte), NEW r \in Seq(Byte), NEW i \in Nat, i >= 1,
           NEW j \in Nat, j <= Len(q)
    PROVE  SubSeq(q \o r, i, j) = SubSeq(q, i, j)
  OBVIOUS

\* The loader reads the length the installer sent.
LEMMA LengthReadsBack == Number(Word(Len(Code))) = Len(Code)
<1> DEFINE n == Len(Code)
<1>1. n \in Nat BY PayloadTyped
<1> HIDE DEF n
<1>2. (n % 256) + 256 * ((n \div 256) % 256) + 65536 * ((n \div 65536) % 256)
        + 16777216 * (n \div 16777216) = n
  <2> DEFINE a == n \div 256
             b == n \div 65536
             c == n \div 16777216
  <2>1. a \in Nat /\ b \in Nat /\ c \in Nat BY <1>1
  <2>2. n = 256 * a + (n % 256) BY <1>1
  <2>3. a = 256 * b + (a % 256) BY <1>1
  <2>4. b = 256 * c + (b % 256) BY <1>1
  <2> DEFINE x == n % 256
             y == a % 256
             z == b % 256
  <2>5. x \in Nat /\ y \in Nat /\ z \in Nat BY <1>1, <2>1
  <2> SUFFICES x + 256 * y + 65536 * z + 16777216 * c = n OBVIOUS
  <2>6. n = 256 * a + x /\ a = 256 * b + y /\ b = 256 * c + z BY <2>2, <2>3, <2>4
  <2> HIDE DEF a, b, c, x, y, z
  <2> QED BY <1>1, <2>1, <2>5, <2>6
<1> QED BY <1>2, SMT DEF Number, Word, n

\* Base address and length, as the loader finds them in the header.
LEMMA HeaderParts ==
    /\ SubSeq(Header, 1, W) = ARMBASE
    /\ SubSeq(Header, W + 1, 2 * W) = Word(Len(Code))
<1> DEFINE a == ARMBASE
           b == Word(Len(Code))
           c == crc32
<1>1. a \in Seq(Byte) /\ b \in Seq(Byte) /\ c \in Seq(Byte) BY PayloadTyped, LengthTyped
<1>2. Len(a) = 4 /\ Len(b) = 4 BY PayloadTyped, LengthTyped DEF W
<1>3. W = 4 /\ W + 1 = 4 + 1 /\ 2 * W = 4 + 4 BY DEF W
<1>4. Header = (a \o b) \o c BY DEF Header
<1> HIDE DEF a, b, c
<1>5. a \o b \in Seq(Byte) /\ Len(a \o b) = Len(a) + Len(b) BY <1>1, Joined
<1>6. SubSeq(a \o b, 1, 4) = a BY <1>1, <1>2, FirstPart
<1>7. SubSeq(a \o b, 4 + 1, 4 + 4) = b BY <1>1, <1>2, LastPart
<1>8. Len(a \o b) = 8 BY <1>2, <1>5
<1>9. SubSeq((a \o b) \o c, 1, 4) = SubSeq(a \o b, 1, 4)
  <2>1. 4 <= Len(a \o b) BY <1>8
  <2> QED BY <1>1, <1>5, <2>1, EarlyPart
<1>10. SubSeq((a \o b) \o c, 4 + 1, 4 + 4) = SubSeq(a \o b, 4 + 1, 4 + 4)
  <2>1. 4 + 4 <= Len(a \o b) /\ 4 + 1 \in Nat /\ 4 + 4 \in Nat /\ 4 + 1 >= 1 BY <1>8
  <2> QED BY <1>1, <1>5, <2>1, EarlyPart
<1> QED BY <1>3, <1>4, <1>6, <1>7, <1>9, <1>10 DEF a, b

\* The loader that has the host's header installs the host's program.
LEMMA HeaderMeans ==
    ASSUME pi.words = Header
    PROVE  nbytes_of(pi) = Len(Code) /\ base_of(pi) = AsUint32(ARMBASE) /\ base_of(pi) # 0
<1>1. base_of(pi) = AsUint32(ARMBASE) BY HeaderParts DEF base_of
<1>2. nbytes_of(pi) = Len(Code)
  <2> DEFINE n == Len(Code)
  <2>1. nbytes_of(pi) = n % AddressSpan
    BY HeaderParts, LengthReadsBack DEF nbytes_of, AsUint32
  <2>2. n \in Nat /\ n < AddressSpan /\ AddressSpan \in Nat BY SpanTyped, PayloadTyped
  <2> HIDE DEF n
  <2>3. n % AddressSpan = n BY <2>2
  <2> QED BY <2>1, <2>3 DEF n
<1>3. AsUint32(ARMBASE) # 0 BY BootAssumption, SMT DEF AsUint32
<1> QED BY <1>1, <1>2, <1>3

-----------------------------------------------------------------------------
\* The loader has not accepted or refused a header yet.
Announcing == {"announce", "wait_info", "info"}

\* Bytes that the host has still to use, and that the loader may still send once
\* it has stopped announcing itself.
Unread == Len(host.buf) + Len(p2h)

ToCome == IF pi.pc \in Announcing THEN 3 * W
          ELSE IF pi.pc \in {"wait_code", "code"} THEN W ELSE 0

\* The host waits for n more bytes than it will ever get.
Starved(n) == pi.pc # "announce" /\ Unread + ToCome < n

\* The byte counts are natural numbers; the Pi has at most three words to say.
LEMMA Counted ==
    Typed => /\ Len(host.buf) \in Nat /\ Len(p2h) \in Nat /\ Unread \in Nat
             /\ ToCome \in Nat /\ ToCome <= 12
<1> SUFFICES ASSUME Typed
             PROVE  /\ Len(host.buf) \in Nat /\ Len(p2h) \in Nat /\ Unread \in Nat
                    /\ ToCome \in Nat /\ ToCome <= 12
  OBVIOUS
<1>1. Len(host.buf) \in Nat /\ Len(p2h) \in Nat BY NonEmpty DEF Typed, HostRec
<1>2. Unread \in Nat BY <1>1 DEF Unread
<1>3. ToCome \in Nat /\ ToCome <= 12 BY DEF ToCome, W
<1> QED BY <1>1, <1>2, <1>3

\* The same in the next state.
LEMMA CountedNext == Typed' => Unread' \in Nat /\ ToCome' \in Nat
<1> DEFINE C == Unread \in Nat /\ ToCome \in Nat
<1>1. Typed => C BY Counted
<1> HIDE DEF C
<1>2. Typed' => C' BY <1>1, PTL
<1> QED BY <1>2 DEF C

\* What a step of the loader adds to the line was still to come.
LEMMA PiSpends ==
    ASSUME Typed, PiPhase, PiStep, ~ PiAnnounce
    PROVE  /\ pi'.pc # "announce" /\ host' = host
           /\ Unread' + ToCome' <= Unread + ToCome
<1>0. /\ Len(host.buf) \in Nat /\ Len(p2h) \in Nat /\ Unread \in Nat /\ ToCome \in Nat
      /\ W = 4 /\ p2h \in Seq(Byte)
  BY Counted DEF W, Typed
<1> DEFINE b == Len(host.buf)
           n == Len(p2h)
           k == Len(p2h')
<1>00. b \in Nat /\ n \in Nat /\ Unread = b + n BY <1>0 DEF Unread
<1>1. CASE PiSeesData
  <2>1. host' = host /\ p2h' = p2h /\ pi.pc = "announce" /\ pi'.pc = "wait_info"
    BY <1>1, SeesDataEffect
  <2>2. Unread' = Unread /\ ToCome' = ToCome BY <2>1 DEF Unread, ToCome, Announcing
  <2> QED BY <1>0, <2>1, <2>2
<1>2. CASE PiWaitsForInfo
  <2>1. "wait_info" \in PiSteps /\ "info" \in PiSteps BY DEF PiSteps
  <2>2. host' = host /\ p2h' = p2h /\ pi.pc = "wait_info" /\ pi'.pc \in {"wait_info", "info"}
    BY <1>2, <2>1, ScanEffect DEF PiWaitsForInfo
  <2>3. Unread' = Unread /\ ToCome' = ToCome BY <2>2 DEF Unread, ToCome, Announcing
  <2> QED BY <1>0, <2>2, <2>3
<1>3. CASE PiWaitsForCode
  <2>1. "wait_code" \in PiSteps /\ "code" \in PiSteps BY DEF PiSteps
  <2>2. host' = host /\ p2h' = p2h /\ pi.pc = "wait_code" /\ pi'.pc \in {"wait_code", "code"}
    BY <1>3, <2>1, ScanEffect DEF PiWaitsForCode
  <2>3. Unread' = Unread /\ ToCome' = ToCome BY <2>2 DEF Unread, ToCome, Announcing
  <2> QED BY <1>0, <2>2, <2>3
<1>4. CASE PiStores
  <2>1. host' = host /\ p2h' = p2h /\ pi.pc = "code" /\ pi'.pc = "code"
    BY <1>4, StoreEffect
  <2>2. Unread' = Unread /\ ToCome' = ToCome BY <2>1 DEF Unread, ToCome, Announcing
  <2> QED BY <1>0, <2>1, <2>2
<1>5. CASE PiBoots
  <2>1. host' = host /\ pi.pc = "code" /\ pi'.pc \in {"running", "reboot"}
        /\ PiSends(BOOT_SUCCESS)
    BY <1>5, BootEffect
  <2>2. k = n \/ k = n + Len(BOOT_SUCCESS)
    BY <1>0, <2>1, OpcodesTyped, PiSendsTyped
  <2>3. Len(BOOT_SUCCESS) = 4 BY <1>0, OpcodesTyped
  <2>4. Unread' = b + k BY <2>1 DEF Unread
  <2>5. ToCome' = 0 /\ ToCome = 4 BY <2>1 DEF ToCome, Announcing, W
  <2>6. k = n \/ k = n + 4 BY <2>2, <2>3
  <2> HIDE DEF k, n, b
  <2> QED BY <1>00, <2>1, <2>4, <2>5, <2>6
<1>6. CASE PiReadsInfo
  <2> DEFINE crc == SubSeq(Append(pi.words, Head(h2p)), 2 * W + 1, 3 * W)
  <2>1. /\ pi.pc = "info" /\ host' = host
        /\ \/ pi'.pc = "info" /\ p2h' = p2h
           \/ pi'.pc = "bad_addr" /\ PiSends(BAD_CODE_ADDR)
           \/ /\ pi'.pc = "wait_code" /\ PiSends(GET_CODE \o crc)
              /\ crc \in Seq(Byte) /\ Len(crc) = W
    BY <1>6, ReadsInfoCases
  <2> HIDE DEF crc
  <2>2. Unread' = b + k /\ ToCome = 12 BY <2>1 DEF Unread, ToCome, Announcing, W
  <2>3. CASE pi'.pc = "info" /\ p2h' = p2h
    <3>1. Unread' = Unread /\ ToCome' = ToCome BY <2>1, <2>3 DEF Unread, ToCome, Announcing
    <3> QED BY <1>0, <2>1, <2>3, <3>1
  <2>4. CASE pi'.pc = "bad_addr" /\ PiSends(BAD_CODE_ADDR)
    <3>1. k = n \/ k = n + Len(BAD_CODE_ADDR)
      BY <1>0, <2>4, OpcodesTyped, PiSendsTyped
    <3>2. Len(BAD_CODE_ADDR) = 4 BY <1>0, OpcodesTyped
    <3>3. ToCome' = 0 BY <2>4 DEF ToCome, Announcing
    <3>4. k = n \/ k = n + 4 BY <3>1, <3>2
    <3> HIDE DEF k, n, b
    <3> QED BY <1>00, <2>1, <2>2, <2>4, <3>3, <3>4
  <2>5. CASE /\ pi'.pc = "wait_code" /\ PiSends(GET_CODE \o crc)
             /\ crc \in Seq(Byte) /\ Len(crc) = W
    <3>1. GET_CODE \in Seq(Byte) /\ Len(GET_CODE) = W BY OpcodesTyped
    <3>2. GET_CODE \o crc \in Seq(Byte) /\ Len(GET_CODE \o crc) = W + W
      BY <2>5, <3>1, Joined
    <3>3. k = n \/ k = n + Len(GET_CODE \o crc)
      BY <1>0, <2>5, <3>2, PiSendsTyped
    <3>4. ToCome' = 4 BY <2>5 DEF ToCome, Announcing, W
    <3>5. k = n \/ k = n + 8 BY <1>0, <3>2, <3>3
    <3> HIDE DEF k, n, b
    <3> QED BY <1>00, <2>1, <2>2, <2>5, <3>4, <3>5
  <2> QED BY <2>1, <2>3, <2>4, <2>5
<1> QED BY <1>1, <1>2, <1>3, <1>4, <1>5, <1>6 DEF PiStep

(***************************************************************************)
(* What the host can be reading: nothing but announcements before the      *)
(* loader has answered a header, and nothing that begins like GET_CODE     *)
(* when it has refused one.                                                *)
(***************************************************************************)
OnLine ==
    /\ pi.pc \in Announcing => p2h \in Seq({17, 34}) /\ host.buf \in Seq({17, 34})
    /\ pi.pc = "bad_addr" => p2h \in Seq(Byte \ {102}) /\ host.buf \in Seq(Byte \ {102})

\* The channel to the host and the word it is building over any set of bytes.
LEMMA OnLineSends ==
    ASSUME NEW S, NEW bytes \in Seq(S), p2h \in Seq(S), PiSends(bytes)
    PROVE  p2h' \in Seq(S)
<1>1. p2h \o bytes \in Seq(S) BY Joined
<1> QED BY <1>1 DEF PiSends

\* A read keeps the values on the line among those that were there.
LEMMA OnLineReads ==
    ASSUME NEW S, p2h \in Seq(S), host.buf \in Seq(S), p2h # <<>>, HostReads
    PROVE  p2h' \in Seq(S) /\ Got(Head(p2h)) \in Seq(S) /\ <<>> \in Seq(S)
<1>1. p2h' = Tail(p2h) BY DEF HostReads
<1>2. Head(p2h) \in S /\ Tail(p2h) \in Seq(S) BY ReadByte
<1>3. Append(host.buf, Head(p2h)) \in Seq(S) BY <1>2, Appended
<1> QED BY <1>1, <1>2, <1>3 DEF Got

\* Each step of the Pi puts only its own words on the line.
LEMMA OnLinePi ==
    ASSUME Typed, PiPhase, OnLine, PiStep
    PROVE  OnLine'
<1>1. CASE PiAnnounce
  <2>1. pi' = pi /\ host' = host /\ pi.pc = "announce" /\ PiSends(GET_PROG_INFO)
    BY <1>1 DEF PiAnnounce
  <2>2. GET_PROG_INFO \in Seq({17, 34}) BY DEF GET_PROG_INFO
  <2>3. p2h \in Seq({17, 34}) /\ host.buf \in Seq({17, 34})
    BY <2>1 DEF OnLine, Announcing
  <2>4. p2h' \in Seq({17, 34}) BY <2>1, <2>2, <2>3, OnLineSends
  <2> QED BY <2>1, <2>3, <2>4 DEF OnLine
<1>2. CASE PiSeesData
  <2>1. host' = host /\ p2h' = p2h /\ pi.pc = "announce" /\ pi'.pc = "wait_info"
    BY <1>2, SeesDataEffect
  <2> QED BY <2>1 DEF OnLine, Announcing
<1>3. CASE PiWaitsForInfo
  <2>1. "wait_info" \in PiSteps /\ "info" \in PiSteps BY DEF PiSteps
  <2>2. host' = host /\ p2h' = p2h /\ pi.pc = "wait_info" /\ pi'.pc \in {"wait_info", "info"}
    BY <1>3, <2>1, ScanEffect DEF PiWaitsForInfo
  <2> QED BY <2>2 DEF OnLine, Announcing
<1>4. CASE PiReadsInfo
  <2>1. /\ pi.pc = "info" /\ host' = host
        /\ \/ pi'.pc = "info" /\ p2h' = p2h
           \/ pi'.pc = "bad_addr" /\ PiSends(BAD_CODE_ADDR)
           \/ pi'.pc = "wait_code"
    BY <1>4, ReadsInfoCases
  <2>2. p2h \in Seq({17, 34}) /\ host.buf \in Seq({17, 34})
    BY <2>1 DEF OnLine, Announcing
  <2>3. p2h \in Seq(Byte \ {102}) /\ host.buf \in Seq(Byte \ {102})
    <3>1. {17, 34} \subseteq Byte \ {102} BY DEF Byte
    <3> QED BY <2>2, <3>1, SeqMonotonic
  <2>4. BAD_CODE_ADDR \in Seq(Byte \ {102}) BY DEF BAD_CODE_ADDR, Byte
  <2>5. PiSends(BAD_CODE_ADDR) => p2h' \in Seq(Byte \ {102}) BY <2>3, <2>4, OnLineSends
  <2> QED BY <2>1, <2>2, <2>3, <2>5 DEF OnLine, Announcing
<1>5. CASE PiWaitsForCode
  <2>1. "wait_code" \in PiSteps /\ "code" \in PiSteps BY DEF PiSteps
  <2>2. pi'.pc \in {"wait_code", "code"}
    BY <1>5, <2>1, ScanEffect DEF PiWaitsForCode
  <2> QED BY <2>2 DEF OnLine, Announcing
<1>6. CASE PiStores
  <2>1. pi'.pc = "code" BY <1>6, StoreEffect
  <2> QED BY <2>1 DEF OnLine, Announcing
<1>7. CASE PiBoots
  <2>1. pi'.pc \in {"running", "reboot"} BY <1>7, BootEffect
  <2> QED BY <2>1 DEF OnLine, Announcing
<1> QED BY <1>1, <1>2, <1>3, <1>4, <1>5, <1>6, <1>7 DEF PiStep

\* The host only removes bytes from the loader's line; what a running program
\* prints comes after them.
LEMMA OnLineHost ==
    ASSUME Typed, OnLine, HostStep
    PROVE  OnLine'
<1>1. pi' = pi BY HostStepTyped
<1>2. CASE pi.pc = "running" BY <1>1, <1>2 DEF OnLine, Announcing
<1>3. CASE pi.pc # "running"
  <2>0. ASSUME NEW pc, GoOn(pc) PROVE host'.buf = <<>>
    <3>1. host' = [[host EXCEPT !.pc = pc] EXCEPT !.buf = <<>>] BY <2>0 DEF GoOn
    <3> QED BY <3>1 DEF Typed, HostRec
  <2>1. CASE \E b \in Incoming : HostGetsByte(b)
    <3>1. PICK b \in Incoming : HostGetsByte(b) BY <2>1
    <3>2. p2h # <<>> /\ b = Head(p2h) /\ b \in Byte BY <1>3, IncomingTyped
    <3>3. HostReads /\ host'.buf \in {Got(b), <<>>}
      <4>1. CASE HostCollects(b) BY <3>2, <4>1, CollectTyped DEF HostCollects
      <4>2. CASE HostSyncs(b) BY <2>0, <4>2 DEF HostSyncs
      <4>3. CASE HostSkips(b) BY <2>0, <4>3 DEF HostSkips
      <4>4. CASE HostDrains(b) BY <2>0, <4>4 DEF HostDrains
      <4>5. CASE HostChecksCrc(b) BY <2>0, <4>5 DEF HostChecksCrc
      <4>6. CASE HostGetsResult(b) BY <2>0, <4>6 DEF HostGetsResult
      <4> QED BY <3>1, <4>1, <4>2, <4>3, <4>4, <4>5, <4>6 DEF HostGetsByte
    <3>4. ASSUME NEW S, p2h \in Seq(S), host.buf \in Seq(S)
          PROVE  p2h' \in Seq(S) /\ host'.buf \in Seq(S)
      BY <3>2, <3>3, <3>4, OnLineReads
    <3> QED BY <1>1, <3>4 DEF OnLine
  <2>2. CASE HostSendsInfo \/ HostSendsByte \/ HostAllSent \/ HostTimesOut
    <3>1. p2h' = p2h /\ host'.buf \in {host.buf, <<>>}
      <4>1. CASE HostSendsInfo BY <2>0, <4>1 DEF HostSendsInfo
      <4>2. CASE HostSendsByte
        <5>1. host' = [host EXCEPT !.sent = host.sent + 1] /\ p2h' = p2h
          BY <4>2 DEF HostSendsByte
        <5>2. host'.buf = host.buf BY <5>1 DEF Typed, HostRec
        <5> QED BY <5>1, <5>2
      <4>3. CASE HostAllSent BY <2>0, <4>3 DEF HostAllSent
      <4>4. CASE HostTimesOut BY <2>0, <4>4 DEF HostTimesOut
      <4> QED BY <2>2, <4>1, <4>2, <4>3, <4>4
    <3>2. ASSUME NEW S, p2h \in Seq(S), host.buf \in Seq(S)
          PROVE  p2h' \in Seq(S) /\ host'.buf \in Seq(S)
      <4>1. <<>> \in Seq(S) OBVIOUS
      <4> QED BY <3>1, <3>2, <4>1
    <3> QED BY <1>1, <3>2 DEF OnLine
  <2> QED BY <2>1, <2>2 DEF HostStep
<1> QED BY <1>2, <1>3

\* Every step keeps the vocabulary of the Pi's line.
LEMMA OnLineStep ==
    ASSUME Typed, PiPhase, OnLine, [Next]_vars
    PROVE  OnLine'
<1>1. CASE PiStep BY <1>1, OnLinePi
<1>2. CASE HostStep BY <1>2, OnLineHost
<1>3. ASSUME NEW glitch \in Glitches, HostStarts(glitch) PROVE OnLine'
  <2>1. pi' = pi /\ host'.buf = <<>> /\ p2h' \in Seq({17, 34}) BY <1>3, StartTyped
  <2>2. {17, 34} \subseteq Byte \ {102} BY DEF Byte
  <2>3. p2h' \in Seq(Byte \ {102}) BY <2>1, <2>2, SeqMonotonic
  <2>4. <<>> \in Seq({17, 34}) /\ <<>> \in Seq(Byte \ {102}) OBVIOUS
  <2> QED BY <2>1, <2>3, <2>4 DEF OnLine
<1>4. CASE HostKilled
  <2>1. GoOn("killed") /\ p2h' = <<>> /\ pi' = pi BY <1>4 DEF HostKilled
  <2>2. "killed" \in HostSteps BY DEF HostSteps
  <2>3. host'.buf = <<>> BY <2>1, <2>2, GoOnTyped DEF Typed
  <2>4. <<>> \in Seq({17, 34}) /\ <<>> \in Seq(Byte \ {102}) OBVIOUS
  <2> QED BY <2>1, <2>3, <2>4 DEF OnLine
<1>5. CASE LoseBytes
  <2>1. host' = host /\ pi' = pi BY <1>5 DEF LoseBytes
  <2>2. p2h' = p2h \/ \E i \in DOMAIN p2h : p2h' = RemoveAt(p2h, i) BY <1>5 DEF LoseBytes
  <2>3. ASSUME NEW S, p2h \in Seq(S) PROVE p2h' \in Seq(S)
    BY <2>2, <2>3, RemoveByte
  <2> QED BY <2>1, <2>3 DEF OnLine
<1>6. CASE UNCHANGED vars BY <1>6 DEF vars, OnLine
<1> QED BY <1>1, <1>2, <1>3, <1>4, <1>5, <1>6 DEF Next

-----------------------------------------------------------------------------
\* What the host has sent after its opcode, and of the program.
Asked == IF host.pc = "drain" THEN Header ELSE <<>>

Sent == SubSeq(Code, 1, host.sent)

\* The loader has the host's header and waits for PUT_CODE.
Waits == /\ pi.pc = "wait_code" /\ pi.words = Header
         /\ pi.window = <<>> /\ h2p = <<>>

Coming == host.buf \o p2h

\* Looking for an announcement: too little is coming for a stale one and an answer.
SyncOK ==
    \/ pi.pc = "announce" /\ h2p = <<>>
    \/ Unread + ToCome < 4 * W

\* The header is on its way or has been answered, and the answer comes last.
InfoOK ==
    \/ pi.pc \in {"announce", "wait_info"} /\ Opening(pi.window \o h2p, Asked)
    \/ pi.pc = "info" /\ Exact(pi.words \o h2p, Asked)
    \/ pi.pc = "bad_addr"
    \/ /\ host.pc = "drain" /\ Waits
       /\ \A i \in 1 .. Unread - 2 * W : Coming[i] \in {17, 34}
    \/ Starved(3 * W)

CrcOK ==
    \/ Waits /\ Unread <= W
    \/ Starved(2 * W)

\* The program is on its way or has been started.
CodeOK ==
    \/ /\ pi.words = Header /\ pi.pc = "wait_code" /\ Unread = 0
       /\ Exact(pi.window \o h2p, PUT_CODE \o Sent)
    \/ /\ pi.words = Header /\ pi.pc = "code" /\ Unread = 0
       /\ Exact(pi.mem \o h2p, Sent)
    \/ pi.words = Header /\ pi.pc = "running" /\ pi.mem = Code
    \/ Starved(W)

Installed == pi.words = Header /\ pi.pc = "running" /\ pi.mem = Code

(***************************************************************************)
(* How far the two sides are with each other, by the step of the host.     *)
(***************************************************************************)
Session ==
    /\ host.pc \in {"sync", "skip"} => SyncOK
    /\ host.pc \in {"info", "drain"} => InfoOK
    /\ host.pc = "crc" => CrcOK
    /\ host.pc \in {"code", "result"} => CodeOK
    /\ host.pc = "success" => Installed
    /\ host.pc \in {"sync", "skip", "info", "drain", "crc"} => host.sent = 0

\* A session short of bytes stays short: the Pi says no more than it has left.
LEMMA StarvedStays ==
    ASSUME Typed, Typed', PiPhase, PiStep, NEW n \in Nat, Starved(n)
    PROVE  Starved(n)'
<1>1. pi.pc # "announce" /\ Unread + ToCome < n BY DEF Starved
<1>2. ~ PiAnnounce BY <1>1 DEF PiAnnounce
<1>3. pi'.pc # "announce" /\ Unread' + ToCome' <= Unread + ToCome BY <1>2, PiSpends
<1>4. Unread \in Nat /\ ToCome \in Nat /\ Unread' \in Nat /\ ToCome' \in Nat
  BY Counted, CountedNext
<1>5. Unread' + ToCome' < n
  <2> DEFINE a == Unread
             b == ToCome
             c == Unread'
             d == ToCome'
  <2>1. a \in Nat /\ b \in Nat /\ c \in Nat /\ d \in Nat /\ c + d <= a + b /\ a + b < n
    BY <1>1, <1>3, <1>4
  <2> HIDE DEF a, b, c, d
  <2>2. c + d < n BY <2>1
  <2> QED BY <2>2 DEF c, d
<1> QED BY <1>3, <1>5 DEF Starved

\* Past the announcements the Pi moves only on data, or with its code complete.
LEMMA PiMoves ==
    ASSUME PiStep, ~ PiAnnounce
    PROVE  \/ pi.pc = "code"
           \/ h2p # <<>> /\ pi.pc \in {"announce", "wait_info", "info", "wait_code"}
  BY DEF PiStep, PiSeesData, PiWaitsForInfo, PiWaitsForCode, PiScans, PiReadsInfo, PiStores,
         PiBoots, PiReads

\* Before the sync word is found: steps of the Pi.
LEMMA SyncPi ==
    ASSUME Typed, Typed', PiPhase, SyncOK, PiStep
    PROVE  SyncOK'
<1>1. CASE PiAnnounce
  <2>1. pi' = pi /\ h2p = <<>> /\ h2p' = h2p /\ pi.pc = "announce" BY <1>1 DEF PiAnnounce
  <2> QED BY <2>1 DEF SyncOK
<1>2. CASE ~ PiAnnounce
  <2>1. ~ (pi.pc = "announce" /\ h2p = <<>>) BY <1>2, PiMoves
  <2>2. Unread + ToCome < 4 * W BY <2>1 DEF SyncOK
  <2>3. Unread' + ToCome' <= Unread + ToCome BY <1>2, PiSpends
  <2>4. Unread \in Nat /\ ToCome \in Nat /\ Unread' \in Nat /\ ToCome' \in Nat
  BY Counted, CountedNext
  <2>5. Unread' + ToCome' < 4 * W
    <3> DEFINE a == Unread
               b == ToCome
               c == Unread'
               d == ToCome'
    <3>1. /\ a \in Nat /\ b \in Nat /\ c \in Nat /\ d \in Nat
          /\ c + d <= a + b /\ a + b < 4 * W
      BY <2>2, <2>3, <2>4
    <3> HIDE DEF a, b, c, d
    <3>2. c + d < 4 * W BY <3>1 DEF W
    <3> QED BY <3>2 DEF c, d
  <2> QED BY <2>5 DEF SyncOK
<1> QED BY <1>1, <1>2

\* What the host has sent beyond the opening word is the header or nothing.
LEMMA AskedTyped ==
    Asked \in Seq(Byte) /\ (Len(Asked) = 0 \/ (host.pc = "drain" /\ Asked = Header))
<1>1. Header \in Seq(Byte) /\ <<>> \in Seq(Byte) BY HeaderTyped, OpcodesTyped
<1> QED BY <1>1 DEF Asked

\* The code bytes sent so far.
LEMMA SentTyped ==
    ASSUME host \in HostRec
    PROVE  Sent \in Seq(Byte) /\ Len(Sent) = host.sent
<1> DEFINE n == host.sent
<1>1. n \in Nat /\ n <= Len(Code) /\ Len(Code) \in Nat BY PayloadTyped DEF HostRec
<1>2. Code \in Seq(Byte) BY PayloadTyped
<1> HIDE DEF n
<1>3. \A i \in 1 .. n : Code[i] \in Byte
  <2>1. ASSUME NEW i \in 1 .. n PROVE Code[i] \in Byte
    <3>1. i \in 1 .. Len(Code) BY <1>1
    <3> QED BY <1>2, <3>1, Element
  <2> QED BY <2>1
<1>4. /\ SubSeq(Code, 1, n) \in Seq(Byte)
      /\ Len(SubSeq(Code, 1, n)) = IF 1 <= n THEN n - 1 + 1 ELSE 0
  BY <1>1, <1>2, <1>3, SubSeqProperties
<1>5. Len(SubSeq(Code, 1, n)) = n BY <1>1, <1>4
<1> QED BY <1>4, <1>5 DEF Sent, n

\* The header's last byte: the host has sent exactly what the loader has read.
LEMMA HeaderComplete ==
    ASSUME NEW words \in Seq(Byte), Len(words) = 3 * W, NEW h \in Seq(Byte),
           Exact(words \o h, Asked)
    PROVE  host.pc = "drain" /\ words = Header /\ h = <<>>
<1> DEFINE n == Len(h)
           a == Len(Asked)
<1>1. n \in Nat /\ Len(words \o h) = 3 * W + n /\ Asked \in Seq(Byte)
  BY NonEmpty, Joined, AskedTyped
<1>2. 3 * W + n <= a /\ (3 * W + n = a => words \o h = Asked) BY <1>1 DEF Exact
<1>3. a = 0 \/ (a = 12 /\ host.pc = "drain" /\ Asked = Header)
  BY AskedTyped, HeaderTyped DEF W
<1>4. 3 * W = 12 BY DEF W
<1>5. h # <<>> <=> n # 0 BY NonEmpty
<1> HIDE DEF n, a
<1>6. n = 0 /\ host.pc = "drain" /\ Asked = Header /\ words \o h = Asked
  BY <1>1, <1>2, <1>3, <1>4
<1>7. h = <<>> BY <1>5, <1>6
<1>8. words \o h = words BY <1>7, EmptyEnds
<1> QED BY <1>6, <1>7, <1>8

\* The bytes before the loader's answer are those that were there before.
LEMMA AnswerLast ==
    ASSUME NEW q \in Seq({17, 34}), NEW p \in Seq({17, 34}), NEW u \in Seq(Byte)
    PROVE  \A i \in 1 .. Len(q) + Len(p) : (q \o (p \o u))[i] \in {17, 34}
<1>1. q \o p \in Seq({17, 34}) /\ Len(q \o p) = Len(q) + Len(p) BY Joined
<1>2. {17, 34} \subseteq Byte BY DEF Byte
<1>3. q \in Seq(Byte) /\ p \in Seq(Byte) /\ q \o p \in Seq(Byte)
  BY <1>1, <1>2, SeqMonotonic
<1>4. q \o (p \o u) = (q \o p) \o u BY <1>3, Assoc, SMTT(30)
<1> DEFINE s == q \o p
<1>5. \A i \in 1 .. Len(s) + Len(u) : (s \o u)[i] = IF i <= Len(s) THEN s[i] ELSE u[i - Len(s)]
  BY <1>3, JoinedAt
<1>6. Len(s) \in Nat /\ Len(u) \in Nat BY <1>3, NonEmpty
<1>7. s \in Seq({17, 34}) BY <1>1
<1>8. Len(q) + Len(p) = Len(s) BY <1>1
<1> HIDE DEF s
<1>9. ASSUME NEW i \in 1 .. Len(s) PROVE (s \o u)[i] \in {17, 34}
  <2>1. i \in 1 .. Len(s) + Len(u) /\ i <= Len(s) BY <1>6
  <2>2. s[i] \in {17, 34} BY <1>7, Element
  <2> QED BY <1>5, <2>1, <2>2
<1> QED BY <1>4, <1>8, <1>9 DEF s

\* While the header is exchanged: steps of the Pi.
LEMMA InfoPi ==
    ASSUME Typed, Typed', PiPhase, OnLine, host.pc \in {"info", "drain"}, InfoOK, PiStep
    PROVE  InfoOK'
<1>1. host' = host
  <2>1. CASE PiAnnounce BY <2>1 DEF PiAnnounce
  <2>2. CASE ~ PiAnnounce BY <2>2, PiSpends
  <2> QED BY <2>1, <2>2
<1>2. Asked' = Asked /\ Asked \in Seq(Byte) BY <1>1, AskedTyped DEF Asked
<1>3. /\ pi.window \in Seq(Byte) /\ Len(pi.window) <= W /\ pi.words \in Seq(Byte)
      /\ h2p \in Seq(Byte) /\ h2p' \in Seq(Byte)
  BY DEF Typed, PiRec
<1>4. CASE Starved(3 * W)
  <2>1. 3 * W \in Nat BY DEF W
  <2>2. Starved(3 * W)' BY <1>4, <2>1, StarvedStays
  <2> QED BY <2>2 DEF InfoOK
<1>5. CASE pi.pc \in {"announce", "wait_info"} /\ Opening(pi.window \o h2p, Asked)
  <2>1. CASE PiAnnounce
    <3>1. pi' = pi /\ h2p' = h2p BY <2>1 DEF PiAnnounce
    <3> QED BY <1>2, <1>5, <3>1 DEF InfoOK
  <2>2. CASE PiSeesData
    <3>1. pi'.pc = "wait_info" /\ pi'.window = pi.window /\ h2p' = h2p
      BY <2>2, SeesDataEffect
    <3> QED BY <1>2, <1>5, <3>1 DEF InfoOK
  <2>3. CASE PiWaitsForInfo
    <3> DEFINE w == Window(pi.window, Head(h2p))
    <3>1. "wait_info" \in PiSteps /\ "info" \in PiSteps BY DEF PiSteps
    <3>2. /\ pi.pc = "wait_info" /\ h2p # <<>> /\ h2p' = Tail(h2p)
          /\ w \in Seq(Byte) /\ pi'.words = pi.words
          /\ \/ w = PUT_PROG_INFO /\ pi'.pc = "info" /\ pi'.window = <<>>
             \/ w # PUT_PROG_INFO /\ pi'.pc = "wait_info" /\ pi'.window = w
      BY <2>3, <3>1, ScanEffect DEF PiWaitsForInfo
    <3> DEFINE r == w \o Tail(h2p)
               s == pi.window \o h2p
    <3>3. r \in Seq(Byte) /\ (r = s \/ Without(r, s, 1)) BY <1>3, <3>2, ReadWindow
    <3>4. s \in Seq(Byte) /\ Len(s) = Len(pi.window) + Len(h2p) BY <1>3, Joined
    <3>5. 1 \in 1 .. Len(s)
      <4>1. Len(pi.window) \in Nat /\ Len(h2p) \in Nat /\ Len(h2p) >= 1
        BY <1>3, <3>2, NonEmpty, ReadByte
      <4> DEFINE a == Len(pi.window)
                 b == Len(h2p)
      <4>2. a \in Nat /\ b \in Nat /\ b >= 1 /\ Len(s) = a + b BY <3>4, <4>1
      <4> HIDE DEF a, b, s
      <4> QED BY <4>2
    <3>6. Opening(s, Asked) BY <1>5
    <3>7. Opening(r, Asked)
      <4> HIDE DEF r, s
      <4> QED BY <1>2, <3>3, <3>4, <3>5, <3>6, OpeningDrop
    <3> HIDE DEF w
    <3>8. CASE w # PUT_PROG_INFO /\ pi'.pc = "wait_info" /\ pi'.window = w
      <4>1. pi'.window \o h2p' = r BY <3>2, <3>8
      <4> QED BY <1>2, <3>7, <3>8, <4>1 DEF InfoOK
    <3>9. CASE w = PUT_PROG_INFO /\ pi'.pc = "info" /\ pi'.window = <<>>
      <4>1. Opening(PUT_PROG_INFO \o h2p', Asked) BY <3>2, <3>7, <3>9
      <4>2. Exact(h2p', Asked) BY <1>2, <1>3, <4>1, OpeningMatch
      <4>3. pi'.words = <<>> BY <3>2 DEF PiPhase
      <4>4. pi'.words \o h2p' = h2p' BY <1>3, <4>3, EmptyEnds
      <4> QED BY <1>2, <3>9, <4>2, <4>4 DEF InfoOK
    <3> QED BY <3>2, <3>8, <3>9
  <2> QED BY <1>5, <2>1, <2>2, <2>3
       DEF PiStep, PiReadsInfo, PiWaitsForCode, PiScans, PiStores, PiBoots
<1>6. CASE pi.pc = "info" /\ Exact(pi.words \o h2p, Asked)
  <2>1. PiReadsInfo
    BY <1>6 DEF PiStep, PiAnnounce, PiSeesData, PiWaitsForInfo, PiWaitsForCode, PiScans,
                PiStores, PiBoots
  <2> DEFINE words == Append(pi.words, Head(h2p))
             crc == SubSeq(words, 2 * W + 1, 3 * W)
  <2>2. /\ h2p # <<>> /\ h2p' = Tail(h2p) /\ words \in Seq(Byte)
        /\ pi'.words = words /\ pi'.window = pi.window
        /\ \/ pi'.pc = "info"
           \/ pi'.pc = "bad_addr"
           \/ /\ pi'.pc = "wait_code" /\ Len(words) = 3 * W
              /\ PiSends(GET_CODE \o crc) /\ crc \in Seq(Byte) /\ Len(crc) = W
    BY <2>1, ReadsInfoCases
  <2>3. words \o h2p' = pi.words \o h2p BY <1>3, <2>2, Shift
  <2>4. Exact(words \o h2p', Asked) BY <1>6, <2>3
  <2> HIDE DEF words, crc
  <2>5. CASE pi'.pc = "info" BY <1>2, <2>2, <2>4, <2>5 DEF InfoOK
  <2>6. CASE pi'.pc = "bad_addr" BY <2>6 DEF InfoOK
  <2>7. CASE /\ pi'.pc = "wait_code" /\ Len(words) = 3 * W
             /\ PiSends(GET_CODE \o crc) /\ crc \in Seq(Byte) /\ Len(crc) = W
    <3>1. host.pc = "drain" /\ words = Header /\ h2p' = <<>>
      BY <1>3, <2>2, <2>4, <2>7, HeaderComplete
    <3>2. pi'.window = <<>> BY <1>6, <2>2 DEF PiPhase
    <3>3. Waits' BY <2>2, <2>7, <3>1, <3>2 DEF Waits
    <3>4. Listening BY DEF Listening
    <3> DEFINE u == GET_CODE \o crc
    <3>5. p2h' = p2h \o u BY <2>7, <3>4 DEF PiSends
    <3>6. u \in Seq(Byte) /\ Len(u) = W + W
      <4>1. GET_CODE \in Seq(Byte) /\ Len(GET_CODE) = W BY OpcodesTyped
      <4> QED BY <2>7, <4>1, Joined
    <3> HIDE DEF u
    <3>7. p2h \in Seq({17, 34}) /\ host.buf \in Seq({17, 34})
      BY <1>6 DEF OnLine, Announcing
    <3>8. \A i \in 1 .. Len(host.buf) + Len(p2h) : Coming'[i] \in {17, 34}
      <4>1. Coming' = host.buf \o (p2h \o u) BY <1>1, <3>5 DEF Coming
      <4> QED BY <3>6, <3>7, <4>1, AnswerLast
    <3>9. Unread' - 2 * W = Len(host.buf) + Len(p2h)
      <4>1. p2h \in Seq(Byte) BY DEF Typed
      <4>2. Len(p2h \o u) = Len(p2h) + Len(u) BY <3>6, <4>1, Joined
      <4>3. Unread' = Len(host.buf) + (Len(p2h) + (W + W))
        BY <1>1, <3>5, <3>6, <4>2 DEF Unread
      <4>4. Len(host.buf) \in Nat /\ Len(p2h) \in Nat BY Counted
      <4> DEFINE a == Len(host.buf)
                 b == Len(p2h)
      <4>5. a \in Nat /\ b \in Nat /\ Unread' = a + (b + (W + W)) BY <4>3, <4>4
      <4> HIDE DEF a, b
      <4>6. Unread' - 2 * W = a + b BY <4>5 DEF W
      <4> QED BY <4>6 DEF a, b
    <3>10. host'.pc = "drain" BY <1>1, <3>1
    <3> QED BY <3>3, <3>8, <3>9, <3>10 DEF InfoOK
  <2> QED BY <2>2, <2>5, <2>6, <2>7
<1>7. CASE pi.pc = "bad_addr" \/ Waits
  <2>1. ~ PiAnnounce BY <1>7 DEF PiAnnounce, Waits
  <2> QED BY <1>7, <2>1, PiMoves DEF Waits
<1> QED BY <1>4, <1>5, <1>6, <1>7 DEF InfoOK

\* While the host waits for the CRC: steps of the Pi.
LEMMA CrcPi ==
    ASSUME Typed, Typed', PiPhase, CrcOK, PiStep
    PROVE  CrcOK'
<1>1. CASE Starved(2 * W)
  <2>1. 2 * W \in Nat BY DEF W
  <2>2. Starved(2 * W)' BY <1>1, <2>1, StarvedStays
  <2> QED BY <2>2 DEF CrcOK
<1>2. CASE Waits
  <2>1. ~ PiAnnounce BY <1>2 DEF PiAnnounce, Waits
  <2> QED BY <1>2, <2>1, PiMoves DEF Waits
<1> QED BY <1>1, <1>2 DEF CrcOK

\* All bytes of the program are there, and nothing else.
LEMMA ProgramComplete ==
    ASSUME host \in HostRec, NEW m \in Seq(Byte), Len(m) = Len(Code), NEW h \in Seq(Byte),
           Exact(m \o h, Sent)
    PROVE  m = Code
<1> DEFINE c == Len(Code)
           k == host.sent
           n == Len(h)
<1>1. Sent \in Seq(Byte) /\ Len(Sent) = k BY SentTyped
<1>2. k \in 0 .. c /\ c \in Nat /\ n \in Nat BY PayloadTyped, NonEmpty DEF HostRec
<1>3. Len(m \o h) = c + n BY Joined
<1>4. c + n <= k /\ (c + n = k => m \o h = Sent) BY <1>1, <1>3 DEF Exact
<1>5. h # <<>> <=> n # 0 BY NonEmpty
<1>6. Sent = SubSeq(Code, 1, k) BY DEF Sent
<1>7. SubSeq(Code, 1, c) = Code BY PayloadTyped
<1> HIDE DEF c, k, n
<1>8. n = 0 /\ k = c /\ c + n = k BY <1>2, <1>4
<1>9. h = <<>> BY <1>5, <1>8
<1>10. m \o h = m BY <1>9, EmptyEnds
<1> QED BY <1>4, <1>6, <1>7, <1>8, <1>10

\* While the code is sent: steps of the Pi.
LEMMA CodePi ==
    ASSUME Typed, Typed', PiPhase, CodeOK, PiStep
    PROVE  CodeOK'
<1>1. CASE Starved(W)
  <2>1. W \in Nat BY DEF W
  <2>2. Starved(W)' BY <1>1, <2>1, StarvedStays
  <2> QED BY <2>2 DEF CodeOK
<1>2. /\ pi.window \in Seq(Byte) /\ Len(pi.window) <= W /\ pi.mem \in Seq(Byte)
      /\ h2p \in Seq(Byte) /\ h2p' \in Seq(Byte)
  BY DEF Typed, PiRec
<1>3. Sent \in Seq(Byte) /\ PUT_CODE \in Seq(Byte) /\ PUT_CODE \o Sent \in Seq(Byte)
  <2>1. Sent \in Seq(Byte) /\ PUT_CODE \in Seq(Byte) BY SentTyped, OpcodesTyped DEF Typed
  <2> QED BY <2>1, Joined
<1>4. CASE /\ pi.words = Header /\ pi.pc = "wait_code" /\ Unread = 0
           /\ Exact(pi.window \o h2p, PUT_CODE \o Sent)
  <2>1. PiWaitsForCode
    BY <1>4 DEF PiStep, PiAnnounce, PiSeesData, PiWaitsForInfo, PiReadsInfo, PiScans,
                PiStores, PiBoots
  <2> DEFINE w == Window(pi.window, Head(h2p))
             r == w \o Tail(h2p)
             s == pi.window \o h2p
  <2>2. "wait_code" \in PiSteps /\ "code" \in PiSteps BY DEF PiSteps
  <2>3. /\ h2p # <<>> /\ h2p' = Tail(h2p) /\ host' = host /\ p2h' = p2h
        /\ w \in Seq(Byte) /\ pi'.words = pi.words /\ pi'.mem = pi.mem
        /\ \/ w = PUT_CODE /\ pi'.pc = "code" /\ pi'.window = <<>>
           \/ w # PUT_CODE /\ pi'.pc = "wait_code" /\ pi'.window = w
    BY <2>1, <2>2, ScanEffect DEF PiWaitsForCode
  <2>4. r \in Seq(Byte) /\ (r = s \/ Without(r, s, 1)) BY <1>2, <2>3, ReadWindow
  <2>5. s \in Seq(Byte) BY <1>2, Joined
  <2>6. Exact(s, PUT_CODE \o Sent) BY <1>4
  <2>7. Exact(r, PUT_CODE \o Sent)
    <3> HIDE DEF r, s
    <3> QED BY <1>3, <2>4, <2>5, <2>6, ExactDrop DEF Without
  <2>8. Unread' = 0 /\ Sent' = Sent BY <1>4, <2>3 DEF Unread, Sent
  <2> HIDE DEF w
  <2>9. CASE w # PUT_CODE /\ pi'.pc = "wait_code" /\ pi'.window = w
    <3>1. pi'.window \o h2p' = r BY <2>3, <2>9
    <3> QED BY <1>4, <2>3, <2>7, <2>8, <2>9, <3>1 DEF CodeOK
  <2>10. CASE w = PUT_CODE /\ pi'.pc = "code" /\ pi'.window = <<>>
    <3>1. Exact(PUT_CODE \o h2p', PUT_CODE \o Sent) BY <2>3, <2>7, <2>10
    <3>2. Exact(h2p', Sent) BY <1>2, <1>3, <3>1, ExactCancel
    <3>3. pi'.mem = <<>> BY <1>4, <2>3 DEF PiPhase
    <3>4. pi'.mem \o h2p' = h2p' BY <1>2, <3>3, EmptyEnds
    <3> QED BY <1>4, <2>3, <2>8, <2>10, <3>2, <3>4 DEF CodeOK
  <2> QED BY <2>3, <2>9, <2>10
<1>5. CASE /\ pi.words = Header /\ pi.pc = "code" /\ Unread = 0
           /\ Exact(pi.mem \o h2p, Sent)
  <2>1. PiStores \/ PiBoots
    BY <1>5 DEF PiStep, PiAnnounce, PiSeesData, PiWaitsForInfo, PiReadsInfo, PiScans,
                PiWaitsForCode
  <2>2. CASE PiStores
    <3>1. /\ host' = host /\ p2h' = p2h /\ h2p # <<>> /\ h2p' = Tail(h2p)
          /\ pi'.pc = "code" /\ pi'.mem = Append(pi.mem, Head(h2p))
          /\ pi'.words = pi.words
      BY <2>2, StoreEffect
    <3>2. pi'.mem \o h2p' = pi.mem \o h2p BY <1>2, <3>1, Shift
    <3>3. Unread' = 0 /\ Sent' = Sent BY <1>5, <3>1 DEF Unread, Sent
    <3> QED BY <1>5, <3>1, <3>2, <3>3 DEF CodeOK
  <2>3. CASE PiBoots
    <3>1. nbytes_of(pi) = Len(Code) /\ base_of(pi) # 0 BY <1>5, HeaderMeans
    <3>2. /\ Len(pi.mem) = nbytes_of(pi)
          /\ pi'.pc = IF base_of(pi) = 0 THEN "reboot" ELSE "running"
          /\ pi'.mem = pi.mem /\ pi'.words = pi.words
      BY <2>3, BootEffect
    <3>3. pi.mem = Code
      <4>1. Len(pi.mem) = Len(Code) /\ host \in HostRec BY <3>1, <3>2 DEF Typed
      <4> QED BY <1>2, <1>5, <4>1, ProgramComplete
    <3>4. pi'.words = Header /\ pi'.pc = "running" /\ pi'.mem = Code
      BY <1>5, <3>1, <3>2, <3>3
    <3> QED BY <3>4 DEF CodeOK
  <2> QED BY <2>1, <2>2, <2>3
<1>6. CASE pi.pc = "running"
  <2>1. ~ PiAnnounce BY <1>6 DEF PiAnnounce
  <2> QED BY <1>6, <2>1, PiMoves
<1> QED BY <1>1, <1>4, <1>5, <1>6 DEF CodeOK

\* Every step of the Pi keeps the session invariant.
LEMMA SessionPi ==
    ASSUME Typed, Typed', PiPhase, OnLine, Session, PiStep
    PROVE  Session'
<1>1. host' = host
  <2>1. CASE PiAnnounce BY <2>1 DEF PiAnnounce
  <2>2. CASE ~ PiAnnounce BY <2>2, PiSpends
  <2> QED BY <2>1, <2>2
<1>2. host.pc \in {"sync", "skip"} => SyncOK' BY SyncPi DEF Session
<1>3. host.pc \in {"info", "drain"} => InfoOK' BY InfoPi DEF Session
<1>4. host.pc = "crc" => CrcOK' BY CrcPi DEF Session
<1>5. host.pc \in {"code", "result"} => CodeOK' BY CodePi DEF Session
<1>6. host.pc # "success"
  <2> SUFFICES ASSUME host.pc = "success" PROVE FALSE OBVIOUS
  <2>1. pi.pc = "running" BY DEF Session, Installed
  <2>2. ~ PiAnnounce BY <2>1 DEF PiAnnounce
  <2> QED BY <2>1, <2>2, PiMoves
<1> QED BY <1>1, <1>2, <1>3, <1>4, <1>5, <1>6 DEF Session

-----------------------------------------------------------------------------
\* Less is on its way to the loader.
LEMMA SessionShorter ==
    ASSUME Typed, Session, h2p # <<>>, host' = host, pi' = pi, p2h' = p2h,
           \A q, t \in Seq(Byte) : /\ Opening(q \o h2p, t) => Opening(q \o h2p', t)
                                   /\ Exact(q \o h2p, t) => Exact(q \o h2p', t)
    PROVE  Session'
<1>1. /\ Unread' = Unread /\ ToCome' = ToCome /\ Asked' = Asked /\ Sent' = Sent
      /\ Coming' = Coming
  BY DEF Unread, ToCome, Asked, Sent, Coming
<1>2. /\ h2p \in Seq(Byte) /\ pi.window \in Seq(Byte) /\ pi.words \in Seq(Byte)
      /\ pi.mem \in Seq(Byte)
  BY DEF Typed, PiRec
<1>3. h2p # <<>> OBVIOUS
<1>4. \A q, t \in Seq(Byte) : /\ Opening(q \o h2p, t) => Opening(q \o h2p', t)
                              /\ Exact(q \o h2p, t) => Exact(q \o h2p', t)
  OBVIOUS
<1>5. ASSUME host.pc \in {"sync", "skip"} PROVE SyncOK'
  <2>1. SyncOK BY <1>5 DEF Session
  <2> QED BY <1>1, <1>3, <2>1 DEF SyncOK
<1>6. ASSUME host.pc \in {"info", "drain"} PROVE InfoOK'
  <2>1. InfoOK BY <1>6 DEF Session
  <2>2. ~ Waits BY <1>3 DEF Waits
  <2>3. Asked \in Seq(Byte) BY AskedTyped
  <2>4. Opening(pi.window \o h2p, Asked) => Opening(pi.window \o h2p', Asked)
    BY <1>2, <1>4, <2>3
  <2>5. Exact(pi.words \o h2p, Asked) => Exact(pi.words \o h2p', Asked)
    BY <1>2, <1>4, <2>3
  <2> QED BY <1>1, <2>1, <2>2, <2>4, <2>5 DEF InfoOK, Starved
<1>7. ASSUME host.pc = "crc" PROVE CrcOK'
  <2>1. CrcOK BY <1>7 DEF Session
  <2>2. ~ Waits BY <1>3 DEF Waits
  <2> QED BY <1>1, <2>1, <2>2 DEF CrcOK, Starved
<1>8. ASSUME host.pc \in {"code", "result"} PROVE CodeOK'
  <2>1. CodeOK BY <1>8 DEF Session
  <2>2. Sent \in Seq(Byte) /\ PUT_CODE \in Seq(Byte) BY SentTyped, OpcodesTyped DEF Typed
  <2>3. PUT_CODE \o Sent \in Seq(Byte) BY <2>2, Joined
  <2>4. Exact(pi.window \o h2p, PUT_CODE \o Sent) => Exact(pi.window \o h2p', PUT_CODE \o Sent)
    BY <1>2, <1>4, <2>3
  <2>5. Exact(pi.mem \o h2p, Sent) => Exact(pi.mem \o h2p', Sent)
    BY <1>2, <1>4, <2>2
  <2> QED BY <1>1, <2>1, <2>4, <2>5 DEF CodeOK, Starved
<1> QED BY <1>5, <1>6, <1>7, <1>8 DEF Session, Installed

\* A byte on its way to the loader is lost.
LEMMA SessionLossToPi ==
    ASSUME Typed, Session, NEW i \in DOMAIN h2p, h2p' = RemoveAt(h2p, i),
           host' = host, pi' = pi, p2h' = p2h
    PROVE  Session'
<1>2. h2p \in Seq(Byte) BY DEF Typed
<1>3. h2p # <<>> BY <1>2
<1>4. ASSUME NEW q \in Seq(Byte), NEW t \in Seq(Byte)
      PROVE  /\ Opening(q \o h2p, t) => Opening(q \o h2p', t)
             /\ Exact(q \o h2p, t) => Exact(q \o h2p', t)
  <2> DEFINE s == q \o h2p
             r == q \o h2p'
             k == Len(q) + i
  <2>1. r \in Seq(Byte) /\ k \in 1 .. Len(s) /\ Without(r, s, k) BY <1>2, RemoveLater
  <2>2. s \in Seq(Byte) BY <1>2, Joined
  <2> HIDE DEF s, r, k
  <2>3. Opening(s, t) => Opening(r, t) BY <2>1, <2>2, OpeningDrop
  <2>4. Exact(s, t) => Exact(r, t) BY <2>1, <2>2, ExactDrop DEF Without
  <2> QED BY <2>3, <2>4 DEF s, r
<1> QED BY <1>3, <1>4, SessionShorter

\* All that is on its way to the loader is lost.
LEMMA SessionLosesAll ==
    ASSUME Typed, Session, h2p # <<>>, h2p' = <<>>, host' = host, pi' = pi, p2h' = p2h
    PROVE  Session'
<1>1. h2p \in Seq(Byte) /\ Len(h2p) \in Nat /\ Len(h2p) # 0 BY NonEmpty DEF Typed
<1>2. CASE Len(h2p) = 1
  <2>1. 1 \in DOMAIN h2p BY <1>1, <1>2
  <2>2. RemoveAt(h2p, 1) \in Seq(Byte) /\ Len(RemoveAt(h2p, 1)) = 0
    BY <1>1, <1>2, <2>1, RemoveByte
  <2>3. h2p' = RemoveAt(h2p, 1) BY <2>2, NonEmpty
  <2> QED BY <2>1, <2>3, SessionLossToPi
<1>3. CASE Len(h2p) # 1
  <2>1. ASSUME NEW q \in Seq(Byte), NEW t \in Seq(Byte)
        PROVE  /\ Opening(q \o h2p, t) => Opening(q \o h2p', t)
               /\ Exact(q \o h2p, t) => Exact(q \o h2p', t)
    <3>1. q \o h2p' = q BY EmptyEnds
    <3>2. q \o h2p \in Seq(Byte) /\ Len(q \o h2p) = Len(q) + Len(h2p) BY <1>1, Joined
    <3>3. Len(q) \in Nat /\ Len(t) \in Nat BY NonEmpty
    <3>4. Len(<<Junk>> \o PUT_PROG_INFO \o t) = 1 + W + Len(t)
      <4>1. /\ <<Junk>> \in Seq(Byte) /\ Len(<<Junk>>) = 1
            /\ PUT_PROG_INFO \in Seq(Byte) /\ Len(PUT_PROG_INFO) = W
        BY OpcodesTyped
      <4>2. /\ <<Junk>> \o PUT_PROG_INFO \in Seq(Byte)
            /\ Len(<<Junk>> \o PUT_PROG_INFO) = 1 + W
        BY <4>1, Joined
      <4> QED BY <4>2, Joined
    <3> DEFINE s == q \o h2p
               k == Len(q)
               n == Len(h2p)
               m == Len(t)
    <3>5. /\ k \in Nat /\ n \in Nat /\ m \in Nat /\ n # 0 /\ n # 1 /\ Len(s) = k + n
      BY <1>1, <1>3, <3>2, <3>3
    <3>6. ASSUME Opening(s, t) PROVE k < W + m
      <4>1. Len(s) = 1 + W + m \/ Len(s) = W + m \/ Len(s) < W + m
        BY <3>4, <3>6 DEF Opening
      <4> HIDE DEF s, k, n, m
      <4> QED BY <3>5, <4>1 DEF W
    <3>7. ASSUME Exact(s, t) PROVE k < m
      <4>1. Len(s) <= m BY <3>7 DEF Exact
      <4> HIDE DEF s, k, n, m
      <4> QED BY <3>5, <4>1
    <3>8. Opening(s, t) => Opening(q, t) BY <3>6 DEF Opening
    <3>9. Exact(s, t) => Exact(q, t) BY <3>7, ExactShorter
    <3> QED BY <3>1, <3>8, <3>9
  <2> QED BY <2>1, SessionShorter
<1> QED BY <1>2, <1>3

\* A byte on its way to the host is lost: one announcement byte less before the
\* answer, or a byte of the answer.
LEMMA AnswerStaysLast ==
    ASSUME NEW s \in Seq(Byte), NEW r \in Seq(Byte), NEW k \in 1 .. Len(s), Without(r, s, k),
           \A i \in 1 .. Len(s) - 8 : s[i] \in {17, 34}
    PROVE  \A i \in 1 .. Len(r) - 8 : r[i] \in {17, 34}
<1> DEFINE n == Len(s)
<1>1. n \in Nat /\ Len(r) = n - 1 BY NonEmpty DEF Without
<1>2. \A j \in 1 .. n - 1 : r[j] = IF j < k THEN s[j] ELSE s[j + 1] BY DEF Without
<1>3. \A i \in 1 .. n - 8 : s[i] \in {17, 34} OBVIOUS
<1> HIDE DEF n
<1>4. ASSUME NEW i \in 1 .. Len(r) - 8 PROVE r[i] \in {17, 34}
  <2>1. i \in 1 .. n - 1 /\ i \in 1 .. n - 8 /\ i + 1 \in 1 .. n - 8 BY <1>1
  <2> QED BY <1>2, <1>3, <2>1
<1> QED BY <1>4

\* A byte lost on the way to the host keeps the session invariant.
LEMMA SessionLossToHost ==
    ASSUME Typed, Session, NEW i \in DOMAIN p2h, p2h' = RemoveAt(p2h, i),
           host' = host, pi' = pi, h2p' = h2p
    PROVE  Session'
<1>1. ToCome' = ToCome /\ Asked' = Asked /\ Sent' = Sent BY DEF ToCome, Asked, Sent
<1>2. p2h \in Seq(Byte) /\ host.buf \in Seq(Byte) BY DEF Typed, HostRec
<1> DEFINE s == Coming
           r == Coming'
           k == Len(host.buf) + i
<1>3. r \in Seq(Byte) /\ k \in 1 .. Len(s) /\ Without(r, s, k)
  BY <1>2, RemoveLater DEF Coming
<1>4. s \in Seq(Byte) /\ Len(s) = Unread BY <1>2, Joined DEF Coming, Unread
<1>5. Len(r) = Unread'
  <2>1. p2h' \in Seq(Byte) BY <1>2, RemoveByte
  <2>2. Len(host.buf \o p2h') = Len(host.buf) + Len(p2h') BY <1>2, <2>1, Joined
  <2> QED BY <2>2 DEF Coming, Unread
<1> HIDE DEF s, r, k
<1>6. Unread' = Unread - 1 /\ Unread \in Nat /\ ToCome \in Nat /\ Unread # 0
  <2>1. Unread' = Unread - 1 BY <1>3, <1>4, <1>5 DEF Without
  <2>2. Unread \in Nat /\ ToCome \in Nat BY Counted
  <2>3. Unread # 0 BY <1>3, <1>4
  <2> QED BY <2>1, <2>2, <2>3
<1>7. ASSUME NEW n \in Nat, Unread + ToCome < n PROVE Unread' + ToCome' < n
  BY <1>1, <1>6, <1>7
<1>8. ASSUME NEW n \in Nat PROVE Starved(n) => Starved(n)'
  BY <1>7 DEF Starved
<1>9. W \in Nat /\ 2 * W \in Nat /\ 3 * W \in Nat /\ 4 * W \in Nat /\ 2 * W = 8 BY DEF W
<1>10. Waits' <=> Waits BY DEF Waits
<1>11. ASSUME host.pc \in {"sync", "skip"} PROVE SyncOK'
  <2>1. SyncOK BY <1>11 DEF Session
  <2> QED BY <1>7, <1>9, <2>1 DEF SyncOK
<1>12. ASSUME host.pc \in {"info", "drain"} PROVE InfoOK'
  <2>1. InfoOK BY <1>12 DEF Session
  <2>2. CASE \A j \in 1 .. Unread - 2 * W : Coming[j] \in {17, 34}
    <3>1. \A j \in 1 .. Len(s) - 8 : s[j] \in {17, 34} BY <1>4, <1>9, <2>2 DEF s
    <3>2. \A j \in 1 .. Len(r) - 8 : r[j] \in {17, 34}
      BY <1>3, <1>4, <3>1, AnswerStaysLast
    <3>3. \A j \in 1 .. Unread' - 2 * W : Coming'[j] \in {17, 34}
      BY <1>5, <1>9, <3>2 DEF r
    <3>4. Starved(3 * W) => Starved(3 * W)' BY <1>8, <1>9
    <3> QED BY <1>1, <1>10, <2>1, <3>3, <3>4 DEF InfoOK
  <2>3. CASE ~ \A j \in 1 .. Unread - 2 * W : Coming[j] \in {17, 34}
    <3>1. Starved(3 * W) => Starved(3 * W)' BY <1>8, <1>9
    <3> QED BY <1>1, <2>1, <2>3, <3>1 DEF InfoOK
  <2> QED BY <2>2, <2>3
<1>13. ASSUME host.pc = "crc" PROVE CrcOK'
  <2>1. CrcOK BY <1>13 DEF Session
  <2>2. Starved(2 * W) => Starved(2 * W)' BY <1>8, <1>9
  <2>3. Unread <= W => Unread' <= W BY <1>6, <1>9
  <2> QED BY <1>10, <2>1, <2>2, <2>3 DEF CrcOK
<1>14. ASSUME host.pc \in {"code", "result"} PROVE CodeOK'
  <2>1. CodeOK BY <1>14 DEF Session
  <2>2. Starved(W) => Starved(W)' BY <1>8, <1>9
  <2> QED BY <1>6, <2>1, <2>2 DEF CodeOK
<1> QED BY <1>11, <1>12, <1>13, <1>14 DEF Session, Installed

-----------------------------------------------------------------------------
\* The host uses the last byte of a word.
LEMMA WordRead ==
    ASSUME Typed, NEW pc \in HostSteps, p2h # <<>>, HostReads, Len(host.buf) = W - 1, GoOn(pc)
    PROVE  /\ pi' = pi /\ host'.pc = pc /\ host'.sent = host.sent /\ host'.buf = <<>>
           /\ Unread' \in Nat /\ Unread = Unread' + W
           /\ ToCome' = ToCome /\ ToCome \in Nat
           /\ Coming = Got(Head(p2h)) \o p2h' /\ Coming' = p2h'
           /\ Got(Head(p2h)) \in Seq(Byte) /\ Len(Got(Head(p2h))) = W /\ p2h' \in Seq(Byte)
           /\ Len(p2h') = Unread'
<1>1. /\ host'.pc = pc /\ host'.buf = <<>> /\ Len(host'.buf) = 0 /\ host'.sent = host.sent
  BY GoOnTyped DEF Typed
<1>2. /\ p2h' = Tail(p2h) /\ pi' = pi /\ p2h' \in Seq(Byte)
      /\ Len(p2h) \in Nat /\ Len(p2h) >= 1 /\ Len(p2h') = Len(p2h) - 1
      /\ host.buf \in Seq(Byte) /\ Got(Head(p2h)) \in Seq(Byte) /\ Len(Got(Head(p2h))) = Len(host.buf) + 1
  BY HostReadsTyped
<1>3. ToCome' = ToCome /\ ToCome \in Nat BY <1>2, Counted DEF ToCome
<1>4. Unread' = Len(p2h') /\ Unread' \in Nat
  <2>1. Unread' = Len(host'.buf) + Len(p2h') BY DEF Unread
  <2>2. Len(p2h') \in Nat BY <1>2, NonEmpty
  <2> QED BY <1>1, <2>1, <2>2
<1>5. Unread = Unread' + W
  <2> DEFINE n == Len(p2h)
             b == Len(host.buf)
  <2>1. n \in Nat /\ Unread' = n - 1 /\ b = W - 1 /\ Unread = b + n
    BY <1>2, <1>4 DEF Unread
  <2> HIDE DEF n, b
  <2> QED BY <2>1 DEF W
<1>6. Coming = Got(Head(p2h)) \o p2h'
  <2>1. p2h \in Seq(Byte) BY DEF Typed
  <2> QED BY <1>2, <2>1, Shift DEF Coming, Got
<1>7. Coming' = p2h'
  <2>1. Coming' = <<>> \o p2h' BY <1>1 DEF Coming
  <2> QED BY <1>2, <2>1, EmptyEnds
<1>8. Len(Got(Head(p2h))) = W
  <2>1. Len(Got(Head(p2h))) = (W - 1) + 1 BY <1>2
  <2> QED BY <2>1 DEF W
<1> QED BY <1>1, <1>2, <1>3, <1>4, <1>5, <1>6, <1>7, <1>8

\* A word the host takes off the line comes out of the Pi's budget.
LEMMA WordBudget ==
    ASSUME Typed, NEW pc \in HostSteps, p2h # <<>>, HostReads, Len(host.buf) = W - 1, GoOn(pc)
    PROVE  /\ Unread + ToCome < 4 * W =>
                  Unread' + ToCome' < 3 * W /\ Unread' + ToCome' < 4 * W /\ pi.pc # "announce"
           /\ Unread + ToCome < 3 * W => Unread' + ToCome' < 2 * W
           /\ Unread + ToCome < 2 * W => Unread' + ToCome' < W
           /\ ~ (Unread + ToCome < W)
<1> DEFINE a == Unread'
           b == Unread
           c == ToCome
<1>1. a \in Nat /\ b = a + W /\ c \in Nat BY WordRead
<1>2. Unread' = a /\ Unread = b /\ ToCome = c /\ ToCome' = c BY WordRead
<1>3. pi.pc = "announce" => c = 3 * W BY DEF ToCome, Announcing
<1> HIDE DEF a, b, c
<1> QED BY <1>1, <1>2, <1>3 DEF W

\* A byte that does not complete a word keeps the session invariant.
LEMMA SessionCollects ==
    ASSUME Typed, Session, p2h # <<>>, HostCollects(Head(p2h))
    PROVE  Session'
<1>0. Head(p2h) \in Byte BY ReadByte DEF Typed
<1>1. pi' = pi /\ h2p' = h2p /\ host'.pc = host.pc /\ host'.sent = host.sent
      /\ host'.buf = Got(Head(p2h))
  BY <1>0, CollectTyped
<1>2. HostReads BY DEF HostCollects
<1>3. /\ p2h' = Tail(p2h) /\ Len(p2h) \in Nat /\ Len(p2h') = Len(p2h) - 1
      /\ host.buf \in Seq(Byte) /\ Len(host.buf) \in Nat /\ Len(Got(Head(p2h))) = Len(host.buf) + 1
  BY <1>2, HostReadsTyped
<1>4. Unread' = Unread
  <2> DEFINE n == Len(p2h)
             b == Len(host.buf)
  <2>1. n \in Nat /\ b \in Nat /\ Unread' = (b + 1) + (n - 1) /\ Unread = b + n
    BY <1>1, <1>3 DEF Unread
  <2> HIDE DEF n, b
  <2> QED BY <2>1
<1>5. Coming' = Coming
  <2>1. p2h \in Seq(Byte) BY DEF Typed
  <2>2. Got(Head(p2h)) \o p2h' = host.buf \o p2h BY <1>3, <2>1, Shift DEF Got
  <2> QED BY <1>1, <2>2 DEF Coming
<1>6. ToCome' = ToCome /\ Asked' = Asked /\ Sent' = Sent BY <1>1 DEF ToCome, Asked, Sent
<1>7. SyncOK => SyncOK' BY <1>1, <1>4, <1>6 DEF SyncOK
<1>8. InfoOK => InfoOK'
  BY <1>1, <1>4, <1>5, <1>6 DEF InfoOK, Starved, Waits
<1>9. CrcOK => CrcOK' BY <1>1, <1>4, <1>6 DEF CrcOK, Starved, Waits
<1>10. CodeOK => CodeOK' BY <1>1, <1>4, <1>6 DEF CodeOK, Starved
<1> QED BY <1>1, <1>7, <1>8, <1>9, <1>10 DEF Session, Installed

\* A fresh line with the opening word on it.
LEMMA OpeningSent == Opening(Opened, <<>>)
<1> DEFINE o == <<Junk>> \o PUT_PROG_INFO
           p == PUT_PROG_INFO
<1>1. o \in Seq(Byte) /\ p \in Seq(Byte) /\ Len(p) = W BY JunkFirst, OpcodesTyped
<1>2. o \o <<>> = o /\ p \o <<>> = p /\ <<>> \o p = p BY <1>1, EmptyEnds
<1>3. Opened = o \/ Opened = <<>> \o p BY DEF Opened
<1>4. Len(p) = W + Len(<<>>) BY <1>1 DEF W
<1> HIDE DEF o, p
<1>5. Opened = o \o <<>> \/ (Len(Opened) = W + Len(<<>>) /\ Opened = p \o <<>>)
  BY <1>2, <1>3, <1>4
<1> QED BY <1>5 DEF Opening, o, p

\* The host finds GET_PROG_INFO and sends the opening word.
LEMMA SessionSyncs ==
    ASSUME Typed, PiPhase, Session, p2h # <<>>, HostSyncs(Head(p2h))
    PROVE  Session'
<1>1. host.pc = "sync" /\ Len(host.buf) = W - 1 /\ HostReads /\ SyncOK /\ host.sent = 0
  BY DEF HostSyncs, Session
<1>2. CASE Got(Head(p2h)) = GET_PROG_INFO
  <2>1. /\ GoOn("info")
        /\ h2p' = h2p \o (IF host.glitch = "send" THEN <<Junk>> ELSE <<>>) \o PUT_PROG_INFO
    BY <1>2 DEF HostSyncs
  <2>2. "info" \in HostSteps BY DEF HostSteps
  <2>3. /\ pi' = pi /\ host'.pc = "info" /\ host'.sent = 0
        /\ Unread' \in Nat /\ Unread = Unread' + W /\ ToCome' = ToCome /\ ToCome \in Nat
    BY <1>1, <2>1, <2>2, WordRead
  <2>4. CASE pi.pc = "announce" /\ h2p = <<>>
    <3>1. pi.window = <<>> BY <2>4 DEF PiPhase
    <3> DEFINE g == IF host.glitch = "send" THEN <<Junk>> ELSE <<>>
    <3>2. g \in Seq(Byte) /\ Opened = g \o PUT_PROG_INFO /\ Opened \in Seq(Byte)
      BY OpenedTyped DEF Opened
    <3>3. h2p' = Opened
      <4>1. h2p' = (<<>> \o g) \o PUT_PROG_INFO BY <2>1, <2>4
      <4>2. <<>> \o g = g BY <3>2, EmptyEnds
      <4> QED BY <3>2, <4>1, <4>2
    <3>4. pi'.window \o h2p' = Opened
      <4>1. <<>> \o Opened = Opened BY <3>2, EmptyEnds
      <4> QED BY <2>3, <3>1, <3>3, <4>1
    <3>5. Asked' = <<>> BY <2>3 DEF Asked
    <3>6. InfoOK' BY <2>3, <2>4, <3>4, <3>5, OpeningSent DEF InfoOK
    <3> QED BY <2>3, <3>6 DEF Session
  <2>5. CASE Unread + ToCome < 4 * W
    <3>1. Unread' + ToCome' < 3 * W /\ pi.pc # "announce"
      BY <1>1, <2>1, <2>2, <2>5, WordBudget
    <3>2. Starved(3 * W)' BY <2>3, <3>1 DEF Starved
    <3>3. InfoOK' BY <3>2 DEF InfoOK
    <3> QED BY <2>3, <3>3 DEF Session
  <2> QED BY <1>1, <2>4, <2>5 DEF SyncOK
<1>3. CASE Got(Head(p2h)) # GET_PROG_INFO
  <2> DEFINE pc == IF Got(Head(p2h)) = PRINT_STRING THEN "sync" ELSE "skip"
  <2>1. GoOn(pc) /\ h2p' = h2p BY <1>3 DEF HostSyncs, AfterWrongWord
  <2>2. pc \in HostSteps /\ pc \in {"sync", "skip"} BY DEF HostSteps
  <2> HIDE DEF pc
  <2>3. /\ pi' = pi /\ host'.pc = pc /\ host'.sent = 0
        /\ Unread' \in Nat /\ Unread = Unread' + W /\ ToCome' = ToCome /\ ToCome \in Nat
    BY <1>1, <2>1, <2>2, WordRead
  <2>4. Unread + ToCome < 4 * W => Unread' + ToCome' < 4 * W
    BY <1>1, <2>1, <2>2, WordBudget
  <2>5. SyncOK' BY <1>1, <2>1, <2>3, <2>4 DEF SyncOK
  <2> QED BY <2>2, <2>3, <2>5 DEF Session
<1> QED BY <1>2, <1>3

\* A word that is not GET_PROG_INFO is skipped.
LEMMA SessionSkips ==
    ASSUME Typed, Session, p2h # <<>>, HostSkips(Head(p2h))
    PROVE  Session'
<1>1. HostReads /\ GoOn("sync") /\ h2p' = h2p /\ SyncOK /\ host.sent = 0
  BY DEF HostSkips, Session
<1>2. "sync" \in HostSteps BY DEF HostSteps
<1>3. host'.pc = "sync" /\ Len(host'.buf) = 0 /\ host'.sent = 0
  BY <1>1, <1>2, GoOnTyped DEF Typed
<1>4. /\ pi' = pi /\ Len(p2h) \in Nat /\ Len(p2h) >= 1 /\ Len(p2h') = Len(p2h) - 1
      /\ Len(host.buf) \in Nat
  BY <1>1, HostReadsTyped
<1>5. ToCome' = ToCome /\ ToCome \in Nat BY <1>4, Counted DEF ToCome
<1>6. Unread + ToCome < 4 * W => Unread' + ToCome' < 4 * W
  <2> DEFINE n == Len(p2h)
             b == Len(host.buf)
             c == ToCome
  <2>1. /\ n \in Nat /\ b \in Nat /\ Unread' = 0 + (n - 1) /\ Unread = b + n
        /\ c \in Nat /\ ToCome' = c /\ ToCome = c
    BY <1>3, <1>4, <1>5 DEF Unread
  <2> HIDE DEF n, b, c
  <2> QED BY <2>1 DEF W
<1>7. SyncOK' BY <1>1, <1>4, <1>6 DEF SyncOK
<1> QED BY <1>3, <1>7 DEF Session

\* The host drops what is left of a word: there is not more to read than before.
LEMMA Cleared ==
    ASSUME Typed, NEW pc \in HostSteps, GoOn(pc), pi' = pi, p2h' = p2h
    PROVE  /\ host'.pc = pc /\ host'.sent = host.sent
           /\ \A n \in Nat : Starved(n) => Starved(n)'
           /\ Unread = 0 => Unread' = 0
<1>1. host'.pc = pc /\ Len(host'.buf) = 0 /\ host'.sent = host.sent
  BY GoOnTyped DEF Typed
<1>2. Len(p2h) \in Nat /\ Len(host.buf) \in Nat /\ ToCome \in Nat BY Counted
<1>3. ToCome' = ToCome BY DEF ToCome
<1> DEFINE b == Len(host.buf)
           k == Len(p2h)
           c == ToCome
<1>4. /\ b \in Nat /\ k \in Nat /\ c \in Nat /\ ToCome = c /\ ToCome' = c
      /\ Unread = b + k /\ Unread' = 0 + k
  BY <1>1, <1>2, <1>3 DEF Unread
<1> HIDE DEF b, k, c
<1>5. Unread = 0 => Unread' = 0 BY <1>4
<1>6. \A n \in Nat : Unread + ToCome < n => Unread' + ToCome' < n BY <1>4
<1>7. \A n \in Nat : Starved(n) => Starved(n)' BY <1>6 DEF Starved
<1> QED BY <1>1, <1>5, <1>7

\* The host sends the header.
LEMMA SessionSendsInfo ==
    ASSUME Typed, Session, HostSendsInfo
    PROVE  Session'
<1>1. /\ host.pc = "info" /\ GoOn("drain") /\ pi' = pi /\ p2h' = p2h
      /\ h2p' = h2p \o ARMBASE \o Word(Len(Code)) \o crc32
      /\ InfoOK /\ host.sent = 0
  BY DEF HostSendsInfo, Session
<1>2. "drain" \in HostSteps /\ 3 * W \in Nat BY DEF HostSteps, W
<1>3. host'.pc = "drain" /\ host'.sent = 0 /\ (Starved(3 * W) => Starved(3 * W)')
  BY <1>1, <1>2, Cleared
<1>4. Asked = <<>> /\ Asked' = Header BY <1>1, <1>3 DEF Asked
<1>5. /\ h2p \in Seq(Byte) /\ pi.window \in Seq(Byte) /\ pi.words \in Seq(Byte)
      /\ Header \in Seq(Byte) /\ <<>> \in Seq(Byte)
  BY HeaderTyped, OpcodesTyped DEF Typed, PiRec
<1>6. h2p' = h2p \o Header
  <2> DEFINE b == Word(Len(Code))
  <2>1. ARMBASE \in Seq(Byte) /\ b \in Seq(Byte) /\ crc32 \in Seq(Byte)
    BY PayloadTyped, LengthTyped
  <2>2. h2p' = Behind(h2p, ARMBASE, b, crc32) /\ Header = Three(ARMBASE, b, crc32)
    BY <1>1 DEF Header, Behind, Three
  <2> HIDE DEF b
  <2>3. h2p \in Seq(Byte) BY <1>5
  <2>4. Behind(h2p, ARMBASE, b, crc32) = h2p \o Three(ARMBASE, b, crc32)
    BY <2>1, <2>3, SentAsOne, ZenonT(60)
  <2> QED BY <2>2, <2>4, ZenonT(60)
<1>7. ASSUME NEW q \in Seq(Byte)
      PROVE  /\ Opening(q \o h2p, <<>>) => Opening(q \o h2p', Header)
             /\ Exact(q \o h2p, <<>>) => Exact(q \o h2p', Header)
  <2>1. q \o h2p \in Seq(Byte) BY <1>5, Joined
  <2>2. q \o h2p' = (q \o h2p) \o Header BY <1>5, <1>6, Assoc, SMTT(30)
  <2>3. <<>> \o Header = Header BY <1>5, EmptyEnds
  <2> QED BY <1>5, <2>1, <2>2, <2>3, OpeningJoin, ExactJoin
<1>8. Opening(pi.window \o h2p, <<>>) => Opening(pi.window \o h2p', Header) BY <1>5, <1>7
<1>9. Exact(pi.words \o h2p, <<>>) => Exact(pi.words \o h2p', Header) BY <1>5, <1>7
<1>10. InfoOK' BY <1>1, <1>3, <1>4, <1>8, <1>9 DEF InfoOK
<1> QED BY <1>3, <1>10 DEF Session

\* A word that begins like GET_CODE is neither an announcement nor a refusal.
LEMMA GetCodeIsNew ==
    /\ GET_CODE \notin Seq({17, 34}) /\ GET_CODE \notin Seq(Byte \ {102})
    /\ GET_CODE[1] = 102
<1>1. GET_CODE[1] = 102 /\ Len(GET_CODE) = 4 BY DEF GET_CODE
<1>2. ASSUME NEW S, GET_CODE \in Seq(S) PROVE 102 \in S
  <2>1. 1 \in 1 .. Len(GET_CODE) BY <1>1
  <2>2. GET_CODE[1] \in S BY <1>2, <2>1, Element
  <2> QED BY <1>1, <2>2
<1> QED BY <1>1, <1>2

\* The first byte lies in the first part.
LEMMA FirstByte ==
    ASSUME NEW q \in Seq(Byte), NEW r \in Seq(Byte), Len(q) = W
    PROVE  (q \o r)[1] = q[1]
<1>1. Len(q) # 0 BY DEF W
<1> QED BY <1>1

\* A byte of the second part.
LEMMA LaterByte ==
    ASSUME NEW q \in Seq(Byte), NEW r \in Seq(Byte), Len(q) = W, NEW i \in 1 .. Len(r)
    PROVE  (q \o r)[i + 4] = r[i]
<1>1. Len(q) = 4 BY DEF W
<1>2. (q \o r)[i + Len(q)] = r[i] OBVIOUS
<1> QED BY <1>1, <1>2

\* Announcements that were under way are drained.
LEMMA SessionDrains ==
    ASSUME Typed, OnLine, Session, p2h # <<>>, HostDrains(Head(p2h))
    PROVE  Session'
<1>1. /\ host.pc = "drain" /\ Len(host.buf) = W - 1 /\ HostReads /\ h2p' = h2p
      /\ InfoOK /\ host.sent = 0
  BY DEF HostDrains, Session
<1>2. "drain" \in HostSteps /\ "crc" \in HostSteps /\ "failed" \in HostSteps
  BY DEF HostSteps
<1>3. GET_CODE \notin {GET_PROG_INFO, PRINT_STRING}
  BY DEF GET_CODE, GET_PROG_INFO, PRINT_STRING
<1>4. CASE Got(Head(p2h)) \in {GET_PROG_INFO, PRINT_STRING}
  <2>1. GoOn("drain") BY <1>3, <1>4 DEF HostDrains
  <2>2. /\ pi' = pi /\ host'.pc = "drain" /\ host'.sent = 0
        /\ Unread' \in Nat /\ Unread = Unread' + W
        /\ Coming = Got(Head(p2h)) \o p2h' /\ Coming' = p2h'
        /\ Got(Head(p2h)) \in Seq(Byte) /\ Len(Got(Head(p2h))) = W /\ p2h' \in Seq(Byte) /\ Len(p2h') = Unread'
    BY <1>1, <1>2, <2>1, WordRead
  <2>3. Asked' = Asked BY <1>1, <2>2 DEF Asked
  <2>4. Waits' <=> Waits BY <1>1, <2>2 DEF Waits
  <2>5. Starved(3 * W) => Starved(3 * W)'
    <3>1. Unread + ToCome < 3 * W => Unread' + ToCome' < 3 * W
      <4>1. /\ Unread + ToCome < 3 * W => Unread' + ToCome' < 2 * W
            /\ ToCome' = ToCome /\ ToCome \in Nat
        BY <1>1, <1>2, <2>1, WordBudget, WordRead
      <4> DEFINE a == Unread'
                 c == ToCome
      <4>2. a \in Nat /\ c \in Nat /\ (Unread + ToCome < 3 * W => a + c < 2 * W)
            /\ Unread' + ToCome' = a + c
        BY <2>2, <4>1
      <4> HIDE DEF a, c
      <4> QED BY <4>2 DEF W
    <3> QED BY <2>2, <3>1 DEF Starved
  <2>6. ASSUME \A i \in 1 .. Unread - 2 * W : Coming[i] \in {17, 34},
               NEW i \in 1 .. Unread' - 2 * W
        PROVE  Coming'[i] \in {17, 34}
    <3>1. i + 4 \in 1 .. Unread - 2 * W /\ i \in 1 .. Unread'
      <4> DEFINE a == Unread'
                 b == Unread
      <4>1. a \in Nat /\ b = a + W /\ i \in 1 .. a - 2 * W BY <2>2
      <4> HIDE DEF a, b
      <4>2. i + 4 \in 1 .. b - 2 * W /\ i \in 1 .. a BY <4>1 DEF W
      <4> QED BY <4>2 DEF a, b
    <3>2. Coming[i + 4] \in {17, 34} BY <2>6, <3>1
    <3>3. (Got(Head(p2h)) \o p2h')[i + 4] = p2h'[i]
      <4> DEFINE g == Got(Head(p2h))
                 r == p2h'
      <4>1. g \in Seq(Byte) /\ Len(g) = W /\ r \in Seq(Byte) /\ i \in 1 .. Len(r) BY <2>2, <3>1
      <4> HIDE DEF g, r
      <4>2. (g \o r)[i + 4] = r[i] BY <4>1, LaterByte
      <4> QED BY <4>2 DEF g, r
    <3> QED BY <2>2, <3>2, <3>3
  <2>7. InfoOK' BY <1>1, <2>2, <2>3, <2>4, <2>5, <2>6 DEF InfoOK
  <2> QED BY <2>2, <2>7 DEF Session
<1>5. CASE Got(Head(p2h)) = GET_CODE
  <2>1. GoOn("crc") BY <1>3, <1>5 DEF HostDrains
  <2>2. /\ pi' = pi /\ host'.pc = "crc" /\ host'.sent = 0
        /\ Unread' \in Nat /\ Unread = Unread' + W
        /\ Coming = Got(Head(p2h)) \o p2h'
        /\ Got(Head(p2h)) \in Seq(Byte) /\ Len(Got(Head(p2h))) = W /\ p2h' \in Seq(Byte)
    BY <1>1, <1>2, <2>1, WordRead
  <2>3. pi.pc \notin {"announce", "wait_info", "info", "bad_addr"}
    <3>1. ASSUME NEW S, p2h \in Seq(S), host.buf \in Seq(S) PROVE GET_CODE \in Seq(S)
      BY <1>1, <1>5, <3>1, OnLineReads
    <3> QED BY <3>1, GetCodeIsNew DEF OnLine, Announcing
  <2>4. CASE Starved(3 * W)
    <3>1. Unread' + ToCome' < 2 * W BY <1>1, <1>2, <2>1, <2>4, WordBudget DEF Starved
    <3>2. Starved(2 * W)' BY <2>2, <2>4, <3>1 DEF Starved
    <3> QED BY <2>2, <3>2 DEF Session, CrcOK
  <2>5. CASE Waits /\ \A i \in 1 .. Unread - 2 * W : Coming[i] \in {17, 34}
    <3>1. Coming[1] = 102
      <4>1. (Got(Head(p2h)) \o p2h')[1] = Got(Head(p2h))[1]
        <5> DEFINE g == Got(Head(p2h))
                   r == p2h'
        <5>1. g \in Seq(Byte) /\ Len(g) = W /\ r \in Seq(Byte) BY <2>2
        <5> HIDE DEF g, r
        <5>2. (g \o r)[1] = g[1] BY <5>1, FirstByte
        <5> QED BY <5>2 DEF g, r
      <4> QED BY <1>5, <2>2, <4>1, GetCodeIsNew
    <3>2. 1 \notin 1 .. Unread - 2 * W BY <2>5, <3>1
    <3>3. Unread' <= W
      <4> DEFINE a == Unread'
                 b == Unread
      <4>1. a \in Nat /\ b = a + W /\ 1 \notin 1 .. b - 2 * W BY <2>2, <3>2
      <4> HIDE DEF a, b
      <4>2. a <= W BY <4>1 DEF W
      <4> QED BY <4>2 DEF a
    <3>4. Waits' BY <1>1, <2>2, <2>5 DEF Waits
    <3> QED BY <2>2, <3>3, <3>4 DEF Session, CrcOK
  <2> QED BY <1>1, <2>3, <2>4, <2>5 DEF InfoOK
<1>6. CASE Got(Head(p2h)) \notin {GET_PROG_INFO, PRINT_STRING, GET_CODE}
  <2>1. GoOn("failed") BY <1>6 DEF HostDrains
  <2>2. host'.pc = "failed" BY <1>1, <1>2, <2>1, WordRead
  <2> QED BY <2>2 DEF Session
<1> QED BY <1>4, <1>5, <1>6

\* No code byte has been sent yet.
LEMMA NothingSent == SubSeq(Code, 1, 0) = <<>>
  BY PayloadTyped

\* GET_CODE and the CRC arrive and are compared.
LEMMA SessionChecksCrc ==
    ASSUME Typed, Session, p2h # <<>>, HostChecksCrc(Head(p2h))
    PROVE  Session'
<1>1. /\ host.pc = "crc" /\ Len(host.buf) = W - 1 /\ HostReads /\ CrcOK /\ host.sent = 0
  BY DEF HostChecksCrc, Session
<1>2. "code" \in HostSteps /\ "failed" \in HostSteps BY DEF HostSteps
<1>3. CASE Got(Head(p2h)) = crc32
  <2>1. GoOn("code") /\ h2p' = h2p \o PUT_CODE BY <1>3 DEF HostChecksCrc
  <2>2. /\ pi' = pi /\ host'.pc = "code" /\ host'.sent = 0
        /\ Unread' \in Nat /\ Unread = Unread' + W
    BY <1>1, <1>2, <2>1, WordRead
  <2>3. CASE Starved(2 * W)
    <3>1. Unread' + ToCome' < W BY <1>1, <1>2, <2>1, <2>3, WordBudget DEF Starved
    <3>2. Starved(W)' BY <2>2, <2>3, <3>1 DEF Starved
    <3> QED BY <2>2, <3>2 DEF Session, CodeOK
  <2>4. CASE Waits /\ Unread <= W
    <3>1. Unread' = 0
      <4> DEFINE a == Unread'
                 b == Unread
      <4>1. a \in Nat /\ b = a + W /\ b <= W BY <2>2, <2>4
      <4> HIDE DEF a, b
      <4>2. a = 0 BY <4>1 DEF W
      <4> QED BY <4>2 DEF a
    <3>2. PUT_CODE \in Seq(Byte) BY OpcodesTyped
    <3>3. PUT_CODE \o <<>> = PUT_CODE /\ <<>> \o PUT_CODE = PUT_CODE BY <3>2, EmptyEnds
    <3>4. Sent' = <<>> BY <2>2, NothingSent DEF Sent
    <3>5. pi'.window \o h2p' = PUT_CODE BY <2>1, <2>2, <2>4, <3>3 DEF Waits
    <3>6. Exact(PUT_CODE, PUT_CODE)
      <4>1. Len(PUT_CODE) = W BY OpcodesTyped
      <4>2. W <= W BY DEF W
      <4> QED BY <4>1, <4>2 DEF Exact
    <3>7. CodeOK' BY <2>2, <2>4, <3>1, <3>3, <3>4, <3>5, <3>6 DEF CodeOK, Waits
    <3> QED BY <2>2, <3>7 DEF Session
  <2> QED BY <1>1, <2>3, <2>4 DEF CrcOK
<1>4. CASE Got(Head(p2h)) # crc32
  <2>1. GoOn("failed") BY <1>4 DEF HostChecksCrc
  <2>2. host'.pc = "failed" BY <1>1, <1>2, <2>1, WordRead
  <2> QED BY <2>2 DEF Session
<1> QED BY <1>3, <1>4

\* One more byte of the program.
LEMMA SentMore ==
    ASSUME NEW c \in Seq(Byte), NEW k \in Nat, k < Len(c)
    PROVE  SubSeq(c, 1, k + 1) = Append(SubSeq(c, 1, k), c[k + 1]) /\ c[k + 1] \in Byte
<1>1. Len(c) \in Nat /\ k + 1 \in 1 .. Len(c) BY NonEmpty
<1>2. c[k + 1] \in Byte BY <1>1, Element
<1>3. SubSeq(c, 1, k + 1) = Append(SubSeq(c, 1, k), c[k + 1]) BY <1>1
<1> QED BY <1>2, <1>3

\* The same byte added to both sides.
LEMMA ExactAppend ==
    ASSUME NEW s \in Seq(Byte), NEW t \in Seq(Byte), Exact(s, t), NEW b \in Byte
    PROVE  Exact(Append(s, b), Append(t, b))
<1>1. Append(s, b) = s \o <<b>> /\ Append(t, b) = t \o <<b>> /\ <<b>> \in Seq(Byte) OBVIOUS
<1> QED BY <1>1, ExactJoin

\* One more byte of the program is sent.
LEMMA SessionSendsByte ==
    ASSUME Typed, Session, HostSendsByte
    PROVE  Session'
<1>1. /\ host.pc = "code" /\ host.sent < Len(Code) /\ CodeOK
      /\ host' = [host EXCEPT !.sent = host.sent + 1]
      /\ h2p' = Append(h2p, Code[host.sent + 1])
      /\ pi' = pi /\ p2h' = p2h
  BY DEF HostSendsByte, Session
<1>2. host'.pc = "code" /\ host'.buf = host.buf /\ host'.sent = host.sent + 1
  BY <1>1 DEF Typed, HostRec
<1>3. Unread' = Unread /\ ToCome' = ToCome BY <1>1, <1>2 DEF Unread, ToCome
<1> DEFINE k == host.sent
           b == Code[k + 1]
<1>4. k \in Nat /\ k < Len(Code) /\ Code \in Seq(Byte)
  BY <1>1, PayloadTyped DEF Typed, HostRec
<1>5. Sent' = SubSeq(Code, 1, k + 1) /\ Sent = SubSeq(Code, 1, k) BY <1>2 DEF Sent
<1>6. h2p' = Append(h2p, b) BY <1>1
<1> HIDE DEF k
<1>7. Sent' = Append(Sent, b) /\ b \in Byte BY <1>4, <1>5, SentMore
<1> HIDE DEF b
<1>8. /\ h2p \in Seq(Byte) /\ pi.window \in Seq(Byte) /\ pi.mem \in Seq(Byte)
      /\ Sent \in Seq(Byte) /\ PUT_CODE \in Seq(Byte)
  BY SentTyped, OpcodesTyped DEF Typed, PiRec
<1>9. ASSUME NEW q \in Seq(Byte), NEW t \in Seq(Byte), Exact(q \o h2p, t \o Sent)
      PROVE  Exact(q \o h2p', t \o Sent')
  <2>1. q \o h2p \in Seq(Byte) /\ t \o Sent \in Seq(Byte) BY <1>8, Joined
  <2>2. Exact(Append(q \o h2p, b), Append(t \o Sent, b)) BY <1>7, <1>9, <2>1, ExactAppend
  <2>3. q \o Append(h2p, b) = Append(q \o h2p, b) BY <1>7, <1>8, AppendAtEnd
  <2>4. t \o Append(Sent, b) = Append(t \o Sent, b) BY <1>7, <1>8, AppendAtEnd
  <2> QED BY <1>6, <1>7, <2>2, <2>3, <2>4
<1>10. Exact(pi.window \o h2p, PUT_CODE \o Sent) => Exact(pi.window \o h2p', PUT_CODE \o Sent')
  BY <1>8, <1>9
<1>11. Exact(pi.mem \o h2p, Sent) => Exact(pi.mem \o h2p', Sent')
  <2>1. Append(Sent, b) \in Seq(Byte) /\ <<>> \in Seq(Byte) BY <1>7, <1>8, Appended, OpcodesTyped
  <2>2. <<>> \o Sent = Sent /\ <<>> \o Sent' = Sent' BY <1>7, <1>8, <2>1, EmptyEnds
  <2>3. Exact(pi.mem \o h2p, <<>> \o Sent) => Exact(pi.mem \o h2p', <<>> \o Sent')
    BY <1>8, <1>9, <2>1
  <2> QED BY <2>2, <2>3
<1>12. CodeOK' BY <1>1, <1>3, <1>10, <1>11 DEF CodeOK, Starved
<1> QED BY <1>2, <1>12 DEF Session

\* The whole program is on the line.
LEMMA SessionAllSent ==
    ASSUME Typed, Session, HostAllSent
    PROVE  Session'
<1>1. /\ host.pc = "code" /\ GoOn("result") /\ CodeOK /\ pi' = pi /\ p2h' = p2h /\ h2p' = h2p
  BY DEF HostAllSent, Session
<1>2. "result" \in HostSteps /\ W \in Nat BY DEF HostSteps, W
<1>3. /\ host'.pc = "result" /\ host'.sent = host.sent
      /\ Starved(W) => Starved(W)'
      /\ Unread = 0 => Unread' = 0
  BY <1>1, <1>2, Cleared
<1>4. Sent' = Sent BY <1>3 DEF Sent
<1>5. CodeOK' BY <1>1, <1>3, <1>4 DEF CodeOK
<1> QED BY <1>3, <1>5 DEF Session

\* BOOT_SUCCESS arrives: the program is installed.
LEMMA SessionGetsResult ==
    ASSUME Typed, Session, p2h # <<>>, HostGetsResult(Head(p2h))
    PROVE  Session'
<1>1. /\ host.pc = "result" /\ Len(host.buf) = W - 1 /\ HostReads /\ CodeOK
      /\ GoOn(IF Got(Head(p2h)) = BOOT_SUCCESS THEN "success" ELSE "failed")
  BY DEF HostGetsResult, Session
<1> DEFINE pc == IF Got(Head(p2h)) = BOOT_SUCCESS THEN "success" ELSE "failed"
<1>2. pc \in HostSteps /\ GoOn(pc) BY <1>1 DEF HostSteps
<1>3. pc \in {"success", "failed"} OBVIOUS
<1> HIDE DEF pc
<1>4. pi' = pi /\ host'.pc = pc /\ Unread' \in Nat /\ Unread = Unread' + W
  BY <1>1, <1>2, WordRead
<1>5. ~ Starved(W) BY <1>1, <1>2, WordBudget DEF Starved
<1>6. Unread # 0
  <2> DEFINE a == Unread'
             b == Unread
  <2>1. a \in Nat /\ b = a + W BY <1>4
  <2> HIDE DEF a, b
  <2>2. b # 0 BY <2>1 DEF W
  <2> QED BY <2>2 DEF b
<1>7. Installed BY <1>1, <1>5, <1>6 DEF CodeOK, Installed
<1>8. Installed' BY <1>4, <1>7 DEF Installed
<1> QED BY <1>3, <1>4, <1>8 DEF Session

\* The host reads what the installed program prints: nothing of the loader's is
\* left to come, so it starves, and text does not complete BOOT_SUCCESS.
LEMMA SessionText ==
    ASSUME Typed, Typed', Session, p2h = <<>>, pi.pc = "running", NEW b \in Printed,
           HostGetsByte(b)
    PROVE  Session'
<1>1. b \in Byte /\ b # 153 BY PrintedTyped
<1>2. HostReads BY DEF HostGetsByte, HostCollects, HostSyncs, HostSkips, HostDrains,
                       HostChecksCrc, HostGetsResult
<1>3. pi' = pi /\ p2h' = <<>> BY <1>2 DEF HostReads
<1>4. /\ Len(host'.buf) \in Nat /\ Len(host'.buf) < W
  BY NonEmpty DEF Typed, HostRec
<1>5. Unread' = Len(host'.buf) + 0 /\ ToCome' = 0
  BY <1>3 DEF Unread, ToCome, Announcing
<1>6. /\ Unread' + ToCome' < W /\ Unread' + ToCome' < 2 * W
      /\ Unread' + ToCome' < 3 * W /\ Unread' + ToCome' < 4 * W
  BY <1>4, <1>5 DEF W
<1>7. SyncOK' /\ InfoOK' /\ CrcOK' /\ CodeOK'
  BY <1>3, <1>6 DEF SyncOK, InfoOK, CrcOK, CodeOK, Starved
<1>8. ASSUME NEW pc, GoOn(pc) PROVE host'.pc = pc /\ host'.sent = host.sent
  <2>1. host' = [[host EXCEPT !.pc = pc] EXCEPT !.buf = <<>>] BY <1>8 DEF GoOn
  <2> QED BY <2>1 DEF Typed, HostRec
<1>9. ASSUME host'.pc = "success" PROVE FALSE
  <2>1. HostGetsResult(b)
    <3>1. CASE HostCollects(b)
      <4>1. host'.pc = host.pc BY <1>1, <3>1, CollectTyped
      <4> QED BY <1>9, <3>1, <4>1 DEF HostCollects
    <3>2. CASE HostSyncs(b) BY <1>8, <1>9, <3>2 DEF HostSyncs, AfterWrongWord
    <3>3. CASE HostSkips(b) BY <1>8, <1>9, <3>3 DEF HostSkips
    <3>4. CASE HostDrains(b) BY <1>8, <1>9, <3>4 DEF HostDrains
    <3>5. CASE HostChecksCrc(b) BY <1>8, <1>9, <3>5 DEF HostChecksCrc
    <3> QED BY <3>1, <3>2, <3>3, <3>4, <3>5 DEF HostGetsByte
  <2>2. Len(host.buf) = W - 1 /\ Got(b) = BOOT_SUCCESS
    BY <1>8, <1>9, <2>1 DEF HostGetsResult
  <2>3. host.buf \in Seq(Byte) BY DEF Typed, HostRec
  <2>4. Got(b)[Len(host.buf) + 1] = b BY <1>1, <2>3 DEF Got
  <2>5. Len(host.buf) + 1 = 4 BY <2>2 DEF W
  <2>6. BOOT_SUCCESS[4] = 153 BY DEF BOOT_SUCCESS
  <2> QED BY <1>1, <2>2, <2>4, <2>5, <2>6
<1>10. host'.pc \in {"sync", "skip", "info", "drain", "crc"} => host'.sent = 0
  <2>1. CASE HostCollects(b)
    <3>1. host'.pc = host.pc /\ host'.sent = host.sent BY <1>1, <2>1, CollectTyped
    <3> QED BY <3>1 DEF Session
  <2>2. CASE HostSyncs(b) BY <1>8, <2>2 DEF HostSyncs, Session
  <2>3. CASE HostSkips(b) BY <1>8, <2>3 DEF HostSkips, Session
  <2>4. CASE HostDrains(b) BY <1>8, <2>4 DEF HostDrains, Session
  <2>5. CASE HostChecksCrc(b) BY <1>8, <2>5 DEF HostChecksCrc, Session
  <2>6. CASE HostGetsResult(b) BY <1>8, <2>6 DEF HostGetsResult
  <2> QED BY <2>1, <2>2, <2>3, <2>4, <2>5, <2>6 DEF HostGetsByte
<1> QED BY <1>7, <1>9, <1>10 DEF Session

\* Every step of the host keeps the session invariant.
LEMMA SessionHost ==
    ASSUME Typed, Typed', PiPhase, OnLine, Session, HostStep
    PROVE  Session'
<1>1. CASE HostTimesOut
  <2>1. GoOn("failed") BY <1>1 DEF HostTimesOut
  <2>2. "failed" \in HostSteps BY DEF HostSteps
  <2>3. host'.pc = "failed" BY <2>1, <2>2, GoOnTyped DEF Typed
  <2> QED BY <2>3 DEF Session
<1>2. ASSUME NEW b \in Incoming, HostGetsByte(b) PROVE Session'
  <2>1. CASE p2h # <<>>
    <3>1. b = Head(p2h) BY <2>1, IncomingTyped
    <3>2. HostGetsByte(Head(p2h)) BY <1>2, <3>1
    <3> QED
      BY <2>1, <3>2, SessionCollects, SessionSyncs, SessionSkips, SessionDrains,
         SessionChecksCrc, SessionGetsResult DEF HostGetsByte
  <2>2. CASE p2h = <<>>
    BY <1>2, <2>2, IncomingTyped, SessionText
  <2> QED BY <2>1, <2>2
<1> QED
  BY <1>1, <1>2, SessionSendsInfo, SessionSendsByte, SessionAllSent DEF HostStep

\* Every step keeps the session invariant.
LEMMA SessionStep ==
    ASSUME Typed, Typed', PiPhase, OnLine, Session, [Next]_vars
    PROVE  Session'
<1>1. CASE PiStep BY <1>1, SessionPi
<1>2. CASE HostStep BY <1>2, SessionHost
<1>3. ASSUME NEW glitch \in Glitches, HostStarts(glitch) PROVE Session'
  <2>1. /\ pi' = pi /\ host'.pc = "sync" /\ host'.buf = <<>> /\ host'.sent = 0
        /\ Len(p2h') <= 3
    BY <1>3, StartTyped
  <2>2. Unread' = 0 + Len(p2h') BY <2>1 DEF Unread
  <2>3. ToCome' = ToCome /\ ToCome \in Nat /\ ToCome <= 12 BY <2>1, Counted DEF ToCome
  <2>4. Unread' \in Nat BY CountedNext
  <2>5. Unread' + ToCome' < 4 * W
    <3> DEFINE a == Unread'
               c == ToCome
               n == Len(p2h')
    <3>1. /\ a \in Nat /\ c \in Nat /\ c <= 12 /\ n <= 3 /\ n \in Nat /\ a = 0 + n
          /\ Unread' = a /\ ToCome' = c
      <4>1. n \in Nat BY NonEmpty DEF Typed
      <4> QED BY <2>1, <2>2, <2>3, <2>4, <4>1
    <3> HIDE DEF a, c, n
    <3> QED BY <3>1 DEF W
  <2>6. SyncOK' BY <2>5 DEF SyncOK
  <2> QED BY <2>1, <2>6 DEF Session
<1>4. CASE HostKilled
  <2>1. GoOn("killed") BY <1>4 DEF HostKilled
  <2>2. "killed" \in HostSteps BY DEF HostSteps
  <2>3. host'.pc = "killed" BY <2>1, <2>2, GoOnTyped DEF Typed
  <2> QED BY <2>3 DEF Session
<1>5. CASE LoseBytes
  <2>1. host' = host /\ pi' = pi BY <1>5 DEF LoseBytes
  <2>2. CASE \E i \in DOMAIN h2p : h2p' = RemoveAt(h2p, i) /\ UNCHANGED p2h
    BY <2>1, <2>2, SessionLossToPi
  <2>4. CASE h2p # <<>> /\ h2p' = <<>> /\ UNCHANGED p2h
    BY <2>1, <2>4, SessionLosesAll
  <2>3. CASE \E i \in DOMAIN p2h : p2h' = RemoveAt(p2h, i) /\ UNCHANGED h2p
    BY <2>1, <2>3, SessionLossToHost
  <2> QED BY <1>5, <2>2, <2>3, <2>4 DEF LoseBytes
<1>6. CASE UNCHANGED vars
  <2>1. host' = host /\ pi' = pi /\ h2p' = h2p /\ p2h' = p2h BY <1>6 DEF vars
  <2>2. Unread' = Unread /\ ToCome' = ToCome /\ Asked' = Asked /\ Sent' = Sent
        /\ Coming' = Coming
    BY <2>1 DEF Unread, ToCome, Asked, Sent, Coming
  <2>3. SyncOK => SyncOK' BY <2>1, <2>2 DEF SyncOK
  <2>4. InfoOK => InfoOK' BY <2>1, <2>2 DEF InfoOK, Starved, Waits
  <2>5. CrcOK => CrcOK' BY <2>1, <2>2 DEF CrcOK, Starved, Waits
  <2>6. CodeOK => CodeOK' BY <2>1, <2>2 DEF CodeOK, Starved
  <2> QED BY <2>1, <2>3, <2>4, <2>5, <2>6 DEF Session, Installed
<1> QED BY <1>1, <1>2, <1>3, <1>4, <1>5, <1>6 DEF Next

(***************************************************************************)
(* "boot successful" on the host is the truth: the whole program is in     *)
(* memory at its address and running, whatever bytes the line lost in      *)
(* either direction, whatever junk preceded the opcode, whatever text the  *)
(* program prints and however often put_code was interrupted and run       *)
(* again.                                                                  *)
(***************************************************************************)
THEOREM SuccessIsTrue == Spec => []SuccessMeansInstalled
<1> DEFINE Inv == Typed /\ PiPhase /\ OnLine /\ Session
<1>1. Init => Inv
  <2> SUFFICES ASSUME Init PROVE Inv OBVIOUS
  <2>1. Typed /\ PiPhase BY InitTyped
  <2>2. host.pc = "off" /\ host.buf = <<>> /\ p2h = <<>> BY DEF Init
  <2>3. <<>> \in Seq({17, 34}) /\ <<>> \in Seq(Byte \ {102}) OBVIOUS
  <2>4. OnLine BY <2>2, <2>3 DEF OnLine
  <2>5. Session BY <2>2 DEF Session
  <2> QED BY <2>1, <2>4, <2>5
<1>2. Inv /\ [Next]_vars => Inv'
  <2> SUFFICES ASSUME Inv, [Next]_vars PROVE Inv' OBVIOUS
  <2>1. Typed' /\ PiPhase' BY StepTyped
  <2>2. OnLine' BY OnLineStep
  <2>3. Session' BY <2>1, SessionStep
  <2> QED BY <2>1, <2>2, <2>3
<1>3. Inv => SuccessMeansInstalled
  BY HeaderMeans DEF Session, Installed, SuccessMeansInstalled
<1> HIDE DEF Inv
<1> QED BY <1>1, <1>2, <1>3, PTL DEF Spec
=============================================================================
