---------------------------- MODULE Mmio_proofs ----------------------------
(***************************************************************************)
(* Proofs about device emulation for every even byte size of at least 128  *)
(* values, any set of guests, of register contents and of trapped          *)
(* accesses, and FIFOs of any capacity.                                    *)
(*                                                                         *)
(* The arithmetic comes first: an access of one, two or four bytes divides *)
(* the word evenly, which is what makes truncation and sign extension      *)
(* agree with the architecture's definition of a load.                     *)
(***************************************************************************)
EXTENDS Mmio, TLAPS

\* The access sizes that mmio_decode accepts.
Sizes == {1, 2, 4}

-----------------------------------------------------------------------------
\* Division with remainder, for a divisor that is not a literal.
LEMMA DivMod ==
    ASSUME NEW a \in Int, NEW m \in Nat \ {0}
    PROVE  /\ a = m * (a \div m) + (a % m)
           /\ a \div m \in Int /\ a % m \in 0 .. m - 1
  BY SMT

\* A quotient and a remainder in range are the ones of \div and %.
LEMMA ModUnique ==
    ASSUME NEW m \in Nat \ {0}, NEW q \in Int, NEW r \in 0 .. m - 1
    PROVE  (m * q + r) % m = r
<1> DEFINE a == m * q + r
           p == a \div m
<1>1. a \in Int /\ p \in Int /\ a % m \in 0 .. m - 1 /\ a = m * p + (a % m)
  <2>1. m * q \in Int BY SMT
  <2>2. a \in Int BY <2>1
  <2> QED BY <2>2, DivMod
<1>2. m * (q - p) = (a % m) - r
  <2>1. m * (q - p) = m * q - m * p BY <1>1, SMT
  <2>2. m * q \in Int /\ m * p \in Int BY <1>1, SMT
  <2> QED BY <1>1, <2>1, <2>2
<1> HIDE DEF p
<1>3. ~ (q - p >= 1)
  <2> SUFFICES ASSUME q - p >= 1 PROVE FALSE OBVIOUS
  <2>1. m * (q - p) >= m BY <1>1, SMT
  <2> QED BY <1>1, <1>2, <2>1
<1>4. ~ (p - q >= 1)
  <2> SUFFICES ASSUME p - q >= 1 PROVE FALSE OBVIOUS
  <2>1. m * (q - p) <= 0 - m BY <1>1, SMT
  <2> QED BY <1>1, <1>2, <2>1
<1>5. q = p BY <1>1, <1>3, <1>4
<1> QED BY <1>1, <1>2, <1>5

\* A multiple leaves no remainder.
LEMMA Multiple ==
    ASSUME NEW m \in Nat \ {0}, NEW q \in Int
    PROVE  (m * q) % m = 0
<1>1. (m * q + 0) % m = 0 BY ModUnique
<1>2. m * q \in Int BY SMT
<1> QED BY <1>1, <1>2

\* A word is a whole number of bytes, halfwords or words, and is shorter than
\* none of them; the sizes are even and a word has room for two more bits.
LEMMA SizesDivide ==
    ASSUME NEW s \in Sizes
    PROVE  /\ Pow(s) \in Nat /\ Pow(s) >= 128
           /\ \E h \in Nat : Pow(s) = 2 * h
           /\ \E k \in Nat : /\ Pow(4) = Pow(s) * k
                             /\ s < 4 => Pow(4) >= 2 * Pow(s)
           /\ \E k \in Nat : Pow(s) = ByteValues * k
           /\ \E k \in Nat : Pow(4) - Pow(s) = ByteValues * k
           /\ Pow(s) >= ByteValues /\ Pow(4) >= Pow(s)
<1> DEFINE B == ByteValues
           B2 == B * B
           B3 == B * B2
           B4 == B2 * B2
<1>1. B \in Nat /\ B >= 128 /\ B % 2 = 0 BY MmioAssumption
<1>2. PICK h \in Nat : B = 2 * h
  <2>1. B \div 2 \in Nat /\ B = 2 * (B \div 2) BY <1>1
  <2> QED BY <2>1
<1>3. Pow(1) = B /\ Pow(2) = B2 /\ Pow(4) = B4
  <2>1. B * B * B * B = B4 BY <1>1, SMT
  <2> QED BY <2>1 DEF Pow
<1>4. /\ B2 \in Nat /\ B3 \in Nat /\ B4 \in Nat
      /\ B2 >= 2 * B /\ B2 >= B /\ B2 >= 128
  <2>1. B2 \in Nat BY <1>1, SMT
  <2>2. B3 \in Nat BY <1>1, <2>1, SMT
  <2>3. B4 \in Nat BY <2>1, SMT
  <2>4. B * B >= 2 * B BY <1>1, SMT
  <2> QED BY <1>1, <2>1, <2>2, <2>3, <2>4
<1>5. B4 = B * B3 /\ B4 >= 2 * B2 /\ B4 >= B2 /\ B4 >= 2 * B /\ B4 >= B /\ B4 >= 128
  <2>1. B4 = B * B3 BY <1>1, SMT
  <2> HIDE DEF B2, B3, B4
  <2>2. B2 * B2 >= 2 * B2 BY <1>4, SMT
  <2>3. B4 >= 2 * B2 BY <2>2 DEF B4
  <2> QED BY <1>1, <1>4, <2>1, <2>3
<1>6. B2 = 2 * (h * B) /\ B4 = 2 * (h * B3)
      /\ h * B \in Nat /\ h * B3 \in Nat
  <2>1. B2 = 2 * (h * B) BY <1>1, <1>2, SMT
  <2>2. B * B3 = 2 * (h * B3) BY <1>1, <1>2, <1>4, SMT
  <2>3. h * B \in Nat BY <1>1, <1>2, SMT
  <2>4. h * B3 \in Nat BY <1>4, <1>2, SMT
  <2> QED BY <2>1, <2>2, <2>3, <2>4, <1>5
<1>7. /\ B4 - B = B * (B3 - 1) /\ B4 - B2 = B * (B3 - B) /\ B4 - B4 = B * 0
      /\ B3 - 1 \in Nat /\ B3 - B \in Nat
  <2>1. B * (B3 - 1) = B * B3 - B /\ B * (B3 - B) = B * B3 - B * B
    BY <1>1, <1>4, SMT
  <2>2. B3 >= B2
    <3> HIDE DEF B2
    <3>1. B * B2 >= B2 BY <1>1, <1>4, SMT
    <3> QED BY <3>1
  <2>3. B * 0 = 0 BY <1>1, SMT
  <2> HIDE DEF B3, B4
  <2> QED BY <2>1, <2>2, <2>3, <1>1, <1>4, <1>5
<1> HIDE DEF B2, B3, B4
<1>8. CASE s = 1
  <2>1. Pow(4) = Pow(s) * B3 BY <1>3, <1>5, <1>8
  <2>2. Pow(s) = B * 1 BY <1>1, <1>3, <1>8
  <2>3. 1 \in Nat /\ Pow(4) - Pow(s) = B * (B3 - 1) BY <1>3, <1>7, <1>8
  <2>4. Pow(s) = 2 * h BY <1>2, <1>3, <1>8
  <2>5. \E n \in Nat : Pow(s) = 2 * n BY <2>4
  <2>6. s < 4 => Pow(4) >= 2 * Pow(s) BY <1>3, <1>5, <1>8
  <2>7. \E k \in Nat : Pow(4) = Pow(s) * k /\ (s < 4 => Pow(4) >= 2 * Pow(s))
    BY <1>4, <2>1, <2>6
  <2>8. \E k \in Nat : Pow(s) = ByteValues * k BY <2>2, <2>3
  <2>9. \E k \in Nat : Pow(4) - Pow(s) = ByteValues * k BY <1>7, <2>3
  <2>10. /\ Pow(s) \in Nat /\ Pow(s) >= 128
         /\ Pow(s) >= ByteValues /\ Pow(4) >= Pow(s)
    BY <1>1, <1>3, <1>4, <1>5, <1>8
  <2> QED BY <2>5, <2>7, <2>8, <2>9, <2>10
<1>9. CASE s = 2
  <2>1. Pow(4) = Pow(s) * B2 BY <1>3, <1>9 DEF B4
  <2>2. Pow(s) = B * B BY <1>3, <1>9 DEF B2
  <2> QED BY <1>1, <1>3, <1>4, <1>5, <1>6, <1>7, <1>9, <2>1, <2>2
<1>10. CASE s = 4
  <2>1. Pow(4) = Pow(s) * 1 BY <1>3, <1>4, <1>10
  <2>2. Pow(s) = B * B3 BY <1>3, <1>5, <1>10
  <2> QED BY <1>1, <1>3, <1>4, <1>5, <1>6, <1>7, <1>10, <2>1, <2>2
<1> QED BY <1>8, <1>9, <1>10 DEF Sizes

\* A word is a multiple of four: setting bit 1 stays within it.
LEMMA WordIsAligned == \E k \in Nat : Pow(4) = 4 * k
<1> DEFINE B == ByteValues
<1>1. PICK h \in Nat : Pow(2) = 2 * h BY SizesDivide DEF Sizes
<1>2. B \in Nat BY MmioAssumption
<1>3. Pow(4) = Pow(2) * Pow(2)
  <2>1. B * B * B * B = (B * B) * (B * B) BY <1>2, SMT
  <2> QED BY <2>1 DEF Pow
<1>4. (2 * h) * (2 * h) = 4 * (h * h) /\ h * h \in Nat BY SMT
<1> QED BY <1>1, <1>3, <1>4

\* Setting bit 1 of a register keeps it a word.
LEMMA BitStaysInWord == \A v \in Word : WithBit1(v) \in Word
<1> SUFFICES ASSUME NEW v \in Word PROVE WithBit1(v) \in Word OBVIOUS
<1>1. PICK k \in Nat : Pow(4) = 4 * k BY WordIsAligned
<1>2. v \in Int /\ 0 <= v /\ v < 4 * k BY <1>1 DEF Word
<1>3. WithBit1(v) \in Int /\ 0 <= WithBit1(v) /\ WithBit1(v) < 4 * k
  BY <1>2 DEF WithBit1
<1> QED BY <1>1, <1>3 DEF Word

(***************************************************************************)
(* What mmio_mask_value computes: the value truncated to the access size,  *)
(* with the bytes above it filled from its sign bit when it is extended.   *)
(***************************************************************************)
LEMMA MaskValue ==
    ASSUME NEW value \in Word, NEW s \in Sizes, NEW e \in BOOLEAN
    PROVE  LET m == Pow(s)
               r == mmio_mask_value(value, s, e)
           IN  /\ r \in Word
               /\ (r - value) % m = 0
               /\ IF e /\ s < 4
                  THEN 0 - m <= 2 * Signed(r) /\ 2 * Signed(r) < m
                  ELSE r < m
<1> DEFINE m == Pow(s)
           P == Pow(4)
           r == mmio_mask_value(value, s, e)
           v == value % m
           q == value \div m
<1>1. /\ m \in Nat /\ m >= 128 /\ P >= m
      /\ P \in Nat /\ (s < 4 => P >= 2 * m)
  BY SizesDivide DEF Sizes
<1>2. PICK h \in Nat : m = 2 * h BY SizesDivide
<1>3. PICK k \in Nat : P = m * k BY SizesDivide
<1>4. PICK j \in Nat : P = 4 * j BY WordIsAligned
<1>5. value \in Int /\ v \in 0 .. m - 1 /\ q \in Int /\ value = m * q + v
  <2>1. value \in Int /\ m \in Nat \ {0} BY <1>1 DEF Word
  <2> QED BY <2>1, DivMod
<1>6. s < 4 \/ s = 4 BY DEF Sizes
<1>7. \/ r = v /\ ~ (s < 4 /\ e /\ v >= m \div 2)
      \/ r = v + (P - m) /\ s < 4 /\ e /\ v >= m \div 2
  BY DEF mmio_mask_value
<1>8. m \div 2 = h /\ P \div 2 = 2 * j BY <1>2, <1>4
<1> HIDE DEF r, v, q, m, P
<1>9. r \in Int /\ 0 <= r /\ r < P
  BY <1>1, <1>5, <1>7
<1>10. (r - value) % m = 0
  <2>1. m * q \in Int /\ m * k \in Int BY <1>1, <1>5, SMT
  <2>2. m * (0 - q) = 0 - m * q /\ m * (k - q - 1) = m * k - m * q - m
    BY <1>1, <1>5, SMT
  <2>3. CASE r = v
    <3>1. r - value = m * (0 - q) BY <1>5, <2>1, <2>2, <2>3
    <3>2. 0 - q \in Int BY <1>5
    <3> QED BY <1>1, <3>1, <3>2, Multiple
  <2>4. CASE r = v + (P - m)
    <3>1. r - value = m * (k - q - 1) BY <1>1, <1>3, <1>5, <2>1, <2>2, <2>4
    <3>2. k - q - 1 \in Int BY <1>5
    <3> QED BY <1>1, <3>1, <3>2, Multiple
  <2> QED BY <1>7, <2>3, <2>4
<1>11. ASSUME e, s < 4
       PROVE  0 - m <= 2 * Signed(r) /\ 2 * Signed(r) < m
  <2>1. Signed(r) = IF r >= 2 * j THEN r - P ELSE r BY <1>8 DEF Signed, P
  <2> QED BY <1>1, <1>2, <1>4, <1>5, <1>7, <1>8, <1>11, <2>1
<1>12. ASSUME ~ (e /\ s < 4) PROVE r < m
  BY <1>1, <1>5, <1>7, <1>12
<1>13. r \in Word BY <1>1, <1>9 DEF Word, P
<1>14. IF e /\ s < 4 THEN 0 - m <= 2 * Signed(r) /\ 2 * Signed(r) < m ELSE r < m
  BY <1>11, <1>12
<1> QED BY <1>10, <1>13, <1>14 DEF r, m

\* A byte that is loaded is the low byte of what the guest gets.
LEMMA LowByteKept ==
    ASSUME NEW b \in 0 .. ByteValues - 1, NEW s \in Sizes, NEW e \in BOOLEAN
    PROVE  mmio_mask_value(b, s, e) % ByteValues = b
<1> DEFINE m == Pow(s)
           P == Pow(4)
           B == ByteValues
<1>1. B \in Nat \ {0} /\ m \in Nat /\ m >= B /\ P \in Nat
  <2>1. m \in Nat /\ m >= B /\ P >= m BY SizesDivide
  <2>2. P \in Nat BY SizesDivide DEF Sizes
  <2>3. B \in Nat /\ B # 0 BY MmioAssumption
  <2> QED BY <2>1, <2>2, <2>3
<1>2. PICK k \in Nat : P - m = B * k BY SizesDivide
<1>3. b % m = b
  <2>1. (m * 0 + b) % m = b BY <1>1, ModUnique, SMTT(30)
  <2>2. m * 0 = 0 BY <1>1, SMT
  <2> QED BY <2>1, <2>2
<1>4. (B * k + b) % B = b BY <1>1, ModUnique
<1>5. (B * 0 + b) % B = b BY <1>1, ModUnique
<1>6. B * 0 = 0 /\ B * k \in Int BY <1>1, SMT
<1>7. mmio_mask_value(b, s, e) \in {b, b + (P - m)}
  BY <1>3 DEF mmio_mask_value
<1>8. b + (P - m) = B * k + b BY <1>2, <1>6
<1>9. B * 0 + b = b BY <1>6
<1> QED BY <1>4, <1>5, <1>7, <1>8, <1>9

-----------------------------------------------------------------------------
\* An access that is decoded has one of the three sizes.
LEMMA DecodedSize ==
    ASSUME NEW f \in Faults, mmio_decode_ok(f)
    PROVE  /\ mmio_access_size(f.sas) \in Sizes
           /\ f.sse \in BOOLEAN /\ f.is_write \in BOOLEAN /\ f.offset \in Nat
  BY MmioAssumption DEF mmio_decode_ok, mmio_access_size, Sizes, FaultInfo

\* The first element of a sequence that is not empty.
LEMMA HeadTyped ==
    ASSUME NEW S, NEW q \in Seq(S), q # <<>> PROVE Head(q) \in S
  OBVIOUS

\* Every register that can be read holds a word; the data register a byte.
LEMMA DeviceValue ==
    ASSUME TypeOK, NEW g \in Guests, NEW offset \in Nat, Readable(offset)
    PROVE  /\ hv_vuart_read(g, offset) \in Word
           /\ offset = HV_GUEST_AUX_MU_IO_REG /\ rx # <<>> =>
                /\ hv_vuart_read(g, offset) = Head(rx)
                /\ Head(rx) \in 0 .. ByteValues - 1
<1>1. /\ Pow(4) \in Nat /\ Pow(4) >= ByteValues
      /\ ByteValues \in Nat /\ ByteValues >= 128
  BY SizesDivide, MmioAssumption DEF Sizes
<1>2. rx # <<>> => Head(rx) \in 0 .. ByteValues - 1
  <2>1. rx \in Seq(Bytes) BY DEF TypeOK
  <2>2. rx # <<>> => Head(rx) \in Bytes BY <2>1, HeadTyped
  <2> QED BY <2>2, MmioAssumption
<1>3. LineStatus \in Word BY <1>1 DEF LineStatus, Word
<1>4. \A r \in HvVirtualUart : vuarts[g][r] \in Word BY DEF TypeOK
<1>5. CASE offset = HV_GUEST_AUX_MU_IO_REG
  <2>1. hv_vuart_read(g, offset) = IF rx = <<>> THEN 0 ELSE Head(rx)
    BY <1>5 DEF hv_vuart_read, HV_GUEST_AUX_MU_IO_REG, HV_GUEST_AUX_MU_LSR_REG,
                HV_GUEST_AUX_MU_STAT_REG
  <2>2. 0 \in Word /\ 0 .. ByteValues - 1 \subseteq Word BY <1>1 DEF Word
  <2> QED BY <1>2, <2>1, <2>2
<1>6. CASE offset = HV_GUEST_AUX_MU_LSR_REG
  <2>1. hv_vuart_read(g, offset) = LineStatus
    BY <1>6 DEF hv_vuart_read, HV_GUEST_AUX_MU_IO_REG, HV_GUEST_AUX_MU_LSR_REG,
                HV_GUEST_AUX_MU_STAT_REG
  <2>2. offset # HV_GUEST_AUX_MU_IO_REG
    BY <1>6 DEF HV_GUEST_AUX_MU_IO_REG, HV_GUEST_AUX_MU_LSR_REG
  <2> QED BY <1>3, <2>1, <2>2
<1>7. CASE offset \in HvVirtualUart
  <2>1. offset # HV_GUEST_AUX_MU_IO_REG /\ offset # HV_GUEST_AUX_MU_LSR_REG
    BY <1>7 DEF HvVirtualUart, PlainRegs, HV_GUEST_AUX_ENABLES,
                HV_GUEST_AUX_MU_IO_REG, HV_GUEST_AUX_MU_LSR_REG,
                HV_GUEST_AUX_MU_MSR_REG, HV_GUEST_AUX_MU_STAT_REG
  <2>2. WithBit1(vuarts[g][offset]) \in Word BY <1>4, <1>7, BitStaysInWord
  <2> QED BY <1>4, <1>7, <2>1, <2>2 DEF hv_vuart_read
<1> QED BY <1>5, <1>6, <1>7 DEF Readable

\* What a store hands to the device is a word.
LEMMA StoredValue ==
    ASSUME NEW f \in Faults, mmio_decode_ok(f), NEW seen \in Values, NEW usr \in Values
    PROVE  mmio_mask_value(FrameSlot(f.srt, seen, usr), mmio_access_size(f.sas), FALSE)
             \in Word
<1>1. FrameSlot(f.srt, seen, usr) \in Word BY MmioAssumption DEF FrameSlot
<1> QED BY <1>1, DecodedSize, MaskValue

\* What a load puts into the guest's register.
LEMMA LoadedValue ==
    ASSUME TypeOK, NEW g \in Guests, NEW f \in Faults, mmio_decode_ok(f),
           ~ f.is_write, DeviceAccepts(f)
    PROVE  LET value == hv_vuart_read(g, f.offset)
               size == mmio_access_size(f.sas)
               result == mmio_mask_value(value, size, f.sse)
           IN  /\ value \in Word /\ result \in Word
               /\ (result - value) % Pow(size) = 0
               /\ IF f.sse /\ size < 4
                  THEN 0 - Pow(size) <= 2 * Signed(result)
                       /\ 2 * Signed(result) < Pow(size)
                  ELSE result < Pow(size)
               /\ f.offset = HV_GUEST_AUX_MU_IO_REG /\ rx # <<>> =>
                    result % ByteValues = Head(rx)
<1> DEFINE value == hv_vuart_read(g, f.offset)
           size == mmio_access_size(f.sas)
           result == mmio_mask_value(value, size, f.sse)
<1>1. size \in Sizes /\ f.sse \in BOOLEAN /\ f.offset \in Nat BY DecodedSize
<1>2. Readable(f.offset) BY DEF DeviceAccepts
<1>3. value \in Word BY <1>1, <1>2, DeviceValue
<1>4. f.offset = HV_GUEST_AUX_MU_IO_REG /\ rx # <<>> =>
        value = Head(rx) /\ Head(rx) \in 0 .. ByteValues - 1
  BY <1>1, <1>2, DeviceValue
<1> HIDE DEF value, size
<1>5. /\ result \in Word
      /\ (result - value) % Pow(size) = 0
      /\ IF f.sse /\ size < 4
         THEN 0 - Pow(size) <= 2 * Signed(result) /\ 2 * Signed(result) < Pow(size)
         ELSE result < Pow(size)
  BY <1>1, <1>3, MaskValue
<1>6. f.offset = HV_GUEST_AUX_MU_IO_REG /\ rx # <<>> => result % ByteValues = Head(rx)
  BY <1>1, <1>4, LowByteKept
<1> QED BY <1>3, <1>5, <1>6 DEF value, size

-----------------------------------------------------------------------------
\* Boot: the type invariant.
LEMMA InitTyped == Init => TypeOK
<1> SUFFICES ASSUME Init PROVE TypeOK OBVIOUS
<1>1. 0 \in Word
  <2>1. Pow(4) \in Nat /\ Pow(4) >= 128 BY SizesDivide DEF Sizes
  <2> QED BY <2>1 DEF Word
<1>2. HV_GUEST_AUX_ENABLES \in HvVirtualUart BY DEF HvVirtualUart
<1>3. RxFifo \in Nat /\ TxFifo \in Nat BY MmioAssumption
<1>4. last.dev \in Word /\ last.seen \in Word BY <1>1 DEF Init, NoAccess
<1> QED BY <1>1, <1>2, <1>3, <1>4 DEF Init, TypeOK

\* A stopped guest leaves well-formed history.
LEMMA StopTyped ==
    ASSUME TypeOK, NEW g \in Guests, NEW f \in Faults,
           stop_current_guest_vcpu(g, f)
    PROVE  stopped' \subseteq Guests /\ last'.dev \in Word /\ last'.seen \in Word
<1>1. 0 \in Word
  <2>1. Pow(4) \in Nat /\ Pow(4) >= 128 BY SizesDivide DEF Sizes
  <2> QED BY <2>1 DEF Word
<1> QED BY <1>1 DEF stop_current_guest_vcpu, Record, TypeOK

\* An emulated or refused store keeps the type invariant.
LEMMA StoreTyped ==
    ASSUME TypeOK, NEW g \in Guests, NEW f \in Faults, NEW seen \in Values,
           NEW usr \in Values, MmioStore(g, f, seen, usr)
    PROVE  TypeOK'
<1> DEFINE value == mmio_mask_value(FrameSlot(f.srt, seen, usr),
                                    mmio_access_size(f.sas), FALSE)
           isIO == f.offset = HV_GUEST_AUX_MU_IO_REG
<1>1. /\ mmio_decode_ok(f) /\ f.is_write /\ DeviceAccepts(f)
      /\ isIO => Len(tx) < TxFifo
      /\ tx' = IF isIO THEN Append(tx, value % ByteValues) ELSE tx
      /\ vuarts' = IF isIO THEN vuarts ELSE StoredRegs(g, f.offset, value)
      /\ last' = Record(g, f, TRUE, value, seen)
      /\ rx' = rx /\ stopped' = stopped
  BY DEF MmioStore
<1>2. value \in Word BY <1>1, StoredValue
<1> HIDE DEF value
<1>3. last'.dev \in Word /\ last'.seen \in Word
  BY <1>1, <1>2, MmioAssumption DEF Record
<1>4. tx' \in Seq(0 .. ByteValues - 1) /\ Len(tx') <= TxFifo
  <2>1. value \in Int /\ ByteValues \in Nat \ {0} BY <1>2, MmioAssumption DEF Word
  <2>2. value % ByteValues \in 0 .. ByteValues - 1 BY <2>1, DivMod
  <2>3. tx \in Seq(0 .. ByteValues - 1) /\ Len(tx) <= TxFifo /\ TxFifo \in Nat
    BY MmioAssumption DEF TypeOK
  <2> DEFINE x == value % ByteValues
  <2> HIDE DEF x
  <2>4. /\ Append(tx, x) \in Seq(0 .. ByteValues - 1)
        /\ Len(Append(tx, x)) = Len(tx) + 1
    BY <2>2, <2>3 DEF x
  <2>5. CASE isIO
    <3>1. tx' = Append(tx, x) /\ Len(tx) < TxFifo BY <1>1, <2>5 DEF x
    <3> QED BY <2>3, <2>4, <3>1
  <2>6. CASE ~ isIO
    <3>1. tx' = tx BY <1>1, <2>6
    <3> QED BY <2>3, <3>1
  <2> QED BY <2>5, <2>6
<1>5. /\ vuarts' \in [Guests -> [HvVirtualUart -> Word]]
      /\ \A h \in Guests : vuarts'[h][HV_GUEST_AUX_ENABLES] \in 0 .. 1
  <2>1. CASE isIO BY <1>1, <2>1 DEF TypeOK
  <2>2. CASE ~ isIO
    <3> DEFINE x == IF f.offset = HV_GUEST_AUX_ENABLES THEN value % 2 ELSE value
    <3>1. f.offset \in HvVirtualUart BY <1>1, <2>2 DEF DeviceAccepts, Writable
    <3>2. /\ value % 2 \in 0 .. 1
          /\ x \in Word
      <4>1. Pow(4) \in Nat /\ Pow(4) >= 128 BY SizesDivide DEF Sizes
      <4>2. value % 2 \in 0 .. 1 BY <1>2 DEF Word
      <4> QED BY <1>2, <4>1, <4>2 DEF Word
    <3>3. vuarts' = [vuarts EXCEPT ![g][f.offset] = x]
      BY <1>1, <2>2 DEF StoredRegs
    <3>4. f.offset = HV_GUEST_AUX_ENABLES => x \in 0 .. 1 BY <3>2
    <3> HIDE DEF x
    <3>5. vuarts' \in [Guests -> [HvVirtualUart -> Word]]
      BY <3>1, <3>2, <3>3 DEF TypeOK
    <3>6. ASSUME NEW h \in Guests PROVE vuarts'[h][HV_GUEST_AUX_ENABLES] \in 0 .. 1
      BY <3>1, <3>3, <3>4 DEF TypeOK
    <3> QED BY <3>5, <3>6
  <2> QED BY <2>1, <2>2
<1> QED BY <1>1, <1>3, <1>4, <1>5 DEF TypeOK

\* An emulated or refused load keeps the type invariant.
LEMMA LoadTyped ==
    ASSUME TypeOK, NEW g \in Guests, NEW f \in Faults, NEW seen \in Values,
           MmioLoad(g, f, seen)
    PROVE  TypeOK'
<1> DEFINE value == hv_vuart_read(g, f.offset)
           result == mmio_mask_value(value, mmio_access_size(f.sas), f.sse)
<1>1. /\ mmio_decode_ok(f) /\ ~ f.is_write /\ DeviceAccepts(f)
      /\ DeviceReads(f) /\ vuarts' = vuarts /\ tx' = tx
  BY DEF MmioLoad
<1>2. value \in Word /\ result \in Word BY <1>1, LoadedValue
<1>3. rx' \in Seq(Bytes) /\ Len(rx') <= RxFifo
  BY <1>1, MmioAssumption DEF DeviceReads, TypeOK
<1>4. stopped' \subseteq Guests /\ last'.dev \in Word /\ last'.seen \in Word
  <2>1. CASE FrameReg(f.srt)
    <3>1. /\ last' = Record(g, f, TRUE, value, SeenAfter(f.srt, seen, result))
          /\ stopped' = stopped
      BY <2>1 DEF MmioLoad
    <3>2. SeenAfter(f.srt, seen, result) \in Word
      BY <1>2, MmioAssumption DEF SeenAfter
    <3> QED BY <1>2, <3>1, <3>2 DEF Record, TypeOK
  <2>2. CASE ~ FrameReg(f.srt)
    <3>1. stop_current_guest_vcpu(g, f) BY <2>2 DEF MmioLoad
    <3> QED BY <3>1, StopTyped
  <2> QED BY <2>1, <2>2
<1> QED BY <1>1, <1>3, <1>4 DEF TypeOK

\* Every step keeps the type invariant.
LEMMA StepTyped == TypeOK /\ [Next]_vars => TypeOK'
<1> SUFFICES ASSUME TypeOK, [Next]_vars PROVE TypeOK' OBVIOUS
<1>1. ASSUME NEW g \in Guests, NEW f \in Faults, AbortStops(g, f) PROVE TypeOK'
  <2>1. stop_current_guest_vcpu(g, f) /\ UNCHANGED <<vuarts, rx, tx>>
    BY <1>1 DEF AbortStops
  <2> QED BY <2>1, StopTyped DEF TypeOK
<1>2. ASSUME NEW b \in Bytes, Arrive(b) PROVE TypeOK'
  BY <1>2, MmioAssumption DEF Arrive, TypeOK
<1>3. ASSUME Drain PROVE TypeOK'
  BY <1>3, MmioAssumption DEF Drain, TypeOK
<1>4. ASSUME UNCHANGED vars PROVE TypeOK'
  BY <1>4 DEF vars, TypeOK
<1> QED BY <1>1, <1>2, <1>3, <1>4, StoreTyped, LoadTyped DEF Next, handle_guest_abort

(***************************************************************************)
(* The registers of every virtual UART are words, the enable register has  *)
(* one bit, the FIFOs never exceed their capacity, and neither a device    *)
(* value nor a guest register leaves its width, for any byte size.         *)
(***************************************************************************)
THEOREM MmioTypeCorrect == Spec => []TypeOK
  BY InitTyped, StepTyped, PTL DEF Spec

-----------------------------------------------------------------------------
\* A load leaves in the guest's register what the device returned, extended.
LEMMA LoadExtends ==
    ASSUME TypeOK, NEW g \in Guests, NEW f \in Faults, NEW seen \in Values,
           MmioLoad(g, f, seen)
    PROVE  LoadsExtend'
<1> DEFINE value == hv_vuart_read(g, f.offset)
           size == mmio_access_size(f.sas)
           result == mmio_mask_value(value, size, f.sse)
<1>1. mmio_decode_ok(f) /\ ~ f.is_write /\ DeviceAccepts(f) BY DEF MmioLoad
<1>2. /\ (result - value) % Pow(size) = 0
      /\ IF f.sse /\ size < 4
         THEN 0 - Pow(size) <= 2 * Signed(result) /\ 2 * Signed(result) < Pow(size)
         ELSE result < Pow(size)
  BY <1>1, LoadedValue
<1>3. CASE FrameReg(f.srt)
  <2>1. last' = Record(g, f, TRUE, value, SeenAfter(f.srt, seen, result))
    BY <1>3 DEF MmioLoad
  <2> HIDE DEF value, size, result
  <2>2. /\ last'.size = size /\ last'.dev = value /\ last'.sse = f.sse
        /\ last'.srt = f.srt
    BY <2>1 DEF Record, size
  <2>3. last'.srt # 14 => last'.seen = result
    BY <2>1 DEF Record, SeenAfter
  <2> QED BY <1>2, <2>2, <2>3 DEF LoadsExtend
<1>4. CASE ~ FrameReg(f.srt)
  <2>1. stop_current_guest_vcpu(g, f) BY <1>4 DEF MmioLoad
  <2> QED BY <2>1 DEF stop_current_guest_vcpu, Record, LoadsExtend
<1> QED BY <1>3, <1>4

\* Every step keeps that true of the last load.
LEMMA StepExtends == TypeOK /\ LoadsExtend /\ [Next]_vars => LoadsExtend'
<1> SUFFICES ASSUME TypeOK, LoadsExtend, [Next]_vars PROVE LoadsExtend' OBVIOUS
<1>1. ASSUME NEW g \in Guests, NEW f \in Faults, AbortStops(g, f) PROVE LoadsExtend'
  BY <1>1 DEF AbortStops, stop_current_guest_vcpu, Record, LoadsExtend
<1>2. ASSUME NEW g \in Guests, NEW f \in Faults, NEW seen \in Values,
             NEW usr \in Values, MmioStore(g, f, seen, usr)
      PROVE  LoadsExtend'
  <2>1. last'.is_write BY <1>2 DEF MmioStore, Record
  <2> QED BY <2>1 DEF LoadsExtend
<1>3. ASSUME UNCHANGED last PROVE LoadsExtend' BY <1>3 DEF LoadsExtend
<1>4. ASSUME NEW b \in Bytes, Arrive(b) PROVE UNCHANGED last BY <1>4 DEF Arrive
<1>5. ASSUME Drain PROVE UNCHANGED last BY <1>5 DEF Drain
<1>6. ASSUME UNCHANGED vars PROVE UNCHANGED last BY <1>6 DEF vars
<1> QED BY <1>1, <1>2, <1>3, <1>4, <1>5, <1>6, LoadExtends DEF Next, handle_guest_abort

(***************************************************************************)
(* mmio_mask_value is the architecture's zero and sign extension, for all  *)
(* sizes and all register contents: what a guest finds in its register     *)
(* after a load is the number in range that is congruent to the device's.  *)
(***************************************************************************)
THEOREM LoadsAreExtended == Spec => []LoadsExtend
<1>1. Init => LoadsExtend BY DEF Init, NoAccess, LoadsExtend
<1> QED BY <1>1, StepExtends, MmioTypeCorrect, PTL DEF Spec

-----------------------------------------------------------------------------
(***************************************************************************)
(* No access of one guest, whatever it is, changes a virtual device        *)
(* register of another one.                                                *)
(***************************************************************************)
THEOREM DevicesArePrivate == Spec => RegistersPrivate
<1> DEFINE A == \A g \in Guests : last' # last /\ last'.guest # g =>
                                     vuarts'[g] = vuarts[g]
<1>1. TypeOK /\ [Next]_vars => [A]_vars
  <2> SUFFICES ASSUME TypeOK, Next PROVE A OBVIOUS
  <2>1. ASSUME vuarts' = vuarts PROVE A BY <2>1
  <2>2. ASSUME NEW g \in Guests, NEW f \in Faults, NEW seen \in Values,
               NEW usr \in Values, MmioStore(g, f, seen, usr)
        PROVE  A
    <3>1. last'.guest = g BY <2>2 DEF MmioStore, Record
    <3>2. ASSUME NEW h \in Guests, h # g PROVE vuarts'[h] = vuarts[h]
      BY <2>2, <3>2 DEF MmioStore, StoredRegs, TypeOK
    <3> QED BY <3>1, <3>2
  <2>3. ASSUME NEW g \in Guests, NEW f \in Faults, AbortStops(g, f) PROVE A
    BY <2>1, <2>3 DEF AbortStops
  <2>4. ASSUME NEW g \in Guests, NEW f \in Faults, NEW seen \in Values,
               MmioLoad(g, f, seen)
        PROVE  A
    BY <2>1, <2>4 DEF MmioLoad
  <2>5. ASSUME NEW b \in Bytes, Arrive(b) PROVE A BY <2>1, <2>5 DEF Arrive
  <2>6. ASSUME Drain PROVE A BY <2>1, <2>6 DEF Drain
  <2> HIDE DEF A
  <2> QED BY <2>2, <2>3, <2>4, <2>5, <2>6 DEF Next, handle_guest_abort
<1> QED BY <1>1, MmioTypeCorrect, PTL DEF Spec, RegistersPrivate

(***************************************************************************)
(* A received byte is never dropped on the way: the step that takes it     *)
(* from the FIFO puts it into the reading guest's register, or ends the    *)
(* guest.                                                                  *)
(***************************************************************************)
THEOREM NoInputLost == Spec => InputDelivered
<1> DEFINE A == Len(rx') < Len(rx) =>
                  \/ last'.ok /\ (last'.srt # 14 => last'.seen % ByteValues = Head(rx))
                  \/ last'.guest \in stopped' \ stopped
<1>1. TypeOK /\ [Next]_vars => [A]_vars
  <2> SUFFICES ASSUME TypeOK, Next PROVE A OBVIOUS
  <2>0. Len(rx) \in Nat BY DEF TypeOK
  <2>1. ASSUME rx' = rx PROVE A BY <2>0, <2>1
  <2>2. ASSUME NEW g \in Guests, g \notin stopped, NEW f \in Faults,
               NEW seen \in Values, MmioLoad(g, f, seen)
        PROVE  A
    <3> DEFINE value == hv_vuart_read(g, f.offset)
               size == mmio_access_size(f.sas)
               result == mmio_mask_value(value, size, f.sse)
    <3>1. mmio_decode_ok(f) /\ ~ f.is_write /\ DeviceAccepts(f) /\ DeviceReads(f)
      BY <2>2 DEF MmioLoad
    <3>2. CASE ~ (f.offset = HV_GUEST_AUX_MU_IO_REG /\ rx # <<>>)
      BY <2>1, <3>1, <3>2 DEF DeviceReads
    <3>3. CASE f.offset = HV_GUEST_AUX_MU_IO_REG /\ rx # <<>>
      <4>1. result % ByteValues = Head(rx) BY <3>1, <3>3, LoadedValue
      <4>2. CASE FrameReg(f.srt)
        <5>1. last' = Record(g, f, TRUE, value, SeenAfter(f.srt, seen, result))
          BY <2>2, <4>2 DEF MmioLoad
        <5> HIDE DEF value, result
        <5> QED BY <4>1, <5>1 DEF Record, SeenAfter
      <4>3. CASE ~ FrameReg(f.srt)
        <5>1. stop_current_guest_vcpu(g, f) BY <2>2, <4>3 DEF MmioLoad
        <5> QED BY <2>2, <5>1 DEF stop_current_guest_vcpu, Record
      <4> QED BY <4>2, <4>3
    <3> QED BY <3>2, <3>3
  <2>3. ASSUME NEW g \in Guests, NEW f \in Faults, AbortStops(g, f) PROVE A
    BY <2>1, <2>3 DEF AbortStops
  <2>4. ASSUME NEW g \in Guests, NEW f \in Faults, NEW seen \in Values,
               NEW usr \in Values, MmioStore(g, f, seen, usr)
        PROVE  A
    BY <2>1, <2>4 DEF MmioStore
  <2>5. ASSUME NEW b \in Bytes, Arrive(b) PROVE A
    BY <2>0, <2>5 DEF Arrive, TypeOK
  <2>6. ASSUME Drain PROVE A BY <2>1, <2>6 DEF Drain
  <2> HIDE DEF A
  <2> QED BY <2>2, <2>3, <2>4, <2>5, <2>6 DEF Next, handle_guest_abort
<1> QED BY <1>1, MmioTypeCorrect, PTL DEF Spec, InputDelivered

(***************************************************************************)
(* A guest that is refused an access makes no further one; the refused     *)
(* access sends nothing and writes no device register, and it takes a byte *)
(* of input only if it is a load of the data register into r13 or r15.     *)
(***************************************************************************)
THEOREM RefusedGuestStops == Spec => RefusalIsFinal
<1> DEFINE A == /\ stopped' # stopped =>
                      /\ vuarts' = vuarts /\ tx' = tx /\ ~ last'.ok
                      /\ rx' # rx => /\ rx' = Tail(rx)
                                     /\ ~ last'.is_write
                                     /\ last'.offset = HV_GUEST_AUX_MU_IO_REG
                                     /\ ~ FrameReg(last'.srt)
                /\ last' # last => last'.guest \notin stopped
<1>1. [Next]_vars => [A]_vars
  <2> SUFFICES ASSUME Next PROVE A OBVIOUS
  <2>1. ASSUME NEW g \in Guests, g \notin stopped, NEW f \in Faults, AbortStops(g, f)
        PROVE  A
    BY <2>1 DEF AbortStops, stop_current_guest_vcpu, Record
  <2>2. ASSUME NEW g \in Guests, g \notin stopped, NEW f \in Faults,
               NEW seen \in Values, NEW usr \in Values, MmioStore(g, f, seen, usr)
        PROVE  A
    BY <2>2 DEF MmioStore, Record
  <2>3. ASSUME NEW g \in Guests, g \notin stopped, NEW f \in Faults,
               NEW seen \in Values, MmioLoad(g, f, seen)
        PROVE  A
    BY <2>3 DEF MmioLoad, DeviceReads, stop_current_guest_vcpu, Record
  <2>4. ASSUME NEW b \in Bytes, Arrive(b) PROVE A BY <2>4 DEF Arrive
  <2>5. ASSUME Drain PROVE A BY <2>5 DEF Drain
  <2> HIDE DEF A
  <2> QED BY <2>1, <2>2, <2>3, <2>4, <2>5 DEF Next, handle_guest_abort
<1> QED BY <1>1, PTL DEF Spec, RefusalIsFinal
=============================================================================
