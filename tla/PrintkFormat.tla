---------------------------- MODULE PrintkFormat ----------------------------
(***************************************************************************)
(* What the formatting code of src/lib/printk_format.c and the number      *)
(* printers of src/drivers/uart.c emit: a text is the sequence of its      *)
(* characters.  A printk call is one conversion with its argument; the     *)
(* scanning of the format string up to the conversion is left out.         *)
(***************************************************************************)
EXTENDS Integers, Sequences, SequencesExt

CONSTANT HexDigits    \* four-bit digits of uint32_t and int (8 in the code)

ASSUME WordAssumption == HexDigits \in Nat \ {0}

\* The weight of a hexadecimal digit, what a shift by 4 * k divides by.
Pow16[k \in 0 .. HexDigits] == IF k = 0 THEN 1 ELSE 16 * Pow16[k - 1]

WordValues == Pow16[HexDigits]

Word == 0 .. WordValues - 1

\* The conversion (uint32_t)n.
AsWord(n) == n % WordValues

BASE16_CHARS == <<"0", "1", "2", "3", "4", "5", "6", "7", "8", "9",
                  "a", "b", "c", "d", "e", "f">>

UpperHex == <<"0", "1", "2", "3", "4", "5", "6", "7", "8", "9",
              "A", "B", "C", "D", "E", "F">>

\* The do-while loops: at least one digit, the least significant one first.
Buffered(base, n) ==
    LET digits[k \in Word] ==
            <<BASE16_CHARS[(k % base) + 1]>>
                \o (IF k \div base = 0 THEN <<>> ELSE digits[k \div base])
    IN  digits[n]

Zeros(n) == [i \in 1 .. n |-> "0"]

\* The buffer is emitted in the order it was filled.
Mutant_output_num(base, n, padding) ==
    Zeros(padding - Len(Buffered(base, n))) \o Buffered(base, n)

output_num(base, n, padding) ==
    Zeros(padding - Len(Buffered(base, n))) \o Reverse(Buffered(base, n))

\* The minus sign takes one place of the padding.
output_signed(n, padding) ==
    IF n < 0
    THEN <<"-">> \o output_num(10, AsWord(0 - AsWord(n)),
                               IF padding > 0 THEN padding - 1 ELSE 0)
    ELSE output_num(10, AsWord(n), padding)

\* One conversion of vprintk_with_putc: the numeric ones ...
PrintedNumber(conv, arg, padding) ==
    CASE conv = "b"  -> <<"0", "b">> \o output_num(2, AsWord(arg), 0)
      [] conv = "u"  -> output_num(10, AsWord(arg), 0)
      [] conv = "x"  -> output_num(16, AsWord(arg), 0)
      [] conv = "p"  -> <<"0", "x">> \o output_num(16, AsWord(arg), 0)
      [] conv = "d"  -> output_signed(arg, 0)
      [] conv = "0x" -> output_num(16, AsWord(arg), padding)
      [] conv = "0d" -> output_signed(arg, padding)

\* ... and printk_uart_putc, which every character goes through.
PutcUart(text) ==
    FlattenSeq([i \in 1 .. Len(text) |->
                   IF text[i] = "\n" THEN <<"\r", "\n">> ELSE <<text[i]>>])

-----------------------------------------------------------------------------
\* The digits are stored least significant first and sent from the end; zero
\* is sent on its own, the loop does not run.
UART_Send_Int(num) == IF num = 0 THEN <<"0">> ELSE Reverse(Buffered(10, num))

\* Every nibble of the word, leading zeros included.
UART_Send_Hex(num) ==
    <<"0", "x">> \o [i \in 1 .. HexDigits |->
                        UpperHex[((num \div Pow16[HexDigits - i]) % 16) + 1]]

\* A number printed by printk or by the UART's own printers.
NumberText(conv, arg, padding) ==
    CASE conv = "int" -> UART_Send_Int(arg)
      [] conv = "hex" -> UART_Send_Hex(arg)
      [] OTHER -> PrintedNumber(conv, arg, padding)
=============================================================================
