------------------------------ MODULE Numerals ------------------------------
(***************************************************************************)
(* Numbers as text: black_serial_put_dec and put_hex, black_vga_put_dec    *)
(* and put_hex, the same loops written out in procfs.c and desktop.c, the  *)
(* %d of black_serial_printf and black_klog, and atoi of the user library. *)
(* A digit is its value; other characters have codes from 16 on.           *)
(***************************************************************************)
EXTENDS Integers, Sequences, SequencesExt

CONSTANT BITS  \* the width of a word: 32 in the code

Minus == 16

Unsigned(v) == v % 2^BITS
Signed(v) == IF Unsigned(v) < 2^(BITS - 1) THEN Unsigned(v) ELSE Unsigned(v) - 2^BITS

\* The digits are found from the last to the first.
RECURSIVE LowDigits(_)
LowDigits(v) == IF v = 0 THEN << >> ELSE <<v % 10>> \o LowDigits(v \div 10)
PutDec(v) == IF v = 0 THEN <<0>> ELSE Reverse(LowDigits(v))

PutHex(v) == [i \in 1 .. BITS \div 4 |-> (v \div 16^((BITS \div 4) - i)) % 16]

\* The %d of the formats: the least number is its own negative.
PrintInt(v) == IF v < 0 THEN <<Minus>> \o PutDec(Unsigned(-v)) ELSE PutDec(v)

\* The number that a text begins with, from place i, in a word.
DigitsFrom(s, i) ==
  LET ends == {j \in i .. Len(s) : s[j] > 9}
  IN IF ends = {} THEN Len(s) ELSE (CHOOSE j \in ends : \A k \in ends : j <= k) - 1
NumberFrom(s, i) ==
  FoldLeft(LAMBDA a, d : Signed(a * 10 + d), 0, SubSeq(s, i, DigitsFrom(s, i)))

Atoi(s) == IF s[1] = Minus THEN Signed(-NumberFrom(s, 2)) ELSE NumberFrom(s, 1)
=============================================================================
