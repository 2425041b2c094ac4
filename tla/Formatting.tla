---------------------------- MODULE Formatting ------------------------------
(***************************************************************************)
(* The number conversions and the padding of printf.  The kernel has three *)
(* copies of them: c_io.c, video/gconsole.cpp and serial.c.  Words are     *)
(* WordBits wide (32 in the code) and signed; a text is a sequence of      *)
(* characters, and Digit[n] is the character of digit n.                   *)
(***************************************************************************)
EXTENDS Integers, Sequences, SequencesExt

CONSTANT WordBits

\* The word that has no opposite has two decimal digits at least.
ASSUME WordIsWide == WordBits \in Nat /\ WordBits >= 5

Digit == <<"1", "2", "3", "4", "5", "6", "7", "8", "9", "A", "B", "C", "D",
           "E", "F">>
DigitOf(n) == IF n = 0 THEN "0" ELSE Digit[n]

\* Powers of two.
Power[k \in Nat] == IF k = 0 THEN 1 ELSE 2 * Power[k - 1]

Half == Power[WordBits - 1]
Word == -Half .. Half - 1

\* A result that does not fit wraps around, as the compiled code does.
Wrap(v) == ((v + Half) % (2 * Half)) - Half

\* C divides towards zero.
Quotient(v, d) == IF v < 0 THEN -((-v) \div d) ELSE v \div d
Rest(v, d) == v - d * Quotient(v, d)

\* cvtdec0: the quotient is negative only for the word that has no opposite;
\* 214748364 and 8 are its digits.
cvtdec0(value) ==
  LET text[v \in Word] ==
        LET odd == Quotient(v, 10) < 0
            q == IF odd THEN Half \div 10 ELSE Quotient(v, 10)
            d == IF odd THEN Half % 10 ELSE Rest(v, 10)
        IN (IF q # 0 THEN text[q] ELSE <<>>) \o <<DigitOf(d)>>
  IN text[value]

cvtdec_NoSign(value) == cvtdec0(IF value < 0 THEN Wrap(-value) ELSE value)
cvtdec(value) ==
  IF value < 0 THEN <<"-">> \o cvtdec0(Wrap(-value)) ELSE cvtdec0(value)

\* The digits of a word in groups of bits, the first with what is left over,
\* and without the zeros in front: cvthex, 8 digits, and cvtoct, 11.
Grouped(value, bits) ==
  LET n == (WordBits + bits - 1) \div bits
      u == value % (2 * Half)
      digit == [k \in 1 .. n |-> (u \div Power[bits * (n - k)]) % Power[bits]]
      first == CHOOSE k \in 1 .. n :
                 /\ k = n \/ digit[k] # 0
                 /\ \A j \in 1 .. k - 1 : digit[j] = 0
  IN [k \in 1 .. n - first + 1 |-> DigitOf(digit[first + k - 1])]

cvthex(value) == Grouped(value, 4)
cvtoct(value) == Grouped(value, 3)

pad(extra, c) == [k \in 1 .. (IF extra > 0 THEN extra ELSE 0) |-> c]

\* padstr: what is written for a text in a field of some width.
padstr(str, width, left, c) ==
  LET fill == pad(width - Len(str), c)
  IN IF left THEN str \o fill ELSE fill \o str

\* A format code: [type, width, left, zero], and its argument.
Converted(f, arg) ==
  CASE f.type = "d" -> cvtdec(arg)
    [] f.type = "x" -> cvthex(arg)
    [] f.type = "o" -> cvtoct(arg)
    [] f.type = "s" -> arg
    [] f.type = "c" -> <<arg>>

Field(f, arg) ==
  padstr(Converted(f, arg), f.width, f.left, IF f.zero THEN "0" ELSE " ")

\* The value that a text of digits stands for in a base.
ValueOf(text, base) ==
  LET digit(c) == CHOOSE n \in 0 .. base - 1 : DigitOf(n) = c
      value[k \in 0 .. Len(text)] ==
        IF k = 0 THEN 0 ELSE value[k - 1] * base + digit(text[k])
  IN value[Len(text)]
=============================================================================
