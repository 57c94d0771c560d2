-------------------------------- MODULE Printf --------------------------------
(***************************************************************************)
(* vprintk_func, the formatter behind printf and printk                    *)
(* (libc/stdio/printf.c).  A format is a sequence of characters; where     *)
(* nothing depends on the letters of a text between two directives, one    *)
(* element stands for all of it.  putchar never returns EOF for a          *)
(* character, so that every text is printed to its end.                    *)
(***************************************************************************)
EXTENDS Integers, Sequences, SequencesExt, FiniteSetsExt

CONSTANTS
  INT_BITS,    \* the width of int
  LONG_BITS,   \* the width of long
  Argument,    \* the numbers and
  Text         \* the texts that are printed in pieces

ASSUME PrintfAssumption == INT_BITS \in Nat \ {0} /\ LONG_BITS \in Nat \ {0}

\* What is printed as an int is one.
ASSUME ArgumentAssumption ==
  /\ 2^INT_BITS = 2 * 2^(INT_BITS - 1) /\ 2^(INT_BITS - 1) > 0 /\ 2^LONG_BITS > 0
  /\ \A v \in Argument : v \in Int /\ -(2^(INT_BITS - 1)) <= v /\ v < 2^(INT_BITS - 1)
  /\ \A t \in Text : t \in Seq(STRING)

Digit == <<"0", "1", "2", "3", "4", "5", "6", "7", "8", "9",
           "a", "b", "c", "d", "e", "f">>

\* The digits come out backwards and are turned round; zero has none.
itoa_internal(value, base) ==
  LET digits[num \in Nat] ==
        IF num = 0 THEN << >>
                   ELSE <<Digit[(num % base) + 1]>> \o digits[num \div base]
  IN  Reverse(digits[value])

itoa_unsigned(value, base) ==
  IF value = 0 THEN <<"0">> ELSE itoa_internal(value, base)

itoa_signed(value, base) ==
  IF value < 0 THEN <<"-">> \o itoa_internal(-value, base)
               ELSE itoa_unsigned(value, base)

\* An argument as it is assigned to an int, or taken as an unsigned long.
AsInt(v) == ((v + 2^(INT_BITS - 1)) % (2^INT_BITS)) - 2^(INT_BITS - 1)
AsUnsignedLong(v) == v % (2^LONG_BITS)

Directive == {"c", "s", "d", "u", "x"}

\* What a directive prints of its argument, a text for %c and %s.
Converted(directive, arg) ==
  CASE directive \in {"c", "s"} -> arg
    [] directive = "d" -> itoa_signed(AsInt(arg), 10)
    [] directive = "u" -> itoa_unsigned(AsUnsignedLong(arg), 10)
    [] directive = "x" -> itoa_unsigned(AsUnsignedLong(arg), 16)

\* The output so far and one more character; libk's putchar hands it to the
\* terminal and returns it.
putchar(out, ic) == Append(out, ic)
print(out, data) == FoldLeft(putchar, out, data)

\* Mutant: the first of two % is not skipped.
vprintk_keeps(format, args) ==
  LET n == Len(format)
      At(i) == IF i <= n THEN format[i] ELSE "NUL"
      TextEnd(from) == Min({i \in from + 1..n : format[i] = "%"} \cup {n + 1})
      printed[i \in 1..n + 1] == [a \in Nat |->
        IF i > n THEN << >>
        ELSE IF At(i) # "%" \/ At(i + 1) = "%"
        THEN print(<< >>, SubSeq(format, i, TextEnd(i) - 1)) \o printed[TextEnd(i)][a]
        ELSE IF At(i + 1) \in Directive
        THEN Converted(At(i + 1), args[a]) \o printed[i + 2][a + 1]
        ELSE SubSeq(format, i, n)]
  IN  printed[1][1]

\* What is printed from position i of the format on, the arguments from a on
\* being left.  A text goes to the next %, whose first character is not looked
\* at again; an unknown directive prints the rest of the format as it is.
vprintk_func(format, args) ==
  LET n == Len(format)
      At(i) == IF i <= n THEN format[i] ELSE "NUL"
      TextEnd(from) == Min({i \in from + 1..n : format[i] = "%"} \cup {n + 1})
      printed[i \in 1..n + 1] == [a \in Nat |->
        IF i > n THEN << >>
        ELSE IF At(i) # "%" \/ At(i + 1) = "%"
        THEN LET from == IF At(i) = "%" THEN i + 1 ELSE i
             IN  SubSeq(format, from, TextEnd(from) - 1) \o printed[TextEnd(from)][a]
        ELSE IF At(i + 1) \in Directive
        THEN Converted(At(i + 1), args[a]) \o printed[i + 2][a + 1]
        ELSE SubSeq(format, i, n)]
  IN  printed[1][1]

printf(format, args) == vprintk_func(format, args)

-----------------------------------------------------------------------------
(* The reference: a format is put together from pieces.                     *)

\* The number that a sequence of digits reads as.
Value(digits, base) ==
  FoldLeft(LAMBDA v, d : v * base + CHOOSE k \in 0..15 : Digit[k + 1] = d, 0, digits)

Numerals == {Digit[k + 1] : k \in 0..15}

\* That text is how v is written: the digits read as v, without leading zeros.
Writes(text, v, base) ==
  LET digits == IF v < 0 THEN Tail(text) ELSE text IN
  /\ v < 0 => text # << >> /\ Head(text) = "-"
  /\ digits # << >> /\ ToSet(digits) \subseteq Numerals
  /\ Value(digits, base) = (IF v < 0 THEN -v ELSE v)
  /\ Head(digits) = "0" => Len(digits) = 1

\* A piece of a format: a text, two %, or a directive with an argument.
Piece ==
  {[format |-> <<"text">>, args |-> << >>], [format |-> <<"%", "%">>, args |-> << >>]}
  \cup {[format |-> <<"%", d>>, args |-> <<v>>] : d \in {"d", "u", "x"}, v \in Argument}
  \cup {[format |-> <<"%", "s">>, args |-> <<t>>] : t \in Text}

\* printf.c: what is printed for a piece.
Means(piece, text) ==
  IF piece.format = <<"text">> THEN text = <<"text">>
  ELSE CASE piece.format[2] = "%" -> text = <<"%">>
         [] piece.format[2] = "s" -> text = piece.args[1]
         [] piece.format[2] = "d" -> Writes(text, piece.args[1], 10)
         [] piece.format[2] = "u" -> Writes(text, piece.args[1] % (2^LONG_BITS), 10)
         [] piece.format[2] = "x" -> Writes(text, piece.args[1] % (2^LONG_BITS), 16)

\* What is printed for a format of several pieces is what each piece means, one
\* after the other.
PrintedInPieces(p, q, r) ==
  LET text == printf(p.format \o q.format \o r.format, p.args \o q.args \o r.args) IN
  \E i \in 0..Len(text) : \E j \in i..Len(text) :
    /\ Means(p, SubSeq(text, 1, i))
    /\ Means(q, SubSeq(text, i + 1, j))
    /\ Means(r, SubSeq(text, j + 1, Len(text)))
=============================================================================
