-------------------------------- MODULE Format --------------------------------
(***************************************************************************)
(* vsnprintf and itoa of src/kern/lib/lib.c, next to what a caller expects *)
(* of them.                                                                *)
(*                                                                         *)
(* A format is a sequence of tokens, <<"lit", c>> for a character that is  *)
(* copied and <<"%", letter>> for a conversion; arguments are a sequence   *)
(* of numbers, characters and strings in the order va_arg yields them.  A  *)
(* string is a sequence of characters.  The arguments of 'd' and 'x' are   *)
(* the values of the bits that va_arg reads; 'i' and 'p' are the same      *)
(* conversions.  A '%' has a letter behind it: vsnprintf steps over the    *)
(* terminator of a format that ends in one.                                *)
(***************************************************************************)
EXTENDS Integers, Sequences, SequencesExt

CONSTANT LLong   \* 2^63: a long long goes from -LLong to LLong - 1

Glyph(d) ==
    IF d \in 0 .. 15
    THEN <<"0", "1", "2", "3", "4", "5", "6", "7", "8", "9", "a", "b", "c", "d", "e", "f">>[d + 1]
    ELSE "?"

\* The digits of a number, the last one first; as in C, the remainder has the
\* sign of the number.
Digits(num, base) ==
    LET quotient[n \in -LLong .. LLong] == IF n < 0 THEN -((-n) \div base) ELSE n \div base
        from[n \in -LLong .. LLong] ==
          IF n = 0 THEN <<>>
          ELSE <<Glyph(n - quotient[n] * base)>> \o from[quotient[n]]
    IN  from[num]

\* Slip: the digits stay in the order in which they are found.
InOrder_Unreversed(s) == s

\* The loop that swaps the characters from both ends.
InOrder(s) == Reverse(s)

\* itoa: a minus sign in base 10 only.
itoa(num, base) ==
    IF num = 0 THEN <<"0">>
    ELSE IF num < 0 /\ base = 10 THEN InOrder(Append(Digits(-num, base), "-"))
    ELSE InOrder(Digits(num, base))

\* uint64_t to long long.
Signed(u) == IF u >= LLong THEN u - 2 * LLong ELSE u

\* How much of a converted string is copied.
Clipped(written, len, size) ==
    IF written + len >= size THEN size - written - 1 ELSE len

\* One round of vsnprintf's loop.  s holds what was written and the arguments
\* that are left.  A letter it does not know is skipped with its '%', and no
\* argument is consumed.
FormatRound(s, token, size) ==
    LET written == Len(s.out)
        put(text) == [out  |-> s.out \o SubSeq(text, 1, Clipped(written, Len(text), size)),
                      args |-> Tail(s.args)]
        fits == written + 1 < size
    IN  IF written >= size THEN s
        ELSE CASE token[1] = "lit" -> [s EXCEPT !.out = Append(@, token[2])]
               [] token = <<"%", "s">> -> put(Head(s.args))
               [] token = <<"%", "d">> -> put(itoa(Head(s.args), 10))
               [] token = <<"%", "x">> -> put(itoa(Signed(Head(s.args)), 16))
               [] token = <<"%", "c">> ->
                    [out |-> IF fits THEN Append(s.out, Head(s.args)) ELSE s.out,
                     args |-> Tail(s.args)]
               [] token = <<"%", "%">> ->
                    [s EXCEPT !.out = IF fits THEN Append(@, "%") ELSE @]
               [] OTHER -> s

\* Slip: the terminator goes behind the characters, be there room or not.
Terminated_Behind(chars, size) == chars

\* The characters in front of the terminator, which takes the last byte when all
\* are written.
Terminated(chars, size) ==
    IF Len(chars) < size THEN chars ELSE SubSeq(chars, 1, size - 1)

\* The characters the loop has written at the end of the format.
Converted(size, format, args) ==
    FoldLeft(LAMBDA s, token : FormatRound(s, token, size),
             [out |-> <<>>, args |-> args], format).out

vsnprintf(size, format, args) == Terminated(Converted(size, format, args), size)

-----------------------------------------------------------------------------
(* What a caller expects *)

Power[k \in 0 .. 16] == [b \in {10, 16} |-> IF k = 0 THEN 1 ELSE b * Power[k - 1][b]]

\* The digits of a number by their positions, the first one first.
Numeral(num, base) ==
    LET size == IF num < 0 THEN -num ELSE num
        k == CHOOSE n \in 1 .. 16 : /\ size < Power[n][base]
                                    /\ n > 1 => size >= Power[n - 1][base]
    IN  (IF num < 0 THEN <<"-">> ELSE <<>>)
        \o [i \in 1 .. k |-> Glyph((size \div Power[k - i][base]) % base)]

\* Conversions that take an argument, and the i-th of them in a format.
Takes(token) == token[1] = "%" /\ token[2] # "%"
Nth(format, i) == Len(SelectSeq(SubSeq(format, 1, i), Takes))

\* A format with every conversion replaced by its own argument.
Expansion(format, args) ==
    FlattenSeq([i \in DOMAIN format |->
        CASE format[i][1] = "lit" -> <<format[i][2]>>
          [] format[i] = <<"%", "%">> -> <<"%">>
          [] format[i] = <<"%", "s">> -> args[Nth(format, i)]
          [] format[i] = <<"%", "c">> -> <<args[Nth(format, i)]>>
          [] format[i] = <<"%", "d">> -> Numeral(args[Nth(format, i)], 10)
          [] format[i] = <<"%", "x">> -> Numeral(args[Nth(format, i)], 16)])

\* What vsnprintf converts as expected: letters it knows, and for 'x' numbers
\* that a long long holds.
Plain(format, args) ==
    \A i \in DOMAIN format :
        /\ format[i][1] = "%" => format[i][2] \in {"s", "d", "x", "c", "%"}
        /\ format[i] = <<"%", "x">> => args[Nth(format, i)] < LLong
=============================================================================
