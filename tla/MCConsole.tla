------------------------------ MODULE MCConsole ------------------------------
(* Console for TLC: a few messages to print, and for vsnprintf every sequence *)
(* of up to two tokens, every number of eight bits among the arguments.     *)
EXTENDS Console

\* Bound: overlapping calls take the cursor up to two cells off the screen; it
\* would take 2^29 of them to bring it round.
NearScreen ==
    /\ cursor_x <= Width + 2 * FONT_WIDTH
    /\ cursor_y <= Height + 2 * FONT_HEIGHT \/ cursor_y + FONT_HEIGHT >= U32

Symmetry == Permutations(Printers)

Lit(c) == <<"lit", c>>
Msg(format, args) == [format |-> format, args |-> args]

MCMessages ==
    {Msg(<<Lit("a")>>, <<>>), Msg(<<Lit("\n")>>, <<>>),
     Msg(<<<<"%", "d">>, Lit("\n")>>, <<1>>),
     Msg(<<Lit("a"), <<"%", "c">>, Lit("b")>>, <<"b">>)}

Tokens == {Lit("a")} \cup {<<"%", letter>> : letter \in {"s", "d", "x", "c", "%"}}
Argument(letter) ==
    CASE letter = "s" -> {<<>>, <<"b">>, <<"b", "c">>}
      [] letter = "d" -> {-10, 0, 9}
      [] letter = "x" -> {16, LLong}
      [] OTHER -> {"c"}
Letters(format) == LET taking == SelectSeq(format, Takes) IN [i \in DOMAIN taking |-> taking[i][2]]
Arguments(letters) ==
    CASE Len(letters) = 0 -> {<<>>}
      [] Len(letters) = 1 -> {<<a>> : a \in Argument(letters[1])}
      [] OTHER -> {<<a, b>> : a \in Argument(letters[1]), b \in Argument(letters[2])}

MCFormats ==
    UNION {{Msg(f, args) : args \in Arguments(Letters(f))} : f \in BoundedSeq(Tokens, 2)}
    \cup {Msg(<<<<"%", "l">>, Lit("x")>>, <<11>>)}
    \cup {Msg(<<<<"%", "d">>>>, <<n>>) : n \in (1 - LLong) .. (LLong - 1)}
    \cup {Msg(<<<<"%", "x">>>>, <<n>>) : n \in 0 .. (2 * LLong - 1)}
=============================================================================
