---------------------------- MODULE ConsoleProofs ----------------------------
(***************************************************************************)
(* Proofs about the console (Console), for every font, screen, number of   *)
(* callers and set of messages.                                            *)
(***************************************************************************)
EXTENDS Console, SequenceTheorems, TLAPS

-----------------------------------------------------------------------------
(* Arithmetic of cells and pixels *)

LEMMA CellOfPixel ==
    ASSUME NEW a \in Nat, NEW size \in Nat \ {0}
    PROVE  (a * size) \div size = a /\ a * size \in Nat
BY SMT

LEMMA CellsFit ==
    ASSUME NEW extent \in Nat, NEW size \in Nat \ {0}
    PROVE  /\ extent \div size \in Nat
           /\ (extent \div size) * size <= extent
           /\ extent < (extent \div size) * size + size
BY SMT

LEMMA CellsInOrder ==
    ASSUME NEW a \in Nat, NEW b \in Nat, NEW size \in Nat, a <= b
    PROVE  a * size <= b * size
BY SMT

LEMMA NextCell ==
    ASSUME NEW a \in Nat, NEW size \in Nat
    PROVE  (a + 1) * size = a * size + size /\ 0 * size = 0
BY SMT

LEMMA SmallMod ==
    ASSUME NEW a \in Nat, NEW b \in Nat, a < b
    PROVE  a % b = a
BY SMT

\* What the proofs use of the sizes of screen and font.
LEMMA ScreenSizes ==
    /\ FONT_WIDTH \in Nat \ {0} /\ FONT_HEIGHT \in Nat \ {0}
    /\ Width \in Nat /\ Height \in Nat /\ U32 \in Nat \ {0}
    /\ Columns \in Nat \ {0} /\ Rows \in Nat \ {0}
    /\ Columns * FONT_WIDTH \in Nat /\ Rows * FONT_HEIGHT \in Nat
    /\ Columns * FONT_WIDTH <= Width /\ Width < Columns * FONT_WIDTH + FONT_WIDTH
    /\ Rows * FONT_HEIGHT <= Height /\ Height < Rows * FONT_HEIGHT + FONT_HEIGHT
    /\ FONT_WIDTH <= Width /\ FONT_HEIGHT <= Height
    /\ U32 > 3 * Width /\ U32 > 3 * Height
<1>1. /\ FONT_WIDTH \in Nat \ {0} /\ FONT_HEIGHT \in Nat \ {0}
      /\ Width \in Nat /\ Height \in Nat /\ U32 \in Nat
      /\ Columns > 0 /\ Rows > 0
      /\ U32 > 3 * Width /\ U32 > 3 * Height
  BY ConsoleAssumption
<1>2. /\ Columns \in Nat /\ Rows \in Nat
      /\ Columns * FONT_WIDTH <= Width /\ Width < Columns * FONT_WIDTH + FONT_WIDTH
      /\ Rows * FONT_HEIGHT <= Height /\ Height < Rows * FONT_HEIGHT + FONT_HEIGHT
  BY <1>1, CellsFit DEF Columns, Rows
<1>3. 1 * FONT_WIDTH <= Columns * FONT_WIDTH /\ 1 * FONT_HEIGHT <= Rows * FONT_HEIGHT
  <2>1. 1 <= Columns /\ 1 <= Rows
    BY <1>1, <1>2
  <2> QED BY <1>1, <1>2, <2>1, CellsInOrder
<1>4. Columns * FONT_WIDTH \in Nat /\ Rows * FONT_HEIGHT \in Nat
  BY <1>1, <1>2, CellOfPixel
<1> QED BY <1>1, <1>2, <1>3, <1>4

-----------------------------------------------------------------------------
(* Lines and what the screen shows of them *)

\* At least one line and at most Rows, none longer than the screen is wide, and
\* room for a glyph on the last.
LinesOK(ls) ==
    /\ \E S : ls \in Seq(Seq(S))
    /\ Len(ls) \in 1 .. Rows
    /\ \A i \in 1 .. Len(ls) : Len(ls[i]) \in 0 .. Columns
    /\ Len(ls[Len(ls)]) < Columns

\* The screen shows the lines, or shows them one row further down: kprintf_scroll
\* is still to come, and the last line, which is empty, is below the screen.
Drawn(s, ls, scr) ==
    \/ s = 0 /\ scr = Shown(ls)
    \/ /\ s = 1 /\ Len(ls) = Rows /\ ls[Len(ls)] = <<>>
       /\ \A r \in 0 .. (Rows - 2), col \in 0 .. (Columns - 1) :
            scr[<<r + 1, col>>] = Shown(ls)[<<r, col>>]

LEMMA ShownCell ==
    ASSUME NEW ls, NEW r \in 0 .. (Rows - 1), NEW col \in 0 .. (Columns - 1)
    PROVE  /\ <<r, col>> \in Cells
           /\ Shown(ls)[<<r, col>>] =
                IF r < Len(ls) /\ col < Len(ls[r + 1]) THEN {ls[r + 1][col + 1]} ELSE {}
BY DEF Shown, Cells

LEMMA ShownEqual ==
    ASSUME NEW ls, NEW scr,
           DOMAIN scr = Cells, scr = [cell \in DOMAIN scr |-> scr[cell]],
           \A r \in 0 .. (Rows - 1), col \in 0 .. (Columns - 1) :
               scr[<<r, col>>] = Shown(ls)[<<r, col>>]
    PROVE  scr = Shown(ls)
<1>1. ASSUME NEW cell \in Cells PROVE scr[cell] = Shown(ls)[cell]
  <2>1. PICK r \in 0 .. (Rows - 1), col \in 0 .. (Columns - 1) : cell = <<r, col>>
    BY DEF Cells
  <2> QED BY <2>1
<1> QED BY <1>1 DEF Shown

\* A line is begun below the others, and the first of Rows + 1 is dropped.
LEMMA LineBegun ==
    ASSUME NEW S, NEW g \in Seq(Seq(S)), Len(g) \in 1 .. Rows,
           \A i \in 1 .. Len(g) : Len(g[i]) \in 0 .. Columns
    PROVE  LET h == LastRows(Append(g, <<>>))
               s == IF Len(g) < Rows THEN 0 ELSE 1
           IN  /\ LinesOK(h)
               /\ h[Len(h)] = <<>>
               /\ Len(h) + s = Len(g) + 1
               /\ Drawn(s, h, Shown(g))
<1> DEFINE a == Append(g, <<>>)
           h == LastRows(a)
           s == IF Len(g) < Rows THEN 0 ELSE 1
<1>1. /\ a \in Seq(Seq(S)) /\ Len(a) = Len(g) + 1 /\ a[Len(g) + 1] = <<>>
      /\ \A i \in 1 .. Len(g) : a[i] = g[i]
  <2>1. <<>> \in Seq(S)
    OBVIOUS
  <2> QED BY <2>1
<1>0. Columns \in Nat \ {0} /\ Rows \in Nat \ {0} /\ Len(g) \in Nat
  BY ScreenSizes
<1>e. Len(<<>>) = 0
  OBVIOUS
<1> HIDE DEF a
<1>2. CASE Len(g) < Rows
  <2>1. h = a /\ s = 0
    BY <1>0, <1>1, <1>2 DEF LastRows
  <2>2. LinesOK(a)
    <3>1. ASSUME NEW i \in 1 .. Len(a) PROVE Len(a[i]) \in 0 .. Columns
      <4>1. CASE i \in 1 .. Len(g)
        BY <1>1, <4>1
      <4>2. CASE i = Len(g) + 1
        BY <1>0, <1>1, <1>e, <4>2
      <4> QED BY <1>0, <1>1, <4>1, <4>2
    <3>2. Len(a) \in 1 .. Rows /\ Len(a[Len(a)]) < Columns
      BY <1>0, <1>1, <1>2, <1>e
    <3> QED BY <1>1, <3>1, <3>2 DEF LinesOK
  <2>3. Shown(g) = Shown(a)
    <3>1. ASSUME NEW r \in 0 .. (Rows - 1), NEW col \in 0 .. (Columns - 1)
          PROVE  Shown(g)[<<r, col>>] = Shown(a)[<<r, col>>]
      <4>1. CASE r < Len(g)
        <5>1. r + 1 \in 1 .. Len(g) /\ r < Len(a)
          BY <1>0, <1>1, <4>1
        <5>2. a[r + 1] = g[r + 1]
          BY <1>1, <5>1
        <5>3. Shown(g)[<<r, col>>] = IF col < Len(g[r + 1]) THEN {g[r + 1][col + 1]} ELSE {}
          BY ONLY <4>1, ShownCell, r \in 0 .. (Rows - 1), col \in 0 .. (Columns - 1)
        <5>4. Shown(a)[<<r, col>>] = IF col < Len(a[r + 1]) THEN {a[r + 1][col + 1]} ELSE {}
          BY ONLY <5>1, ShownCell, r \in 0 .. (Rows - 1), col \in 0 .. (Columns - 1)
        <5> QED BY <5>2, <5>3, <5>4
      <4>2. CASE ~(r < Len(g))
        <5>1. ~(r < Len(a) /\ col < Len(a[r + 1]))
          BY <1>0, <1>1, <1>e, <4>2
        <5> QED BY <4>2, <5>1, ShownCell
      <4> QED BY <4>1, <4>2
    <3>2. DOMAIN Shown(g) = Cells /\ Shown(g) = [cell \in DOMAIN Shown(g) |-> Shown(g)[cell]]
      BY DEF Shown
    <3> QED BY <3>1, <3>2, ShownEqual
  <2>4. Drawn(s, h, Shown(g))
    BY <2>1, <2>3 DEF Drawn
  <2>5. h[Len(h)] = <<>> /\ Len(h) + s = Len(g) + 1
    BY <1>0, <1>1, <2>1
  <2> HIDE DEF h, s
  <2>6. LinesOK(h) /\ h[Len(h)] = <<>> /\ Len(h) + s = Len(g) + 1 /\ Drawn(s, h, Shown(g))
    BY <2>1, <2>2, <2>4, <2>5
  <2> QED BY <2>6 DEF h, s, a
<1>3. CASE Len(g) = Rows
  <2>1. h = Tail(a) /\ s = 1
    BY <1>0, <1>1, <1>3 DEF LastRows
  <2>2. /\ h \in Seq(Seq(S)) /\ Len(h) = Rows
        /\ \A i \in 1 .. Rows : h[i] = a[i + 1]
    BY <1>0, <1>1, <1>3, <2>1
  <2> HIDE DEF h, s
  <2>3. h[Rows] = <<>>
    BY <1>0, <1>1, <1>3, <2>2
  <2>3a. ASSUME NEW i \in 1 .. (Rows - 1)
         PROVE  h[i] = g[i + 1] /\ i + 1 \in 1 .. Len(g)
    BY <1>0, <1>1, <1>3, <2>2
  <2>4. LinesOK(h)
    <3>1. ASSUME NEW i \in 1 .. Rows PROVE Len(h[i]) \in 0 .. Columns
      <4>1. CASE i \in 1 .. (Rows - 1)
        BY <4>1, <2>3a
      <4>2. CASE i = Rows
        BY <1>0, <1>e, <2>3, <4>2
      <4> QED BY <1>0, <4>1, <4>2
    <3>2. Len(h) \in 1 .. Rows /\ Len(h[Len(h)]) < Columns
      BY <1>0, <1>e, <2>2, <2>3
    <3> QED BY <2>2, <3>1, <3>2 DEF LinesOK
  <2>5. ASSUME NEW r \in 0 .. (Rows - 2), NEW col \in 0 .. (Columns - 1)
        PROVE  Shown(g)[<<r + 1, col>>] = Shown(h)[<<r, col>>]
    <3>0. r + 1 \in 1 .. (Rows - 1) /\ r \in 0 .. (Rows - 1) /\ r + 1 \in 0 .. (Rows - 1)
      BY <1>0
    <3>1. h[r + 1] = g[r + 1 + 1]
      BY <3>0, <2>3a
    <3>2. r < Len(h) /\ r + 1 < Len(g)
      BY <1>0, <1>3, <2>2
    <3>3. Shown(g)[<<r + 1, col>>] =
              IF col < Len(g[r + 1 + 1]) THEN {g[r + 1 + 1][col + 1]} ELSE {}
      BY ONLY <3>0, <3>2, ShownCell, col \in 0 .. (Columns - 1)
    <3>4. Shown(h)[<<r, col>>] = IF col < Len(h[r + 1]) THEN {h[r + 1][col + 1]} ELSE {}
      BY ONLY <3>0, <3>2, ShownCell, col \in 0 .. (Columns - 1)
    <3> QED BY <3>1, <3>3, <3>4
  <2>6. Drawn(s, h, Shown(g))
    BY <2>1, <2>2, <2>3, <2>5 DEF Drawn
  <2>7. h[Len(h)] = <<>> /\ Len(h) + s = Len(g) + 1
    BY <1>0, <1>3, <2>1, <2>2, <2>3
  <2> QED BY <2>4, <2>6, <2>7 DEF h, s, a
<1> QED BY <1>0, <1>2, <1>3

\* A glyph drawn behind the last line is the line with the glyph.
LEMMA GlyphShown ==
    ASSUME NEW S, NEW ls \in Seq(Seq(S)), LinesOK(ls), NEW c
    PROVE  LET n == Len(ls)
               k == Len(ls[n])
               g == [ls EXCEPT ![n] = Append(ls[n], c)]
           IN  /\ g \in Seq(Seq(S \cup {c})) /\ Len(g) = n /\ Len(g[n]) = k + 1
               /\ \A i \in 1 .. n : Len(g[i]) \in 0 .. Columns
               /\ <<n - 1, k>> \in Cells
               /\ [Shown(ls) EXCEPT ![<<n - 1, k>>] = @ \cup {c}] = Shown(g)
<1> DEFINE T == S \cup {c}
           n == Len(ls)
           k == Len(ls[n])
           line == Append(ls[n], c)
           g == [ls EXCEPT ![n] = line]
           scr == [Shown(ls) EXCEPT ![<<n - 1, k>>] = @ \cup {c}]
<1>0. /\ Columns \in Nat \ {0} /\ Rows \in Nat \ {0} /\ n \in 1 .. Rows /\ k \in 0 .. (Columns - 1)
      /\ \A i \in 1 .. n : ls[i] \in Seq(S) /\ Len(ls[i]) \in 0 .. Columns
  BY ScreenSizes DEF LinesOK
<1>1. /\ line \in Seq(T) /\ Len(line) = k + 1 /\ line[k + 1] = c
      /\ \A i \in 1 .. k : line[i] = ls[n][i]
  <2>1. ls[n] \in Seq(S) /\ ls[n] \in Seq(T)
    <3>1. ls[n] \in Seq(S)
      BY <1>0
    <3> QED BY <3>1
  <2>2. c \in T
    OBVIOUS
  <2> HIDE DEF T
  <2> QED BY <2>1, <2>2
<1>2. \A i \in 1 .. n : ls[i] \in Seq(T)
  <2> SUFFICES ASSUME NEW i \in 1 .. n PROVE ls[i] \in Seq(T)
    OBVIOUS
  <2>1. ls[i] \in Seq(S)
    BY <1>0
  <2> QED BY <2>1
<1> HIDE DEF line, T
<1>3. g \in Seq(Seq(T)) /\ Len(g) = n /\ g[n] = line /\ \A i \in 1 .. n : i # n => g[i] = ls[i]
  <2>1. DOMAIN ls = 1 .. n /\ n \in Nat
    OBVIOUS
  <2>2. g = [i \in 1 .. n |-> IF i = n THEN line ELSE ls[i]]
    BY <2>1
  <2>3. \A i \in 1 .. n : g[i] \in Seq(T)
    BY <1>1, <1>2, <2>2
  <2>4. g \in [1 .. n -> Seq(T)]
    BY <2>2, <2>3
  <2>5. g \in Seq(Seq(T)) /\ Len(g) = n
    <3> HIDE DEF g, n
    <3>1. g \in Seq(Seq(T))
      BY <2>1, <2>4, SeqDef
    <3> QED BY <3>1, <2>1, <2>4
  <2> QED BY <1>0, <2>2, <2>5
<1> HIDE DEF g
<1>4. \A i \in 1 .. n : Len(g[i]) \in 0 .. Columns
  <2> SUFFICES ASSUME NEW i \in 1 .. n PROVE Len(g[i]) \in 0 .. Columns
    OBVIOUS
  <2>1. CASE i = n
    BY <1>0, <1>1, <1>3, <2>1
  <2>2. CASE i # n
    BY <1>0, <1>3, <2>2
  <2> QED BY <2>1, <2>2
<1>5. <<n - 1, k>> \in Cells
  BY <1>0 DEF Cells
<1>6. scr = Shown(g)
  <2>1. DOMAIN scr = Cells /\ scr = [cell \in DOMAIN scr |-> scr[cell]]
    BY DEF Shown
  <2>2. ASSUME NEW r \in 0 .. (Rows - 1), NEW col \in 0 .. (Columns - 1)
        PROVE  scr[<<r, col>>] = Shown(g)[<<r, col>>]
    <3>0. DOMAIN Shown(ls) = Cells /\ <<r, col>> \in Cells
      BY DEF Shown, Cells
    <3>1. CASE r = n - 1 /\ col = k
      <4>1. scr[<<r, col>>] = Shown(ls)[<<n - 1, k>>] \cup {c}
        BY <1>5, <3>0, <3>1
      <4>2. n - 1 \in 0 .. (Rows - 1) /\ k \in 0 .. (Columns - 1) /\ n - 1 + 1 = n /\ ~(k < k)
            /\ n - 1 < n /\ k < k + 1
        BY <1>0
      <4>3. Shown(ls)[<<n - 1, k>>] = {}
        BY ONLY <4>2, ShownCell DEF k
      <4>4. Shown(g)[<<n - 1, k>>] = {g[n][k + 1]}
        <5>1. Shown(g)[<<n - 1, k>>] = IF n - 1 < Len(g) /\ k < Len(g[n - 1 + 1])
                                         THEN {g[n - 1 + 1][k + 1]} ELSE {}
          BY ONLY <4>2, ShownCell
        <5> QED BY <4>2, <5>1, <1>1, <1>3
      <4> QED BY <1>1, <1>3, <3>1, <4>1, <4>3, <4>4
    <3>2. CASE ~(r = n - 1 /\ col = k)
      <4>1. scr[<<r, col>>] = Shown(ls)[<<r, col>>]
        <5>1. <<r, col>> # <<n - 1, k>>
          BY <3>2
        <5> QED BY <5>1, <3>0
      <4>2. /\ Shown(ls)[<<r, col>>] =
                 IF r < n /\ col < Len(ls[r + 1]) THEN {ls[r + 1][col + 1]} ELSE {}
            /\ Shown(g)[<<r, col>>] =
                 IF r < n /\ col < Len(g[r + 1]) THEN {g[r + 1][col + 1]} ELSE {}
        BY <1>3, ShownCell
      <4>3. CASE r = n - 1
        <5>1. r + 1 = n /\ r < n /\ col # k
          BY <1>0, <3>2, <4>3
        <5>2. CASE col < k
          <6>1. col < k + 1 /\ col + 1 \in 1 .. k
            BY <1>0, <5>2
          <6> HIDE DEF scr
          <6> QED BY <1>1, <1>3, <4>1, <4>2, <5>1, <5>2, <6>1
        <5>3. CASE col > k
          <6>1. ~(col < k + 1) /\ ~(col < k)
            BY <1>0, <5>3
          <6> HIDE DEF scr
          <6> QED BY <1>1, <1>3, <4>1, <4>2, <5>1, <6>1
        <5> QED BY <1>0, <5>1, <5>2, <5>3
      <4>4. CASE r < n - 1
        <5>1. r + 1 \in 1 .. n /\ r + 1 # n
          BY <1>0, <4>4
        <5> QED BY <1>3, <4>1, <4>2, <5>1
      <4>5. CASE r >= n
        <5>1. ~(r < n)
          BY <1>0, <4>5
        <5> QED BY <4>1, <4>2, <5>1
      <4> QED BY <1>0, <4>3, <4>4, <4>5
    <3> QED BY <3>1, <3>2
  <2> HIDE DEF scr
  <2> QED BY <2>1, <2>2, ShownEqual
<1> QED BY <1>1, <1>3, <1>4, <1>5, <1>6 DEF g, line, T

-----------------------------------------------------------------------------
(* The inductive invariant *)

Labels == {"idle", "next", "advance", "newline", "wrap?", "wrap", "wrapped",
           "scroll?", "scroll", "up"}

TypeInv ==
    /\ framebuffer \in BOOLEAN /\ overlapped \in BOOLEAN
    /\ cursor_x \in Nat /\ cursor_y \in Nat
    /\ pc \in [Printers -> Labels]
    /\ x \in [Printers -> Nat] /\ y \in [Printers -> Nat]

\* Where the next character goes, and in which row that is, if the screen has
\* (s = 0) or has not yet (s = 1) been scrolled for it.
Column    == Len(lines[Len(lines)])
LineRow(s) == Len(lines) - 1 + s

\* The cursor stands there, one glyph in front of it, or in column u of the row
\* above.
Here(s)     == cursor_x = Column * FONT_WIDTH /\ cursor_y = LineRow(s) * FONT_HEIGHT
Before(s)   == /\ s = 0 /\ Column >= 1
               /\ cursor_x = (Column - 1) * FONT_WIDTH /\ cursor_y = LineRow(0) * FONT_HEIGHT
Above(u, s) == /\ Column = 0 /\ LineRow(s) >= 1
               /\ cursor_x = u * FONT_WIDTH /\ cursor_y = (LineRow(s) - 1) * FONT_HEIGHT

Rest == Drawn(0, lines, screen) /\ Here(0)

\* What holds at each point of the loop.  The history `lines' has the character
\* from the moment it is looked at.
Stage(label) ==
    /\ label = "next" => Rest
    /\ label = "advance" => \E s \in {0, 1} : /\ Drawn(s, lines, screen)
                                              /\ Before(s) \/ Above(Columns - 1, s)
    /\ label = "newline" => \E s \in {0, 1} : Drawn(s, lines, screen) /\ Above(0, s)
    /\ label = "wrap?" => \E s \in {0, 1} : /\ Drawn(s, lines, screen)
                                            /\ Here(s) \/ Above(Columns, s)
    /\ label = "wrap" => \E s \in {0, 1} : Drawn(s, lines, screen) /\ Above(Columns, s)
    /\ label = "wrapped" => \E s \in {0, 1} : Drawn(s, lines, screen) /\ Above(0, s)
    /\ label = "scroll?" => \E s \in {0, 1} : Drawn(s, lines, screen) /\ Here(s)
    /\ label = "scroll" => Drawn(1, lines, screen) /\ Here(1)
    /\ label = "up" => Drawn(0, lines, screen) /\ Here(1) /\ Len(lines) = Rows

\* One call at a time, whose registers agree with the cursor.
Alone(p) ==
    /\ \A q \in Printers : pc[q] # "idle" => q = p
    /\ x[p] = cursor_x /\ y[p] = cursor_y

ScreenInv ==
    ~overlapped =>
        /\ LinesOK(lines)
        /\ ~framebuffer => lines = <<<<>>>>
        /\ \A p \in Printers : pc[p] # "idle" =>
              Alone(p) /\ Stage(pc[p]) /\ (pc[p] # "next" => framebuffer)
        /\ (\A p \in Printers : pc[p] = "idle") => Rest

\* A cursor too far right has been put there by a call that is about to find out.
RoomInv ==
    Full(cursor_x) =>
        \E p \in Printers : pc[p] = "wrap" \/ (pc[p] = "wrap?" /\ x[p] = cursor_x)

Inv == TypeInv /\ ScreenInv /\ RoomInv

LEMMA InitInv == Init => Inv
<1> SUFFICES ASSUME Init PROVE Inv
  OBVIOUS
<1>0. Columns \in Nat \ {0} /\ Rows \in Nat \ {0} /\ FONT_WIDTH \in Nat \ {0} /\ FONT_HEIGHT \in Nat \ {0}
      /\ FONT_WIDTH <= Width /\ Width \in Nat /\ U32 \in Nat /\ U32 > 3 * Width
  BY ScreenSizes
<1>1. TypeInv
  BY DEF Init, TypeInv, Labels
<1>2. LinesOK(<<<<>>>>) /\ Len(<<<<>>>>) = 1 /\ Len(<<<<>>>>[1]) = 0
  <2>1. <<<<>>>> \in Seq(Seq({})) /\ Len(<<<<>>>>) = 1 /\ <<<<>>>>[1] = <<>> /\ Len(<<>>) = 0
    OBVIOUS
  <2> QED BY <1>0, <2>1 DEF LinesOK
<1>3. Shown(<<<<>>>>) = Black
  <2>1. DOMAIN Black = Cells /\ Black = [cell \in DOMAIN Black |-> Black[cell]]
    BY DEF Black
  <2>2. ASSUME NEW r \in 0 .. (Rows - 1), NEW col \in 0 .. (Columns - 1)
        PROVE  Black[<<r, col>>] = Shown(<<<<>>>>)[<<r, col>>]
    <3>1. <<r, col>> \in Cells /\ Black[<<r, col>>] = {}
      BY DEF Cells, Black
    <3>2. ~(r < Len(<<<<>>>>) /\ col < Len(<<<<>>>>[r + 1]))
      BY <1>0, <1>2
    <3> QED BY <3>1, <3>2, ShownCell
  <2> QED BY <2>1, <2>2, ShownEqual
<1>4. Rest
  <2>1. Drawn(0, lines, screen)
    BY <1>3 DEF Init, Drawn
  <2>2. Column = 0 /\ LineRow(0) = 0
    BY <1>2 DEF Init, Column, LineRow
  <2>3. 0 * FONT_WIDTH = 0 /\ 0 * FONT_HEIGHT = 0
    BY <1>0
  <2> QED BY <2>1, <2>2, <2>3 DEF Rest, Here, Init
<1>5. ScreenInv
  BY <1>2, <1>4 DEF ScreenInv, Init
<1>6. ~Full(cursor_x)
  <2>1. (0 + FONT_WIDTH) % U32 = FONT_WIDTH
    BY <1>0, SmallMod
  <2> QED BY <1>0, <2>1 DEF Init, Full
<1> QED BY <1>1, <1>5, <1>6 DEF Inv, RoomInv

-----------------------------------------------------------------------------
(* Types and the room on the line *)

\* What a caller does in its loop.
CallerStep(p) ==
    \/ \E m \in Messages : kprintf(p, m)
    \/ Return(p) \/ uart_putc(p)
    \/ Glyphs(p) \/ Advance(p) \/ Newline(p) \/ Down(p, "newline", "wrap?")
    \/ Wraps(p) \/ Wrap(p) \/ Down(p, "wrapped", "scroll?")
    \/ Scrolls(p) \/ kprintf_scroll(p) \/ Up(p)

\* Steps that leave the state of every call alone.
Aside ==
    \/ \E size \in Sizes, m \in Formats : snprintf(size, m)
    \/ Forget
    \/ UNCHANGED vars

LEMMA NextCases ==
    ASSUME [Next]_vars
    PROVE  Aside \/ kprintf_init \/ \E p \in Printers : CallerStep(p)
BY DEF Next, CallerStep, Aside

LEMMA AsideUnchanged ==
    ASSUME Aside
    PROVE  UNCHANGED <<framebuffer, cursor_x, cursor_y, screen, pc, text, x, y, lines, overlapped>>
BY DEF Aside, snprintf, Forget, vars, cursor, caller

LEMMA TypeStep ==
    ASSUME TypeInv, [Next]_vars
    PROVE  TypeInv'
<1>0. FONT_WIDTH \in Nat /\ FONT_HEIGHT \in Nat /\ U32 \in Nat \ {0}
  BY ScreenSizes
<1>1. CASE Aside
  BY <1>1, AsideUnchanged DEF TypeInv
<1>2. CASE kprintf_init
  BY <1>2 DEF kprintf_init, TypeInv, caller
<1>3. ASSUME NEW p \in Printers, CallerStep(p) PROVE TypeInv'
  <2>1. CASE \E m \in Messages : kprintf(p, m)
    BY <2>1 DEF kprintf, At, Goto, TypeInv, Labels, cursor
  <2>2a. CASE Return(p)
    BY <2>2a DEF Return, At, Goto, TypeInv, Labels, cursor
  <2>2b. CASE uart_putc(p)
    BY <2>2b DEF uart_putc, At, Goto, TypeInv, Labels, cursor
  <2>3a. CASE Glyphs(p)
    BY <2>3a DEF Glyphs, At, Goto, TypeInv, Labels, cursor
  <2>3b. CASE Newline(p)
    BY <2>3b DEF Newline, At, Goto, TypeInv, Labels, cursor
  <2>4. CASE Advance(p)
    <3>1. (x[p] + FONT_WIDTH) % U32 \in Nat
      BY <1>0 DEF TypeInv
    <3> QED BY <2>4, <3>1 DEF Advance, At, Goto, TypeInv, Labels
  <2>5. CASE Down(p, "newline", "wrap?") \/ Down(p, "wrapped", "scroll?")
    <3>1. (y[p] + FONT_HEIGHT) % U32 \in Nat
      BY <1>0 DEF TypeInv
    <3> QED BY <2>5, <3>1 DEF Down, At, Goto, TypeInv, Labels
  <2>6a. CASE Wraps(p)
    BY <2>6a DEF Wraps, At, Goto, TypeInv, Labels, cursor
  <2>6b. CASE Wrap(p)
    BY <2>6b DEF Wrap, At, Goto, TypeInv, Labels, cursor
  <2>6c. CASE Scrolls(p)
    <3>1. y' \in [Printers -> Nat]
      BY <2>6c DEF Scrolls, TypeInv
    <3> QED BY <2>6c, <3>1 DEF Scrolls, Goto, TypeInv, Labels, cursor
  <2>6d. CASE kprintf_scroll(p)
    BY <2>6d DEF kprintf_scroll, At, Goto, TypeInv, Labels, cursor
  <2>7. CASE Up(p)
    <3>1. (y[p] - FONT_HEIGHT) % U32 \in Nat
      BY <1>0 DEF TypeInv
    <3> QED BY <2>7, <3>1 DEF Up, At, Goto, TypeInv, Labels
  <2> QED BY <1>3, <2>1, <2>2a, <2>2b, <2>3a, <2>3b, <2>4, <2>5, <2>6a, <2>6b, <2>6c, <2>6d, <2>7
        DEF CallerStep
<1> QED BY <1>1, <1>2, <1>3, NextCases

LEMMA RoomStep ==
    ASSUME TypeInv, RoomInv, [Next]_vars
    PROVE  RoomInv'
<1>0. ~Full(0)
  <2>1. FONT_WIDTH \in Nat /\ Width \in Nat /\ FONT_WIDTH <= Width /\ U32 \in Nat /\ U32 > 3 * Width
    BY ScreenSizes
  <2>2. (0 + FONT_WIDTH) % U32 = FONT_WIDTH
    BY <2>1, SmallMod
  <2> QED BY <2>1, <2>2 DEF Full
<1>1. CASE Aside
  BY <1>1, AsideUnchanged DEF RoomInv, Full
<1>2. CASE cursor_x' = 0
  BY <1>0, <1>2 DEF RoomInv, Full
<1>3. ASSUME NEW p \in Printers, CallerStep(p), cursor_x' # 0 PROVE RoomInv'
  <2>1. CASE Advance(p)
    BY <2>1 DEF Advance, At, Goto, TypeInv, RoomInv
  <2>2. CASE Wraps(p)
    <3>1. SUFFICES ASSUME Full(cursor_x)
                   PROVE  \E q \in Printers : pc'[q] = "wrap" \/ (pc'[q] = "wrap?" /\ x'[q] = cursor_x')
      BY <2>2 DEF RoomInv, Full, Wraps, cursor
    <3>2. PICK q \in Printers : pc[q] = "wrap" \/ (pc[q] = "wrap?" /\ x[q] = cursor_x)
      BY <3>1 DEF RoomInv
    <3>3. CASE q = p
      BY <2>2, <3>1, <3>2, <3>3 DEF Wraps, Goto, TypeInv, cursor
    <3>4. CASE q # p
      BY <2>2, <3>2, <3>4 DEF Wraps, Goto, TypeInv, cursor
    <3> QED BY <3>3, <3>4
  <2>3. ASSUME cursor_x' = cursor_x,
               pc[p] \notin {"wrap", "wrap?"},
               \A q \in Printers : q # p => pc'[q] = pc[q] /\ x'[q] = x[q]
        PROVE  RoomInv'
    BY <2>3 DEF RoomInv, Full
  <2>4. CASE \E m \in Messages : kprintf(p, m)
    BY <2>3, <2>4 DEF kprintf, At, Goto, TypeInv, cursor
  <2>5. CASE Return(p) \/ uart_putc(p) \/ Glyphs(p)
    BY <2>3, <2>5 DEF Return, uart_putc, Glyphs, At, Goto, TypeInv, cursor
  <2>6. CASE Down(p, "newline", "wrap?") \/ Down(p, "wrapped", "scroll?")
    BY <2>3, <2>6 DEF Down, At, Goto, TypeInv
  <2>7. CASE Scrolls(p) \/ kprintf_scroll(p) \/ Up(p)
    BY <2>3, <2>7 DEF Scrolls, kprintf_scroll, Up, At, Goto, TypeInv, cursor
  <2>8. ~Newline(p) /\ ~Wrap(p)
    BY <1>3 DEF Newline, Wrap
  <2> QED BY <1>3, <2>1, <2>2, <2>4, <2>5, <2>6, <2>7, <2>8 DEF CallerStep
<1>4. CASE kprintf_init
  BY <1>2, <1>4 DEF kprintf_init
<1> QED BY <1>1, <1>2, <1>3, <1>4, NextCases

-----------------------------------------------------------------------------
(* The screen, as long as no calls overlap *)

\* A step of the only call, inside its loop.
LEMMA LoopStep ==
    ASSUME TypeInv, ScreenInv, ~overlapped,
           NEW p \in Printers, pc[p] # "idle",
           NEW label \in Labels, label # "idle", pc' = [pc EXCEPT ![p] = label],
           framebuffer', LinesOK(lines'), x'[p] = cursor_x', y'[p] = cursor_y', Stage(label)'
    PROVE  ScreenInv'
<1>1. \A q \in Printers : q # p => pc[q] = "idle"
  BY DEF ScreenInv, Alone
<1>2. pc'[p] = label /\ \A q \in Printers : q # p => pc'[q] = "idle"
  BY <1>1 DEF TypeInv
<1>3. Alone(p)'
  BY <1>2 DEF Alone
<1>4. Stage(pc[p])'
  BY <1>2 DEF Stage
<1> QED BY <1>2, <1>3, <1>4 DEF ScreenInv

\* The facts of the only call.
LEMMA OnlyCall ==
    ASSUME TypeInv, ScreenInv, ~overlapped, NEW p \in Printers, pc[p] # "idle"
    PROVE  /\ LinesOK(lines) /\ x[p] = cursor_x /\ y[p] = cursor_y /\ Stage(pc[p])
           /\ pc[p] # "next" => framebuffer
           /\ \A u : u \in {cursor_x, x[p]} => u = cursor_x
           /\ \A v : v \in {cursor_y, y[p]} => v = cursor_y
BY DEF ScreenInv, Alone

\* Rows and columns of the cursor, as numbers.
LEMMA Placed ==
    ASSUME LinesOK(lines), NEW s \in {0, 1}, Drawn(s, lines, screen)
    PROVE  /\ Column \in 0 .. (Columns - 1) /\ Len(lines) \in 1 .. Rows
           /\ LineRow(s) \in 0 .. Rows /\ (s = 0 => LineRow(s) < Rows) /\ (s = 1 => LineRow(s) = Rows)
<1>1. Rows \in Nat \ {0} /\ Columns \in Nat \ {0}
  BY ScreenSizes
<1>2. Column \in 0 .. (Columns - 1)
  <2>1. Len(lines) \in 1 .. Len(lines)
    BY DEF LinesOK
  <2> QED BY <1>1, <2>1 DEF LinesOK, Column
<1> QED BY <1>1, <1>2 DEF LinesOK, Drawn, LineRow

LEMMA InitScreenStep ==
    ASSUME TypeInv, ScreenInv, kprintf_init
    PROVE  ScreenInv'
<1> SUFFICES ASSUME ~overlapped' PROVE ScreenInv'
  BY DEF ScreenInv
<1>1. /\ ~overlapped /\ ~framebuffer /\ framebuffer' /\ pc' = pc /\ lines' = lines /\ screen' = screen
      /\ cursor_x' = 0 /\ cursor_y' = 0 /\ \A q \in Printers : pc[q] = "idle"
  BY DEF kprintf_init, caller, Busy
<1>2. LinesOK(lines) /\ lines = <<<<>>>> /\ Rest
  BY <1>1 DEF ScreenInv
<1>3. Column' = 0 /\ LineRow(0)' = 0
  BY <1>1, <1>2 DEF Column, LineRow
<1>4. 0 * FONT_WIDTH = 0 /\ 0 * FONT_HEIGHT = 0
  BY ScreenSizes
<1>5. Rest'
  BY <1>1, <1>2, <1>3, <1>4 DEF Rest, Here
<1> QED BY <1>1, <1>2, <1>5 DEF ScreenInv

LEMMA BeginScreenStep ==
    ASSUME TypeInv, ScreenInv, NEW p \in Printers, NEW m \in Messages, kprintf(p, m)
    PROVE  ScreenInv'
<1> SUFFICES ASSUME ~overlapped' PROVE ScreenInv'
  BY DEF ScreenInv
<1>1. /\ ~overlapped /\ \A q \in Printers : pc[q] = "idle"
      /\ pc' = [pc EXCEPT ![p] = "next"] /\ screen' = screen /\ lines' = lines
      /\ x' = [x EXCEPT ![p] = cursor_x] /\ y' = [y EXCEPT ![p] = cursor_y]
      /\ framebuffer' = framebuffer /\ cursor_x' = cursor_x /\ cursor_y' = cursor_y
  BY DEF kprintf, At, Goto, Busy, cursor
<1>2. LinesOK(lines) /\ Rest /\ (~framebuffer => lines = <<<<>>>>)
  BY <1>1 DEF ScreenInv
<1>3. Rest'
  BY <1>1, <1>2 DEF Rest, Here, Column, LineRow
<1>4. pc'[p] = "next" /\ (\A q \in Printers : q # p => pc'[q] = "idle")
      /\ x'[p] = cursor_x' /\ y'[p] = cursor_y'
  BY <1>1 DEF TypeInv
<1>5. Alone(p)'
  BY <1>4 DEF Alone
<1>6. Stage(pc[p])'
  BY <1>3, <1>4 DEF Stage
<1> QED BY <1>1, <1>2, <1>4, <1>5, <1>6 DEF ScreenInv

LEMMA ReturnScreenStep ==
    ASSUME TypeInv, ScreenInv, NEW p \in Printers, Return(p) \/ uart_putc(p)
    PROVE  ScreenInv'
<1> SUFFICES ASSUME ~overlapped' PROVE ScreenInv'
  BY DEF ScreenInv
<1>1. /\ ~overlapped /\ pc[p] = "next" /\ screen' = screen /\ lines' = lines
      /\ framebuffer' = framebuffer /\ cursor_x' = cursor_x /\ cursor_y' = cursor_y
  BY DEF Return, uart_putc, At, cursor
<1>2. /\ LinesOK(lines) /\ Rest /\ Alone(p) /\ (~framebuffer => lines = <<<<>>>>)
      /\ \A q \in Printers : q # p => pc[q] = "idle"
  BY <1>1 DEF ScreenInv, Stage, Alone
<1>3. Rest'
  BY <1>1, <1>2 DEF Rest, Here, Column, LineRow
<1>4. CASE Return(p)
  <2>1. \A q \in Printers : pc'[q] = "idle"
    BY <1>2, <1>4 DEF Return, At, Goto, TypeInv
  <2> QED BY <1>1, <1>2, <1>3, <2>1 DEF ScreenInv
<1>5. CASE uart_putc(p)
  <2>1. pc' = pc /\ x' = x /\ y' = y
    BY <1>5 DEF uart_putc
  <2>2. Alone(p)' /\ Stage(pc[p])'
    BY <1>1, <1>2, <1>3, <2>1 DEF Alone, Stage
  <2> QED BY <1>1, <1>2, <1>3, <2>1, <2>2 DEF ScreenInv
<1> QED BY <1>4, <1>5

LEMMA GlyphsScreenStep ==
    ASSUME TypeInv, ScreenInv, ~overlapped, NEW p \in Printers, Glyphs(p)
    PROVE  ScreenInv'
<1> DEFINE c == Head(text[p])
           n == Len(lines)
           k == Len(lines[n])
           g == [lines EXCEPT ![n] = Append(lines[n], c)]
<1>1. /\ pc[p] = "next" /\ pc' = [pc EXCEPT ![p] = "advance"] /\ framebuffer'
      /\ cursor_x' = cursor_x /\ cursor_y' = cursor_y /\ c # "\n" /\ lines' = PutChar(lines, c)
  BY DEF Glyphs, At, Goto, Follow, cursor
<1>2. LinesOK(lines) /\ Rest /\ x[p] = cursor_x /\ y[p] = cursor_y
  BY <1>1, OnlyCall DEF Stage
<1>3. /\ screen' = kprintf_draw_char(cursor_x, cursor_y, c)
      /\ x'[p] = cursor_x' /\ y'[p] = cursor_y'
  BY <1>1, <1>2 DEF Glyphs, TypeInv
<1>4. PICK S : lines \in Seq(Seq(S))
  BY <1>2 DEF LinesOK
<1>5. /\ Columns \in Nat \ {0} /\ Rows \in Nat \ {0} /\ n \in 1 .. Rows /\ k \in 0 .. (Columns - 1)
      /\ FONT_WIDTH \in Nat \ {0} /\ FONT_HEIGHT \in Nat \ {0}
  BY <1>2, Placed, ScreenSizes DEF Rest, Column
<1>6. cursor_x = k * FONT_WIDTH /\ cursor_y = (n - 1) * FONT_HEIGHT
  <2>1. n - 1 + 0 = n - 1
    BY <1>5
  <2> QED BY <1>2, <2>1 DEF Rest, Here, Column, LineRow
<1>7. /\ g \in Seq(Seq(S \cup {c})) /\ Len(g) = n /\ Len(g[n]) = k + 1
      /\ \A i \in 1 .. n : Len(g[i]) \in 0 .. Columns
      /\ <<n - 1, k>> \in Cells
      /\ [Shown(lines) EXCEPT ![<<n - 1, k>>] = @ \cup {c}] = Shown(g)
  <2> HIDE DEF c
  <2> QED BY <1>2, <1>4, GlyphShown
<1>8. screen' = Shown(g)
  <2>1. cursor_x \div FONT_WIDTH = k /\ cursor_y \div FONT_HEIGHT = n - 1
    <3>1. k \in Nat /\ n - 1 \in Nat
      BY <1>5
    <3> QED BY <1>5, <1>6, <3>1, CellOfPixel
  <2>2. screen = Shown(lines)
    BY <1>2 DEF Rest, Drawn
  <2> HIDE DEF g, c, n, k
  <2> QED BY <1>3, <1>7, <2>1, <2>2 DEF kprintf_draw_char
<1>9. Len(Append(lines[n], c)) = k + 1
  <2>1. g[n] = Append(lines[n], c)
    <3>1. n \in DOMAIN lines
      BY <1>4, <1>5
    <3> HIDE DEF c, n
    <3> QED BY <3>1
  <2> QED BY <1>7, <2>1
<1> HIDE DEF c, g
<1>10. CASE k + 1 < Columns
  <2>1. lines' = g
    BY <1>1, <1>9, <1>10 DEF PutChar, g
  <2>2. LinesOK(g)
    BY <1>5, <1>7, <1>10 DEF LinesOK
  <2>3. Column' = k + 1 /\ LineRow(0)' = n - 1
    BY <1>5, <1>7, <2>1 DEF Column, LineRow
  <2>4. Drawn(0, lines, screen)' /\ Before(0)'
    <3>1. k + 1 >= 1 /\ k + 1 - 1 = k
      BY <1>5
    <3> QED BY <1>1, <1>6, <1>8, <2>1, <2>3, <3>1 DEF Drawn, Before
  <2>5. Stage("advance")'
    BY <2>4 DEF Stage
  <2> QED BY <1>1, <1>3, <2>1, <2>2, <2>5, LoopStep DEF Labels
<1>11. CASE k + 1 = Columns
  <2> DEFINE h == LastRows(Append(g, <<>>))
  <2>1. lines' = h
    <3>1. ~(k + 1 < Columns)
      BY <1>5, <1>11
    <3> QED BY <1>1, <1>9, <3>1 DEF PutChar, g
  <2>2. PICK s \in {0, 1} :
            /\ LinesOK(h) /\ h[Len(h)] = <<>> /\ Len(h) + s = Len(g) + 1 /\ Drawn(s, h, Shown(g))
    <3>1. CASE Len(g) < Rows
      BY <1>5, <1>7, <3>1, LineBegun
    <3>2. CASE ~(Len(g) < Rows)
      BY <1>5, <1>7, <3>2, LineBegun
    <3> QED BY <3>1, <3>2
  <2> HIDE DEF h
  <2>3. Len(h) \in Nat
    BY <1>5, <2>2 DEF LinesOK
  <2>4. Column' = 0 /\ LineRow(s)' = n
    <3>1. Len(<<>>) = 0
      OBVIOUS
    <3> QED BY <1>5, <1>7, <2>1, <2>2, <2>3, <3>1 DEF Column, LineRow
  <2>5. Drawn(s, lines, screen)' /\ Above(Columns - 1, s)'
    <3>1. k = Columns - 1 /\ n >= 1
      BY <1>5, <1>11
    <3> QED BY <1>1, <1>6, <1>8, <2>1, <2>2, <2>4, <3>1 DEF Above
  <2>6. Stage("advance")'
    BY <2>5 DEF Stage
  <2> QED BY <1>1, <1>3, <2>1, <2>2, <2>6, LoopStep DEF Labels
<1> QED BY <1>5, <1>10, <1>11

LEMMA NewlineScreenStep ==
    ASSUME TypeInv, ScreenInv, ~overlapped, NEW p \in Printers, Newline(p)
    PROVE  ScreenInv'
<1> DEFINE n == Len(lines)
           h == LastRows(Append(lines, <<>>))
<1>1. /\ pc[p] = "next" /\ pc' = [pc EXCEPT ![p] = "newline"] /\ framebuffer'
      /\ cursor_x' = 0 /\ cursor_y' = cursor_y /\ screen' = screen /\ lines' = h
      /\ x' = [x EXCEPT ![p] = 0]
  BY DEF Newline, At, Goto, Follow, PutChar
<1>2. LinesOK(lines) /\ Rest /\ x[p] = cursor_x /\ y[p] = cursor_y
  BY <1>1, OnlyCall DEF Stage
<1>3. x'[p] = cursor_x' /\ y'[p] = cursor_y'
  BY <1>1, <1>2 DEF Newline, TypeInv
<1>4. PICK S : lines \in Seq(Seq(S))
  BY <1>2 DEF LinesOK
<1>5. /\ Columns \in Nat \ {0} /\ Rows \in Nat \ {0} /\ n \in 1 .. Rows /\ FONT_WIDTH \in Nat
      /\ \A i \in 1 .. n : Len(lines[i]) \in 0 .. Columns
  BY <1>2, ScreenSizes DEF LinesOK
<1>6. PICK s \in {0, 1} :
          /\ LinesOK(h) /\ h[Len(h)] = <<>> /\ Len(h) + s = n + 1 /\ Drawn(s, h, Shown(lines))
  <2>1. CASE n < Rows
    BY <1>4, <1>5, <2>1, LineBegun
  <2>2. CASE ~(n < Rows)
    BY <1>4, <1>5, <2>2, LineBegun
  <2> QED BY <2>1, <2>2
<1> HIDE DEF h
<1>7. Len(h) \in Nat
  BY <1>5, <1>6 DEF LinesOK
<1>8. Column' = 0 /\ LineRow(s)' = n
  <2>1. Len(<<>>) = 0
    OBVIOUS
  <2> QED BY <1>1, <1>5, <1>6, <1>7, <2>1 DEF Column, LineRow
<1>9. screen = Shown(lines) /\ cursor_y = (n - 1) * FONT_HEIGHT
  <2>1. n - 1 + 0 = n - 1
    BY <1>5
  <2> QED BY <1>2, <2>1 DEF Rest, Drawn, Here, LineRow
<1>10. Drawn(s, lines, screen)' /\ Above(0, s)'
  <2>1. 0 * FONT_WIDTH = 0 /\ n >= 1
    BY <1>5
  <2> QED BY <1>1, <1>6, <1>8, <1>9, <2>1 DEF Above
<1>11. Stage("newline")'
  BY <1>10 DEF Stage
<1> QED BY <1>1, <1>3, <1>6, <1>11, LoopStep DEF Labels

\* The cursor never comes near 2^32.
LEMMA SmallPixels ==
    ASSUME NEW c \in 0 .. (Columns + 1), NEW r \in 0 .. (Rows + 1)
    PROVE  /\ c * FONT_WIDTH \in Nat /\ (c * FONT_WIDTH) % U32 = c * FONT_WIDTH
           /\ r * FONT_HEIGHT \in Nat /\ (r * FONT_HEIGHT) % U32 = r * FONT_HEIGHT
           /\ (c <= Columns) <=> (c * FONT_WIDTH <= Width)
           /\ (r <= Rows) <=> (r * FONT_HEIGHT <= Height)
<1> DEFINE Row1 == (Rows + 1) * FONT_HEIGHT
           Col1 == (Columns + 1) * FONT_WIDTH
           RowN == Rows * FONT_HEIGHT
           ColN == Columns * FONT_WIDTH
           a == c * FONT_WIDTH
           b == r * FONT_HEIGHT
<1>1. /\ Columns \in Nat /\ Rows \in Nat /\ FONT_WIDTH \in Nat \ {0} /\ FONT_HEIGHT \in Nat \ {0}
      /\ Width \in Nat /\ Height \in Nat /\ U32 \in Nat /\ U32 > 3 * Width /\ U32 > 3 * Height
      /\ ColN \in Nat /\ RowN \in Nat /\ FONT_WIDTH <= Width /\ FONT_HEIGHT <= Height
      /\ ColN <= Width /\ Width < ColN + FONT_WIDTH /\ RowN <= Height /\ Height < RowN + FONT_HEIGHT
  BY ScreenSizes
<1>2. Col1 = ColN + FONT_WIDTH /\ Row1 = RowN + FONT_HEIGHT
  BY <1>1, NextCell
<1>3. c \in Nat /\ r \in Nat /\ c <= Columns + 1 /\ r <= Rows + 1
  BY <1>1
<1>4. a \in Nat /\ b \in Nat
  BY <1>1, <1>3, CellOfPixel
<1>5. a <= Col1 /\ b <= Row1
  BY <1>1, <1>3, CellsInOrder
<1>6. (c <= Columns => a <= ColN) /\ (r <= Rows => b <= RowN)
  BY <1>1, <1>3, CellsInOrder
<1>7. (~(c <= Columns) => a = Col1) /\ (~(r <= Rows) => b = Row1)
  <2>1. (~(c <= Columns) => c = Columns + 1) /\ (~(r <= Rows) => r = Rows + 1)
    BY <1>1, <1>3
  <2> QED BY <2>1
<1> HIDE DEF a, b, Row1, Col1, RowN, ColN
<1>8. a < U32 /\ b < U32
  BY <1>1, <1>2, <1>4, <1>5
<1>9. a % U32 = a /\ b % U32 = b
  BY <1>1, <1>4, <1>8, SmallMod
<1>10. ((c <= Columns) <=> (a <= Width)) /\ ((r <= Rows) <=> (b <= Height))
  BY <1>1, <1>2, <1>4, <1>6, <1>7
<1> QED BY <1>4, <1>9, <1>10 DEF a, b

LEMMA AdvanceScreenStep ==
    ASSUME TypeInv, ScreenInv, ~overlapped, NEW p \in Printers, Advance(p)
    PROVE  ScreenInv'
<1>1. /\ pc[p] = "advance" /\ pc' = [pc EXCEPT ![p] = "wrap?"] /\ framebuffer' = framebuffer
      /\ cursor_x' = (x[p] + FONT_WIDTH) % U32 /\ cursor_y' = cursor_y
      /\ screen' = screen /\ lines' = lines /\ x' = [x EXCEPT ![p] = cursor_x'] /\ y' = y
  BY DEF Advance, At, Goto
<1>2. LinesOK(lines) /\ x[p] = cursor_x /\ y[p] = cursor_y /\ framebuffer /\ Stage("advance")
  BY <1>1, OnlyCall
<1>3. x'[p] = cursor_x' /\ y'[p] = cursor_y'
  BY <1>1, <1>2 DEF TypeInv
<1>4. PICK s \in {0, 1} : Drawn(s, lines, screen) /\ (Before(s) \/ Above(Columns - 1, s))
  BY <1>2 DEF Stage
<1>5. Columns \in Nat \ {0} /\ FONT_WIDTH \in Nat /\ Column \in 0 .. (Columns - 1) /\ Rows \in Nat
  BY <1>2, <1>4, Placed, ScreenSizes
<1>6. Column' = Column /\ LineRow(s)' = LineRow(s) /\ Drawn(s, lines, screen)'
  BY <1>1, <1>4 DEF Column, LineRow
<1>7. ASSUME NEW c \in 0 .. (Columns - 1), cursor_x = c * FONT_WIDTH
      PROVE  cursor_x' = (c + 1) * FONT_WIDTH
  <2>1. c \in Nat /\ c + 1 \in 0 .. (Columns + 1) /\ 0 \in 0 .. (Rows + 1)
    BY <1>5
  <2>2. (c + 1) * FONT_WIDTH = c * FONT_WIDTH + FONT_WIDTH
    BY <1>5, <2>1, NextCell
  <2>3. ((c + 1) * FONT_WIDTH) % U32 = (c + 1) * FONT_WIDTH
    BY <2>1, SmallPixels
  <2> QED BY <1>1, <1>2, <1>7, <2>2, <2>3
<1>8. CASE Before(s)
  <2>1. /\ s = 0 /\ Column - 1 \in 0 .. (Columns - 1) /\ Column - 1 + 1 = Column
        /\ cursor_x = (Column - 1) * FONT_WIDTH /\ cursor_y = LineRow(s) * FONT_HEIGHT
    BY <1>5, <1>8 DEF Before
  <2>2. cursor_x' = (Column - 1 + 1) * FONT_WIDTH
    BY <2>1, <1>7
  <2> QED
    <3>1. Here(s)'
      BY <1>1, <1>6, <2>1, <2>2 DEF Here
    <3>2. Stage("wrap?")'
      BY <1>6, <3>1 DEF Stage
    <3> QED BY <1>1, <1>2, <1>3, <3>2, LoopStep DEF Labels
<1>9. CASE Above(Columns - 1, s)
  <2>1. Columns - 1 \in 0 .. (Columns - 1) /\ Columns - 1 + 1 = Columns
    BY <1>5
  <2>2. cursor_x' = (Columns - 1 + 1) * FONT_WIDTH
    BY <2>1, <1>7, <1>9 DEF Above
  <2>3. Above(Columns, s)'
    BY <1>1, <1>6, <1>9, <2>1, <2>2 DEF Above
  <2>4. Stage("wrap?")'
    BY <1>6, <2>3 DEF Stage
  <2> QED BY <1>1, <1>2, <1>3, <2>4, LoopStep DEF Labels
<1> QED BY <1>4, <1>8, <1>9

LEMMA DownScreenStep ==
    ASSUME TypeInv, ScreenInv, ~overlapped, NEW p \in Printers,
           Down(p, "newline", "wrap?") \/ Down(p, "wrapped", "scroll?")
    PROVE  ScreenInv'
<1>1. PICK to \in {"wrap?", "scroll?"} :
        /\ pc[p] \in {"newline", "wrapped"} /\ pc' = [pc EXCEPT ![p] = to]
  BY DEF Down, At, Goto
<1>2. /\ framebuffer' = framebuffer /\ cursor_x' = cursor_x /\ cursor_y' = (y[p] + FONT_HEIGHT) % U32
      /\ screen' = screen /\ lines' = lines /\ y' = [y EXCEPT ![p] = cursor_y'] /\ x' = x
  BY DEF Down
<1>3. LinesOK(lines) /\ x[p] = cursor_x /\ y[p] = cursor_y /\ framebuffer /\ Stage(pc[p])
  BY <1>1, OnlyCall
<1>4. x'[p] = cursor_x' /\ y'[p] = cursor_y'
  BY <1>2, <1>3 DEF TypeInv
<1>5. PICK s \in {0, 1} : Drawn(s, lines, screen) /\ Above(0, s)
  BY <1>1, <1>3 DEF Stage
<1>6. /\ Columns \in Nat \ {0} /\ Rows \in Nat /\ FONT_HEIGHT \in Nat
      /\ LineRow(s) \in 1 .. Rows /\ Column = 0 /\ cursor_x = 0 * FONT_WIDTH
      /\ cursor_y = (LineRow(s) - 1) * FONT_HEIGHT
  <2>1. LineRow(s) \in 0 .. Rows /\ Rows \in Nat
    BY <1>3, <1>5, Placed, ScreenSizes
  <2> QED BY <1>5, <2>1, ScreenSizes DEF Above
<1>7. cursor_y' = LineRow(s) * FONT_HEIGHT
  <2>1. LineRow(s) - 1 \in Nat /\ LineRow(s) - 1 + 1 = LineRow(s)
        /\ LineRow(s) \in 0 .. (Rows + 1) /\ 0 \in 0 .. (Columns + 1)
    BY <1>6
  <2>2. (LineRow(s) - 1 + 1) * FONT_HEIGHT = (LineRow(s) - 1) * FONT_HEIGHT + FONT_HEIGHT
    BY <1>6, <2>1, NextCell
  <2>3. (LineRow(s) * FONT_HEIGHT) % U32 = LineRow(s) * FONT_HEIGHT
    BY <2>1, SmallPixels
  <2> QED BY <1>2, <1>3, <1>6, <2>1, <2>2, <2>3
<1>8. Drawn(s, lines, screen)' /\ Here(s)'
  <2>1. Column' = Column /\ LineRow(s)' = LineRow(s)
    BY <1>2 DEF Column, LineRow
  <2> QED BY <1>2, <1>5, <1>6, <1>7, <2>1 DEF Here
<1>9. Stage(to)'
  BY <1>8 DEF Stage
<1> QED BY <1>1, <1>2, <1>3, <1>4, <1>9, LoopStep DEF Labels

LEMMA WrapsScreenStep ==
    ASSUME TypeInv, ScreenInv, ~overlapped, NEW p \in Printers, Wraps(p)
    PROVE  ScreenInv'
<1>0. pc[p] = "wrap?"
  BY DEF Wraps
<1>1. /\ pc[p] = "wrap?" /\ framebuffer' = framebuffer
      /\ cursor_x' = cursor_x /\ cursor_y' = cursor_y
      /\ screen' = screen /\ lines' = lines /\ x' = x /\ y' = y
  <2>1. \A v : v \in {cursor_x, x[p]} => v = x[p]
    BY <1>0, OnlyCall
  <2>2. x' = x
    BY <2>1 DEF Wraps, TypeInv
  <2> QED BY <1>0, <2>2 DEF Wraps, cursor
<1>2. LinesOK(lines) /\ x[p] = cursor_x /\ y[p] = cursor_y /\ framebuffer /\ Stage("wrap?")
  BY <1>1, OnlyCall
<1>3. pc' = [pc EXCEPT ![p] = IF Full(cursor_x) THEN "wrap" ELSE "scroll?"]
  BY <1>2 DEF Wraps, Goto
<1>4. PICK s \in {0, 1} : Drawn(s, lines, screen) /\ (Here(s) \/ Above(Columns, s))
  BY <1>2 DEF Stage
<1>5. /\ Columns \in Nat \ {0} /\ Rows \in Nat /\ FONT_WIDTH \in Nat /\ Width \in Nat
      /\ Column \in 0 .. (Columns - 1)
  BY <1>2, <1>4, Placed, ScreenSizes
<1>6. /\ Column' = Column /\ LineRow(s)' = LineRow(s) /\ Drawn(s, lines, screen)'
      /\ (Here(s) => Here(s)') /\ (Above(Columns, s) => Above(Columns, s)')
  BY <1>1, <1>4 DEF Column, LineRow, Here, Above
<1>7. ASSUME NEW c \in 0 .. Columns, cursor_x = c * FONT_WIDTH
      PROVE  Full(cursor_x) <=> c = Columns
  <2>1. c \in Nat /\ c + 1 \in 0 .. (Columns + 1) /\ 0 \in 0 .. (Rows + 1)
    BY <1>5
  <2>2. (c + 1) * FONT_WIDTH = c * FONT_WIDTH + FONT_WIDTH
    BY <1>5, <2>1, NextCell
  <2>3. /\ ((c + 1) * FONT_WIDTH) % U32 = (c + 1) * FONT_WIDTH /\ (c + 1) * FONT_WIDTH \in Nat
        /\ (c + 1 <= Columns) <=> ((c + 1) * FONT_WIDTH <= Width)
    BY <2>1, SmallPixels
  <2>4. Full(cursor_x) <=> (c + 1) * FONT_WIDTH > Width
    BY <1>7, <2>2, <2>3 DEF Full
  <2>5. (c + 1) * FONT_WIDTH > Width <=> ~((c + 1) * FONT_WIDTH <= Width)
    BY <1>5, <2>3
  <2>6. ~(c + 1 <= Columns) <=> c = Columns
    BY <1>5
  <2> QED BY <2>3, <2>4, <2>5, <2>6
<1>8. CASE Above(Columns, s)
  <2>1. Full(cursor_x)
    <3>1. Columns \in 0 .. Columns
      BY <1>5
    <3> QED BY <1>7, <1>8, <3>1 DEF Above
  <2>2. Stage("wrap")'
    BY <1>6, <1>8 DEF Stage
  <2> QED BY <1>1, <1>2, <1>3, <2>1, <2>2, LoopStep DEF Labels
<1>9. CASE Here(s)
  <2>1. ~Full(cursor_x)
    <3>1. Column \in 0 .. Columns /\ Column # Columns
      BY <1>5
    <3> QED BY <1>7, <1>9, <3>1 DEF Here
  <2>2. Stage("scroll?")'
    BY <1>6, <1>9 DEF Stage
  <2> QED BY <1>1, <1>2, <1>3, <2>1, <2>2, LoopStep DEF Labels
<1> QED BY <1>4, <1>8, <1>9

LEMMA WrapScreenStep ==
    ASSUME TypeInv, ScreenInv, ~overlapped, NEW p \in Printers, Wrap(p)
    PROVE  ScreenInv'
<1>1. /\ pc[p] = "wrap" /\ pc' = [pc EXCEPT ![p] = "wrapped"] /\ framebuffer' = framebuffer
      /\ cursor_x' = 0 /\ cursor_y' = cursor_y /\ screen' = screen /\ lines' = lines
      /\ x' = [x EXCEPT ![p] = 0]
  BY DEF Wrap, At, Goto
<1>2. LinesOK(lines) /\ x[p] = cursor_x /\ y[p] = cursor_y /\ framebuffer /\ Stage("wrap")
  BY <1>1, OnlyCall
<1>3. x'[p] = cursor_x' /\ y'[p] = cursor_y'
  BY <1>1, <1>2 DEF Wrap, TypeInv
<1>4. PICK s \in {0, 1} : Drawn(s, lines, screen) /\ Above(Columns, s)
  BY <1>2 DEF Stage
<1>5. Drawn(s, lines, screen)' /\ Above(0, s)'
  <2>1. 0 * FONT_WIDTH = 0
    BY ScreenSizes
  <2>2. Column' = Column /\ LineRow(s)' = LineRow(s)
    BY <1>1 DEF Column, LineRow
  <2> QED BY <1>1, <1>4, <2>1, <2>2 DEF Above
<1>6. Stage("wrapped")'
  BY <1>5 DEF Stage
<1> QED BY <1>1, <1>2, <1>3, <1>6, LoopStep DEF Labels

LEMMA ScrollsScreenStep ==
    ASSUME TypeInv, ScreenInv, ~overlapped, NEW p \in Printers, Scrolls(p)
    PROVE  ScreenInv'
<1>0. pc[p] = "scroll?"
  BY DEF Scrolls
<1>1. /\ pc[p] = "scroll?" /\ framebuffer' = framebuffer
      /\ cursor_x' = cursor_x /\ cursor_y' = cursor_y
      /\ screen' = screen /\ lines' = lines /\ x' = x /\ y' = y
  <2>1. \A v : v \in {cursor_y, y[p]} => v = y[p]
    BY <1>0, OnlyCall
  <2>2. y' = y
    BY <2>1 DEF Scrolls, TypeInv
  <2> QED BY <1>0, <2>2 DEF Scrolls, cursor
<1>2. LinesOK(lines) /\ x[p] = cursor_x /\ y[p] = cursor_y /\ framebuffer /\ Stage("scroll?")
  BY <1>1, OnlyCall
<1>3. pc' = [pc EXCEPT ![p] = IF (cursor_y + FONT_HEIGHT) % U32 > Height THEN "scroll" ELSE "next"]
  BY <1>2 DEF Scrolls, Goto
<1>4. PICK s \in {0, 1} : Drawn(s, lines, screen) /\ Here(s)
  BY <1>2 DEF Stage
<1>5. /\ Rows \in Nat /\ Columns \in Nat /\ FONT_HEIGHT \in Nat /\ Height \in Nat
      /\ LineRow(s) \in 0 .. Rows /\ (s = 0 => LineRow(s) < Rows) /\ (s = 1 => LineRow(s) = Rows)
  BY <1>2, <1>4, Placed, ScreenSizes
<1>6. Drawn(s, lines, screen)' /\ Here(s)'
  BY <1>1, <1>4 DEF Here, Column, LineRow
<1>7. (cursor_y + FONT_HEIGHT) % U32 > Height <=> s = 1
  <2> DEFINE r == LineRow(s)
  <2>1. r \in Nat /\ r + 1 \in 0 .. (Rows + 1) /\ 0 \in 0 .. (Columns + 1)
        /\ (r + 1 <= Rows <=> s = 0) /\ cursor_y = r * FONT_HEIGHT
    BY <1>4, <1>5 DEF Here
  <2> HIDE DEF r
  <2>2. (r + 1) * FONT_HEIGHT = r * FONT_HEIGHT + FONT_HEIGHT
    BY <1>5, <2>1, NextCell
  <2>3. /\ ((r + 1) * FONT_HEIGHT) % U32 = (r + 1) * FONT_HEIGHT /\ (r + 1) * FONT_HEIGHT \in Nat
        /\ (r + 1 <= Rows) <=> ((r + 1) * FONT_HEIGHT <= Height)
    BY <2>1, SmallPixels
  <2>4. (cursor_y + FONT_HEIGHT) % U32 = (r + 1) * FONT_HEIGHT
    BY <2>1, <2>2, <2>3
  <2>5. (r + 1) * FONT_HEIGHT > Height <=> ~((r + 1) * FONT_HEIGHT <= Height)
    BY <1>5, <2>3
  <2> QED BY <2>1, <2>3, <2>4, <2>5
<1>8. CASE s = 1
  <2>1. Stage("scroll")'
    BY <1>6, <1>8 DEF Stage
  <2> QED BY <1>1, <1>2, <1>3, <1>7, <1>8, <2>1, LoopStep DEF Labels
<1>9. CASE s = 0
  <2>1. Stage("next")'
    BY <1>6, <1>9 DEF Stage, Rest
  <2>2. pc' = [pc EXCEPT ![p] = "next"]
    <3>1. s # 1
      BY <1>9
    <3>2. ~((cursor_y + FONT_HEIGHT) % U32 > Height)
      BY ONLY <1>7, <3>1, Zenon
    <3> QED BY ONLY <1>3, <3>2, Zenon
  <2> QED BY <1>1, <1>2, <2>1, <2>2, LoopStep DEF Labels
<1> QED BY <1>8, <1>9

LEMMA ScrollScreenStep ==
    ASSUME TypeInv, ScreenInv, ~overlapped, NEW p \in Printers, kprintf_scroll(p)
    PROVE  ScreenInv'
<1>1. /\ pc[p] = "scroll" /\ pc' = [pc EXCEPT ![p] = "up"] /\ framebuffer' = framebuffer
      /\ cursor_x' = cursor_x /\ cursor_y' = cursor_y /\ lines' = lines
      /\ x' = [x EXCEPT ![p] = cursor_x] /\ y' = [y EXCEPT ![p] = cursor_y]
      /\ screen' = [cell \in Cells |-> IF cell[1] < Rows - 1 THEN screen[<<cell[1] + 1, cell[2]>>]
                                       ELSE {}]
  BY DEF kprintf_scroll, At, Goto, cursor, Bottom
<1>2. LinesOK(lines) /\ framebuffer /\ Stage("scroll")
  BY <1>1, OnlyCall
<1>3. x'[p] = cursor_x' /\ y'[p] = cursor_y'
  BY <1>1 DEF TypeInv
<1>4. /\ Here(1) /\ Len(lines) = Rows /\ lines[Rows] = <<>>
      /\ \A r \in 0 .. (Rows - 2), col \in 0 .. (Columns - 1) :
           screen[<<r + 1, col>>] = Shown(lines)[<<r, col>>]
  BY <1>2 DEF Stage, Drawn
<1>5. Rows \in Nat \ {0} /\ Columns \in Nat \ {0} /\ Len(<<>>) = 0
  BY ScreenSizes
<1>6. screen' = Shown(lines)
  <2> DEFINE scr == [cell \in Cells |-> IF cell[1] < Rows - 1 THEN screen[<<cell[1] + 1, cell[2]>>]
                                        ELSE {}]
  <2>1. DOMAIN scr = Cells /\ scr = [cell \in DOMAIN scr |-> scr[cell]]
    OBVIOUS
  <2>2. ASSUME NEW r \in 0 .. (Rows - 1), NEW col \in 0 .. (Columns - 1)
        PROVE  scr[<<r, col>>] = Shown(lines)[<<r, col>>]
    <3>1. <<r, col>> \in Cells
      BY DEF Cells
    <3>2. CASE r < Rows - 1
      <4>1. r \in 0 .. (Rows - 2)
        BY <1>5, <3>2
      <4>2. scr[<<r, col>>] = screen[<<r + 1, col>>]
        BY <3>1, <3>2
      <4> QED BY <1>4, <4>1, <4>2
    <3>3. CASE ~(r < Rows - 1)
      <4>1. r + 1 = Rows /\ ~(col < 0)
        BY <1>5, <3>3
      <4>2. scr[<<r, col>>] = {}
        BY <3>1, <3>3
      <4>3. ~(r < Len(lines) /\ col < Len(lines[r + 1]))
        BY <1>4, <1>5, <4>1
      <4>4. Shown(lines)[<<r, col>>] = {}
        BY <4>3, ShownCell
      <4> QED BY <4>2, <4>4
    <3> QED BY <3>2, <3>3
  <2> HIDE DEF scr
  <2>3. scr = Shown(lines)
    BY <2>1, <2>2, ShownEqual
  <2> QED BY <1>1, <2>3 DEF scr
<1>7. Drawn(0, lines, screen)' /\ Here(1)' /\ Len(lines') = Rows
  <2>1. Drawn(0, lines, screen)'
    BY <1>1, <1>6 DEF Drawn, Shown
  <2> QED BY <1>1, <1>4, <2>1 DEF Here, Column, LineRow
<1>8. Stage("up")'
  BY <1>7 DEF Stage
<1> QED BY <1>1, <1>2, <1>3, <1>8, LoopStep DEF Labels

LEMMA UpScreenStep ==
    ASSUME TypeInv, ScreenInv, ~overlapped, NEW p \in Printers, Up(p)
    PROVE  ScreenInv'
<1>1. /\ pc[p] = "up" /\ pc' = [pc EXCEPT ![p] = "next"] /\ framebuffer' = framebuffer
      /\ cursor_x' = cursor_x /\ cursor_y' = (y[p] - FONT_HEIGHT) % U32 /\ lines' = lines
      /\ screen' = screen /\ x' = x /\ y' = [y EXCEPT ![p] = cursor_y']
  BY DEF Up, At, Goto
<1>2. LinesOK(lines) /\ x[p] = cursor_x /\ y[p] = cursor_y /\ framebuffer /\ Stage("up")
  BY <1>1, OnlyCall
<1>3. x'[p] = cursor_x' /\ y'[p] = cursor_y'
  BY <1>1, <1>2 DEF TypeInv
<1>4. Drawn(0, lines, screen) /\ Here(1) /\ Len(lines) = Rows
  BY <1>2 DEF Stage
<1>5. Rows \in Nat \ {0} /\ Columns \in Nat /\ FONT_HEIGHT \in Nat
  BY ScreenSizes
<1>6. cursor_y' = (Rows - 1) * FONT_HEIGHT
  <2>1. cursor_y = Rows * FONT_HEIGHT
    <3>1. Rows - 1 + 1 = Rows
      BY <1>5
    <3> QED BY <1>4, <3>1 DEF Here, LineRow
  <2>2. Rows - 1 \in Nat /\ Rows - 1 + 1 = Rows /\ Rows - 1 \in 0 .. (Rows + 1) /\ 0 \in 0 .. (Columns + 1)
    BY <1>5
  <2>3. (Rows - 1 + 1) * FONT_HEIGHT = (Rows - 1) * FONT_HEIGHT + FONT_HEIGHT
    BY <1>5, <2>2, NextCell
  <2>4. /\ (Rows - 1) * FONT_HEIGHT \in Nat
        /\ ((Rows - 1) * FONT_HEIGHT) % U32 = (Rows - 1) * FONT_HEIGHT
    BY <2>2, SmallPixels
  <2> DEFINE d == (Rows - 1) * FONT_HEIGHT
  <2>5. cursor_y = d + FONT_HEIGHT /\ d \in Nat /\ d % U32 = d
    BY <2>1, <2>2, <2>3, <2>4
  <2> HIDE DEF d
  <2>6. cursor_y - FONT_HEIGHT = d
    BY <1>5, <2>5
  <2> QED BY <1>1, <1>2, <2>5, <2>6 DEF d
<1>7. Rest'
  <2>1. Len(lines') - 1 + 0 = Rows - 1
    BY <1>1, <1>4, <1>5
  <2> QED BY <1>1, <1>4, <1>6, <2>1 DEF Rest, Here, Column, LineRow
<1>8. Stage("next")'
  BY <1>7 DEF Stage
<1> QED BY <1>1, <1>2, <1>3, <1>8, LoopStep DEF Labels

LEMMA ScreenStep ==
    ASSUME TypeInv, ScreenInv, [Next]_vars
    PROVE  ScreenInv'
<1>1. CASE Aside
  BY <1>1, AsideUnchanged
     DEF ScreenInv, Alone, Stage, Rest, Here, Before, Above, Column, LineRow
<1>2. CASE kprintf_init
  BY <1>2, InitScreenStep
<1>3. ASSUME NEW p \in Printers, CallerStep(p) PROVE ScreenInv'
  <2>1. CASE (\E m \in Messages : kprintf(p, m)) \/ Return(p) \/ uart_putc(p)
    BY <2>1, BeginScreenStep, ReturnScreenStep
  <2>2. CASE ~((\E m \in Messages : kprintf(p, m)) \/ Return(p) \/ uart_putc(p))
    <3>1. overlapped' = overlapped
      BY <1>3, <2>2 DEF CallerStep, Glyphs, Advance, Newline, Down, Wraps, Wrap, Scrolls,
                        kprintf_scroll, Up
    <3>2. CASE overlapped
      BY <3>1, <3>2 DEF ScreenInv
    <3>3. CASE ~overlapped
      BY <1>3, <2>2, <3>3, GlyphsScreenStep, AdvanceScreenStep, NewlineScreenStep, DownScreenStep,
         WrapsScreenStep, WrapScreenStep, ScrollsScreenStep, ScrollScreenStep, UpScreenStep
         DEF CallerStep
    <3> QED BY <3>2, <3>3
  <2> QED BY <2>1, <2>2
<1> QED BY <1>1, <1>2, <1>3, NextCases

-----------------------------------------------------------------------------
(* Buffers and bounds *)

\* A text that fits the buffer with its terminator.
Fits(t) == \E S : t \in Seq(S) /\ Len(t) < KPRINTF_BUFFER_SIZE

Coordinates == 0 .. (U32 - 1)

\* Every text fits; where a character is being put out there is one.  Of calls
\* that overlap neither the lines nor the glyphs are followed.
BoundsInv ==
    /\ cursor_x \in Coordinates /\ cursor_y \in Coordinates
    /\ x \in [Printers -> Coordinates] /\ y \in [Printers -> Coordinates]
    /\ DOMAIN screen = Cells
    /\ overlapped => lines = <<<<>>>>
    /\ text = [p \in Printers |-> text[p]]
    /\ \A p \in Printers : Fits(text[p])
    /\ \A p \in Printers : pc[p] \notin {"idle", "next"} => text[p] # <<>>

LEMMA TextIsSequence ==
    ASSUME NEW t, IsText(t)
    PROVE  \E S : t \in Seq(S)
<1> DEFINE n == Len(t)
           S == {t[i] : i \in 1 .. n}
<1>1. n \in Nat /\ t = [i \in 1 .. n |-> t[i]]
  BY DEF IsText
<1> HIDE DEF n
<1>2. t \in [1 .. n -> S]
  BY <1>1
<1>3. t \in Seq(S)
  BY <1>1, <1>2
<1> QED BY <1>3

\* The terminator takes a byte of the buffer, so that at most size - 1 characters
\* are in front of it.
LEMMA MessageFits ==
    ASSUME NEW m \in Messages
    PROVE  Fits(vsnprintf(KPRINTF_BUFFER_SIZE, m.format, m.args))
<1> DEFINE size == KPRINTF_BUFFER_SIZE
           chars == Converted(size, m.format, m.args)
<1>1. PICK S : chars \in Seq(S)
  BY MessagesAssumption, TextIsSequence
<1>2. size \in Nat \ {0} /\ vsnprintf(size, m.format, m.args) = Terminated(chars, size)
  BY ConsoleAssumption DEF vsnprintf
<1> HIDE DEF size, chars
<1>3. Terminated(chars, size) \in Seq(S) /\ Len(Terminated(chars, size)) < size
  <2>1. CASE Len(chars) < size
    BY <1>1, <2>1 DEF Terminated
  <2>2. CASE ~(Len(chars) < size)
    <3>1. Terminated(chars, size) = SubSeq(chars, 1, size - 1) /\ size - 1 \in 0 .. Len(chars)
      BY <1>1, <1>2, <2>2 DEF Terminated
    <3>2. /\ SubSeq(chars, 1, size - 1) \in Seq(S) /\ Len(SubSeq(chars, 1, size - 1)) = size - 1
      BY <1>1, <1>2, <3>1
    <3> QED BY <1>2, <3>1, <3>2
  <2> QED BY <2>1, <2>2
<1> QED BY <1>2, <1>3 DEF Fits, size

LEMMA TailFits ==
    ASSUME NEW t, Fits(t), t # <<>>
    PROVE  Fits(Tail(t))
<1>1. PICK S : t \in Seq(S) /\ Len(t) < KPRINTF_BUFFER_SIZE
  BY DEF Fits
<1>2. Tail(t) \in Seq(S) /\ Len(Tail(t)) = Len(t) - 1 /\ Len(t) \in Nat
  BY <1>1
<1>3. Len(Tail(t)) < KPRINTF_BUFFER_SIZE
  BY <1>1, <1>2, ConsoleAssumption
<1> QED BY <1>2, <1>3 DEF Fits

LEMMA AnyGlyphFits ==
    ASSUME NEW t, Fits(t)
    PROVE  Fits(AnyGlyph(t)) /\ (t # <<>> => AnyGlyph(t) # <<>>)
<1>1. PICK S : t \in Seq(S) /\ Len(t) < KPRINTF_BUFFER_SIZE
  BY DEF Fits
<1> DEFINE n == Len(t)
           g == [i \in 1 .. n |-> IF t[i] = "\n" THEN "\n" ELSE "?"]
<1>2. n \in Nat /\ DOMAIN t = 1 .. n /\ (t # <<>> => n # 0)
  BY <1>1
<1>3. AnyGlyph(t) = g
  BY <1>2 DEF AnyGlyph
<1> HIDE DEF n
<1>4. g \in [1 .. n -> {"\n", "?"}]
  OBVIOUS
<1> HIDE DEF g
<1>5. g \in Seq({"\n", "?"}) /\ Len(g) = n
  BY <1>2, <1>4
<1>6. Fits(g)
  BY <1>1, <1>5 DEF Fits, n
<1>7. t # <<>> => g # <<>>
  BY <1>2, <1>5
<1> QED BY <1>3, <1>6, <1>7

LEMMA InitBounds == Init => BoundsInv
<1> SUFFICES ASSUME Init PROVE BoundsInv
  OBVIOUS
<1>1. 0 \in Coordinates
  BY ScreenSizes DEF Coordinates
<1>2. Fits(<<>>)
  <2>1. <<>> \in Seq({}) /\ Len(<<>>) = 0
    OBVIOUS
  <2>2. 0 < KPRINTF_BUFFER_SIZE
    BY ConsoleAssumption
  <2> QED BY <2>1, <2>2 DEF Fits
<1> QED BY <1>1, <1>2 DEF Init, BoundsInv, Black

\* A caller goes on to the next character.
LEMMA TextStep ==
    ASSUME BoundsInv, NEW p \in Printers, text[p] # <<>>, text' = [text EXCEPT ![p] = Tail(@)],
           pc' \in {pc, [pc EXCEPT ![p] = "next"]}, pc \in [Printers -> Labels],
           pc[p] = "next" \/ pc' = [pc EXCEPT ![p] = "next"]
    PROVE  /\ text' = [q \in Printers |-> text'[q]]
           /\ \A q \in Printers : Fits(text'[q])
           /\ \A q \in Printers : pc'[q] \notin {"idle", "next"} => text'[q] # <<>>
<1>1. DOMAIN text = Printers /\ \A q \in Printers : Fits(text[q])
  BY DEF BoundsInv
<1>2. text' = [q \in Printers |-> IF q = p THEN Tail(text[p]) ELSE text[q]]
  BY <1>1
<1>3. Fits(Tail(text[p]))
  BY <1>1, TailFits
<1>4. \A q \in Printers : q # p => pc'[q] = pc[q]
  OBVIOUS
<1>5. pc'[p] = "next"
  OBVIOUS
<1> QED BY <1>1, <1>2, <1>3, <1>4, <1>5 DEF BoundsInv

LEMMA BoundsStep ==
    ASSUME TypeInv, BoundsInv, [Next]_vars
    PROVE  BoundsInv'
<1>0. /\ FONT_WIDTH \in Nat /\ FONT_HEIGHT \in Nat /\ U32 \in Nat \ {0} /\ 0 \in Coordinates
      /\ \A a \in Int : a % U32 \in Coordinates
  <2>1. FONT_WIDTH \in Nat /\ FONT_HEIGHT \in Nat /\ U32 \in Nat \ {0}
    BY ScreenSizes
  <2> QED BY <2>1 DEF Coordinates
<1>1. CASE Aside
  BY <1>1, AsideUnchanged DEF BoundsInv
<1>2. CASE kprintf_init
  BY <1>0, <1>2 DEF kprintf_init, BoundsInv, caller
<1>3. ASSUME NEW p \in Printers, CallerStep(p) PROVE BoundsInv'
  <2>0. pc \in [Printers -> Labels]
    BY DEF TypeInv
  <2>1. ASSUME NEW m \in Messages, kprintf(p, m) PROVE BoundsInv'
    <3>1. PICK buffer, texts : /\ buffer = vsnprintf(KPRINTF_BUFFER_SIZE, m.format, m.args)
                               /\ texts = [text EXCEPT ![p] = buffer]
      OBVIOUS
    <3>2. /\ pc[p] = "idle" /\ pc' = [pc EXCEPT ![p] = "next"]
          /\ text' = IF overlapped' THEN [q \in Printers |-> AnyGlyph(texts[q])] ELSE texts
      BY <2>1, <3>1 DEF kprintf, At, Goto
    <3>3. /\ screen' = IF overlapped' THEN Black ELSE screen
          /\ lines' = IF overlapped' THEN <<<<>>>> ELSE lines
          /\ x' = [x EXCEPT ![p] = cursor_x] /\ y' = [y EXCEPT ![p] = cursor_y]
          /\ cursor_x' = cursor_x /\ cursor_y' = cursor_y
      BY <2>1 DEF kprintf, cursor
    <3>4. DOMAIN text = Printers /\ \A q \in Printers : Fits(text[q])
      BY DEF BoundsInv
    <3>5. Fits(buffer)
      BY <3>1, MessageFits
    <3>6. texts = [q \in Printers |-> IF q = p THEN buffer ELSE text[q]]
      BY <3>1, <3>4
    <3>7. \A q \in Printers : Fits(texts[q]) /\ (q # p => texts[q] = text[q])
      BY <3>4, <3>5, <3>6
    <3>8. ASSUME NEW q \in Printers
          PROVE  Fits(text'[q]) /\ (texts[q] # <<>> => text'[q] # <<>>)
      BY <3>2, <3>7, AnyGlyphFits
    <3>9. text' = [q \in Printers |-> text'[q]]
      BY <3>2, <3>6
    <3>10. ASSUME NEW q \in Printers, pc'[q] \notin {"idle", "next"} PROVE text'[q] # <<>>
      <4>1. q # p /\ pc'[q] = pc[q]
        BY <2>0, <3>2, <3>10
      <4> QED BY <3>7, <3>8, <3>10, <4>1 DEF BoundsInv
    <3>11. DOMAIN screen' = Cells
      BY <3>3 DEF BoundsInv, Black
    <3>12. overlapped' => lines' = <<<<>>>>
      BY <3>3
    <3> HIDE <3>2, <3>6
    <3> QED BY <3>3, <3>8, <3>9, <3>10, <3>11, <3>12 DEF BoundsInv
  <2>2. CASE Return(p)
    BY <1>0, <2>0, <2>2 DEF Return, At, Goto, BoundsInv, cursor
  <2>3. CASE uart_putc(p)
    <3>1. /\ text' = [q \in Printers |-> text'[q]]
          /\ \A q \in Printers : Fits(text'[q])
          /\ \A q \in Printers : pc'[q] \notin {"idle", "next"} => text'[q] # <<>>
      BY <2>0, <2>3, TextStep DEF uart_putc
    <3> QED BY <2>3, <3>1 DEF uart_putc, BoundsInv, cursor
  <2>4. CASE Glyphs(p)
    <3>1. DOMAIN screen' = Cells
      BY <2>4 DEF Glyphs, kprintf_draw_char, BoundsInv
    <3>2. /\ text[p] # <<>> /\ text' = text /\ overlapped' = overlapped
          /\ overlapped => lines' = lines
          /\ pc' = [pc EXCEPT ![p] = "advance"]
          /\ cursor_x' = cursor_x /\ cursor_y' = cursor_y
      BY <2>4 DEF Glyphs, At, Goto, Follow, cursor
    <3>3. x' \in [Printers -> Coordinates] /\ y' \in [Printers -> Coordinates]
      BY <2>4 DEF Glyphs, BoundsInv
    <3> QED BY <2>0, <3>1, <3>2, <3>3 DEF BoundsInv
  <2>5. CASE Newline(p)
    <3>2. /\ text[p] # <<>> /\ text' = text /\ overlapped' = overlapped
          /\ overlapped => lines' = lines
          /\ pc' = [pc EXCEPT ![p] = "newline"] /\ screen' = screen
          /\ cursor_x' = 0 /\ cursor_y' = cursor_y
      BY <2>5 DEF Newline, At, Goto, Follow
    <3>3. x' \in [Printers -> Coordinates] /\ y' \in [Printers -> Coordinates]
      BY <1>0, <2>5 DEF Newline, BoundsInv
    <3> QED BY <1>0, <2>0, <3>2, <3>3 DEF BoundsInv
  <2>6. CASE Advance(p)
    <3>1. (x[p] + FONT_WIDTH) % U32 \in Coordinates
      <4>1. x[p] + FONT_WIDTH \in Int
        BY <1>0 DEF TypeInv
      <4> QED BY <1>0, <4>1
    <3> QED BY <2>0, <2>6, <3>1 DEF Advance, At, Goto, BoundsInv
  <2>7. CASE Down(p, "newline", "wrap?") \/ Down(p, "wrapped", "scroll?")
    <3>1. (y[p] + FONT_HEIGHT) % U32 \in Coordinates
      <4>1. y[p] + FONT_HEIGHT \in Int
        BY <1>0 DEF TypeInv
      <4> QED BY <1>0, <4>1
    <3> QED BY <2>0, <2>7, <3>1 DEF Down, At, Goto, BoundsInv
  <2>8. CASE Wraps(p)
    BY <2>0, <2>8 DEF Wraps, Goto, BoundsInv, cursor
  <2>9. CASE Wrap(p)
    BY <1>0, <2>0, <2>9 DEF Wrap, At, Goto, BoundsInv
  <2>10. CASE Scrolls(p)
    <3>1. CASE text' = text
      BY <2>0, <2>10, <3>1 DEF Scrolls, Goto, BoundsInv, cursor
    <3>2. CASE pc' = [pc EXCEPT ![p] = "next"] /\ text' = [text EXCEPT ![p] = Tail(@)]
      <4>1. text[p] # <<>>
        BY <2>10 DEF Scrolls, BoundsInv
      <4>2. /\ text' = [q \in Printers |-> text'[q]]
            /\ \A q \in Printers : Fits(text'[q])
            /\ \A q \in Printers : pc'[q] \notin {"idle", "next"} => text'[q] # <<>>
        BY <2>0, <3>2, <4>1, TextStep
      <4> QED BY <2>10, <4>2 DEF Scrolls, BoundsInv, cursor
    <3> QED BY <2>10, <3>1, <3>2 DEF Scrolls, Goto
  <2>11. CASE kprintf_scroll(p)
    BY <2>0, <2>11 DEF kprintf_scroll, At, Goto, BoundsInv, cursor
  <2>12. CASE Up(p)
    <3>1. (y[p] - FONT_HEIGHT) % U32 \in Coordinates
      <4>1. y[p] - FONT_HEIGHT \in Int
        BY <1>0 DEF TypeInv
      <4> QED BY <1>0, <4>1
    <3>2. text[p] # <<>> /\ pc' = [pc EXCEPT ![p] = "next"] /\ text' = [text EXCEPT ![p] = Tail(@)]
      BY <2>12 DEF Up, At, Goto, BoundsInv
    <3>3. /\ text' = [q \in Printers |-> text'[q]]
          /\ \A q \in Printers : Fits(text'[q])
          /\ \A q \in Printers : pc'[q] \notin {"idle", "next"} => text'[q] # <<>>
      BY <2>0, <3>2, TextStep
    <3> QED BY <2>12, <3>1, <3>3 DEF Up, BoundsInv
  <2> QED BY <1>3, <2>1, <2>2, <2>3, <2>4, <2>5, <2>6, <2>7, <2>8, <2>9, <2>10, <2>11, <2>12
        DEF CallerStep
<1> QED BY <1>1, <1>2, <1>3, NextCases

-----------------------------------------------------------------------------
(* The theorems *)

LEMMA Invariance == Spec => []Inv
<1>1. Inv /\ [Next]_vars => Inv'
  BY TypeStep, ScreenStep, RoomStep DEF Inv
<1> QED BY InitInv, <1>1, PTL DEF Spec

LEMMA BoundsHold == Spec => []BoundsInv
<1>1. Inv /\ BoundsInv /\ [Next]_vars => BoundsInv'
  BY BoundsStep DEF Inv
<1> QED BY InitBounds, <1>1, Invariance, PTL DEF Spec

\* However calls overlap, every message and its terminator fit the buffer on the
\* caller's stack (lib.c:140-196), the history keeps no more lines than the screen
\* has rows, and no line is longer than a row (kprintf.c:58-88).
THEOREM TypesHold == Spec => []TypeOK
<1>1. Inv /\ BoundsInv => TypeOK
  <2> SUFFICES ASSUME Inv, BoundsInv PROVE TypeOK
    OBVIOUS
  <2>1. Len(lines) \in 1 .. Rows /\ \A i \in DOMAIN lines : Len(lines[i]) < Columns + 1
    <3>0. Rows \in Nat \ {0} /\ Columns \in Nat \ {0}
      BY ScreenSizes
    <3>1. CASE overlapped
      <4>1. /\ Len(<<<<>>>>) = 1 /\ DOMAIN <<<<>>>> = {1} /\ Len(<<<<>>>>[1]) = 0
        OBVIOUS
      <4>2. lines = <<<<>>>>
        BY <3>1 DEF BoundsInv
      <4> QED BY <3>0, <4>1, <4>2
    <3>2. CASE ~overlapped
      <4>1. LinesOK(lines)
        BY <3>2 DEF Inv, ScreenInv
      <4>2. PICK S : lines \in Seq(Seq(S))
        BY <4>1 DEF LinesOK
      <4>3. DOMAIN lines = 1 .. Len(lines)
        BY <4>2
      <4> QED BY <3>0, <4>1, <4>3 DEF LinesOK
    <3> QED BY <3>1, <3>2
  <2>2. \A p \in Printers : Len(text[p]) < KPRINTF_BUFFER_SIZE
    BY DEF BoundsInv, Fits
  <2>3. \A p \in Printers : x[p] \in 0 .. (U32 - 1) /\ y[p] \in 0 .. (U32 - 1)
    BY DEF BoundsInv, Coordinates
  <2>4. cursor_x \in 0 .. (U32 - 1) /\ cursor_y \in 0 .. (U32 - 1) /\ DOMAIN screen = Cells
    BY DEF BoundsInv, Coordinates
  <2>5. framebuffer \in BOOLEAN /\ overlapped \in BOOLEAN
    BY DEF Inv, TypeInv
  <2> QED BY <2>1, <2>2, <2>3, <2>4, <2>5 DEF TypeOK
<1> QED BY BoundsHold, Invariance, <1>1, PTL

\* As long as no two calls of kprintf overlap, the screen shows the last lines of
\* all that was put out and the cursor stands behind them, on every screen and in
\* every font, whatever is printed (kprintf.c:59-88).
THEOREM ScreenIsFaithful == Spec => []ScreenShowsLastLines
<1>1. Inv => ScreenShowsLastLines
  <2> SUFFICES ASSUME Inv, framebuffer, ~overlapped, Busy = {}
               PROVE  /\ screen = Shown(lines)
                      /\ cursor_y = (Len(lines) - 1) * FONT_HEIGHT
                      /\ cursor_x = Len(lines[Len(lines)]) * FONT_WIDTH
    BY DEF ScreenShowsLastLines
  <2>1. \A p \in Printers : pc[p] = "idle"
    BY DEF Busy
  <2>2. Rest /\ LinesOK(lines)
    BY <2>1 DEF Inv, ScreenInv
  <2>3. Len(lines) - 1 + 0 = Len(lines) - 1
    BY <2>2, ScreenSizes DEF LinesOK
  <2> QED BY <2>2, <2>3 DEF Rest, Drawn, Here, Column, LineRow
<1> QED BY Invariance, <1>1, PTL

\* However calls overlap, once all have returned there is room for a glyph on the
\* line (kprintf.c:75-79), for any number of callers, unless races have carried
\* cursor_x all the way round 2^32: the comparison adds before it compares, so
\* a cursor less than a glyph from 2^32 passes for one on the left.
THEOREM CursorStaysInLine ==
    Spec /\ [](cursor_x + FONT_WIDTH < U32) => []CursorComesBack
<1>1. Inv /\ cursor_x + FONT_WIDTH < U32 => CursorComesBack
  <2> SUFFICES ASSUME Inv, cursor_x + FONT_WIDTH < U32, Busy = {}
               PROVE  cursor_x + FONT_WIDTH <= Width
    BY DEF CursorComesBack
  <2>1. \A p \in Printers : pc[p] = "idle"
    BY DEF Busy
  <2>2. ~Full(cursor_x)
    BY <2>1 DEF Inv, RoomInv
  <2>3. cursor_x \in Nat /\ FONT_WIDTH \in Nat /\ U32 \in Nat /\ Width \in Nat
    BY ScreenSizes DEF Inv, TypeInv
  <2>4. (cursor_x + FONT_WIDTH) % U32 = cursor_x + FONT_WIDTH
    BY <2>3, SmallMod
  <2> QED BY <2>2, <2>3, <2>4 DEF Full
<1> QED BY Invariance, <1>1, PTL
=============================================================================
