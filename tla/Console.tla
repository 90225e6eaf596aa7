------------------------------- MODULE Console -------------------------------
(***************************************************************************)
(* kprintf, src/kern/debug/kprintf.c: a message is formatted into a buffer *)
(* of the caller's and then put out character by character, to the UART    *)
(* before kprintf_init and to the framebuffer after it, with one cursor    *)
(* for all callers and no lock.                                            *)
(*                                                                         *)
(* The callers are the two tasks of kernel.c, which the timer may preempt  *)
(* anywhere in kprintf; the switch itself is taken to work.  The cursor    *)
(* is shared and unprotected: a value may be held in a register from one   *)
(* use to the next, over characters too, except across the calls of memcpy *)
(* and memset, or be loaded again, and an increment is a load and a store. *)
(*                                                                         *)
(* Positions are in pixels, the screen is in cells of one glyph.  Drawing  *)
(* only sets pixels, so a cell holds the set of glyphs drawn over one      *)
(* another.  Characters of a message other than '\n' are printable.        *)
(***************************************************************************)
EXTENDS Format, FiniteSets

CONSTANTS Sizes, Formats,       \* buffer sizes, formats and arguments callers of snprintf use
          NoOutput,
          Printers,             \* the tasks that call kprintf
          Messages,             \* what they print, formats with their arguments
          KPRINTF_BUFFER_SIZE,
          FONT_WIDTH, FONT_HEIGHT,
          Width, Height,        \* kprintf_fb_width, kprintf_fb_height
          U32                   \* 2^32

Columns == Width \div FONT_WIDTH
Rows    == Height \div FONT_HEIGHT

\* A screen with fewer rows than callers lets cursor_y go below 0.  Screens are
\* far smaller than 2^32.
ASSUME ConsoleAssumption ==
    /\ {FONT_WIDTH, FONT_HEIGHT, KPRINTF_BUFFER_SIZE} \subseteq Nat \ {0}
    /\ {Width, Height, U32} \subseteq Nat
    /\ Columns > 0 /\ Rows > 0 /\ Rows >= Cardinality(Printers)
    /\ U32 > 3 * Width /\ U32 > 3 * Height

\* Callers pass arguments that fit the conversions of their formats, so that what
\* is written is a sequence of characters, of whatever length.
IsText(t) == Len(t) \in Nat /\ t = [i \in 1 .. Len(t) |-> t[i]]

ASSUME MessagesAssumption ==
    \A m \in Messages : IsText(Converted(KPRINTF_BUFFER_SIZE, m.format, m.args))

VARIABLES
    out,                \* what a call of snprintf was given and left, or NoOutput
    framebuffer,        \* kprintf_framebuffer # 0
    cursor_x, cursor_y,
    screen,             \* cell |-> the glyphs drawn there since it was cleared
    pc,                 \* per caller: where in kprintf_varg it is
    text,               \* the characters of its buffer still to be put out
    x, y,               \* its registers for the cursor
    lines,              \* history: the last Rows lines of all that was put out
    overlapped          \* history: a kprintf began before another had ended

cursor == <<cursor_x, cursor_y>>
caller == <<pc, text, x, y>>
vars   == <<out, framebuffer, cursor, screen, caller, lines, overlapped>>

Cells   == (0 .. (Rows - 1)) \X (0 .. (Columns - 1))
Black   == [cell \in Cells |-> {}]
Busy    == {p \in Printers : pc[p] # "idle"}

Init ==
    /\ out = NoOutput
    /\ framebuffer = FALSE
    /\ cursor_x = 0 /\ cursor_y = 0
    /\ screen = Black
    /\ pc = [p \in Printers |-> "idle"]
    /\ text = [p \in Printers |-> <<>>]
    /\ x = [p \in Printers |-> 0] /\ y = [p \in Printers |-> 0]
    /\ lines = <<<<>>>>
    /\ overlapped = FALSE

Goto(p, to) == pc' = [pc EXCEPT ![p] = to]
At(p, from, to) == pc[p] = from /\ Goto(p, to)

\* snprintf works on its caller's buffer alone.  Bound: it is called before
\* anything is printed, and what it leaves is looked at and forgotten.
snprintf(size, m) ==
    /\ ~framebuffer /\ ~overlapped /\ Busy = {} /\ out = NoOutput
    /\ out' = [size |-> size, format |-> m.format, args |-> m.args,
               text |-> vsnprintf(size, m.format, m.args)]
    /\ UNCHANGED <<framebuffer, cursor, screen, caller, lines, overlapped>>
Forget ==
    /\ out # NoOutput /\ out' = NoOutput
    /\ UNCHANGED <<framebuffer, cursor, screen, caller, lines, overlapped>>

\* kprintf_init, called once by kernel_main before there are tasks.
kprintf_init ==
    /\ ~framebuffer /\ Busy = {} /\ out = NoOutput
    /\ framebuffer' = TRUE
    /\ cursor_x' = 0 /\ cursor_y' = 0
    /\ UNCHANGED <<out, screen, caller, lines, overlapped>>

\* A glyph of a text nobody looks at.
AnyGlyph(txt) == [i \in DOMAIN txt |-> IF txt[i] = "\n" THEN "\n" ELSE "?"]

\* kprintf formats the message into a buffer on the caller's stack.  Glyphs,
\* screen and lines are followed until calls overlap.
kprintf(p, m) ==
    LET buffer == vsnprintf(KPRINTF_BUFFER_SIZE, m.format, m.args)
        texts  == [text EXCEPT ![p] = buffer]
    IN  /\ At(p, "idle", "next") /\ out = NoOutput
        /\ overlapped' = (overlapped \/ Busy # {})
        /\ text' = IF overlapped' THEN [q \in Printers |-> AnyGlyph(texts[q])] ELSE texts
        /\ screen' = IF overlapped' THEN Black ELSE screen
        /\ lines' = IF overlapped' THEN <<<<>>>> ELSE lines
        /\ x' = [x EXCEPT ![p] = cursor_x] /\ y' = [y EXCEPT ![p] = cursor_y]
        /\ UNCHANGED <<out, framebuffer, cursor>>

Return(p) ==
    /\ At(p, "next", "idle")
    /\ text[p] = <<>>
    /\ x' = [x EXCEPT ![p] = 0] /\ y' = [y EXCEPT ![p] = 0]
    /\ UNCHANGED <<out, framebuffer, cursor, screen, text, lines, overlapped>>

\* Before kprintf_init characters go to the UART and leave the cursor alone.
uart_putc(p) ==
    /\ ~framebuffer /\ pc[p] = "next" /\ text[p] # <<>>
    /\ text' = [text EXCEPT ![p] = Tail(@)]
    /\ UNCHANGED <<out, framebuffer, cursor, screen, pc, x, y, lines, overlapped>>

-----------------------------------------------------------------------------
(* The reference: lines of at most Columns characters, of which the last    *)
(* Rows are seen.  A line that is full is followed by a new one at once.    *)

LastRows(ls) == IF Len(ls) > Rows THEN Tail(ls) ELSE ls
PutChar(ls, c) ==
    LET line == Append(ls[Len(ls)], c)
    IN  IF c = "\n" THEN LastRows(Append(ls, <<>>))
        ELSE IF Len(line) < Columns THEN [ls EXCEPT ![Len(ls)] = line]
        ELSE LastRows(Append([ls EXCEPT ![Len(ls)] = line], <<>>))
Shown(ls) == [cell \in Cells |->
    IF cell[1] < Len(ls) /\ cell[2] < Len(ls[cell[1] + 1])
    THEN {ls[cell[1] + 1][cell[2] + 1]} ELSE {}]

Follow(p) == lines' = IF overlapped THEN lines ELSE PutChar(lines, Head(text[p]))

-----------------------------------------------------------------------------
(* One character on the framebuffer *)

\* kprintf_draw_char at a position; what lies outside the screen is not drawn.
kprintf_draw_char(px, py, c) ==
    LET cell == <<py \div FONT_HEIGHT, px \div FONT_WIDTH>>
    IN  IF cell \in Cells /\ ~overlapped THEN [screen EXCEPT ![cell] = @ \cup {c}] ELSE screen

\* A glyph, drawn at the cursor.
Glyphs(p) ==
    /\ framebuffer /\ text[p] # <<>> /\ Head(text[p]) # "\n"
    /\ At(p, "next", "advance")
    /\ \E u \in {cursor_x, x[p]}, v \in {cursor_y, y[p]} :
         /\ screen' = kprintf_draw_char(u, v, Head(text[p]))
         /\ x' = [x EXCEPT ![p] = u] /\ y' = [y EXCEPT ![p] = v]
    /\ Follow(p)
    /\ UNCHANGED <<out, framebuffer, cursor, text, overlapped>>

\* cursor_x += FONT_WIDTH
Advance(p) ==
    /\ At(p, "advance", "wrap?")
    /\ cursor_x' = (x[p] + FONT_WIDTH) % U32
    /\ x' = [x EXCEPT ![p] = cursor_x']
    /\ UNCHANGED <<out, framebuffer, cursor_y, screen, text, y, lines, overlapped>>

\* A newline: cursor_x = 0, then cursor_y += FONT_HEIGHT.
Newline(p) ==
    /\ framebuffer /\ text[p] # <<>> /\ Head(text[p]) = "\n"
    /\ At(p, "next", "newline")
    /\ cursor_x' = 0
    /\ x' = [x EXCEPT ![p] = 0]
    /\ \E v \in {cursor_y, y[p]} : y' = [y EXCEPT ![p] = v]
    /\ Follow(p)
    /\ UNCHANGED <<out, framebuffer, cursor_y, screen, text, overlapped>>

\* cursor_y += FONT_HEIGHT, of a newline and of a line that is full.
Down(p, from, to) ==
    /\ At(p, from, to)
    /\ cursor_y' = (y[p] + FONT_HEIGHT) % U32
    /\ y' = [y EXCEPT ![p] = cursor_y']
    /\ UNCHANGED <<out, framebuffer, cursor_x, screen, text, x, lines, overlapped>>

\* Slip: the cursor may stand behind the last column.
Full_Late(v) == v > Width

\* The line has no room for another glyph.
Full(v) == (v + FONT_WIDTH) % U32 > Width

Wraps(p) ==
    /\ pc[p] = "wrap?"
    /\ \E v \in {cursor_x, x[p]} :
         /\ Goto(p, IF Full(v) THEN "wrap" ELSE "scroll?")
         /\ x' = [x EXCEPT ![p] = v]
    /\ UNCHANGED <<out, framebuffer, cursor, screen, text, y, lines, overlapped>>

Wrap(p) ==
    /\ At(p, "wrap", "wrapped")
    /\ cursor_x' = 0
    /\ \E v \in {cursor_y, y[p]} : y' = [y EXCEPT ![p] = v]
    /\ x' = [x EXCEPT ![p] = 0]
    /\ UNCHANGED <<out, framebuffer, cursor_y, screen, text, lines, overlapped>>

\* The end of a round: the cursor stays, or the screen scrolls first.
Scrolls(p) ==
    /\ pc[p] = "scroll?"
    /\ \E v \in {cursor_y, y[p]} :
         /\ IF (v + FONT_HEIGHT) % U32 > Height
            THEN Goto(p, "scroll") /\ UNCHANGED text
            ELSE Goto(p, "next") /\ text' = [text EXCEPT ![p] = Tail(@)]
         /\ y' = [y EXCEPT ![p] = v]
    /\ UNCHANGED <<out, framebuffer, cursor, screen, x, lines, overlapped>>

\* Slip: the last row is not cleared.
Bottom_Kept(col) == screen[<<Rows - 1, col>>]

\* kprintf_scroll's memset of the last row.
Bottom(col) == {}

\* kprintf_scroll, then the cursor is loaded again.
kprintf_scroll(p) ==
    /\ At(p, "scroll", "up")
    /\ screen' = [cell \in Cells |-> IF overlapped THEN {}
                    ELSE IF cell[1] < Rows - 1 THEN screen[<<cell[1] + 1, cell[2]>>]
                    ELSE Bottom(cell[2])]
    /\ x' = [x EXCEPT ![p] = cursor_x] /\ y' = [y EXCEPT ![p] = cursor_y]
    /\ UNCHANGED <<out, framebuffer, cursor, text, lines, overlapped>>

\* cursor_y -= FONT_HEIGHT
Up(p) ==
    /\ At(p, "up", "next")
    /\ cursor_y' = (y[p] - FONT_HEIGHT) % U32
    /\ y' = [y EXCEPT ![p] = cursor_y']
    /\ text' = [text EXCEPT ![p] = Tail(@)]
    /\ UNCHANGED <<out, framebuffer, cursor_x, screen, x, lines, overlapped>>

Next ==
    \/ \E size \in Sizes, m \in Formats : snprintf(size, m)
    \/ Forget
    \/ kprintf_init
    \/ \E p \in Printers :
         \/ \E m \in Messages : kprintf(p, m)
         \/ Return(p) \/ uart_putc(p)
         \/ Glyphs(p) \/ Advance(p) \/ Newline(p) \/ Down(p, "newline", "wrap?")
         \/ Wraps(p) \/ Wrap(p) \/ Down(p, "wrapped", "scroll?")
         \/ Scrolls(p) \/ kprintf_scroll(p) \/ Up(p)

Spec == Init /\ [][Next]_vars

-----------------------------------------------------------------------------
\* Types; a formatted message and its terminator fit the buffer.
TypeOK ==
    /\ framebuffer \in BOOLEAN
    /\ cursor_x \in 0 .. (U32 - 1) /\ cursor_y \in 0 .. (U32 - 1)
    /\ DOMAIN screen = Cells
    /\ Len(lines) \in 1 .. Rows /\ \A i \in DOMAIN lines : Len(lines[i]) < Columns + 1
    /\ \A p \in Printers : /\ Len(text[p]) < KPRINTF_BUFFER_SIZE
                           /\ x[p] \in 0 .. (U32 - 1) /\ y[p] \in 0 .. (U32 - 1)
    /\ overlapped \in BOOLEAN

\* What vsnprintf leaves in a buffer is the format with each conversion
\* replaced by its own argument, numbers digit by digit with their sign, cut off
\* only where the buffer ends and one byte earlier for the terminator, for every
\* format of conversions it knows and numbers below 2^63 (lib.c:104-196).
FormatsAsExpected ==
    out # NoOutput /\ Plain(out.format, out.args) =>
        LET full == Expansion(out.format, out.args)
        IN  out.text = SubSeq(full, 1, IF Len(full) < out.size THEN Len(full) ELSE out.size - 1)

\* As long as no two calls overlap, the screen shows the last lines of all that
\* was put out, each glyph in a cell of its own, and the cursor stands behind
\* them, whatever newlines, full lines and scrolls came together.
ScreenShowsLastLines ==
    framebuffer /\ ~overlapped /\ Busy = {} =>
        /\ screen = Shown(lines)
        /\ cursor_y = (Len(lines) - 1) * FONT_HEIGHT
        /\ cursor_x = Len(lines[Len(lines)]) * FONT_WIDTH

\* However calls overlap, whatever cursor they hold in registers and whichever
\* increments are lost, once all have returned there is room for a glyph on the
\* line: who stores a cursor_x that is too far right also finds it so, or finds it
\* stored over (kprintf.c:75-79).  Nothing of the kind holds of cursor_y, which two
\* calls can leave below the screen.
CursorComesBack ==
    Busy = {} => cursor_x + FONT_WIDTH <= Width
=============================================================================
