------------------------------ MODULE Terminal -------------------------------
(***************************************************************************)
(* The text terminal of lua.ino: termBuffer, the cells with their colours  *)
(* that are kept in memory, next to what the VGA driver has drawn, and the *)
(* functions that write both: printing, vga.text with double width,        *)
(* scrolling, clearing, and restoring an area a window was over.           *)
(*                                                                         *)
(* The driver is external: drawText paints one cell, or two for text of    *)
(* double width; drawRect and clear fill with a colour.  A terminal is a   *)
(* record that the functions take and return, so that they compose as the  *)
(* calls in the code do.  fColor and bColor are one colour.  In the        *)
(* modules over this one, operators named ..._bug are the next definition  *)
(* with a plausible mistake; only the mutants use them.                    *)
(***************************************************************************)
EXTENDS Integers, Sequences, SequencesExt

CONSTANTS TERM_COLS, TERM_ROWS,
          Letters,          \* the characters programs print
          Colors

ASSUME SizeAssumption == TERM_COLS \in Nat \ {0} /\ TERM_ROWS \in Nat /\ TERM_ROWS > 2

TEXT_START_ROW == 1
TEXT_END_ROW   == TERM_ROWS - 2

Cols  == 0..(TERM_COLS - 1)
Rows  == 0..(TERM_ROWS - 1)
Cells == Rows \X Cols
Text  == {c \in Cells : c[1] \in TEXT_START_ROW..TEXT_END_ROW}

Nul == "nul"   Blank == " "

\* A cell of termBuffer, and a cell of the screen: half is the part of a
\* character of double width that it shows.
Cell(ch, col, wide) == [zeichen |-> ch, color |-> col, wide |-> wide]
Dot(ch, col, half)  == [char |-> ch, color |-> col, half |-> half]
Fill(col)           == Dot(Blank, col, "whole")

\* What the cell c, which shows dot, shows when a character is drawn at at.
drawn(dot, c, at, ch, col, wide) ==
    IF c = at THEN Dot(ch, col, IF wide THEN "left" ELSE "whole")
    ELSE IF wide /\ c = <<at[1], at[2] + 1>> THEN Dot(ch, col, "right")
    ELSE dot

\* vga.drawText of one character at column x of row y.
drawText(screen, y, x, ch, col, wide) ==
    [c \in DOMAIN screen |-> drawn(screen[c], c, <<y, x>>, ch, col, wide)]

\* The cell (y, x) of the buffer drawn over the screen.
drawCell(buffer, screen, y, x) ==
    LET b == buffer[<<y, x>>] IN drawText(screen, y, x, b.zeichen, b.color, b.wide)

\* A terminal that was just switched on, showing the colour col.
Blanked(col) ==
    [buffer |-> [c \in Cells |-> Cell(Blank, col, FALSE)],
     screen |-> [c \in Cells |-> Fill(col)],
     x |-> 0, y |-> TEXT_START_ROW, color |-> col]

-----------------------------------------------------------------------------
\* Rows move up, spaces and empty cells take the current colour, and row by
\* row, from left to right, each cell is drawn again.
scrollTerminal(t) ==
    LET up(c)   == t.buffer[<<c[1] + 1, c[2]>>]
        moved   == [c \in Cells |->
                      IF c[1] \notin TEXT_START_ROW..TEXT_END_ROW THEN t.buffer[c]
                      ELSE IF c[1] = TEXT_END_ROW THEN Cell(Blank, t.color, FALSE)
                      ELSE IF up(c).zeichen \in {Nul, Blank} THEN Cell(Blank, t.color, up(c).wide)
                      ELSE up(c)]
        draw(screen, x) ==
            [c \in Cells |->
               IF c[1] \notin TEXT_START_ROW..TEXT_END_ROW THEN screen[c]
               ELSE LET m == moved[<<c[1], x>>]
                    IN  drawn(screen[c], c, <<c[1], x>>, m.zeichen, m.color, m.wide /\ m.zeichen # Blank)]
    IN  [t EXCEPT !.buffer = moved,
                  !.screen = FoldLeft(draw, @, [i \in 1..TERM_COLS |-> i - 1])]

\* The cursor is in a row: below the last one the text scrolls.
Settled(t) == IF t.y > TEXT_END_ROW THEN scrollTerminal([t EXCEPT !.y = TEXT_END_ROW]) ELSE t

\* A character at the cursor, which goes on to the next cell.
Advance(t) == IF t.x + 1 >= TERM_COLS THEN Settled([t EXCEPT !.x = 0, !.y = @ + 1])
              ELSE [t EXCEPT !.x = @ + 1]

Put(t, ch) == [t EXCEPT !.buffer[<<t.y, t.x>>] = Cell(ch, t.color, FALSE),
                        !.screen = drawText(@, t.y, t.x, ch, t.color, FALSE)]

\* One turn of the loop of vga_print_str: only rows of text are written.
putChar(t, ch) ==
    CASE ch = "\n" -> Settled([t EXCEPT !.x = 0, !.y = @ + 1])
      [] ch = "\r" -> [t EXCEPT !.x = 0]
      [] OTHER     -> Advance(IF t.y \in TEXT_START_ROW..TEXT_END_ROW THEN Put(t, ch) ELSE t)

vga_print_str(t, str) == FoldLeft(putChar, t, str)

-----------------------------------------------------------------------------
\* vga.cls: the buffer is emptied, then a newline goes to the first text row.
lua_vga_cls(t, farbe) ==
    vga_print_str([t EXCEPT !.screen = [c \in Cells |-> Fill(farbe)],
                            !.buffer = [c \in Cells |-> Cell(Nul, Nul, FALSE)],
                            !.x = 0, !.y = 0], <<"\n">>)

Between(n, lo, hi) == IF n < lo THEN lo ELSE IF n > hi THEN hi ELSE n

lua_vga_pos(t, spalte, zeile) ==
    [t EXCEPT !.x = Between(spalte, 0, TERM_COLS - 1), !.y = Between(zeile, 0, TERM_ROWS - 1)]

\* vga.text: the driver draws the text in one go, on the screen only where
\* there is one; the buffer follows character by character with line breaks
\* of its own, and the cursor ends where the buffer's copy does.
lua_vga_text(t, spalte, zeile, txt, col, wide) ==
    LET step    == IF wide THEN 2 ELSE 1
        paint(screen, i) == drawText(screen, zeile, spalte + (i - 1) * step, txt[i], col, wide)
        keep(b, c, cell) == IF c \in Text THEN [b EXCEPT ![c] = cell] ELSE b
        copy(s, ch) ==
            IF s.y > TEXT_END_ROW /\ s.broke THEN s
            ELSE LET b == IF <<s.y, s.x>> \notin Text THEN s.b
                          ELSE IF wide THEN keep([s.b EXCEPT ![<<s.y, s.x>>] = Cell(ch, col, TRUE)],
                                                 <<s.y, s.x + 1>>, Cell(Blank, col, FALSE))
                          ELSE [s.b EXCEPT ![<<s.y, s.x>>] = Cell(ch, col, FALSE)]
                 IN  IF s.x + step >= TERM_COLS
                     THEN [b |-> b, x |-> 0, y |-> s.y + 1, broke |-> s.y + 1 > TEXT_END_ROW]
                     ELSE [b |-> b, x |-> s.x + step, y |-> s.y, broke |-> FALSE]
        end == FoldLeft(copy, [b |-> t.buffer, x |-> spalte, y |-> zeile, broke |-> FALSE], txt)
    IN  Settled([t EXCEPT !.screen = FoldLeft(paint, @, [i \in 1..Len(txt) |-> i]),
                          !.buffer = end.b, !.x = end.x, !.y = end.y])

\* The area is filled with the background and the text in it drawn again.
restoreTerminalArea(t, area) ==
    LET cleared == [c \in Cells |-> IF c \in area.rows \X area.cols THEN Fill(t.color)
                                    ELSE t.screen[c]]
        draw(screen, x) ==
            [c \in Cells |->
               IF c[1] \notin area.rows \intersect (TEXT_START_ROW..TEXT_END_ROW)
                  \/ x \notin area.cols \/ t.buffer[<<c[1], x>>].zeichen = Nul
               THEN screen[c]
               ELSE LET b == t.buffer[<<c[1], x>>]
                    IN  drawn(screen[c], c, <<c[1], x>>, b.zeichen, b.color, b.wide)]
    IN  [t EXCEPT !.screen = FoldLeft(draw, cleared, [i \in 1..TERM_COLS |-> i - 1])]
=============================================================================
