------------------------------- MODULE Windows -------------------------------
(***************************************************************************)
(* The windows and the error popup of lua.ino over the terminal: the slots *)
(* of windowManager, what the screen shows, and popups, which wait for a   *)
(* key and may be interrupted by a popup of their own (a screenshot that   *)
(* fails in the USB callback).  Positions and sizes are pixels, as in the  *)
(* code; a character is 8 pixels wide and high, and what is drawn paints   *)
(* whole cells.  Of a title the model keeps its length, of a text the      *)
(* lengths of its words.                                                   *)
(*                                                                         *)
(* Drawing of points, lines and pictures is left out: the code does not    *)
(* keep it, so a window over it cannot restore it.                         *)
(***************************************************************************)
EXTENDS Terminal, FiniteSets

CONSTANTS Slots,
          Plans,       \* bound: the slots, places, titles (their lengths) and colours
                       \* the programs of one behaviour use, how many popups
                       \* nest, and what programs do carelessly (Allowed, Fits, Output)
          Texts,       \* the texts of windows and messages: lengths of words
          PopupArea,
          Lines,       \* bound: what programs print
          TextPlaces   \* bound: where vga.text writes

ASSUME WindowAssumption ==
    /\ Slots = 0..7 /\ Texts \subseteq Seq(Nat \ {0})
    /\ \A p \in Plans : /\ p.slots \subseteq Slots /\ p.titles \subseteq Nat
                        /\ p.colors \subseteq Colors /\ p.nested \in Nat
                        /\ p.careless \subseteq {"reopen", "fail", "wide", "spill"}

VARIABLES plan,            \* the member of Plans that bounds this behaviour
          term,            \* the terminal
          windowManager,   \* per slot
          popups,          \* how many popups wait
          running,         \* a script runs
          remains          \* history: cells that careless programs left behind

vars == <<plan, term, windowManager, popups, running, remains>>

\* The cells that a rectangle of w times h pixels is on.
Drawn(x, y, w, h) ==
    IF w <= 0 \/ h <= 0 THEN {}
    ELSE (Rows \intersect ((y \div 8)..((y + h - 1) \div 8)))
         \X (Cols \intersect ((x \div 8)..((x + w - 1) \div 8)))

\* The cells that are restored for a window.
Over(a) == Drawn(a.x, a.y, a.w + 1, a.h + 1)
Band(a) == [rows |-> (a.y \div 8)..((a.y + a.h) \div 8),
            cols |-> (a.x \div 8)..((a.x + a.w) \div 8)]

Open(wm)    == {s \in Slots : wm[s].aktiv}
Covered(wm) == UNION {Over(wm[s].area) : s \in Open(wm)}

\* The cells of the words: a word that does not fit goes to the next line,
\* but the first of a line is drawn however long it is; at the lower edge,
\* even on the first line, "..." ends the text.
Words(a, inhalt) ==
    LET left == a.x + 10
        place(s, len) ==
            LET wraps == s.x + 8 * len > left + a.w - 20 /\ s.x > left
                x     == IF wraps THEN left ELSE s.x
                y     == IF wraps THEN s.y + 10 ELSE s.y
            IN  IF s.full THEN s
                ELSE IF y + 10 > a.y + a.h - 5
                THEN [s EXCEPT !.full = TRUE, !.cells = @ \union Drawn(x, y, 3 * 8, 8)]
                ELSE [s EXCEPT !.cells = @ \union Drawn(x, y, 8 * len, 8),
                               !.x = x + 8 * len + 8, !.y = y]
    IN  FoldLeft(place, [x |-> left, y |-> a.y + 25, full |-> FALSE, cells |-> {}], inhalt).cells

\* Everything a window paints: its rectangle with the frame, the title's bar,
\* which is 14 pixels high, the title and the words, none of them clipped.
Painted(a, titel, inhalt) ==
    Over(a) \union Drawn(a.x + 2, a.y + 2, a.w - 4, 14)
            \union Drawn(a.x + 10, a.y + 5, 8 * titel, 8) \union Words(a, inhalt)

Window == Dot("window", "window", "whole")

renderWindow(t, a, titel, inhalt) ==
    LET painted == Painted(a, titel, inhalt)
    IN  [t EXCEPT !.screen = [c \in Cells |-> IF c \in painted THEN Window ELSE @[c]]]

\* A careful program's titles and texts stay inside the window.
Fits(a, titel, inhalt) ==
    "spill" \in plan.careless \/ Painted(a, titel, inhalt) \intersect Text \subseteq Over(a)

\* Of the cells that no window answers for any more, those that still show one.
Remain(cells) == remains' = {c \in remains \union cells : term'.screen[c] = Window}

\* What is painted past the edge; what an open window loses with its slot.
Spilled(a, titel, inhalt) == (Painted(a, titel, inhalt) \intersect Text) \ Over(a)
Forgotten(idx) == IF windowManager[idx].aktiv THEN Over(windowManager[idx].area) ELSE {}

Init == /\ plan \in Plans
        /\ \E col \in plan.colors : term = Blanked(col)
        /\ windowManager = [s \in Slots |-> [aktiv |-> FALSE, area |-> PopupArea, titel |-> 0]]
        /\ popups = 0 /\ running = FALSE /\ remains = {}

\* A script runs while no popup waits.
Active == running /\ popups = 0

\* A careful program closes a window before it opens its slot again.
Allowed(kind, idx) == kind \in plan.careless \/ ~windowManager[idx].aktiv

lua_vga_open_window(idx, a) ==
    /\ Active /\ Allowed("reopen", idx)
    /\ \E titel \in plan.titles, inhalt \in Texts :
         /\ Fits(a, titel, inhalt)
         /\ windowManager' = [windowManager EXCEPT ![idx] = [aktiv |-> TRUE, area |-> a, titel |-> titel]]
         /\ term' = renderWindow(term, a, titel, inhalt)
         /\ Remain(Spilled(a, titel, inhalt) \union Forgotten(idx))
    /\ UNCHANGED <<popups, running>>

\* A wrong argument raises an error when those before it have been stored.
OpenWindowFails(idx, a) ==
    /\ Active /\ Allowed("fail", idx)
    /\ \E n \in 1..5, titel \in plan.titles :
         windowManager' = [windowManager EXCEPT
            ![idx].area = [x |-> a.x, y |-> IF n > 1 THEN a.y ELSE @.y,
                           w |-> IF n > 2 THEN a.w ELSE @.w, h |-> IF n > 3 THEN a.h ELSE @.h],
            ![idx].titel = IF n > 4 THEN titel ELSE @]
    /\ UNCHANGED term /\ Remain(Forgotten(idx))
    /\ UNCHANGED <<popups, running>>

lua_vga_update_window(idx) ==
    /\ Active /\ windowManager[idx].aktiv
    /\ LET a == windowManager[idx].area   titel == windowManager[idx].titel
       IN  \E inhalt \in Texts :
             /\ Fits(a, titel, inhalt)
             /\ term' = renderWindow(restoreTerminalArea(term, Band(a)), a, titel, inhalt)
             /\ Remain(Spilled(a, titel, inhalt))
    /\ UNCHANGED <<windowManager, popups, running>>

lua_vga_close_window(idx) ==
    /\ Active /\ windowManager[idx].aktiv
    /\ term' = restoreTerminalArea(term, Band(windowManager[idx].area))
    /\ windowManager' = [windowManager EXCEPT ![idx].aktiv = FALSE]
    /\ Remain({})
    /\ UNCHANGED <<popups, running>>

cleanupWindows_bug(t) == t
cleanupWindows_first_bug(t) ==
    IF Open(windowManager) = {} THEN t
    ELSE restoreTerminalArea(t, Band(windowManager[CHOOSE s \in Open(windowManager) :
                                                     \A r \in Open(windowManager) : s <= r].area))
\* The terminal once the open windows are closed, one slot after the other.
cleanupWindows(t) ==
    FoldLeft(LAMBDA u, s : restoreTerminalArea(u, Band(windowManager[s].area)), t,
             SetToSortSeq(Open(windowManager), LAMBDA r, s : r < s))

\* All windows go, the popup is drawn, and then it waits for a key.
zeigeFehlerPopup ==
    /\ \E titel \in plan.titles, nachricht \in Texts :
         /\ Fits(PopupArea, titel, nachricht)
         /\ term' = renderWindow(cleanupWindows(term), PopupArea, titel, nachricht)
         /\ Remain(Spilled(PopupArea, titel, nachricht))
    /\ windowManager' = [s \in Slots |-> [windowManager[s] EXCEPT !.aktiv = FALSE]]
    /\ popups' = popups + 1

ScriptFails     == Active /\ zeigeFehlerPopup /\ running' = FALSE
CallFails       == Active /\ zeigeFehlerPopup /\ UNCHANGED running
ScreenshotFails == popups > 0 /\ popups < plan.nested /\ zeigeFehlerPopup /\ UNCHANGED running

\* The popup's area, which is restored, is one pixel wider and higher.
PopupBand == Band([PopupArea EXCEPT !.w = @ + 1, !.h = @ + 1])

wait_key ==
    /\ popups > 0
    /\ popups' = popups - 1
    /\ term' = restoreTerminalArea(term, PopupBand)
    /\ Remain({})
    /\ UNCHANGED <<windowManager, running>>

ScriptStarts == /\ ~running /\ popups = 0
                /\ running' = TRUE
                /\ UNCHANGED <<term, windowManager, popups, remains>>
ScriptEnds   == /\ Active
                /\ running' = FALSE
                /\ UNCHANGED <<term, windowManager, popups, remains>>

Output ==
    /\ Active
    /\ \/ \E s \in Lines : term' = vga_print_str(term, s)
       \/ \E p \in TextPlaces, ch \in Letters, col \in plan.colors, wide \in BOOLEAN :
             /\ wide => "wide" \in plan.careless
             /\ term' = lua_vga_text(term, p[2], p[1], <<ch>>, col, wide)
       \/ \E col \in plan.colors : term' = lua_vga_cls(term, col)
       \/ \E col \in plan.colors : term' = [term EXCEPT !.color = col]
       \/ \E p \in TextPlaces \union {<<-1, -1>>, <<TERM_ROWS, TERM_COLS>>} :
             term' = lua_vga_pos(term, p[2], p[1])
    /\ Remain({})
    /\ UNCHANGED <<windowManager, popups, running>>

Next == /\ \/ Output
           \/ \E s \in plan.slots : \/ \E a \in plan.areas : \/ lua_vga_open_window(s, a)
                                                          \/ OpenWindowFails(s, a)
                                   \/ lua_vga_update_window(s) \/ lua_vga_close_window(s)
           \/ ScriptStarts \/ ScriptEnds \/ ScriptFails \/ CallFails
           \/ ScreenshotFails \/ wait_key
        /\ UNCHANGED plan

Spec == Init /\ [][Next]_vars

-----------------------------------------------------------------------------
\* What the screen should show for a cell of the buffer.
Shown(c) ==
    LET b     == term.buffer[c]
        left  == <<c[1], c[2] - 1>>
    IN  IF b.zeichen = Nul THEN {Fill(col) : col \in Colors}
        ELSE IF b.zeichen = Blank /\ left \in Cells /\ term.buffer[left].wide
                /\ term.buffer[left].zeichen # Blank
        THEN {Dot(term.buffer[left].zeichen, term.buffer[left].color, "right")}
        ELSE {Dot(b.zeichen, b.color, IF b.wide THEN "left" ELSE "whole")}

\* lua.ino: the buffer keeps the colours of each character, so that the exact
\* background is restored when a window is deleted: where no window and no
\* popup is, the screen shows what the buffer holds, whatever was printed,
\* scrolled or cleared below windows, however they overlap, and however
\* popups nest.  Careless programs leave cells behind, but no others than what
\* they painted past the edge of a window and the place of an open window that
\* a second or a failing call overwrote.
BackgroundIsExact ==
    LET hidden == Covered(windowManager) \union (IF popups > 0 THEN Over(PopupArea) ELSE {})
    IN  \A c \in Text \ (hidden \union remains) : term.screen[c] \in Shown(c)
=============================================================================
