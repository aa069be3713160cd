------------------------------- MODULE Prompt --------------------------------
(***************************************************************************)
(* The command line of lua.ino: handleIncomingChar, which edits and runs   *)
(* the input line, completes file names and serves the function keys, and  *)
(* the blinking cursor of loop(), over the terminal.  A character is one   *)
(* of Letters, or EDIT or RUN, which stand for edit(" and run(", or CLOSE, *)
(* which stands for "): each is one cell here.  What a command prints is   *)
(* one of Outputs; popups are modelled in Windows.                         *)
(***************************************************************************)
EXTENDS Terminal, FiniteSets

CONSTANTS Files,     \* names of the files in the working directory
          Outputs,   \* bound: what commands print
          MaxLine    \* bound: length of a line that is typed

EDIT == "edit("   RUN == "run("   CLOSE == ")"
Typable == Letters \union {EDIT, RUN, CLOSE}
PROMPT  == <<">", " ">>

ASSUME FileAssumption == /\ IsFiniteSet(Files) /\ Files \subseteq Seq(Letters)
                         /\ MaxLine \in Nat
                         /\ Outputs \subseteq Seq(Letters \union {"\n"})

VARIABLES term, inputBuffer, letzteDatei, cursorVisible,
          left  \* history: the line has lost a character that the screen kept

vars == <<term, inputBuffer, letzteDatei, cursorVisible, left>>

NoFileYet == << >>

Init == /\ \E col \in Colors : term = vga_print_str(Blanked(col), PROMPT)
        /\ inputBuffer = << >> /\ letzteDatei = NoFileYet
        /\ cursorVisible = FALSE /\ left = FALSE

\* The cell of the cursor shows a space; the buffer keeps what is there.
HideCursor(t) == [t EXCEPT !.screen = drawText(@, t.y, t.x, Blank, t.color, FALSE)]

\* The command prints, then comes a prompt.
Runs(t, out) == vga_print_str(vga_print_str(t, out), PROMPT)

\* The name in a line of the form edit("...") or run("...").
NamedFile(line) ==
    IF Len(line) > 1 /\ Head(line) \in {EDIT, RUN} /\ Last(line) = CLOSE
    THEN SubSeq(line, 2, Len(line) - 1) ELSE letzteDatei

-----------------------------------------------------------------------------
Enter ==
    \E out \in Outputs :
       LET t == vga_print_str(HideCursor(term), <<"\n">>)
       IN  /\ term' = IF inputBuffer = << >> THEN vga_print_str(t, PROMPT) ELSE Runs(t, out)
           /\ letzteDatei' = NamedFile(inputBuffer)
           /\ inputBuffer' = << >> /\ left' = FALSE
           /\ UNCHANGED cursorVisible

\* At the first column the line gets shorter, the cursor and the last cell of
\* the row above stay as they are.
Backspace ==
    /\ inputBuffer # << >>
    /\ inputBuffer' = Front(inputBuffer)
    /\ left' = ((left \/ term.x = 0) /\ inputBuffer' # << >>)
    /\ LET t == HideCursor(term)
       IN  term' = IF t.x > 0 THEN Put([t EXCEPT !.x = @ - 1], Blank) ELSE t
    /\ UNCHANGED <<letzteDatei, cursorVisible>>

Typed(c) ==
    /\ Len(inputBuffer) < MaxLine
    /\ inputBuffer' = Append(inputBuffer, c)
    /\ term' = Advance(Put(HideCursor(term), c))
    /\ UNCHANGED <<letzteDatei, cursorVisible, left>>

\* TAB: the name behind the first (" is completed if one file begins with it,
\* but not while the line ends with a quote, as it does right behind (".
\* Its cells are blanked one by one, over the ends of lines, and the name and
\* the closing quote are printed.
BlankBack(t, i) ==
    LET back == IF t.x = 0 THEN [t EXCEPT !.x = TERM_COLS - 1, !.y = @ - 1]
                ELSE [t EXCEPT !.x = @ - 1]
    IN  Put(back, Blank)

Complete_bug(line, start, name) ==
    LET t == FoldLeft(BlankBack, term, [i \in 1..(Len(line) - start - 1) |-> i])
    IN  vga_print_str(t, Append(name, CLOSE))
Complete(line, start, name) ==
    LET t == FoldLeft(BlankBack, term, [i \in 1..(Len(line) - start) |-> i])
    IN  vga_print_str(t, Append(name, CLOSE))

sucheDateiAufSD(praefix) == {f \in Files : IsPrefix(praefix, f)}

Tab ==
    LET opens == {i \in DOMAIN inputBuffer : inputBuffer[i] \in {EDIT, RUN}}
        start == CHOOSE i \in opens : \A j \in opens : i <= j
        hits  == sucheDateiAufSD(SubSeq(inputBuffer, start + 1, Len(inputBuffer)))
    IN  /\ opens # {} /\ Last(inputBuffer) \notin {EDIT, RUN}
        /\ \E name \in hits :
              /\ hits = {name}
              /\ term' = Complete(inputBuffer, start, name)
              /\ inputBuffer' = SubSeq(inputBuffer, 1, start) \o Append(name, CLOSE)
        /\ UNCHANGED <<letzteDatei, cursorVisible, left>>

\* F1 and F2 print and run a command on the last file; a line being typed is
\* forgotten and stays on the screen.  F1 ends without a prompt.
FunctionKey(cmd) ==
    /\ letzteDatei # NoFileYet
    /\ \E out \in Outputs :
         LET line == <<cmd>> \o letzteDatei \o <<CLOSE, "\n">>
             t    == vga_print_str(vga_print_str(term, line), out)
         IN  term' = IF cmd = EDIT THEN t ELSE vga_print_str(t, PROMPT)
    /\ inputBuffer' = << >> /\ left' = FALSE
    /\ UNCHANGED <<letzteDatei, cursorVisible>>

\* F3, F4 and F5 run a command of their own, printed first.
OtherKey ==
    /\ \E out \in Outputs : term' = Runs(vga_print_str(term, <<"\n">>), out)
    /\ inputBuffer' = << >> /\ left' = FALSE
    /\ UNCHANGED <<letzteDatei, cursorVisible>>

\* loop(): the cursor is drawn, or the cell of the buffer instead of it.
Blink ==
    /\ cursorVisible' = ~cursorVisible
    /\ term' = [term EXCEPT !.screen =
                  IF cursorVisible' THEN drawText(@, term.y, term.x, "_", term.color, FALSE)
                  ELSE IF term.buffer[<<term.y, term.x>>].zeichen = Nul
                  THEN drawText(@, term.y, term.x, Blank, term.color, FALSE)
                  ELSE drawCell(term.buffer, @, term.y, term.x)]
    /\ UNCHANGED <<inputBuffer, letzteDatei, left>>

handleIncomingChar ==
    \/ Enter \/ Backspace \/ Tab \/ OtherKey
    \/ \E c \in Typable : Typed(c)
    \/ \E cmd \in {EDIT, RUN} : FunctionKey(cmd)

Next == handleIncomingChar \/ Blink

Spec == Init /\ [][Next]_vars

-----------------------------------------------------------------------------
\* The cell n places before the cursor.
Before(n) ==
    LET at == term.y * TERM_COLS + term.x - n IN <<at \div TERM_COLS, at % TERM_COLS>>

\* The line that Enter will run is the line before the cursor, in the buffer
\* and on the screen, after any editing, completion and scrolling, and nothing
\* that was deleted is left behind the cursor; except when Backspace was used
\* in the first column of a line that had wrapped, until the line is empty:
\* the character it takes from the line stays in the row above.
LineIsShown ==
    \/ left
    \/ /\ \A i \in DOMAIN inputBuffer :
             LET c == Before(Len(inputBuffer) + 1 - i)
             IN  c \in Text => /\ term.buffer[c].zeichen = inputBuffer[i]
                               /\ term.screen[c].char = inputBuffer[i]
       /\ inputBuffer # << >> => term.buffer[<<term.y, term.x>>].zeichen \in {Blank, Nul}
=============================================================================
