------------------------------- MODULE Editor --------------------------------
(***************************************************************************)
(* The full-screen editor of the Lua computer (open_fullscreen_editor in   *)
(* src/lua/lua.ino): a flat character buffer, a cursor, an optional block  *)
(* mark, a clipboard, and the globals that make a later session start at   *)
(* the line of the last error or where the last session ended.             *)
(*                                                                         *)
(* A character is a newline, NUL or a printable one; the screen, the       *)
(* scrolling and the colours are left out.  A memmove or memcpy with a     *)
(* negative length, or outside the buffer, ends in the state "crashed".    *)
(*                                                                         *)
(* Operators whose name ends in _bug say what the next definition would be *)
(* with a plausible mistake; nothing uses them but the mutants that show   *)
(* that the properties can fail.                                           *)
(***************************************************************************)
EXTENDS Naturals, Integers, Sequences, FiniteSets

CONSTANTS Printable,     \* printable characters, two spaces of TAB included
          NL, NUL,       \* newline, string terminator
          Blank,         \* the character TAB inserts
          Names,         \* files, by full path
          RelName,       \* per file: its path without the working directory
          NoName,        \* tmpDatei = ""
          Missing,       \* no such file on the card
          MaxSize,       \* EDITOR_MAX_SIZE
          ClipSize,      \* CLIPBOARD_SIZE
          PageLines,     \* maxSichtbareZeilen
          FileTexts,     \* bound: texts programs put on the card
          Needles,       \* bound: search strings
          Plans          \* bound: what one behaviour uses: the files, whether blocks
                         \* are marked, line numbers in error messages, keystrokes
                         \* after the cursor or the mark left the text

TextChars == Printable \union {NL}

ASSUME CharAssumption == NUL \notin TextChars /\ NL \notin Printable /\ Blank \in Printable
ASSUME SizeAssumption ==
    /\ MaxSize \in Nat /\ MaxSize >= 4 /\ ClipSize \in Nat /\ ClipSize >= 3
    /\ PageLines \in Nat
    /\ \A p \in Plans : /\ p.files \subseteq Names /\ p.block \in BOOLEAN
                       /\ p.lines \in Nat \ {0} /\ p.stray \in Nat
ASSUME FileAssumption ==
    /\ NoName \notin {RelName[f] : f \in Names} /\ Missing \notin FileTexts
    /\ FileTexts \subseteq Seq(TextChars) /\ Needles \subseteq Seq(Printable) \ {<< >>}

VARIABLES
    plan,               \* the member of Plans that bounds this behaviour
    sd,                 \* the card: a text, or Missing, per name
    status,             \* "closed", "editing" or "crashed"
    filename,           \* the file being edited
    editorBuffer,       \* EDITOR_MAX_SIZE characters
    textLength, cursorIdx,
    blockStartIdx,      \* -1 or the index of the block mark
    logischeZeile,      \* line the status bar shows
    editorClipboard,    \* the string in the clipboard
    tmpDatei,           \* last file opened
    editorStartZeile,   \* line of the last error message
    gemerkte_stelle, gemerkte_zeile,   \* where the last session ended
    strayed             \* history: 0, or keystrokes since the cursor or the mark
                        \* was behind the text for the first time, plus one

textVars    == <<editorBuffer, textLength, cursorIdx, blockStartIdx, logischeZeile>>
memoryVars  == <<tmpDatei, editorStartZeile, gemerkte_stelle, gemerkte_zeile>>
sessionVars == <<status, filename>>
vars == <<plan, sd, sessionVars, textVars, editorClipboard, memoryVars, strayed>>

Index  == 0..(MaxSize - 1)
Buffer == [Index -> TextChars \union {NUL}]

-----------------------------------------------------------------------------
(* The C string functions the editor uses.                                 *)

LeastOf(S)    == CHOOSE m \in S : \A s \in S : m <= s
GreatestOf(S) == CHOOSE m \in S : \A s \in S : m >= s
SmallerOf(a, b) == IF a < b THEN a ELSE b
LargerOf(a, b)  == IF a < b THEN b ELSE a

\* strlen(&b[from]); the last byte of the buffer is never overwritten.
Strlen(b, from) == LeastOf({i \in Index : i >= from /\ b[i] = NUL}) - from

TextOf(b) == [i \in 1..Strlen(b, 0) |-> b[i - 1]]

\* memmove(&b[dst], &b[src], n), and when it stays inside the buffer.
Memmove(b, dst, src, n) ==
    [i \in Index |-> IF dst <= i /\ i < dst + n THEN b[src + i - dst] ELSE b[i]]
Inside(dst, src, n) == n >= 0 /\ dst + n <= MaxSize /\ src + n <= MaxSize

\* memcpy(&b[dst], s, Len(s)).
Memcpy(b, dst, s) ==
    [i \in Index |-> IF dst <= i /\ i < dst + Len(s) THEN s[i - dst + 1] ELSE b[i]]

\* The matches strstr(&b[from], s) chooses the first of.
Matches(b, from, s) ==
    {p \in Index : /\ p >= from
                   /\ p + Len(s) <= from + Strlen(b, from)
                   /\ \A i \in 1..Len(s) : b[p + i - 1] = s[i]}

-----------------------------------------------------------------------------
(* Lines and columns.                                                      *)

LineStart(b, i) == GreatestOf({0} \union {j \in 1..i : b[j - 1] = NL})

\* At most cols characters to the right of i, on the same line, below lim.
Walk(b, i, cols, lim) ==
    LeastOf({SmallerOf(i + cols, LargerOf(i, lim))} \union
            {j \in Index : i <= j /\ j < i + cols /\ b[j] \in {NL, NUL}})

LineAbove(b, i) ==
    LET start == LineStart(b, i)
        above == LineStart(b, IF start > 0 THEN start - 1 ELSE start)
    IN  Walk(b, above, i - start, MaxSize - 1)

LineEnd(b, i, len) == LeastOf({LargerOf(i, len)} \union
                              {j \in Index : i <= j /\ j < len /\ b[j] = NL})

LineBelow(b, i, len) ==
    LET end == LineEnd(b, i, len)
    IN  Walk(b, IF end < len THEN end + 1 ELSE end, i - LineStart(b, i), len)

\* The index where line n begins, or the end of the text.
LineBreaks(b, i) == Cardinality({j \in Index : j < i /\ b[j] = NL})
HasLine(b, n)    == LineBreaks(b, Strlen(b, 0)) >= n - 1
StartOfLine(b, n) ==
    IF n = 1 THEN 0
    ELSE 1 + CHOOSE j \in Index : b[j] = NL /\ LineBreaks(b, j) = n - 2

\* Page up and page down move line by line.
PageUp(b, i) ==
    LET at[n \in Nat] == IF n = 0 THEN i ELSE LineAbove(b, at[n - 1])
    IN  at[PageLines]
PageDown(b, i, len) ==
    LET at[n \in Nat] == IF n = 0 THEN i ELSE LineBelow(b, at[n - 1], len)
    IN  at[PageLines]

-----------------------------------------------------------------------------
(* One keystroke.  berechneLogischePosition finds the line of the cursor;   *)
(* with the cursor behind the text it finds nothing, and the line stays     *)
(* what it was, or what Enter has made of it.                               *)

SettleAt(b, len, cursor, mark, line) ==
    /\ editorBuffer' = b /\ textLength' = len
    /\ cursorIdx' = cursor /\ blockStartIdx' = mark
    /\ logischeZeile' = IF cursor <= len THEN LineBreaks(b, cursor) + 1
                                         ELSE line
    /\ strayed' = IF strayed > 0 \/ cursor > len \/ mark > len THEN strayed + 1 ELSE 0
    /\ UNCHANGED <<sd, sessionVars, memoryVars>>

Settle(b, len, cursor, mark) == SettleAt(b, len, cursor, mark, logischeZeile)

MoveTo(cursor) == Settle(editorBuffer, textLength, cursor, blockStartIdx)
                  /\ UNCHANGED editorClipboard

Crash == /\ status' = "crashed"
         /\ UNCHANGED <<sd, filename, textVars, editorClipboard, memoryVars, strayed>>

\* Characters from the cursor on move by the length of s, which fills the gap.
Insert(s, mark, line) ==
    LET n == textLength - cursorIdx + 1
    IN  \/ /\ Inside(cursorIdx + Len(s), cursorIdx, n)
           /\ cursorIdx + Len(s) <= MaxSize
           /\ SettleAt(Memcpy(Memmove(editorBuffer, cursorIdx + Len(s), cursorIdx, n),
                              cursorIdx, s),
                       textLength + Len(s), cursorIdx + Len(s), mark, line)
           /\ UNCHANGED editorClipboard
        \/ /\ ~(Inside(cursorIdx + Len(s), cursorIdx, n) /\ cursorIdx + Len(s) <= MaxSize)
           /\ Crash

\* The characters from start to ende - 1 go; n is what memmove is told.
Remove(start, ende, n, mark) ==
    \/ /\ Inside(start, ende, n)
       /\ Settle(Memmove(editorBuffer, start, ende, n),
                 textLength - (ende - start), start, mark)
       /\ UNCHANGED editorClipboard
    \/ ~Inside(start, ende, n) /\ Crash

Type(c) == textLength < MaxSize - 2 /\ Insert(<<c>>, blockStartIdx, logischeZeile)

Enter == textLength < MaxSize - 2 /\ Insert(<<NL>>, blockStartIdx, logischeZeile + 1)

Tab == textLength < MaxSize - 3 /\ Insert(<<Blank, Blank>>, blockStartIdx, logischeZeile)

Backspace_bug ==
    /\ cursorIdx > 0
    /\ Remove(cursorIdx - 1, cursorIdx, textLength - cursorIdx, blockStartIdx)
Backspace ==
    /\ cursorIdx > 0
    /\ Remove(cursorIdx - 1, cursorIdx, textLength - cursorIdx + 1, blockStartIdx)

DeleteChar ==
    /\ blockStartIdx = -1 /\ cursorIdx < textLength
    /\ Remove(cursorIdx, cursorIdx + 1, textLength - cursorIdx, -1)

DeleteBlock ==
    /\ blockStartIdx # -1
    /\ LET start == SmallerOf(blockStartIdx, cursorIdx)
           ende  == LargerOf(blockStartIdx, cursorIdx)
       IN  IF ende > start
           THEN Remove(start, ende, textLength - ende + 1, -1)
           ELSE Settle(editorBuffer, textLength, cursorIdx, -1) /\ UNCHANGED editorClipboard

MarkBlock ==
    /\ blockStartIdx = -1
    /\ Settle(editorBuffer, textLength, cursorIdx, cursorIdx)
    /\ UNCHANGED editorClipboard

CopyBlock_bug ==
    /\ blockStartIdx # -1
    /\ LET start == SmallerOf(blockStartIdx, cursorIdx)
           ende  == LargerOf(blockStartIdx, cursorIdx)
           n     == SmallerOf(ende - start, Strlen(editorBuffer, start))
       IN  /\ start < ende
           /\ editorClipboard' = [i \in 1..n |-> editorBuffer[start + i - 1]]
    /\ Settle(editorBuffer, textLength, cursorIdx, blockStartIdx)
\* The mark stays.  strncpy stops at a NUL.
CopyBlock ==
    /\ blockStartIdx # -1
    /\ LET start == SmallerOf(blockStartIdx, cursorIdx)
           ende  == LargerOf(blockStartIdx, cursorIdx)
           n     == SmallerOf(ende - start, Strlen(editorBuffer, start))
       IN  /\ start < ende /\ ende - start < ClipSize - 2
           /\ editorClipboard' = [i \in 1..n |-> editorBuffer[start + i - 1]]
    /\ Settle(editorBuffer, textLength, cursorIdx, blockStartIdx)

Paste_bug == Len(editorClipboard) > 0 /\ Insert(editorClipboard, -1, logischeZeile)
Paste ==
    /\ Len(editorClipboard) > 0
    /\ textLength + Len(editorClipboard) < MaxSize - 2
    /\ Insert(editorClipboard, -1, logischeZeile)

\* From the cursor on, then from the top.  When the text fills the buffer and
\* the cursor is at its end, the first search reads past the buffer.
Find(s) ==
    LET ahead == IF cursorIdx + 1 \in Index THEN Matches(editorBuffer, cursorIdx + 1, s)
                                            ELSE {}
        top   == Matches(editorBuffer, 0, s)
    IN  /\ \/ /\ ahead # {}
              /\ Settle(editorBuffer, textLength, LeastOf(ahead), -1)
           \/ /\ ahead = {} /\ top # {}
              /\ Settle(editorBuffer, textLength, LeastOf(top), -1)
           \/ /\ cursorIdx + 1 \notin Index
              /\ Settle(editorBuffer, textLength, MaxSize, -1)
        /\ UNCHANGED editorClipboard

Move ==
    \/ cursorIdx > 0 /\ MoveTo(cursorIdx - 1)
    \/ cursorIdx < textLength /\ MoveTo(cursorIdx + 1)
    \/ cursorIdx > 0 /\ MoveTo(LineAbove(editorBuffer, cursorIdx))
    \/ cursorIdx < textLength /\ MoveTo(LineBelow(editorBuffer, cursorIdx, textLength))
    \/ MoveTo(LineStart(editorBuffer, cursorIdx))
    \/ MoveTo(LineEnd(editorBuffer, cursorIdx, textLength))
    \/ MoveTo(PageUp(editorBuffer, cursorIdx))
    \/ MoveTo(PageDown(editorBuffer, cursorIdx, textLength))

Keystroke ==
    /\ status = "editing" /\ strayed <= plan.stray
    /\ \/ \E c \in Printable : Type(c)
       \/ Enter \/ Tab \/ Backspace \/ DeleteChar \/ DeleteBlock
       \/ plan.block /\ MarkBlock
       \/ CopyBlock \/ Paste
       \/ \E s \in Needles : Find(s)
       \/ Move
-----------------------------------------------------------------------------
(* Sessions.                                                               *)

Empty == [i \in Index |-> NUL]

\* The file as far as the buffer takes it; nothing when it cannot be opened.
Load(text) == Memcpy(Empty, 0, SubSeq(text, 1, SmallerOf(Len(text), MaxSize - 1)))

ForgetsPlace_file_bug(f, loaded)  == editorStartZeile > 1
ForgetsPlace_error_bug(f, loaded) == loaded /\ tmpDatei # RelName[f]
\* The position of an error comes before the remembered one, and a file with
\* another name forgets the remembered one - if it could be read.
ForgetsPlace(f, loaded) == (loaded /\ tmpDatei # RelName[f]) \/ editorStartZeile > 1

\* edit("...").
Open(f, readable) ==
    LET loaded == sd[f] # Missing /\ readable
        b      == IF loaded THEN Load(sd[f]) ELSE Empty
        forget == ForgetsPlace(f, loaded)
        stelle == IF forget THEN 1 ELSE gemerkte_stelle
        zeile  == IF forget THEN 1 ELSE gemerkte_zeile
        back   == stelle > 1 \/ zeile > 1
        line   == IF back THEN zeile ELSE editorStartZeile
        cursor == IF back THEN stelle
                  ELSE IF HasLine(b, line) THEN StartOfLine(b, line) ELSE 0
    IN  /\ status = "closed"
        /\ status' = "editing" /\ filename' = f
        /\ editorBuffer' = b /\ textLength' = Strlen(b, 0)
        /\ cursorIdx' = cursor /\ blockStartIdx' = -1
        /\ logischeZeile' = IF cursor <= Strlen(b, 0) THEN LineBreaks(b, cursor) + 1
                            ELSE IF HasLine(b, line) THEN line ELSE 1
        /\ tmpDatei' = IF loaded THEN RelName[f] ELSE tmpDatei
        /\ gemerkte_stelle' = IF back THEN 1 ELSE stelle
        /\ gemerkte_zeile' = 1
        /\ editorStartZeile' = 1
        /\ strayed' = IF cursor > Strlen(b, 0) THEN 1 ELSE 0
        /\ UNCHANGED <<sd, editorClipboard>>

\* The local variables of the session die; the buffer is left for the
\* interpreter, which lua_cmd_edit hands it to.
Leave ==
    /\ status = "editing"
    /\ status' = "closed"
    /\ gemerkte_stelle' = cursorIdx /\ gemerkte_zeile' = logischeZeile
    /\ textLength' = 0 /\ cursorIdx' = 0 /\ blockStartIdx' = -1 /\ logischeZeile' = 1
    /\ UNCHANGED <<filename, editorBuffer, editorClipboard, tmpDatei,
                   editorStartZeile, strayed>>

Esc == Leave /\ UNCHANGED sd

\* F1 removes the file first; opening it for writing may then fail.
Save == /\ Leave
        /\ sd' \in {[sd EXCEPT ![filename] = t] : t \in {Missing, TextOf(editorBuffer)}}

\* Between sessions programs run: they change the card, and an error message
\* leaves its line number for the next session.
ProgramWrites(f, t) ==
    /\ status = "closed"
    /\ sd' = [sd EXCEPT ![f] = t]
    /\ UNCHANGED <<sessionVars, textVars, editorClipboard, memoryVars, strayed>>

zeigeFehlerPopup(zeile) ==
    /\ status = "closed"
    /\ editorStartZeile' = zeile
    /\ UNCHANGED <<sd, sessionVars, textVars, editorClipboard, tmpDatei,
                   gemerkte_stelle, gemerkte_zeile, strayed>>

Init ==
    /\ plan \in Plans
    /\ sd \in {[f \in Names |-> IF f \in plan.files THEN t[f] ELSE Missing] :
                  t \in [Names -> FileTexts \union {Missing}]}
    /\ status = "closed" /\ filename \in plan.files
    /\ editorBuffer = Empty /\ textLength = 0 /\ cursorIdx = 0
    /\ blockStartIdx = -1 /\ logischeZeile = 1
    /\ editorClipboard = << >>
    /\ tmpDatei = NoName /\ editorStartZeile = 1
    /\ gemerkte_stelle = 1 /\ gemerkte_zeile = 1
    /\ strayed = 0

Next ==
    /\ \/ \E f \in plan.files, r \in BOOLEAN : Open(f, r)
       \/ Keystroke
       \/ Esc
       \/ Save
       \/ \E f \in plan.files, t \in FileTexts \union {Missing} : ProgramWrites(f, t)
       \/ \E n \in 1..plan.lines : zeigeFehlerPopup(n)
    /\ UNCHANGED plan

Spec == Init /\ [][Next]_vars

-----------------------------------------------------------------------------
\* The line is not bounded by the text: Enter counts it up, and with the cursor
\* behind the text nothing counts it down again.
TypeOK ==
    /\ plan \in Plans
    /\ sd \in [Names -> Seq(TextChars) \union {Missing}]
    /\ status \in {"closed", "editing", "crashed"} /\ filename \in Names
    /\ editorBuffer \in Buffer
    /\ textLength \in -MaxSize..(MaxSize - 1)
    /\ cursorIdx \in 0..MaxSize /\ blockStartIdx \in -1..MaxSize
    /\ logischeZeile \in 1..(MaxSize + 1 + strayed)
    /\ editorClipboard \in Seq(TextChars) /\ Len(editorClipboard) < ClipSize - 2
    /\ tmpDatei \in {RelName[f] : f \in Names} \union {NoName}
    /\ editorStartZeile \in 1..plan.lines
    /\ gemerkte_stelle \in 0..MaxSize /\ gemerkte_zeile \in 1..(MaxSize + 2 + plan.stray)
    /\ strayed \in 0..(plan.stray + 1)

\* No sequence of keystrokes overwrites the last byte of the buffer, whatever
\* the length checks of Enter, Tab, Paste and of typing let through: F1 and the
\* interpreter stop inside the buffer.  And as long as neither the cursor nor
\* the mark has left the text, textLength is the length of the string in the
\* buffer: what F1 saves is what is shown.
BufferHoldsText ==
    /\ editorBuffer[MaxSize - 1] = NUL
    /\ (status = "editing" /\ strayed = 0) => textLength = Strlen(editorBuffer, 0)

\* A memmove with a negative length takes a cursor or a mark behind the text.
OnlyStrayingCrashes == status = "crashed" => strayed > 0

\* No keystroke takes more from the text than there is.
LengthIsBounded ==
    /\ textLength >= -1
    /\ (status = "editing" /\ strayed = 0) => cursorIdx <= textLength /\ blockStartIdx <= textLength

IInv == TypeOK /\ BufferHoldsText /\ OnlyStrayingCrashes /\ LengthIsBounded

\* A session after an error message starts at the beginning of the reported
\* line, wherever the last session ended.
ErrorLineComesFirst ==
    [][(status = "closed" /\ status' = "editing" /\ editorStartZeile > 1
          /\ HasLine(editorBuffer', editorStartZeile)) =>
            /\ cursorIdx' = StartOfLine(editorBuffer', editorStartZeile)
            /\ logischeZeile' = editorStartZeile]_vars

\* The file comparison of 25.06.2026 as far as it reaches: a file that can be
\* read and has another name than the last one starts inside its text.
OtherFileStartsInText ==
    [][(status = "closed" /\ status' = "editing" /\ textLength' > 0
          /\ tmpDatei # RelName[filename']) => cursorIdx' <= textLength']_vars

\* What the comment beside the comparison says (lua.ino:1115): when the
\* last file and the present one differ, the remembered place is given up.  The
\* comparison is of names without the working directory, and is skipped when
\* the file cannot be read.
OtherFileForgetsPlace ==
    [][(status = "closed" /\ status' = "editing" /\ editorStartZeile = 1
          /\ tmpDatei # NoName /\ filename' # filename) => cursorIdx' = 0]_vars
=============================================================================
