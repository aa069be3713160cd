-------------------------------- MODULE LuaLines -------------------------------
(***************************************************************************)
(* lcode.c writes the line of every instruction as a byte, the difference  *)
(* to the instruction before, with the line itself beside it every         *)
(* MAXIWTHABS instructions or where the difference does not fit; ldebug.c  *)
(* reads it for messages and line hooks.  pc counts from 0 on.  Operators  *)
(* named _bug are broken variants that no definition uses.                 *)
(***************************************************************************)
EXTENDS Integers, Sequences, SequencesExt, FiniteSets

CONSTANTS
    LIMLINEDIFF,    \* 128: a difference of this size does not fit
    MAXIWTHABS,     \* 128: instructions without an absolute line
    LastLine,       \* the lines of the source
    MaxCode         \* bound: instructions of a function, by the line where it starts

ASSUME LinesAssumption == LIMLINEDIFF > 0 /\ MAXIWTHABS > 0 /\ LastLine > 0

ABSLINEINFO == -LIMLINEDIFF

VARIABLES
    lines,          \* the line each instruction was last given
    linedefined,
    lineinfo,       \* differences
    abslineinfo,    \* [pc, line]
    previousline,
    iwthabs,
    lastline,       \* of the last token
    parsing

linevars == <<lines, linedefined, lineinfo, abslineinfo, previousline, iwthabs, lastline, parsing>>

Abs(x) == IF x < 0 THEN -x ELSE x

\* The variables as a record, so that two steps of the code can follow each other.
fs == [lines |-> lines, info |-> lineinfo, abs |-> abslineinfo, previous |-> previousline, iwthabs |-> iwthabs]
Becomes(f) == /\ lines' = f.lines /\ lineinfo' = f.info /\ abslineinfo' = f.abs
              /\ previousline' = f.previous /\ iwthabs' = f.iwthabs

savelineinfo(f, line) ==
    LET linedif == line - f.previous
        fits    == Abs(linedif) < LIMLINEDIFF /\ f.iwthabs < MAXIWTHABS
        g       == [f EXCEPT !.lines = Append(@, line), !.previous = line]
    IN  IF fits THEN [g EXCEPT !.info = Append(@, linedif), !.iwthabs = @ + 1]
        ELSE [g EXCEPT !.info = Append(@, ABSLINEINFO), !.iwthabs = 1,
                       !.abs = Append(@, [pc |-> Len(f.info), line |-> line])]

\* Without the limit the line before an absolute one would be taken for the last.
removelastlineinfo_bug(f) ==
    LET g == [f EXCEPT !.lines = Front(@), !.info = Front(@)]
    IN  IF Last(f.info) # ABSLINEINFO THEN [g EXCEPT !.previous = @ - Last(f.info), !.iwthabs = @ - 1]
        ELSE [g EXCEPT !.abs = Front(@), !.iwthabs = @ - 1]
removelastlineinfo(f) ==
    LET g == [f EXCEPT !.lines = Front(@), !.info = Front(@)]
    IN  IF Last(f.info) # ABSLINEINFO THEN [g EXCEPT !.previous = @ - Last(f.info), !.iwthabs = @ - 1]
        ELSE [g EXCEPT !.abs = Front(@), !.iwthabs = MAXIWTHABS + 1]

open_func ==
    /\ lines = <<>> /\ linedefined \in 0..LastLine /\ lineinfo = <<>> /\ abslineinfo = <<>>
    /\ previousline = linedefined /\ iwthabs = 0
    /\ lastline = IF linedefined = 0 THEN 1 ELSE linedefined
    /\ parsing = TRUE

NoLines ==
    /\ lines = <<>> /\ linedefined = 0 /\ lineinfo = <<>> /\ abslineinfo = <<>>
    /\ previousline = 0 /\ iwthabs = 0 /\ lastline = 1 /\ parsing = FALSE

luaX_next ==
    /\ parsing /\ lastline < LastLine
    /\ lastline' \in (lastline + 1)..LastLine
    /\ UNCHANGED <<lines, linedefined, lineinfo, abslineinfo, previousline, iwthabs, parsing>>

luaK_code ==
    /\ parsing /\ Len(lineinfo) < MaxCode[linedefined]
    /\ Becomes(savelineinfo(fs, lastline))
    /\ UNCHANGED <<linedefined, lastline, parsing>>

\* The last instruction gets the line of an operator or a call read before.
luaK_fixline ==
    /\ parsing /\ lineinfo # <<>>
    /\ \E line \in (IF linedefined = 0 THEN 1 ELSE linedefined)..lastline :
          Becomes(savelineinfo(removelastlineinfo(fs), line))
    /\ UNCHANGED <<linedefined, lastline, parsing>>

\* An OP_NOT goes and an OP_TEST with its jump comes.
jumponcond ==
    /\ parsing /\ lineinfo # <<>> /\ Len(lineinfo) < MaxCode[linedefined]
    /\ Becomes(savelineinfo(savelineinfo(removelastlineinfo(fs), lastline), lastline))
    /\ UNCHANGED <<linedefined, lastline, parsing>>

LinesNext == luaX_next \/ luaK_code \/ luaK_fixline \/ jumponcond

-----------------------------------------------------------------------------
(* What ldebug.c reads.                                                    *)

\* The entry of abslineinfo from which to count: its index from 0 on, or -1.
getbaseline(pc) ==
    LET guess == (pc \div MAXIWTHABS) - 1
        ahead == {k \in (guess + 1)..(Len(abslineinfo) - 1) :
                     \A m \in (guess + 1)..k : pc >= abslineinfo[m + 1].pc}
    IN  IF abslineinfo = <<>> \/ pc < abslineinfo[1].pc THEN -1 ELSE guess + Cardinality(ahead)

SumFrom(from, pc) == FoldLeft(LAMBDA x, y : x + y, 0, SubSeq(lineinfo, from + 2, pc + 1))

luaG_getfuncline(pc) ==
    LET i == getbaseline(pc)
    IN  IF i = -1 THEN linedefined + SumFrom(-1, pc)
        ELSE abslineinfo[i + 1].line + SumFrom(abslineinfo[i + 1].pc, pc)

changedline(oldpc, newpc) ==
    LET steps == SubSeq(lineinfo, oldpc + 2, newpc + 1)
    IN  IF newpc - oldpc < MAXIWTHABS \div 2 /\ ABSLINEINFO \notin ToSet(steps)
        THEN SumFrom(oldpc, newpc) # 0
        ELSE luaG_getfuncline(oldpc) # luaG_getfuncline(newpc)

-----------------------------------------------------------------------------
\* The reader's first guess is never beyond the right entry, it counts over
\* no entry that is no difference, and finds the line of every instruction
\* and every change of it.
GuessesLow == \A pc \in 0..(Len(lines) - 1) :
    abslineinfo # <<>> /\ pc >= abslineinfo[1].pc =>
        LET guess == (pc \div MAXIWTHABS) - 1
        IN  guess < 0 \/ (guess < Len(abslineinfo) /\ abslineinfo[guess + 1].pc <= pc)

LinesAreFound ==
    /\ GuessesLow
    /\ \A pc \in 0..(Len(lines) - 1) : luaG_getfuncline(pc) = lines[pc + 1]
    /\ \A new \in 0..(Len(lines) - 1) : \A old \in 0..(new - 1) :
          changedline(old, new) = (lines[old + 1] # lines[new + 1])
=============================================================================
