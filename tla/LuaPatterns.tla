------------------------------ MODULE LuaPatterns ------------------------------
(***************************************************************************)
(* lstrlib.c: find, match, gmatch and gsub.  gmatch_aux and str_gsub take  *)
(* a step for every match.                                                 *)
(***************************************************************************)
EXTENDS LuaMatch

CONSTANTS
    Match(_, _, _),     \* what match of LuaMatch does
    MAXCCALLS,          \* nesting of match
    PatternCalls        \* the calls to try, in sets

-----------------------------------------------------------------------------
(* Captures as values: ["str", characters] or ["pos", number].             *)

Text(ms, from, to) == <<"str", SubSeq(ms.src, from + 1, to)>>

get_onecapture(ms, i, s, e) ==
    IF i > Len(ms.cap) THEN IF i = 1 THEN Text(ms, s, e) ELSE <<"error", "invalid capture index">>
    ELSE LET c == ms.cap[i]
         IN  CASE c.len = CAP_UNFINISHED -> <<"error", "unfinished capture">>
               [] c.len = CAP_POSITION   -> <<"pos", c.init + 1>>
               [] OTHER                  -> Text(ms, c.init, c.init + c.len)

\* find has pushed the positions of the match and wants no other value.
push_captures(ms, s, e, whole) ==
    [i \in 1..(IF Len(ms.cap) = 0 /\ whole THEN 1 ELSE Len(ms.cap)) |-> get_onecapture(ms, i, s, e)]

FirstError(vals) == SelectSeq(vals, LAMBDA v : v[1] = "error")

nospecials(p) == \A j \in DOMAIN p : p[j] \notin {"^", "$", "*", "+", "?", ".", "(", "[", "%", "-"}

lmemfind(s, p, init) ==
    LET found == {j \in init..(Len(s) - Len(p)) : \A m \in DOMAIN p : s[j + m] = p[m]}
    IN  IF found = {} THEN NULL ELSE Min(found)

\* From 1 on; negative numbers count from the end.
posrelatI(pos, len) == IF pos > 0 THEN pos ELSE IF pos = 0 \/ pos < -len THEN 1 ELSE len + pos + 1

-----------------------------------------------------------------------------
(* The functions of the library.                                           *)

VARIABLES
    call,       \* [fn, s, p, init, plain, repl, max]
    ms,
    src,        \* gmatch, gsub: where to look for the next match
    lastmatch,  \* gmatch, gsub: end of the last match
    n, changed, \* gsub: replacements, whether one changed anything
    out,        \* results; of gmatch, those of every call; of gsub, the buffer
    status      \* calling, done, or an error

patternvars == <<call, ms, src, lastmatch, n, changed, out, status>>

prepstate(s, p) == [src |-> s, p |-> p, cap |-> <<>>, depth |-> MAXCCALLS, err |-> ""]

\* A match at s, after reprepstate.
Try(st, s) ==
    IF st.depth # MAXCCALLS THEN Fail(st, "assertion")
    ELSE Match([st EXCEPT !.cap = <<>>], s, IF call.p # <<>> /\ call.p[1] = "^" /\ call.fn # "gmatch" THEN 1 ELSE 0)

Anchored == call.p # <<>> /\ call.p[1] = "^"

\* The first start from s on with a match that does not end at last: [ms, s, e].
RECURSIVE First(_, _, _, _)
First(st, s, last, once) ==
    LET r == Try(st, s)
    IN  IF r.s # NULL /\ r.s # last THEN [ms |-> r.ms, s |-> s, e |-> r.s]
        ELSE IF s >= Len(st.src) \/ once THEN [ms |-> r.ms, s |-> s, e |-> NULL]
        ELSE First(r.ms, s + 1, last, once)

Nothing == << <<"nil">> >>

Stops(why)    == status' = why /\ UNCHANGED <<call, src, lastmatch, n, changed, out>>
Returns(vals) == /\ IF FirstError(vals) # <<>> THEN status' = FirstError(vals)[1][2] /\ UNCHANGED out
                    ELSE status' = "done" /\ out' = vals
                 /\ UNCHANGED <<call, src, lastmatch, n, changed>>

\* What find and match return for [ms, s, e].
Found(r) ==
    CASE r.e = ERROR -> Stops(r.ms.err)
      [] r.e = NULL  -> Returns(Nothing)
      [] r.e \notin {ERROR, NULL} /\ call.fn = "match" -> Returns(push_captures(r.ms, r.s, r.e, TRUE))
      [] r.e \notin {ERROR, NULL} /\ call.fn = "find" ->
            Returns(<< <<"pos", r.s + 1>>, <<"pos", r.e>> >> \o push_captures(r.ms, r.s, r.e, FALSE))

str_find_aux ==
    LET init == posrelatI(call.init, Len(call.s)) - 1
        at   == lmemfind(call.s, call.p, init)
    IN  /\ status = "calling" /\ call.fn \in {"find", "match"}
        /\ IF init > Len(call.s) THEN Returns(Nothing) /\ UNCHANGED ms
           ELSE IF call.fn = "find" /\ (call.plain \/ nospecials(call.p))
           THEN /\ Returns(IF at = NULL THEN Nothing ELSE << <<"pos", at + 1>>, <<"pos", at + Len(call.p)>> >>)
                /\ UNCHANGED ms
           ELSE \E r \in {First(ms, init, NULL, Anchored)} : ms' = r.ms /\ Found(r)

\* A call of the iterator.
Iterates(r, vals) ==
    /\ src' = r.e /\ lastmatch' = r.e
    /\ IF FirstError(vals) # <<>> THEN status' = FirstError(vals)[1][2] /\ UNCHANGED out
       ELSE out' = Append(out, vals) /\ UNCHANGED status
    /\ UNCHANGED <<call, n, changed>>

gmatch_aux ==
    /\ status = "calling" /\ call.fn = "gmatch"
    /\ IF src > Len(call.s) THEN Stops("done") /\ UNCHANGED ms
       ELSE \E r \in {First(ms, src, lastmatch, FALSE)} :
              /\ ms' = r.ms
              /\ CASE r.e = ERROR -> Stops(r.ms.err)
                   [] r.e = NULL  -> Stops("done")
                   [] OTHER -> \E vals \in {push_captures(r.ms, r.s, r.e, TRUE)} : Iterates(r, vals)

\* Characters of a captured value; a position becomes a number's characters.
Chars(v) == IF v[1] = "pos" THEN <<ToString(v[2])>> ELSE v[2]

\* The replacement string as ["str", characters] or an error; up is after a "%".
add_s(st, s, e) ==
    LET Captured(c) == IF c = "0" THEN Text(st, s, e) ELSE get_onecapture(st, Code(c) - Code("0"), s, e)
        Add(b, c) ==
            CASE b.err # "" -> b
              [] b.err = "" /\ ~b.up -> IF c = "%" THEN [b EXCEPT !.up = TRUE] ELSE [b EXCEPT !.text = Append(@, c)]
              [] b.err = "" /\ b.up ->
                    IF c = "%" THEN [b EXCEPT !.up = FALSE, !.text = Append(@, c)]
                    ELSE IF c \notin Digits THEN [b EXCEPT !.err = "invalid use of '%'"]
                    ELSE LET v == Captured(c)
                         IN  IF v[1] = "error" THEN [b EXCEPT !.err = v[2]]
                             ELSE [b EXCEPT !.up = FALSE, !.text = @ \o Chars(v)]
        done == FoldLeft(Add, [text |-> <<>>, up |-> FALSE, err |-> ""], call.repl.str)
    IN  IF done.err # "" THEN <<"error", done.err>>
        ELSE IF done.up THEN <<"error", "invalid use of '%'">> ELSE <<"str", done.text>>

\* What a table or a function gives for captures: a value, false or an error.
add_value(st, s, e) ==
    LET all == push_captures(st, s, e, TRUE)
        v   == get_onecapture(st, 1, s, e)
    IN  CASE call.repl.kind = "string" -> add_s(st, s, e)
          [] call.repl.kind = "table"  -> IF v[1] = "error" THEN v
                                          ELSE IF v \in DOMAIN call.repl.table THEN call.repl.table[v]
                                          ELSE <<"nil">>
          [] OTHER -> IF FirstError(all) # <<>> THEN FirstError(all)[1] ELSE call.repl.function[Len(all)]

\* The loop ends with what is left of the subject behind from.
Ending(buf, from, any) ==
    /\ out' = IF any THEN buf \o SubSeq(call.s, from + 1, Len(call.s)) ELSE call.s
    /\ status' = "done"
Goes(buf, from, any) ==
    /\ src' = from /\ changed' = any /\ UNCHANGED call
    /\ IF Anchored THEN Ending(buf, from, any) ELSE out' = buf /\ UNCHANGED status

Replaces(e, v) ==
    LET keeps == v = <<"nil">>
    IN  CASE v[1] = "error" -> Stops(v[2])
          [] v[1] = "table" -> Stops("invalid replacement value")
          [] OTHER -> /\ n' = n + 1 /\ lastmatch' = e
                      /\ Goes(out \o (IF keeps THEN SubSeq(call.s, src + 1, e) ELSE Chars(v)), e, changed \/ ~keeps)

\* An iteration of the loop.
str_gsub ==
    /\ status = "calling" /\ call.fn = "gsub"
    /\ IF n >= call.max THEN Ending(out, src, changed) /\ UNCHANGED <<call, ms, src, lastmatch, n, changed>>
       ELSE \E r \in {Try(ms, src)} :
              /\ ms' = r.ms
              /\ IF r.s = ERROR THEN Stops(r.ms.err)
                 ELSE IF r.s # NULL /\ r.s # lastmatch
                 THEN \E v \in {add_value(r.ms, src, r.s)} : Replaces(r.s, v)
                 ELSE IF src < Len(call.s)
                 THEN Goes(Append(out, At(call.s, src)), src + 1, changed) /\ UNCHANGED <<lastmatch, n>>
                 ELSE Ending(out, src, changed) /\ UNCHANGED <<call, src, lastmatch, n, changed>>

\* The place from which an iterator of gmatch starts.
gmatch(c) == LET init == posrelatI(c.init, Len(c.s)) - 1
             IN  IF init > Len(c.s) THEN Len(c.s) + 1 ELSE init

PatternInit ==
    /\ \E k \in DOMAIN PatternCalls : call \in PatternCalls[k]
    /\ ms = prepstate(call.s, call.p)
    /\ src = IF call.fn = "gmatch" THEN gmatch(call) ELSE 0
    /\ lastmatch = NULL /\ n = 0 /\ changed = FALSE /\ out = <<>>
    /\ status = "calling"

NoPattern ==
    /\ call = [fn |-> "none", s |-> <<>>, p |-> <<>>] /\ ms = prepstate(<<>>, <<>>)
    /\ src = 0 /\ lastmatch = NULL /\ n = 0 /\ changed = FALSE /\ out = <<>>
    /\ status = "idle"

PatternNext == str_find_aux \/ gmatch_aux \/ str_gsub
=============================================================================
