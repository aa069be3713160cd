-------------------------------- MODULE LuaMatch -------------------------------
(***************************************************************************)
(* lstrlib.c: the matcher of patterns.  Subjects and patterns are          *)
(* sequences of characters, a pointer is an index from 0 on, and behind    *)
(* the last character there is a "NUL".  A MatchState [src, p, cap, depth,  *)
(* err] goes through the matcher and comes back, as the C code changes it  *)
(* and takes changes back; cap has the captures below level.  An error     *)
(* (lua_error) is the pointer ERROR and a reason in err.  The character    *)
(* classes have the characters of the model.  Operators named _bug are     *)
(* broken variants that no definition uses.                                *)
(***************************************************************************)
EXTENDS Integers, Sequences, SequencesExt, TLC

CONSTANT LUA_MAXCAPTURES

NULL           == -1
ERROR          == -2
CAP_UNFINISHED == -1
CAP_POSITION   == -2

At(x, i)      == IF i < Len(x) THEN x[i + 1] ELSE "NUL"
Ret(ms, s)    == [ms |-> ms, s |-> s]
Fail(ms, why) == Ret([ms EXCEPT !.err = why], ERROR)

Ascii   == <<"NUL", " ", "$", "%", "(", ")", "*", "+", "-", ".", "0", "1", "2", "?", "A", "B", "[", "]", "^",
             "a", "b", "c", "f", "u", "w">>
Code(c) == CHOOSE n \in DOMAIN Ascii : Ascii[n] = c

-----------------------------------------------------------------------------
(* One character.                                                          *)

RECURSIVE SetEnd(_, _)
SetEnd(p, j) ==
    IF j = Len(p) THEN ERROR
    ELSE LET k == IF p[j + 1] = "%" /\ j + 1 < Len(p) THEN j + 2 ELSE j + 1
         IN  IF At(p, k) = "]" THEN k + 1 ELSE SetEnd(p, k)

classend(p, i) ==
    CASE p[i + 1] = "%" -> IF i + 1 = Len(p) THEN ERROR ELSE i + 2
      [] p[i + 1] = "[" -> SetEnd(p, IF At(p, i + 1) = "^" THEN i + 2 ELSE i + 1)
      [] OTHER          -> i + 1

Letters  == {"A", "B", "a", "b", "c", "f", "u", "w"}
Digits   == {"0", "1", "2"}
Marks    == {"$", "%", "(", ")", "*", "+", "-", ".", "?", "[", "]", "^"}
Class    == [a |-> Letters, d |-> Digits, l |-> Letters \ {"A", "B"}, u |-> {"A", "B"}, s |-> {" "},
             w |-> Letters \union Digits, p |-> Marks, c |-> {"NUL"}, x |-> (Letters \ {"u", "w"}) \union Digits,
             g |-> Letters \union Digits \union Marks, z |-> {"NUL"}]
tolower  == [A |-> "a", D |-> "d", L |-> "l", U |-> "u", S |-> "s", W |-> "w", P |-> "p", C |-> "c",
             X |-> "x", G |-> "g", Z |-> "z"]

match_class(c, cl) ==
    IF cl \in DOMAIN Class THEN c \in Class[cl]
    ELSE IF cl \in DOMAIN tolower THEN c \notin Class[tolower[cl]] ELSE cl = c

RECURSIVE Listed(_, _, _, _)
Listed(c, p, i, ec) ==
    IF i >= ec THEN FALSE
    ELSE IF p[i + 1] = "%" THEN match_class(c, At(p, i + 1)) \/ Listed(c, p, i + 2, ec)
    ELSE IF At(p, i + 1) = "-" /\ i + 2 < ec
    THEN (Code(p[i + 1]) <= Code(c) /\ Code(c) <= Code(p[i + 3])) \/ Listed(c, p, i + 3, ec)
    ELSE p[i + 1] = c \/ Listed(c, p, i + 1, ec)

\* The set from "[" at i to "]" at ec.
matchbracketclass(c, p, i, ec) ==
    IF At(p, i + 1) = "^" THEN ~Listed(c, p, i + 2, ec) ELSE Listed(c, p, i + 1, ec)

singlematch(ms, s, p, ep) ==
    /\ s < Len(ms.src)
    /\ LET c == At(ms.src, s)
       IN  CASE At(ms.p, p) = "." -> TRUE
             [] At(ms.p, p) = "%" -> match_class(c, At(ms.p, p + 1))
             [] At(ms.p, p) = "[" -> matchbracketclass(c, ms.p, p, ep - 1)
             [] OTHER             -> At(ms.p, p) = c

RECURSIVE Balanced(_, _, _, _, _)
Balanced(src, s, b, e, cont) ==
    IF s >= Len(src) THEN NULL
    ELSE IF At(src, s) = e
    THEN IF cont = 1 THEN s + 1 ELSE Balanced(src, s + 1, b, e, cont - 1)
    ELSE Balanced(src, s + 1, b, e, IF At(src, s) = b THEN cont + 1 ELSE cont)

matchbalance(ms, s, p) ==
    IF p >= Len(ms.p) - 1 THEN Fail(ms, "malformed")
    ELSE Ret(ms, IF At(ms.src, s) # At(ms.p, p) THEN NULL
                 ELSE Balanced(ms.src, s + 1, At(ms.p, p), At(ms.p, p + 1), 1))

-----------------------------------------------------------------------------
(* The matcher.                                                            *)

RECURSIVE match(_, _, _), Longest(_, _, _, _), min_expand(_, _, _, _), Scan(_, _, _)

Run(ms, s, p, ep) ==
    Max({n \in 0..(Len(ms.src) - s) : \A m \in 0..(n - 1) : singlematch(ms, s + m, p, ep)})

Longest(ms, s, i, ep) ==
    LET r == match(ms, s + i, ep + 1)
    IN  IF r.s # NULL \/ i = 0 THEN r ELSE Longest(r.ms, s, i - 1, ep)

max_expand(ms, s, p, ep) == Longest(ms, s, Run(ms, s, p, ep), ep)

min_expand(ms, s, p, ep) ==
    LET r == match(ms, s, ep + 1)
    IN  IF r.s = NULL /\ singlematch(r.ms, s, p, ep) THEN min_expand(r.ms, s + 1, p, ep) ELSE r

start_capture(ms, s, p, what) ==
    LET r == match([ms EXCEPT !.cap = Append(@, [init |-> s, len |-> what])], s, p)
    IN  IF Len(ms.cap) >= LUA_MAXCAPTURES THEN Fail(ms, "too many captures")
        ELSE IF r.s = NULL THEN Ret([r.ms EXCEPT !.cap = Front(@)], NULL) ELSE r

\* A capture that failed to close is open again for other ways to close it.
end_capture_bug(ms, s, p) ==
    LET open == {n \in DOMAIN ms.cap : ms.cap[n].len = CAP_UNFINISHED}
        l    == Max(open)
    IN  IF open = {} THEN Fail(ms, "invalid pattern capture")
        ELSE match([ms EXCEPT !.cap[l].len = s - ms.cap[l].init], s, p)
end_capture(ms, s, p) ==
    LET open == {n \in DOMAIN ms.cap : ms.cap[n].len = CAP_UNFINISHED}
        l    == Max(open)
        r    == match([ms EXCEPT !.cap[l].len = s - ms.cap[l].init], s, p)
    IN  IF open = {} THEN Fail(ms, "invalid pattern capture")
        ELSE IF r.s = NULL THEN Ret([r.ms EXCEPT !.cap[l].len = CAP_UNFINISHED], NULL) ELSE r

\* The length of a position is a huge number here: it never matches again.
match_capture(ms, s, c) ==
    LET l == Code(c) - Code("1") + 1
    IN  IF l \notin DOMAIN ms.cap \/ ms.cap[l].len = CAP_UNFINISHED THEN Fail(ms, "invalid capture index")
        ELSE LET len == ms.cap[l].len
             IN  Ret(ms, IF len # CAP_POSITION /\ Len(ms.src) - s >= len
                            /\ \A n \in 0..(len - 1) : At(ms.src, s + n) = At(ms.src, ms.cap[l].init + n)
                         THEN s + len ELSE NULL)

frontier(ms, s, p, ep) ==
    LET previous == IF s = 0 THEN "NUL" ELSE At(ms.src, s - 1)
    IN  ~matchbracketclass(previous, ms.p, p, ep - 1) /\ matchbracketclass(At(ms.src, s), ms.p, p, ep - 1)

\* A character or class at p and what is behind it.
Default(ms, s, p) ==
    LET ep  == classend(ms.p, p)
        rep == At(ms.p, ep)
        r   == match(ms, s + 1, ep + 1)
    IN  IF ep = ERROR THEN Fail(ms, "malformed")
        ELSE IF ~singlematch(ms, s, p, ep)
        THEN IF rep \in {"*", "?", "-"} THEN Scan(ms, s, ep + 1) ELSE Ret(ms, NULL)
        ELSE CASE rep = "?" -> IF r.s # NULL THEN r ELSE Scan(r.ms, s, ep + 1)
               [] rep = "+" -> max_expand(ms, s + 1, p, ep)
               [] rep = "*" -> max_expand(ms, s, p, ep)
               [] rep = "-" -> min_expand(ms, s, p, ep)
               [] OTHER     -> Scan(ms, s + 1, ep)

\* What match does from its label init on.
Scan(ms, s, p) ==
    LET c    == At(ms.p, p)
        c2   == At(ms.p, p + 1)
        bal  == matchbalance(ms, s, p + 2)
        ep   == classend(ms.p, p + 2)
        back == match_capture(ms, s, c2)
    IN  CASE p = Len(ms.p) -> Ret(ms, s)
          [] c = "(" -> IF c2 = ")" THEN start_capture(ms, s, p + 2, CAP_POSITION)
                                         ELSE start_capture(ms, s, p + 1, CAP_UNFINISHED)
          [] c = ")" -> end_capture(ms, s, p + 1)
          [] c = "$" /\ p + 1 = Len(ms.p) -> Ret(ms, IF s = Len(ms.src) THEN s ELSE NULL)
          [] c = "%" /\ c2 = "b" ->
                IF bal.s \in {NULL, ERROR} THEN bal ELSE Scan(ms, bal.s, p + 4)
          [] c = "%" /\ c2 = "f" ->
                IF At(ms.p, p + 2) # "[" \/ ep = ERROR THEN Fail(ms, "malformed")
                ELSE IF frontier(ms, s, p + 2, ep) THEN Scan(ms, s, ep) ELSE Ret(ms, NULL)
          [] c = "%" /\ c2 \in Digits ->
                IF back.s \in {NULL, ERROR} THEN back ELSE Scan(ms, back.s, p + 2)
          [] OTHER -> Default(ms, s, p)

match(ms, s, p) ==
    IF ms.depth = 0 THEN Fail(ms, "too complex")
    ELSE LET r == Scan([ms EXCEPT !.depth = @ - 1], s, p)
         IN  Ret([r.ms EXCEPT !.depth = @ + 1], r.s)
=============================================================================
