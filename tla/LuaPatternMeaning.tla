--------------------------- MODULE LuaPatternMeaning ---------------------------
(***************************************************************************)
(* What the manual says of patterns (section 6.5.1 of the Lua manual): a   *)
(* pattern is a sequence of items, and Ways gives all ways in which items  *)
(* match from a place on, the preferred way first; a match is the first    *)
(* way at the first place that has one.  A way is [e, caps], or BAD where  *)
(* the pattern makes no sense.                                             *)
(***************************************************************************)
EXTENDS Integers, Sequences, SequencesExt, TLC

CONSTANTS Alphabet, ClassOf, MaxCaptures

OPEN == -1
POSITION == -2

BAD == [e |-> -1, caps |-> <<>>]

Item(kind) == [kind |-> kind]

\* %x: a class, the complement of one, or the character itself.
Escaped(x) == IF x \in DOMAIN ClassOf THEN ClassOf[x] ELSE {x}

Order(c)   == CHOOSE n \in DOMAIN Alphabet : Alphabet[n] = c
AllChars   == ToSet(Alphabet)
Between(x, y) == {c \in AllChars : Order(x) <= Order(c) /\ Order(c) <= Order(y)}

Drop(p, k) == SubSeq(p, k + 1, Len(p))
BadRest    == <<"bad">>

\* The first element inside a set: [set, rest].
Element(p) ==
    IF p[1] = "%" /\ Len(p) > 1 THEN [set |-> Escaped(p[2]), rest |-> Drop(p, 2)]
    ELSE IF Len(p) > 2 /\ p[2] = "-" /\ p[3] # "]" THEN [set |-> Between(p[1], p[3]), rest |-> Drop(p, 3)]
    ELSE [set |-> {p[1]}, rest |-> Tail(p)]

\* The inside of a set up to its bracket, which may not come first.
RECURSIVE Inside(_, _, _)
Inside(p, set, first) ==
    IF p = <<>> THEN [set |-> set, rest |-> BadRest]
    ELSE IF p[1] = "]" /\ ~first THEN [set |-> set, rest |-> Tail(p)]
    ELSE Inside(Element(p).rest, set \union Element(p).set, FALSE)

\* The class at the start of p: [set, rest].
ClassAt(p) ==
    CASE p[1] = "." -> [set |-> AllChars, rest |-> Tail(p)]
      [] p[1] = "%" -> IF Len(p) = 1 THEN [set |-> {}, rest |-> BadRest]
                       ELSE [set |-> Escaped(p[2]), rest |-> Drop(p, 2)]
      [] p[1] = "[" -> IF Len(p) > 1 /\ p[2] = "^"
                       THEN [Inside(Drop(p, 2), {}, TRUE) EXCEPT !.set = AllChars \ @]
                       ELSE Inside(Tail(p), {}, TRUE)
      [] OTHER -> [set |-> {p[1]}, rest |-> Tail(p)]

Then(item, rest) == [item |-> item, rest |-> rest]
Bad == Then(Item("bad"), <<>>)

Single(class) ==
    IF class.rest = BadRest THEN Bad
    ELSE IF class.rest # <<>> /\ class.rest[1] \in {"*", "+", "-", "?"}
    THEN Then([kind |-> class.rest[1], set |-> class.set], Tail(class.rest))
    ELSE Then([kind |-> "set", set |-> class.set], class.rest)

Frontier(class) == IF class.rest = BadRest THEN Bad ELSE Then([kind |-> "frontier", set |-> class.set], class.rest)

\* The first item of a pattern: [item, rest].
FirstItem(p) ==
    LET q == Append(p, "")
    IN  CASE p[1] = "(" -> IF q[2] = ")" THEN Then(Item("position"), Drop(p, 2)) ELSE Then(Item("open"), Tail(p))
          [] p[1] = ")" -> Then(Item("close"), Tail(p))
          [] p = <<"$">> -> Then(Item("end"), <<>>)
          [] p[1] = "%" /\ q[2] = "b" ->
                IF Len(p) < 4 THEN Bad ELSE Then([kind |-> "balance", x |-> p[3], y |-> p[4]], Drop(p, 4))
          [] p[1] = "%" /\ q[2] = "f" -> IF Len(p) < 3 \/ q[3] # "[" THEN Bad ELSE Frontier(ClassAt(Drop(p, 2)))
          [] p[1] = "%" /\ q[2] \in {"0", "1", "2"} ->
                Then([kind |-> "back", l |-> Order(p[2]) - Order("0")], Drop(p, 2))
          [] OTHER -> Single(ClassAt(p))

RECURSIVE Items(_)
Items(p) == IF p = <<>> THEN <<>> ELSE <<FirstItem(p).item>> \o Items(FirstItem(p).rest)

\* Where %bxy ends: the first place behind s where as many y as x were seen.
Times(s, from, to, x) == Cardinality({j \in from..to : s[j] = x})
BalancedEnds(s, at, x, y) ==
    {j \in (at + 2)..Len(s) : s[at + 1] = x /\ s[j] = y /\ (x = y \/ Times(s, at + 1, j, x) = Times(s, at + 1, j, y))}

\* The places to go on from after an item, the preferred one first.
Steps(it, s, at, caps) ==
    LET To(e)  == [e |-> e, caps |-> caps]
        run    == Max({k \in 0..(Len(s) - at) : \A j \in 1..k : s[at + j] \in it.set})
        open   == {k \in DOMAIN caps : caps[k].to = OPEN}
        ends   == BalancedEnds(s, at, it.x, it.y)
        before == IF at = 0 THEN "NUL" ELSE s[at]
        here   == IF at = Len(s) THEN "NUL" ELSE s[at + 1]
        piece  == SubSeq(s, caps[it.l].from + 1, caps[it.l].to)
    IN  CASE it.kind = "bad" -> <<BAD>>
          [] it.kind = "set" -> IF at < Len(s) /\ s[at + 1] \in it.set THEN <<To(at + 1)>> ELSE <<>>
          [] it.kind = "*" -> [k \in 1..(run + 1) |-> To(at + run + 1 - k)]
          [] it.kind = "+" -> [k \in 1..run |-> To(at + run + 1 - k)]
          [] it.kind = "-" -> [k \in 1..(run + 1) |-> To(at + k - 1)]
          [] it.kind = "?" -> IF run > 0 THEN <<To(at + 1), To(at)>> ELSE <<To(at)>>
          [] it.kind \in {"open", "position"} ->
                IF Len(caps) = MaxCaptures THEN <<BAD>>
                ELSE << [e |-> at, caps |-> Append(caps, [from |-> at, to |-> IF it.kind = "open" THEN OPEN ELSE POSITION])] >>
          [] it.kind = "close" ->
                IF open = {} THEN <<BAD>> ELSE << [e |-> at, caps |-> [caps EXCEPT ![Max(open)].to = at]] >>
          [] it.kind = "end" -> IF at = Len(s) THEN <<To(at)>> ELSE <<>>
          [] it.kind = "balance" -> IF at = Len(s) \/ ends = {} THEN <<>> ELSE <<To(Min(ends))>>
          [] it.kind = "frontier" -> IF before \notin it.set /\ here \in it.set THEN <<To(at)>> ELSE <<>>
          [] it.kind = "back" ->
                IF it.l \notin DOMAIN caps \/ caps[it.l].to = OPEN THEN <<BAD>>
                ELSE IF caps[it.l].to = POSITION \/ ~IsPrefix(piece, Drop(s, at)) THEN <<>>
                ELSE <<To(at + Len(piece))>>

RECURSIVE Ways(_, _, _)
Ways(its, s, w) ==
    IF its = <<>> \/ w = BAD THEN <<w>>
    ELSE LET nexts == Steps(its[1], s, w.e, w.caps)
         IN  FlattenSeq([k \in DOMAIN nexts |-> Ways(Tail(its), s, nexts[k])])

Unfinished(w) == \E k \in DOMAIN w.caps : w.caps[k].to = OPEN
Value(s, c)   == IF c.to = POSITION THEN <<"pos", c.from + 1>> ELSE <<"str", SubSeq(s, c.from + 1, c.to)>>

\* Values of the captures of a way from at, the whole match if there is none.
Values(s, at, w) == IF w.caps = <<>> THEN << <<"str", SubSeq(s, at + 1, w.e)>> >>
                    ELSE [k \in DOMAIN w.caps |-> Value(s, w.caps[k])]

\* The matches from a place on, none empty at the end of the one before, up to
\* a number of them: [at, w], the last one BAD if the pattern makes no sense.
RECURSIVE Matches(_, _, _, _, _, _)
Matches(its, s, at, last, once, most) ==
    LET ways  == Ways(its, s, [e |-> at, caps |-> <<>>])
        found == ways # <<>> /\ (ways[1] = BAD \/ ways[1].e # last)
        here  == IF found THEN << [at |-> at, w |-> ways[1]] >> ELSE <<>>
    IN  IF at > Len(s) \/ most = 0 THEN <<>>
        ELSE IF once \/ (found /\ ways[1] = BAD) THEN here
        ELSE here \o Matches(its, s, IF found THEN ways[1].e ELSE at + 1, IF found THEN ways[1].e ELSE last, once,
                             IF found THEN most - 1 ELSE most)

-----------------------------------------------------------------------------
(* What the calls give: [bad, out, n].                                      *)

Gives(out, k) == [bad |-> FALSE, out |-> out, n |-> k]
ERR == [bad |-> TRUE, out |-> <<>>, n |-> 0]

Anchor(c)  == c.fn # "gmatch" /\ c.p # <<>> /\ c.p[1] = "^"
ItemsOf(c) == Items(IF Anchor(c) THEN Tail(c.p) ELSE c.p)
StartOf(c) == IF c.init > 0 THEN c.init - 1 ELSE IF c.init = 0 THEN 0 ELSE Max({0, Len(c.s) + c.init})
NilAlone   == << <<"nil">> >>

Wrong(w) == w = BAD \/ Unfinished(w)

Literally(c) ==
    LET starts == {j \in StartOf(c)..(Len(c.s) - Len(c.p)) : SubSeq(c.s, j + 1, j + Len(c.p)) = c.p}
    IN  IF starts = {} THEN NilAlone ELSE << <<"pos", Min(starts) + 1>>, <<"pos", Min(starts) + Len(c.p)>> >>

\* The matches that a call looks at.
MatchesOf(c) ==
    LET most == CASE c.fn \in {"find", "match"} -> 1
                  [] c.fn = "gmatch"            -> Len(c.s) + 1
                  [] c.fn = "gsub"              -> Max({0, c.max})
    IN  Matches(ItemsOf(c), c.s, StartOf(c), -1, Anchor(c), most)

Found(c, found) ==
    LET m     == found[1]
        vals  == Values(c.s, m.at, m.w)
        none  == m.w.caps = <<>>
    IN  IF found = <<>> THEN Gives(NilAlone, 0)
        ELSE IF Wrong(m.w) THEN ERR
        ELSE Gives(IF c.fn = "match" THEN vals
                   ELSE << <<"pos", m.at + 1>>, <<"pos", m.w.e>> >> \o (IF none THEN <<>> ELSE vals), 0)

Iterated(c, found) ==
    LET good  == SelectSeq(found, LAMBDA m : ~Wrong(m.w))
    IN  [bad |-> good # found, out |-> [k \in DOMAIN good |-> Values(c.s, good[k].at, good[k].w)], n |-> 0]

Spelled(v) == IF v[1] = "pos" THEN <<ToString(v[2])>> ELSE v[2]

\* A replacement string: characters, "%%", and "%" with a digit for a capture;
\* a "%" at a place is one that begins such a pair if no pair reaches it.
Pairs(news) == {k \in DOMAIN news : news[k] = "%" /\
                   Cardinality({j \in 1..(k - 1) : \A m \in j..(k - 1) : news[m] = "%"}) % 2 = 0}
Expanded(news, k, whole, vals, w) ==
    LET d == Order(news[k]) - Order("0")
    IN  IF k \in Pairs(news) THEN IF k = Len(news) THEN BadRest ELSE <<>>
        ELSE IF k - 1 \notin Pairs(news) \/ news[k] = "%" THEN <<news[k]>>
        ELSE IF news[k] \notin {"0", "1", "2"} THEN BadRest
        ELSE IF d = 0 THEN whole
        ELSE IF d > Len(vals) \/ (d \in DOMAIN w.caps /\ w.caps[d].to = OPEN) THEN BadRest
        ELSE Spelled(vals[d])
Expand(news, whole, vals, w) == FlattenSeq([k \in DOMAIN news |-> Expanded(news, k, whole, vals, w)])

\* What a match is replaced by: a value, <<"nil">> to keep it, or <<"bad">>.
Replacement(c, m) ==
    LET vals  == Values(c.s, m.at, m.w)
        news  == Expand(c.repl.str, SubSeq(c.s, m.at + 1, m.w.e), vals, m.w)
        open1 == m.w.caps # <<>> /\ m.w.caps[1].to = OPEN
        v     == CASE c.repl.kind = "string" -> IF "bad" \in ToSet(news) THEN <<"bad">> ELSE <<"str", news>>
                   [] c.repl.kind = "table" ->
                         IF open1 THEN <<"bad">> ELSE IF vals[1] \in DOMAIN c.repl.table THEN c.repl.table[vals[1]]
                         ELSE <<"nil">>
                   [] OTHER -> IF Unfinished(m.w) THEN <<"bad">> ELSE c.repl.function[Len(vals)]
    IN  IF m.w = BAD \/ v = <<"table">> THEN <<"bad">> ELSE v

Substituted(c, found) ==
    LET R(k)  == Replacement(c, found[k])
        End(k) == IF k = 0 THEN 0 ELSE found[k].w.e
        New(k) == IF R(k) = <<"nil">> THEN SubSeq(c.s, found[k].at + 1, found[k].w.e) ELSE Spelled(R(k))
        Piece(k) == SubSeq(c.s, End(k - 1) + 1, found[k].at) \o New(k)
    IN  IF \E k \in DOMAIN found : R(k) = <<"bad">> THEN ERR
        ELSE Gives(FlattenSeq([k \in DOMAIN found |-> Piece(k)]) \o SubSeq(c.s, End(Len(found)) + 1, Len(c.s)),
                   Len(found))

Expected(c, found, plain) ==
    CASE c.fn \in {"find", "match"} /\ StartOf(c) > Len(c.s) -> Gives(NilAlone, 0)
      [] plain             -> Gives(Literally(c), 0)
      [] c.fn \in {"find", "match"} /\ StartOf(c) <= Len(c.s) /\ ~plain -> Found(c, found)
      [] c.fn = "gmatch"   -> Iterated(c, found)
      [] c.fn = "gsub"     -> Substituted(c, found)

\* How deep the matching of a pattern may have to go.
Depth(c) == 1 + Len(SelectSeq(ItemsOf(c), LAMBDA it : it.kind \notin {"set", "end", "balance", "frontier", "back", "bad"}))
=============================================================================
