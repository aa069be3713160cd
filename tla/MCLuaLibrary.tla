------------------------------ MODULE MCLuaLibrary -----------------------------
(***************************************************************************)
(* Calls of the standard library, functions whose line information is      *)
(* written, and tables: a behaviour is one call, one function or one table *)
(* of one of the five modules, and the others have nothing to do.          *)
(***************************************************************************)
EXTENDS LuaPatterns, LuaSort, LuaLines, LuaRanges, LuaTable, TLC

VARIABLE
    meant       \* the matches that the call of find, match, gmatch or gsub should see

allvars == <<patternvars, sortvars, linevars, rangevars, tablevars, meant>>

-----------------------------------------------------------------------------
(* Patterns: all made of a few pieces, on a few subjects.                  *)

AllClasses == [x \in DOMAIN Class \union DOMAIN tolower |->
                  IF x \in DOMAIN Class THEN Class[x] ELSE ToSet(Ascii) \ Class[tolower[x]]]

Manual == INSTANCE LuaPatternMeaning WITH
              Alphabet <- Ascii, ClassOf <- AllClasses, MaxCaptures <- LUA_MAXCAPTURES

MCMatch(st, s, q)   == match(st, s, q)

Joined(P, k) == UNION {{FlattenSeq(f) : f \in [1..m -> P]} : m \in 0..k}

Pieces == {<<"a">>, <<"b", "?">>, <<"a", "*">>, <<".", "-">>, <<".", "+">>, <<"(">>, <<")">>, <<"(", ")">>,
           <<"%", "1">>, <<"$">>, <<"[", "^", "a", "]">>, <<"%", "b", "a", "b">>,
           <<"%", "f", "[", "%", "w", "]">>, <<"^">>, <<"%">>}
Captures  == {<<"a">>, <<"a", "*">>, <<".", "-">>, <<"a", "?">>, <<"(">>, <<")">>, <<"%", "1">>}
SetPieces == {<<"[", "a", "-", "b", "]">>, <<"[", "]", "-", "b", "]">>, <<"[", "%", "u", "-", "]">>, <<"%", "A">>,
              <<"[">>, <<"B", "-">>, <<"[", "^", "%", "d", "]", "*">>, <<"%", "f", "[", "%", "w", "]">>, <<"]">>}
Subjects  == {<<>>, <<"a">>, <<"a", "b">>, <<"a", "a", "b">>, <<"b", "a", "b", "a">>}

Keep       == [kind |-> "string", str |-> <<>>, table |-> <<>>, function |-> <<>>]
String(s)  == [Keep EXCEPT !.str = s]
Replacings ==
    {String(<<"%", "1", "b">>), String(<<"%", "2">>), String(<<"%", "%", "%", "0">>), String(<<"%">>),
     String(<<"%", "a">>),
     [Keep EXCEPT !.kind = "table",
        !.table = << "str", <<"a">> >> :> << "str", <<"b", "b">> >> @@ << "str", <<>> >> :> <<"nil">>
               @@ <<"pos", 2>> :> <<"pos", 1>> @@ << "str", <<"b", "a">> >> :> <<"table">>],
     [Keep EXCEPT !.kind = "function", !.function = << << "str", <<"c">> >>, <<"nil">> >>]}

Call(fn, s, pattern, init, plain, repl, max) ==
    [fn |-> fn, s |-> s, p |-> pattern, init |-> init, plain |-> plain, repl |-> repl, max |-> max]

MCPatternCalls == <<
    {Call("match", s, q, 1, FALSE, Keep, 0) : s \in Subjects, q \in Joined(Pieces, 3)},
    {Call("match", s, q, 1, FALSE, Keep, 0) : s \in {<<"a", "a", "b">>}, q \in Joined(Captures, 4)},
    {Call("match", s, q, 1, FALSE, Keep, 0) : s \in {<<"B", "1", "-">>, <<"a", "]", "B", "b">>}, q \in Joined(SetPieces, 3)},
    {Call("find", s, q, k, b, Keep, 0) : s \in Subjects, q \in Joined(Pieces, 2), k \in {-2, 0, 1, 2, 5}, b \in BOOLEAN},
    {Call("gmatch", s, q, k, FALSE, Keep, 0) : s \in Subjects, q \in Joined(Pieces, 2), k \in {1, -1, 6}},
    {Call("gsub", s, q, 1, FALSE, r, k) : s \in Subjects, q \in Joined(Pieces, 2), r \in Replacings, k \in {0, 1, 5}} >>

\* find, match, gmatch and gsub give the first match in the order of the
\* manual: the leftmost start, the items as long or as short as they can be,
\* whatever was tried and given up before, with its captures, and fail on the
\* patterns that have no meaning; only a deep one may be called too complex.
FindsFirstMatch ==
    status \notin {"calling", "idle"} =>
        LET plain == call.fn = "find" /\ (call.plain \/ nospecials(call.p))
            want  == Manual!Expected(call, meant, plain)
        IN  IF status = "too complex" THEN Manual!Depth(call) > MAXCCALLS
            ELSE /\ (status = "done") = ~want.bad
                 /\ status = "done" \/ call.fn = "gmatch" => out = want.out /\ n = want.n

-----------------------------------------------------------------------------
(* Sorting: all small arrays, and order functions that are none.           *)

Upto(k)    == [m \in 1..k |-> m]
MCSortCalls == <<
    {[a |-> s, order |-> "<"] : s \in UNION {[1..k -> 1..3] : k \in 0..6}},
    {[a |-> s, order |-> "<"] : s \in [1..9 -> 1..2]},
    {[a |-> Upto(5), order |-> "any"], [a |-> Upto(6), order |-> "any"]} >>

-----------------------------------------------------------------------------
(* Ranges: all positions, at the ends of the integers too.                 *)

Window(w) == [k \in Ints |-> IF k \in w THEN k ELSE nil]
R(fn, w, len, x, y, z, to) == [fn |-> fn, t |-> Window(w), len |-> len, x |-> x, y |-> y, z |-> z, to |-> to]
Simple(fn, w, len, x, y) == R(fn, w, len, x, y, 0, "none")
Opt == Ints \union {nil}

MCRangeCalls == <<
    {Simple("insert", w, 3, x, 100) : w \in {1..3, 1..5}, x \in Opt},
    {Simple("insert", 1..len, len, x, 100) : len \in {MAX - 1, MAX}, x \in Opt},
    {Simple("remove", w, 3, x, 0) : w \in {1..3, 1..5}, x \in Opt},
    {Simple("remove", 1..len, len, x, 0) : len \in {MAX - 1, MAX}, x \in Opt},
    {Simple("remove", {0}, 0, x, 0) : x \in Opt},
    {R("move", Ints, MAX, x, y, z, to) : x \in Ints, y \in Ints, z \in Ints, to \in {"none", "same", "other"}},
    {Simple(fn, Ints, MAX, x, y) : fn \in {"concat", "unpack"}, x \in Ints, y \in Opt},
    {Simple(fn, 1..3, 3, x, nil) : fn \in {"concat", "unpack"}, x \in Ints},
    {Simple(fn, {}, l, x, y) : fn \in {"sub", "byte"}, l \in {0, 3, MAX}, x \in Ints, y \in Opt},
    {Simple("rep", {}, l, x, y) : l \in 0..MAX, x \in Ints, y \in 0..3} >>

-----------------------------------------------------------------------------
(* Tables: a handful of keys.                                              *)

\* With 1 and 5 in an array of five, 9 makes it an array of one.
Shrinking == {<<"int", 1>>, <<"int", 5>>, <<"int", 9>>}

MCInts == {<<"int", k>> : k \in (1..7) \union {31}}
MCHash == (<<"str", "a">> :> 5) @@ (<<"str", "b">> :> 1) @@ (<<"obj", "o">> :> 3)
MCKeys == MCInts \union DOMAIN MCHash \union Shrinking

Program(keys, vals, seeds, sizes, weak, loops, fails) ==
    [keys |-> keys, vals |-> vals, seeds |-> seeds, sizes |-> sizes,
     weak |-> weak, loops |-> loops, fails |-> fails]

\* Colliding keys of every kind, with loops and failing memory; arrays with
\* holes up to the largest integer; weak values; arrays that shrink while
\* memory fails, of a weak table too.
MCPrograms ==
    {Program({<<"int", 1>>, <<"int", 2>>} \union DOMAIN MCHash, {"v"}, {0}, {0, 1}, FALSE, TRUE, TRUE),
     Program(MCInts, {"v"}, {0, 5, 10, 15}, {0, 7}, FALSE, FALSE, FALSE),
     Program({<<"int", 1>>, <<"str", "a">>, <<"obj", "o">>}, {"v", "w"}, {0}, {0, 1}, TRUE, TRUE, FALSE),
     Program(Shrinking \union {<<"str", "a">>}, {"v", "w"}, {0}, {0, 5}, FALSE, TRUE, TRUE),
     Program(Shrinking, {"v", "w"}, {0}, {0, 5}, TRUE, FALSE, TRUE)}

-----------------------------------------------------------------------------
MCMaxCode == 0 :> 7 @@ 1 :> 7 @@ 2 :> 10 @@ 3 :> 10

Init ==
    /\ \/ PatternInit /\ NoSort /\ NoLines /\ NoRange /\ NoTable
       \/ NoPattern /\ sort /\ NoLines /\ NoRange /\ NoTable
       \/ NoPattern /\ NoSort /\ open_func /\ NoRange /\ NoTable
       \/ NoPattern /\ NoSort /\ NoLines /\ RangeInit /\ NoTable
       \/ NoPattern /\ NoSort /\ NoLines /\ NoRange /\ TableInit
    /\ meant = IF status = "calling" THEN Manual!MatchesOf(call) ELSE <<>>

Idle == status = "idle" /\ at = "idle" /\ said = "idle" /\ NoLines

Next ==
    /\ \/ PatternNext /\ UNCHANGED <<sortvars, linevars, rangevars, tablevars>>
       \/ SortNext /\ UNCHANGED <<patternvars, linevars, rangevars, tablevars>>
       \/ LinesNext /\ UNCHANGED <<patternvars, sortvars, rangevars, tablevars>>
       \/ RangeNext /\ UNCHANGED <<patternvars, sortvars, linevars, tablevars>>
       \/ Idle /\ TableNext /\ UNCHANGED <<patternvars, sortvars, linevars, rangevars>>
    /\ UNCHANGED meant

\* sort goes on when the order function has answered.
Spec == Init /\ [][Next]_allvars /\ WF_sortvars(SortNext)
=============================================================================
