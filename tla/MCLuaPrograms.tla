----------------------------- MODULE MCLuaPrograms -----------------------------
(***************************************************************************)
(* Bounded programs for LuaVM.  Every family puts one construction in the  *)
(* contexts that the code generator tells apart.  MCCode and MCMeaning are *)
(* what the compiler and the language make of a program.                   *)
(***************************************************************************)
EXTENDS LuaVM, LuaParser

Syn == INSTANCE LuaSyntax
M   == INSTANCE LuaMeaning

CONSTANT Fuel           \* calls, iterations and gotos that a program may take

N(x)         == <<"name", x>>
I(n)         == <<"int", n>>
Fl(n)        == <<"flt", n>>
S(s)         == <<"str", s>>
Call(g, es)  == <<"call", g, es>>
F(es)        == Call(N("f"), es)
Do(e)        == <<"do call", e>>
Say(es)      == Do(F(es))
Bin(op, a, b) == <<"bin", op, a, b>>
Un(op, a)    == <<"un", op, a>>
Local(xs, es) == <<"local", "", [n \in DOMAIN xs |-> <<xs[n], "">>], es>>
Attr(x, attr, e) == <<"local", "", << <<x, attr>> >>, <<e>> >>
Assign(ts, es) == <<"assign", ts, es>>
Fn(ps, b)    == <<"function", ps, "", b>>
Dots(ps, va, b) == <<"function", ps, va, b>>
Ret(es)      == <<"return", es>>
If(c, a, b)  == <<"if", << <<c, a>> >>, b>>
While(c, b)  == <<"while", c, b>>
Repeat(b, c) == <<"repeat", b, c>>
For(x, es, b) == <<"fornum", x, es, b>>
ForIn(xs, es, b) == <<"forin", xs, es, b>>
Block(b)     == <<"do", b>>
Goto(x)      == <<"goto", x>>
Label(x)     == <<"label", x>>
Break        == <<"break">>
Field(e, x)  == <<"field", e, x>>
Index(e, k)  == <<"index", e, k>>
LocalFn(x, g) == <<"localfunction", x, g>>

MCGlobals == (String("f") :> <<"ext", "f">>) @@ (String("iter") :> <<"ext", "iter">>) @@
             (String("o") :> <<"obj", 1>>) @@ (String("o2") :> <<"obj", 2>>)

-----------------------------------------------------------------------------
(* and, or, not and comparisons as values, arguments and conditions.       *)

Vars   == << Local(<<"a", "n">>, <<I(3)>>) >>
Leaves == {N("a"), N("n"), <<"true">>, I(2), Bin("<", N("a"), I(2))}
Simple == Leaves \union {<<"nil">>, Un("not", N("n")), Bin("==", N("a"), N("n")), Bin(">=", I(3), N("a")), F(<<N("a")>>)}
Logic  == {"and", "or"}
Pairs  == {Bin(op, x, y) : op \in Logic, x \in Simple, y \in Simple}
Deep   == {Bin(op1, x, Bin(op2, y, z)) : op1 \in Logic, op2 \in Logic, x \in Leaves, y \in Leaves, z \in Leaves} \union
          {Bin(op1, Bin(op2, x, y), z) : op1 \in Logic, op2 \in Logic, x \in Leaves, y \in Leaves, z \in Leaves}

Contexts(e) ==
    { << Local(<<"x">>, <<e>>), Say(<<N("x"), N("a")>>) >>,
      << Say(<<Un("not", e), I(1)>>) >>,
      << Assign(<<N("a")>>, <<e>>), Ret(<<N("a")>>) >>,
      << While(Un("not", e), <<Say(<<I(1)>>), Break>>), Say(<<I(2)>>) >>,
      << Repeat(<<If(N("z"), <<Break>>, <<>>), Assign(<<N("z")>>, <<I(1)>>), Local(<<"n">>, <<N("a")>>), Assign(<<N("a")>>, <<I(1)>>)>>, e), Ret(<<Bin("==", e, I(2))>>) >> }

LogicPrograms ==
    {Vars \o c : c \in UNION {Contexts(e) : e \in Pairs}} \union
    {Vars \o << If(e, <<Say(<<e>>)>>, <<Ret(<<e, I(2)>>)>>) >> : e \in Deep}

-----------------------------------------------------------------------------
(* Operators with numbers inside and outside of the operands, objects at   *)
(* both sides, and constants that are variables.                           *)

OpVars  == << Local(<<"a", "p", "n">>, <<I(3), N("o")>>), Attr("k", "const", I(2)) >>
Numbers == {N("a"), N("p"), N("k"), I(0), I(5), Fl(2)}
ArithOps == {"+", "-", "*", "%", "//", "&", "|", "~", "<<", ">>"}
Orders  == {"<", ">", "<=", ">=", "==", "~="}
Operations ==
    {Bin(op, x, y) : op \in ArithOps \union Orders, x \in Numbers, y \in Numbers} \union
    {Bin(op, x, y) : op \in {"==", "~="}, x \in {N("n"), S("x"), <<"nil">>, N("o2")}, y \in {N("n"), S("x"), <<"nil">>, N("p")}} \union
    {Un(op, x) : op \in {"-", "~", "#", "not"}, x \in Numbers \union {N("n"), <<"nil">>, I(15), Un("-", I(15)), <<"table", <<<<"item", N("a")>>>> >>}} \union
    {Bin(op, x, Bin(op2, N("a"), y)) : op \in {"+", "-", "<<"}, op2 \in {"+", "-", "*"}, x \in {N("a"), I(4), N("p")}, y \in {I(15), N("p"), N("k")}} \union
    {Bin("+", x, y) : x \in {N("n"), N("a"), I(1)}, y \in {N("n"), I(1), <<"nil">>}} \union
    {Bin("<", x, y) : x \in {N("n"), N("a")}, y \in {N("n"), I(1)}}
Joins == {Bin("..", x, Bin("..", y, z)) : x \in {N("a"), S("x"), N("p")}, y \in {N("a"), N("n"), N("p")}, z \in {I(1), N("p")}} \union
         {Bin("..", Bin("..", x, N("a")), z) : x \in {N("a"), S("x"), N("p")}, z \in {I(1), N("p"), N("n")}} \union
         {Bin("..", S("x"), Bin("and", Bin("..", N("a"), S("y")), S("z")))} \union
         {Bin("..", S("x"), Bin(op, c, Bin("..", N("a"), S("y")))) : op \in Logic, c \in {N("a"), N("n")}}

OperatorPrograms ==
    {OpVars \o << Local(<<"x">>, <<e>>), Say(<<I(1), e>>), Ret(<<N("x")>>) >> : e \in Operations \union Joins} \union
    {OpVars \o << Say(<<S("s"), S("t")>>), Ret(<<Bin(op, x, N("p"))>>) >> : op \in ArithOps, x \in {I(5), Fl(2)}} \union
    {OpVars \o << If(e, <<Say(<<N("a")>>)>>, <<>>) >> : e \in {x \in Operations : x[2] \in Orders}} \union
    {OpVars \o << Ret(<<Call(Fn(<<>>, <<Assign(<<N("a")>>, <<e>>), Ret(<<N("a"), N("p")>>)>>), <<>>)>>) >> :
        e \in {x \in Operations : x[2] \in {"+", "-", "&", "<<"}}}

-----------------------------------------------------------------------------
(* Loops with a local that closures share or not, and ways to leave them.  *)

Capture == Assign(<<N("g")>>, <<Fn(<<>>, <<Assign(<<N("x")>>, <<Bin("+", N("x"), I(1))>>), Ret(<<N("x")>>)>>)>>)
Bump   == Assign(<<N("a")>>, <<Bin("+", N("a"), I(1))>>)
Exits   == {<<>>, <<Break>>, <<Goto("next")>>, <<Goto("out")>>, <<Ret(<<N("x")>>)>>, <<Ret(<<F(<<N("x")>>)>>)>>}
When(exit) == If(Bin("==", N("a"), I(2)), exit, <<>>)

Loops(bd) ==
    { << While(Bin("<", N("a"), I(3)), <<Bump>> \o bd) >>,
      << Repeat(<<Bump, Block(bd)>>, Bin("==", N("a"), I(3))) >>,
      << Repeat(<<Bump>> \o SelectSeq(bd, LAMBDA s : s # Label("next")), Bin(">", N("x"), I(2))) >>,
      << For("i", <<I(1), I(3)>>, <<Bump>> \o bd) >>,
      << ForIn(<<"i">>, <<N("iter"), I(3), I(0), N("o")>>, <<Bump>> \o bd) >>,
      << Goto("start"), Label("start"), Bump, Block(bd), If(Bin("<", N("a"), I(3)), <<Goto("start")>>, <<>>) >> }

Bodies ==
    { <<Local(<<"x">>, <<N("a")>>)>> \o close \o b \o <<Label("next")>> :
        close \in {<<>>, <<Attr("c", "close", N("o"))>>},
        b \in {<<When(e)>> : e \in Exits} \union {<<Capture, When(e)>> : e \in Exits} \union
              {<<When(e), Capture>> : e \in Exits} \union
              {<<Block(<<Local(<<"y">>, <<N("a")>>), Assign(<<N("g")>>, <<Fn(<<>>, <<Ret(<<N("y"), N("x")>>)>>)>>), When(e)>>), Say(<<N("x")>>)>> : e \in Exits} }

Outside1 == << Label("out"), If(N("g"), <<Say(<<Call(N("g"), <<>>), Call(N("g"), <<>>)>>)>>, <<>>) >>

LoopPrograms == {<< Local(<<"a", "g">>, <<I(0)>>) >> \o l \o Outside1 : l \in UNION {Loops(b) : b \in Bodies}}

-----------------------------------------------------------------------------
(* Numeric loops at the ends of the integers, and with floats.             *)

Least  == Bin("-", Un("-", I(15)), I(1))
ForPrograms ==
    { << For("i", IF step = I(1) THEN <<from, to>> ELSE <<from, to, step>>, <<Say(<<N("i")>>)>>) >> :
        from \in {Least, I(1), I(14), Fl(1)}, to \in {Least, Un("-", I(15)), I(3), I(15), Fl(2)},
        step \in {I(1), I(7), Un("-", I(15)), Least, I(0), Fl(1), <<"nil">>} }

-----------------------------------------------------------------------------
(* Assignments whose targets use each other.                               *)

Targets1 == {N("i"), N("t"), N("z"), Index(N("t"), N("i")), Index(N("t"), I(1)), Field(N("t"), "x"), Index(N("z"), N("i")), Index(N("t"), N("z"))}
Values1  == {<<I(1), I(2)>>, <<F(<<I(1), I(2)>>)>>, <<I(1)>>, <<I(1), I(2), F(<<>>)>>, <<N("i"), N("t")>>}
Show     == Say(<<N("i"), Index(N("u"), I(1)), Index(N("u"), I(2)), Field(N("u"), "x")>>)
Tables   == << Local(<<"i", "t">>, <<I(1), <<"table", <<>> >> >>), Local(<<"u">>, <<N("t")>>), Assign(<<N("z")>>, <<N("t")>>) >>
Assigns  == {Assign(<<x, y>>, v) : x \in Targets1, y \in Targets1, v \in Values1} \union
            {Assign(<<Index(N("t"), N("i")), N("i"), N("t")>>, <<I(1), I(2), I(3)>>), Assign(<<N("i"), Index(N("t"), N("i")), N("t")>>, <<I(2), I(3)>>)}
AssignPrograms ==
    {Tables \o <<s, Show>> : s \in Assigns} \union
    {Tables \o <<Do(Call(Fn(<<>>, <<s>>), <<>>)), Show>> : s \in {x \in Assigns : Len(x[3]) = 2}}

-----------------------------------------------------------------------------
(* Declarations, and what may be done with the name afterwards.            *)

Decls == {<<"local", pre, << <<"x", at>>, <<"y", at2>> >>, es>> : pre \in {"", "const"}, at \in {"", "const", "close"}, at2 \in {"", "const", "close"},
                es \in {<<>>, <<I(1), <<"nil">> >>, <<N("o"), I(2)>>, <<F(<<N("o")>>)>>}} \union
         {<<"local", "", << <<"x", "bad">> >>, <<I(1)>> >>, <<"global", "", << <<"x", "close">> >>, <<>> >>} \union
         {<<"global", pre, << <<"x", at>> >>, es>> : pre \in {"", "const"}, at \in {"", "const"}, es \in {<<>>, <<I(1)>>}} \union
         {<<"global", "", << <<"x", "">>, <<"f", "">> >>, es>> : es \in {<<>>, <<I(1), I(2)>>, <<F(<<I(1)>>)>>}} \union
         {<<"globalall", "">>, <<"globalall", "const">>, <<"globalfunction", "x", Fn(<<>>, <<Ret(<<N("x")>>)>>)>>}
FGlobal == <<"global", "", << <<"f", "const">>, <<"o", "const">> >>, <<>> >>
Uses  == { <<Say(<<N("x")>>)>>, <<Assign(<<N("x")>>, <<I(2)>>), Ret(<<N("x")>>)>>, <<Say(<<N("w")>>)>>,
           <<Assign(<<N("w")>>, <<I(1)>>)>>,
           <<Local(<<"g">>, <<Fn(<<>>, <<Ret(<<N("x")>>)>>)>>), Ret(<<Call(N("g"), <<>>)>>)>>,
           <<Do(Call(Fn(<<>>, <<Assign(<<N("x")>>, <<I(5)>>)>>), <<>>)), Ret(<<Bin("==", N("x"), I(5))>>)>>,
           <<Block(<<Local(<<"x">>, <<I(4)>>), Assign(<<N("x")>>, <<I(3)>>)>>), <<"defun", N("x"), "", Fn(<<>>, <<>>)>> >> }
DeclPrograms ==
    {<<d>> \o u : d \in Decls, u \in Uses} \union
    {<<FGlobal, d>> \o u : d \in {d \in Decls : d[1] # "local"}, u \in Uses} \union
    {<<d, d, Ret(<<N("x")>>)>> : d \in {d \in Decls : d[1] # "local"}}

-----------------------------------------------------------------------------
(* Parameters, variable arguments and calls.                               *)

VarUses(x) ==
    { <<Ret(<<N("p"), <<"...">> >>)>>, <<Say(<< <<"...">>, I(1)>>)>>, <<Ret(<<F(<<<<"...">>>>)>>)>>,
      <<Local(<<"x", "y">>, <<<<"...">>>>), Ret(<<N("y"), N("x")>>)>>,
      <<Ret(<<Index(<<"table", << <<"item", I(1)>>, <<"item", <<"...">> >> >> >>, I(3))>>)>>,
      <<Ret(<<Un("#", <<"table", << <<"item", <<"...">> >>, <<"item", <<"...">> >> >> >>)>>)>>,
      <<Ret(<<Fn(<<>>, <<Ret(<< <<"...">> >>)>>)>>)>> } \union
    IF x = "t"
    THEN { <<Ret(<<Field(N("t"), "n"), Index(N("t"), N("p"))>>)>>, <<Ret(<<Index(N("t"), I(2)), N("p")>>)>>,
           <<Assign(<<Index(N("t"), I(1))>>, <<I(9)>>), Ret(<<<<"...">>>>)>>,
           <<Assign(<<Field(N("t"), "n")>>, <<<<"nil">>>>), Ret(<<<<"...">>>>)>>, <<Assign(<<N("t")>>, <<I(1)>>)>>,
           <<Local(<<"g">>, <<Fn(<<>>, <<Ret(<<Index(N("t"), I(1))>>)>>)>>), Ret(<<Call(N("g"), <<>>), <<"...">> >>)>>,
           <<Ret(<<F(<<N("t")>>), <<"...">> >>)>>, <<Say(<<Un("#", N("t"))>>), Ret(<<Field(N("t"), "q")>>)>>,
           <<Local(<<"u">>, <<N("t")>>), Ret(<<Index(N("u"), I(1)), Call(N("f"), <<Index(N("t"), I(1))>>)>>)>> } ELSE {}
Args  == {<<>>, <<I(1)>>, <<I(2), I(6)>>, <<I(1), I(4), I(6)>>, <<F(<<I(1), I(2)>>)>>, <<F(<<I(2), I(3)>>), I(5)>>}
Ways(args) == { Ret(<<Call(N("g"), args)>>), Say(<<Call(N("g"), args)>>), Say(<<Call(N("g"), args), I(8)>>),
                Ret(<< <<"paren", Call(N("g"), args)>> >>) }
Functions == UNION {{<<"function", ps, va, b>> : b \in VarUses(va)} : ps \in {<<"p">>}, va \in {"...", "t"}} \union
             {<<"function", ps, va, <<Ret(<<N("p"), N("q")>>)>> >> : ps \in {<<>>, <<"p">>, <<"p", "q">>, <<"p", "p">>}, va \in {"", "...", "t"}} \union
             {<<"function", <<"p">>, va, <<If(Bin("==", N("p"), I(0)), <<Ret(<<I(9)>>)>>, <<>>), r>> >> :
                va \in {"", "..."}, r \in {Ret(<<Call(N("g"), <<Bin("-", N("p"), I(1)), N("p")>>)>>), Ret(<<N("p"), Call(N("g"), <<Bin("-", N("p"), I(1))>>)>>)}}
CallPrograms ==
    UNION {{ <<LocalFn("g", g), w>> : w \in Ways(args)} : g \in Functions, args \in Args} \union
    { <<Attr("c", "close", N("o")), Ret(<<Call(v, <<I(1)>>)>>)>> : v \in {N("f"), N("o"), N("z"), I(1)}} \union
    { <<Ret(<<Call(v, <<I(1)>>)>>)>> : v \in {N("f"), N("o"), N("z"), <<"paren", I(1)>>}} \union
    { <<Say(<<Call(v, <<I(1)>>), I(1)>>)>> : v \in {N("f"), N("o"), N("z"), Field(N("o"), "x")}} \union
    { <<Local(<<"v">>, <<v>>), Block(<<Do(<<"method", N("v"), "m", <<I(1), <<"...">> >> >>)>>), Ret(<< <<"method", N("v"), "m", <<>> >> >>)>> :
        v \in {N("o"), I(1), <<"table", << <<"named", "m", N("f")>> >> >>, <<"table", <<>> >>}} \union
    { <<Local(<<"v">>, << <<"table", <<>> >> >>), <<"defun", Field(N("v"), "b"), "", Dots(ps, va, <<Ret(<<N("p"), N("self")>>)>>)>>,
        <<"defun", N("v"), "m", Dots(ps, va, <<Ret(<<Bin("==", N("self"), N("v")), N("p")>>)>>)>>,
        Say(<<Call(Field(N("v"), "b"), <<I(1)>>), <<"method", N("v"), "m", <<I(2)>> >> >>)>> :
        ps \in {<<"p">>, <<>>}, va \in {"", "...", "t"}}

-----------------------------------------------------------------------------
(* Constructors, with more items than fit an operand, and long functions.  *)

ItemKinds == { <<"item", I(1)>>, <<"item", F(<<I(2), I(3)>>)>>, <<"named", "x", N("a")>>, <<"keyed", N("a"), I(4)>>,
               <<"keyed", N("n"), I(4)>>, <<"item", Bin("and", N("a"), N("n"))>>, <<"item", <<"table", << <<"item", I(2)>> >> >> >> }
Many(n) == [j \in 1..n |-> <<"item", IF j % 2 = 0 THEN I(j % 8) ELSE N("a")>>]
ShowTable == Ret(<<Un("#", N("v")), Index(N("v"), I(1)), Index(N("v"), I(3)), Index(N("v"), I(11)), Field(N("v"), "x")>>)
ConstructorPrograms ==
    { Vars \o <<Local(<<"v">>, << <<"table", s>> >>), ShowTable>> :
        s \in {<<>>} \union {<<x>> : x \in ItemKinds} \union {<<x, y>> : x \in ItemKinds, y \in ItemKinds} \union
              {<<x, y, z>> : x \in ItemKinds, y \in ItemKinds, z \in ItemKinds} \union
              {Many(n) \o x : n \in {4, 9, 10, 11}, x \in {<<>>, << <<"item", <<"...">> >> >>, << <<"item", F(<<I(2), I(3)>>)>> >>, << <<"named", "x", I(1)>> >> }} } \union
    { Vars \o <<Local(<<"b", "c", "d">>, <<>>), Local(<<"v">>, << <<"table", Many(n)>> >>), ShowTable>> : n \in {2, 5}} \union
    { [j \in 1..33 |-> Say(<<S(ToString(j))>>)] \o
      << Local(<<"v">>, <<N("o")>>), Assign(<<Field(N("v"), "far")>>, <<S("late")>>), Ret(<<Field(N("v"), "far2"), <<"method", N("v"), "m", <<>> >> >>) >> } \union
    { << Local(<<"_ENV", "g">>, <<v, N("f")>>), Assign(<<N("x")>>, <<I(1)>>), Do(Call(N("g"), <<N("x"), N("f")>>)),
         Do(Call(Fn(<<>>, <<Assign(<<N("x")>>, <<I(2)>>), Ret(<<N("x")>>)>>), <<>>)) >> :
        v \in {<<"table", <<>> >>, N("o"), <<"nil">>} }

-----------------------------------------------------------------------------
(* Blocks with labels and gotos, legal or not.                             *)

Back   == If(Bin("<", N("a"), I(2)), <<Bump, Goto("l")>>, <<>>)
Pieces1 == { Goto("l"), Label("l"), Local(<<"x">>, <<N("a")>>), Back, Block(<<Goto("l")>>), Attr("c", "close", N("o")),
             Assign(<<N("g")>>, <<Fn(<<>>, <<Ret(<<N("x")>>)>>)>>), Block(<<Label("l"), Back>>), While(Bin("<", N("a"), I(2)), <<Bump, Goto("l")>>) }
\* Nothing goes back without counting.
Forward(s) == \A j, n \in DOMAIN s :
                s[j] \in {Goto("l"), Block(<<Goto("l")>>)} /\ s[n] = Label("l") => j < n
GotoPrograms ==
    LET Start  == << Local(<<"a", "g">>, <<I(0)>>) >>
        Triples == {s \in Pieces1 \X Pieces1 \X Pieces1 : Forward(s)}
    IN  {Start \o s \o << Say(<<N("a"), N("x")>>) >> : s \in Triples} \union
        {Start \o << Block(s) >> : s \in Triples} \union
        {Start \o << Repeat(s, Bin("==", N("x"), N("x"))) >> : s \in {s \in Pieces1 \X Pieces1 : Forward(s)}} \union
        {<< Local(<<"a">>, <<I(0)>>), Local(<<"g">>, <<>>), Label("l"), Local(<<"x">>, <<>>), Say(<<N("g"), N("x")>>),
            Assign(<<N("g"), N("x")>>, <<I(1), I(1)>>), Back >>,
          << Break >>, << Block(<<Break>>) >>}

-----------------------------------------------------------------------------
(* Generic loops over functions, objects and what is neither.              *)

Next1 == Fn(<<"s", "k">>, <<If(Bin("<", N("k"), N("s")), <<Ret(<<Bin("+", N("k"), I(1)), N("s")>>)>>, <<>>)>>)
Iterators == {N("iter"), Next1, N("z"), Dots(<<>>, "...", <<Ret(<< <<"nil">>, <<"...">> >>)>>), Fn(<<"p", "q", "r">>, <<>>)}
GenericFor(it, xs, rest, last) ==
    << ForIn(xs, <<it>> \o rest, <<Say([n \in DOMAIN xs |-> N(xs[n])])>> \o last), Say(<<>>) >>
Lists    == {<<"k">>, <<"k", "v">>, <<"k", "v", "w">>}
Initials == {<<>>, <<I(2), I(0)>>, <<I(2), I(0), N("o")>>, <<I(2), I(0), I(3)>>, <<I(2), I(0), <<"nil">>, F(<<>>)>>}
ForInPrograms == {GenericFor(it, xs, rest, <<>>) : it \in Iterators, xs \in Lists, rest \in Initials} \union
                 {GenericFor(it, xs, rest, <<Break>>) : it \in Iterators \union {N("o")}, xs \in Lists, rest \in Initials}

MCPrograms == LogicPrograms \union OperatorPrograms \union LoopPrograms \union ForPrograms \union AssignPrograms
              \union DeclPrograms \union CallPrograms \union ConstructorPrograms \union GotoPrograms \union ForInPrograms

MCCode(b) ==
    LET Compile(x) == mainfunc(Syn!Unparse(x))
        c == Compile(b)
    IN  [protos |-> c.protos, err |-> c.err]
MCMeaning(b) ==
    LET Means(x) == M!Meaning(x, MCGlobals, Fuel)
    IN  IF M!IsLegal(b) THEN [legal |-> TRUE] @@ Means(b) ELSE [legal |-> FALSE]
=============================================================================
