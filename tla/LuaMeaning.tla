----------------------------- MODULE LuaMeaning -----------------------------
(***************************************************************************)
(* What a program (LuaSyntax) means, without registers, jumps or upvalues: *)
(* names stand for locations of a memory, blocks and functions extend the  *)
(* environment, and the outcome of a statement is "next", "break", "goto"  *)
(* or "return".  The state s is [mem, tabs, funs, tbc, log, err, fuel]:    *)
(* memory, tables, functions, the values to be closed and what the program *)
(* did so far.  An environment is [at, strict, all]: names with location   *)
(* and kind, whether globals are declared, and the kind that a declaration *)
(* of all globals gives them.                                              *)
(***************************************************************************)
LOCAL INSTANCE Integers
LOCAL INSTANCE Sequences
LOCAL INSTANCE SequencesExt
LOCAL INSTANCE FiniteSets
LOCAL INSTANCE FiniteSetsExt
LOCAL INSTANCE TLC

CONSTANT IntBits

LOCAL INSTANCE LuaValues

Operator == ("+" :> "ADD") @@ ("-" :> "SUB") @@ ("*" :> "MUL") @@ ("%" :> "MOD") @@
            ("//" :> "IDIV") @@ ("&" :> "BAND") @@ ("|" :> "BOR") @@ ("~" :> "BXOR") @@
            ("<<" :> "SHL") @@ (">>" :> "SHR")
Unary    == ("-" :> "UNM") @@ ("~" :> "BNOT")

V(v, s)   == [v |-> v, s |-> s]
Err(s)    == [s EXCEPT !.err = TRUE]
Log(s, e) == IF s.err THEN s ELSE [s EXCEPT !.log = Append(@, e)]
Burn(s)   == IF s.fuel = 0 THEN Err(s) ELSE [s EXCEPT !.fuel = @ - 1]

-----------------------------------------------------------------------------
(* Operations on values: [v, s].                                           *)

Get(t, k, s) ==
    CASE t[1] = "table" -> V(IF Key(k) \in DOMAIN s.tabs[t[2]] THEN s.tabs[t[2]][Key(k)] ELSE Nil, s)
      [] t[1] = "obj"   -> V(<<"ext", "f">>, Log(s, <<"INDEX", <<t, k>> >>))
      [] OTHER          -> V(Nil, Err(s))

Put(t, k, v, s) ==
    CASE t[1] = "table" /\ k # Nil -> [s EXCEPT !.tabs[t[2]] = (Key(k) :> v) @@ @]
      [] t[1] = "obj"              -> Log(s, <<"NEWINDEX", <<t, k, v>> >>)
      [] OTHER                     -> Err(s)

Meta(op, a, b, s) == IF HasTM(a, b) THEN V(Integer(1), Log(s, <<op, <<a, b>> >>)) ELSE V(Nil, Err(s))

Order(op, a, b, s) ==
    IF Number(a) /\ Number(b) THEN V(Bool(LessThan(op, a, b)), s)
    ELSE LET m == Meta(op, a, b, s) IN V(True, m.s)

Equal(a, b, s) ==
    IF a[1] = "obj" /\ b[1] = "obj" /\ a # b THEN V(True, Log(s, <<"EQ", <<a, b>> >>))
    ELSE V(Bool(luaV_rawequalobj(a, b)), s)

Texts == {"str", "int", "flt"}

Binary(op, a, b, s) ==
    CASE op \in DOMAIN Operator ->
            IF Number(a) /\ Number(b)
            THEN IF Divides(Operator[op], a, b) THEN V(Nil, Err(s)) ELSE V(luaO_rawarith(Operator[op], a, b), s)
            ELSE Meta(Operator[op], a, b, s)
      [] op = ".." -> IF a[1] \in Texts /\ b[1] \in Texts THEN V(<<"str", Pieces(a) \o Pieces(b)>>, s)
                      ELSE Meta("CONCAT", a, b, s)
      [] op = "<"  -> Order("LT", a, b, s)
      [] op = "<=" -> Order("LE", a, b, s)
      [] op = ">"  -> Order("LT", b, a, s)
      [] op = ">=" -> Order("LE", b, a, s)
      [] op = "==" -> Equal(a, b, s)
      [] op = "~=" -> LET r == Equal(a, b, s) IN V(Bool(r.v = False), r.s)

Length(t, s) == Max({0} \union {n \in 1..Cardinality(DOMAIN s.tabs[t]) :
                        \A m \in 1..n : Get(<<"table", t>>, Integer(m), s).v # Nil})

UnaryOp(op, a, s) ==
    CASE op = "not" -> V(Bool(Falsy(a)), s)
      [] op = "#"   -> IF a[1] = "table" THEN V(Integer(Length(a[2], s)), s) ELSE Meta("LEN", a, a, s)
      [] OTHER      -> IF Number(a) THEN V(luaO_rawarith(Unary[op], a, a), s) ELSE Meta(Unary[op], a, a, s)

\* A value in a new location, and a table with given entries.
New(v, s)   == [loc |-> Len(s.mem) + 1, s |-> [s EXCEPT !.mem = Append(@, v)]]
NewTable(h, s) == V(<<"table", Len(s.tabs) + 1>>, [s EXCEPT !.tabs = Append(@, h)])

Bind(env, x, kind, v, s) ==
    LET n == New(v, s)
    IN  [env |-> [env EXCEPT !.at = (x :> [loc |-> n.loc, kind |-> kind]) @@ @], s |-> n.s]

\* The value of a vararg parameter or the hidden list of arguments.
List(vs) == [n \in {Integer(j) : j \in DOMAIN vs} |-> vs[n[2]]]
WithN(vs) == (String("n") :> Integer(Len(vs))) @@ List(vs)

Pad(vs, n) == [j \in 1..n |-> IF j <= Len(vs) THEN vs[j] ELSE Nil]
Head1(vs)  == IF vs = <<>> THEN Nil ELSE vs[1]

\* Values declared to be closed, from the last down to the first n.
RECURSIVE Close(_, _)
Close(s, n) ==
    IF s.err \/ Len(s.tbc) <= n THEN s
    ELSE LET v == Last(s.tbc)
         IN  Close(Log([s EXCEPT !.tbc = Front(@)], <<"close", <<v>> >>), n)

ToBeClosed(v, s) == IF Falsy(v) THEN s
                    ELSE IF Closable(v) THEN [s EXCEPT !.tbc = Append(@, v)] ELSE Err(s)

-----------------------------------------------------------------------------
(* Expressions: Eval gives one value, Multi a list.                        *)

RECURSIVE Multi(_, _, _), Many(_, _, _), Run(_, _, _, _), Loop(_, _, _, _), NumLoop(_, _, _, _),
          InLoop(_, _, _, _)

Eval(e, env, s) == LET r == Multi(e, env, s) IN V(Head1(r.v), r.s)

\* A name: its location, or a field of _ENV.
Read(x, env, s) ==
    IF x \in DOMAIN env.at /\ env.at[x].loc > 0 THEN V(s.mem[env.at[x].loc], s)
    ELSE Get(s.mem[env.at["_ENV"].loc], String(x), s)

Call(f, args, s0) ==
    LET s    == Burn(s0)
        fn   == s.funs[f[2]]
        pars == FoldLeft(LAMBDA b, x : Bind(b.env, x, "var", b.vs[1], b.s) @@ [vs |-> Tail(b.vs)],
                         [env |-> fn.env, s |-> s, vs |-> Pad(args, Len(fn.params)) \o <<Nil>>], fn.params)
        rest == IF Len(args) > Len(fn.params) THEN SubSeq(args, Len(fn.params) + 1, Len(args)) ELSE <<>>
        tab  == NewTable(WithN(rest), pars.s)
        named == Bind(pars.env, fn.va, "const", tab.v, tab.s)
        dots == CASE fn.va = ""    -> pars
                  [] fn.va = "..." -> Bind(pars.env, "...", "var", <<"list", rest>>, pars.s)
                  [] OTHER         -> [named EXCEPT !.env.at = ("..." :> @[fn.va]) @@ @]
        r    == Run(fn.body, 1, dots.env, [dots.s EXCEPT !.tbc = <<>>])
        c    == Close(r.s, 0)
    IN  CASE s.err        -> V(<<>>, s)
          [] f[1] = "ext" -> V(Results(f[2], args), Log(s, <<"call", args>>))
          [] f[1] = "obj" -> V(<<f>> \o args, Log(s, <<"call", <<f>> \o args>>))
          [] f[1] = "fn"  -> V(IF r.out[1] = "return" THEN r.out[2] ELSE <<>>, [c EXCEPT !.tbc = s.tbc])
          [] OTHER        -> V(<<>>, Err(s))

Closure(e, env, s) ==
    V(<<"fn", Len(s.funs) + 1>>,
      [s EXCEPT !.funs = Append(@, [params |-> e[2], va |-> e[3], body |-> e[4], env |-> env])])

\* One item after the other; items without a key are counted in n.
Items(items, env, s0) ==
    LET t == NewTable([x \in {} |-> Nil], s0)
        One(r, j) ==
            LET x == items[j]
                k == Eval(x[2], env, r.s)
                v == Eval(x[3], env, IF x[1] = "keyed" THEN k.s ELSE r.s)
                m == Multi(x[2], env, r.s)
                vs == IF j = Len(items) THEN m.v ELSE <<Head1(m.v)>>
            IN  CASE x[1] = "keyed" -> [r EXCEPT !.s = Put(t.v, k.v, v.v, v.s)]
                  [] x[1] = "named" -> [r EXCEPT !.s = Put(t.v, String(x[2]), v.v, v.s)]
                  [] x[1] = "item"  ->
                        [s |-> FoldLeft(LAMBDA s, n : Put(t.v, Integer(r.n + n), vs[n], s), m.s,
                                        [n \in DOMAIN vs |-> n]),
                         n |-> r.n + Len(vs)]
    IN  V(t.v, FoldLeft(One, [s |-> t.s, n |-> 0], [j \in DOMAIN items |-> j]).s)

Dots(v, s) ==
    LET n == Get(v, String("n"), s).v
    IN  IF v[1] = "list" THEN V(v[2], s)
        ELSE IF n[1] # "int" \/ n[2] < 0 THEN V(<<>>, Err(s))
        ELSE V([j \in 1..n[2] |-> Get(v, Integer(j), s).v], s)

\* The operands from the left to the right; the second of and and or only when
\* the first does not decide.
Multi(e, env, s) ==
    LET One(r) == V(<<r.v>>, r.s)
        a   == Eval(e[3], env, s)
        b   == Eval(e[4], env, a.s)
        t   == Eval(e[2], env, s)
        k   == Eval(e[3], env, t.s)
        args == Many(e[3], env, t.s)
        m   == Get(t.v, String(e[3]), t.s)
        margs == Many(e[4], env, m.s)
    IN  CASE s.err -> V(<<>>, s)
          [] ~s.err /\ e[1] = "nil"   -> V(<<Nil>>, s)
          [] ~s.err /\ e[1] = "true"  -> V(<<True>>, s)
          [] ~s.err /\ e[1] = "false" -> V(<<False>>, s)
          [] ~s.err /\ e[1] = "int"   -> V(<<Integer(e[2])>>, s)
          [] ~s.err /\ e[1] = "flt"   -> V(<<Float(e[2])>>, s)
          [] ~s.err /\ e[1] = "str"   -> V(<<String(e[2])>>, s)
          [] ~s.err /\ e[1] = "..."   -> Dots(s.mem[env.at["..."].loc], s)
          [] ~s.err /\ e[1] = "name"  -> One(Read(e[2], env, s))
          [] ~s.err /\ e[1] = "paren" -> One(Eval(e[2], env, s))
          [] ~s.err /\ e[1] = "index" -> One(Get(t.v, k.v, k.s))
          [] ~s.err /\ e[1] = "field" -> One(m)
          [] ~s.err /\ e[1] = "call"  -> Call(t.v, args.v, args.s)
          [] ~s.err /\ e[1] = "method" -> Call(m.v, <<t.v>> \o margs.v, margs.s)
          [] ~s.err /\ e[1] = "un"    -> One(UnaryOp(e[2], a.v, a.s))
          [] ~s.err /\ e[1] = "bin"   ->
                One(IF e[2] \in {"and", "or"}
                    THEN IF Falsy(a.v) = (e[2] = "and") THEN a ELSE b
                    ELSE Binary(e[2], a.v, b.v, b.s))
          [] ~s.err /\ e[1] = "table" -> One(Items(e[2], env, s))
          [] ~s.err /\ e[1] = "function" -> One(Closure(e, env, s))

\* Only the last expression of a list gives more than one value.
Many(es, env, s) ==
    IF es = <<>> THEN V(<<>>, s)
    ELSE LET r == IF Len(es) = 1 THEN Multi(es[1], env, s) ELSE Eval(es[1], env, s)
             m == Many(Tail(es), env, r.s)
         IN  IF Len(es) = 1 THEN r ELSE V(<<r.v>> \o m.v, m.s)

-----------------------------------------------------------------------------
(* Statements: [s, env, out].                                              *)

Next    == <<"next">>
Done(s, env) == [s |-> s, env |-> env, out |-> Next]

\* A target keeps the table and the key of the time it is read.
Target(e, env, s) ==
    LET t == Eval(e[2], env, s)
        k == IF e[1] = "field" THEN V(String(e[3]), t.s) ELSE Eval(e[3], env, t.s)
        g == s.mem[env.at["_ENV"].loc]
    IN  IF e[1] # "name" THEN [loc |-> 0, t |-> t.v, k |-> k.v, s |-> k.s]
        ELSE IF e[2] \in DOMAIN env.at /\ env.at[e[2]].loc > 0
        THEN [loc |-> env.at[e[2]].loc, t |-> Nil, k |-> Nil, s |-> s]
        ELSE [loc |-> 0, t |-> g, k |-> String(e[2]), s |-> s]

Store(x, v, s) == IF s.err THEN s
                  ELSE IF x.loc > 0 THEN [s EXCEPT !.mem[x.loc] = v] ELSE Put(x.t, x.k, v, s)

\* Targets, then values, then stores from the last to the first.
Assign(targets, es, env, s) ==
    LET ts == FoldLeft(LAMBDA r, e : LET x == Target(e, env, r.s) IN [xs |-> Append(r.xs, x), s |-> x.s],
                       [xs |-> <<>>, s |-> s], targets)
        vs == Many(es, env, ts.s)
        v  == Pad(vs.v, Len(targets))
    IN  FoldRight(LAMBDA n, r : Store(ts.xs[n], v[n], r), [n \in DOMAIN v |-> n], vs.s)

AttrOf(pre, name) == IF name[2] = "" THEN pre ELSE name[2]

Local(pre, names, es, env, s) ==
    LET vs == Many(es, env, s)
        v  == Pad(vs.v, Len(names))
        r  == FoldLeft(LAMBDA b, n : Bind(b.env, names[n][1], AttrOf(pre, names[n]), v[n], b.s),
                       [env |-> env, s |-> vs.s], [n \in DOMAIN names |-> n])
        tbc == {n \in DOMAIN names : AttrOf(pre, names[n]) = "close"}
    IN  Done(IF tbc = {} \/ r.s.err THEN r.s ELSE ToBeClosed(v[Min(tbc)], r.s), r.env)

Declare(env, x, kind) ==
    [env EXCEPT !.at = (x :> [loc |-> 0, kind |-> IF kind = "const" THEN "gconst" ELSE "global"]) @@ @,
                !.strict = TRUE]

\* A value for a global that has one already is an error.
Initialise(x, v, env, s) ==
    LET g   == s.mem[env.at["_ENV"].loc]
        old == Get(g, String(x), s)
    IN  IF s.err THEN s ELSE IF old.v # Nil \/ old.s.err THEN Err(old.s) ELSE Put(g, String(x), v, old.s)

Global(pre, names, es, env, s) ==
    LET vs == Many(es, env, s)
        v  == Pad(vs.v, Len(names))
        init == FoldRight(LAMBDA n, r : Initialise(names[n][1], v[n], env, r), [n \in DOMAIN v |-> n], vs.s)
    IN  Done(IF es = <<>> THEN s ELSE init,
             FoldLeft(LAMBDA r, x : Declare(r, x[1], AttrOf(pre, x)), env, names))

\* A block of its own; what it declared to be closed is closed on every way out.
Block(b, env, s) ==
    LET r == Run(b, 1, env, s) IN [s |-> Close(r.s, Len(s.tbc)), env |-> env, out |-> r.out]

\* Loops pass on what is not for them.
AfterBody(r, env, again) ==
    CASE r.s.err \/ r.out[1] \in {"goto", "return"} -> [r EXCEPT !.env = env]
      [] ~r.s.err /\ r.out[1] = "break" -> Done(r.s, env)
      [] ~r.s.err /\ r.out[1] = "next"  -> again

Loop(kind, st, env, s0) ==
    LET s == Burn(s0)
        c == Eval(st[2], env, s)
        b == Block(st[3], env, c.s)
        r == Run(st[2], 1, env, s)
        u == Eval(st[3], r.env, r.s)
        ru == [r EXCEPT !.s = Close(IF r.out = Next THEN u.s ELSE @, Len(s.tbc))]
    IN  CASE kind = "while" ->
                IF c.s.err \/ Falsy(c.v) THEN Done(c.s, env) ELSE AfterBody(b, env, Loop(kind, st, env, b.s))
          [] kind = "repeat" ->
                AfterBody(ru, env, IF ~Falsy(u.v) THEN Done(ru.s, env) ELSE Loop(kind, st, env, ru.s))

\* for x = i, limit, step; never beyond the largest integer.
NumLoop(st, v, env, s0) ==
    LET s    == Burn(s0)
        more == IF v[3][2] > 0 THEN v[1][2] <= v[2][2] ELSE v[1][2] >= v[2][2]
        b    == Bind(env, st[2], "const", v[1], s)
        r    == Block(st[4], b.env, b.s)
        nxt  == v[1][2] + v[3][2]
        fits == v[1][1] = "flt" \/ nxt = Wrap(nxt)
    IN  IF s.err \/ ~more THEN Done(s, env)
        ELSE AfterBody(r, env, IF fits THEN NumLoop(st, <<<<v[1][1], nxt>>, v[2], v[3]>>, env, r.s)
                               ELSE Done(r.s, env))

ForNum(st, env, s) ==
    LET vs   == Many(st[3], env, s)
        v    == IF Len(st[3]) = 2 THEN Pad(vs.v, 2) \o <<Integer(1)>> ELSE Pad(vs.v, 3)
        kind == IF v[1][1] = "int" /\ v[3][1] = "int" THEN "int" ELSE "flt"
    IN  IF vs.s.err \/ ~(\A n \in 1..3 : Number(v[n])) \/ v[3][2] = 0 THEN Done(Err(vs.s), env)
        ELSE NumLoop(st, <<<<kind, v[1][2]>>, v[2], v[3]>>, env, vs.s)

\* v is the iterator, its state and the control value.
InLoop(st, v, env, s0) ==
    LET c == Call(v[1], <<v[2], v[3]>>, Burn(s0))
        x == Pad(c.v, Len(st[2]))
        b == FoldLeft(LAMBDA r, n : Bind(r.env, st[2][n], IF n = 1 THEN "const" ELSE "var", x[n], r.s),
                      [env |-> env, s |-> c.s], [n \in DOMAIN x |-> n])
        r == Block(st[4], b.env, b.s)
    IN  IF c.s.err \/ x[1] = Nil THEN Done(c.s, env)
        ELSE AfterBody(r, env, InLoop(st, <<v[1], v[2], x[1]>>, env, r.s))

ForIn(st, env, s) ==
    LET vs == Many(st[3], env, s)
        v  == Pad(vs.v, 4)
        r  == InLoop(st, v, env, ToBeClosed(v[4], vs.s))
    IN  IF vs.s.err THEN Done(vs.s, env) ELSE [r EXCEPT !.s = Close(r.s, Len(s.tbc))]

RECURSIVE If(_, _, _, _)
If(arms, else, env, s) ==
    LET c == Eval(arms[1][1], env, s)
    IN  IF arms = <<>> THEN Block(else, env, s)
        ELSE IF c.s.err THEN Done(c.s, env)
        ELSE IF Falsy(c.v) THEN If(Tail(arms), else, env, c.s) ELSE Block(arms[1][2], env, c.s)

\* A method has self as its first parameter.
Method(st) == IF st[3] = "" THEN st[4] ELSE [st[4] EXCEPT ![2] = <<"self">> \o @]
DefTarget(st) == IF st[3] = "" THEN st[2] ELSE <<"field", st[2], st[3]>>

Stat(st, env, s) ==
    CASE st[1] = "local"   -> Local(st[2], st[3], st[4], env, s)
      [] st[1] = "global"  -> Global(st[2], st[3], st[4], env, s)
      [] st[1] = "globalall" -> Done(s, [env EXCEPT !.strict = TRUE, !.all = IF st[2] = "const" THEN "gconst" ELSE "global"])
      [] st[1] = "assign"  -> Done(Assign(st[2], st[3], env, s), env)
      [] st[1] = "do call" -> Done(Multi(st[2], env, s).s, env)
      [] st[1] = "do"      -> Block(st[2], env, s)
      [] st[1] \in {"while", "repeat"} -> Loop(st[1], st, env, s)
      [] st[1] = "if"      -> If(st[2], st[3], env, s)
      [] st[1] = "fornum"  -> ForNum(st, env, s)
      [] st[1] = "forin"   -> ForIn(st, env, s)
      [] st[1] = "localfunction" ->
            LET b == Bind(env, st[2], "var", Nil, s)
                c == Closure(st[3], b.env, b.s)
            IN  Done([c.s EXCEPT !.mem[b.env.at[st[2]].loc] = c.v], b.env)
      [] st[1] = "globalfunction" ->
            LET g == Declare(env, st[2], "")
                c == Closure(st[3], g, s)
            IN  Done(Initialise(st[2], c.v, g, c.s), g)
      [] st[1] = "defun"   ->
            LET x == Target(DefTarget(st), env, s)
                c == Closure(Method(st), env, x.s)
            IN  Done(Store(x, c.v, c.s), env)
      [] st[1] \in {"label", ";"} -> Done(s, env)
      [] st[1] \in {"break", "goto"} -> [s |-> s, env |-> env, out |-> st]
      [] st[1] = "return"  -> LET r == Many(st[2], env, s)
                              IN  [s |-> r.s, env |-> env, out |-> <<"return", r.v>>]

\* The statements of b from the nth on.  A goto to a label of b goes on there;
\* going back ends what was declared since.
RECURSIVE From(_, _, _, _)
From(b, n, past, s) ==
    LET env == past[n].env
        r   == Stat(b[n], env, s)
        at  == CHOOSE j \in DOMAIN b : b[j] = <<"label", r.out[2]>>
        env2 == IF at <= n THEN past[at].env ELSE env
        s2  == IF at <= n THEN Close(r.s, past[at].tbc) ELSE r.s
        now == IF at <= n THEN SubSeq(past, 1, at)
               ELSE [j \in 1..at |-> IF j <= n THEN past[j] ELSE past[n]]
    IN  IF n > Len(b) \/ s.err THEN Done(s, env)
        ELSE IF r.out = Next
        THEN From(b, n + 1, Append(past, [env |-> r.env, tbc |-> Len(r.s.tbc)]), r.s)
        ELSE IF r.out[1] = "goto" /\ \E j \in DOMAIN b : b[j] = <<"label", r.out[2]>>
        THEN From(b, at, [now EXCEPT ![at].env = env2], Burn(s2))
        ELSE r

Run(b, n, env, s) == From(b, n, << [env |-> env, tbc |-> Len(s.tbc)] >>, s)

Start(globals, fuel) ==
    [mem |-> << <<"table", 1>>, <<"list", <<>> >> >>, tabs |-> <<globals>>, funs |-> <<>>, tbc |-> <<>>,
     log |-> <<>>, err |-> FALSE, fuel |-> fuel]
Outside == [at |-> ("_ENV" :> [loc |-> 1, kind |-> "var"]) @@ ("..." :> [loc |-> 2, kind |-> "var"]),
            strict |-> FALSE, all |-> ""]

\* What a program does: its calls and the values it returns; or where it fails.
Meaning(b, globals, fuel) ==
    LET r == Block(b, Outside, Start(globals, fuel))
    IN  [log |-> r.s.log \o (IF r.s.err THEN <<>> ELSE << <<"return", IF r.out = Next THEN <<>> ELSE r.out[2]>> >>),
         err |-> r.s.err, fuel |-> r.s.fuel]

-----------------------------------------------------------------------------
(* Programs that break a rule of the language before they run: a scope is  *)
(* an environment with va, whether ... may be used, the labels that a goto *)
(* may go to, those a label may not repeat, and whether a break may leave. *)

KindOf(x, sc) ==
    IF x \in DOMAIN sc.at THEN sc.at[x].kind
    ELSE IF sc.all # "" THEN sc.all ELSE IF sc.strict THEN "unknown" ELSE "global"

With(sc, x, kind) == [sc EXCEPT !.at = (x :> [loc |-> 1, kind |-> IF kind = "" THEN "var" ELSE kind]) @@ @]
WithAll(sc, xs, kind) == FoldLeft(LAMBDA r, x : With(r, x, kind), sc, xs)

RECURSIVE Legal(_, _), LegalBlock(_, _), LegalFrom(_, _, _)

LegalAll(es, sc) == \A n \in DOMAIN es : Legal(es[n], sc)

Legal(e, sc) ==
    CASE e[1] = "name" -> KindOf(e[2], sc) # "unknown"
      [] e[1] = "..."  -> sc.va
      [] e[1] = "index" -> Legal(e[2], sc) /\ Legal(e[3], sc)
      [] e[1] = "bin"  -> Legal(e[3], sc) /\ Legal(e[4], sc)
      [] e[1] \in {"field", "paren"} -> Legal(e[2], sc)
      [] e[1] = "un"   -> Legal(e[3], sc)
      [] e[1] = "call" -> Legal(e[2], sc) /\ LegalAll(e[3], sc)
      [] e[1] = "method" -> Legal(e[2], sc) /\ LegalAll(e[4], sc)
      [] e[1] = "table" -> \A n \in DOMAIN e[2] :
                              LET x == e[2][n]
                              IN  (x[1] # "named" => Legal(x[2], sc)) /\ (x[1] # "item" => Legal(x[3], sc))
      [] e[1] = "function" ->
            LET in == WithAll(sc, e[2], "var")
                va == IF e[3] \in {"", "..."} THEN in ELSE With(in, e[3], "const")
            IN  LegalBlock(e[4], [va EXCEPT !.va = e[3] # "", !.labels = {}, !.seen = {}, !.loop = FALSE])
      [] OTHER -> TRUE

\* Variables that are not const.
Assignable(e, sc) == Legal(e, sc) /\ (e[1] = "name" => KindOf(e[2], sc) \in {"var", "global"})

Declares(st) == st[1] \in {"local", "global", "globalall", "localfunction", "globalfunction"}
Labelled(st) == st[1] = "label"
VoidAfter(b, n) == \A j \in (n + 1)..Len(b) : b[j][1] \in {"label", ";"}

\* Labels that a goto in the nth statement can reach.
Reach(b, n, until) ==
    {b[j][2] : j \in {j \in DOMAIN b : Labelled(b[j]) /\
        (j <= n \/ (\A m \in (n + 1)..(j - 1) : ~Declares(b[m])) \/ (VoidAfter(b, j) /\ ~until))}}

LegalStat(st, sc) ==
    LET in   == [sc EXCEPT !.loop = TRUE]
        attrs == IF Declares(st) /\ st[1] \in {"local", "global"}
                 THEN {AttrOf(st[2], st[3][n]) : n \in DOMAIN st[3]} ELSE {}
        closes == Cardinality({n \in DOMAIN st[3] : AttrOf(st[2], st[3][n]) = "close"})
    IN  CASE st[1] = "local"  -> LegalAll(st[4], sc) /\ attrs \subseteq {"", "const", "close"} /\ closes <= 1
          [] st[1] = "global" -> LegalAll(st[4], sc) /\ attrs \subseteq {"", "const"}
          [] st[1] = "assign" -> LegalAll(st[3], sc) /\ \A n \in DOMAIN st[2] : Assignable(st[2][n], sc)
          [] st[1] = "do call" -> Legal(st[2], sc)
          [] st[1] = "do"     -> LegalBlock(st[2], sc)
          [] st[1] = "while"  -> Legal(st[2], sc) /\ LegalBlock(st[3], in)
          [] st[1] = "repeat" -> LegalFrom(st[2], in, <<st[3]>>)
          [] st[1] = "if"     -> LegalBlock(st[3], sc) /\
                                 \A n \in DOMAIN st[2] : Legal(st[2][n][1], sc) /\ LegalBlock(st[2][n][2], sc)
          [] st[1] = "fornum" -> LegalAll(st[3], sc) /\ LegalBlock(st[4], With(in, st[2], "const"))
          [] st[1] = "forin"  -> LegalAll(st[3], sc) /\
                                 LegalBlock(st[4], WithAll(With(in, st[2][1], "const"), Tail(st[2]), "var"))
          [] st[1] = "localfunction" -> Legal(st[3], With(sc, st[2], "var"))
          [] st[1] = "globalfunction" -> Legal(st[3], [With(sc, st[2], "global") EXCEPT !.strict = TRUE])
          [] st[1] = "defun"  -> Assignable(DefTarget(st), sc) /\ Legal(Method(st), sc)
          [] st[1] = "goto"   -> st[2] \in sc.labels
          [] st[1] = "label"  -> st[2] \notin sc.seen
          [] st[1] = "break"  -> sc.loop
          [] st[1] = "return" -> LegalAll(st[2], sc)
          [] OTHER            -> TRUE

\* The scope of the statements that follow.
ScopeAfter(st, sc) ==
    CASE st[1] = "local"  -> FoldLeft(LAMBDA r, x : With(r, x[1], AttrOf(st[2], x)), sc, st[3])
      [] st[1] = "global" -> FoldLeft(LAMBDA r, x : Declare(r, x[1], AttrOf(st[2], x)), sc, st[3])
      [] st[1] = "globalall" -> [sc EXCEPT !.strict = TRUE, !.all = IF st[2] = "const" THEN "gconst" ELSE "global"]
      [] st[1] = "localfunction" -> With(sc, st[2], "var")
      [] st[1] = "globalfunction" -> Declare(sc, st[2], "")
      [] st[1] = "label"  -> [sc EXCEPT !.seen = @ \union {st[2]}]
      [] OTHER -> sc

\* until is the condition of a repeat, in the scope of its block.
RECURSIVE LegalRest(_, _, _, _)
LegalRest(b, n, sc, until) ==
    LET here == [sc EXCEPT !.labels = @ \union Reach(b, n, until # <<>>)]
    IN  IF n > Len(b) THEN LegalAll(until, sc)
        ELSE LegalStat(b[n], here) /\ LegalRest(b, n + 1, ScopeAfter(b[n], sc), until)

LegalFrom(b, sc, until) == LegalRest(b, 1, sc, until)
LegalBlock(b, sc)       == LegalFrom(b, sc, <<>>)

IsLegal(b) == LegalBlock(b, Outside @@ [va |-> TRUE, labels |-> {}, seen |-> {}, loop |-> FALSE])
=============================================================================
