-------------------------------- MODULE LuaVM --------------------------------
(***************************************************************************)
(* lvm.c: luaV_execute, with what it calls of ldo.c, ltm.c and lfunc.c, on *)
(* one thread.  A step is an instruction.  The stack is one for all calls; *)
(* a frame [func, pc, nres, nextra] of ci has its function at func and its *)
(* registers behind it.  An upvalue is open while at is a level of the     *)
(* stack.  Functions outside the program ("ext") and the metamethods of an *)
(* object ("obj") write what they are called with to log.  An error ends   *)
(* the program; what the pcall at the bottom does then is LuaCalls.        *)
(* Operators named _bug are broken variants that no definition uses.       *)
(***************************************************************************)
EXTENDS LuaCode, SequencesExt, FiniteSets

CONSTANTS
    Programs,           \* what is run
    Code(_),            \* of a program: [protos, err], what mainfunc of LuaParser makes
    Expected(_),        \* of a program: [legal, log, err], what LuaMeaning says of it
    Globals,            \* names and values of the globals
    StackSize           \* levels of the stack

VARIABLES
    program,
    compiled,       \* [protos, err]: what luaY_parser made
    status,         \* load, run, done, error, or assertion: a lua_assert fails
    stack, top, ci,
    upvals,         \* [at, v]
    closures,       \* [p, up]: a prototype and upvalues
    tables,         \* [h, asize]: entries, size of the array part
    tbclist,        \* levels of variables to be closed
    log

vars == <<program, compiled, status, stack, top, ci, upvals, closures, tables, tbclist, log>>

heap == <<upvals, closures, tables>>

Put(s, at, vals) ==
    [j \in DOMAIN s |-> IF j \in at..(at + Len(vals) - 1) THEN vals[j - at + 1] ELSE s[j]]
Slice(from, n)   == [j \in 1..n |-> stack[from + j - 1]]
Wanted(vals, n)  == IF n = LUA_MULTRET THEN vals
                    ELSE [j \in 1..n |-> IF j <= Len(vals) THEN vals[j] ELSE Nil]

frame == Last(ci)
base  == frame.func + 1
cl    == closures[stack[frame.func][2]]
p     == compiled.protos[cl.p]
i     == p.code[frame.pc + 1]
next  == p.code[frame.pc + 2]
ra    == base + i.a

Op(ops) == status = "run" /\ i.op \in ops

Rg(n) == stack[base + n]
K(n)  == p.k[n + 1]
Rc    == IF i.k = 1 THEN K(i.c) ELSE Rg(i.c)
UV(u) == IF upvals[u].at >= 0 THEN stack[upvals[u].at] ELSE upvals[u].v

Skip(n)   == ci' = [ci EXCEPT ![Len(ci)].pc = @ + n]
Set(a, v) == stack' = [stack EXCEPT ![a] = v]
Emit(e)   == log' = Append(log, e)

Fails(how) == /\ status' = how
              /\ UNCHANGED <<program, compiled, stack, top, ci, heap, tbclist, log>>

\* Steps that change only registers and pc, or the log as well.
Quiet     == UNCHANGED <<program, compiled, status, top, heap, tbclist, log>>
Logged(e) == Emit(e) /\ UNCHANGED <<program, compiled, status, top, heap, tbclist>>

-----------------------------------------------------------------------------
(* Loads, upvalues and jumps.                                              *)

Loaded == CASE i.op = "MOVE"     -> Rg(i.b)
            [] i.op = "LOADI"    -> Integer(i.b)
            [] i.op = "LOADF"    -> Float(i.b)
            [] i.op = "LOADK"    -> K(i.b)
            [] i.op = "LOADKX"   -> K(next.a)
            [] i.op = "LOADTRUE" -> True
            [] i.op = "GETUPVAL" -> UV(cl.up[i.b + 1])
            [] i.op = "NOT"      -> Bool(Falsy(Rg(i.b)))
            [] OTHER             -> False

OP_LOAD ==
    /\ Op({"MOVE", "LOADI", "LOADF", "LOADK", "LOADKX", "LOADTRUE", "LOADFALSE",
                 "LFALSESKIP", "GETUPVAL", "NOT"})
    /\ Set(ra, Loaded)
    /\ Skip(IF i.op \in {"LOADKX", "LFALSESKIP"} THEN 2 ELSE 1)
    /\ Quiet

OP_LOADNIL ==
    /\ Op({"LOADNIL"})
    /\ stack' = Put(stack, ra, [j \in 1..(i.b + 1) |-> Nil])
    /\ Skip(1) /\ Quiet

OP_SETUPVAL ==
    /\ Op({"SETUPVAL"})
    /\ LET u == cl.up[i.b + 1]
       IN  IF upvals[u].at >= 0 THEN Set(upvals[u].at, Rg(i.a)) /\ UNCHANGED upvals
           ELSE upvals' = [upvals EXCEPT ![u].v = Rg(i.a)] /\ UNCHANGED stack
    /\ Skip(1)
    /\ UNCHANGED <<program, compiled, status, top, closures, tables, tbclist, log>>

OP_JMP == Op({"JMP"}) /\ Skip(1 + i.b) /\ UNCHANGED stack /\ Quiet

\* A test is followed by its jump.
docondjump(holds) == Skip(IF holds = (i.k = 1) THEN 2 + next.b ELSE 2) /\ UNCHANGED stack

-----------------------------------------------------------------------------
(* Tables.                                                                 *)

GetRaw(t, k)  == LET h == tables[t].h IN IF Key(k) \in DOMAIN h THEN h[Key(k)] ELSE Nil
With(h, k, v) == [x \in (DOMAIN h \union {Key(k)}) |-> IF x = Key(k) THEN v ELSE h[x]]
Empty         == [x \in {} |-> Nil]

GetTable == IF i.op = "GETTABUP" THEN UV(cl.up[i.b + 1]) ELSE Rg(i.b)
GetKey   == CASE i.op = "GETTABLE" -> Rg(i.c)
              [] i.op = "GETI"     -> Integer(i.c)
              [] OTHER             -> K(i.c)

\* The __index of an object gives a function.
OP_GET ==
    LET v    == IF GetTable[1] = "table" THEN GetRaw(GetTable[2], GetKey) ELSE <<"ext", "f">>
        self == IF i.op = "SELF" THEN <<v, GetTable>> ELSE <<v>>
    IN  /\ Op({"GETTABUP", "GETTABLE", "GETI", "GETFIELD", "SELF"})
        /\ \/ GetTable[1] = "table" /\ stack' = Put(stack, ra, self) /\ Skip(1) /\ Quiet
           \/ /\ GetTable[1] = "obj"
              /\ stack' = Put(stack, ra, self)
              /\ Skip(1)
              /\ Logged(<<"INDEX", <<GetTable, GetKey>> >>)
           \/ GetTable[1] \notin {"table", "obj"} /\ Fails("error")

SetTable == IF i.op = "SETTABUP" THEN UV(cl.up[i.a + 1]) ELSE Rg(i.a)
SetKey   == CASE i.op = "SETTABLE" -> Rg(i.b)
              [] i.op = "SETI"     -> Integer(i.b)
              [] OTHER             -> K(i.b)

OP_SET ==
    /\ Op({"SETTABUP", "SETTABLE", "SETI", "SETFIELD"})
    /\ \/ /\ SetTable[1] = "table" /\ SetKey # Nil
          /\ tables' = [tables EXCEPT ![SetTable[2]].h = With(@, SetKey, Rc)]
          /\ Skip(1)
          /\ UNCHANGED <<program, compiled, status, stack, top, upvals, closures, tbclist, log>>
       \/ /\ SetTable[1] = "obj"
          /\ Logged(<<"NEWINDEX", <<SetTable, SetKey, Rc>> >>)
          /\ Skip(1) /\ UNCHANGED stack
       \/ /\ SetTable[1] \notin {"table", "obj"} \/ (SetTable[1] = "table" /\ SetKey = Nil)
          /\ Fails("error")

OP_NEWTABLE ==
    /\ Op({"NEWTABLE"})
    /\ tables' = Append(tables, [h |-> Empty, asize |-> i.c + (IF i.k = 1 THEN next.a * (MAXARG_vC + 1) ELSE 0)])
    /\ Set(ra, <<"table", Len(tables) + 1>>)
    /\ top' = ra + 1
    /\ Skip(2)
    /\ UNCHANGED <<program, compiled, status, upvals, closures, tbclist, log>>

\* The array part has room unless the number of items was not known.
OP_SETLIST ==
    LET n     == IF i.b = 0 THEN top - ra - 1 ELSE i.b
        first == i.c + (IF i.k = 1 THEN next.a * (MAXARG_vC + 1) ELSE 0)
        t     == Rg(i.a)[2]
        new   == [x \in {Integer(first + j) : j \in 1..n} |-> stack[ra + x[2] - first]]
    IN  /\ Op({"SETLIST"})
        /\ IF first + n > tables[t].asize /\ i.b # 0 THEN Fails("assertion")
           ELSE /\ tables' = [tables EXCEPT ![t].h = new @@ @, ![t].asize = Max({@, first + n})]
                /\ Skip(IF i.k = 1 THEN 2 ELSE 1)
                /\ UNCHANGED <<program, compiled, status, stack, top, upvals, closures, tbclist, log>>

-----------------------------------------------------------------------------
(* Operators.                                                              *)

Plain == [ADDI |-> "ADD", SHRI |-> "SHR", SHLI |-> "SHL"] @@
         [o \in {KForm[b] : b \in DOMAIN KForm} |-> CHOOSE b \in DOMAIN KForm : KForm[b] = o] @@
         [o \in DOMAIN KForm \union {"SHL", "SHR"} |-> o]

Operands == CASE i.op \in {"ADDI", "SHRI"} -> <<Rg(i.b), Integer(i.c)>>
              [] i.op = "SHLI" -> <<Integer(i.c), Rg(i.b)>>
              [] i.op \in {KForm[b] : b \in DOMAIN KForm} -> <<Rg(i.b), K(i.c)>>
              [] OTHER -> <<Rg(i.b), Rg(i.c)>>

\* Numbers skip the instruction for the metamethod.
OP_ARITH ==
    LET v == Operands
        numbers == Number(v[1]) /\ Number(v[2])
    IN  /\ Op(DOMAIN Plain)
        /\ \/ numbers /\ ~Divides(Plain[i.op], v[1], v[2])
              /\ Set(ra, luaO_rawarith(Plain[i.op], v[1], v[2])) /\ Skip(2) /\ Quiet
           \/ numbers /\ Divides(Plain[i.op], v[1], v[2]) /\ Fails("error")
           \/ ~numbers /\ Skip(1) /\ UNCHANGED stack /\ Quiet

MMOperands ==
    LET v == CASE i.op = "MMBIN"  -> Rg(i.b)
               [] i.op = "MMBINI" -> Integer(i.b)
               [] OTHER           -> K(i.b)
    IN  IF i.op # "MMBIN" /\ i.k = 1 THEN <<v, Rg(i.a)>> ELSE <<Rg(i.a), v>>

\* The result goes where the instruction before wanted it.
OP_MMBIN ==
    LET v      == MMOperands
        before == p.code[frame.pc]
    IN  /\ Op({"MMBIN", "MMBINI", "MMBINK"})
        /\ IF before.op \notin DOMAIN Plain THEN Fails("assertion")
           ELSE IF HasTM(v[1], v[2])
           THEN Set(base + before.a, Integer(1)) /\ Skip(1) /\ Logged(<<i.c, v>>)
           ELSE Fails("error")

luaH_getn(t) == Max({0} \union {n \in 1..Cardinality(DOMAIN tables[t].h) :
                                  \A m \in 1..n : GetRaw(t, Integer(m)) # Nil})

OP_UNARY ==
    LET v == Rg(i.b)
    IN  /\ Op({"UNM", "BNOT", "LEN"})
        /\ \/ i.op # "LEN" /\ Number(v) /\ Set(ra, luaO_rawarith(i.op, v, v)) /\ Skip(1) /\ Quiet
           \/ i.op = "LEN" /\ v[1] = "table" /\ Set(ra, Integer(luaH_getn(v[2]))) /\ Skip(1) /\ Quiet
           \/ v[1] = "obj" /\ Set(ra, Integer(1)) /\ Skip(1) /\ Logged(<<i.op, <<v, v>> >>)
           \/ /\ v[1] # "obj" /\ IF i.op = "LEN" THEN v[1] # "table" ELSE ~Number(v)
              /\ Fails("error")

copy2buff(v, w) == <<"str", Pieces(v) \o Pieces(w)>>

\* Pairs from the right: [v, log], v = <<"bad", 0>> after an error.
luaV_concat(vals) ==
    FoldRight(LAMBDA v, acc :
                IF {v[1], acc.v[1]} \subseteq {"str", "int", "flt"}
                THEN [acc EXCEPT !.v = copy2buff(v, acc.v)]
                ELSE IF HasTM(v, acc.v) /\ acc.v[1] # "bad"
                THEN [v |-> Integer(1), log |-> Append(acc.log, <<"CONCAT", <<v, acc.v>> >>)]
                ELSE [acc EXCEPT !.v = <<"bad", 0>>],
              Front(vals), [v |-> Last(vals), log |-> log])

OP_CONCAT ==
    LET r == luaV_concat(Slice(ra, i.b))
    IN  /\ Op({"CONCAT"})
        /\ Set(ra, r.v) /\ Skip(1)
        /\ log' = r.log
        /\ status' = IF r.v[1] = "bad" THEN "error" ELSE status
        /\ UNCHANGED <<program, compiled, top, heap, tbclist>>

-----------------------------------------------------------------------------
(* Comparisons and tests.                                                  *)

\* Different objects are equal for their metamethod.
OP_EQ ==
    LET v == CASE i.op = "EQ"  -> Rg(i.b)
               [] i.op = "EQK" -> K(i.b)
               [] OTHER        -> Integer(i.b)
        calls == i.op = "EQ" /\ v[1] = "obj" /\ Rg(i.a)[1] = "obj" /\ v # Rg(i.a)
    IN  /\ Op({"EQ", "EQK", "EQI"})
        /\ docondjump(calls \/ luaV_rawequalobj(Rg(i.a), v))
        /\ IF calls THEN Logged(<<"EQ", <<Rg(i.a), v>> >>) ELSE Quiet

OP_ORDER ==
    LET imm == IF i.c = 1 THEN Float(i.b) ELSE Integer(i.b)
        op  == IF i.op \in {"LT", "LTI", "GTI"} THEN "LT" ELSE "LE"
        v   == CASE i.op \in {"LT", "LE"}   -> <<Rg(i.a), Rg(i.b)>>
                 [] i.op \in {"LTI", "LEI"} -> <<Rg(i.a), imm>>
                 [] OTHER                   -> <<imm, Rg(i.a)>>
        numbers == Number(v[1]) /\ Number(v[2])
    IN  /\ Op({"LT", "LE", "LTI", "LEI", "GTI", "GEI"})
        /\ \/ numbers /\ docondjump(LessThan(op, v[1], v[2])) /\ Quiet
           \/ HasTM(v[1], v[2]) /\ docondjump(TRUE) /\ Logged(<<op, v>>)
           \/ ~numbers /\ ~HasTM(v[1], v[2]) /\ Fails("error")

OP_TEST == Op({"TEST"}) /\ docondjump(~Falsy(Rg(i.a))) /\ Quiet

OP_TESTSET ==
    /\ Op({"TESTSET"})
    /\ IF Falsy(Rg(i.b)) = (i.k = 1) THEN Skip(2) /\ UNCHANGED stack
       ELSE Set(ra, Rg(i.b)) /\ Skip(2 + next.b)
    /\ Quiet

-----------------------------------------------------------------------------
(* Closing.                                                                *)

luaF_closeupval_bug(level) ==
    upvals' = [u \in DOMAIN upvals |-> IF upvals[u].at > level THEN [at |-> -1, v |-> UV(u)] ELSE upvals[u]]
luaF_closeupval(level) ==
    upvals' = [u \in DOMAIN upvals |-> IF upvals[u].at >= level THEN [at |-> -1, v |-> UV(u)] ELSE upvals[u]]

\* The variables to be closed from a level on, the last first.
ToClose(level) == LET l == SelectSeq(tbclist, LAMBDA x : x >= level)
                  IN  [j \in DOMAIN l |-> <<"close", <<stack[l[Len(l) + 1 - j]]>> >>]

luaF_close(level) ==
    /\ luaF_closeupval(level)
    /\ log' = log \o ToClose(level)
    /\ tbclist' = SelectSeq(tbclist, LAMBDA x : x < level)

OP_CLOSE ==
    /\ Op({"CLOSE"})
    /\ luaF_close(ra) /\ Skip(1)
    /\ status' = IF i.b = 0 THEN status ELSE "assertion"
    /\ UNCHANGED <<program, compiled, stack, top, closures, tables>>

luaF_newtbcupval(level, v) == IF Falsy(v) THEN tbclist ELSE Append(tbclist, level)

OP_TBC ==
    /\ Op({"TBC"})
    /\ IF Closable(Rg(i.a))
       THEN /\ tbclist' = luaF_newtbcupval(ra, Rg(i.a))
            /\ Skip(1)
            /\ UNCHANGED <<program, compiled, status, stack, top, heap, log>>
       ELSE Fails("error")

-----------------------------------------------------------------------------
(* Calls.                                                                  *)

\* The arguments of a call: a value with __call is the first one of it.
tryfuncTM(v, args) == IF v[1] = "obj" THEN <<v>> \o args ELSE args

\* A function at func with n arguments, the last at top - 1 (luaD_precall); an
\* object is called by its __call.
Calls(func, n, nres, frames, tbc) ==
    LET v    == stack[func]
        args == tryfuncTM(v, Slice(func + 1, n))
        vals == Wanted(Results(IF v[1] = "ext" THEN v[2] ELSE "f", args), nres)
        q    == compiled.protos[closures[v[2]].p]
    IN  \/ /\ v[1] \in {"ext", "obj"}
           /\ Emit(<<"call", args>>)
           /\ stack' = Put(stack, func, vals)
           /\ top' = func + Len(vals)
           /\ ci' = frames
           /\ UNCHANGED <<program, compiled, status, heap, tbclist>>
        \/ /\ v[1] = "fn"
           /\ stack' = Put(stack, func + 1 + n, [j \in 1..Max({0, q.numparams - n}) |-> Nil])
           /\ top' = func + 1 + Max({n, q.numparams})
           /\ ci' = Append(frames, [func |-> func, pc |-> 0, nres |-> nres, nextra |-> 0])
           /\ UNCHANGED <<program, compiled, status, heap, tbclist, log>>
        \/ v[1] \notin {"ext", "obj", "fn"} /\ Fails("error")

After == [ci EXCEPT ![Len(ci)].pc = @ + 1]

OP_CALL ==
    /\ Op({"CALL"})
    /\ Calls(ra, (IF i.b # 0 THEN ra + i.b ELSE top) - ra - 1, i.c - 1, After, tbclist)

\* luaD_poscall: vals go where the function was, and the frame goes.
luaD_poscall(vals, func) ==
    LET r == Wanted(vals, frame.nres)
    IN  /\ stack' = Put(stack, func, r)
        /\ top' = func + Len(r)
        /\ ci' = Front(ci)
        /\ status' = IF Len(ci) = 1 THEN "done" ELSE status

\* A Lua function takes the frame over, together with its hidden arguments.
OP_TAILCALL ==
    LET n     == (IF i.b # 0 THEN ra + i.b ELSE top) - ra
        delta == IF i.c # 0 THEN frame.nextra + i.c ELSE 0
        func  == frame.func - delta
        v     == Rg(i.a)
        args  == IF v[1] = "obj" THEN <<v>> \o Slice(ra + 1, n - 1) ELSE Slice(ra + 1, n - 1)
        q     == compiled.protos[closures[v[2]].p]
        vals  == Results(IF v[1] = "ext" THEN v[2] ELSE "f", args)
        moved == Slice(ra, n) \o [j \in 1..Max({0, q.numparams + 1 - n}) |-> Nil]
        close == IF i.k = 1 THEN luaF_closeupval(base) ELSE UNCHANGED upvals
    IN  /\ Op({"TAILCALL"})
        /\ IF i.k = 1 /\ ToClose(base) # <<>> THEN Fails("assertion")
           ELSE \/ /\ v[1] = "fn"
                   /\ stack' = Put(stack, func, moved)
                   /\ top' = func + Len(moved)
                   /\ ci' = [ci EXCEPT ![Len(ci)] = [@ EXCEPT !.func = func, !.pc = 0]]
                   /\ close
                   /\ UNCHANGED <<program, compiled, status, closures, tables, tbclist, log>>
                \/ /\ v[1] \in {"ext", "obj"}
                   /\ luaD_poscall(vals, func)
                   /\ log' = Append(log, <<"call", args>>) \o
                             (IF Len(ci) = 1 THEN << <<"return", vals>> >> ELSE <<>>)
                   /\ close
                   /\ UNCHANGED <<program, compiled, closures, tables, tbclist>>
                \/ v[1] \notin {"ext", "obj", "fn"} /\ Fails("error")

\* RETURN0 and RETURN1 close nothing and have no hidden arguments.
OP_RETURN ==
    LET n    == IF i.b # 0 THEN i.b - 1 ELSE top - ra
        vals == Slice(ra, n)
        full == i.op = "RETURN"
        func == frame.func - (IF full /\ i.c # 0 THEN frame.nextra + i.c ELSE 0)
    IN  /\ Op({"RETURN", "RETURN0", "RETURN1"})
        /\ luaD_poscall(vals, func)
        /\ IF full /\ i.k = 1
           THEN luaF_closeupval(base) /\ tbclist' = SelectSeq(tbclist, LAMBDA x : x < base)
           ELSE UNCHANGED <<upvals, tbclist>>
        /\ log' = log \o (IF full /\ i.k = 1 THEN ToClose(base) ELSE <<>>)
                      \o (IF Len(ci) = 1 THEN << <<"return", vals>> >> ELSE <<>>)
        /\ UNCHANGED <<program, compiled, closures, tables>>

-----------------------------------------------------------------------------
(* Closures and variable arguments.                                        *)

\* luaF_findupval: two closures share the upvalue of a level.
findupval(us, level) ==
    IF \E u \in DOMAIN us : us[u].at = level THEN us ELSE Append(us, [at |-> level, v |-> Nil])

pushclosure(q) ==
    LET desc   == compiled.protos[q].up
        inside == SelectSeq(desc, LAMBDA d : d.instack)
        us     == FoldLeft(LAMBDA s, d : findupval(s, base + d.idx), upvals, inside)
    IN  /\ upvals' = us
        /\ closures' = Append(closures,
              [p |-> q, up |-> [j \in DOMAIN desc |->
                  IF desc[j].instack THEN CHOOSE u \in DOMAIN us : us[u].at = base + desc[j].idx
                  ELSE cl.up[desc[j].idx + 1]]])

OP_CLOSURE ==
    /\ Op({"CLOSURE"})
    /\ pushclosure(p.p[i.b + 1])
    /\ Set(ra, <<"fn", Len(closures) + 1>>)
    /\ Skip(1)
    /\ UNCHANGED <<program, compiled, status, top, tables, tbclist, log>>

\* luaT_adjustvarargs: a table, or the arguments stay hidden below a copy of
\* the function and its parameters.
OP_VARARGPREP ==
    LET total == top - frame.func - 1
        fix   == p.numparams
        extra == total - fix
        t     == [x \in {Integer(n) : n \in 1..extra} |-> stack[frame.func + fix + x[2]]] @@
                 (String("n") :> Integer(extra))
        copy  == Put(stack, frame.func + 1, [n \in 1..fix |-> Nil])
    IN  /\ Op({"VARARGPREP"})
        /\ IF p.vatab
           THEN /\ tables' = Append(tables, [h |-> t, asize |-> extra])
                /\ Set(base + fix, <<"table", Len(tables) + 1>>)
                /\ Skip(1)
           ELSE /\ stack' = Put(copy, top, Slice(frame.func, fix + 1) \o <<Nil>>)
                /\ ci' = [ci EXCEPT ![Len(ci)] = [@ EXCEPT !.func = top, !.nextra = extra, !.pc = 1]]
                /\ UNCHANGED tables
        /\ UNCHANGED <<program, compiled, status, top, upvals, closures, tbclist, log>>

OP_VARARG ==
    LET t      == Rg(i.b)[2]
        n      == IF i.k = 1 THEN GetRaw(t, String("n")) ELSE Integer(frame.nextra)
        args   == IF i.k = 1 THEN [j \in 1..n[2] |-> GetRaw(t, Integer(j))]
                  ELSE Slice(frame.func - n[2], n[2])
        vals   == Wanted(args, i.c - 1)
    IN  /\ Op({"VARARG"})
        /\ IF n[1] # "int" \/ n[2] < 0 THEN Fails("error")
           ELSE /\ stack' = Put(stack, ra, vals)
                /\ top' = IF i.c = 0 THEN ra + n[2] ELSE top
                /\ Skip(1)
                /\ UNCHANGED <<program, compiled, status, heap, tbclist, log>>

OP_GETVARG ==
    LET k == Key(Rg(i.c))
        v == IF k[1] = "int" /\ k[2] \in 1..frame.nextra THEN stack[frame.func - frame.nextra + k[2] - 1]
             ELSE IF k = String("n") THEN Integer(frame.nextra) ELSE Nil
    IN  Op({"GETVARG"}) /\ Set(ra, v) /\ Skip(1) /\ Quiet

OP_ERRNNIL ==
    /\ Op({"ERRNNIL"})
    /\ IF Rg(i.a) = Nil THEN Skip(1) /\ UNCHANGED stack /\ Quiet ELSE Fails("error")

-----------------------------------------------------------------------------
(* Loops.                                                                  *)

\* An integer loop counts its iterations, so that it cannot overflow.
Count(init, limit, step) ==
    IF step > 0 THEN Unsigned(limit - init) \div step
    ELSE Unsigned(init - limit) \div (-step)

LoopEnds(init, limit, step) == IF step > 0 THEN init > limit ELSE init < limit

\* A float limit is rounded by integer loops; floats here have no fraction.
OP_FORPREP ==
    LET v    == Slice(ra, 3)
        ints == v[1][1] = "int" /\ v[3][1] = "int"
        num(n) == IF ints THEN Integer(n) ELSE Float(n)
        none == LoopEnds(v[1][2], v[2][2], v[3][2])
        good == Number(v[1]) /\ Number(v[2]) /\ Number(v[3]) /\ v[3][2] # 0
    IN  /\ Op({"FORPREP"})
        /\ \/ ~good /\ Fails("error")
           \/ good /\ none /\ Skip(2 + i.b) /\ UNCHANGED stack /\ Quiet
           \/ /\ good /\ ~none
              /\ stack' = Put(stack, ra,
                    <<num(IF ints THEN Wrap(Count(v[1][2], v[2][2], v[3][2])) ELSE v[2][2]),
                      num(v[3][2]), num(v[1][2])>>)
              /\ Skip(1) /\ Quiet

\* v is the limit, the step and the control variable.
floatforloop(v) ==
    [more |-> ~LoopEnds(v[3][2] + v[2][2], v[1][2], v[2][2]),
     now  |-> <<v[1], v[2], Float(v[3][2] + v[2][2])>>]

OP_FORLOOP ==
    LET v    == Slice(ra, 3)
        ints == v[2][1] = "int"
        more == IF ints THEN Unsigned(v[1][2]) > 0 ELSE floatforloop(v).more
        now  == IF ints THEN <<Integer(Wrap(Unsigned(v[1][2]) - 1)), v[2],
                               Integer(Wrap(v[3][2] + v[2][2]))>>
                ELSE floatforloop(v).now
    IN  /\ Op({"FORLOOP"})
        /\ IF more THEN stack' = Put(stack, ra, now) /\ Skip(1 - i.b)
           ELSE UNCHANGED stack /\ Skip(1)
        /\ Quiet

\* The third value is to be closed, the fourth controls the loop.
OP_TFORPREP ==
    LET closing == stack[ra + 3]
        after   == p.code[frame.pc + 2 + i.b]
    IN  /\ Op({"TFORPREP"})
        /\ IF after.op # "TFORCALL" \/ after.a # i.a THEN Fails("assertion")
           ELSE IF ~Closable(closing) THEN Fails("error")
           ELSE /\ stack' = Put(stack, ra + 2, <<closing, stack[ra + 2]>>)
                /\ tbclist' = luaF_newtbcupval(ra + 2, closing)
                /\ Skip(1 + i.b)
                /\ UNCHANGED <<program, compiled, status, top, heap, log>>

\* The call is made on copies.
OP_TFORCALL ==
    LET v    == stack[ra]
        args == <<stack[ra + 1], stack[ra + 3]>>
        all  == IF v[1] = "obj" THEN <<v>> \o args ELSE args
        vals == Wanted(Results(IF v[1] = "ext" THEN v[2] ELSE "f", all), i.c)
        q    == compiled.protos[closures[v[2]].p]
    IN  /\ Op({"TFORCALL"})
        /\ \/ /\ v[1] \in {"ext", "obj"}
              /\ stack' = Put(Put(stack, ra + 3, <<v>> \o args), ra + 3, vals)
              /\ top' = ra + 3 + Len(vals)
              /\ Emit(<<"call", all>>) /\ Skip(1)
              /\ UNCHANGED <<program, compiled, status, heap, tbclist>>
           \/ /\ v[1] = "fn"
              /\ stack' = Put(stack, ra + 3, <<v>> \o args \o [j \in 1..Max({0, q.numparams - 2}) |-> Nil])
              /\ top' = ra + 4 + Max({2, q.numparams})
              /\ ci' = Append(After, [func |-> ra + 3, pc |-> 0, nres |-> i.c, nextra |-> 0])
              /\ UNCHANGED <<program, compiled, status, heap, tbclist, log>>
           \/ v[1] \notin {"ext", "obj", "fn"} /\ Fails("error")

OP_TFORLOOP ==
    /\ Op({"TFORLOOP"})
    /\ Skip(IF stack[ra + 3] # Nil THEN 1 - i.b ELSE 1)
    /\ UNCHANGED stack /\ Quiet

-----------------------------------------------------------------------------
(* A program is compiled, becomes a closure with _ENV, and runs.           *)

Init ==
    /\ program \in Programs
    /\ compiled = [protos |-> <<>>, err |-> ""]
    /\ status = "load"
    /\ stack = [n \in 0..(StackSize - 1) |-> <<"junk", 0>>]
    /\ top = 0 /\ ci = <<>> /\ upvals = <<>> /\ closures = <<>> /\ tables = <<>>
    /\ tbclist = <<>> /\ log = <<>>

luaD_protectedparser(c) ==
    /\ status = "load"
    /\ compiled' = c
    /\ IF c.err # "" THEN status' = "rejected" /\ UNCHANGED <<stack, top, ci, upvals, closures, tables>>
       ELSE /\ status' = "run"
            /\ tables' = << [h |-> Globals, asize |-> 0] >>
            /\ upvals' = << [at |-> -1, v |-> <<"table", 1>>] >>
            /\ closures' = << [p |-> Len(c.protos), up |-> <<1>>] >>
            /\ stack' = [stack EXCEPT ![0] = <<"fn", 1>>]
            /\ top' = 1
            /\ ci' = << [func |-> 0, pc |-> 0, nres |-> LUA_MULTRET, nextra |-> 0] >>
    /\ UNCHANGED <<program, tbclist, log>>

Execute ==
    \/ OP_LOAD \/ OP_LOADNIL \/ OP_SETUPVAL \/ OP_JMP
    \/ OP_GET \/ OP_SET \/ OP_NEWTABLE \/ OP_SETLIST
    \/ OP_ARITH \/ OP_MMBIN \/ OP_UNARY \/ OP_CONCAT
    \/ OP_EQ \/ OP_ORDER \/ OP_TEST \/ OP_TESTSET
    \/ OP_CLOSE \/ OP_TBC \/ OP_CALL \/ OP_TAILCALL \/ OP_RETURN
    \/ OP_CLOSURE \/ OP_VARARGPREP \/ OP_VARARG \/ OP_GETVARG \/ OP_ERRNNIL
    \/ OP_FORPREP \/ OP_FORLOOP \/ OP_TFORPREP \/ OP_TFORCALL \/ OP_TFORLOOP

Next == luaD_protectedparser(Code(program)) \/ Execute

Spec == Init /\ [][Next]_vars

-----------------------------------------------------------------------------
(* The compiler and the machine together against what programs mean.       *)

\* What can be seen of a value: not which table or function it is.
Seen(v) == IF v[1] \in {"table", "fn"} THEN <<v[1], 0>> ELSE v
SeenLog(l) == [n \in DOMAIN l |-> <<l[n][1], [j \in DOMAIN l[n][2] |-> Seen(l[n][2][j])]>>]

\* A program is rejected when it breaks a rule of the language and does what it
\* means otherwise: the same calls, metamethods and closings in the same order,
\* the same results, and an error at the same place.
CompiledMeansProgram ==
    status \in {"rejected", "done", "error", "assertion"} =>
        LET m == Expected(program)
        IN  /\ m.legal <=> status # "rejected"
            /\ m.legal => /\ m.fuel > 0
                          /\ status = (IF m.err THEN "error" ELSE "done")
                          /\ SeenLog(log) = SeenLog(m.log)

-----------------------------------------------------------------------------
(* What the machine takes for granted of the code it runs.                 *)

Arithmetic == DOMAIN Plain
InK        == {KForm[b] : b \in DOMAIN KForm}
Immediate  == {"ADDI", "SHRI", "SHLI"}
Stores     == {"SETTABUP", "SETTABLE", "SETI", "SETFIELD"}

UsesA(j) == j.op \notin {"JMP", "EXTRAARG", "VARARGPREP", "SETTABUP", "RETURN0"}
UsesB(j) == j.op \in {"MOVE", "NOT", "UNM", "BNOT", "LEN", "GETTABLE", "GETI", "GETFIELD", "SELF", "SETTABLE",
                      "MMBIN", "EQ", "LT", "LE", "TESTSET", "GETVARG"} \union Arithmetic
UsesC(j) == j.op \in {"GETTABLE", "GETVARG"} \union (Arithmetic \ (InK \union Immediate))
                \/ (j.op \in Stores /\ j.k = 0)
KeyB(j)  == j.op \in {"LOADK", "EQK", "SETFIELD", "SETTABUP", "MMBINK"}
KeyC(j)  == j.op \in {"GETTABUP", "GETFIELD", "SELF"} \union InK \/ (j.op \in Stores /\ j.k = 1)

\* Registers from the first operand on.
Span(j) == CASE j.op = "LOADNIL" -> j.b + 1
             [] j.op \in {"CONCAT", "TAILCALL"} -> Max({j.b, 1})
             [] j.op = "CALL"    -> Max({j.b, j.c - 1, 1})
             [] j.op = "RETURN"  -> j.b - 1
             [] j.op = "SETLIST" -> j.b + 1
             [] j.op = "VARARG"  -> j.c - 1
             [] j.op = "SELF"    -> 2
             [] j.op \in {"FORPREP", "FORLOOP"} -> 3
             [] j.op = "TFORPREP" -> 4
             [] j.op = "TFORCALL" -> Max({6, 3 + j.c})
             [] OTHER -> 1

OpensTop(j) == j.op = "TAILCALL" \/ (j.op \in {"CALL", "VARARG"} /\ j.c = 0)
TakesTop(j) == j.op \in {"CALL", "TAILCALL", "RETURN", "SETLIST"} /\ j.b = 0

JumpsTo(pc, j) == CASE j.op = "JMP" -> {pc + 1 + j.b}
                    [] j.op = "FORPREP"  -> {pc + 2 + j.b}
                    [] j.op = "TFORPREP" -> {pc + 1 + j.b}
                    [] j.op \in {"FORLOOP", "TFORLOOP"} -> {pc + 1 - j.b}
                    [] j.op = "LFALSESKIP" -> {pc + 2}
                    [] OTHER -> {}

Second == {"EXTRAARG", "MMBIN", "MMBINI", "MMBINK"}

InstructionFits(q, pc) ==
    LET j    == q.code[pc + 1]
        then == q.code[pc + 2]
        Follows(ops) == pc + 1 < Len(q.code) /\ then.op \in ops
    IN  /\ UsesA(j) => j.a >= 0 /\ j.a + Span(j) <= q.maxstack
        /\ UsesB(j) => j.b \in 0..(q.maxstack - 1)
        /\ UsesC(j) => j.c \in 0..(q.maxstack - 1)
        /\ KeyB(j)  => j.b \in 0..(Len(q.k) - 1)
        /\ KeyC(j)  => j.c \in 0..(Len(q.k) - 1)
        /\ j.op \in Immediate => fitsC(j.c)
        /\ (j.op \in InK \/ (KeyC(j) /\ j.op \in Stores)) => j.c <= MAXINDEXRK
        /\ j.op \in {"GETUPVAL", "SETUPVAL", "GETTABUP"} => j.b \in 0..(Len(q.up) - 1)
        /\ j.op = "SETTABUP" => j.a \in 0..(Len(q.up) - 1)
        /\ j.op = "CLOSURE" => j.b \in 0..(Len(q.p) - 1)
        /\ \A target \in JumpsTo(pc, j) :
              target \in 0..(Len(q.code) - 1) /\ q.code[target + 1].op \notin Second
        /\ j.op \in TestModes => Follows({"JMP"})
        /\ (j.op \in {"LOADKX", "NEWTABLE"} \/ (j.op = "SETLIST" /\ j.k = 1)) => Follows({"EXTRAARG"})
        /\ j.op \in Arithmetic <=> Follows({"MMBIN", "MMBINI", "MMBINK"})
        /\ j.op = "TFORCALL" => Follows({"TFORLOOP"}) /\ then.a = j.a
        /\ OpensTop(j) <=> (pc + 1 < Len(q.code) /\ TakesTop(then))

\* Compiled code stays in its registers, constants and upvalues, jumps only to
\* instructions, and what two instructions do together is not separated.
CodeIsWellFormed ==
    status = "run" /\ Len(ci) = 1 /\ frame.pc = 0 =>
        \A n \in DOMAIN compiled.protos :
            LET q == compiled.protos[n]
            IN  /\ \A pc \in 0..(Len(q.code) - 1) : InstructionFits(q, pc)
                /\ Last(q.code).op \in {"RETURN", "RETURN0", "RETURN1"}
                /\ q.numparams <= q.maxstack

\* A closure never reads the registers of a call that is over: an upvalue is
\* open only while its variable's function is active, and a variable has one.
OpenUpvaluesAreLive ==
    /\ \A u \in DOMAIN upvals : upvals[u].at >= 0 =>
          \E n \in DOMAIN ci : upvals[u].at > ci[n].func /\ (n < Len(ci) => upvals[u].at < ci[n + 1].func)
    /\ status = "done" => \A u \in DOMAIN upvals : upvals[u].at = -1
=============================================================================
