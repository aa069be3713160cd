------------------------------ MODULE LuaParser ------------------------------
(***************************************************************************)
(* lparser.c: the parser, which generates code while it reads.  Its state  *)
(* p is [toks, at, f, protos, err]: the tokens and the next one's index,   *)
(* the function being compiled, the functions that are done, and the first *)
(* error.  A token is <<kind, value>>.  An operation gives p, or [p, e]    *)
(* when it reads an expression.  The programs are well-formed, so that a   *)
(* missing token is no case; what they mean may be wrong, and parsing goes *)
(* on after such an error.  The variables, labels and gotos of a function  *)
(* are its slice of the lists the parser keeps for all of them.  Operators *)
(* named _bug are broken variants that no definition uses.                 *)
(***************************************************************************)
EXTENDS LuaCode, SequencesExt, FiniteSets

CONSTANTS MAX_FSTACK

PE(p, e)   == [p |-> p, e |-> e]
Lift(p, r) == [p |-> [p EXCEPT !.f = r.f], e |-> r.e]
On(p, f)   == [p EXCEPT !.f = f]

luaK_semerror(p, why) == IF p.err = "" THEN [p EXCEPT !.err = why] ELSE p
Unless(p, ok, why)    == IF ok THEN p ELSE luaK_semerror(p, why)

Tk(p)        == p.toks[p.at][1]
Val(p)       == p.toks[p.at][2]
luaX_next(p) == [p EXCEPT !.at = @ + 1]
lookahead(p) == p.toks[p.at + 1][1]
testnext(p, kind) == IF Tk(p) = kind THEN luaX_next(p) ELSE p

VOID       == Expr("VVOID", 0, 0)
hasmultret(e) == e.k \in {"VCALL", "VVARARG"}
vkisindexed(e) == e.k \in {"VINDEXED", "VVARGIND", "VINDEXUP", "VINDEXI", "VINDEXSTR"}
setmultret(f, e) == luaK_setreturns(f, e, LUA_MULTRET)

-----------------------------------------------------------------------------
(* Variables.                                                              *)

varinreg(v)  == v.kind \in {"VDKREG", "RDKCONST", "RDKVAVAR", "RDKTOCLOSE"}
varglobal(v) == v.kind \in {"GDKREG", "GDKCONST"}

new_varkind(f, name, kind) ==
    [f EXCEPT !.vars = Append(@, [name |-> name, kind |-> kind, ridx |-> -1, val |-> Nil])]
new_localvar(f, name) == new_varkind(f, name, "VDKREG")

reglevel(f, nvar) == luaY_nvarstack([f EXCEPT !.nactvar = nvar])

\* The next n variables get registers.
adjustlocalvars(f, n) ==
    LET level == luaY_nvarstack(f)
    IN  [f EXCEPT !.nactvar = @ + n,
                  !.vars = [i \in DOMAIN @ |->
                              IF i \in (f.nactvar + 1)..(f.nactvar + n)
                              THEN [@[i] EXCEPT !.ridx = level + i - f.nactvar - 1] ELSE @[i]]]

removevars(f, tolevel) ==
    [f EXCEPT !.nactvar = tolevel,
              !.vars = SubSeq(@, 1, Len(@) - (f.nactvar - tolevel))]

\* An unused reference variable has i = -1, or -2 when a declaration of other
\* globals makes undeclared ones an error; a declaration of all gives its kind.
searchvar(f, n, var) ==
    LET named == {i \in 1..f.nactvar : f.vars[i].name = n}
        i     == Max(named)
        v     == f.vars[i]
        open  == {j \in 1..f.nactvar : varglobal(f.vars[j])}
        alls  == {j \in open : f.vars[j].name = "*"}
        kind  == f.vars[Max(alls)].kind
    IN  IF named # {}
        THEN CASE varglobal(v)         -> Expr("VGLOBAL", 0, v.kind)
               [] v.kind = "RDKCTC"    -> Expr("VCONST", i, v.val)
               [] v.kind = "RDKVAVAR"  -> Expr("VVARGVAR", v.ridx, i)
               [] OTHER                -> Expr("VLOCAL", v.ridx, i)
        ELSE IF var.i < 0 /\ alls # {} THEN Expr("VNONE", 0, kind)
        ELSE IF var.i = -1 /\ open # {} THEN Expr("VNONE", -2, "")
        ELSE [var EXCEPT !.k = "VNONE"]

\* The block of the variable must close it.
markupval(f, vidx) ==
    LET b == Max({b \in DOMAIN f.bl : f.bl[b].nactvar < vidx})
    IN  [f EXCEPT !.bl[b].upval = TRUE, !.needclose = TRUE]

marktobeclosed(f) ==
    [f EXCEPT !.bl[Len(f.bl)].upval = TRUE, !.bl[Len(f.bl)].tbc = TRUE, !.needclose = TRUE]

newupvalue(f, name, v) ==
    [f EXCEPT !.up = Append(@,
        [name |-> name, instack |-> v.k = "VLOCAL", idx |-> v.i,
         kind |-> IF v.k = "VLOCAL" THEN f.prev.vars[v.x].kind ELSE f.prev.up[v.i + 1].kind])]

\* The indices of the upvalues with a name, from 1; at most one.
searchupvalue(f, name) == {i \in DOMAIN f.up : f.up[i].name = name}

\* [f, e]; what is found in an enclosing function becomes an upvalue of every
\* function between.  A variable that is not found stays VGLOBAL.
RECURSIVE singlevaraux(_, _, _, _)
singlevaraux(f, n, var, base) ==
    LET found == searchvar(f, n, var)
        tab   == IF found.k = "VVARGVAR" THEN luaK_vapar2local(f, found) ELSE R(f, found)
        ups   == searchupvalue(f, n)
        outer == singlevaraux(f.prev, n, [found EXCEPT !.k = "VGLOBAL"], FALSE)
        g     == [f EXCEPT !.prev = outer.f]
    IN  IF found.k # "VNONE"
        THEN IF base THEN R(f, found)
             ELSE IF tab.e.k = "VLOCAL" THEN R(markupval(tab.f, tab.e.x), tab.e)
             ELSE tab
        ELSE IF ups # {} THEN R(f, Expr("VUPVAL", Min(ups) - 1, 0))
        ELSE IF f.prev = <<>> THEN R(f, [found EXCEPT !.k = "VGLOBAL"])
        ELSE IF outer.e.k \in {"VLOCAL", "VUPVAL"}
        THEN R(newupvalue(g, n, outer.e), Expr("VUPVAL", Len(f.up), 0))
        ELSE R(g, outer.e)

Unknown == Expr("VGLOBAL", -1, "")

\* _ENV.name, [p, e].
buildglobal(p, name) ==
    LET env == singlevaraux(p.f, "_ENV", Unknown, TRUE)
        up  == luaK_exp2anyregup(env.f, env.e)
    IN  Lift(Unless(p, env.e.k # "VGLOBAL", "_ENV is global"),
             luaK_indexed(up.f, up.e, Expr("VKSTR", 0, String(name))))

buildvar(p, name) ==
    LET s == singlevaraux(p.f, name, Unknown, TRUE)
        q == Unless(On(p, s.f), s.e.i # -2, "not declared")
        g == buildglobal(q, name)
    IN  IF s.e.k # "VGLOBAL" THEN Lift(p, s)
        ELSE IF s.e.x = "GDKCONST" THEN [g EXCEPT !.e.ro = TRUE] ELSE g

\* Constants are not assigned to.
check_readonly(p, e) ==
    LET const == CASE e.k = "VCONST" -> TRUE
                   [] e.k \in {"VLOCAL", "VVARGVAR"} -> p.f.vars[e.x].kind # "VDKREG"
                   [] e.k = "VUPVAL" -> p.f.up[e.i + 1].kind # "VDKREG"
                   [] e.k \in {"VVARGIND", "VINDEXUP", "VINDEXSTR", "VINDEXED"} -> e.ro
                   [] OTHER -> FALSE
        q == Unless(p, ~const, "const")
    IN  IF e.k = "VVARGIND" THEN PE(On(q, [q.f EXCEPT !.vatab = TRUE]), [e EXCEPT !.k = "VINDEXED"])
        ELSE PE(q, e)

\* nexps values, the last of them e, for nvars variables.
adjust_assign(f, nvars, nexps, e) ==
    LET needed == nvars - nexps
        g      == [f EXCEPT !.maxstack = Max({@, f.freereg + needed})]
        multi  == luaK_setreturns(g, e, Max({needed + 1, 0}))
        v      == IF e.k # "VVOID" THEN luaK_exp2nextreg(g, e).f ELSE g
        w      == IF needed > 0 THEN luaK_nil(v, v.freereg, needed) ELSE v
        all    == IF hasmultret(e) THEN multi ELSE w
    IN  IF needed > 0 THEN luaK_reserveregs(all, needed)
        ELSE [all EXCEPT !.freereg = @ + needed]

-----------------------------------------------------------------------------
(* Blocks, labels and gotos.                                               *)

NewLabel(f, name, pc) == [name |-> name, pc |-> pc, nactvar |-> f.nactvar, close |-> FALSE]

\* A goto leaves room for a CLOSE after its jump.
newgotoentry(f, name) ==
    LET g == luaK_codeABC(luaK_jump(f), "CLOSE", 0, 1, 0)
    IN  [g EXCEPT !.gts = Append(@, NewLabel(f, name, Pc(f)))]

createlabel(f, name, last) ==
    LET g == luaK_getlabel(f)
        l == NewLabel(f, name, Pc(f))
    IN  [g EXCEPT !.labels = Append(@,
            IF last THEN [l EXCEPT !.nactvar = f.bl[Len(f.bl)].nactvar] ELSE l)]

\* The jump moves down when a CLOSE must come before it.  vars still has the
\* variables of the block, which are not active any more.
closegoto(p, gt, label, bup, vars) ==
    LET f     == p.f
        close == gt.close \/ (label.nactvar < gt.nactvar /\ bup)
        level == reglevel([f EXCEPT !.vars = vars], label.nactvar)
        moved == [f EXCEPT !.code[gt.pc + 2] = f.code[gt.pc + 1],
                           !.code[gt.pc + 1] = [op |-> "CLOSE", a |-> level, b |-> 0, c |-> 0, k |-> 0]]
    IN  On(Unless(p, gt.nactvar >= label.nactvar, "jumps into scope"),
           IF close THEN luaK_patchlist(moved, gt.pc + 1, label.pc)
                    ELSE luaK_patchlist(f, gt.pc, label.pc))

\* The labels with a name, without the first ilb; the first of them counts.
findlabel(f, name, ilb) == {l \in (ilb + 1)..Len(f.labels) : f.labels[l].name = name}

\* Gotos of the block that ends: those with a label are done, the others leave
\* it.
RECURSIVE solvegotos(_, _, _, _)
solvegotos(p, bl, igt, vars) ==
    LET f      == p.f
        old    == [f EXCEPT !.vars = vars]
        gt     == f.gts[igt]
        labels == findlabel(f, gt.name, bl.firstlabel)
        closed == closegoto(p, gt, f.labels[Min(labels)], bl.upval, vars)
        out    == [gt EXCEPT !.nactvar = bl.nactvar,
                             !.close = @ \/ (bl.upval /\ reglevel(old, gt.nactvar) > reglevel(f, bl.nactvar))]
    IN  IF igt > Len(f.gts) THEN On(p, [f EXCEPT !.labels = SubSeq(@, 1, bl.firstlabel)])
        ELSE IF labels = {} THEN solvegotos(On(p, [f EXCEPT !.gts[igt] = out]), bl, igt + 1, vars)
        ELSE solvegotos(On(closed, [closed.f EXCEPT !.gts = RemoveAt(@, igt)]), bl, igt, vars)

enterblock(f, isloop) ==
    [f EXCEPT !.bl = Append(@,
        [isloop |-> isloop, nactvar |-> f.nactvar, firstlabel |-> Len(f.labels),
         firstgoto |-> Len(f.gts), upval |-> FALSE,
         tbc |-> f.bl # <<>> /\ f.bl[Len(f.bl)].tbc])]

\* isloop is 2 for a loop with a break.
leaveblock(p) ==
    LET f     == p.f
        bl    == f.bl[Len(f.bl)]
        level == reglevel(f, bl.nactvar)
        c == IF Len(f.bl) > 1 /\ bl.upval THEN luaK_codeABC(f, "CLOSE", level, 0, 0) ELSE f
        g == removevars([c EXCEPT !.freereg = level], bl.nactvar)
        h == IF bl.isloop = 2 THEN createlabel(g, "break", FALSE) ELSE g
        q == solvegotos(On(p, h), bl, bl.firstgoto + 1, f.vars)
    IN  On(Unless(q, Len(f.bl) > 1 \/ Len(q.f.gts) = bl.firstgoto, "no visible label"),
           [q.f EXCEPT !.bl = Front(@)])

\* An empty prototype; its flags are vahid and vatab.
luaF_newproto ==
    [code |-> <<>>, k |-> <<>>, p |-> <<>>, up |-> <<>>, maxstack |-> 0, numparams |-> 0,
     vahid |-> FALSE, vatab |-> FALSE]

\* The state of a function that is compiled, with its prototype; registers 0
\* and 1 are always there.
NewFunc(prev) ==
    [luaF_newproto EXCEPT !.maxstack = 2] @@
    [prev |-> prev, lasttarget |-> 0, freereg |-> 0, vars |-> <<>>, nactvar |-> 0,
     needclose |-> FALSE, bl |-> <<>>, labels |-> <<>>, gts |-> <<>>, vararg |-> FALSE,
     unfit |-> FALSE]

open_func(p) == On(p, enterblock(NewFunc(p.f), 0))

\* The function becomes a prototype; its index in protos is Len(protos).
close_func(p) ==
    LET q == leaveblock(On(p, luaK_ret(p.f, luaY_nvarstack(p.f), 0)))
        f == luaK_finish(q.f)
    IN  [q EXCEPT !.f = f.prev, !.err = IF @ = "" /\ f.unfit THEN "assertion" ELSE @,
                  !.protos = Append(@, [code |-> f.code, k |-> f.k, p |-> f.p, up |-> f.up,
                     maxstack |-> f.maxstack, numparams |-> f.numparams,
                     vahid |-> f.vahid, vatab |-> f.vatab])]

block_follow(p, withuntil) ==
    Tk(p) \in {"else", "elseif", "end", "<eof>"} \/ (withuntil /\ Tk(p) = "until")

RECURSIVE statlist(_), statement(_), subexpr(_, _)

expr(p)  == subexpr(p, 0)
block(p) == leaveblock(statlist(On(p, enterblock(p.f, 0))))

-----------------------------------------------------------------------------
(* Expressions.                                                            *)

fieldsel(p, v) ==
    LET r == luaK_exp2anyregup(p.f, v)
        q == luaX_next(p)
    IN  Lift(luaX_next(q), luaK_indexed(r.f, r.e, Expr("VKSTR", 0, String(Val(q)))))

yindex(p) ==
    LET x == expr(luaX_next(p))
        r == Lift(x.p, luaK_exp2val(x.p.f, x.e))
    IN  PE(luaX_next(r.p), r.e)

\* The items of a constructor in table t: the last list item read, how many
\* fields and list items there were, how many of these are not stored yet, and
\* how many may be.
ConsControl(t, max) == [v |-> VOID, t |-> t, nh |-> 0, na |-> 0, tostore |-> 0, max |-> max]

recfield(p, cc) ==
    LET reg == p.f.freereg
        key == IF Tk(p) = "name" THEN PE(luaX_next(p), Expr("VKSTR", 0, String(Val(p))))
               ELSE yindex(p)
        tab == luaK_indexed(key.p.f, cc.t, key.e)
        val == expr(On(luaX_next(key.p), tab.f))
    IN  [p  |-> On(val.p, [luaK_storevar(val.p.f, tab.e, val.e) EXCEPT !.freereg = reg]),
         cc |-> [cc EXCEPT !.nh = @ + 1]]

listfield(p, cc) ==
    LET x == expr(p)
    IN  [p |-> x.p, cc |-> [cc EXCEPT !.v = x.e, !.tostore = @ + 1]]

closelistfield(p, cc) ==
    LET f == luaK_exp2nextreg(p.f, cc.v).f
    IN  IF cc.v.k = "VVOID" THEN [p |-> p, cc |-> cc]
        ELSE IF cc.tostore < cc.max THEN [p |-> On(p, f), cc |-> [cc EXCEPT !.v = VOID]]
        ELSE [p  |-> On(p, luaK_setlist(f, cc.t.i, cc.na, cc.tostore)),
              cc |-> [cc EXCEPT !.v = VOID, !.na = @ + cc.tostore, !.tostore = 0]]

lastlistfield(p, cc) ==
    LET multi == luaK_setlist(setmultret(p.f, cc.v), cc.t.i, cc.na, LUA_MULTRET)
        f     == IF cc.v.k = "VVOID" THEN p.f ELSE luaK_exp2nextreg(p.f, cc.v).f
    IN  IF cc.tostore = 0 THEN [p |-> p, cc |-> cc]
        ELSE IF hasmultret(cc.v)
        THEN [p |-> On(p, multi), cc |-> [cc EXCEPT !.na = @ + cc.tostore - 1]]
        ELSE [p  |-> On(p, luaK_setlist(f, cc.t.i, cc.na, cc.tostore)),
              cc |-> [cc EXCEPT !.na = @ + cc.tostore]]

field(p, cc) ==
    IF Tk(p) = "[" \/ (Tk(p) = "name" /\ lookahead(p) = "=") THEN recfield(p, cc)
    ELSE listfield(p, cc)

RECURSIVE fields(_, _)
fields(p0, cc0) ==
    LET c == closelistfield(p0, cc0)
        r == field(c.p, c.cc)
    IN  IF Tk(p0) = "}" THEN [p |-> p0, cc |-> cc0]
        ELSE IF Tk(r.p) = "," THEN fields(luaX_next(r.p), r.cc) ELSE r

maxtostore(f) ==
    LET free == MAX_FSTACK - f.freereg
    IN  IF free >= 160 THEN free \div 5 ELSE IF free >= 80 THEN 10 ELSE 1

constructor(p) ==
    LET f == luaK_codeABC(luaK_codeABC(p.f, "NEWTABLE", 0, 0, 0), "EXTRAARG", 0, 0, 0)
        t == Expr("VNONRELOC", f.freereg, 0)
        g == luaK_reserveregs(f, 1)
        r == fields(On(luaX_next(p), g), ConsControl(t, maxtostore(g)))
        l == lastlistfield(luaX_next(r.p), r.cc)
    IN  PE(On(l.p, luaK_settablesize(l.p.f, Pc(p.f), t.i, l.cc.na, l.cc.nh)), t)

\* Parameters up to the ")".
RECURSIVE params(_)
params(p) ==
    CASE Tk(p) = "name" -> params(testnext(luaX_next(On(p, new_localvar(p.f, Val(p)))), ","))
      [] Tk(p) = "..."  ->
            LET q == luaX_next(p)
                f == [p.f EXCEPT !.vararg = TRUE]
            IN  IF Tk(q) = "name" THEN luaX_next(On(q, new_varkind(f, Val(q), "RDKVAVAR")))
                ELSE On(q, new_localvar(f, "(vararg table)"))
      [] OTHER -> p

setvararg(f) == luaK_codeABC([f EXCEPT !.vahid = TRUE], "VARARGPREP", 0, 0, 0)

parlist(p) ==
    LET q == params(p)
        n == Len(q.f.vars) - q.f.nactvar - (IF q.f.vararg THEN 1 ELSE 0)
        f == adjustlocalvars(q.f, n)
        g == [f EXCEPT !.numparams = f.nactvar]
        h == IF f.vararg THEN adjustlocalvars(setvararg(g), 1) ELSE g
    IN  On(q, luaK_reserveregs(h, h.nactvar))

\* A prototype is known by its index in protos.
addprototype(f, n) == [f EXCEPT !.p = Append(@, n)]

codeclosure(f0) ==
    LET f == [f0 EXCEPT !.prev = <<>>]
    IN  luaK_exp2nextreg(luaK_codeABC(f, "CLOSURE", 0, Len(f.p) - 1, 0), Expr("VRELOC", Pc(f), 0))

\* From "(" to "end".  The closure is made in the enclosing function, which
\* close_func does not touch.
body(p, ismethod) ==
    LET o == open_func(p)
        m == IF ismethod THEN On(o, adjustlocalvars(new_localvar(o.f, "self"), 1)) ELSE o
        s == statlist(luaX_next(parlist(luaX_next(m))))
        c == close_func(luaX_next(s))
        f == addprototype(c.f, Len(c.protos))
        r == codeclosure(f)
    IN  PE(On(c, [r.f EXCEPT !.prev = f.prev]), r.e)

\* [p, e, n]: all but the last expression are in registers.
RECURSIVE MoreExps(_, _)
MoreExps(r, n) ==
    IF Tk(r.p) # "," THEN [p |-> r.p, e |-> r.e, n |-> n]
    ELSE MoreExps(expr(luaX_next(On(r.p, luaK_exp2nextreg(r.p.f, r.e).f))), n + 1)

explist(p) == MoreExps(expr(p), 1)

funcargs(p, fn) ==
    LET none  == Tk(p) = "(" /\ lookahead(p) = ")"
        list  == explist(luaX_next(p))
        a == CASE none -> PE(luaX_next(luaX_next(p)), VOID)
               [] Tk(p) = "(" /\ ~none ->
                     PE(luaX_next(IF hasmultret(list.e)
                                  THEN On(list.p, setmultret(list.p.f, list.e)) ELSE list.p),
                        list.e)
               [] Tk(p) = "{"  -> constructor(p)
               [] Tk(p) = "string" -> PE(luaX_next(p), Expr("VKSTR", 0, String(Val(p))))
        base  == fn.i
        f == IF hasmultret(a.e) \/ a.e.k = "VVOID" THEN a.p.f ELSE luaK_exp2nextreg(a.p.f, a.e).f
        nparams == IF hasmultret(a.e) THEN LUA_MULTRET ELSE f.freereg - (base + 1)
        g == luaK_codeABC(f, "CALL", base, nparams + 1, 2)
    IN  PE(On(a.p, [g EXCEPT !.freereg = base + 1]), Expr("VCALL", Pc(f), 0))

primaryexp(p) ==
    LET x == expr(luaX_next(p))
        q == luaX_next(x.p)
    IN  IF Tk(p) = "(" THEN Lift(q, luaK_dischargevars(q.f, x.e))
        ELSE buildvar(luaX_next(p), Val(p))

RECURSIVE SuffixedBy(_)
SuffixedBy(r) ==
    LET p == r.p
        u == luaK_exp2anyregup(p.f, r.e)
        key == yindex(On(p, u.f))
        n == luaX_next(p)
        m == luaK_self(p.f, r.e, Expr("VKSTR", 0, String(Val(n))))
        c == luaK_exp2nextreg(p.f, r.e)
    IN  CASE Tk(p) = "." -> SuffixedBy(fieldsel(p, r.e))
          [] Tk(p) = "[" -> SuffixedBy(Lift(key.p, luaK_indexed(key.p.f, u.e, key.e)))
          [] Tk(p) = ":" -> SuffixedBy(funcargs(On(luaX_next(n), m.f), m.e))
          [] Tk(p) \in {"(", "string", "{"} -> SuffixedBy(funcargs(On(p, c.f), c.e))
          [] OTHER -> r

suffixedexp(p) == SuffixedBy(primaryexp(p))

simpleexp(p) ==
    LET q == luaX_next(p)
        v == luaK_codeABC(p.f, "VARARG", 0, p.f.numparams, 1)
    IN  CASE Tk(p) = "flt"    -> PE(q, Expr("VKFLT", 0, Val(p)))
          [] Tk(p) = "int"    -> PE(q, Expr("VKINT", 0, Val(p)))
          [] Tk(p) = "string" -> PE(q, Expr("VKSTR", 0, String(Val(p))))
          [] Tk(p) = "nil"    -> PE(q, Expr("VNIL", 0, 0))
          [] Tk(p) = "true"   -> PE(q, Expr("VTRUE", 0, 0))
          [] Tk(p) = "false"  -> PE(q, Expr("VFALSE", 0, 0))
          [] Tk(p) = "..."    -> PE(On(Unless(q, p.f.vararg, "cannot use '...'"), v),
                                    Expr("VVARARG", Pc(p.f), 0))
          [] Tk(p) = "{"      -> constructor(p)
          [] Tk(p) = "function" -> body(q, FALSE)
          [] OTHER            -> suffixedexp(p)

getunopr == ("not" :> "NOT") @@ ("-" :> "UNM") @@ ("~" :> "BNOT") @@ ("#" :> "LEN")

getbinopr ==
    ("+" :> "ADD") @@ ("-" :> "SUB") @@ ("*" :> "MUL") @@ ("%" :> "MOD") @@ ("//" :> "IDIV") @@
    ("&" :> "BAND") @@ ("|" :> "BOR") @@ ("~" :> "BXOR") @@ ("<<" :> "SHL") @@ (">>" :> "SHR") @@
    (".." :> "CONCAT") @@ ("~=" :> "NE") @@ ("==" :> "EQ") @@ ("<" :> "LT") @@ ("<=" :> "LE") @@
    (">" :> "GT") @@ (">=" :> "GE") @@ ("and" :> "AND") @@ ("or" :> "OR")

\* Left and right priority.
priority ==
    [ADD |-> <<10, 10>>, SUB |-> <<10, 10>>, MUL |-> <<11, 11>>, MOD |-> <<11, 11>>,
     IDIV |-> <<11, 11>>, BAND |-> <<6, 6>>, BOR |-> <<4, 4>>, BXOR |-> <<5, 5>>,
     SHL |-> <<7, 7>>, SHR |-> <<7, 7>>, CONCAT |-> <<9, 8>>,
     EQ |-> <<3, 3>>, NE |-> <<3, 3>>, LT |-> <<3, 3>>, LE |-> <<3, 3>>, GT |-> <<3, 3>>,
     GE |-> <<3, 3>>, AND |-> <<2, 2>>, OR |-> <<1, 1>>]
UNARY_PRIORITY == 12

RECURSIVE Operators(_, _)
Operators(r, limit) ==
    LET op  == getbinopr[Tk(r.p)]
        i   == luaK_infix(r.p.f, op, r.e)
        v2  == subexpr(On(luaX_next(r.p), i.f), priority[op][2])
    IN  IF Tk(r.p) \notin DOMAIN getbinopr THEN r
        ELSE IF priority[op][1] <= limit THEN r
        ELSE Operators(Lift(v2.p, luaK_posfix(v2.p.f, op, i.e, v2.e)), limit)

subexpr(p, limit) ==
    LET u == subexpr(luaX_next(p), UNARY_PRIORITY)
    IN  Operators(IF Tk(p) \in DOMAIN getunopr
                  THEN Lift(u.p, luaK_prefix(u.p.f, getunopr[Tk(p)], u.e))
                  ELSE simpleexp(p), limit)

-----------------------------------------------------------------------------
(* Assignments.                                                            *)

\* Indexed targets lhs that use the local variable or upvalue v, a target too,
\* use a copy of it: [f, lhs].
check_conflict(f, lhs, v) ==
    LET extra == f.freereg
        UpIn(x)  == x.k = "VINDEXUP" /\ v.k = "VUPVAL" /\ x.i = v.i
        TabIn(x) == vkisindexed(x) /\ x.k # "VINDEXUP" /\ v.k = "VLOCAL" /\ x.i = v.i
        KeyIn(x) == x.k = "VINDEXED" /\ v.k = "VLOCAL" /\ x.x = v.i
        Safe(x)  == IF UpIn(x) THEN Kind(x, "VINDEXSTR", extra)
                    ELSE [x EXCEPT !.i = IF TabIn(x) THEN extra ELSE @,
                                   !.x = IF KeyIn(x) THEN extra ELSE @]
        copy == luaK_codeABC(f, IF v.k = "VLOCAL" THEN "MOVE" ELSE "GETUPVAL", extra, v.i, 0)
    IN  [f   |-> IF \E i \in DOMAIN lhs : UpIn(lhs[i]) \/ TabIn(lhs[i]) \/ KeyIn(lhs[i])
                 THEN luaK_reserveregs(copy, 1) ELSE f,
         lhs |-> [i \in DOMAIN lhs |-> Safe(lhs[i])]]

storevartop(f, var) == luaK_storevar(f, var, Expr("VNONRELOC", f.freereg - 1, 0))

\* The targets, in the order they are written.
RECURSIVE Targets(_, _)
Targets(p, lhs) ==
    LET q == check_readonly(p, lhs[Len(lhs)])
        all == [lhs EXCEPT ![Len(lhs)] = q.e]
        n == suffixedexp(luaX_next(q.p))
        c == IF vkisindexed(n.e) THEN [f |-> n.p.f, lhs |-> all] ELSE check_conflict(n.p.f, all, n.e)
    IN  IF Tk(q.p) = "," THEN Targets(On(n.p, c.f), Append(c.lhs, n.e))
        ELSE [p |-> q.p, lhs |-> all]

\* Values are stored from the last to the first.
restassign(p, v) ==
    LET t == Targets(p, <<v>>)
        n == Len(t.lhs)
        x == explist(luaX_next(t.p))
        one  == luaK_setoneret(x.p.f, x.e)
        last == luaK_storevar(one.f, t.lhs[n], one.e)
        even == x.n = n
        rest == IF even THEN Front(t.lhs) ELSE t.lhs
    IN  On(x.p, FoldRight(LAMBDA var, f : storevartop(f, var), rest,
                          IF even THEN last ELSE adjust_assign(x.p.f, n, x.n, x.e)))

-----------------------------------------------------------------------------
(* Statements.                                                             *)

\* [p, l]: the list of jumps taken when the condition is false.
cond(p) ==
    LET x == expr(p)
        r == luaK_goiftrue(x.p.f, IF x.e.k = "VNIL" THEN [x.e EXCEPT !.k = "VFALSE"] ELSE x.e)
    IN  [p |-> On(x.p, r.f), l |-> r.e.f]

jumpto(f, target) == luaK_patchlist(luaK_jump(f), Pc(f), target)

breakstat(p) ==
    LET loops == {b \in DOMAIN p.f.bl : p.f.bl[b].isloop > 0}
        q     == luaX_next(p)
    IN  IF loops = {} THEN luaK_semerror(q, "break outside loop")
        ELSE On(q, newgotoentry([q.f EXCEPT !.bl[Max(loops)].isloop = 2], "break"))

RECURSIVE SkipLabels(_)
SkipLabels(p) == IF Tk(p) \in {";", "::"} THEN SkipLabels(statement(p)) ELSE p

\* After the name of the label.
labelstat(p, name) ==
    LET q == SkipLabels(luaX_next(p))
        repeated == \E i \in DOMAIN q.f.labels : q.f.labels[i].name = name
    IN  On(Unless(q, ~repeated, "label already defined"),
           createlabel(q.f, name, block_follow(q, FALSE)))

whilestat(p) ==
    LET c == cond(On(luaX_next(p), luaK_getlabel(p.f)))
        b == block(luaX_next(On(c.p, enterblock(c.p.f, 1))))
        l == leaveblock(luaX_next(On(b, jumpto(b.f, Pc(p.f)))))
    IN  On(l, luaK_patchtohere(l.f, c.l))

\* The condition sees the variables of the block; the way back closes them too.
repeatstat(p) ==
    LET f  == enterblock(enterblock(luaK_getlabel(p.f), 1), 0)
        c  == cond(luaX_next(statlist(On(luaX_next(p), f))))
        bl == Last(c.p.f.bl)
        q  == leaveblock(c.p)
        g  == luaK_patchtohere(luaK_jump(q.f), c.l)
        h  == luaK_jump(luaK_codeABC(g, "CLOSE", reglevel(g, bl.nactvar), 0, 0))
        back == IF bl.upval THEN luaK_patchlist(luaK_patchtohere(h, Pc(q.f)), Pc(h) - 1, Pc(p.f))
                ELSE luaK_patchlist(q.f, c.l, Pc(p.f))
    IN  leaveblock(On(q, back))

exp1(p) == LET x == expr(p) IN On(x.p, luaK_exp2nextreg(x.p.f, x.e).f)

fixforjump(p, pc, dest, back) ==
    LET offset == IF back THEN (pc + 1) - dest ELSE dest - (pc + 1)
    IN  On(Unless(p, offset <= MAXARG_Bx, "control structure too long"),
           [p.f EXCEPT !.code[pc + 1].b = offset])

\* From "do"; the block of the body is inside that of its variables.
forbody(p, base, nvars, isgen) ==
    LET prep == Pc(p.f)
        f == luaK_codeABC(p.f, IF isgen THEN "TFORPREP" ELSE "FORPREP", base, 0, 0)
        g == enterblock([f EXCEPT !.freereg = @ - 1], 0)
        b == leaveblock(block(luaX_next(On(p, luaK_reserveregs(adjustlocalvars(g, nvars), nvars)))))
        q == fixforjump(On(b, luaK_getlabel(b.f)), prep, Pc(b.f), FALSE)
        h == IF isgen THEN luaK_codeABC(q.f, "TFORCALL", base, 0, nvars) ELSE q.f
        e == luaK_codeABC(h, IF isgen THEN "TFORLOOP" ELSE "FORLOOP", base, 0, 0)
    IN  fixforjump(On(q, e), Pc(h), prep + 1, TRUE)

fornum(p, varname) ==
    LET base == p.f.freereg
        f == new_varkind(new_localvar(new_localvar(p.f, "(for state)"), "(for state)"),
                         varname, "RDKCONST")
        q == exp1(luaX_next(exp1(luaX_next(On(p, f)))))
        s == IF Tk(q) = "," THEN exp1(luaX_next(q))
             ELSE On(q, luaK_reserveregs(luaK_int(q.f, q.f.freereg, 1), 1))
    IN  forbody(On(s, adjustlocalvars(s.f, 2)), base, 1, FALSE)

RECURSIVE ForNames(_)
ForNames(p) ==
    IF Tk(p) # "," THEN p
    ELSE ForNames(luaX_next(luaX_next(On(p, new_localvar(p.f, p.toks[p.at + 1][2])))))

forlist(p, indexname) ==
    LET base == p.f.freereg
        s == new_localvar(new_localvar(new_localvar(p.f, "(for state)"), "(for state)"), "(for state)")
        q == ForNames(On(p, new_varkind(s, indexname, "RDKCONST")))
        x == explist(luaX_next(q))
        f == marktobeclosed(adjustlocalvars(adjust_assign(x.p.f, 4, x.n, x.e), 3))
        g == [f EXCEPT !.maxstack = Max({@, f.freereg + 2})]
    IN  forbody(On(x.p, g), base, Len(q.f.vars) - Len(p.f.vars) - 3, TRUE)

forstat(p) ==
    LET n == luaX_next(p)
        q == luaX_next(On(n, enterblock(n.f, 1)))
    IN  leaveblock(luaX_next(IF Tk(q) = "=" THEN fornum(q, Val(n)) ELSE forlist(q, Val(n))))

\* [p, l]: l is the list of jumps to the end.
test_then_block(p, escapelist) ==
    LET c == cond(luaX_next(p))
        b == block(luaX_next(c.p))
        j == luaK_concat(luaK_jump(b.f), escapelist, Pc(b.f))
        r == IF Tk(b) \in {"else", "elseif"} THEN j ELSE [f |-> b.f, l |-> escapelist]
    IN  [p |-> On(b, luaK_patchtohere(r.f, c.l)), l |-> r.l]

RECURSIVE ElseIfs(_)
ElseIfs(r) == IF Tk(r.p) = "elseif" THEN ElseIfs(test_then_block(r.p, r.l)) ELSE r

ifstat(p) ==
    LET r == ElseIfs(test_then_block(p, NO_JUMP))
        q == luaX_next(IF Tk(r.p) = "else" THEN block(luaX_next(r.p)) ELSE r.p)
    IN  On(q, luaK_patchtohere(q.f, r.l))

localfunc(p) == body(luaX_next(On(p, adjustlocalvars(new_localvar(p.f, Val(p)), 1))), FALSE).p

\* [p, kind].
getvarattribute(p, df) ==
    LET attr == p.toks[p.at + 1][2]
        q    == luaX_next(luaX_next(luaX_next(p)))
    IN  CASE Tk(p) # "<"      -> [p |-> p, kind |-> df]
          [] Tk(p) = "<" /\ attr = "const" -> [p |-> q, kind |-> "RDKCONST"]
          [] Tk(p) = "<" /\ attr = "close" -> [p |-> q, kind |-> "RDKTOCLOSE"]
          [] OTHER            -> [p |-> luaK_semerror(q, "unknown attribute"), kind |-> df]

\* Declared names, each with its attribute.
RECURSIVE LocalNames(_, _)
LocalNames(p, defkind) ==
    LET r == getvarattribute(luaX_next(p), defkind)
        q == On(r.p, new_varkind(r.p.f, Val(p), r.kind))
    IN  IF Tk(q) = "," THEN LocalNames(luaX_next(q), defkind) ELSE q

\* The value of a constant expression, as a set of at most one.
luaK_exp2const(e) ==
    IF hasjumps(e) \/ e.k \notin {"VFALSE", "VTRUE", "VNIL", "VKSTR", "VCONST", "VKINT", "VKFLT"} THEN {}
    ELSE IF e.k = "VCONST" THEN {e.x} ELSE {ConstantOf(e)}

checktoclose(f, tbc) ==
    LET g == marktobeclosed(f)
    IN  IF tbc = {} THEN f ELSE luaK_codeABC(g, "TBC", reglevel(g, Min(tbc) - 1), 0, 0)

\* A constant that the compiler knows has no register.
localstat(p) ==
    LET d == getvarattribute(p, "VDKREG")
        q == LocalNames(d.p, d.kind)
        n == Len(q.f.vars) - Len(p.f.vars)
        tbc == {i \in (Len(p.f.vars) + 1)..Len(q.f.vars) : q.f.vars[i].kind = "RDKTOCLOSE"}
        s == Unless(q, Cardinality(tbc) <= 1, "multiple to-be-closed variables")
        x == IF Tk(s) = "=" THEN explist(luaX_next(s)) ELSE [p |-> s, e |-> VOID, n |-> 0]
        f == x.p.f
        const == {v \in luaK_exp2const(x.e) : n = x.n /\ Last(f.vars).kind = "RDKCONST"}
        ctc == [adjustlocalvars([f EXCEPT !.vars[Len(f.vars)].kind = "RDKCTC",
                                          !.vars[Len(f.vars)].val = CHOOSE v \in const : TRUE], n - 1)
                  EXCEPT !.nactvar = @ + 1]
    IN  On(x.p, checktoclose(IF const # {} THEN ctc
                             ELSE adjustlocalvars(adjust_assign(f, n, x.n, x.e), n), tbc))

getglobalattribute(p, df) ==
    LET r == getvarattribute(p, df)
    IN  CASE r.kind = "RDKTOCLOSE" -> [r EXCEPT !.p = luaK_semerror(@, "global to-be-closed")]
          [] r.kind = "RDKCONST"   -> [r EXCEPT !.kind = "GDKCONST"]
          [] OTHER                 -> r

\* A global variable that is declared with a value must be nil so far.
checkglobal(p, varname) ==
    LET v == buildglobal(p, varname) IN On(v.p, luaK_codecheckglobal(v.p.f, v.e, v.e.ks))

RECURSIVE initglobal(_, _, _, _)
initglobal(p, nvars, firstidx, n) ==
    LET x    == explist(luaX_next(p))
        name == p.f.vars[firstidx + n].name
        v    == buildglobal(p, name)
        r    == checkglobal(initglobal(v.p, nvars, firstidx, n + 1), name)
    IN  IF n = nvars THEN On(x.p, adjust_assign(x.p.f, nvars, x.n, x.e))
        ELSE On(r, storevartop(r.f, v.e))

RECURSIVE GlobalNames(_, _)
GlobalNames(p, defkind) ==
    LET r == getglobalattribute(luaX_next(p), defkind)
        q == On(r.p, new_varkind(r.p.f, Val(p), r.kind))
    IN  IF Tk(q) = "," THEN GlobalNames(luaX_next(q), defkind) ELSE q

globalnames(p, defkind) ==
    LET q == GlobalNames(p, defkind)
        n == Len(q.f.vars) - Len(p.f.vars)
        r == IF Tk(q) = "=" THEN initglobal(q, n, Len(p.f.vars) + 1, 0) ELSE q
    IN  On(r, [r.f EXCEPT !.nactvar = @ + n])

globalstat(p) ==
    LET d == getglobalattribute(p, "GDKREG")
        f == new_varkind(d.p.f, "*", d.kind)
    IN  IF Tk(d.p) = "*" THEN luaX_next(On(d.p, [f EXCEPT !.nactvar = @ + 1]))
        ELSE globalnames(d.p, d.kind)

globalfunc(p) ==
    LET f == new_varkind(p.f, Val(p), "GDKREG")
        v == buildglobal(On(p, [f EXCEPT !.nactvar = @ + 1]), Val(p))
        b == body(luaX_next(v.p), FALSE)
        q == checkglobal(b.p, Val(p))
    IN  On(q, luaK_storevar(q.f, v.e, b.e))

\* p is behind "global".
globalstatfunc(p) == IF Tk(p) = "function" THEN globalfunc(luaX_next(p)) ELSE globalstat(p)

\* [p, e, method].
RECURSIVE funcname(_, _)
funcname(p, v) ==
    LET s == fieldsel(p, v)
    IN  CASE Tk(p) = "." -> funcname(s.p, s.e)
          [] Tk(p) = ":" -> [p |-> s.p, e |-> s.e, method |-> TRUE]
          [] OTHER       -> [p |-> p, e |-> v, method |-> FALSE]

funcstat(p) ==
    LET v == buildvar(luaX_next(luaX_next(p)), p.toks[p.at + 1][2])
        n == funcname(v.p, v.e)
        c == check_readonly(n.p, n.e)
        b == body(c.p, n.method)
    IN  On(b.p, luaK_storevar(b.p.f, c.e, b.e))

exprstat(p) ==
    LET v == suffixedexp(p)
    IN  IF Tk(v.p) \in {"=", ","} THEN restassign(v.p, v.e)
        ELSE On(v.p, [v.p.f EXCEPT !.code[v.e.i + 1].c = 1])

\* A call is a tail call unless something has to be closed after it.
retstat_bug(p) ==
    LET first == luaY_nvarstack(p.f)
        x     == explist(p)
        multi == setmultret(x.p.f, x.e)
        tail  == [multi EXCEPT !.code[x.e.i + 1].op = IF x.n = 1 /\ x.e.k = "VCALL" THEN "TAILCALL" ELSE @]
        any   == luaK_exp2anyreg(x.p.f, x.e)
    IN  CASE block_follow(p, TRUE) \/ Tk(p) = ";" -> testnext(On(p, luaK_ret(p.f, first, 0)), ";")
          [] hasmultret(x.e) -> testnext(On(x.p, luaK_ret(tail, first, LUA_MULTRET)), ";")
          [] x.n = 1 -> testnext(On(x.p, luaK_ret(any.f, any.e.i, 1)), ";")
          [] OTHER -> testnext(On(x.p, luaK_ret(luaK_exp2nextreg(x.p.f, x.e).f, first, x.n)), ";")
retstat(p) ==
    LET first == luaY_nvarstack(p.f)
        void  == block_follow(p, TRUE) \/ Tk(p) = ";"
        x     == explist(p)
        multi == setmultret(x.p.f, x.e)
        tail  == [multi EXCEPT !.code[x.e.i + 1].op = "TAILCALL",
                               !.unfit = @ \/ multi.code[x.e.i + 1].a # first]
        any   == luaK_exp2anyreg(x.p.f, x.e)
        next  == luaK_exp2nextreg(x.p.f, x.e).f
        q == CASE void -> On(p, luaK_ret(p.f, first, 0))
               [] ~void /\ hasmultret(x.e) ->
                     On(x.p, luaK_ret(IF x.e.k = "VCALL" /\ x.n = 1 /\ ~Last(p.f.bl).tbc THEN tail ELSE multi,
                                      first, LUA_MULTRET))
               [] ~void /\ ~hasmultret(x.e) /\ x.n = 1 -> On(x.p, luaK_ret(any.f, any.e.i, 1))
               [] OTHER -> On(x.p, luaK_ret([next EXCEPT !.unfit = @ \/ x.n # next.freereg - first],
                                            first, x.n))
    IN  testnext(q, ";")

statement(p) ==
    LET n  == luaX_next(p)
        fn == Tk(n) = "function"
        q  == CASE Tk(p) = ";"      -> n
                [] Tk(p) = "if"     -> ifstat(p)
                [] Tk(p) = "while"  -> whilestat(p)
                [] Tk(p) = "do"     -> luaX_next(block(n))
                [] Tk(p) = "for"    -> forstat(p)
                [] Tk(p) = "repeat" -> repeatstat(p)
                [] Tk(p) = "function" -> funcstat(p)
                [] Tk(p) = "local"  -> IF fn THEN localfunc(luaX_next(n)) ELSE localstat(n)
                [] Tk(p) = "global" -> globalstatfunc(n)
                [] Tk(p) = "::"     -> labelstat(luaX_next(n), Val(n))
                [] Tk(p) = "return" -> retstat(n)
                [] Tk(p) = "break"  -> breakstat(p)
                [] Tk(p) = "goto"   -> On(luaX_next(n), newgotoentry(n.f, Val(n)))
                [] OTHER            -> exprstat(p)
        nvar == luaY_nvarstack(q.f)
    IN  On(q, [q.f EXCEPT !.freereg = nvar,
                          !.unfit = @ \/ q.f.maxstack < q.f.freereg \/ q.f.freereg < nvar])

\* A return ends the block.
statlist(p) ==
    IF block_follow(p, TRUE) THEN p
    ELSE IF Tk(p) = "return" THEN statement(p) ELSE statlist(statement(p))

\* The main function has _ENV as its only upvalue and takes any arguments.
mainfunc(toks) ==
    LET p == open_func([toks |-> toks, at |-> 1, f |-> <<>>, protos |-> <<>>, err |-> ""])
        f == [setvararg(p.f) EXCEPT !.vararg = TRUE,
                !.up = <<[name |-> "_ENV", instack |-> TRUE, idx |-> 0, kind |-> "VDKREG"]>>]
    IN  close_func(statlist(On(p, f)))
=============================================================================
