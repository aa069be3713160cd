------------------------------- MODULE LuaCode -------------------------------
(***************************************************************************)
(* lcode.c: the code generator.  A FuncState f holds the function that is  *)
(* being compiled; an operation takes f, and mostly an expression e, and   *)
(* gives both back as [f, e].  An instruction is [op, a, b, c, k]; a jump  *)
(* has its offset in b.  An expdesc is [k, i, x, ro, ks, t, f]: its kind,  *)
(* info (a register, a pc, an index), its value or key, whether it is read *)
(* only, the index of a string key, and its lists of jumps.  The sizes of  *)
(* operands are constants, so that the code for what does not fit is used. *)
(* Operators named _bug are broken variants that no definition uses.       *)
(***************************************************************************)
EXTENDS Integers, Sequences, FiniteSetsExt, LuaValues

CONSTANTS MAXARG_C, MAXARG_Bx, MAXARG_vC, MAXINDEXRK

ASSUME OperandAssumption ==
    /\ MAXARG_C \in Nat /\ MAXARG_Bx \in Nat /\ MAXARG_vC \in Nat /\ MAXINDEXRK \in Nat

NO_JUMP     == -1
NO_REG      == 255
LUA_MULTRET == -1

Expr(k, i, x) == [k |-> k, i |-> i, x |-> x, ro |-> FALSE, ks |-> -1,
                  t |-> NO_JUMP, f |-> NO_JUMP]
Kind(e, k, i) == [e EXCEPT !.k = k, !.i = i]
R(f, e)       == [f |-> f, e |-> e]

hasjumps(e) == e.t # e.f

Pc(f)      == Len(f.code)
At(f, pc)  == f.code[pc + 1]
Unfit(f)   == [f EXCEPT !.unfit = TRUE]     \* a lua_assert of lcode.c fails

\* Registers that variables use: the last variable that is not a compile-time
\* constant ends them.
luaY_nvarstack(f) ==
    LET regs == {i \in 1..f.nactvar : f.vars[i].kind \notin {"RDKCTC", "GDKREG", "GDKCONST"}}
    IN  IF regs = {} THEN 0 ELSE f.vars[Max(regs)].ridx + 1

luaK_code(f, i)              == [f EXCEPT !.code = Append(@, i)]
luaK_codeABCk(f, op, a, b, c, k) ==
    luaK_code(f, [op |-> op, a |-> a, b |-> b, c |-> c, k |-> k])
luaK_codeABC(f, op, a, b, c) == luaK_codeABCk(f, op, a, b, c, 0)

\* Not the instruction before a jump target.
previousinstruction(f) ==
    IF Pc(f) > f.lasttarget THEN At(f, Pc(f) - 1) ELSE [op |-> "invalid"]

\* Neighbouring LOADNILs become one.
luaK_nil(f, from, n) ==
    LET prev  == previousinstruction(f)
        l     == from + n - 1
        pl    == prev.a + prev.b
        first == Min({from, prev.a})
        meets == prev.a <= l + 1 /\ from <= pl + 1
    IN  IF prev.op = "LOADNIL" /\ meets
        THEN [f EXCEPT !.code[Pc(f)].a = first, !.code[Pc(f)].b = Max({l, pl}) - first]
        ELSE luaK_codeABC(f, "LOADNIL", from, n - 1, 0)

-----------------------------------------------------------------------------
(* Jumps.  A list of jumps that still need a target runs through them.     *)

getjump(f, pc) == IF At(f, pc).b = NO_JUMP THEN NO_JUMP ELSE pc + 1 + At(f, pc).b

fixjump(f, pc, dest) == [f EXCEPT !.code[pc + 1].b = dest - (pc + 1)]

RECURSIVE JumpList(_, _)
JumpList(f, l) == IF l = NO_JUMP THEN << >> ELSE <<l>> \o JumpList(f, getjump(f, l))

\* luaK_concat changes its first list: [f, l].
luaK_concat(f, l1, l2) ==
    LET list == JumpList(f, l1)
    IN  IF l2 = NO_JUMP THEN [f |-> f, l |-> l1]
        ELSE IF l1 = NO_JUMP THEN [f |-> f, l |-> l2]
        ELSE [f |-> fixjump(f, list[Len(list)], l2), l |-> l1]

luaK_jump(f)     == luaK_codeABC(f, "JMP", 0, NO_JUMP, 0)   \* at Pc(f)
luaK_getlabel(f) == [f EXCEPT !.lasttarget = Pc(f)]

condjump(f, op, a, b, c, k) == luaK_jump(luaK_codeABCk(f, op, a, b, c, k))

luaK_ret(f, first, nret) ==
    luaK_codeABC(f, CASE nret = 0 -> "RETURN0" [] nret = 1 -> "RETURN1" [] OTHER -> "RETURN",
                 first, nret + 1, 0)

TestModes == {"EQ", "LT", "LE", "EQK", "EQI", "LTI", "LEI", "GTI", "GEI", "TEST", "TESTSET"}

\* pc of the instruction that controls a jump.
getjumpcontrol(f, pc) == IF pc >= 1 /\ At(f, pc - 1).op \in TestModes THEN pc - 1 ELSE pc

Tests(f, node) == At(f, getjumpcontrol(f, node)).op = "TESTSET"

patchtestreg_bug(f, node, reg) ==
    LET c == getjumpcontrol(f, node)
        i == At(f, c)
    IN  IF ~Tests(f, node) THEN f ELSE [f EXCEPT !.code[c + 1].a = reg]
\* A TESTSET gets its register, or becomes a TEST when there is none or the
\* value is already there.
patchtestreg(f, node, reg) ==
    LET c == getjumpcontrol(f, node)
        i == At(f, c)
    IN  IF ~Tests(f, node) THEN f
        ELSE IF reg \notin {NO_REG, i.b} THEN [f EXCEPT !.code[c + 1].a = reg]
        ELSE [f EXCEPT !.code[c + 1] = [op |-> "TEST", a |-> i.b, b |-> 0, c |-> 0, k |-> i.k]]

RECURSIVE removevalues(_, _)
removevalues(f, list) ==
    IF list = NO_JUMP THEN f
    ELSE LET g == patchtestreg(f, list, NO_REG) IN removevalues(g, getjump(g, list))

\* Tests that produce values jump to vtarget, the other jumps to dtarget.
RECURSIVE patchlistaux(_, _, _, _, _)
patchlistaux(f, list, vtarget, reg, dtarget) ==
    IF list = NO_JUMP THEN f
    ELSE LET g == fixjump(patchtestreg(f, list, reg), list,
                          IF Tests(f, list) THEN vtarget ELSE dtarget)
         IN  patchlistaux(g, getjump(f, list), vtarget, reg, dtarget)

luaK_patchlist(f, list, target) == patchlistaux(f, list, target, NO_REG, target)
luaK_patchtohere(f, list) == luaK_patchlist(luaK_getlabel(f), list, Pc(f))

-----------------------------------------------------------------------------
(* Registers and constants.                                                *)

luaK_reserveregs(f, n) ==
    [f EXCEPT !.freereg = @ + n, !.maxstack = Max({@, f.freereg + n})]

freereg(f, reg) ==
    IF reg < luaY_nvarstack(f) THEN f
    ELSE [f EXCEPT !.freereg = @ - 1, !.unfit = @ \/ reg # f.freereg - 1]

freeregs(f, r1, r2) == freereg(freereg(f, Max({r1, r2})), Min({r1, r2}))

freeexp(f, e) == IF e.k = "VNONRELOC" THEN freereg(f, e.i) ELSE f

Reg(e)              == IF e.k = "VNONRELOC" THEN e.i ELSE -1
freeexps(f, e1, e2) == freeregs(f, Reg(e1), Reg(e2))

\* The constant v has index KIndex(AddK(f, v), v).  Integers and floats differ.
KIndex(f, v) == (CHOOSE i \in DOMAIN f.k : f.k[i] = v) - 1
AddK(f, v)   == IF \E i \in DOMAIN f.k : f.k[i] = v THEN f ELSE [f EXCEPT !.k = Append(@, v)]

fitsC(i)  == 0 <= i + (MAXARG_C \div 2) /\ i + (MAXARG_C \div 2) <= MAXARG_C
fitsBx(i) == -(MAXARG_Bx \div 2) <= i /\ i <= MAXARG_Bx - (MAXARG_Bx \div 2)

luaK_codek(f, reg, k) ==
    IF k <= MAXARG_Bx THEN luaK_codeABC(f, "LOADK", reg, k, 0)
    ELSE luaK_codeABC(luaK_codeABC(f, "LOADKX", reg, 0, 0), "EXTRAARG", k, 0, 0)

LoadK(f, reg, v) == LET g == AddK(f, v) IN luaK_codek(g, reg, KIndex(g, v))

luaK_int(f, reg, i) ==
    IF fitsBx(i) THEN luaK_codeABC(f, "LOADI", reg, i, 0) ELSE LoadK(f, reg, Integer(i))

luaK_float(f, reg, i) ==
    IF fitsBx(i) THEN luaK_codeABC(f, "LOADF", reg, i, 0) ELSE LoadK(f, reg, Float(i))

-----------------------------------------------------------------------------
(* Expressions into registers.                                             *)

luaK_setreturns(f, e, n) ==
    IF e.k = "VCALL" THEN [f EXCEPT !.code[e.i + 1].c = n + 1]
    ELSE luaK_reserveregs([f EXCEPT !.code[e.i + 1].c = n + 1,
                                    !.code[e.i + 1].a = f.freereg], 1)

luaK_setoneret(f, e) ==
    CASE e.k = "VCALL"   -> R(f, Kind(e, "VNONRELOC", At(f, e.i).a))
      [] e.k = "VVARARG" -> R([f EXCEPT !.code[e.i + 1].c = 2], Kind(e, "VRELOC", e.i))
      [] OTHER           -> R(f, e)

luaK_vapar2local(f, e) == R([f EXCEPT !.vatab = TRUE], [e EXCEPT !.k = "VLOCAL"])

const2exp(v) ==
    CASE v[1] = "int" -> Expr("VKINT", 0, v[2])
      [] v[1] = "flt" -> Expr("VKFLT", 0, v[2])
      [] v = True     -> Expr("VTRUE", 0, 0)
      [] v = False    -> Expr("VFALSE", 0, 0)
      [] v = Nil      -> Expr("VNIL", 0, 0)
      [] OTHER        -> Expr("VKSTR", 0, v)

\* An instruction whose register is given later.
Reloc(f, e, op, b, c) == R(luaK_codeABC(f, op, 0, b, c), Kind(e, "VRELOC", Pc(f)))

luaK_dischargevars(f, e) ==
    CASE e.k = "VCONST"    -> R(f, [const2exp(e.x) EXCEPT !.t = e.t, !.f = e.f])
      [] e.k = "VVARGVAR"  -> R([f EXCEPT !.vatab = TRUE], Kind(e, "VNONRELOC", e.i))
      [] e.k = "VLOCAL"    -> R(f, Kind(e, "VNONRELOC", e.i))
      [] e.k = "VUPVAL"    -> Reloc(f, e, "GETUPVAL", e.i, 0)
      [] e.k = "VINDEXUP"  -> Reloc(f, e, "GETTABUP", e.i, e.x)
      [] e.k = "VINDEXI"   -> Reloc(freereg(f, e.i), e, "GETI", e.i, e.x)
      [] e.k = "VINDEXSTR" -> Reloc(freereg(f, e.i), e, "GETFIELD", e.i, e.x)
      [] e.k = "VINDEXED"  -> Reloc(freeregs(f, e.i, e.x), e, "GETTABLE", e.i, e.x)
      [] e.k = "VVARGIND"  -> Reloc(freeregs(f, e.i, e.x), e, "GETVARG", e.i, e.x)
      [] OTHER             -> luaK_setoneret(f, e)

discharge2reg(f0, e0, reg) ==
    LET d == luaK_dischargevars(f0, e0)
        f == d.f
        e == d.e
        in(g) == R(g, Kind(e, "VNONRELOC", reg))
    IN  CASE e.k = "VNIL"   -> in(luaK_nil(f, reg, 1))
          [] e.k = "VFALSE" -> in(luaK_codeABC(f, "LOADFALSE", reg, 0, 0))
          [] e.k = "VTRUE"  -> in(luaK_codeABC(f, "LOADTRUE", reg, 0, 0))
          [] e.k = "VKSTR"  -> in(LoadK(f, reg, e.x))
          [] e.k = "VK"     -> in(luaK_codek(f, reg, e.i))
          [] e.k = "VKFLT"  -> in(luaK_float(f, reg, e.x))
          [] e.k = "VKINT"  -> in(luaK_int(f, reg, e.x))
          [] e.k = "VRELOC" -> in([f EXCEPT !.code[e.i + 1].a = reg])
          [] e.k = "VNONRELOC" ->
                in(IF reg = e.i THEN f ELSE luaK_codeABC(f, "MOVE", reg, e.i, 0))
          [] OTHER          -> d                                  \* VJMP

discharge2anyreg(f, e) ==
    IF e.k = "VNONRELOC" THEN R(f, e)
    ELSE discharge2reg(luaK_reserveregs(f, 1), e, f.freereg)

code_loadbool(f, a, op) == luaK_codeABC(luaK_getlabel(f), op, a, 0, 0)

need_value(f, list) ==
    LET l == JumpList(f, list) IN \E i \in DOMAIN l : ~Tests(f, l[i])

\* Jumps of e that do not produce a value are led to instructions that load
\* one.
exp2reg(f0, e0, reg) ==
    LET d  == discharge2reg(f0, e0, reg)
        c  == IF d.e.k = "VJMP" THEN luaK_concat(d.f, d.e.t, d.e.i)
                                ELSE [f |-> d.f, l |-> d.e.t]
        t  == c.l
        fl == d.e.f
        needs == need_value(c.f, t) \/ need_value(c.f, fl)
        fj == IF d.e.k = "VJMP" THEN c.f ELSE luaK_jump(c.f)
        g  == code_loadbool(code_loadbool(fj, reg, "LFALSESKIP"), reg, "LOADTRUE")
        h  == luaK_patchtohere(g, IF d.e.k = "VJMP" THEN NO_JUMP ELSE Pc(c.f))
        v  == luaK_getlabel(IF needs THEN h ELSE c.f)
        p_f == IF needs THEN Pc(fj) ELSE NO_JUMP
        p_t == IF needs THEN Pc(fj) + 1 ELSE NO_JUMP
        w  == patchlistaux(patchlistaux(v, fl, Pc(v), reg, p_f), t, Pc(v), reg, p_t)
    IN  R(IF t # fl THEN w ELSE c.f, Expr("VNONRELOC", reg, d.e.x))

luaK_exp2nextreg(f, e) ==
    LET d == luaK_dischargevars(f, e)
        g == luaK_reserveregs(freeexp(d.f, d.e), 1)
    IN  exp2reg(g, d.e, g.freereg - 1)

\* A variable's register is no place for the value of jumps.
luaK_exp2anyreg(f, e) ==
    LET d == luaK_dischargevars(f, e)
    IN  IF d.e.k # "VNONRELOC" THEN luaK_exp2nextreg(d.f, d.e)
        ELSE IF ~hasjumps(d.e) THEN d
        ELSE IF d.e.i >= luaY_nvarstack(d.f) THEN exp2reg(d.f, d.e, d.e.i)
        ELSE luaK_exp2nextreg(d.f, d.e)

luaK_exp2anyregup(f, e) ==
    IF e.k \notin {"VUPVAL", "VVARGVAR"} \/ hasjumps(e) THEN luaK_exp2anyreg(f, e) ELSE R(f, e)

luaK_exp2val(f, e) ==
    IF e.k = "VJMP" \/ hasjumps(e) THEN luaK_exp2anyreg(f, e) ELSE luaK_dischargevars(f, e)

ConstantOf(e) ==
    CASE e.k = "VTRUE" -> True [] e.k = "VFALSE" -> False [] e.k = "VNIL" -> Nil
      [] e.k = "VKINT" -> Integer(e.x) [] e.k = "VKFLT" -> Float(e.x) [] e.k = "VKSTR" -> e.x

\* [f, e] with e.k = "VK" when the expression is a constant with an index that
\* fits; the constant is added also when it does not.
luaK_exp2K(f, e) ==
    IF hasjumps(e) \/ e.k \notin {"VTRUE", "VFALSE", "VNIL", "VKINT", "VKFLT", "VKSTR", "VK"}
    THEN [f |-> f, e |-> e, ok |-> FALSE]
    ELSE LET g    == IF e.k = "VK" THEN f ELSE AddK(f, ConstantOf(e))
             info == IF e.k = "VK" THEN e.i ELSE KIndex(g, ConstantOf(e))
         IN  IF info <= MAXINDEXRK THEN [f |-> g, e |-> Kind(e, "VK", info), ok |-> TRUE]
             ELSE [f |-> g, e |-> e, ok |-> FALSE]

exp2RK(f, e) ==
    LET r == luaK_exp2K(f, e)
        a == luaK_exp2anyreg(r.f, e)
    IN  IF r.ok THEN r ELSE [f |-> a.f, e |-> a.e, ok |-> FALSE]

codeABRK(f, op, a, b, ex) ==
    LET r == exp2RK(f, ex)
    IN  R(luaK_codeABCk(r.f, op, a, b, r.e.i, IF r.ok THEN 1 ELSE 0), r.e)

luaK_storevar(f, var, ex) ==
    LET up  == luaK_exp2anyreg(f, ex)
        Store(g, op) == LET c == codeABRK(g, op, var.i, var.x, ex) IN freeexp(c.f, c.e)
    IN  CASE var.k = "VLOCAL"    -> exp2reg(freeexp(f, ex), ex, var.i).f
          [] var.k = "VUPVAL"    ->
                freeexp(luaK_codeABC(up.f, "SETUPVAL", up.e.i, var.i, 0), up.e)
          [] var.k = "VINDEXUP"  -> Store(f, "SETTABUP")
          [] var.k = "VINDEXI"   -> Store(f, "SETI")
          [] var.k = "VINDEXSTR" -> Store(f, "SETFIELD")
          [] var.k = "VVARGIND"  -> Store([f EXCEPT !.vatab = TRUE], "SETTABLE")
          [] var.k = "VINDEXED"  -> Store(f, "SETTABLE")
          [] OTHER               -> f              \* after an error

-----------------------------------------------------------------------------
(* Conditions.                                                             *)

negatecondition(f, e) ==
    LET c == getjumpcontrol(f, e.i) IN [f EXCEPT !.code[c + 1].k = 1 - @]

\* [f, pc]: a jump that is taken when e is cond (0 or 1).
jumponcond(f, e, cond) ==
    LET not == At(f, e.i)
        cut == [f EXCEPT !.code = SubSeq(@, 1, Len(@) - 1)]
        d   == discharge2anyreg(f, e)
        g   == condjump(freeexp(d.f, d.e), "TESTSET", NO_REG, d.e.i, 0, cond)
    IN  IF e.k = "VRELOC" /\ not.op = "NOT"
        THEN [f |-> condjump(cut, "TEST", not.b, 0, 0, 1 - cond), pc |-> Pc(cut) + 1]
        ELSE [f |-> g, pc |-> Pc(g) - 1]

luaK_goiftrue(f0, e0) ==
    LET d == luaK_dischargevars(f0, e0)
        j == CASE d.e.k = "VJMP" -> [f |-> negatecondition(d.f, d.e), pc |-> d.e.i]
               [] d.e.k \in {"VK", "VKFLT", "VKINT", "VKSTR", "VTRUE"} -> [f |-> d.f, pc |-> NO_JUMP]
               [] OTHER -> jumponcond(d.f, d.e, 0)
        c == luaK_concat(j.f, d.e.f, j.pc)
    IN  R(luaK_patchtohere(c.f, d.e.t), [d.e EXCEPT !.f = c.l, !.t = NO_JUMP])

luaK_goiffalse(f0, e0) ==
    LET d == luaK_dischargevars(f0, e0)
        j == CASE d.e.k = "VJMP" -> [f |-> d.f, pc |-> d.e.i]
               [] d.e.k \in {"VNIL", "VFALSE"} -> [f |-> d.f, pc |-> NO_JUMP]
               [] OTHER -> jumponcond(d.f, d.e, 1)
        c == luaK_concat(j.f, d.e.t, j.pc)
    IN  R(luaK_patchtohere(c.f, d.e.f), [d.e EXCEPT !.t = c.l, !.f = NO_JUMP])

\* The lists change places, and values they held are of no use any more.
codenot(f, e) ==
    LET d == discharge2anyreg(f, e)
        r == CASE e.k \in {"VNIL", "VFALSE"} -> R(f, Kind(e, "VTRUE", e.i))
               [] e.k \in {"VK", "VKFLT", "VKINT", "VKSTR", "VTRUE"} -> R(f, Kind(e, "VFALSE", e.i))
               [] e.k = "VJMP" -> R(negatecondition(f, e), e)
               [] OTHER -> Reloc(freeexp(d.f, d.e), d.e, "NOT", d.e.i, 0)
        n == [r.e EXCEPT !.t = r.e.f, !.f = r.e.t]
    IN  R(removevalues(removevalues(r.f, n.f), n.t), n)

-----------------------------------------------------------------------------
(* Fields and methods.                                                     *)

isKstr(f, e) == e.k = "VK" /\ ~hasjumps(e) /\ e.i <= MAXINDEXRK /\ f.k[e.i + 1][1] = "str"
isKint(e)    == e.k = "VKINT" /\ ~hasjumps(e)
isCint(e)    == isKint(e) /\ e.x \in 0..MAXARG_C
isSCint(e)   == isKint(e) /\ fitsC(e.x)

\* obj:name(...) needs two registers, for the function and the object.
luaK_self(f, e, key) ==
    LET o    == luaK_exp2anyreg(f, e)
        h    == freeexp(o.f, o.e)
        base == h.freereg
        g    == luaK_reserveregs(h, 2)
        r    == luaK_exp2K(g, key)
        a    == luaK_exp2anyreg(r.f, key)
        slow == luaK_codeABC(luaK_codeABC(a.f, "MOVE", base + 1, o.e.i, 0),
                             "GETTABLE", base, o.e.i, a.e.i)
    IN  R(IF r.ok THEN freeexp(luaK_codeABC(r.f, "SELF", base, o.e.i, r.e.i), r.e)
                  ELSE freeexp(slow, a.e),
          Kind(e, "VNONRELOC", base))

\* The key is an expression that has been discharged.
luaK_indexed(f0, t0, k0) ==
    LET str == k0.k = "VKSTR"
        f1  == IF str THEN AddK(f0, k0.x) ELSE f0
        k   == IF str THEN Kind(k0, "VK", KIndex(f1, k0.x)) ELSE k0
        ks  == IF str THEN k.i ELSE -1
        up  == t0.k = "VUPVAL" /\ ~isKstr(f1, k)
        tr  == luaK_exp2anyreg(f1, t0)
        f   == IF up THEN tr.f ELSE f1
        t   == IF up THEN tr.e ELSE t0
        kr  == luaK_exp2anyreg(f, k)
        At_(g, kind, idx) == R(g, [t EXCEPT !.k = kind, !.x = idx, !.ro = FALSE, !.ks = ks])
    IN  CASE t.k = "VUPVAL"   -> At_(f, "VINDEXUP", k.i)
          [] t.k = "VVARGVAR" -> At_(kr.f, "VVARGIND", kr.e.i)
          [] OTHER -> IF isKstr(f, k) THEN At_(f, "VINDEXSTR", k.i)
                      ELSE IF isCint(k) THEN At_(f, "VINDEXI", k.x)
                      ELSE At_(kr.f, "VINDEXED", kr.e.i)

-----------------------------------------------------------------------------
(* Operators.                                                              *)

\* The number in a numeral, as a set of at most one value.
tonumeral(e) == IF hasjumps(e) THEN {}
                ELSE CASE e.k = "VKINT" -> {Integer(e.x)} [] e.k = "VKFLT" -> {Float(e.x)} [] OTHER -> {}

Numeral(e) == tonumeral(e) # {}

\* The folded expressions, at most one; results that are zeros of floats are
\* left to the machine.
constfolding(op, e1, e2) ==
    {[e1 EXCEPT !.k = IF w[1] = "int" THEN "VKINT" ELSE "VKFLT", !.x = w[2]] :
        w \in {luaO_rawarith(op, v[1], v[2]) :
                 v \in {v \in tonumeral(e1) \X tonumeral(e2) : validop(op, v[1], v[2])}} \ {Float(0)}}

codeunexpval(f, op, e) ==
    LET r == luaK_exp2anyreg(f, e) IN Reloc(freeexp(r.f, r.e), r.e, op, r.e.i, 0)

\* Followed by the instruction that looks for a metamethod.
finishbinexpval(f, e1, e2, op, v2, flip, mmop, event) ==
    LET r == luaK_exp2anyreg(f, e1)
        g == freeexps(luaK_codeABC(r.f, op, 0, r.e.i, v2), r.e, e2)
    IN  R(luaK_codeABCk(g, mmop, r.e.i, v2, event, flip), Kind(r.e, "VRELOC", Pc(r.f)))

codebinexpval(f, op, e1, e2) ==
    LET r == luaK_exp2anyreg(f, e2)
        g == IF e1.k \in {"VNONRELOC", "VRELOC", "VNIL", "VTRUE", "VFALSE", "VK", "VKFLT", "VKINT", "VKSTR"}
             THEN r.f ELSE Unfit(r.f)
    IN  finishbinexpval(g, e1, r.e, op, r.e.i, 0, "MMBIN", op)

\* x - 2 and x << 2 as x + -2 and x >> -2; the metamethod gets the 2.
Negates(e2) == isKint(e2) /\ fitsC(e2.x) /\ fitsC(-e2.x)
finishbinexpneg(f, e1, e2, op, event) ==
    LET r == finishbinexpval(f, e1, e2, op, -e2.x, 0, "MMBINI", event)
    IN  R([r.f EXCEPT !.code[Pc(r.f)].b = e2.x], r.e)

\* Operands that changed places go back.
codebinNoK(f, op, e1, e2, flip) ==
    IF flip = 1 THEN codebinexpval(f, op, e2, e1) ELSE codebinexpval(f, op, e1, e2)

codearith(f, op, e1, e2, flip) ==
    LET r == luaK_exp2K(f, e2)
    IN  IF Numeral(e2) /\ r.ok
        THEN finishbinexpval(r.f, e1, r.e, KForm[op], r.e.i, flip, "MMBINK", op)
        ELSE codebinNoK(IF Numeral(e2) THEN r.f ELSE f, op, e1, e2, flip)

codecommutative(f, op, e1, e2) ==
    LET flip == IF Numeral(e1) THEN 1 ELSE 0
        a    == IF flip = 1 THEN e2 ELSE e1
        b    == IF flip = 1 THEN e1 ELSE e2
    IN  IF op = "ADD" /\ isSCint(b)
        THEN finishbinexpval(f, a, b, "ADDI", b.x, flip, "MMBINI", op)
        ELSE codearith(f, op, a, b, flip)

codebitwise(f, op, e1, e2) ==
    LET flip == IF e1.k = "VKINT" THEN 1 ELSE 0
        a    == IF flip = 1 THEN e2 ELSE e1
        b    == IF flip = 1 THEN e1 ELSE e2
        r    == luaK_exp2K(f, b)
    IN  IF b.k = "VKINT" /\ r.ok
        THEN finishbinexpval(r.f, a, r.e, KForm[op], r.e.i, flip, "MMBINK", op)
        ELSE codebinNoK(IF b.k = "VKINT" THEN r.f ELSE f, op, a, b, flip)

SCnumber(e)   == e.k \in {"VKINT", "VKFLT"}
isSCnumber(e) == SCnumber(e) /\ ~hasjumps(e) /\ fitsC(e.x)
IsFloat(e)    == IF e.k = "VKFLT" THEN 1 ELSE 0

\* < and <=, with a small number at one side or without.
codeorder(f, op, e1, e2) ==
    LET a  == luaK_exp2anyreg(f, e1)
        b  == luaK_exp2anyreg(f, e2)
        ab == luaK_exp2anyreg(a.f, e2)
        Cond(g, x, y, o, r1, r2, c) ==
            LET h == condjump(freeexps(g, x, y), o, r1, r2, c, 1)
            IN  R(h, Kind(x, "VJMP", Pc(h) - 1))
    IN  IF isSCnumber(e2) THEN Cond(a.f, a.e, e2, IForm[op], a.e.i, e2.x, IsFloat(e2))
        ELSE IF isSCnumber(e1)
        THEN Cond(b.f, e1, b.e, GForm[op], b.e.i, e1.x, IsFloat(e1))
        ELSE Cond(ab.f, a.e, ab.e, op, a.e.i, ab.e.i, 0)

\* == and ~=: a constant goes to the right.
codeeq(f, op, x1, x2) ==
    LET e1 == IF x1.k # "VNONRELOC" THEN x2 ELSE x1
        e2 == IF x1.k # "VNONRELOC" THEN x1 ELSE x2
        a  == luaK_exp2anyreg(f, e1)
        rk == exp2RK(a.f, e2)
        g  == IF isSCnumber(e2) THEN a.f ELSE rk.f
        y  == IF isSCnumber(e2) THEN e2 ELSE rk.e
        h  == condjump(freeexps(g, a.e, y),
                       IF isSCnumber(e2) THEN "EQI" ELSE IF rk.ok THEN "EQK" ELSE "EQ",
                       a.e.i, IF isSCnumber(e2) THEN e2.x ELSE y.i,
                       IF isSCnumber(e2) THEN IsFloat(e2) ELSE 0, IF op = "EQ" THEN 1 ELSE 0)
    IN  R(h, Kind(a.e, "VJMP", Pc(h) - 1))

luaK_prefix(f, op, e) ==
    LET d    == luaK_dischargevars(f, e)
        fold == constfolding(op, d.e, Expr("VKINT", 0, 0))
    IN  IF op = "NOT" THEN codenot(d.f, d.e)
        ELSE IF op \in {"UNM", "BNOT"} /\ fold # {} THEN R(d.f, CHOOSE x \in fold : TRUE)
        ELSE codeunexpval(d.f, op, d.e)

\* The first operand, before the second is read.
luaK_infix(f, op, v) ==
    LET d == luaK_dischargevars(f, v)
    IN  CASE op = "AND" -> luaK_goiftrue(d.f, d.e)
          [] op = "OR"  -> luaK_goiffalse(d.f, d.e)
          [] op = "CONCAT" -> luaK_exp2nextreg(d.f, d.e)
          [] op \in DOMAIN KForm \union {"SHL", "SHR"} ->
                IF Numeral(d.e) THEN d ELSE luaK_exp2anyreg(d.f, d.e)
          [] op \in {"EQ", "NE"} -> IF Numeral(d.e) THEN d
                                    ELSE LET r == exp2RK(d.f, d.e) IN R(r.f, r.e)
          [] OTHER -> IF isSCnumber(d.e) THEN d ELSE luaK_exp2anyreg(d.f, d.e)

\* a .. (b .. c) is one instruction.
codeconcat(f, e1, e2) ==
    LET prev == previousinstruction(f)
    IN  IF prev.op = "CONCAT"
        THEN freeexp([f EXCEPT !.code[Pc(f)].a = e1.i, !.code[Pc(f)].b = prev.b + 1], e2)
        ELSE freeexp(luaK_codeABC(f, "CONCAT", e1.i, 2, 0), e2)

luaK_posfix(f0, op, e1, e0) ==
    LET d  == luaK_dischargevars(f0, e0)
        f  == d.f
        e2 == d.e
        fold == IF op \in DOMAIN KForm \union {"SHL", "SHR"} THEN constfolding(op, e1, e2) ELSE {}
        and == luaK_concat(f, e2.f, e1.f)
        or  == luaK_concat(f, e2.t, e1.t)
        nxt == luaK_exp2nextreg(f, e2)
    IN  CASE fold # {}  -> R(f, CHOOSE x \in fold : TRUE)
          [] fold = {} /\ op = "AND" -> R(and.f, [e2 EXCEPT !.f = and.l])
          [] fold = {} /\ op = "OR"  -> R(or.f, [e2 EXCEPT !.t = or.l])
          [] fold = {} /\ op = "CONCAT" -> R(codeconcat(nxt.f, e1, nxt.e), e1)
          [] fold = {} /\ op \in {"ADD", "MUL"} -> codecommutative(f, op, e1, e2)
          [] fold = {} /\ op = "SUB" -> IF Negates(e2) THEN finishbinexpneg(f, e1, e2, "ADDI", op)
                                        ELSE codearith(f, op, e1, e2, 0)
          [] fold = {} /\ op \in {"IDIV", "MOD"} -> codearith(f, op, e1, e2, 0)
          [] fold = {} /\ op \in {"BAND", "BOR", "BXOR"} -> codebitwise(f, op, e1, e2)
          [] fold = {} /\ op = "SHL" ->
                IF isSCint(e1) THEN finishbinexpval(f, e2, e1, "SHLI", e1.x, 1, "MMBINI", op)
                ELSE IF Negates(e2) THEN finishbinexpneg(f, e1, e2, "SHRI", op)
                ELSE codebinexpval(f, op, e1, e2)
          [] fold = {} /\ op = "SHR" ->
                IF isSCint(e2) THEN finishbinexpval(f, e1, e2, "SHRI", e2.x, 0, "MMBINI", op)
                ELSE codebinexpval(f, op, e1, e2)
          [] fold = {} /\ op \in {"EQ", "NE"} -> codeeq(f, op, e1, e2)
          [] fold = {} /\ op \in {"GT", "GE"} -> codeorder(f, IF op = "GT" THEN "LT" ELSE "LE", e2, e1)
          [] fold = {} /\ op \in {"LT", "LE"} -> codeorder(f, op, e1, e2)

-----------------------------------------------------------------------------
(* Constructors, globals, and the last pass.                               *)

luaK_codecheckglobal(f, var, k) ==
    LET r == luaK_exp2anyreg(f, var)
    IN  freeexp(luaK_codeABC(r.f, "ERRNNIL", r.e.i, IF k >= MAXARG_Bx THEN 0 ELSE k + 1, 0), r.e)

\* Size of the hash part as the exponent plus one.
luaK_settablesize(f, pc, ra, asize, hsize) ==
    LET rb == IF hsize = 0 THEN 0 ELSE (CHOOSE n \in 0..hsize : 2 ^ n >= hsize
                                          /\ \A m \in 0..(n - 1) : 2 ^ m < hsize) + 1
        extra == asize \div (MAXARG_vC + 1)
    IN  [f EXCEPT !.code[pc + 1] = [op |-> "NEWTABLE", a |-> ra, b |-> rb,
                                    c |-> asize % (MAXARG_vC + 1), k |-> Min({extra, 1})],
                  !.code[pc + 2] = [op |-> "EXTRAARG", a |-> extra, b |-> 0, c |-> 0, k |-> 0]]

luaK_setlist(f, base, nelems, tostore) ==
    LET n     == IF tostore = LUA_MULTRET THEN 0 ELSE tostore
        extra == nelems \div (MAXARG_vC + 1)
        low   == nelems % (MAXARG_vC + 1)
        g     == IF nelems <= MAXARG_vC THEN luaK_codeABC(f, "SETLIST", base, n, nelems)
                 ELSE luaK_codeABC(luaK_codeABCk(f, "SETLIST", base, n, low, 1),
                                   "EXTRAARG", extra, 0, 0)
    IN  [g EXCEPT !.freereg = base + 1]

RECURSIVE finaltarget(_, _, _)
finaltarget(code, i, count) ==
    IF count = 100 \/ code[i + 1].op # "JMP" THEN i
    ELSE finaltarget(code, i + code[i + 1].b + 1, count + 1)

luaK_finish(f) ==
    LET hidden == f.vahid /\ ~f.vatab
        close  == IF f.needclose THEN 1 ELSE 0
        Final(i, pc) ==
            CASE i.op \in {"RETURN0", "RETURN1"} /\ ~f.needclose /\ ~hidden -> i
              [] i.op \in {"RETURN0", "RETURN1", "RETURN", "TAILCALL"} /\ (f.needclose \/ hidden
                                                  \/ i.op \in {"RETURN", "TAILCALL"}) ->
                    [i EXCEPT !.op = IF i.op = "TAILCALL" THEN @ ELSE "RETURN",
                              !.k = IF f.needclose THEN 1 ELSE @,
                              !.c = IF hidden THEN f.numparams + 1 ELSE @]
              [] i.op = "GETVARG" -> [i EXCEPT !.op = IF f.vatab THEN "GETTABLE" ELSE @]
              [] i.op = "VARARG"  -> [i EXCEPT !.k = IF f.vatab THEN 1 ELSE @]
              [] i.op = "JMP"     -> [i EXCEPT !.b = finaltarget(f.code, pc, 0) - (pc + 1)]
              [] OTHER            -> i
    IN  [f EXCEPT !.vahid = hidden,
                  !.code = [n \in DOMAIN f.code |-> Final(f.code[n], n - 1)]]
=============================================================================
