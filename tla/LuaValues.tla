------------------------------ MODULE LuaValues ------------------------------
(***************************************************************************)
(* Values and raw arithmetic (lobject.c, lvm.c).  A value is <<kind, x>>:  *)
(* an integer of IntBits bits, a float (integral ones only), a string (the *)
(* sequence of its pieces), a boolean, nil, a table, a function, or an     *)
(* object whose operators are metamethods.                                 *)
(***************************************************************************)
LOCAL INSTANCE Integers
LOCAL INSTANCE Bitwise
LOCAL INSTANCE TLC
LOCAL INSTANCE Sequences

CONSTANT IntBits

Nil    == <<"nil", 0>>
True   == <<"bool", 1>>
False  == <<"bool", 0>>
Integer(n) == <<"int", n>>
Float(n) == <<"flt", n>>
String(x) == <<"str", <<x>> >>
Bool(b) == IF b THEN True ELSE False

Falsy(v)  == v \in {Nil, False}
Number(v) == v[1] \in {"int", "flt"}

\* Integers wrap around.
Unsigned(n) == n % 2 ^ IntBits
Wrap(n)     == ((n + 2 ^ (IntBits - 1)) % 2 ^ IntBits) - 2 ^ (IntBits - 1)

luaV_shiftl(x, y) ==
    IF y <= -IntBits \/ y >= IntBits THEN 0
    ELSE IF y < 0 THEN Wrap(Unsigned(x) \div 2 ^ (-y))
    ELSE Wrap(x * 2 ^ y)

\* TLA+ divides like luaV_idiv and luaV_mod by positive numbers.
luaV_idiv(m, n) == Wrap(IF n > 0 THEN m \div n ELSE (-m) \div (-n))
luaV_mod(m, n)  == m - n * (IF n > 0 THEN m \div n ELSE (-m) \div (-n))

Bits(op, x, y) ==
    CASE op = "BAND" -> Wrap(Unsigned(x) & Unsigned(y))
      [] op = "BOR"  -> Wrap(Unsigned(x) | Unsigned(y))
      [] op = "BXOR" -> Wrap(Unsigned(x) ^^ Unsigned(y))
      [] op = "SHL"  -> luaV_shiftl(x, y)
      [] op = "SHR"  -> luaV_shiftl(x, -y)
      [] op = "BNOT" -> -x - 1

Arith(op, x, y) ==
    CASE op = "ADD" -> x + y [] op = "SUB" -> x - y [] op = "MUL" -> x * y
      [] op = "UNM" -> -x

\* On two numbers; integers are not divided by zero.  A float that is, gives
\* an infinity or not a number, which programs here only pass on.
luaO_rawarith(op, v1, v2) ==
    LET x == v1[2]
        y == v2[2]
        ints == v1[1] = "int" /\ v2[1] = "int"
    IN  IF op \in {"BAND", "BOR", "BXOR", "SHL", "SHR", "BNOT"} THEN Integer(Bits(op, x, y))
        ELSE IF op \in {"IDIV", "MOD"} /\ y = 0 THEN <<"flt", op>>
        ELSE IF op = "IDIV" THEN IF ints THEN Integer(luaV_idiv(x, y)) ELSE Float(luaV_idiv(x, y))
        ELSE IF op = "MOD"  THEN IF ints THEN Integer(luaV_mod(x, y)) ELSE Float(luaV_mod(x, y))
        ELSE IF ints THEN Integer(Wrap(Arith(op, x, y))) ELSE Float(Arith(op, x, y))

\* Numbers are equal whatever their kinds.
luaV_rawequalobj(v1, v2) == IF Number(v1) /\ Number(v2) THEN v1[2] = v2[2] ELSE v1 = v2

LessThan(op, v1, v2) == IF op = "LT" THEN v1[2] < v2[2] ELSE v1[2] <= v2[2]

\* Pieces of a string or of a number turned into one.
Pieces(v) == IF v[1] = "str" THEN v[2] ELSE << ToString(v[2]) >>

\* What the functions outside a program give back: f its arguments, iter the
\* numbers up to its first argument.
Results(name, args) ==
    CASE name = "f" -> args
      [] name = "iter" ->
            IF Len(args) = 2 /\ Number(args[1]) /\ Number(args[2]) /\ args[2][2] < args[1][2]
            THEN <<Integer(args[2][2] + 1), Integer(7)>> ELSE <<Nil>>

\* Floats with an integer value are keys like the integer.
Key(v) == IF v[1] = "flt" THEN Integer(v[2]) ELSE v

\* Objects have every metamethod.
HasTM(v1, v2) == v1[1] = "obj" \/ v2[1] = "obj"

\* Nil and false are never closed; other values must have a __close.
Closable(v) == Falsy(v) \/ v[1] = "obj"

\* What is folded, and what is no error.
validop(op, v1, v2) == op \in {"IDIV", "MOD"} => v2[2] # 0
Divides(op, v1, v2) == op \in {"IDIV", "MOD"} /\ v1[1] = "int" /\ v2 = Integer(0)

\* The forms of an operator with a constant, a small number at the right, and
\* a small number at the left.
KForm == [ADD |-> "ADDK", SUB |-> "SUBK", MUL |-> "MULK", MOD |-> "MODK", IDIV |-> "IDIVK",
          BAND |-> "BANDK", BOR |-> "BORK", BXOR |-> "BXORK"]
IForm == [LT |-> "LTI", LE |-> "LEI"]
GForm == [LT |-> "GTI", LE |-> "GEI"]
=============================================================================
