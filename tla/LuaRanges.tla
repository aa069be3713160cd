------------------------------- MODULE LuaRanges -------------------------------
(***************************************************************************)
(* The functions of the table and string libraries that take positions:    *)
(* ltablib.c insert, remove, move, concat and unpack, lstrlib.c sub, byte   *)
(* and rep.  Integers have the values MIN..MAX and wrap around; a table is  *)
(* a function on all of them.  A function may fail before it has changed    *)
(* anything.  Operators named _bug are broken variants that no definition   *)
(* uses.                                                                    *)
(***************************************************************************)
EXTENDS Integers, Sequences, SequencesExt

CONSTANTS
    MAX,                \* LUA_MAXINTEGER
    INT_MAX, MAX_SIZE,
    RangeCalls          \* the calls to try, in sets

MIN  == -MAX - 1
Ints == MIN..MAX
nil  == 10 * MIN      \* no integer of the model

ASSUME RangesAssumption == 0 < INT_MAX /\ INT_MAX <= MAX /\ MAX_SIZE > 0

intop(x)         == ((x - MIN) % (2 * (MAX + 1))) + MIN
l_castS2U(x)     == IF x < 0 THEN x + 2 * (MAX + 1) ELSE x
UMinus(x, y)     == (l_castS2U(x) - l_castS2U(y)) % (2 * (MAX + 1))

VARIABLES
    range,      \* the call: [fn, t, len, x, y, z, to]
    tables,     \* 1: the table of the call; 2: the other table of move
    values,     \* what it returns
    said        \* calling, done, or an error

rangevars == <<range, tables, values, said>>

Error(why) == said' = why /\ UNCHANGED <<range, tables, values>>
Gives(v)   == said' = "done" /\ values' = v /\ UNCHANGED range
Called(f)  == said = "calling" /\ range.fn = f
Changes(t) == tables' = [tables EXCEPT ![1] = t]

T == tables[1]
Copy(t, pairs) == FoldLeft(LAMBDA u, pr : [u EXCEPT ![pr[2]] = u[pr[1]]], t, pairs)

\* insert(t, [x,] y): x is nil for the end.
tinsert ==
    LET e   == intop(range.len + 1)
        pos == range.x
    IN  /\ Called("insert")
        /\ IF pos = nil THEN Changes([T EXCEPT ![e] = range.y]) /\ Gives(<<>>)
           ELSE IF UMinus(pos, 1) >= l_castS2U(e) THEN Error("position out of bounds")
           ELSE LET moved == Copy(T, [k \in 1..(e - pos) |-> <<e - k, e - k + 1>>])
                IN  Changes([moved EXCEPT ![pos] = range.y]) /\ Gives(<<>>)

tremove ==
    LET size == range.len
        pos  == IF range.x = nil THEN size ELSE range.x
        last == IF pos > size THEN pos ELSE size
    IN  /\ Called("remove")
        /\ IF pos # size /\ UMinus(pos, 1) > l_castS2U(size) THEN Error("position out of bounds")
           ELSE /\ Changes([Copy(T, [k \in 1..(size - pos) |-> <<pos + k, pos + k - 1>>]) EXCEPT ![last] = nil])
                /\ Gives(<<T[pos]>>)

\* move(t, x, y, z [, to]): to is "none", "same" for t again, or "other".
tmove_bug ==
    LET f  == range.x
        e  == range.y
        t  == range.z
        n  == e - f + 1
        up == t >= e \/ t <= f \/ range.to = "other"
        M(i) == <<f + i, t + i>>
        order == IF up THEN [k \in 1..n |-> M(k - 1)] ELSE [k \in 1..n |-> M(n - k)]
        other == FoldLeft(LAMBDA u, pr : [u EXCEPT ![pr[2]] = T[pr[1]]], tables[2], order)
    IN  /\ Called("move")
        /\ IF e < f THEN Gives(<<>>) /\ UNCHANGED tables
           ELSE IF ~(f > 0 \/ e < MAX + f) THEN Error("too many elements to move")
           ELSE IF ~(t <= MAX - n + 1) THEN Error("destination wrap around")
           ELSE IF range.to = "other" THEN tables' = [tables EXCEPT ![2] = other] /\ Gives(<<>>)
           ELSE Changes(Copy(T, order)) /\ Gives(<<>>)
tmove ==
    LET f  == range.x
        e  == range.y
        t  == range.z
        n  == e - f + 1
        up == t > e \/ t <= f \/ range.to = "other"
        M(i) == <<f + i, t + i>>
        order == IF up THEN [k \in 1..n |-> M(k - 1)] ELSE [k \in 1..n |-> M(n - k)]
        other == FoldLeft(LAMBDA u, pr : [u EXCEPT ![pr[2]] = T[pr[1]]], tables[2], order)
    IN  /\ Called("move")
        /\ IF e < f THEN Gives(<<>>) /\ UNCHANGED tables
           ELSE IF ~(f > 0 \/ e < MAX + f) THEN Error("too many elements to move")
           ELSE IF ~(t <= MAX - n + 1) THEN Error("destination wrap around")
           ELSE IF range.to = "other" THEN tables' = [tables EXCEPT ![2] = other] /\ Gives(<<>>)
           ELSE Changes(Copy(T, order)) /\ Gives(<<>>)

\* concat(t, sep, x, y): the fields, with the separator between them.
tconcat ==
    LET last   == IF range.y = nil THEN range.len ELSE range.y
        fields == [k \in 1..(last - range.x + 1) |-> T[range.x + k - 1]]
    IN  /\ Called("concat") /\ UNCHANGED tables
        /\ IF nil \in ToSet(fields) THEN Error("invalid value") ELSE Gives(fields)

tunpack ==
    LET i == range.x
        e == IF range.y = nil THEN range.len ELSE range.y
        n == UMinus(e, i)
    IN  /\ Called("unpack") /\ UNCHANGED tables
        /\ IF i > e THEN Gives(<<>>)
           ELSE IF n >= INT_MAX THEN Error("too many results to unpack")
           ELSE Gives([k \in 1..(n + 1) |-> T[i + k - 1]])

posrelat(pos, len) == IF pos > 0 THEN pos ELSE IF pos = 0 \/ pos < -len THEN 1 ELSE len + pos + 1
getendpos(pos, len) ==
    IF pos > len THEN len ELSE IF pos >= 0 THEN pos ELSE IF pos < -len THEN 0 ELSE len + pos + 1

\* sub(s, x, y) of a string of len characters, each known by its place.
str_sub ==
    LET start == posrelat(range.x, range.len)
        end   == getendpos(IF range.y = nil THEN -1 ELSE range.y, range.len)
    IN  /\ Called("sub") /\ UNCHANGED tables
        /\ Gives(IF start <= end THEN [k \in 1..(end - start + 1) |-> start + k - 1] ELSE <<>>)

str_byte ==
    LET posi == posrelat(range.x, range.len)
        pose == getendpos(IF range.y = nil THEN range.x ELSE range.y, range.len)
    IN  /\ Called("byte") /\ UNCHANGED tables
        /\ IF posi > pose THEN Gives(<<>>)
           ELSE IF pose - posi >= INT_MAX THEN Error("string slice too long")
           ELSE Gives([k \in 1..(pose - posi + 1) |-> posi + k - 1])

\* rep(s, x, sep): the size of the result, of len characters and y between.
str_rep ==
    LET n == range.x
    IN  /\ Called("rep") /\ UNCHANGED tables
        /\ IF n <= 0 THEN Gives(<<0>>)
           ELSE IF range.len > MAX_SIZE - range.y \/ range.len + range.y > MAX_SIZE \div n
           THEN Error("resulting string too large")
           ELSE Gives(<<n * (range.len + range.y) - range.y>>)

RangeInit ==
    /\ \E k \in DOMAIN RangeCalls : range \in RangeCalls[k]
    /\ tables = <<range.t, [k \in Ints |-> nil]>> /\ values = <<>> /\ said = "calling"

NoRange == range = [fn |-> "none"] /\ tables = <<>> /\ values = <<>> /\ said = "idle"

RangeNext == tinsert \/ tremove \/ tmove \/ tconcat \/ tunpack \/ str_sub \/ str_byte \/ str_rep
-----------------------------------------------------------------------------
(* What the manual says, in numbers that have no bounds.                   *)

Old(k)    == range.t[k]
Or(x, y)  == IF x = nil THEN y ELSE x
End       == Or(range.y, range.len)
Extent    == IF range.y < range.x THEN 0 ELSE range.y - range.x + 1
Fields    == [k \in 1..(End - range.x + 1) |-> Old(range.x + k - 1)]
Place(x)  == IF x < 0 THEN range.len + x + 1 ELSE x
\* The places of the characters from x to y.
Shown(x, y) ==
    LET from == Max({1, Place(x)})
    IN  [k \in 1..(Min({range.len, Place(y)}) - from + 1) |-> from + k - 1]

Fails ==
    CASE range.fn = "insert" -> range.x # nil /\ range.x \notin 1..(range.len + 1)
      [] range.fn = "remove" -> range.x # nil /\ range.x \notin 1..(range.len + 1) /\ range.x # range.len
      [] range.fn = "move"   -> Extent > 0 /\ (Extent > MAX \/ range.z + Extent - 1 > MAX)
      [] range.fn = "concat" -> nil \in ToSet(Fields)
      [] range.fn = "unpack" -> End - range.x >= INT_MAX
      [] range.fn = "byte"   -> Len(Shown(range.x, Or(range.y, range.x))) > INT_MAX
      [] range.fn = "rep"    -> range.x > 0 /\ range.x * (range.len + range.y) > MAX_SIZE
      [] OTHER               -> FALSE

Value ==
    CASE range.fn = "remove" -> <<Old(Or(range.x, range.len))>>
      [] range.fn \in {"concat", "unpack"} -> Fields
      [] range.fn = "sub"    -> Shown(range.x, Or(range.y, range.len))
      [] range.fn = "byte"   -> Shown(range.x, Or(range.y, range.x))
      [] range.fn = "rep"    -> <<IF range.x <= 0 THEN 0 ELSE range.x * range.len + (range.x - 1) * range.y>>
      [] OTHER               -> <<>>

\* The field k afterwards, of the table and of the other table of move.
Moved(k) == range.fn = "move" /\ range.z <= k /\ k < range.z + Extent
Field(k) ==
    LET inserted == Or(range.x, range.len + 1)
        removed  == Or(range.x, range.len)
    IN  CASE range.fn = "insert" -> IF k = inserted THEN range.y
                                    ELSE IF inserted < k /\ k <= range.len + 1 THEN Old(k - 1) ELSE Old(k)
          [] range.fn = "remove" -> IF k = Max({removed, range.len}) THEN nil
                                    ELSE IF removed <= k /\ k < range.len THEN Old(k + 1) ELSE Old(k)
          [] Moved(k) /\ range.to # "other" -> Old(range.x + k - range.z)
          [] OTHER -> Old(k)
OtherField(k) == IF Moved(k) /\ range.to = "other" THEN Old(range.x + k - range.z) ELSE nil

\* A list that ends at the largest integer: there is no place for one more, and
\* insert and remove do not see it.
Beyond ==
    /\ range.len = MAX
    /\ range.fn = "insert" \/ (range.fn = "remove" /\ range.x = MIN)

\* insert, remove, move, concat, unpack, sub, byte and rep give what the manual
\* says: no position wraps around, no field is read after it was overwritten
\* and a call that fails has changed nothing; insert, and remove at the
\* smallest integer, only on lists that end before the largest integer.
\* Lengths are those of lists, and not negative.
RangesAreExact ==
    said \notin {"calling", "idle"} /\ ~Beyond =>
        /\ Fails = (said # "done")
        /\ said = "done" => values = Value
        /\ \A k \in Ints : /\ tables[1][k] = IF Fails THEN Old(k) ELSE Field(k)
                           /\ tables[2][k] = IF Fails THEN nil ELSE OtherField(k)
=============================================================================
