------------------------------ MODULE LuaSyntax ------------------------------
(***************************************************************************)
(* Programs as trees, and the tokens they are written with.  Expressions:  *)
(*   <<"nil">> <<"true">> <<"false">> <<"...">> <<"int", n>> <<"flt", n>>  *)
(*   <<"str", s>> <<"name", x>> <<"index", e, k>> <<"field", e, name>>     *)
(*   <<"call", f, es>> <<"method", o, name, es>> <<"paren", e>>            *)
(*   <<"bin", op, a, b>> <<"un", op, a>> <<"table", items>>                *)
(*   <<"function", params, va, block>>, va is "", "..." or a name          *)
(*   an item is <<"item", e>>, <<"named", name, e>> or <<"keyed", k, e>>   *)
(* A declaration is <<kind, pre, names, es>>: an attribute for all names   *)
(* and pairs of a name and its own attribute ("" for none).                *)
(***************************************************************************)
LOCAL INSTANCE Integers
LOCAL INSTANCE Sequences
LOCAL INSTANCE SequencesExt

T(kind)  == << <<kind, "">> >>
Name(x)  == << <<"name", x>> >>
Comma(s) == FlattenSeq([n \in DOMAIN s |-> IF n = 1 THEN s[n] ELSE T(",") \o s[n]])

\* Precedence as the language defines it; ".." groups to the right.
Level == [x \in {"or"} |-> 1] @@ [x \in {"and"} |-> 2] @@
         [x \in {"<", ">", "<=", ">=", "~=", "=="} |-> 3] @@ [x \in {"|"} |-> 4] @@
         [x \in {"~"} |-> 5] @@ [x \in {"&"} |-> 6] @@ [x \in {"<<", ">>"} |-> 7] @@
         [x \in {".."} |-> 8] @@ [x \in {"+", "-"} |-> 9] @@ [x \in {"*", "//", "%"} |-> 10]
LevelOf(e) == CASE e[1] = "bin" -> Level[e[2]] [] e[1] = "un" -> 11 [] OTHER -> 12

RECURSIVE Ex(_), Block(_)

Parens(e)    == T("(") \o Ex(e) \o T(")")
AtLeast(e, n) == IF LevelOf(e) < n THEN Parens(e) ELSE Ex(e)
Prefix(e)    == IF e[1] \in {"name", "index", "field", "call", "method", "paren"} THEN Ex(e) ELSE Parens(e)
Exs(es)      == Comma([n \in DOMAIN es |-> Ex(es[n])])
Arguments(es) == T("(") \o Exs(es) \o T(")")

Body(e) == T("(") \o Comma([n \in DOMAIN e[2] |-> Name(e[2][n])] \o
                           (IF e[3] = "" THEN <<>> ELSE IF e[3] = "..." THEN << T("...") >>
                            ELSE << T("...") \o Name(e[3]) >>)) \o
           T(")") \o Block(e[4]) \o T("end")

Item(x) == CASE x[1] = "item"  -> Ex(x[2])
             [] x[1] = "named" -> Name(x[2]) \o T("=") \o Ex(x[3])
             [] x[1] = "keyed" -> T("[") \o Ex(x[2]) \o T("]") \o T("=") \o Ex(x[3])

Ex(e) ==
    CASE e[1] \in {"nil", "true", "false", "..."} -> T(e[1])
      [] e[1] = "int" -> << <<"int", e[2]>> >>
      [] e[1] = "flt" -> << <<"flt", e[2]>> >>
      [] e[1] = "str" -> << <<"string", e[2]>> >>
      [] e[1] = "name" -> Name(e[2])
      [] e[1] = "index" -> Prefix(e[2]) \o T("[") \o Ex(e[3]) \o T("]")
      [] e[1] = "field" -> Prefix(e[2]) \o T(".") \o Name(e[3])
      [] e[1] = "call"  -> Prefix(e[2]) \o Arguments(e[3])
      [] e[1] = "method" -> Prefix(e[2]) \o T(":") \o Name(e[3]) \o Arguments(e[4])
      [] e[1] = "paren" -> Parens(e[2])
      [] e[1] = "un"    -> T(e[2]) \o AtLeast(e[3], 11)
      [] e[1] = "bin"   ->
            LET l == Level[e[2]]
            IN  AtLeast(e[3], IF e[2] = ".." THEN l + 1 ELSE l) \o T(e[2]) \o
                AtLeast(e[4], IF e[2] = ".." THEN l ELSE l + 1)
      [] e[1] = "table" -> T("{") \o Comma([n \in DOMAIN e[2] |-> Item(e[2][n])]) \o T("}")
      [] e[1] = "function" -> T("function") \o Body(e)

Attr(a)   == IF a = "" THEN <<>> ELSE T("<") \o Name(a) \o T(">")
Names(ns) == Comma([n \in DOMAIN ns |-> Name(ns[n][1]) \o Attr(ns[n][2])])
Equals(es) == IF es = <<>> THEN <<>> ELSE T("=") \o Exs(es)
Label(x)  == T("::") \o Name(x) \o T("::")

Arms(arms) == FlattenSeq([n \in DOMAIN arms |-> T(IF n = 1 THEN "if" ELSE "elseif") \o
                                         Ex(arms[n][1]) \o T("then") \o Block(arms[n][2])])

Stat(s) ==
    CASE s[1] \in {"local", "global"} -> T(s[1]) \o Attr(s[2]) \o Names(s[3]) \o Equals(s[4])
      [] s[1] = "globalall" -> T("global") \o Attr(s[2]) \o T("*")
      [] s[1] = "assign"  -> Exs(s[2]) \o T("=") \o Exs(s[3])
      [] s[1] = "do"      -> T("do") \o Block(s[2]) \o T("end")
      [] s[1] = "while"   -> T("while") \o Ex(s[2]) \o T("do") \o Block(s[3]) \o T("end")
      [] s[1] = "repeat"  -> T("repeat") \o Block(s[2]) \o T("until") \o Ex(s[3])
      [] s[1] = "if"      -> Arms(s[2]) \o (IF s[3] = <<>> THEN <<>> ELSE T("else") \o Block(s[3])) \o T("end")
      [] s[1] = "fornum"  -> T("for") \o Name(s[2]) \o T("=") \o Exs(s[3]) \o T("do") \o Block(s[4]) \o T("end")
      [] s[1] = "forin"   -> T("for") \o Comma([n \in DOMAIN s[2] |-> Name(s[2][n])]) \o T("in") \o
                             Exs(s[3]) \o T("do") \o Block(s[4]) \o T("end")
      [] s[1] \in {"localfunction", "globalfunction"} ->
            T(IF s[1] = "localfunction" THEN "local" ELSE "global") \o T("function") \o Name(s[2]) \o Body(s[3])
      [] s[1] = "goto"    -> T("goto") \o Name(s[2])
      [] s[1] = "label"   -> Label(s[2])
      [] s[1] \in {"break", ";"} -> T(s[1])
      [] s[1] = "return"  -> T("return") \o Exs(s[2])
      [] s[1] = "do call" -> Ex(s[2])
      \* function a.b:m() ... end: <<"defun", target, method, function>>
      [] s[1] = "defun"   -> T("function") \o Ex(s[2]) \o
                             (IF s[3] = "" THEN <<>> ELSE T(":") \o Name(s[3])) \o Body(s[4])

\* A statement that starts with a parenthesis would continue the one before.
Block(b) == FlattenSeq([n \in DOMAIN b |->
                LET s == Stat(b[n]) IN IF n > 1 /\ s[1] = <<"(", "">> THEN T(";") \o s ELSE s])

Unparse(b) == Block(b) \o T("<eof>")
=============================================================================
