------------------------------ MODULE MCLuaGC --------------------------------
(* The collector with a handful of objects.                                  *)
EXTENDS LuaGC, TLC

CONSTANTS a, b

Mix(kinds, keys, full, links) ==
    [kinds |-> kinds, keys |-> keys, full |-> full, links |-> links, turns |-> States]
Brief(mix) == [mix EXCEPT !.turns = {"pause", "propagate", "enteratomic", "callfin"}]

MCStrong == {Mix({"table", "closure"}, {NoKey}, {}, 2),
             Mix({"table", "thread"}, {NoKey}, BOOLEAN, 1)}
MCWeak   == {Brief(Mix({"table", "weakvalue", "allweak"}, {NoKey, a, b}, {}, 1)),
             Brief(Mix({"table", "ephemeron"}, {a, b}, {}, 2))}

MCSymmetry == Permutations(Others)

\* Only whether an object has the current white matters, not which of the two
\* it is; a free object has no colour.
MCView ==
    LET shade(o) == IF kind[o] = "free" THEN "free"
                    ELSE IF color[o] = currentwhite THEN "current"
                    ELSE IF White(o) THEN "other" ELSE color[o]
    IN  <<program, heapVars, [o \in Objects |-> shade(o)], gray, grayagain,
          gcstate, sweepgc, modeVars>>
=============================================================================
