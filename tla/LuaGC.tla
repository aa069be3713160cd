-------------------------------- MODULE LuaGC --------------------------------
(***************************************************************************)
(* The incremental garbage collector of the Lua core (src/lua/lgc.c) and   *)
(* the program that runs between its steps: tables, closures, coroutines,  *)
(* weak tables, finalizers, the two write barriers, full and emergency     *)
(* collections.  The mode is KGC_INC, which lua_newstate sets and nothing  *)
(* in lua.ino or on the SD card changes.                                   *)
(*                                                                         *)
(* An object refers to others through entries, each with a value and,      *)
(* optionally, a collectable key.  The stack of the running (main) thread  *)
(* is the entries of Main.  Left out: strings and userdata without user    *)
(* values, which have nothing to visit; open upvalues; dead keys, whose    *)
(* entries are empty.  The lists gray and grayagain are sets, any member   *)
(* of which may be next; the lists the sweep walks keep their order.       *)
(*                                                                         *)
(* Operators whose name ends in _bug say what the next definition would be *)
(* with a plausible mistake; nothing uses them but the mutants that show   *)
(* that the properties can fail.                                           *)
(***************************************************************************)
EXTENDS Naturals, Sequences, FiniteSets, Functions

CONSTANTS Main,        \* the main thread
          Permanent,   \* tables the global state keeps: registry, globals, metatables
          Others,      \* the other objects, free or in use
          NoKey,       \* a key that is no collectable object
          GCSWEEPMAX,  \* objects a step sweeps
          Programs,    \* what programs do: the kinds of objects they create, the keys
                       \* they use, the full collections there are (full), emergencies
                       \* (TRUE) and others; bound: the entries of all objects but the
                       \* stack (links), the states of the collector they run in (turns)
          MaxStack,    \* bound: values on the stack
          MaxEntries,  \* bound: entries of an object
          MaxWeak      \* bound: weak tables

Roots   == {Main} \union Permanent
Objects == Roots \union Others
Modes   == {"table", "weakvalue", "ephemeron", "allweak"}   \* getmode

ASSUME ObjectAssumption == /\ Main \notin Permanent /\ Roots \intersect Others = {}
                           /\ NoKey \notin Objects /\ IsFiniteSet(Objects)
                           /\ Objects \intersect {"allgc", "finobj", "tobefnz", "none"} = {}
ASSUME ProgramAssumption == \A p \in Programs :
    /\ p.kinds \subseteq Modes \union {"closure", "thread"}
    /\ p.keys \subseteq Objects \union {NoKey} /\ p.full \subseteq BOOLEAN /\ p.links \in Nat
    /\ "callfin" \in p.turns
ASSUME BoundAssumption ==
    GCSWEEPMAX \in Nat \ {0} /\ MaxStack \in Nat /\ MaxEntries \in Nat /\ MaxWeak \in Nat

VARIABLES
    program,       \* of Programs
    kind,          \* per object; "free" when not allocated
    entries,       \* per object: a set of Entry
    color,         \* per object: the colour bits of marked
    list,          \* allgc, finobj and tobefnz
    gray, grayagain,
    gcstate,
    currentwhite,
    sweepgc,       \* whose next field the sweep continues at, or a list's head
    goals,         \* full collections: the states still to run to
    gcemergency,
    gcstp          \* a finalizer runs (GCSTPGC)

heapVars  == <<kind, entries, list>>
markVars  == <<color, gray, grayagain>>
phaseVars == <<gcstate, currentwhite, sweepgc>>
modeVars  == <<goals, gcemergency, gcstp>>
vars == <<program, heapVars, markVars, phaseVars, modeVars>>

Entry     == [key : Objects \union {NoKey}, value : Objects]
Whites    == {"white0", "white1"}
ListNames == {"allgc", "finobj", "tobefnz"}
States    == {"pause", "propagate", "enteratomic", "swpallgc", "swpfinobj",
              "swptobefnz", "swpend", "callfin"}

Allocated  == {o \in Objects : kind[o] # "free"}
White(o)   == color[o] \in Whites
otherwhite_bug == currentwhite
otherwhite == IF currentwhite = "white0" THEN "white1" ELSE "white0"
issweepphase  == gcstate \in {"swpallgc", "swpfinobj", "swptobefnz", "swpend"}
keepinvariant == gcstate \in {"propagate", "enteratomic"}
tofinalize(o) == o \in Range(list["finobj"]) \union Range(list["tobefnz"])

Values(o) == {e.value : e \in entries[o]}
Keys(o)   == {e.key : e \in entries[o]} \ {NoKey}
Refs(o)   == Values(o) \union Keys(o)

\* What o keeps alive once the objects in M are alive.
Strong(o, M) ==
    CASE kind[o] = "weakvalue" -> Keys(o)
      [] kind[o] = "ephemeron" ->
           {e.value : e \in {d \in entries[o] : d.key \in M \union {NoKey}}}
      [] kind[o] = "allweak"   -> {}
      [] OTHER                 -> Refs(o)

\* The least set around S that is closed under Strong for the objects in T.
Marked(S, T) ==
    LET closed == {M \in {S \union X : X \in SUBSET (Objects \ S)} :
                      \A o \in M \intersect T : Strong(o, M) \subseteq M}
    IN  {o \in Objects : \A M \in closed : o \in M}

Init ==
    /\ program \in Programs
    /\ kind = [o \in Objects |-> IF o = Main THEN "thread"
                                 ELSE IF o \in Permanent THEN "table" ELSE "free"]
    /\ entries = [o \in Objects |-> {}]
    /\ color = [o \in Objects |-> "white0"]
    /\ \E s \in [1..Cardinality(Roots) -> Roots] :
         /\ IsInjective(s) /\ s[Cardinality(Roots)] = Main
         /\ list = [l \in ListNames |-> IF l = "allgc" THEN s ELSE << >>]
    /\ gray = {} /\ grayagain = {}
    /\ gcstate = "pause" /\ currentwhite = "white0" /\ sweepgc = "none"
    /\ goals = << >> /\ gcemergency = FALSE /\ gcstp = FALSE

-----------------------------------------------------------------------------
(* Sweeping.                                                               *)

\* The list a next field belongs to, and how many objects are before it.
ListOf(p)  == IF p \in ListNames THEN p
              ELSE CHOOSE l \in ListNames : p \in Range(list[l])
IndexOf(p) == IF p \in ListNames THEN 0
              ELSE CHOOSE i \in DOMAIN list[ListOf(p)] : list[ListOf(p)][i] = p

\* The list s after the objects in S left it.
Without(s, S) ==
    LET rest[n \in Nat] == IF n = 0 THEN << >>
                           ELSE IF s[n] \in S THEN rest[n - 1]
                           ELSE Append(rest[n - 1], s[n])
    IN  rest[Len(s)]

\* sweeplist and sweeptolive from p on, up to the n-th object of the list: an
\* object of the other white than w is freed, any other one becomes white.
\* The sweep goes on at the last object that stays, unless that is the end of
\* the list.  c, es and ls are the colours, entries and lists it works on.
Sweep(p, n, c, es, ls, w) ==
    LET s     == list[ListOf(p)]
        seen  == {s[i] : i \in (IndexOf(p) + 1)..n}
        dead  == {o \in seen : c[o] \in Whites \ {w}}
        stays == {i \in (IndexOf(p) + 1)..n : s[i] \notin dead}
    IN  /\ color' = [o \in Objects |-> IF o \in dead THEN "white0"
                                       ELSE IF o \in seen THEN w ELSE c[o]]
        /\ kind' = [o \in Objects |-> IF o \in dead THEN "free" ELSE kind[o]]
        /\ entries' = [o \in Objects |-> IF o \in dead THEN {} ELSE es[o]]
        /\ list' = [l \in ListNames |-> Without(ls[l], dead)]
        /\ sweepgc' = IF n = Len(s) THEN "none"
                      ELSE IF stays = {} THEN p
                      ELSE s[CHOOSE i \in stays : \A j \in stays : j <= i]

\* Where sweeptolive stops: the first object after p that is alive, or the end.
FirstLive(p, c, w) ==
    LET s    == list[ListOf(p)]
        live == {i \in (IndexOf(p) + 1)..Len(s) : c[s[i]] \notin Whites \ {w}}
    IN  IF live = {} THEN Len(s) ELSE CHOOSE i \in live : \A j \in live : i <= j

-----------------------------------------------------------------------------
(* The collector, one singlestep after the other.                          *)

restartcollection ==
    /\ gcstate = "pause"
    /\ gcstate' = "propagate"
    /\ LET new == {o \in Roots \union Range(list["tobefnz"]) : White(o)}
       IN  /\ color' = [o \in Objects |-> IF o \in new THEN "gray" ELSE color[o]]
           /\ gray' = new
    /\ grayagain' = {}
    /\ UNCHANGED <<heapVars, currentwhite, sweepgc, modeVars>>

\* Threads and weak tables are visited again in the atomic step.  The colours
\* an ephemeron table looks at are those before the visit.
propagatemark(o) ==
    LET again == kind[o] \in {"thread", "weakvalue", "ephemeron", "allweak"}
        new   == {v \in Strong(o, {k \in Objects : ~White(k)}) : White(v)}
    IN  /\ gcstate = "propagate"
        /\ o \in gray
        /\ gray' = (gray \ {o}) \union new
        /\ grayagain' = IF again THEN grayagain \union {o} ELSE grayagain
        /\ color' = [p \in Objects |-> IF p = o THEN (IF again THEN "gray" ELSE "black")
                                       ELSE IF p \in new THEN "gray" ELSE color[p]]
        /\ UNCHANGED <<heapVars, phaseVars, modeVars>>

\* A full collection skips the propagate phase.
enteratomic ==
    /\ gcstate = "propagate"
    /\ goals # << >> \/ gray = {}
    /\ gcstate' = "enteratomic"
    /\ UNCHANGED <<heapVars, markVars, currentwhite, sweepgc, modeVars>>

ClearedEntries_values_bug(o, before, after) ==
    {e \in entries[o] :
        /\ kind[o] = "weakvalue" => e.value \in before
        /\ kind[o] \in {"ephemeron", "allweak"} => e.key \in after \union {NoKey}}
ClearedEntries_late_bug(o, before, after) ==
    {e \in entries[o] :
        /\ kind[o] \in {"weakvalue", "allweak"} => e.value \in after
        /\ kind[o] \in {"ephemeron", "allweak"} => e.key \in after \union {NoKey}}
ClearedEntries_nokey_bug(o, before, after) ==
    {e \in entries[o] :
        /\ kind[o] \in {"weakvalue", "allweak"} => e.value \in before
        /\ kind[o] \in {"ephemeron", "allweak"} => e.key \in after}

\* What remains of a weak table: before is marked when values are cleared,
\* after when keys are.
ClearedEntries(o, before, after) ==
    {e \in entries[o] :
        /\ kind[o] \in {"weakvalue", "allweak"} => e.value \in before
        /\ kind[o] \in {"ephemeron", "allweak"} => e.key \in after \union {NoKey}}

separatetobefnz_bug(alive) == list
\* Unmarked objects with a finalizer move to the end of tobefnz.
separatetobefnz(alive) ==
    [list EXCEPT !["tobefnz"] = @ \o Without(list["finobj"], alive),
                 !["finobj"]  = Without(@, Objects \ alive)]

\* atomic, followed by entersweep.  Objects to be finalized come alive again
\* after the weak values they were have been cleared; tables that come alive
\* with them keep such values.  A visited weak table is left gray: it may be
\* black, which nothing can tell in the sweep phase.
atomic ==
    LET old    == {o \in Allocated : ~White(o)} \union Roots
        visits == gray \union grayagain \union {o \in Allocated : White(o)}
        alive  == Marked(old, visits)
        ls     == separatetobefnz(alive)
        marked == Marked(alive \union Range(ls["tobefnz"]), visits)
        c  == [o \in Objects |->
                 IF o \notin marked \intersect visits THEN color[o]
                 ELSE IF kind[o] \in Modes \ {"table"} THEN "gray" ELSE "black"]
        es == [o \in Objects |->
                 IF o \notin marked \intersect visits THEN entries[o]
                 ELSE ClearedEntries(o, IF o \in alive THEN alive ELSE marked, marked)]
    IN  /\ gcstate = "enteratomic"
        /\ gcstate' = "swpallgc"
        /\ gray' = {} /\ grayagain' = {}
        /\ currentwhite' = otherwhite
        /\ Sweep("allgc", FirstLive("allgc", c, otherwhite), c, es, ls, otherwhite)
        /\ UNCHANGED modeVars

\* The state after a sweep, and the list swept there.
NextState == CASE gcstate = "swpallgc"   -> "swpfinobj"
               [] gcstate = "swpfinobj"  -> "swptobefnz"
               [] gcstate = "swptobefnz" -> "swpend"
NextList  == CASE gcstate = "swpallgc"   -> "finobj"
               [] gcstate = "swpfinobj"  -> "tobefnz"
               [] gcstate = "swptobefnz" -> "none"

sweepstep ==
    /\ gcstate \in {"swpallgc", "swpfinobj", "swptobefnz"}
    /\ \/ /\ sweepgc # "none"
          /\ LET len == Len(list[ListOf(sweepgc)])
                 max == IndexOf(sweepgc) + GCSWEEPMAX
             IN  Sweep(sweepgc, IF goals # << >> \/ max > len THEN len ELSE max,
                       color, entries, list, currentwhite)
          /\ UNCHANGED gcstate
       \/ /\ sweepgc = "none"
          /\ gcstate' = NextState /\ sweepgc' = NextList
          /\ UNCHANGED <<heapVars, color>>
    /\ UNCHANGED <<gray, grayagain, currentwhite, modeVars>>

swpend ==
    /\ gcstate = "swpend"
    /\ gcstate' = "callfin"
    /\ UNCHANGED <<heapVars, markVars, currentwhite, sweepgc, modeVars>>

\* GCTM: the object goes back to allgc, then its finalizer starts with the
\* object on the stack.
GCTM ==
    /\ gcstate = "callfin" /\ list["tobefnz"] # << >> /\ ~gcemergency
    /\ LET o == Head(list["tobefnz"])
       IN  /\ list' = [list EXCEPT !["tobefnz"] = Tail(@), !["allgc"] = <<o>> \o @]
           /\ entries' = [entries EXCEPT ![Main] = @ \union {[key |-> NoKey, value |-> o]}]
    /\ gcstp' = TRUE
    /\ UNCHANGED <<kind, markVars, phaseVars, goals, gcemergency>>

\* Finalizers wait for the next cycle in an emergency or when the stack is
\* too small (luaD_checkminstack), which the model leaves open.
finishcycle ==
    /\ gcstate = "callfin"
    /\ gcstate' = "pause"
    /\ UNCHANGED <<heapVars, markVars, currentwhite, sweepgc, modeVars>>

singlestep ==
    \/ restartcollection
    \/ \E o \in gray : goals = << >> /\ propagatemark(o)
    \/ enteratomic
    \/ atomic
    \/ sweepstep
    \/ swpend
    \/ GCTM
    \/ finishcycle

-----------------------------------------------------------------------------
(* Full collections.  An emergency collection interrupts an allocation,     *)
(* even one that a finalizer makes during a full collection.                *)

luaC_fullgc(isemergency) ==
    /\ ~gcemergency
    /\ isemergency \/ (goals = << >> /\ ~gcstp)
    /\ goals = << >> \/ gcstp
    /\ goals' = <<"pause", "callfin", "pause">>
                \o (IF isemergency THEN <<"resume">> ELSE << >>) \o goals
    /\ gcemergency' = isemergency
    /\ \/ /\ keepinvariant
          /\ gcstate' = "swpallgc"
          /\ Sweep("allgc", FirstLive("allgc", color, currentwhite),
                   color, entries, list, currentwhite)
       \/ ~keepinvariant /\ UNCHANGED <<heapVars, color, gcstate, sweepgc>>
    /\ UNCHANGED <<gray, grayagain, currentwhite, gcstp>>

\* luaC_runtilstate has reached its state, or the emergency is over.
ReachGoal ==
    /\ goals # << >> /\ Head(goals) \in {gcstate, "resume"}
    /\ ~gcstp \/ gcemergency
    /\ goals' = Tail(goals)
    /\ gcemergency' = (gcemergency /\ Head(goals) # "resume")
    /\ UNCHANGED <<heapVars, markVars, phaseVars, gcstp>>

luaC_step == goals = << >> /\ ~gcstp /\ singlestep

luaC_runtilstate ==
    /\ goals # << >> /\ Head(goals) \notin {gcstate, "resume"}
    /\ ~gcstp \/ gcemergency
    /\ singlestep

Collector == luaC_step \/ luaC_runtilstate \/ ReachGoal

-----------------------------------------------------------------------------
(* The program.                                                            *)

Runs == /\ goals = << >> \/ (gcstp /\ ~gcemergency)
        /\ gcstate \in program.turns

Held == Values(Main) \union Permanent

Push(v) == [entries EXCEPT ![Main] = @ \union {[key |-> NoKey, value |-> v]}]

luaC_newobj(o, k) ==
    /\ o \in Others /\ kind[o] = "free"
    /\ Cardinality(entries[Main]) < MaxStack
    /\ kind' = [kind EXCEPT ![o] = k]
    /\ color' = [color EXCEPT ![o] = currentwhite]
    /\ list' = [list EXCEPT !["allgc"] = <<o>> \o @]
    /\ entries' = Push(o)
    /\ UNCHANGED <<gray, grayagain, phaseVars, modeVars>>

\* Reading a field, also of a weak table, takes what is there to the stack.
Get(t, v) ==
    /\ t \in Held /\ v \in Refs(t)
    /\ Cardinality(entries[Main]) < MaxStack
    /\ entries' = Push(v)
    /\ UNCHANGED <<kind, list, markVars, phaseVars, modeVars>>

Pop(v) ==
    /\ v \in Values(Main)
    /\ entries' = [entries EXCEPT ![Main] = {e \in @ : e.value # v}]
    /\ UNCHANGED <<kind, list, markVars, phaseVars, modeVars>>

luaC_barrier_(o, v) ==
    \/ /\ keepinvariant
       /\ color' = [color EXCEPT ![v] = "gray"] /\ gray' = gray \union {v}
       /\ UNCHANGED grayagain
    \/ /\ ~keepinvariant
       /\ color' = [color EXCEPT ![o] = currentwhite]
       /\ UNCHANGED <<gray, grayagain>>

luaC_barrierback_(o) ==
    /\ color' = [color EXCEPT ![o] = "gray"]
    /\ grayagain' = grayagain \union {o}
    /\ UNCHANGED gray

luaC_barrierback_bug(o, S) == UNCHANGED markVars
luaC_barrierback(o, S) ==
    \/ /\ color[o] = "black" /\ \E v \in S : White(v)
       /\ luaC_barrierback_(o)
    \/ /\ ~(color[o] = "black" /\ \E v \in S : White(v))
       /\ UNCHANGED markVars

luaC_barrier_bug(o, v) ==
    \/ White(o) /\ color[v] = "black" /\ luaC_barrier_(o, v)
    \/ ~(White(o) /\ color[v] = "black") /\ UNCHANGED markVars
luaC_barrier(o, v) ==
    \/ color[o] = "black" /\ White(v) /\ luaC_barrier_(o, v)
    \/ ~(color[o] = "black" /\ White(v)) /\ UNCHANGED markVars

\* t refers to es now: as many entries as the bounds admit.
Refer(t, es) ==
    /\ Cardinality(es) <= MaxEntries
    /\ Cardinality(es) + Cardinality(UNION {{o} \X entries[o] : o \in Objects \ {Main, t}})
          <= program.links
    /\ entries' = [entries EXCEPT ![t] = es]

\* A table set: the barrier is for the value, and for the key if it is new.
SetTable(t, k, v) ==
    /\ t \in Held /\ kind[t] \in Modes
    /\ k \in Held \union {NoKey} /\ v \in Values(Main)
    /\ Refer(t, {e \in entries[t] : e.key # k \/ k = NoKey}
                \union {[key |-> k, value |-> v]})
    /\ luaC_barrierback(t, {v} \union ({k} \ (Keys(t) \union {NoKey})))
    /\ UNCHANGED <<kind, list, phaseVars, modeVars>>

\* Upvalues of closures have the forward barrier, stacks of coroutines none.
SetOther(t, v) ==
    /\ t \in Held /\ v \in Values(Main)
    /\ Refer(t, entries[t] \union {[key |-> NoKey, value |-> v]})
    /\ \/ kind[t] = "closure" /\ luaC_barrier(t, v)
       \/ kind[t] = "thread" /\ UNCHANGED markVars
    /\ UNCHANGED <<kind, list, phaseVars, modeVars>>

SetNil(t, e) ==
    /\ t \in Held /\ e \in entries[t]
    /\ entries' = [entries EXCEPT ![t] = @ \ {e}]
    /\ UNCHANGED <<kind, list, markVars, phaseVars, modeVars>>

\* setmetatable with another __mode ...
SetMode(t, mode) ==
    /\ t \in Held /\ kind[t] \in Modes \ {mode} /\ mode \in Modes \intersect program.kinds
    /\ kind' = [kind EXCEPT ![t] = mode]
    /\ Cardinality({o \in Objects : kind'[o] \in Modes \ {"table"}}) <= MaxWeak
    /\ UNCHANGED <<entries, list, markVars, phaseVars, modeVars>>

luaC_checkfinalizer_list_bug(o) ==
    LET c  == IF issweepphase THEN [color EXCEPT ![o] = currentwhite] ELSE color
    IN  /\ o \in Held \ Roots /\ kind[o] \in Modes
        /\ ~tofinalize(o)
        /\ color' = c /\ list' = [list EXCEPT !["finobj"] = <<o>> \o @]
        /\ UNCHANGED <<kind, entries, sweepgc>>
        /\ UNCHANGED <<gray, grayagain, gcstate, currentwhite, modeVars>>
luaC_checkfinalizer_sweep_bug(o) ==
    LET c  == IF issweepphase THEN [color EXCEPT ![o] = currentwhite] ELSE color
        ls == [list EXCEPT !["allgc"] = Without(@, {o}), !["finobj"] = <<o>> \o @]
    IN  /\ o \in Held \ Roots /\ kind[o] \in Modes
        /\ ~tofinalize(o)
        /\ color' = c /\ list' = ls
        /\ UNCHANGED <<kind, entries, sweepgc>>
        /\ UNCHANGED <<gray, grayagain, gcstate, currentwhite, modeVars>>
\* ... and with a finalizer.  Between the steps of a sweep the object must not
\* take the place where the sweep goes on along to the other list.
luaC_checkfinalizer(o) ==
    LET c  == IF issweepphase THEN [color EXCEPT ![o] = currentwhite] ELSE color
        ls == [list EXCEPT !["allgc"] = Without(@, {o}), !["finobj"] = <<o>> \o @]
    IN  /\ o \in Held \ Roots /\ kind[o] \in Modes
        /\ ~tofinalize(o)
        /\ \/ /\ issweepphase /\ sweepgc = o
              /\ Sweep(o, FirstLive(o, c, currentwhite), c, entries, ls, currentwhite)
           \/ /\ ~(issweepphase /\ sweepgc = o)
              /\ color' = c /\ list' = ls
              /\ UNCHANGED <<kind, entries, sweepgc>>
        /\ UNCHANGED <<gray, grayagain, gcstate, currentwhite, modeVars>>

FinalizerReturns ==
    /\ gcstp
    /\ gcstp' = FALSE
    /\ UNCHANGED <<heapVars, markVars, phaseVars, goals, gcemergency>>

Program ==
    /\ Runs
    /\ \/ \E o \in Others, k \in program.kinds \ (Modes \ {"table"}) : luaC_newobj(o, k)
       \/ \E t \in Held : \E v \in Refs(t) : Get(t, v)
       \/ \E v \in Values(Main) : Pop(v)
       \/ \E t \in Held, v \in Values(Main) :
             SetOther(t, v) \/ \E k \in program.keys : SetTable(t, k, v)
       \/ \E t \in Held : \E e \in entries[t] : SetNil(t, e)
       \/ \E t \in Held, m \in Modes : SetMode(t, m)
       \/ \E o \in Held : luaC_checkfinalizer(o)
       \/ FinalizerReturns
       \/ \E b \in program.full : luaC_fullgc(b)

Next == (Collector \/ Program) /\ UNCHANGED program

Spec == Init /\ [][Next]_vars

\* Allocations pay for steps of the collector, so a program that goes on
\* allocating, in finalizers that return, gives it its turns.
Fairness == []<><<Collector>>_vars
FairSpec == Spec /\ Fairness

-----------------------------------------------------------------------------
TypeOK ==
    /\ kind \in [Objects -> Modes \union {"closure", "thread", "free"}]
    /\ entries \in [Objects -> SUBSET Entry]
    /\ color \in [Objects -> Whites \union {"gray", "black"}]
    /\ list \in [ListNames -> Seq(Objects)]
    /\ gray \subseteq Objects /\ grayagain \subseteq Objects
    /\ gcstate \in States /\ currentwhite \in Whites
    /\ sweepgc \in Objects \union ListNames \union {"none"}
    /\ goals \in Seq(States \union {"resume"})
    /\ gcemergency \in BOOLEAN /\ gcstp \in BOOLEAN /\ program \in Programs
    \* Every object is in exactly one of allgc, finobj and tobefnz, once: none
    \* is lost to the sweep and none that was freed is still linked, whatever
    \* setmetatable does between two steps of a sweep.
    /\ \A l \in ListNames : IsInjective(list[l])
    /\ \A l, m \in ListNames : l # m => Range(list[l]) \intersect Range(list[m]) = {}
    /\ Allocated = UNION {Range(list[l]) : l \in ListNames}

\* lgc.h: while marking, a black object never points to a white one, and
\* every gray object is in a gray list.
MainInvariant ==
    keepinvariant =>
        /\ \A o \in Allocated : color[o] = "black" => \A v \in Refs(o) : ~White(v)
        /\ {o \in Allocated : color[o] = "gray"} = gray \union grayagain

\* lgc.h: the invariant is restored when the sweep ends and all objects are
\* white again; and during the sweep what is behind it is white.
SweptIsWhite ==
    /\ gcstate \in {"swpend", "callfin", "pause"} =>
          \A o \in Allocated : color[o] = currentwhite
    /\ (gcstate = "swpallgc" /\ sweepgc \in Objects) =>
          \A i \in 1..IndexOf(sweepgc) : color[list["allgc"][i]] = currentwhite

\* What a program can get hold of, weak references included, is never freed.
NoDangling ==
    LET closed == {M \in {Roots \union X : X \in SUBSET Others} :
                      \A o \in M : Refs(o) \subseteq M}
    IN  \A o \in Others : (\A M \in closed : o \in M) => kind[o] # "free"

\* The parts of the inductive invariant that none of the above says.

\* What the collector will not free: in the sweep phase the objects that are
\* not of the other white, else all.  References lead from there to there, and
\* objects with finalizers are among them.
Alive == {o \in Allocated : color[o] # otherwhite}
AliveIsClosed ==
    /\ Roots \union Range(list["finobj"]) \union Range(list["tobefnz"]) \subseteq Alive
    /\ \A o \in Alive : Refs(o) \subseteq Alive
    /\ \A o \in Objects \ Allocated : entries[o] = {}
    /\ gcstate \notin {"swpallgc", "swpfinobj", "swptobefnz"} => Alive = Allocated

\* A stack has no barrier: it is gray until the atomic step, and no object
\* waits twice for being visited.
StacksAreGray ==
    /\ kind[Main] = "thread"
    /\ keepinvariant => /\ \A o \in Objects : kind[o] = "thread" => color[o] # "black"
                        /\ gray \intersect grayagain = {}

\* The objects of the list s up to o.
Through(s, o) == {s[i] : i \in {j \in DOMAIN s : \E k \in DOMAIN s : s[k] = o /\ j <= k}}

\* Where the sweep is, and what of a list it has passed.
Sweeping(l) == \/ gcstate = "swpallgc" /\ l = "allgc"
               \/ gcstate = "swpfinobj" /\ l = "finobj"
               \/ gcstate = "swptobefnz" /\ l = "tobefnz"
Swept(l)    == \/ gcstate \in {"swpend", "callfin", "pause"}
               \/ gcstate \in {"swpfinobj", "swptobefnz"} /\ l = "allgc"
               \/ gcstate = "swptobefnz" /\ l = "finobj"
Passed(l)   == IF Swept(l) \/ (Sweeping(l) /\ sweepgc = "none") THEN Range(list[l])
               ELSE IF Sweeping(l) /\ sweepgc \in Objects THEN Through(list[l], sweepgc)
               ELSE {}
SweepAdvances ==
    /\ \A l \in ListNames : Sweeping(l) => sweepgc \in {l, "none"} \union Range(list[l])
    /\ gcstate \notin {"swpallgc", "swpfinobj", "swptobefnz"} => sweepgc = "none"
    /\ \A l \in ListNames : \A o \in Passed(l) : color[o] = currentwhite

IInv == TypeOK /\ MainInvariant /\ AliveIsClosed /\ StacksAreGray /\ SweepAdvances

StronglyReachable == Marked(Roots, Objects)

\* The collector removes an entry of a weak table that is alive only if its
\* value, held weakly, or its key, held weakly, is not strongly reachable:
\* marks spread through ephemeron tables until nothing changes.
KeepsLiveEntries ==
    [][(gcstate = "enteratomic" /\ gcstate' # gcstate) =>
         \A t \in StronglyReachable : \A e \in entries[t] \ entries'[t] :
            \/ kind[t] \in {"weakvalue", "allweak"} /\ e.value \notin StronglyReachable
            \/ kind[t] \in {"ephemeron", "allweak"}
                 /\ e.key # NoKey /\ e.key \notin StronglyReachable]_vars

\* iscleared: "for objects being finalized, keep them in keys, but not in
\* values": a finalizer's object is in no weak value the program can reach.
FinalizedIsNoWeakValue ==
    [][\A o \in Range(list["tobefnz"]') \ Range(list["tobefnz"]) :
          \A t \in StronglyReachable :
             kind[t] \in {"weakvalue", "allweak"} => o \notin {e.value : e \in entries'[t]}]_vars

Garbage(o) ==
    /\ kind[o] # "free"
    /\ o \notin Marked(Roots \union Range(list["finobj"]) \union Range(list["tobefnz"]),
                     Objects)

\* What no root and no object waiting for its finalizer leads to is freed, even
\* when it was marked just before or lies where the sweep has been, and
\* whatever the program does meanwhile.
GarbageIsFreed == \A o \in Others : Garbage(o) ~> kind[o] = "free"

\* The collector, with its lists, phases, barriers, finalizers and full
\* collections in the middle of everything, implements the abstract heap.
Heap == INSTANCE LuaHeap WITH
          Root <- Main, Fixed <- Permanent, Pool <- Objects,
          used <- Allocated, refs <- [o \in Objects |-> Refs(o)],
          waiting <- Range(list["finobj"]), due <- Range(list["tobefnz"])
ImplementsHeap == Heap!HeapSpec
=============================================================================
