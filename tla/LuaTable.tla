------------------------------ MODULE LuaTable -------------------------------
(***************************************************************************)
(* ltable.c: one table with its array part and its hash part, a chained    *)
(* scatter table with Brent's variation.  A key is <<kind, x>>: of kind    *)
(* "int" with its value (a float with an integral value is turned into it  *)
(* first), or of kind "str" or "obj" with a name.  Chains are relative     *)
(* offsets, as in the code.  Memory may fail, and failing runs an          *)
(* emergency collection, which turns the keys of empty entries into dead   *)
(* keys and clears the entries of a weak table whose values are gone.      *)
(* Operators named _bug are broken variants that no definition uses.       *)
(***************************************************************************)
EXTENDS Integers, Sequences, FiniteSets, FiniteSetsExt, SequencesExt

CONSTANTS Keys,            \* the keys programs use, floats not included
          Vals, Nil,
          hash,            \* hash of a string, address of an object
          LIMFORLAST, MAXASIZE, LUA_MAXINTEGER,
          TablePrograms    \* bound: the keys and values one behaviour uses, the seeds
                           \* its state may have, the sizes it creates tables with,
                           \* whether values are weak, it loops, memory may run out

IntKeys == {k[2] : k \in {k \in Keys : k[1] = "int"}}

ASSUME TableAssumption ==
    /\ Nil \notin Vals
    /\ LIMFORLAST \in Nat /\ MAXASIZE \in Nat /\ MAXASIZE + 1 < LUA_MAXINTEGER
    /\ IntKeys \subseteq (-LUA_MAXINTEGER - 1)..LUA_MAXINTEGER
    /\ \A p \in TablePrograms : /\ p.keys \subseteq Keys /\ p.vals \subseteq Vals /\ p.seeds \subseteq Nat
                          /\ p.sizes \subseteq 0..MAXASIZE
                          /\ {p.weak, p.loops, p.fails} \subseteq BOOLEAN

VARIABLES program,      \* the member of TablePrograms that bounds this behaviour
          t,            \* the table
          seed,
          entries,      \* what the program believes is in it (history)
          collected,    \* values the collector has freed
          stale,        \* keys whose values were copied before that (history)
          control, visited, traversing      \* a loop over the table with next

tablevars == <<program, t, seed, entries, collected, stale, control, visited, traversing>>

FreeKey == <<"free">>
Absent  == -1
CeilLog2(n) == CHOOSE l \in 0..n : 2 ^ l >= n /\ \A i \in 0..(l - 1) : 2 ^ i < n
Ascending(i, j) == [n \in 1..(j - i + 1) |-> i + n - 1]

-----------------------------------------------------------------------------
(* Nodes: main positions, chains, search.                                   *)
sizenode(h) == Cardinality(DOMAIN h.node)
hashmod(h, n) == n % (IF sizenode(h) = 1 THEN 1 ELSE sizenode(h) - 1)

\* Integers count as unsigned words.
mainpositionTV(h, key) ==
    CASE key[1] = "int" -> hashmod(h, key[2] % (2 * LUA_MAXINTEGER + 2))
      [] key[1] = "str" -> hash[key] % sizenode(h)
      [] OTHER          -> hashmod(h, hash[key])

EmptyNode == [key |-> FreeKey, dead |-> FALSE, val |-> Nil, next |-> 0]

RECURSIVE Chain(_, _)
Chain(h, n) == <<n>> \o IF h.node[n].next = 0 THEN << >>
                        ELSE Chain(h, n + h.node[n].next)

\* deadok: a dead key is still found by its identity.
getgeneric(h, key, deadok) ==
    LET found == SelectSeq(Chain(h, mainpositionTV(h, key)),
                           LAMBDA n : h.node[n].key = key /\ (deadok \/ ~h.node[n].dead))
    IN  IF found = << >> THEN Absent ELSE found[1]

HashGet(h, key) ==
    LET n == getgeneric(h, key, FALSE) IN IF n = Absent THEN Nil ELSE h.node[n].val

keyinarray(u, key) == key[1] = "int" /\ key[2] \in 1..u.asize

luaH_get(u, key) == IF keyinarray(u, key) THEN u.array[key[2]] ELSE HashGet(u.h, key)

-----------------------------------------------------------------------------
(* Inserting.                                                               *)
haslastfree(h) == 2 ^ LIMFORLAST <= sizenode(h)

\* The free position and the hash part with its mark moved down.
getfreepos(h) ==
    LET top  == IF haslastfree(h) THEN h.lastfree ELSE sizenode(h)
        free == {n \in 0..(top - 1) : h.node[n].key = FreeKey}
        f    == IF h.dummy \/ free = {} THEN Absent ELSE Max(free)
    IN  [pos |-> f,
         h |-> IF haslastfree(h) THEN [h EXCEPT !.lastfree = IF f = Absent THEN 0 ELSE f] ELSE h]

Store(h, n, key, val) ==
    [h EXCEPT !.node[n].key = key, !.node[n].dead = FALSE, !.node[n].val = val]

\* The node in the way is in its own chain: it moves to the free position f.
MoveColliding(h, mp, f) ==
    LET other == mainpositionTV(h, h.node[mp].key)
        prev  == CHOOSE n \in Range(Chain(h, other)) \ {mp} : n + h.node[n].next = mp
        next  == h.node[mp].next
    IN  [h EXCEPT !.node[prev].next = f - prev,
                  !.node[f] = [h.node[mp] EXCEPT !.next = IF next = 0 THEN 0 ELSE next + mp - f],
                  !.node[mp].next = 0, !.node[mp].val = Nil]

\* The node in the way is where it belongs: the new one goes to f, behind it.
ChainBehind(h, mp, f) ==
    LET next == h.node[mp].next
    IN  [h EXCEPT !.node[f].next = IF next = 0 THEN @ ELSE mp + next - f,
                  !.node[mp].next = f - mp]

insertkey(h, key, val) ==
    LET mp   == mainpositionTV(h, key)
        free == getfreepos(h)
    IN  IF h.node[mp].val = Nil /\ ~h.dummy
        THEN [done |-> TRUE, h |-> Store(h, mp, key, val)]
        ELSE IF free.pos = Absent THEN [done |-> FALSE, h |-> free.h]
        ELSE [done |-> TRUE,
              h |-> IF mainpositionTV(h, h.node[mp].key) # mp
                    THEN Store(MoveColliding(free.h, mp, free.pos), mp, key, val)
                    ELSE Store(ChainBehind(free.h, mp, free.pos), free.pos, key, val)]

\* The code asserts that the key fits.
newcheckedkey(u, key, val) ==
    IF keyinarray(u, key) THEN [u EXCEPT !.array[key[2]] = val]
    ELSE [u EXCEPT !.h = insertkey(u.h, key, val).h]

-----------------------------------------------------------------------------
(* Sizes.                                                                   *)
setnodevector(size) ==
    LET n == IF size = 0 THEN 1 ELSE 2 ^ CeilLog2(size)
    IN  [node |-> [i \in 0..(n - 1) |-> EmptyNode], dummy |-> size = 0, lastfree |-> n]

\* What a collection may take from the table.
Collectable == IF program.weak THEN SUBSET (program.vals \ collected) ELSE {{}}

\* Emergency collections: none, or one after which some values are gone.
NoGC == [run |-> FALSE, gone |-> {}]
Emergencies == IF ~program.fails THEN {NoGC}
               ELSE {NoGC} \union {[run |-> TRUE, gone |-> g] : g \in Collectable}

clearkey_bug(n) == IF n.key[1] \in {"str", "obj"} THEN [n EXCEPT !.dead = TRUE] ELSE n
clearkey(n) == IF n.val = Nil /\ n.key[1] \in {"str", "obj"} THEN [n EXCEPT !.dead = TRUE] ELSE n

AfterGC(u, e) ==
    LET kept(v) == IF v \in e.gone THEN Nil ELSE v
    IN  IF ~e.run THEN u
        ELSE [u EXCEPT !.array  = [i \in DOMAIN u.array |-> kept(u.array[i])],
                       !.h.node = [n \in DOMAIN u.h.node |->
                                     clearkey([u.h.node[n] EXCEPT !.val = kept(@)])]]

reinsertOldSlice(u, fresh, newasize) ==
    FoldLeft(LAMBDA h, i : IF u.array[i] = Nil THEN h
                           ELSE insertkey(h, <<"int", i>>, u.array[i]).h,
             fresh, Ascending(newasize + 1, u.asize))

reinserthash(u, old) ==
    FoldLeft(LAMBDA w, n : IF old.node[n].val = Nil THEN w
                           ELSE newcheckedkey(w, old.node[n].key, old.node[n].val),
             u, Ascending(0, sizenode(old) - 1))

\* e1 runs when the nodes are allocated, e2 when the array is: by then the
\* vanishing slice is in the new nodes, where no collection looks.
luaH_resize(u, newasize, nhsize, e1, e2) ==
    LET v     == IF nhsize = 0 THEN u ELSE AfterGC(u, e1)
        nodes == reinsertOldSlice(v, setnodevector(nhsize), newasize)
        w     == IF newasize \in {0, u.asize} THEN v ELSE AfterGC(v, e2)
        grown == [asize |-> newasize, hint |-> newasize \div 2, h |-> nodes,
                  array |-> [i \in 1..newasize |-> IF i <= u.asize THEN w.array[i] ELSE Nil]]
    IN  reinserthash(grown, w.h)

\* The keys of the slice whose values the second collection takes.
Stale(u, newasize, e2) ==
    {<<"int", i>> : i \in {i \in (newasize + 1)..u.asize : newasize # 0 /\ u.array[i] \in e2.gone}}

\* The allocation of the array fails, after one of the nodes that did not: the
\* table has its old hash part again, and the new one is given up.
ResizeFails_bug(u, newasize, nhsize, e) ==
    [AfterGC(u, e) EXCEPT !.h = reinsertOldSlice(u, setnodevector(nhsize), newasize)]
ResizeFails(u, newasize, nhsize, e) == AfterGC(u, e)

\* The largest 2^i of which more than a third are keys in ks, with keys in
\* (2^(i-1), 2^i]; ks are the keys that may live in the array.
UpTo(ks, i) == Cardinality({k \in ks : k <= 2 ^ i})
computesizes(ks) ==
    LET na   == Cardinality(ks)
        good == {i \in 0..CeilLog2(MAXASIZE) :
                    /\ 2 ^ i <= 3 * na /\ 2 ^ i <= 3 * UpTo(ks, i)
                    /\ UpTo(ks, i) > IF i = 0 THEN 0 ELSE UpTo(ks, i - 1)}
    IN  IF good = {} THEN [asize |-> 0, na |-> 0]
        ELSE [asize |-> 2 ^ Max(good), na |-> UpTo(ks, Max(good))]

RehashSizes(u, ek) ==
    LET inhash == {n \in DOMAIN u.h.node : u.h.node[n].val # Nil}
        keys   == {ek} \union {u.h.node[n].key : n \in inhash}
        hashed == {k[2] : k \in {k \in keys : k[1] = "int" /\ k[2] \in 1..MAXASIZE}}
        arrayed == {i \in 1..u.asize : u.array[i] # Nil}
        best   == computesizes(hashed \union arrayed)
        nsize  == Cardinality(inhash) + 1
                  + IF hashed = {} THEN 0 ELSE Cardinality(arrayed) - best.na
        deleted == inhash # DOMAIN u.h.node
    IN  [asize |-> IF hashed = {} THEN u.asize ELSE best.asize,
         nsize |-> IF deleted THEN nsize + nsize \div 4 ELSE nsize]

\* One way an operation can end.
Result(u, gone, kept, ok) == [t |-> u, gone |-> gone, stale |-> kept, ok |-> ok]

\* An insertion that may need room, and may not get it.
NewKeyResults(u, key, val) ==
    LET try   == insertkey(u.h, key, val)
        v     == [u EXCEPT !.h = try.h]
        s     == RehashSizes(v, key)
        nodes == IF s.nsize = 0 THEN {NoGC} ELSE Emergencies
        array == IF s.asize \in {0, u.asize} THEN {NoGC} ELSE Emergencies
    IN  IF try.done THEN {Result(v, {}, {}, TRUE)}
        ELSE {Result(newcheckedkey(luaH_resize(v, s.asize, s.nsize, e1, e2), key, val),
                     e1.gone \union e2.gone, Stale(AfterGC(v, e1), s.asize, e2), TRUE) :
                 e1 \in nodes, e2 \in array}
             \union {Result(AfterGC(v, e), e.gone, {}, FALSE) : e \in nodes \ {NoGC}}
             \union {Result(ResizeFails(AfterGC(v, e1), s.asize, s.nsize, e2),
                            e1.gone \union e2.gone, {}, FALSE) :
                       e1 \in nodes, e2 \in array \ {NoGC}}

\* An assignment, with all its outcomes.
luaH_set(u, key, val) ==
    LET n == getgeneric(u.h, key, FALSE)
    IN  IF keyinarray(u, key) THEN {Result([u EXCEPT !.array[key[2]] = val], {}, {}, TRUE)}
        ELSE IF n # Absent THEN {Result([u EXCEPT !.h.node[n].val = val], {}, {}, TRUE)}
        ELSE IF val = Nil THEN {Result(u, {}, {}, TRUE)}
        ELSE NewKeyResults(u, key, val)

-----------------------------------------------------------------------------
(* Traversal.                                                               *)
BadKey == <<"invalid key to 'next'">>

findindex_bug(u, key) ==
    IF key = Nil THEN 0 ELSE IF keyinarray(u, key) THEN key[2]
    ELSE LET n == getgeneric(u.h, key, FALSE)
         IN  IF n = Absent THEN Absent ELSE n + 1 + u.asize
findindex(u, key) ==
    IF key = Nil THEN 0 ELSE IF keyinarray(u, key) THEN key[2]
    ELSE LET n == getgeneric(u.h, key, TRUE)
         IN  IF n = Absent THEN Absent ELSE n + 1 + u.asize

luaH_next(u, key) ==
    LET i     == findindex(u, key)
        array == {j \in (i + 1)..u.asize : u.array[j] # Nil}
        nodes == {n \in DOMAIN u.h.node : n >= i - u.asize /\ u.h.node[n].val # Nil}
    IN  IF i = Absent THEN BadKey
        ELSE IF array # {} THEN <<"int", Min(array)>>
        ELSE IF nodes # {} THEN u.h.node[Min(nodes)].key ELSE Nil

-----------------------------------------------------------------------------
(* The length.                                                              *)
Empty(u, i) == luaH_get(u, <<"int", i>>) = Nil

RECURSIVE binsearch(_, _, _)
binsearch(u, i, j) ==
    LET m == (i + j) \div 2
    IN  IF j - i <= 1 THEN i
        ELSE IF Empty(u, m) THEN binsearch(u, i, m) ELSE binsearch(u, m, j)

\* i is present; j is looked at next, with the bits of rnd left.
RECURSIVE Probe(_, _, _, _)
Probe(u, i, j, rnd) ==
    IF Empty(u, j) THEN binsearch(u, i, j)
    ELSE IF j <= LUA_MAXINTEGER \div 2 - 1 THEN Probe(u, j, j * 2 + (rnd % 2), rnd \div 2)
    ELSE IF Empty(u, LUA_MAXINTEGER) THEN binsearch(u, j, LUA_MAXINTEGER)
    ELSE LUA_MAXINTEGER

hash_search(u) ==
    LET i    == u.asize + 1
        n    == IF u.asize > 0 THEN CeilLog2(u.asize) ELSE 0
        incr == (seed % 2 ^ n) + 1
    IN  Probe(u, i, IF incr <= LUA_MAXINTEGER - i THEN i + incr ELSE i + 1, seed \div 2 ^ n)

\* Up to four places around the hint are looked at, then the rest is halved.
Vicinity == 4

BorderBefore(u, limit) ==
    LET near == {i \in 1..(limit - 1) : limit - i <= Vicinity /\ ~Empty(u, i)}
    IN  IF near # {} THEN Max(near)
        ELSE binsearch(u, 0, IF limit > Vicinity THEN limit - Vicinity ELSE 1)

\* Absent when the array has no border from limit on.
BorderAfter_bug(u, limit) ==
    LET near == {i \in (limit + 1)..u.asize : i - limit <= Vicinity /\ Empty(u, i)}
    IN  IF near # {} THEN Min(near) - 1 ELSE Absent
BorderAfter(u, limit) ==
    LET near == {i \in (limit + 1)..u.asize : i - limit <= Vicinity /\ Empty(u, i)}
    IN  IF near # {} THEN Min(near) - 1
        ELSE IF Empty(u, u.asize) THEN binsearch(u, Min({limit + Vicinity, u.asize}), u.asize)
        ELSE Absent

HashBorder(u) == IF u.h.dummy \/ Empty(u, u.asize + 1) THEN u.asize ELSE hash_search(u)

luaH_getn(u) ==
    LET limit == Max({u.hint, 1})
        b     == IF Empty(u, limit) THEN BorderBefore(u, limit) ELSE BorderAfter(u, limit)
    IN  IF u.asize = 0 THEN [n |-> HashBorder(u), hint |-> u.hint]
        ELSE IF b # Absent THEN [n |-> b, hint |-> b]
        ELSE [n |-> HashBorder(u), hint |-> u.asize]

-----------------------------------------------------------------------------
loop == <<control, visited, traversing>>

luaH_new == [asize |-> 0, array |-> << >>, hint |-> 0, h |-> setnodevector(0)]

TableInit ==
    /\ program \in TablePrograms
    /\ \E na, nh \in program.sizes : t = luaH_resize(luaH_new, na, nh, NoGC, NoGC)
    /\ seed \in program.seeds /\ collected = {} /\ entries = {} /\ stale = {}
    /\ control = Nil /\ visited = {} /\ traversing = FALSE

NoTable ==
    /\ program = (CHOOSE p \in TablePrograms : TRUE) /\ t = luaH_new /\ seed = 0
    /\ collected = {} /\ entries = {} /\ stale = {}
    /\ control = Nil /\ visited = {} /\ traversing = FALSE

Without(gone) == {e \in entries : e[2] \notin gone}
Entry(key, val) == IF val = Nil THEN {} ELSE {<<key, val>>}

\* While a loop runs the program changes only fields that are there.
Set(key, val) ==
    /\ val \notin collected
    /\ traversing => luaH_get(t, key) # Nil
    /\ \E r \in luaH_set(t, key, val) :
          /\ val \notin r.gone                    \* it is on the stack
          /\ t' = r.t /\ collected' = collected \union r.gone
          /\ stale' = IF r.ok THEN (stale \ {key}) \union r.stale ELSE stale
          /\ entries' = IF r.ok THEN {e \in Without(r.gone) : e[1] # key} \union Entry(key, val)
                        ELSE Without(r.gone)
    /\ UNCHANGED <<seed, loop>>

\* A constructor stores its items 1..n, making room for them first.
SetList(n, val) ==
    /\ ~traversing /\ n > t.asize /\ \A i \in 1..n : <<"int", i>> \in program.keys
    /\ val \notin collected
    /\ LET u == luaH_resize(t, n, IF t.h.dummy THEN 0 ELSE sizenode(t.h), NoGC, NoGC)
       IN  t' = [u EXCEPT !.array = [i \in 1..n |-> val]]
    /\ stale' = stale \ {<<"int", i>> : i \in 1..n}
    /\ LET items == {<<"int", i>> : i \in 1..n}
       IN  entries' = {e \in entries : e[1] \notin items} \union (items \X {val})
    /\ UNCHANGED <<seed, collected, loop>>

Length == /\ t.asize > 0
          /\ t' = [t EXCEPT !.hint = luaH_getn(t).hint]
          /\ UNCHANGED <<seed, entries, collected, stale, loop>>

\* A collection outside an operation.
Collect(gone) ==
    /\ t' = AfterGC(t, [run |-> TRUE, gone |-> gone])
    /\ collected' = collected \union gone /\ entries' = Without(gone)
    /\ UNCHANGED <<seed, stale, loop>>

BeginLoop == /\ program.loops /\ ~traversing /\ traversing' = TRUE
             /\ UNCHANGED <<t, seed, entries, collected, stale, control, visited>>

LoopStep == LET k == luaH_next(t, control)
            IN  /\ traversing
                /\ IF k = Nil THEN control' = Nil /\ visited' = {} /\ traversing' = FALSE
                   ELSE control' = k /\ visited' = visited \union {k} /\ UNCHANGED traversing
                /\ UNCHANGED <<t, seed, entries, collected, stale>>

TableNext ==
    /\ \/ \E k \in program.keys, v \in program.vals \union {Nil} : Set(k, v)
       \/ \E n \in program.sizes, v \in program.vals : SetList(n, v)
       \/ Length \/ BeginLoop \/ LoopStep
       \/ \E gone \in Collectable : Collect(gone)
    /\ UNCHANGED program

TableSpec == TableInit /\ [][TableNext]_tablevars

-----------------------------------------------------------------------------
\* lua.h and the manual: a border.  The length is one in every state, whatever
\* the hint and the seed are.
GetnIsBorder ==
    LET n == luaH_getn(t).n
        in(i) == luaH_get(t, <<"int", i>>) # Nil
    IN  /\ n = 0 \/ in(n)
        /\ n = LUA_MAXINTEGER \/ ~in(n + 1)

\* Assignments, resizing, collections and failures of memory change what they
\* should and nothing else: every key gives the value it was given last; except
\* a key of a weak table that was in the vanishing slice of the array when the
\* allocation of the smaller array collected its value.
TableIsItsEntries ==
    \A k \in Keys \ stale :
        LET v == luaH_get(t, k)
        IN  IF v = Nil THEN \A e \in entries : e[1] # k ELSE <<k, v>> \in entries

\* Programs see a map: in particular a loop meets every field that stays there
\* once, whatever is cleared, collected or dead meanwhile.
Map == INSTANCE LuaMap WITH weak <- program.weak, at <- control
ImplementsMap == Map!MapSpec
=============================================================================
