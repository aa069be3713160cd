-------------------------------- MODULE LuaSort --------------------------------
(***************************************************************************)
(* ltablib.c: table.sort, a step for every call of the order function.  It *)
(* may be no order at all and answer as it likes.  The values that the C   *)
(* code holds on the Lua stack are those in the array, and a[up - 1] is    *)
(* the pivot P in partition.  Operators named _bug are broken variants     *)
(* that no definition uses.                                                *)
(***************************************************************************)
EXTENDS Integers, Sequences, SequencesExt, FiniteSets

CONSTANTS
    RANLIMIT,       \* smallest part that gets a random pivot
    RATIO,          \* 128: a part so much smaller than the other is a bad split
    Seeds,          \* values of luaL_makeseed
    SortCalls       \* [a, order]: order "<" or "any"

\* The elements stand for values of any ordered type.
ASSUME SortAssumption ==
    /\ RANLIMIT \in Nat /\ RANLIMIT >= 4 /\ RATIO \in Nat \ {0} /\ 0 \notin Seeds
    /\ \A k \in DOMAIN SortCalls : \A c \in SortCalls[k] : c.a \in Seq(Int) /\ c.order \in {"<", "any"}

VARIABLES
    a,          \* the elements
    order,      \* "<", or "any" for a function that answers at random
    frames,     \* calls of auxsort, the innermost first: [lo, up, rnd, n]
    at,         \* the comparison to come: ends, low, high, left, right, or done, error, idle
    p, i, j,    \* pivot and the indices of partition
    sorted      \* history: the elements as the call was given them

sortvars == <<a, order, frames, at, p, i, j, sorted>>

lo == frames[1].lo
up == frames[1].up

\* What the order function may answer to x and y.
sort_comp(x, y) == IF order = "any" THEN BOOLEAN ELSE {x < y}
Swap(s, k, l)   == [s EXCEPT ![k] = s[l], ![l] = s[k]]

\* The random number is one that nothing is known of.
choosePivot(l, u) == LET r4 == (u - l) \div 4 IN (l + r4)..(l + 3 * r4 - 1)

\* Back from a call: the loops of its callers go on, those with nothing left return.
auxsort(fs, seed) ==
    LET live  == {k \in DOMAIN fs : fs[k].lo < fs[k].up}
        first == CHOOSE k \in live : \A m \in live : k <= m
        f     == fs[first]
        rnd   == IF (f.up - f.lo) \div RATIO > f.n THEN seed ELSE f.rnd
    IN  IF live = {} THEN <<>> ELSE [SubSeq(fs, first, Len(fs)) EXCEPT ![1].rnd = rnd]

Begin(fs) == frames' = fs /\ at' = IF fs = <<>> THEN "done" ELSE "ends"
Back      == \E seed \in Seeds : Begin(auxsort(Tail(frames), seed))
Stays     == UNCHANGED <<order, frames>>

\* a[lo] and a[up] first.
Ends ==
    /\ at = "ends"
    /\ \E less \in sort_comp(a[up], a[lo]) : a' = IF less THEN Swap(a, lo, up) ELSE a
    /\ IF up - lo = 1 THEN Back /\ UNCHANGED <<order, p>>
       ELSE /\ p' \in IF up - lo < RANLIMIT \/ frames[1].rnd = 0 THEN {(lo + up) \div 2} ELSE choosePivot(lo, up)
            /\ at' = "low" /\ Stays
    /\ UNCHANGED <<i, j>>

\* The pivot goes to up - 1, and partition begins.
Pivoted(s) ==
    IF up - lo = 2 THEN a' = s /\ Back /\ UNCHANGED <<order, i, j>>
    ELSE a' = Swap(s, p, up - 1) /\ at' = "left" /\ i' = lo + 1 /\ j' = up - 1 /\ Stays

Low ==
    /\ at = "low"
    /\ \E less \in sort_comp(a[p], a[lo]) :
          IF less THEN Pivoted(Swap(a, p, lo)) ELSE at' = "high" /\ Stays /\ UNCHANGED <<a, i, j>>
    /\ UNCHANGED p

High ==
    /\ at = "high"
    /\ \E less \in sort_comp(a[up], a[p]) : Pivoted(IF less THEN Swap(a, p, up) ELSE a)
    /\ UNCHANGED p

Smaller_bug(q) ==
    LET f     == frames[1]
        left  == q - f.lo < f.up - q
        sub   == IF left THEN [f EXCEPT !.up = q - 1] ELSE [f EXCEPT !.lo = q + 1]
        other == IF left THEN [f EXCEPT !.n = q - f.lo] ELSE [f EXCEPT !.up = q - 1, !.n = f.up - q]
    IN  \E seed \in Seeds : Begin(IF sub.lo < sub.up THEN <<sub, other>> \o Tail(frames)
                                  ELSE auxsort(<<other>> \o Tail(frames), seed))
\* The smaller part is sorted by a call, the other by the loop.
Smaller(q) ==
    LET f     == frames[1]
        left  == q - f.lo < f.up - q
        sub   == IF left THEN [f EXCEPT !.up = q - 1] ELSE [f EXCEPT !.lo = q + 1]
        other == IF left THEN [f EXCEPT !.lo = q + 1, !.n = q - f.lo] ELSE [f EXCEPT !.up = q - 1, !.n = f.up - q]
    IN  \E seed \in Seeds : Begin(IF sub.lo < sub.up THEN <<sub, other>> \o Tail(frames)
                                  ELSE auxsort(<<other>> \o Tail(frames), seed))

InvalidOrder == at' = "error" /\ UNCHANGED <<a, i, j, order, frames>>

\* Looks for an element from the left that is not less than P.
partition_bug ==
    \/ /\ at = "left"
       /\ \E less \in sort_comp(a[i], a[up - 1]) :
             IF less THEN i' = i + 1 /\ UNCHANGED <<a, j, at, order, frames>>
             ELSE at' = "right" /\ j' = j - 1 /\ Stays /\ UNCHANGED <<a, i>>
       /\ UNCHANGED p
    \/ /\ at = "right"
       /\ \E less \in sort_comp(a[up - 1], a[j]) :
             IF less THEN IF j < i THEN InvalidOrder ELSE j' = j - 1 /\ UNCHANGED <<a, i, at, order, frames>>
             ELSE IF j < i THEN a' = Swap(a, up - 1, i) /\ Smaller(i) /\ UNCHANGED <<i, j, order>>
             ELSE a' = Swap(a, i, j) /\ i' = i + 1 /\ at' = "left" /\ Stays /\ UNCHANGED j
       /\ UNCHANGED p
partition ==
    \/ /\ at = "left"
       /\ \E less \in sort_comp(a[i], a[up - 1]) :
             IF less THEN IF i = up - 1 THEN InvalidOrder ELSE i' = i + 1 /\ UNCHANGED <<a, j, at, order, frames>>
             ELSE at' = "right" /\ j' = j - 1 /\ Stays /\ UNCHANGED <<a, i>>
       /\ UNCHANGED p
    \/ /\ at = "right"
       /\ \E less \in sort_comp(a[up - 1], a[j]) :
             IF less THEN IF j < i THEN InvalidOrder ELSE j' = j - 1 /\ UNCHANGED <<a, i, at, order, frames>>
             ELSE IF j < i THEN a' = Swap(a, up - 1, i) /\ Smaller(i) /\ UNCHANGED <<i, j, order>>
             ELSE a' = Swap(a, i, j) /\ i' = i + 1 /\ at' = "left" /\ Stays /\ UNCHANGED j
       /\ UNCHANGED p

sort ==
    /\ \E k \in DOMAIN SortCalls : \E c \in SortCalls[k] : a = c.a /\ order = c.order
    /\ frames = IF Len(a) > 1 THEN << [lo |-> 1, up |-> Len(a), rnd |-> 0, n |-> 0] >> ELSE <<>>
    /\ at = IF Len(a) > 1 THEN "ends" ELSE "done"
    /\ p = 0 /\ i = 0 /\ j = 0 /\ sorted = a

NoSort == a = <<>> /\ order = "<" /\ frames = <<>> /\ at = "idle" /\ p = 0 /\ i = 0 /\ j = 0 /\ sorted = a

SortNext == (Ends \/ Low \/ High \/ partition) /\ UNCHANGED sorted

SortSpec == sort /\ [][SortNext]_sortvars

-----------------------------------------------------------------------------
\* What is known between two calls of the order function.

Frame == [lo : Nat, up : Nat, rnd : Seeds \union {0}, n : Int]

SortTypeOK ==
    /\ a \in Seq(Int) /\ sorted \in Seq(Int) /\ Len(a) = Len(sorted)
    /\ order \in {"<", "any"}
    /\ frames \in Seq(Frame)
    /\ at \in {"ends", "low", "high", "left", "right", "done", "error"}
    /\ at = "done" <=> frames = <<>>
    /\ p \in Int /\ i \in Int /\ j \in Int

\* The parts still to be sorted lie in the array and do not meet.
PartsFit(fs, len) ==
    /\ \A k \in DOMAIN fs : 1 <= fs[k].lo /\ fs[k].lo <= fs[k].up + 1 /\ fs[k].up <= len
    /\ \A k, m \in DOMAIN fs : k < m => fs[k].up < fs[m].lo \/ fs[m].up < fs[k].lo

\* Elements that are not of one part are in order.
Apart(fs, s) ==
    \A k, m \in DOMAIN s :
        k < m => s[k] <= s[m] \/ \E f \in DOMAIN fs : fs[f].lo <= k /\ m <= fs[f].up

\* No element beyond the part being sorted is compared.
StaysInside ==
    /\ frames # <<>> => 1 <= lo /\ lo < up /\ up <= Len(a)
    /\ at \in {"low", "high"} => lo < p /\ p < up
    /\ at = "left"  => lo < i /\ i < up /\ lo < j /\ j < up
    /\ at = "right" => lo < i /\ i < up /\ lo <= j /\ j < up - 1

\* The part is split at a[up - 1]: less before i, more behind j.
PivotSplits ==
    /\ at \in {"low", "high"} => a[lo] <= a[up]
    /\ at = "high" => a[lo] <= a[p]
    /\ at \in {"left", "right"} => \A k \in lo..(i - 1) : a[k] <= a[up - 1]
    /\ at = "left"  => i <= j + 1 /\ \A k \in j..up : a[up - 1] <= a[k]
    /\ at = "right" => i <= j + 2 /\ a[up - 1] <= a[i] /\ \A k \in (j + 1)..up : a[up - 1] <= a[k]

\* Whatever the order function answers, no element is lost or doubled, at
\* any time at which it may look at the table or raise an error.
Count(s, x) == Cardinality({k \in DOMAIN s : s[k] = x})
LosesNothing == \A x \in ToSet(sorted) \union ToSet(a) : Count(a, x) = Count(sorted, x)

\* The recursion is no deeper than the logarithm of the number of elements.
Power2[k \in Nat] == IF k = 0 THEN 1 ELSE 2 * Power2[k - 1]
IsShallow == frames # <<>> => Power2[Len(frames)] <= Len(a)

\* An order sorts, and is never called invalid.
SortsByAnOrder ==
    order = "<" => /\ at # "error"
                   /\ at = "done" => \A k \in 2..Len(a) : a[k - 1] <= a[k]

\* At every call of the order function, and when it or sort fails, the array
\* has the elements it had; no element beyond the part being sorted is compared,
\* not even for a function that is no order, and the recursion is no deeper than
\* the logarithm; an order sorts and is never called invalid.
SortIsSafe == LosesNothing /\ StaysInside /\ IsShallow /\ SortsByAnOrder

\* Whatever the order function answers, from call to call in contradiction to
\* itself, the sort ends: the scans meet or the function is called invalid, and
\* the parts get smaller.
SortEnds == <>(at \notin {"ends", "low", "high", "left", "right"})

\* A part that waits is at least as large as all the parts inside its call,
\* which t bounds.
Size(f) == f.up - f.lo + 1
Nested(fs, len) ==
    \E t \in [DOMAIN fs -> 0..len] : \A k \in DOMAIN fs :
        /\ t[k] >= Size(fs[k])
        /\ k > 1 => t[k] >= t[k - 1] + Size(fs[k]) /\ Size(fs[k]) >= t[k - 1]

SortInv ==
    /\ SortTypeOK
    /\ PartsFit(frames, Len(a))
    /\ StaysInside
    /\ order = "<" => at # "error" /\ Apart(frames, a) /\ PivotSplits
    /\ LosesNothing
=============================================================================
