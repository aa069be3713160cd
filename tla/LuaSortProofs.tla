---------------------------- MODULE LuaSortProofs ----------------------------
(***************************************************************************)
(* table.sort sorts: for arrays of every length, all pivots and all seeds. *)
(* An order function that is none loses no element and leads no comparison *)
(* outside the array.                                                      *)
(***************************************************************************)
EXTENDS LuaSort, NatFacts, FiniteSetTheorems, SequenceTheorems

\* The swap that set2() makes.
LEMMA SwapIs ==
  ASSUME NEW s \in Seq(Int), NEW k \in 1..Len(s), NEW l \in 1..Len(s)
  PROVE  /\ Swap(s, k, l) \in Seq(Int)
         /\ Len(Swap(s, k, l)) = Len(s)
         /\ Swap(s, k, l)[k] = s[l] /\ Swap(s, k, l)[l] = s[k]
         /\ \A m \in 1..Len(s) : m # k /\ m # l => Swap(s, k, l)[m] = s[m]
BY DEF Swap

\* Where the element comes from that is at m after a swap.
Origin(k, l, m) == IF m = k THEN l ELSE IF m = l THEN k ELSE m

\* A swap moves every element from one place to another.
LEMMA SwapMoves ==
  ASSUME NEW s \in Seq(Int), NEW k \in 1..Len(s), NEW l \in 1..Len(s)
  PROVE  \A m \in 1..Len(s) : Origin(k, l, m) \in 1..Len(s) /\ Swap(s, k, l)[m] = s[Origin(k, l, m)]
<1> TAKE m \in 1..Len(s)
<1>1. CASE m = k
  BY <1>1, SwapIs DEF Origin
<1>2. CASE m # k /\ m = l
  BY <1>2, SwapIs DEF Origin
<1>3. CASE m # k /\ m # l
  BY <1>3, SwapIs DEF Origin
<1> QED BY <1>1, <1>2, <1>3

\* The bounds of a part.
LEMMA PartBounds ==
  ASSUME NEW fs \in Seq(Frame), NEW f \in DOMAIN fs
  PROVE  /\ fs[f] \in Frame /\ fs[f].lo \in Nat /\ fs[f].up \in Nat
         /\ fs[f].lo..fs[f].up \subseteq Nat
<1>1. fs[f] \in Frame
  OBVIOUS
<1>2. fs[f].lo \in Nat /\ fs[f].up \in Nat
  BY <1>1 DEF Frame
<1> QED BY <1>1, <1>2

\* A swap keeps the number of times that each value occurs.
LEMMA SwapCounts ==
  ASSUME NEW s \in Seq(Int), NEW k \in 1..Len(s), NEW l \in 1..Len(s)
  PROVE  /\ \A x : Count(Swap(s, k, l), x) = Count(s, x)
         /\ ToSet(Swap(s, k, l)) = ToSet(s)
<1> DEFINE t == Swap(s, k, l)
<1>1. t \in Seq(Int) /\ Len(t) = Len(s) /\ DOMAIN t = 1..Len(s) /\ DOMAIN s = 1..Len(s)
  BY SwapIs
<1>2. \A m \in 1..Len(s) : /\ Origin(k, l, m) \in 1..Len(s)
                           /\ t[m] = s[Origin(k, l, m)]
                           /\ Origin(k, l, Origin(k, l, m)) = m
                           /\ s[m] = t[Origin(k, l, m)]
  <2> TAKE m \in 1..Len(s)
  <2>1. Origin(k, l, m) \in 1..Len(s) /\ Origin(k, l, Origin(k, l, m)) = m
    BY DEF Origin
  <2>2. t[m] = s[Origin(k, l, m)] /\ t[Origin(k, l, m)] = s[Origin(k, l, Origin(k, l, m))]
    BY <2>1, SwapMoves
  <2> QED BY <2>1, <2>2
<1> HIDE DEF t
<1>3. ASSUME NEW x PROVE Count(t, x) = Count(s, x)
  <2> DEFINE S == {m \in DOMAIN s : s[m] = x}
             T == {m \in DOMAIN t : t[m] = x}
             f == [m \in S |-> Origin(k, l, m)]
  <2>1. \A m \in S : Origin(k, l, m) \in T
    BY <1>1, <1>2
  <2>2. \A m \in T : Origin(k, l, m) \in S
    BY <1>1, <1>2
  <2>3. f \in [S -> T]
    BY <2>1
  <2>4. ASSUME NEW m \in S, NEW o \in S, f[m] = f[o] PROVE m = o
    BY <1>1, <1>2, <2>4
  <2>5. ASSUME NEW m \in T PROVE \E o \in S : f[o] = m
    <3>1. Origin(k, l, m) \in S /\ f[Origin(k, l, m)] = m
      BY <1>1, <1>2, <2>2, <2>5
    <3> QED BY <3>1
  <2> HIDE DEF f, S, T
  <2>6. f \in Bijection(S, T)
    BY <2>3, <2>4, <2>5 DEF Bijection, Injection, Surjection, IsInjective
  <2>7. ExistsBijection(S, T)
    BY <2>6 DEF ExistsBijection
  <2>8. IsFiniteSet(S)
    <3>1. S \in SUBSET (1..Len(s))
      BY <1>1 DEF S
    <3>2. IsFiniteSet(1..Len(s))
      BY FS_Interval, LenProperties
    <3> QED BY <3>1, <3>2, FS_Subset
  <2>9. Cardinality(T) = Cardinality(S)
    BY <2>7, <2>8, FS_Bijection
  <2> QED BY <2>9 DEF Count, S, T
<1>4. ToSet(t) = ToSet(s)
  BY <1>1, <1>2 DEF ToSet
<1> QED BY <1>3, <1>4 DEF t

\* Parts that do not meet do not share an index.
LEMMA PartsDoNotMeet ==
  ASSUME NEW l1 \in Nat, NEW u1 \in Nat, NEW l2 \in Nat, NEW u2 \in Nat, NEW u \in Int, NEW v \in Int,
         u1 < l2 \/ u2 < l1, l1 <= u, u < v, v <= u1
  PROVE  u \notin l2..u2 /\ v \notin l2..u2
OBVIOUS

\* A swap within one part keeps parts apart.
LEMMA SwapApart ==
  ASSUME NEW fs \in Seq(Frame), NEW s \in Seq(Int), PartsFit(fs, Len(s)), Apart(fs, s),
         NEW f \in DOMAIN fs, NEW k \in fs[f].lo..fs[f].up, NEW l \in fs[f].lo..fs[f].up
  PROVE  Apart(fs, Swap(s, k, l))
<1> DEFINE t == Swap(s, k, l)
<1>1. /\ fs[f].lo \in Nat /\ fs[f].up \in Nat /\ 1 <= fs[f].lo /\ fs[f].up <= Len(s)
      /\ k \in 1..Len(s) /\ l \in 1..Len(s)
  <2>1. 1 <= fs[f].lo /\ fs[f].up <= Len(s)
    BY DEF PartsFit
  <2> QED BY <2>1, PartBounds
<1>2. DOMAIN t = 1..Len(s) /\ DOMAIN s = 1..Len(s)
  BY <1>1, SwapIs
<1>3. \A m \in 1..Len(s) : Origin(k, l, m) \in 1..Len(s) /\ t[m] = s[Origin(k, l, m)]
  BY <1>1, SwapMoves
<1> HIDE DEF t
<1> SUFFICES ASSUME NEW x \in 1..Len(s), NEW y \in 1..Len(s), x < y,
                    ~ \E g \in DOMAIN fs : fs[g].lo <= x /\ y <= fs[g].up
             PROVE  t[x] <= t[y]
  BY <1>2 DEF Apart, t
<1> DEFINE u == Origin(k, l, x)
           v == Origin(k, l, y)
<1>4. /\ u \in 1..Len(s) /\ v \in 1..Len(s)
      /\ x \in fs[f].lo..fs[f].up => u \in fs[f].lo..fs[f].up
      /\ x \notin fs[f].lo..fs[f].up => u = x
      /\ y \in fs[f].lo..fs[f].up => v \in fs[f].lo..fs[f].up
      /\ y \notin fs[f].lo..fs[f].up => v = y
  BY <1>1 DEF Origin
<1> HIDE DEF u, v
<1>5. ~ (x \in fs[f].lo..fs[f].up /\ y \in fs[f].lo..fs[f].up)
  BY <1>1
<1>6. u < v
  <2>1. CASE x \in fs[f].lo..fs[f].up
    <3>1. y > fs[f].up
      BY <1>1, <1>5, <2>1
    <3>2. u \in fs[f].lo..fs[f].up /\ v = y
      BY <1>4, <1>5, <2>1
    <3>3. u <= fs[f].up /\ fs[f].lo \in Nat /\ fs[f].up \in Nat
      BY <1>1, <3>2
    <3> QED BY <3>1, <3>2, <3>3
  <2>2. CASE x \notin fs[f].lo..fs[f].up
    BY <1>1, <1>4, <2>2
  <2> QED BY <2>1, <2>2
<1>7. ASSUME NEW g \in DOMAIN fs, fs[g].lo <= u, v <= fs[g].up PROVE FALSE
  <2>1. fs[g].lo \in Nat /\ fs[g].up \in Nat
    BY PartBounds
  <2>2. g # f => fs[g].up < fs[f].lo \/ fs[f].up < fs[g].lo
    <3>1. \A m, n \in DOMAIN fs : m < n => fs[m].up < fs[n].lo \/ fs[n].up < fs[m].lo
      BY DEF PartsFit
    <3>2. g # f => g < f \/ f < g
      BY SMTT(30)
    <3> QED BY SMTT(30), <3>1, <3>2
  <2>3. CASE g = f
    BY SMTT(30), <1>1, <1>4, <1>5, <1>6, <1>7, <2>1, <2>3
  <2>4. CASE g # f /\ (x \in fs[f].lo..fs[f].up \/ y \in fs[f].lo..fs[f].up)
    <3>1. u \in fs[f].lo..fs[f].up \/ v \in fs[f].lo..fs[f].up
      BY <1>4, <2>4
    <3>2. fs[g].up < fs[f].lo \/ fs[f].up < fs[g].lo
      BY <2>2, <2>4
    <3>3. u \in Int /\ v \in Int
      BY <1>4
    <3>4. fs[f].lo \in Nat /\ fs[f].up \in Nat /\ fs[g].lo \in Nat /\ fs[g].up \in Nat
      BY <1>1, <2>1, Zenon
    <3>5. fs[g].lo <= u /\ v <= fs[g].up
      BY <1>7
    <3>6. u < v
      BY <1>6
    <3> QED BY <3>1, <3>2, <3>3, <3>4, <3>5, <3>6, PartsDoNotMeet, Zenon
  <2>5. CASE ~ (x \in fs[f].lo..fs[f].up \/ y \in fs[f].lo..fs[f].up)
    BY <1>4, <1>7, <2>5
  <2> QED BY <2>3, <2>4, <2>5
<1>8. s[u] <= s[v]
  BY <1>2, <1>4, <1>6, <1>7 DEF Apart
<1> QED BY <1>3, <1>8 DEF u, v

\* A part whose elements are in order may be left: its call returns.
LEMMA LeavingApart ==
  ASSUME NEW fs \in Seq(Frame), fs # <<>>, NEW s \in Seq(Int), PartsFit(fs, Len(s))
  PROVE  /\ Tail(fs) \in Seq(Frame)
         /\ PartsFit(Tail(fs), Len(s))
         /\ Apart(fs, s) /\ (\A k, m \in fs[1].lo..fs[1].up : k < m => s[k] <= s[m])
               => Apart(Tail(fs), s)
<1> DEFINE ts == Tail(fs)
<1>1. ts \in Seq(Frame) /\ Len(ts) = Len(fs) - 1 /\ \A k \in 1..Len(ts) : ts[k] = fs[k + 1]
  BY HeadTailProperties
<1>2. DOMAIN ts = 1..Len(ts) /\ DOMAIN fs = 1..Len(fs) /\ Len(fs) \in Nat \ {0} /\ Len(ts) \in Nat
  BY <1>1
<1> HIDE DEF ts
<1>3. \A k \in 1..Len(ts) : k + 1 \in 1..Len(fs)
  BY <1>1, <1>2
<1>4. PartsFit(ts, Len(s))
  <2>1. \A k \in 1..Len(ts) : 1 <= ts[k].lo /\ ts[k].lo <= ts[k].up + 1 /\ ts[k].up <= Len(s)
    BY <1>1, <1>2, <1>3 DEF PartsFit
  <2>2. ASSUME NEW k \in 1..Len(ts), NEW m \in 1..Len(ts), k < m
        PROVE  ts[k].up < ts[m].lo \/ ts[m].up < ts[k].lo
    <3>1. k + 1 \in DOMAIN fs /\ m + 1 \in DOMAIN fs /\ k + 1 < m + 1
      BY <1>2, <1>3, <2>2
    <3> QED BY <1>1, <3>1 DEF PartsFit
  <2> QED BY <1>2, <2>1, <2>2 DEF PartsFit
<1>5. ASSUME Apart(fs, s), \A k, m \in fs[1].lo..fs[1].up : k < m => s[k] <= s[m]
      PROVE  Apart(ts, s)
  <2> SUFFICES ASSUME NEW k \in DOMAIN s, NEW m \in DOMAIN s, k < m,
                      ~ \E f \in DOMAIN ts : ts[f].lo <= k /\ m <= ts[f].up
               PROVE  s[k] <= s[m]
    BY DEF Apart
  <2>1. CASE \E f \in DOMAIN fs : fs[f].lo <= k /\ m <= fs[f].up
    <3>1. PICK f \in DOMAIN fs : fs[f].lo <= k /\ m <= fs[f].up
      BY <2>1
    <3>2. f # 1 => f - 1 \in DOMAIN ts /\ ts[f - 1] = fs[f]
      BY <1>1, <1>2
    <3>3. f = 1
      BY <3>1, <3>2
    <3>4. fs[1].lo \in Nat /\ fs[1].up \in Nat
      BY <1>2, PartBounds
    <3>5. k \in fs[1].lo..fs[1].up /\ m \in fs[1].lo..fs[1].up
      BY <3>1, <3>3, <3>4
    <3> QED BY <1>5, <3>5
  <2>2. CASE ~ \E f \in DOMAIN fs : fs[f].lo <= k /\ m <= fs[f].up
    BY <1>5, <2>2 DEF Apart
  <2> QED BY <2>1, <2>2
<1> QED BY <1>1, <1>4, <1>5 DEF ts

\* r is what is left of the calls fs when the d innermost have returned.
Resumes(fs, r, d) ==
    /\ r \in Seq(Frame) /\ Len(r) = Len(fs) - d
    /\ \A k \in 1..Len(r) : /\ k + d \in 1..Len(fs)
                            /\ r[k].lo = fs[k + d].lo /\ r[k].up = fs[k + d].up
    /\ r[1].lo < r[1].up
    /\ \A k \in 1..d : ~ (fs[k].lo < fs[k].up)

\* What auxsort() resumes: the innermost call that has something left, with
\* the bounds it had.
LEMMA ResumedCalls ==
  ASSUME NEW fs \in Seq(Frame), NEW seed \in Seeds, \E k \in DOMAIN fs : fs[k].lo < fs[k].up
  PROVE  \E d \in 0..(Len(fs) - 1) : Resumes(fs, auxsort(fs, seed), d)
<1> DEFINE live  == {k \in DOMAIN fs : fs[k].lo < fs[k].up}
           first == CHOOSE k \in live : \A m \in live : k <= m
           f     == fs[first]
           rnd   == IF (f.up - f.lo) \div RATIO > f.n THEN seed ELSE f.rnd
           g     == SubSeq(fs, first, Len(fs))
           r     == [g EXCEPT ![1].rnd = rnd]
<1>1. live # {} /\ auxsort(fs, seed) = r
  BY DEF auxsort
<1>2. first \in live /\ \A m \in live : first <= m
  <2>1. live \in SUBSET Nat
    OBVIOUS
  <2>2. \E k \in live : \A m \in live : k <= m
    BY <1>1, <2>1, LeastExists, Zenon
  <2> HIDE DEF live
  <2> QED BY <2>2
<1> HIDE DEF first
<1>3. first \in 1..Len(fs) /\ Len(fs) \in Nat /\ f.lo < f.up /\ f \in Frame
  BY <1>2
<1>4. /\ g \in Seq(Frame) /\ Len(g) = Len(fs) - (first - 1)
      /\ \A k \in 1..Len(g) : g[k] = fs[k + (first - 1)]
  <2>1. g \in Seq(Frame) /\ Len(g) = Len(fs) - first + 1
    BY <1>3, SubSeqProperties
  <2>2. \A k \in 1..(Len(fs) - first + 1) : g[k] = fs[first + k - 1]
    BY <1>3, SubSeqProperties
  <2>3. \A k \in 1..Len(g) : first + k - 1 = k + (first - 1)
    BY <1>3
  <2> QED BY <1>3, <2>1, <2>2, <2>3
<1>5. rnd \in Seeds \union {0}
  BY <1>3 DEF Frame
<1> HIDE DEF g, rnd, f
<1>6. g[1] = f /\ 1 \in 1..Len(g)
  BY <1>3, <1>4 DEF f
<1>7. [f EXCEPT !.rnd = rnd] \in Frame /\ [f EXCEPT !.rnd = rnd].lo = f.lo /\ [f EXCEPT !.rnd = rnd].up = f.up
  BY <1>3, <1>5 DEF Frame
<1>8. r = [g EXCEPT ![1] = [f EXCEPT !.rnd = rnd]]
  BY <1>6
<1> HIDE DEF r
<1>9. /\ r \in Seq(Frame) /\ Len(r) = Len(g) /\ r[1] = [f EXCEPT !.rnd = rnd]
      /\ \A k \in 1..Len(g) : k # 1 => r[k] = g[k]
  BY <1>4, <1>6, <1>7, <1>8
<1>10. \A k \in 1..Len(r) : /\ k + (first - 1) \in 1..Len(fs)
                           /\ r[k].lo = fs[k + (first - 1)].lo /\ r[k].up = fs[k + (first - 1)].up
  <2> TAKE k \in 1..Len(r)
  <2>1. k + (first - 1) \in 1..Len(fs)
    BY <1>3, <1>4, <1>9
  <2>2. g[k] = fs[k + (first - 1)]
    BY <1>4, <1>9
  <2>3. CASE k = 1
    BY <1>6, <1>7, <1>9, <2>1, <2>2, <2>3
  <2>4. CASE k # 1
    BY <1>9, <2>1, <2>2, <2>4
  <2> QED BY <2>3, <2>4
<1>11. r[1].lo < r[1].up
  BY <1>3, <1>7, <1>9
<1>12. ASSUME NEW k \in 1..(first - 1) PROVE ~ (fs[k].lo < fs[k].up)
  <2>1. k \in DOMAIN fs /\ ~ (first <= k)
    BY <1>3
  <2> QED BY <1>2, <2>1
<1>13. first - 1 \in 0..(Len(fs) - 1)
  BY <1>3
<1>14. r \in Seq(Frame) /\ Len(r) = Len(fs) - (first - 1)
  BY <1>4, <1>9
<1> QED BY <1>1, <1>10, <1>11, <1>12, <1>13, <1>14 DEF Resumes

\* Returning from calls that have nothing left keeps the parts and what is apart.
LEMMA ResumedApart ==
  ASSUME NEW fs \in Seq(Frame), NEW seed \in Seeds, NEW s \in Seq(Int), PartsFit(fs, Len(s))
  PROVE  LET r == auxsort(fs, seed) IN
         /\ r \in Seq(Frame) /\ PartsFit(r, Len(s))
         /\ r # <<>> => r[1].lo < r[1].up
         /\ Apart(fs, s) => Apart(r, s)
<1>1. CASE \A k \in DOMAIN fs : ~ (fs[k].lo < fs[k].up)
  <2>1. auxsort(fs, seed) = <<>>
    BY <1>1 DEF auxsort
  <2>2. PartsFit(<<>>, Len(s))
    BY DEF PartsFit
  <2>3. ASSUME Apart(fs, s), NEW k \in DOMAIN s, NEW m \in DOMAIN s, k < m PROVE s[k] <= s[m]
    <3>1. ASSUME NEW f \in DOMAIN fs, fs[f].lo <= k, m <= fs[f].up PROVE FALSE
      <4>1. fs[f].lo \in Nat /\ fs[f].up \in Nat /\ k \in Nat /\ m \in Nat
        BY PartBounds
      <4> QED BY <1>1, <2>3, <3>1, <4>1
    <3> QED BY <2>3, <3>1 DEF Apart
  <2>4. Apart(fs, s) => Apart(<<>>, s)
    BY <2>3 DEF Apart
  <2> QED BY <2>1, <2>2, <2>4
<1>2. CASE \E k \in DOMAIN fs : fs[k].lo < fs[k].up
  <2> DEFINE r == auxsort(fs, seed)
  <2>0. PICK d \in 0..(Len(fs) - 1) : Resumes(fs, r, d)
    BY <1>2, ResumedCalls
  <2> HIDE DEF r
  <2>1. /\ r \in Seq(Frame) /\ Len(r) = Len(fs) - d
        /\ \A k \in 1..Len(r) : /\ k + d \in 1..Len(fs)
                                /\ r[k].lo = fs[k + d].lo /\ r[k].up = fs[k + d].up
        /\ r[1].lo < r[1].up
        /\ \A k \in 1..d : ~ (fs[k].lo < fs[k].up)
    BY <2>0 DEF Resumes
  <2>2. DOMAIN r = 1..Len(r) /\ DOMAIN fs = 1..Len(fs)
    BY <2>1
  <2>3. PartsFit(r, Len(s))
    <3>1. ASSUME NEW k \in DOMAIN r
          PROVE  1 <= r[k].lo /\ r[k].lo <= r[k].up + 1 /\ r[k].up <= Len(s)
      BY <2>1, <2>2 DEF PartsFit
    <3>2. ASSUME NEW k \in DOMAIN r, NEW m \in DOMAIN r, k < m
          PROVE  r[k].up < r[m].lo \/ r[m].up < r[k].lo
      <4>1. k + d \in DOMAIN fs /\ m + d \in DOMAIN fs /\ k + d < m + d
        BY <2>1, <2>2, <3>2
      <4>2. fs[k + d].up < fs[m + d].lo \/ fs[m + d].up < fs[k + d].lo
        BY <4>1 DEF PartsFit
      <4> QED BY <2>1, <2>2, <4>2
    <3> QED BY <3>1, <3>2 DEF PartsFit
  <2>4. ASSUME Apart(fs, s), NEW k \in DOMAIN s, NEW m \in DOMAIN s, k < m,
               ~ \E f \in DOMAIN r : r[f].lo <= k /\ m <= r[f].up
        PROVE  s[k] <= s[m]
    <3>1. ASSUME NEW f \in DOMAIN fs, fs[f].lo <= k, m <= fs[f].up PROVE FALSE
      <4>1. fs[f].lo \in Nat /\ fs[f].up \in Nat /\ k \in Nat /\ m \in Nat
        BY PartBounds
      <4>2. fs[f].lo < fs[f].up
        BY <2>4, <3>1, <4>1
      <4>3. f \notin 1..d
        BY <2>1, <4>2
      <4>4. f - d \in DOMAIN r /\ (f - d) + d = f
        BY <2>1, <2>2, <4>3
      <4>5. r[f - d].lo = fs[f].lo /\ r[f - d].up = fs[f].up
        BY <2>1, <2>2, <4>4
      <4> QED BY <2>4, <3>1, <4>4, <4>5
    <3> QED BY <2>4, <3>1 DEF Apart
  <2>5. Apart(fs, s) => Apart(r, s)
    BY <2>4 DEF Apart
  <2> QED BY <2>1, <2>3, <2>5 DEF r
<1> QED BY <1>1, <1>2

\* The parts that partition() leaves on both sides of the pivot at q.
Halves(f, q, sub, other) ==
    \/ sub.lo = f.lo /\ sub.up = q - 1 /\ other.lo = q + 1 /\ other.up = f.up
    \/ sub.lo = q + 1 /\ sub.up = f.up /\ other.lo = f.lo /\ other.up = q - 1

\* The calls after the split: that of the smaller part, and its caller.
LEMMA SplitCalls ==
  ASSUME NEW fs \in Seq(Frame), fs # <<>>, NEW sub \in Frame, NEW other \in Frame
  PROVE  LET gs == <<sub, other>> \o Tail(fs) IN
         /\ gs \in Seq(Frame) /\ Len(gs) = Len(fs) + 1 /\ gs[1] = sub /\ gs[2] = other
         /\ \A k \in 3..Len(gs) : k - 1 \in 2..Len(fs) /\ gs[k] = fs[k - 1]
         /\ Tail(gs) = <<other>> \o Tail(fs)
<1> DEFINE gs == <<sub, other>> \o Tail(fs)
           hs == <<other>> \o Tail(fs)
<1>1. Tail(fs) \in Seq(Frame) /\ Len(Tail(fs)) = Len(fs) - 1 /\ \A k \in 1..Len(Tail(fs)) : Tail(fs)[k] = fs[k + 1]
  BY HeadTailProperties
<1>2. Len(fs) \in Nat \ {0} /\ DOMAIN fs = 1..Len(fs)
  OBVIOUS
<1>3. <<sub, other>> \in Seq(Frame) /\ <<other>> \in Seq(Frame)
  OBVIOUS
<1>4. /\ gs \in Seq(Frame) /\ Len(gs) = Len(fs) + 1 /\ gs[1] = sub /\ gs[2] = other
      /\ \A k \in 3..Len(gs) : k - 1 \in 2..Len(fs) /\ gs[k] = fs[k - 1]
  BY <1>1, <1>2, <1>3
<1>5. Tail(gs) = hs
  <2>1. hs \in Seq(Frame) /\ Len(hs) = Len(fs) /\ hs[1] = other /\ \A k \in 2..Len(fs) : hs[k] = fs[k]
    BY <1>1, <1>2, <1>3
  <2>2. Tail(gs) \in Seq(Frame) /\ Len(Tail(gs)) = Len(fs) /\ \A k \in 1..Len(fs) : Tail(gs)[k] = gs[k + 1]
    <3>1. gs # <<>>
      BY <1>2, <1>4
    <3> HIDE DEF gs
    <3> QED BY <1>2, <1>4, <3>1, HeadTailProperties
  <2> HIDE DEF gs, hs
  <2>3. \A k \in 1..Len(fs) : Tail(gs)[k] = hs[k]
    <3> TAKE k \in 1..Len(fs)
    <3>1. CASE k = 1
      BY <1>2, <1>4, <2>1, <2>2, <3>1
    <3>2. CASE k # 1
      <4>1. k + 1 \in 3..Len(gs) /\ (k + 1) - 1 = k /\ k \in 2..Len(fs)
        BY <1>2, <1>4, <3>2
      <4> QED BY <1>4, <2>1, <2>2, <4>1
    <3> QED BY <3>1, <3>2
  <2> QED BY <2>1, <2>2, <2>3, SeqEqual
<1> QED BY <1>4, <1>5

\* Splitting a part at q, where the pivot is, keeps the parts and what is apart.
LEMMA SplitApart ==
  ASSUME NEW fs \in Seq(Frame), fs # <<>>, NEW s \in Seq(Int), PartsFit(fs, Len(s)),
         NEW q \in Nat, fs[1].lo <= q, q <= fs[1].up, NEW sub \in Frame, NEW other \in Frame,
         Halves(fs[1], q, sub, other)
  PROVE  LET gs == <<sub, other>> \o Tail(fs) IN
         /\ gs \in Seq(Frame) /\ gs # <<>> /\ gs[1] = sub
         /\ Tail(gs) = <<other>> \o Tail(fs)
         /\ PartsFit(gs, Len(s))
         /\ /\ Apart(fs, s)
            /\ \A k \in fs[1].lo..q : s[k] <= s[q]
            /\ \A k \in q..fs[1].up : s[q] <= s[k]
            => Apart(gs, s)
<1> DEFINE gs == <<sub, other>> \o Tail(fs)
           hs == <<other>> \o Tail(fs)
<1>2. Len(fs) \in Nat \ {0} /\ DOMAIN fs = 1..Len(fs)
  OBVIOUS
<1>4. /\ gs \in Seq(Frame) /\ Len(gs) = Len(fs) + 1 /\ gs[1] = sub /\ gs[2] = other
      /\ \A k \in 3..Len(gs) : k - 1 \in 2..Len(fs) /\ gs[k] = fs[k - 1]
      /\ Tail(gs) = hs
  BY SplitCalls
<1>5. Tail(gs) = hs
  BY <1>4
<1> HIDE DEF gs, hs
<1>6. DOMAIN gs = 1..(Len(fs) + 1)
  BY <1>4
<1>7. /\ fs[1] \in Frame /\ fs[1].lo \in Nat /\ fs[1].up \in Nat /\ q \in Nat
      /\ 1 <= fs[1].lo /\ fs[1].lo <= q /\ q <= fs[1].up /\ fs[1].up <= Len(s)
      /\ sub.lo \in Nat /\ sub.up \in Nat /\ other.lo \in Nat /\ other.up \in Nat
  <2>1. fs[1] \in Frame /\ fs[1].lo \in Nat /\ fs[1].up \in Nat
    BY <1>2, PartBounds
  <2>2. 1 <= fs[1].lo /\ fs[1].up <= Len(s)
    BY <1>2 DEF PartsFit
  <2>3. sub.lo \in Nat /\ sub.up \in Nat /\ other.lo \in Nat /\ other.up \in Nat
    BY DEF Frame
  <2> QED BY <2>1, <2>2, <2>3
<1>8. ASSUME NEW k \in 2..Len(fs)
      PROVE  /\ fs[k].lo \in Nat /\ fs[k].up \in Nat
             /\ 1 <= fs[k].lo /\ fs[k].lo <= fs[k].up + 1 /\ fs[k].up <= Len(s)
             /\ fs[1].up < fs[k].lo \/ fs[k].up < fs[1].lo
  <2>1. k \in DOMAIN fs /\ 1 \in DOMAIN fs /\ 1 < k
    BY <1>2
  <2>2. fs[k].lo \in Nat /\ fs[k].up \in Nat
    BY <2>1, PartBounds
  <2>3. /\ 1 <= fs[k].lo /\ fs[k].lo <= fs[k].up + 1 /\ fs[k].up <= Len(s)
        /\ fs[1].up < fs[k].lo \/ fs[k].up < fs[1].lo
    BY SMTT(30), <2>1 DEF PartsFit
  <2> QED BY <2>2, <2>3
<1>12. /\ \A h \in {sub, other} : /\ 1 <= h.lo /\ h.lo <= h.up + 1 /\ h.up <= Len(s)
                                   /\ fs[1].lo <= h.lo /\ h.up <= fs[1].up
                                   /\ h.lo \in Nat /\ h.up \in Nat
       /\ sub.up < other.lo \/ other.up < sub.lo
  BY SMTT(60), <1>7 DEF Halves
<1>9. PartsFit(gs, Len(s))
  <2>1. ASSUME NEW k \in DOMAIN gs
        PROVE  1 <= gs[k].lo /\ gs[k].lo <= gs[k].up + 1 /\ gs[k].up <= Len(s)
    <3>1. CASE k = 1 \/ k = 2
      BY <1>4, <1>12, <3>1
    <3>2. CASE k \in 3..Len(gs)
      BY <1>4, <1>8, <3>2
    <3> QED BY <1>2, <1>4, <1>6, <3>1, <3>2
  <2>2. ASSUME NEW k \in DOMAIN gs, NEW m \in DOMAIN gs, k < m
        PROVE  gs[k].up < gs[m].lo \/ gs[m].up < gs[k].lo
    <3>1. CASE k = 1 /\ m = 2
      BY <1>4, <1>12, <3>1
    <3>2. CASE k \in {1, 2} /\ m \in 3..Len(gs)
      <4>1. m - 1 \in 2..Len(fs) /\ gs[m] = fs[m - 1]
        BY <1>4, <3>2
      <4>2. /\ fs[m - 1].lo \in Nat /\ fs[m - 1].up \in Nat
            /\ fs[1].up < fs[m - 1].lo \/ fs[m - 1].up < fs[1].lo
        BY <1>8, <4>1
      <4>3. gs[k] \in {sub, other}
        BY <1>4, <3>2
      <4>4. /\ fs[1].lo <= gs[k].lo /\ gs[k].up <= fs[1].up
            /\ gs[k].lo \in Nat /\ gs[k].up \in Nat
        BY <1>12, <4>3
      <4> QED BY SMTT(60), <1>7, <4>1, <4>2, <4>4
    <3>3. CASE k \in 3..Len(gs) /\ m \in 3..Len(gs)
      <4>1. k - 1 \in DOMAIN fs /\ m - 1 \in DOMAIN fs /\ k - 1 < m - 1
        BY <1>2, <1>4, <2>2, <3>3
      <4>2. fs[k - 1].up < fs[m - 1].lo \/ fs[m - 1].up < fs[k - 1].lo
        BY <4>1 DEF PartsFit
      <4> QED BY <1>4, <3>3, <4>2
    <3> QED BY <1>2, <1>4, <1>6, <2>2, <3>1, <3>2, <3>3
  <2> QED BY <2>1, <2>2 DEF PartsFit
<1>10. ASSUME Apart(fs, s),
              \A k \in fs[1].lo..q : s[k] <= s[q],
              \A k \in q..fs[1].up : s[q] <= s[k],
              NEW k \in DOMAIN s, NEW m \in DOMAIN s, k < m,
              ~ \E f \in DOMAIN gs : gs[f].lo <= k /\ m <= gs[f].up
       PROVE  s[k] <= s[m]
  <2>1. CASE fs[1].lo <= k /\ m <= fs[1].up
    <3>1. ~ (m <= q - 1) /\ ~ (q + 1 <= k)
      <4>1. 1 \in DOMAIN gs /\ 2 \in DOMAIN gs
        BY <1>2, <1>6
      <4>2. ~ (sub.lo <= k /\ m <= sub.up) /\ ~ (other.lo <= k /\ m <= other.up)
        BY <1>4, <1>10, <4>1
      <4> QED BY <1>7, <2>1, <4>2 DEF Halves
    <3>2. k \in fs[1].lo..q /\ m \in q..fs[1].up
      <4>1. k \in Nat /\ m \in Nat
        OBVIOUS
      <4>2. /\ fs[1].lo \in Nat /\ fs[1].up \in Nat /\ q \in Nat
            /\ fs[1].lo <= k /\ m <= fs[1].up
        BY <1>7, <2>1
      <4>3. q <= m /\ k <= q
        BY <3>1, <4>1, <4>2
      <4> QED BY <4>1, <4>2, <4>3
    <3>3. s[k] <= s[q] /\ s[q] <= s[m]
      BY <1>10, <3>2
    <3>4. s[k] \in Int /\ s[q] \in Int /\ s[m] \in Int
      <4>1. q \in DOMAIN s
        <5>1. 1 <= q /\ q <= Len(s)
          BY <1>7
        <5> QED BY <5>1
      <4> QED BY <4>1
    <3> QED BY <3>3, <3>4
  <2>2. ASSUME ~ (fs[1].lo <= k /\ m <= fs[1].up), NEW f \in DOMAIN fs, fs[f].lo <= k, m <= fs[f].up
        PROVE  FALSE
    <3>1. f # 1
      BY <2>2
    <3>2. f + 1 \in 3..Len(gs) /\ (f + 1) - 1 = f
      BY <1>2, <1>4, <3>1
    <3>3. gs[f + 1] = fs[f] /\ f + 1 \in DOMAIN gs
      BY <1>2, <1>4, <1>6, <3>2
    <3> QED BY <1>10, <2>2, <3>3
  <2> QED BY <1>10, <2>1, <2>2 DEF Apart
<1>11. gs # <<>>
  BY <1>2, <1>6
<1> QED BY <1>4, <1>5, <1>9, <1>10, <1>11 DEF gs, hs, Apart

-----------------------------------------------------------------------------
\* s is the array with the elements of the part being sorted moved about.
Rearranged(s) ==
    /\ s \in Seq(Int) /\ Len(s) = Len(a)
    /\ \A x : Count(s, x) = Count(a, x)
    /\ ToSet(s) = ToSet(a)
    /\ order = "<" => Apart(frames, s)

\* The part being sorted.
LEMMA CurrentPart ==
  ASSUME SortInv, frames # <<>>
  PROVE  /\ lo \in Nat /\ up \in Nat /\ 1 <= lo /\ lo < up /\ up <= Len(a) /\ Len(a) \in Nat
         /\ DOMAIN a = 1..Len(a) /\ \A k \in 1..Len(a) : a[k] \in Int
         /\ 1 \in DOMAIN frames /\ frames[1] \in Frame /\ frames[1].lo = lo /\ frames[1].up = up
<1>1. 1 \in DOMAIN frames /\ frames \in Seq(Frame) /\ a \in Seq(Int)
  BY DEF SortInv, SortTypeOK
<1>2. lo \in Nat /\ up \in Nat /\ frames[1] \in Frame
  BY <1>1, PartBounds DEF lo, up
<1>3. 1 <= lo /\ lo < up /\ up <= Len(a)
  BY DEF SortInv, StaysInside
<1> QED BY <1>1, <1>2, <1>3 DEF lo, up

\* set2() on two elements of the part being sorted.
LEMMA SwapRearranges ==
  ASSUME SortInv, frames # <<>>, NEW s, Rearranged(s), NEW k \in Nat, NEW l \in Nat,
         lo <= k, k <= up, lo <= l, l <= up
  PROVE  /\ Rearranged(Swap(s, k, l))
         /\ Swap(s, k, l)[k] = s[l] /\ Swap(s, k, l)[l] = s[k]
         /\ \A m \in 1..Len(a) : m # k /\ m # l => Swap(s, k, l)[m] = s[m]
<1>1. s \in Seq(Int) /\ Len(s) = Len(a)
  BY DEF Rearranged
<1>2. k \in 1..Len(s) /\ l \in 1..Len(s)
  BY <1>1, CurrentPart
<1>3. order = "<" => Apart(frames, Swap(s, k, l))
  <2>1. frames \in Seq(Frame) /\ PartsFit(frames, Len(s)) /\ 1 \in DOMAIN frames
    BY <1>1, CurrentPart DEF SortInv, SortTypeOK
  <2>2. k \in frames[1].lo..frames[1].up /\ l \in frames[1].lo..frames[1].up
    BY CurrentPart
  <2>3. order = "<" => Apart(frames, s)
    BY DEF Rearranged
  <2> QED BY <1>1, <2>1, <2>2, <2>3, SwapApart
<1>4. /\ Swap(s, k, l) \in Seq(Int) /\ Len(Swap(s, k, l)) = Len(a)
      /\ Swap(s, k, l)[k] = s[l] /\ Swap(s, k, l)[l] = s[k]
      /\ \A m \in 1..Len(a) : m # k /\ m # l => Swap(s, k, l)[m] = s[m]
  BY <1>1, <1>2, SwapIs
<1>5. (\A x : Count(Swap(s, k, l), x) = Count(s, x)) /\ ToSet(Swap(s, k, l)) = ToSet(s)
  BY <1>1, <1>2, SwapCounts
<1> QED BY <1>3, <1>4, <1>5 DEF Rearranged

\* The array is one arrangement of itself.
LEMMA ArrayRearranged == SortInv => Rearranged(a)
BY DEF SortInv, SortTypeOK, Rearranged

\* What was lost or doubled by no step before is not by moving elements about.
LEMMA StillNothingLost ==
  ASSUME SortInv, Rearranged(a'), sorted' = sorted
  PROVE  a' \in Seq(Int) /\ Len(a') = Len(sorted') /\ Len(a') = Len(a) /\ LosesNothing'
<1>1. a' \in Seq(Int) /\ Len(a') = Len(a) /\ Len(a) = Len(sorted)
  BY DEF Rearranged, SortInv, SortTypeOK
<1>2. \A x \in ToSet(sorted) \union ToSet(a') : Count(a', x) = Count(sorted, x)
  BY DEF Rearranged, SortInv, LosesNothing
<1>3. LosesNothing'
  <2>1. \A x \in ToSet(sorted') \union ToSet(a') : Count(a', x) = Count(sorted', x)
    BY <1>2
  <2> QED BY <2>1 DEF LosesNothing, Count, ToSet
<1> QED BY <1>1, <1>3

\* A part begins, or all is done.
LEMMA BeginKeeps ==
  ASSUME SortInv, Rearranged(a'), UNCHANGED <<order, sorted>>, p' \in Int, i' \in Int, j' \in Int,
         NEW fs \in Seq(Frame), Begin(fs), PartsFit(fs, Len(a)),
         fs # <<>> => fs[1].lo < fs[1].up,
         order = "<" => Apart(fs, a')
  PROVE  SortInv'
<1>1. a' \in Seq(Int) /\ Len(a') = Len(sorted') /\ Len(a') = Len(a) /\ LosesNothing'
  BY StillNothingLost
<1>2. frames' = fs /\ at' = IF fs = <<>> THEN "done" ELSE "ends"
  BY DEF Begin
<1>3. SortTypeOK'
  <2>1. sorted' \in Seq(Int) /\ order' \in {"<", "any"}
    BY DEF SortInv, SortTypeOK
  <2>2. at' \in {"ends", "done"} /\ (at' = "done" <=> frames' = <<>>)
    BY <1>2
  <2> QED BY <1>1, <1>2, <2>1, <2>2 DEF SortTypeOK
<1>4. PartsFit(frames', Len(a'))
  BY <1>1, <1>2
<1>5. StaysInside'
  <2>1. ASSUME fs # <<>> PROVE 1 <= fs[1].lo /\ fs[1].lo < fs[1].up /\ fs[1].up <= Len(a)
    <3>1. 1 \in DOMAIN fs
      BY <2>1
    <3> QED BY <2>1, <3>1 DEF PartsFit
  <2> QED BY <1>1, <1>2, <2>1 DEF StaysInside, lo, up
<1>6. order' = "<" => at' # "error" /\ Apart(frames', a') /\ PivotSplits'
  BY <1>2 DEF PivotSplits
<1> QED BY <1>1, <1>3, <1>4, <1>5, <1>6 DEF SortInv, PartsFit, Apart

\* A call returns when its part is in order.
LEMMA BackKeeps ==
  ASSUME SortInv, frames # <<>>, Rearranged(a'), UNCHANGED <<order, sorted>>,
         p' \in Int, i' \in Int, j' \in Int, Back,
         order = "<" => \A k, m \in lo..up : k < m => a'[k] <= a'[m]
  PROVE  SortInv'
<1>1. PICK seed \in Seeds : Begin(auxsort(Tail(frames), seed))
  BY DEF Back
<1>2. a' \in Seq(Int) /\ Len(a') = Len(a) /\ frames \in Seq(Frame) /\ PartsFit(frames, Len(a'))
      /\ (order = "<" => Apart(frames, a'))
  BY DEF Rearranged, SortInv, SortTypeOK
<1>3. /\ Tail(frames) \in Seq(Frame)
      /\ PartsFit(Tail(frames), Len(a'))
      /\ order = "<" => Apart(Tail(frames), a')
  BY <1>2, LeavingApart DEF lo, up
<1> DEFINE r == auxsort(Tail(frames), seed)
<1>4. /\ r \in Seq(Frame) /\ PartsFit(r, Len(a'))
      /\ r # <<>> => r[1].lo < r[1].up
      /\ order = "<" => Apart(r, a')
  BY <1>2, <1>3, ResumedApart
<1> HIDE DEF r
<1>5. Begin(r)
  BY <1>1 DEF r
<1> QED BY <1>2, <1>4, <1>5, BeginKeeps
\* partition() has put the pivot at q: its two sides are the parts to come.
LEMMA SmallerKeeps ==
  ASSUME SortInv, frames # <<>>, Rearranged(a'), UNCHANGED <<order, sorted>>,
         p' \in Int, i' \in Int, j' \in Int, NEW q \in Nat, lo <= q, q <= up, Smaller(q),
         order = "<" => /\ \A k \in lo..q : a'[k] <= a'[q]
                        /\ \A k \in q..up : a'[q] <= a'[k]
  PROVE  SortInv'
<1> DEFINE f     == frames[1]
           left  == q - f.lo < f.up - q
           sub   == IF left THEN [f EXCEPT !.up = q - 1] ELSE [f EXCEPT !.lo = q + 1]
           other == IF left THEN [f EXCEPT !.lo = q + 1, !.n = q - f.lo] ELSE [f EXCEPT !.up = q - 1, !.n = f.up - q]
           gs    == <<sub, other>> \o Tail(frames)
           hs    == <<other>> \o Tail(frames)
<1>1. /\ lo \in Nat /\ up \in Nat /\ 1 <= lo /\ f \in Frame /\ f.lo = lo /\ f.up = up
  BY CurrentPart
<1>2. sub \in Frame /\ other \in Frame /\ Halves(f, q, sub, other)
  <2>1. q - 1 \in Nat /\ q + 1 \in Nat /\ q - f.lo \in Int /\ f.up - q \in Int
    BY <1>1
  <2> HIDE DEF f
  <2> QED BY <1>1, <2>1 DEF Halves, Frame
<1>3. PICK seed \in Seeds : Begin(IF sub.lo < sub.up THEN gs ELSE auxsort(hs, seed))
  BY DEF Smaller
<1>4. a' \in Seq(Int) /\ Len(a') = Len(a) /\ frames \in Seq(Frame) /\ PartsFit(frames, Len(a'))
      /\ (order = "<" => Apart(frames, a'))
  BY DEF Rearranged, SortInv, SortTypeOK
<1> HIDE DEF sub, other, left
<1>5. /\ gs \in Seq(Frame) /\ gs # <<>> /\ gs[1] = sub /\ Tail(gs) = hs
      /\ PartsFit(gs, Len(a'))
      /\ order = "<" => Apart(gs, a')
  <2>1. order = "<" => /\ \A k \in f.lo..q : a'[k] <= a'[q]
                       /\ \A k \in q..f.up : a'[q] <= a'[k]
    BY <1>1
  <2>2. f.lo <= q /\ q <= f.up
    BY <1>1
  <2>3. /\ gs \in Seq(Frame) /\ gs # <<>> /\ gs[1] = sub /\ Tail(gs) = hs
        /\ PartsFit(gs, Len(a'))
        /\ /\ Apart(frames, a')
           /\ \A k \in frames[1].lo..q : a'[k] <= a'[q]
           /\ \A k \in q..frames[1].up : a'[q] <= a'[k]
           => Apart(gs, a')
    <3> DEFINE s == a'
    <3>1. s \in Seq(Int) /\ PartsFit(frames, Len(s))
      BY <1>4
    <3> HIDE DEF s
    <3>2. LET g == <<sub, other>> \o Tail(frames) IN
          /\ g \in Seq(Frame) /\ g # <<>> /\ g[1] = sub
          /\ Tail(g) = <<other>> \o Tail(frames)
          /\ PartsFit(g, Len(s))
          /\ /\ Apart(frames, s)
             /\ \A k \in frames[1].lo..q : s[k] <= s[q]
             /\ \A k \in q..frames[1].up : s[q] <= s[k]
             => Apart(g, s)
      BY <1>2, <1>4, <2>2, <3>1, SplitApart, Zenon DEF f
    <3> QED BY <3>2, Zenon DEF s
  <2> HIDE DEF gs, hs
  <2> QED BY <1>4, <2>1, <2>3 DEF f
<1> HIDE DEF f, gs, hs
<1>6. CASE sub.lo < sub.up
  <2>1. Begin(gs)
    BY <1>3, <1>6
  <2> QED BY <1>4, <1>5, <1>6, <2>1, BeginKeeps
<1>7. CASE ~ (sub.lo < sub.up)
  <2>1. Begin(auxsort(hs, seed))
    BY <1>3, <1>7
  <2>2. order = "<" => \A k, m \in gs[1].lo..gs[1].up : k < m => a'[k] <= a'[m]
    <3>1. sub.lo \in Nat /\ sub.up \in Nat
      BY <1>2 DEF Frame
    <3>2. \A k, m \in sub.lo..sub.up : ~ (k < m)
      BY <1>7, <3>1
    <3> QED BY <1>5, <3>2
  <2>3. /\ hs \in Seq(Frame)
        /\ PartsFit(hs, Len(a'))
        /\ order = "<" => Apart(hs, a')
    BY <1>4, <1>5, <2>2, LeavingApart
  <2> DEFINE r == auxsort(hs, seed)
  <2>4. /\ r \in Seq(Frame) /\ PartsFit(r, Len(a'))
        /\ r # <<>> => r[1].lo < r[1].up
        /\ order = "<" => Apart(r, a')
    BY <1>4, <2>3, ResumedApart
  <2> HIDE DEF r
  <2>5. Begin(r)
    BY <2>1 DEF r
  <2> QED BY <1>4, <2>4, <2>5, BeginKeeps
<1> QED BY <1>6, <1>7

\* A step within a part.
LEMMA StayKeeps ==
  ASSUME SortInv, frames # <<>>, Rearranged(a'), UNCHANGED <<order, frames, sorted>>,
         p' \in Int, i' \in Int, j' \in Int, at' \in {"low", "high", "left", "right", "error"},
         StaysInside', order = "<" => at' # "error" /\ PivotSplits'
  PROVE  SortInv'
<1>1. a' \in Seq(Int) /\ Len(a') = Len(sorted') /\ Len(a') = Len(a) /\ LosesNothing'
  BY StillNothingLost
<1>2. SortTypeOK'
  BY <1>1 DEF SortInv, SortTypeOK
<1>3. PartsFit(frames, Len(a)) /\ (order = "<" => Apart(frames, a'))
  BY DEF SortInv, Rearranged
<1>4. PartsFit(frames', Len(a'))
  BY <1>1, <1>3
<1>5. order' = "<" => at' # "error" /\ Apart(frames', a') /\ PivotSplits'
  BY <1>3
<1> QED BY <1>1, <1>2, <1>4, <1>5 DEF SortInv, PartsFit, Apart

\* What the order function answers.
LEMMA CompAnswers ==
  ASSUME NEW x \in Int, NEW y \in Int, NEW less \in sort_comp(x, y)
  PROVE  less \in BOOLEAN /\ (order = "<" => (less <=> x < y))
<1>1. CASE order = "any"
  BY <1>1, Zenon DEF sort_comp
<1>2. CASE order # "any"
  <2>1. less = (x < y)
    BY <1>2, Zenon DEF sort_comp
  <2>2. (x < y) \in BOOLEAN
    OBVIOUS
  <2> QED BY <2>1, <2>2, Zenon
<1> QED BY <1>1, <1>2

\* The first comparison of a part, of its last element with its first.
LEMMA EndsKeeps == SortInv /\ Ends /\ UNCHANGED sorted => SortInv'
<1> SUFFICES ASSUME SortInv, Ends, UNCHANGED sorted PROVE SortInv'
  OBVIOUS
<1>1. frames # <<>> /\ order \in {"<", "any"} /\ p \in Int /\ i \in Int /\ j \in Int
  BY DEF SortInv, SortTypeOK, Ends
<1>2. /\ lo \in Nat /\ up \in Nat /\ 1 <= lo /\ lo < up /\ up <= Len(a) /\ Len(a) \in Nat
      /\ \A k \in 1..Len(a) : a[k] \in Int
  BY <1>1, CurrentPart
<1>3. Rearranged(a') /\ (order = "<" => a'[lo] <= a'[up])
  <2>1. PICK less \in sort_comp(a[up], a[lo]) : a' = IF less THEN Swap(a, lo, up) ELSE a
    BY DEF Ends
  <2>3. a[lo] \in Int /\ a[up] \in Int
    BY <1>2
  <2>2. less \in BOOLEAN /\ (order = "<" => (less <=> a[up] < a[lo]))
    BY <2>3, CompAnswers
  <2>4. CASE less
    <3>1. /\ Rearranged(Swap(a, lo, up))
          /\ Swap(a, lo, up)[lo] = a[up] /\ Swap(a, lo, up)[up] = a[lo]
      BY <1>1, <1>2, ArrayRearranged, SwapRearranges
    <3>2. a' = Swap(a, lo, up)
      BY <2>1, <2>4
    <3>3. order = "<" => a[up] <= a[lo]
      BY <1>2, <2>2, <2>3, <2>4
    <3> QED BY <3>1, <3>2, <3>3
  <2>5. CASE ~less
    <3>1. order = "<" => a[lo] <= a[up]
      BY <1>2, <2>2, <2>3, <2>5
    <3> QED BY <2>1, <2>5, <3>1, ArrayRearranged
  <2> QED BY <2>2, <2>4, <2>5
<1>4. i' = i /\ j' = j
  BY DEF Ends
<1>5. CASE up - lo = 1
  <2>1. Back /\ UNCHANGED <<order, p>>
    BY <1>5 DEF Ends
  <2>2. \A k, m \in lo..up : k < m => k = lo /\ m = up
    BY <1>2, <1>5
  <2>3. order = "<" => \A k, m \in lo..up : k < m => a'[k] <= a'[m]
    BY <1>3, <2>2
  <2> QED BY <1>1, <1>3, <1>4, <2>1, <2>3, BackKeeps
<1>6. CASE up - lo # 1
  <2>1. p' \in (IF up - lo < RANLIMIT \/ frames[1].rnd = 0 THEN {(lo + up) \div 2} ELSE choosePivot(lo, up))
    BY <1>6 DEF Ends
  <2>2. at' = "low" /\ UNCHANGED <<order, frames>>
    BY <1>6 DEF Ends, Stays
  <2>3. p' \in Int /\ lo < p' /\ p' < up
    <3>1. CASE p' = (lo + up) \div 2
      BY <1>2, <1>6, <3>1
    <3>2. CASE ~ (up - lo < RANLIMIT) /\ p' \in choosePivot(lo, up)
      <4>1. p' \in (lo + ((up - lo) \div 4))..(lo + 3 * ((up - lo) \div 4) - 1)
        BY <3>2 DEF choosePivot
      <4>2. up - lo >= 4
        BY <1>2, <3>2, SortAssumption
      <4> QED BY <1>2, <4>1, <4>2
    <3> QED BY <2>1, <3>1, <3>2
  <2>4. lo' = lo /\ up' = up
    BY <2>2 DEF lo, up
  <2>5. StaysInside'
    <3>1. Len(a') = Len(a)
      BY <1>3 DEF Rearranged
    <3> QED BY <1>2, <2>2, <2>3, <2>4, <3>1 DEF StaysInside
  <2>6. order = "<" => PivotSplits'
    BY <1>3, <2>2, <2>4 DEF PivotSplits
  <2> QED BY <1>1, <1>3, <1>4, <2>2, <2>3, <2>5, <2>6, StayKeeps
<1> QED BY <1>5, <1>6
\* First, pivot and last element are in order: the part is, or partition() begins.
LEMMA PivotedKeeps ==
  ASSUME SortInv, frames # <<>>, lo < p, p < up, NEW s, Rearranged(s), Pivoted(s),
         UNCHANGED <<p, sorted>>,
         order = "<" => s[lo] <= s[p] /\ s[p] <= s[up]
  PROVE  SortInv'
<1>1. p \in Int /\ i \in Int /\ j \in Int
  BY DEF SortInv, SortTypeOK
<1>2. /\ lo \in Nat /\ up \in Nat /\ 1 <= lo /\ lo < up /\ up <= Len(a) /\ Len(a) \in Nat
  BY CurrentPart
<1>3. \A k \in 1..Len(a) : s[k] \in Int
  BY DEF Rearranged
<1>4. s[lo] \in Int /\ s[p] \in Int /\ s[up] \in Int
  BY <1>1, <1>2, <1>3
<1>5. CASE up - lo = 2
  <2>1. a' = s /\ Back /\ UNCHANGED <<order, i, j>>
    BY <1>5 DEF Pivoted
  <2>2. \A k, m \in lo..up : k < m => (k = lo \/ k = p) /\ (m = p \/ m = up) /\ (k = p => m = up)
    BY <1>1, <1>2, <1>5
  <2>3. order = "<" => \A k, m \in lo..up : k < m => a'[k] <= a'[m]
    BY <1>4, <2>1, <2>2
  <2> QED BY <1>1, <2>1, <2>3, BackKeeps
<1>6. CASE up - lo # 2
  <2>1. a' = Swap(s, p, up - 1) /\ at' = "left" /\ i' = lo + 1 /\ j' = up - 1 /\ UNCHANGED <<order, frames>>
    BY <1>6 DEF Pivoted, Stays
  <2>2. up - lo >= 3 /\ p \in Nat /\ up - 1 \in Nat /\ lo <= up - 1 /\ up - 1 <= up
    BY <1>1, <1>2, <1>6
  <2>3. /\ Rearranged(a')
        /\ a'[up - 1] = s[p]
        /\ \A m \in 1..Len(a) : m # p /\ m # up - 1 => a'[m] = s[m]
    <3>1. lo <= p /\ p <= up
      BY <1>1, <1>2
    <3>2. /\ Rearranged(Swap(s, p, up - 1))
          /\ Swap(s, p, up - 1)[up - 1] = s[p]
          /\ \A m \in 1..Len(a) : m # p /\ m # up - 1 => Swap(s, p, up - 1)[m] = s[m]
      BY <2>2, <3>1, SwapRearranges
    <3> QED BY <2>1, <3>2, Zenon
  <2>4. a'[lo] = s[lo] /\ a'[up] = s[up]
    <3>1. lo # p /\ lo # up - 1 /\ up # p /\ up # up - 1 /\ lo \in 1..Len(a) /\ up \in 1..Len(a)
      BY <1>1, <1>2, <2>2
    <3> QED BY <2>3, <3>1
  <2>5. lo' = lo /\ up' = up
    BY <2>1 DEF lo, up
  <2>6. StaysInside'
    <3>1. Len(a') = Len(a)
      BY <2>3 DEF Rearranged
    <3> QED BY <1>2, <2>1, <2>2, <2>5, <3>1 DEF StaysInside
  <2>7. order = "<" => PivotSplits'
    <3>1. ASSUME order = "<" PROVE \A k \in lo..((lo + 1) - 1) : a'[k] <= a'[up - 1]
      <4>1. \A k \in lo..((lo + 1) - 1) : k = lo
        BY <1>2
      <4> QED BY <2>3, <2>4, <3>1, <4>1
    <3>2. ASSUME order = "<" PROVE \A k \in (up - 1)..up : a'[up - 1] <= a'[k]
      <4>1. \A k \in (up - 1)..up : k = up - 1 \/ k = up
        BY <1>2
      <4>2. a'[up - 1] <= a'[up - 1]
        BY <1>4, <2>3
      <4> QED BY <2>3, <2>4, <3>2, <4>1, <4>2
    <3>3. lo + 1 <= (up - 1) + 1
      BY <1>2
    <3> QED BY <2>1, <2>5, <3>1, <3>2, <3>3 DEF PivotSplits
  <2> QED BY <1>1, <1>2, <2>1, <2>2, <2>3, <2>6, <2>7, StayKeeps
<1> QED BY <1>5, <1>6

\* The second comparison, of the pivot with the first element.
LEMMA LowKeeps == SortInv /\ Low /\ UNCHANGED sorted => SortInv'
<1> SUFFICES ASSUME SortInv, Low, UNCHANGED sorted PROVE SortInv'
  OBVIOUS
<1>1. frames # <<>> /\ p \in Int /\ i \in Int /\ j \in Int /\ at = "low" /\ p' = p
  BY DEF SortInv, SortTypeOK, Low
<1>2. /\ lo \in Nat /\ up \in Nat /\ 1 <= lo /\ lo < up /\ up <= Len(a) /\ Len(a) \in Nat
      /\ \A k \in 1..Len(a) : a[k] \in Int
  BY <1>1, CurrentPart
<1>3. lo < p /\ p < up /\ p \in Nat
  BY <1>1, <1>2 DEF SortInv, StaysInside
<1>4. order = "<" => a[lo] <= a[up]
  BY <1>1 DEF SortInv, PivotSplits
<1>5. PICK less \in sort_comp(a[p], a[lo]) :
          IF less THEN Pivoted(Swap(a, p, lo)) ELSE at' = "high" /\ Stays /\ UNCHANGED <<a, i, j>>
  BY DEF Low
<1>6. a[lo] \in Int /\ a[up] \in Int /\ a[p] \in Int
  BY <1>2, <1>3
<1>7. less \in BOOLEAN /\ (order = "<" => (less <=> a[p] < a[lo]))
  BY <1>6, CompAnswers
<1>8. CASE less
  <2> DEFINE s == Swap(a, p, lo)
  <2>1. /\ Rearranged(s) /\ s[p] = a[lo] /\ s[lo] = a[p]
        /\ \A m \in 1..Len(a) : m # p /\ m # lo => s[m] = a[m]
    BY <1>1, <1>2, <1>3, ArrayRearranged, SwapRearranges
  <2>2. Pivoted(s)
    BY <1>5, <1>8
  <2> HIDE DEF s
  <2>3. s[up] = a[up]
    BY <1>2, <1>3, <2>1
  <2>4. order = "<" => s[lo] <= s[p] /\ s[p] <= s[up]
    BY <1>4, <1>6, <1>7, <1>8, <2>1, <2>3
  <2> QED BY <1>1, <1>3, <2>1, <2>2, <2>4, PivotedKeeps
<1>9. CASE ~less
  <2>1. at' = "high" /\ UNCHANGED <<a, i, j, order, frames>>
    BY <1>5, <1>9 DEF Stays
  <2>2. order = "<" => a[lo] <= a[p]
    BY <1>6, <1>7, <1>9
  <2>3. StaysInside' /\ (order = "<" => PivotSplits') /\ Rearranged(a')
    BY <1>1, <1>2, <1>3, <1>4, <2>1, <2>2, ArrayRearranged DEF StaysInside, PivotSplits, lo, up, Rearranged
  <2> QED BY <1>1, <2>1, <2>3, StayKeeps
<1> QED BY <1>7, <1>8, <1>9

\* The third comparison, of the last element with the pivot.
LEMMA HighKeeps == SortInv /\ High /\ UNCHANGED sorted => SortInv'
<1> SUFFICES ASSUME SortInv, High, UNCHANGED sorted PROVE SortInv'
  OBVIOUS
<1>1. frames # <<>> /\ p \in Int /\ i \in Int /\ j \in Int /\ at = "high" /\ p' = p
  BY DEF SortInv, SortTypeOK, High
<1>2. /\ lo \in Nat /\ up \in Nat /\ 1 <= lo /\ lo < up /\ up <= Len(a) /\ Len(a) \in Nat
      /\ \A k \in 1..Len(a) : a[k] \in Int
  BY <1>1, CurrentPart
<1>3. lo < p /\ p < up /\ p \in Nat
  BY <1>1, <1>2 DEF SortInv, StaysInside
<1>4. order = "<" => a[lo] <= a[up] /\ a[lo] <= a[p]
  BY <1>1 DEF SortInv, PivotSplits
<1>5. PICK less \in sort_comp(a[up], a[p]) : Pivoted(IF less THEN Swap(a, p, up) ELSE a)
  BY DEF High
<1>6. a[lo] \in Int /\ a[up] \in Int /\ a[p] \in Int
  BY <1>2, <1>3
<1>7. less \in BOOLEAN /\ (order = "<" => (less <=> a[up] < a[p]))
  BY <1>6, CompAnswers
<1>8. CASE less
  <2> DEFINE s == Swap(a, p, up)
  <2>1. /\ Rearranged(s) /\ s[p] = a[up] /\ s[up] = a[p]
        /\ \A m \in 1..Len(a) : m # p /\ m # up => s[m] = a[m]
    BY <1>1, <1>2, <1>3, ArrayRearranged, SwapRearranges
  <2>2. Pivoted(s)
    BY <1>5, <1>8
  <2> HIDE DEF s
  <2>3. s[lo] = a[lo]
    BY <1>2, <1>3, <2>1
  <2>4. order = "<" => s[lo] <= s[p] /\ s[p] <= s[up]
    BY <1>4, <1>6, <1>7, <1>8, <2>1, <2>3
  <2> QED BY <1>1, <1>3, <2>1, <2>2, <2>4, PivotedKeeps
<1>9. CASE ~less
  <2>1. Pivoted(a)
    BY <1>5, <1>9
  <2>2. order = "<" => a[lo] <= a[p] /\ a[p] <= a[up]
    BY <1>4, <1>6, <1>7, <1>9
  <2> QED BY <1>1, <1>3, <2>1, <2>2, ArrayRearranged, PivotedKeeps
<1> QED BY <1>7, <1>8, <1>9
\* partition() looks from the left.
LEMMA LeftKeeps ==
  ASSUME SortInv, partition, at = "left", UNCHANGED sorted
  PROVE  SortInv'
<1>1. frames # <<>> /\ p \in Int /\ i \in Int /\ j \in Int /\ p' = p
  BY DEF SortInv, SortTypeOK, partition
<1>2. /\ lo \in Nat /\ up \in Nat /\ 1 <= lo /\ lo < up /\ up <= Len(a) /\ Len(a) \in Nat
      /\ \A k \in 1..Len(a) : a[k] \in Int
  BY <1>1, CurrentPart
<1>3. lo < i /\ i < up /\ lo < j /\ j < up
  BY DEF SortInv, StaysInside
<1>4. order = "<" => /\ \A k \in lo..(i - 1) : a[k] <= a[up - 1]
                     /\ i <= j + 1 /\ \A k \in j..up : a[up - 1] <= a[k]
  BY DEF SortInv, PivotSplits
<1>5. PICK less \in sort_comp(a[i], a[up - 1]) :
          IF less THEN IF i = up - 1 THEN InvalidOrder ELSE i' = i + 1 /\ UNCHANGED <<a, j, at, order, frames>>
          ELSE at' = "right" /\ j' = j - 1 /\ Stays /\ UNCHANGED <<a, i>>
  BY DEF partition
<1>6. a[i] \in Int /\ a[up - 1] \in Int
  BY <1>1, <1>2, <1>3
<1>7. less \in BOOLEAN /\ (order = "<" => (less <=> a[i] < a[up - 1]))
  BY <1>6, CompAnswers
<1>8. CASE less /\ i = up - 1
  <2>1. InvalidOrder /\ order # "<"
    BY <1>5, <1>6, <1>7, <1>8
  <2>2. at' = "error" /\ UNCHANGED <<a, i, j, order, frames>>
    BY <2>1 DEF InvalidOrder
  <2>3. StaysInside' /\ Rearranged(a')
    BY <1>1, <1>2, <2>2, ArrayRearranged DEF StaysInside, lo, up, Rearranged
  <2> QED BY <1>1, <2>1, <2>2, <2>3, StayKeeps
<1>9. CASE less /\ i # up - 1
  <2>1. i' = i + 1 /\ UNCHANGED <<a, j, at, order, frames>>
    BY <1>5, <1>9
  <2>2. lo' = lo /\ up' = up
    BY <2>1 DEF lo, up
  <2>3. StaysInside'
    BY <1>1, <1>2, <1>3, <1>9, <2>1, <2>2 DEF StaysInside
  <2>4. ASSUME order = "<" PROVE PivotSplits'
    <3>1. ~ (j <= i)
      BY <1>1, <1>2, <1>3, <1>4, <1>6, <1>7, <1>9, <2>4
    <3>2. \A k \in lo..((i + 1) - 1) : a[k] <= a[up - 1]
      <4> TAKE k \in lo..((i + 1) - 1)
      <4>1. CASE k = i
        BY <1>6, <1>7, <1>9, <2>4, <4>1
      <4>2. CASE k # i
        BY <1>1, <1>2, <1>4, <2>4, <4>2
      <4> QED BY <4>1, <4>2
    <3>3. i + 1 <= j + 1
      BY <1>1, <3>1
    <3> QED BY <1>4, <2>1, <2>2, <2>4, <3>2, <3>3 DEF PivotSplits
  <2>5. Rearranged(a')
    BY <2>1, ArrayRearranged DEF Rearranged
  <2> QED BY <1>1, <2>1, <2>3, <2>4, <2>5, StayKeeps
<1>10. CASE ~less
  <2>1. at' = "right" /\ j' = j - 1 /\ UNCHANGED <<a, i, order, frames>>
    BY <1>5, <1>10 DEF Stays
  <2>2. lo' = lo /\ up' = up
    BY <2>1 DEF lo, up
  <2>3. StaysInside'
    BY <1>1, <1>2, <1>3, <2>1, <2>2 DEF StaysInside
  <2>4. ASSUME order = "<" PROVE PivotSplits'
    <3>1. a[up - 1] <= a[i]
      BY <1>6, <1>7, <1>10, <2>4
    <3>2. i <= (j - 1) + 2 /\ \A k \in ((j - 1) + 1)..up : a[up - 1] <= a[k]
      BY <1>1, <1>4, <2>4
    <3> QED BY <1>4, <2>1, <2>2, <2>4, <3>1, <3>2 DEF PivotSplits
  <2>5. Rearranged(a')
    BY <2>1, ArrayRearranged DEF Rearranged
  <2> QED BY <1>1, <2>1, <2>3, <2>4, <2>5, StayKeeps
<1> QED BY <1>7, <1>8, <1>9, <1>10
\* partition() looks from the right, and swaps or ends.
LEMMA RightKeeps ==
  ASSUME SortInv, partition, at = "right", UNCHANGED sorted
  PROVE  SortInv'
<1>1. frames # <<>> /\ p \in Int /\ i \in Int /\ j \in Int /\ p' = p
  BY DEF SortInv, SortTypeOK, partition
<1>2. /\ lo \in Nat /\ up \in Nat /\ 1 <= lo /\ lo < up /\ up <= Len(a) /\ Len(a) \in Nat
      /\ \A k \in 1..Len(a) : a[k] \in Int
  BY <1>1, CurrentPart
<1>3. lo < i /\ i < up /\ lo <= j /\ j < up - 1
  BY DEF SortInv, StaysInside
<1>4. order = "<" => /\ \A k \in lo..(i - 1) : a[k] <= a[up - 1]
                     /\ i <= j + 2 /\ a[up - 1] <= a[i]
                     /\ \A k \in (j + 1)..up : a[up - 1] <= a[k]
  BY DEF SortInv, PivotSplits
<1>5. PICK less \in sort_comp(a[up - 1], a[j]) :
          IF less THEN IF j < i THEN InvalidOrder ELSE j' = j - 1 /\ UNCHANGED <<a, i, at, order, frames>>
          ELSE IF j < i THEN a' = Swap(a, up - 1, i) /\ Smaller(i) /\ UNCHANGED <<i, j, order>>
          ELSE a' = Swap(a, i, j) /\ i' = i + 1 /\ at' = "left" /\ Stays /\ UNCHANGED j
  BY DEF partition
<1>6. a[i] \in Int /\ a[j] \in Int /\ a[up - 1] \in Int
  BY <1>1, <1>2, <1>3
<1>7. less \in BOOLEAN /\ (order = "<" => (less <=> a[up - 1] < a[j]))
  BY <1>6, CompAnswers
<1>8. CASE less /\ j < i
  <2>1. InvalidOrder
    BY <1>5, <1>8
  <2>2. order # "<"
    <3>1. j \in lo..(i - 1)
      BY <1>1, <1>2, <1>3, <1>8
    <3> QED BY <1>4, <1>6, <1>7, <1>8, <3>1
  <2>3. at' = "error" /\ UNCHANGED <<a, i, j, order, frames>>
    BY <2>1 DEF InvalidOrder
  <2>4. StaysInside' /\ Rearranged(a')
    BY <1>1, <1>2, <2>3, ArrayRearranged DEF StaysInside, lo, up, Rearranged
  <2> QED BY <1>1, <2>2, <2>3, <2>4, StayKeeps
<1>9. CASE less /\ ~ (j < i)
  <2>1. j' = j - 1 /\ UNCHANGED <<a, i, at, order, frames>>
    BY <1>5, <1>9
  <2>2. lo' = lo /\ up' = up
    BY <2>1 DEF lo, up
  <2>3. StaysInside'
    BY <1>1, <1>2, <1>3, <1>9, <2>1, <2>2 DEF StaysInside
  <2>4. ASSUME order = "<" PROVE PivotSplits'
    <3>1. \A k \in ((j - 1) + 1)..up : a[up - 1] <= a[k]
      <4> TAKE k \in ((j - 1) + 1)..up
      <4>1. CASE k = j
        BY <1>6, <1>7, <1>9, <2>4, <4>1
      <4>2. CASE k # j
        BY <1>1, <1>2, <1>4, <2>4, <4>2
      <4> QED BY <4>1, <4>2
    <3>2. i <= (j - 1) + 2
      BY <1>1, <1>9
    <3> QED BY <1>4, <2>1, <2>2, <2>4, <3>1, <3>2 DEF PivotSplits
  <2>5. Rearranged(a')
    BY <2>1, ArrayRearranged DEF Rearranged
  <2> QED BY <1>1, <2>1, <2>3, <2>4, <2>5, StayKeeps
<1>10. CASE ~less /\ j < i
  <2>1. a' = Swap(a, up - 1, i) /\ Smaller(i) /\ UNCHANGED <<i, j, order>>
    BY <1>5, <1>10
  <2>2. i \in Nat /\ up - 1 \in Nat /\ lo <= i /\ i <= up /\ lo <= up - 1 /\ up - 1 <= up
    BY <1>1, <1>2, <1>3
  <2>3. /\ Rearranged(a') /\ a'[up - 1] = a[i] /\ a'[i] = a[up - 1]
        /\ \A m \in 1..Len(a) : m # up - 1 /\ m # i => a'[m] = a[m]
    BY <1>1, <2>1, <2>2, ArrayRearranged, SwapRearranges
  <2>4. ASSUME order = "<", NEW k \in lo..i PROVE a'[k] <= a'[i]
    <3>1. CASE k = i
      BY <1>6, <2>3, <3>1
    <3>2. CASE k # i
      <4>1. k \in lo..(i - 1) /\ k \in 1..Len(a) /\ k # up - 1
        BY <1>1, <1>2, <1>3, <3>2
      <4> QED BY <1>4, <2>3, <2>4, <3>2, <4>1
    <3> QED BY <3>1, <3>2
  <2>5. ASSUME order = "<", NEW k \in i..up PROVE a'[i] <= a'[k]
    <3>1. CASE k = i
      BY <1>6, <2>3, <3>1
    <3>2. CASE k = up - 1
      BY <1>4, <2>3, <2>5, <3>2
    <3>3. CASE k # i /\ k # up - 1
      <4>1. k \in (j + 1)..up /\ k \in 1..Len(a)
        BY <1>1, <1>2, <1>3, <1>10
      <4> QED BY <1>4, <2>3, <2>5, <3>3, <4>1
    <3> QED BY <3>1, <3>2, <3>3
  <2>6. p' \in Int /\ i' \in Int /\ j' \in Int
    BY <1>1, <2>1
  <2> QED BY <1>1, <2>1, <2>2, <2>3, <2>4, <2>5, <2>6, SmallerKeeps
<1>11. CASE ~less /\ ~ (j < i)
  <2>1. a' = Swap(a, i, j) /\ i' = i + 1 /\ at' = "left" /\ UNCHANGED <<order, frames, j>>
    BY <1>5, <1>11 DEF Stays
  <2>2. i \in Nat /\ j \in Nat /\ lo <= i /\ i <= up /\ lo <= j /\ j <= up /\ i <= j
    BY <1>1, <1>2, <1>3, <1>11
  <2>3. /\ Rearranged(a') /\ a'[i] = a[j] /\ a'[j] = a[i]
        /\ \A m \in 1..Len(a) : m # i /\ m # j => a'[m] = a[m]
    BY <1>1, <2>1, <2>2, ArrayRearranged, SwapRearranges
  <2>4. lo' = lo /\ up' = up
    BY <2>1 DEF lo, up
  <2>5. a'[up - 1] = a[up - 1]
    BY <1>1, <1>2, <1>3, <2>2, <2>3
  <2>6. StaysInside'
    <3>1. Len(a') = Len(a)
      BY <2>3 DEF Rearranged
    <3> QED BY <1>1, <1>2, <1>3, <2>1, <2>2, <2>4, <3>1 DEF StaysInside
  <2>7. ASSUME order = "<" PROVE PivotSplits'
    <3>1. a[j] <= a[up - 1]
      BY <1>6, <1>7, <1>11, <2>7
    <3>2. ASSUME NEW k \in lo..((i + 1) - 1) PROVE a'[k] <= a[up - 1]
      <4>1. CASE k = i
        BY <2>3, <3>1, <4>1
      <4>2. CASE k # i
        <5>1. k \in lo..(i - 1) /\ k \in 1..Len(a) /\ k # j
          BY <1>1, <1>2, <1>3, <2>2, <4>2
        <5> QED BY <1>4, <2>3, <2>7, <4>2, <5>1
      <4> QED BY <4>1, <4>2
    <3>3. ASSUME NEW k \in j..up PROVE a[up - 1] <= a'[k]
      <4>1. CASE k = j
        BY <1>4, <2>3, <2>7, <4>1
      <4>2. CASE k # j
        <5>1. k \in (j + 1)..up /\ k \in 1..Len(a) /\ k # i
          BY <1>1, <1>2, <1>3, <2>2, <4>2
        <5> QED BY <1>4, <2>3, <2>7, <4>2, <5>1
      <4> QED BY <4>1, <4>2
    <3>4. i + 1 <= j + 1
      BY <2>2
    <3> QED BY <2>1, <2>4, <2>5, <3>2, <3>3, <3>4 DEF PivotSplits
  <2>8. p' \in Int /\ i' \in Int /\ j' \in Int
    BY <1>1, <2>1
  <2> QED BY <1>1, <2>1, <2>3, <2>6, <2>7, <2>8, StayKeeps
<1> QED BY <1>7, <1>8, <1>9, <1>10, <1>11

-----------------------------------------------------------------------------
\* A call of sort begins with the array as one part.
LEMMA InitHolds == sort => SortInv
<1> SUFFICES ASSUME sort PROVE SortInv
  OBVIOUS
<1>1. a \in Seq(Int) /\ order \in {"<", "any"} /\ sorted = a /\ p = 0 /\ i = 0 /\ j = 0
  BY SortAssumption DEF sort
<1> DEFINE f == [lo |-> 1, up |-> Len(a), rnd |-> 0, n |-> 0]
<1>2. f \in Frame /\ f.lo = 1 /\ f.up = Len(a) /\ Len(a) \in Nat
  BY <1>1 DEF Frame
<1>3. CASE Len(a) > 1
  <2>1. frames = <<f>> /\ at = "ends"
    BY <1>3 DEF sort
  <2> HIDE DEF f
  <2>2. frames \in Seq(Frame) /\ frames # <<>> /\ DOMAIN frames = {1} /\ frames[1] = f
    BY <1>2, <2>1
  <2>3. SortTypeOK
    BY <1>1, <2>1, <2>2 DEF SortTypeOK
  <2>4. PartsFit(frames, Len(a))
    BY <1>2, <1>3, <2>2 DEF PartsFit
  <2>5. Apart(frames, a)
    BY <1>1, <1>2, <2>2 DEF Apart
  <2>6. StaysInside
    BY <1>2, <1>3, <2>1, <2>2 DEF StaysInside, lo, up
  <2> QED BY <1>1, <2>1, <2>3, <2>4, <2>5, <2>6 DEF SortInv, PivotSplits, LosesNothing
<1>4. CASE ~ (Len(a) > 1)
  <2>1. frames = <<>> /\ at = "done"
    BY <1>4 DEF sort
  <2>2. SortTypeOK
    BY <1>1, <2>1 DEF SortTypeOK
  <2>3. PartsFit(frames, Len(a)) /\ Apart(frames, a) /\ StaysInside
    BY <1>1, <1>2, <1>4, <2>1 DEF PartsFit, Apart, StaysInside
  <2> QED BY <1>1, <2>1, <2>2, <2>3 DEF SortInv, PivotSplits, LosesNothing
<1> QED BY <1>2, <1>3, <1>4

\* Every call of the order function, and what follows it, keeps the invariant.
LEMMA StepHolds == SortInv /\ [SortNext]_sortvars => SortInv'
<1> SUFFICES ASSUME SortInv, [SortNext]_sortvars PROVE SortInv'
  OBVIOUS
<1>1. CASE Ends /\ UNCHANGED sorted
  BY <1>1, EndsKeeps
<1>2. CASE Low /\ UNCHANGED sorted
  BY <1>2, LowKeeps
<1>3. CASE High /\ UNCHANGED sorted
  BY <1>3, HighKeeps
<1>4. CASE partition /\ UNCHANGED sorted
  <2>1. at = "left" \/ at = "right"
    BY <1>4 DEF partition
  <2> QED BY <1>4, <2>1, LeftKeeps, RightKeeps
<1>5. CASE UNCHANGED sortvars
  <2>1. UNCHANGED <<a, sorted, order, frames, at, p, i, j, lo, up>>
    BY <1>5 DEF sortvars, lo, up
  <2>2. SortTypeOK' /\ PartsFit(frames', Len(a'))
    BY <2>1 DEF SortInv, SortTypeOK, PartsFit
  <2>3. StaysInside' /\ LosesNothing'
    BY <2>1 DEF SortInv, StaysInside, LosesNothing, Count
  <2>4. order' = "<" => at' # "error"
    BY <2>1 DEF SortInv
  <2>5. order' = "<" => Apart(frames', a')
    BY <2>1 DEF SortInv
  <2>6. order' = "<" => PivotSplits'
    BY <2>1 DEF SortInv, PivotSplits
  <2> QED BY <2>2, <2>3, <2>4, <2>5, <2>6 DEF SortInv
<1> QED BY <1>1, <1>2, <1>3, <1>4, <1>5 DEF SortNext

\* The loop invariants of auxsort() and partition() hold for every array.
LEMMA SortInvariant == SortSpec => []SortInv
BY InitHolds, StepHolds, PTL DEF SortSpec

\* table.sort with an order sorts, whatever the elements, the pivots and the
\* seeds, and never calls the order invalid.
THEOREM SortCorrect == SortSpec => []SortsByAnOrder
<1>1. SortInv => SortsByAnOrder
  <2> SUFFICES ASSUME SortInv, order = "<"
               PROVE  at # "error" /\ (at = "done" => \A k \in 2..Len(a) : a[k - 1] <= a[k])
    BY DEF SortsByAnOrder
  <2>1. at # "error" /\ a \in Seq(Int)
    BY DEF SortInv, SortTypeOK
  <2>2. ASSUME at = "done", NEW k \in 2..Len(a) PROVE a[k - 1] <= a[k]
    <3>1. frames = <<>>
      BY <2>2 DEF SortInv, SortTypeOK
    <3>2. Apart(<<>>, a)
      BY <3>1 DEF SortInv
    <3>3. k - 1 \in DOMAIN a /\ k \in DOMAIN a /\ k - 1 < k
      BY <2>1
    <3> QED BY <3>2, <3>3 DEF Apart
  <2> QED BY <2>1, <2>2
<1> QED BY <1>1, SortInvariant, PTL

-----------------------------------------------------------------------------
(* The depth of the recursion.                                             *)

\* The powers of two are what their definition says.
LEMMA Power2Is ==
  /\ Power2 \in [Nat -> Nat] /\ Power2[0] = 1
  /\ \A n \in Nat : Power2[n + 1] = 2 * Power2[n]
<1> DEFINE G == [x \in Nat \X Nat |-> 2 * x[2]]
<1>1. G \in [Nat \X Nat -> Nat] /\ \A n, x \in Nat : G[<<n, x>>] = 2 * x
  OBVIOUS
<1> HIDE DEF G
<1>0. \E f : Recursive(Nat, 1, G, f)
  <2>1. 1 \in Nat
    OBVIOUS
  <2> QED BY <1>1, <2>1, Recursion
<1>2. PICK f \in [Nat -> Nat] : f[0] = 1 /\ \A n \in Nat : f[n + 1] = G[<<n, f[n]>>]
  BY <1>0 DEF Recursive
<1>3. \A n \in Nat : f[n + 1] = 2 * f[n]
  BY <1>1, <1>2
<1> DEFINE P(g) == g = [k \in Nat |-> IF k = 0 THEN 1 ELSE 2 * g[k - 1]]
<1>4. P(f)
  <2>1. ASSUME NEW k \in Nat PROVE f[k] = IF k = 0 THEN 1 ELSE 2 * f[k - 1]
    <3>1. CASE k = 0
      BY <1>2, <3>1
    <3>2. CASE k # 0
      <4>1. k - 1 \in Nat /\ (k - 1) + 1 = k
        BY <3>2
      <4> QED BY <1>3, <3>2, <4>1
    <3> QED BY <3>1, <3>2
  <2> QED BY <2>1
<1>5. P(Power2)
  <2>1. Power2 = CHOOSE g : P(g)
    BY DEF Power2
  <2> HIDE DEF P
  <2> QED BY <1>4, <2>1
<1>6. \A k \in Nat : Power2[k] = IF k = 0 THEN 1 ELSE 2 * Power2[k - 1]
  BY <1>5
<1>7. Power2[0] = 1
  BY <1>6
<1>8. ASSUME NEW n \in Nat PROVE Power2[n + 1] = 2 * Power2[n]
  <2>1. n + 1 \in Nat /\ n + 1 # 0 /\ (n + 1) - 1 = n
    OBVIOUS
  <2> QED BY <1>6, <2>1
<1>9. \A n \in Nat : Power2[n] \in Nat
  <2> DEFINE S == {n \in Nat : Power2[n] \in Nat}
  <2>1. 0 \in S /\ \A n \in S : n + 1 \in S
    BY <1>7, <1>8
  <2>2. S \in SUBSET Nat
    OBVIOUS
  <2> HIDE DEF S
  <2>3. S = Nat
    BY <2>1, <2>2, SetInduction
  <2> QED BY <2>3 DEF S
<1>10. Power2 = [k \in Nat |-> IF k = 0 THEN 1 ELSE 2 * Power2[k - 1]]
  BY <1>5
<1>11. Power2 = [k \in Nat |-> Power2[k]]
  BY <1>10
<1> QED BY <1>7, <1>8, <1>9, <1>11

\* What at least doubles n times is at least the power of two.
LEMMA Doubling ==
  ASSUME NEW n \in Nat, n >= 1, NEW t \in [1..n -> Nat], t[1] >= 2,
         \A k \in 2..n : t[k] >= 2 * t[k - 1]
  PROVE  t[n] >= Power2[n]
<1> DEFINE S == {m \in Nat : m + 1 <= n => t[m + 1] >= Power2[m + 1]}
<1>1. 0 \in S
  <2>1. 0 \in Nat /\ Power2[0 + 1] = 2 * Power2[0] /\ Power2[0] = 1
    BY Power2Is
  <2> QED BY <2>1
<1>2. ASSUME NEW m \in S PROVE m + 1 \in S
  <2>1. ASSUME (m + 1) + 1 <= n PROVE t[(m + 1) + 1] >= Power2[(m + 1) + 1]
    <3>1. m + 1 \in 1..n /\ (m + 1) + 1 \in 2..n /\ ((m + 1) + 1) - 1 = m + 1 /\ m + 1 <= n
      BY <1>2, <2>1
    <3>2. t[m + 1] >= Power2[m + 1] /\ t[(m + 1) + 1] >= 2 * t[m + 1]
      BY <1>2, <3>1
    <3>3. Power2[(m + 1) + 1] = 2 * Power2[m + 1] /\ Power2[m + 1] \in Nat
      BY <3>1, Power2Is
    <3>4. t[m + 1] \in Nat /\ t[(m + 1) + 1] \in Nat
      BY <3>1
    <3> QED BY <3>2, <3>3, <3>4
  <2> QED BY <2>1
<1>3. S \in SUBSET Nat
  OBVIOUS
<1> HIDE DEF S
<1>4. S = Nat
  BY <1>1, <1>2, <1>3, SetInduction
<1>5. n - 1 \in S /\ (n - 1) + 1 = n
  BY <1>4
<1> QED BY <1>5 DEF S

\* Returning from calls keeps the sizes of the parts that wait.
LEMMA NestedDrop ==
  ASSUME NEW fs \in Seq(Frame), NEW gs \in Seq(Frame), NEW len \in Nat, Nested(fs, len),
         NEW d \in Nat, Len(gs) = Len(fs) - d,
         \A k \in 1..Len(gs) : gs[k].lo = fs[k + d].lo /\ gs[k].up = fs[k + d].up
  PROVE  Nested(gs, len)
<1>1. PICK t \in [DOMAIN fs -> 0..len] : \A k \in DOMAIN fs :
        /\ t[k] >= Size(fs[k])
        /\ k > 1 => t[k] >= t[k - 1] + Size(fs[k]) /\ Size(fs[k]) >= t[k - 1]
  BY DEF Nested
<1>2. DOMAIN fs = 1..Len(fs) /\ DOMAIN gs = 1..Len(gs) /\ Len(fs) \in Nat /\ Len(gs) \in Nat
  OBVIOUS
<1>3. \A k \in 1..Len(gs) : k + d \in 1..Len(fs)
  BY <1>2
<1> DEFINE u == [k \in DOMAIN gs |-> t[k + d]]
<1>4. u \in [DOMAIN gs -> 0..len] /\ \A k \in DOMAIN gs : u[k] = t[k + d]
  BY <1>1, <1>2, <1>3
<1> HIDE DEF u
<1>5. ASSUME NEW k \in DOMAIN gs
      PROVE  /\ u[k] >= Size(gs[k])
             /\ k > 1 => u[k] >= u[k - 1] + Size(gs[k]) /\ Size(gs[k]) >= u[k - 1]
  <2>1. k + d \in DOMAIN fs /\ Size(gs[k]) = Size(fs[k + d]) /\ u[k] = t[k + d]
    BY <1>2, <1>3, <1>4 DEF Size
  <2>2. u[k] >= Size(gs[k])
    BY <1>1, <2>1
  <2>3. ASSUME k > 1 PROVE u[k] >= u[k - 1] + Size(gs[k]) /\ Size(gs[k]) >= u[k - 1]
    <3>1. k - 1 \in DOMAIN gs /\ (k - 1) + d = (k + d) - 1 /\ k + d > 1
      BY <1>2, <2>3
    <3>2. u[k - 1] = t[(k + d) - 1]
      BY <1>4, <3>1
    <3> QED BY <1>1, <2>1, <3>1, <3>2
  <2> QED BY <2>2, <2>3
<1> QED BY <1>4, <1>5 DEF Nested

\* Of the two sides of the pivot the smaller is sorted by a call.
LEMMA NestedSplit ==
  ASSUME NEW fs \in Seq(Frame), fs # <<>>, NEW len \in Nat, Nested(fs, len),
         NEW sub \in Frame, NEW other \in Frame,
         Size(sub) >= 0, Size(other) >= Size(sub), Size(fs[1]) >= Size(sub) + Size(other)
  PROVE  Nested(<<sub, other>> \o Tail(fs), len)
<1> DEFINE gs == <<sub, other>> \o Tail(fs)
<1>1. PICK t \in [DOMAIN fs -> 0..len] : \A k \in DOMAIN fs :
        /\ t[k] >= Size(fs[k])
        /\ k > 1 => t[k] >= t[k - 1] + Size(fs[k]) /\ Size(fs[k]) >= t[k - 1]
  BY DEF Nested
<1>2. /\ gs \in Seq(Frame) /\ Len(gs) = Len(fs) + 1 /\ gs[1] = sub /\ gs[2] = other
      /\ \A k \in 3..Len(gs) : k - 1 \in 2..Len(fs) /\ gs[k] = fs[k - 1]
  BY SplitCalls
<1> HIDE DEF gs
<1>3. DOMAIN fs = 1..Len(fs) /\ DOMAIN gs = 1..(Len(fs) + 1) /\ Len(fs) \in Nat \ {0}
  BY <1>2
<1>4. Size(sub) \in Int /\ Size(other) \in Int /\ \A k \in DOMAIN fs : Size(fs[k]) \in Int
  <2>1. \A f \in Frame : Size(f) \in Int
    BY DEF Frame, Size
  <2> QED BY <2>1
<1>5. t[1] \in 0..len /\ t[1] >= Size(fs[1]) /\ Size(fs[1]) \in Int
  BY <1>1, <1>3, <1>4
<1> DEFINE u == [k \in DOMAIN gs |-> IF k = 1 THEN Size(sub) ELSE t[k - 1]]
<1>6. Size(sub) \in 0..len
  BY <1>4, <1>5
<1>7. ASSUME NEW k \in DOMAIN gs, k # 1 PROVE k - 1 \in DOMAIN fs /\ t[k - 1] \in 0..len
  BY <1>3, <1>7
<1>8. u \in [DOMAIN gs -> 0..len] /\ \A k \in DOMAIN gs : u[k] = IF k = 1 THEN Size(sub) ELSE t[k - 1]
  BY <1>6, <1>7
<1> HIDE DEF u
<1>9. ASSUME NEW k \in DOMAIN gs
      PROVE  /\ u[k] >= Size(gs[k])
             /\ k > 1 => u[k] >= u[k - 1] + Size(gs[k]) /\ Size(gs[k]) >= u[k - 1]
  <2>1. CASE k = 1
    <3>1. u[1] = Size(sub) /\ gs[1] = sub
      BY <1>2, <1>8, <2>1
    <3> QED BY <1>4, <2>1, <3>1
  <2>2. CASE k = 2
    <3>1. u[1] = Size(sub) /\ u[2] = t[1] /\ gs[2] = other
      <4>1. 1 \in DOMAIN gs /\ 2 \in DOMAIN gs /\ 2 # 1 /\ 2 - 1 = 1
        BY <1>3
      <4> QED BY <1>2, <1>8, <4>1
    <3>2. t[1] >= Size(sub) + Size(other) /\ t[1] >= Size(other)
      BY <1>4, <1>5
    <3> QED BY <1>4, <2>2, <3>1, <3>2
  <2>3. CASE k # 1 /\ k # 2
    <3>1. k - 1 \in DOMAIN fs /\ k - 1 > 1 /\ k - 1 \in DOMAIN gs /\ k \in 3..Len(gs) /\ k - 1 # 1
      BY <1>2, <1>3, <2>3
    <3>2. gs[k] = fs[k - 1] /\ u[k] = t[k - 1] /\ u[k - 1] = t[(k - 1) - 1]
      BY <1>2, <1>8, <2>3, <3>1
    <3> QED BY <1>1, <3>1, <3>2
  <2> QED BY <2>1, <2>2, <2>3
<1> QED BY <1>8, <1>9 DEF Nested, gs
\* Calls with nothing left return.
LEMMA ResumedNested ==
  ASSUME NEW fs \in Seq(Frame), NEW len \in Nat, Nested(fs, len), NEW seed \in Seeds
  PROVE  Nested(auxsort(fs, seed), len)
<1>1. CASE \A k \in DOMAIN fs : ~ (fs[k].lo < fs[k].up)
  <2>1. auxsort(fs, seed) = <<>>
    BY <1>1 DEF auxsort
  <2> DEFINE e == <<>>
             t == [k \in DOMAIN e |-> 0]
  <2>2. DOMAIN e = {} /\ t \in [DOMAIN e -> 0..len]
    OBVIOUS
  <2> HIDE DEF e, t
  <2>3. Nested(e, len)
    BY <2>2 DEF Nested
  <2> QED BY <2>1, <2>3 DEF e
<1>2. CASE \E k \in DOMAIN fs : fs[k].lo < fs[k].up
  <2> DEFINE r == auxsort(fs, seed)
  <2>1. PICK d \in 0..(Len(fs) - 1) : Resumes(fs, r, d)
    BY <1>2, ResumedCalls
  <2> HIDE DEF r
  <2>2. /\ r \in Seq(Frame) /\ Len(r) = Len(fs) - d /\ d \in Nat
        /\ \A k \in 1..Len(r) : r[k].lo = fs[k + d].lo /\ r[k].up = fs[k + d].up
    BY <2>1 DEF Resumes
  <2>3. Nested(r, len)
    BY <2>2, NestedDrop
  <2> QED BY <2>3 DEF r
<1> QED BY <1>1, <1>2

\* A call returns.
LEMMA TailNested ==
  ASSUME NEW fs \in Seq(Frame), fs # <<>>, NEW len \in Nat, Nested(fs, len)
  PROVE  Nested(Tail(fs), len)
<1> DEFINE ts == Tail(fs)
<1>1. ts \in Seq(Frame) /\ Len(ts) = Len(fs) - 1 /\ \A k \in 1..Len(ts) : ts[k] = fs[k + 1]
  BY HeadTailProperties
<1> HIDE DEF ts
<1>2. \A k \in 1..Len(ts) : ts[k].lo = fs[k + 1].lo /\ ts[k].up = fs[k + 1].up
  BY <1>1
<1>3. Nested(ts, len)
  BY <1>1, <1>2, NestedDrop
<1> QED BY <1>3 DEF ts

\* The smaller side is sorted by a call, the other by the loop.
LEMMA SmallerNested ==
  ASSUME SortInv, frames # <<>>, Nested(frames, Len(a)),
         NEW q \in Nat, lo <= q, q <= up, Smaller(q)
  PROVE  Nested(frames', Len(a))
<1> DEFINE f     == frames[1]
           left  == q - f.lo < f.up - q
           sub   == IF left THEN [f EXCEPT !.up = q - 1] ELSE [f EXCEPT !.lo = q + 1]
           other == IF left THEN [f EXCEPT !.lo = q + 1, !.n = q - f.lo] ELSE [f EXCEPT !.up = q - 1, !.n = f.up - q]
           gs    == <<sub, other>> \o Tail(frames)
           hs    == <<other>> \o Tail(frames)
<1>1. /\ lo \in Nat /\ up \in Nat /\ 1 <= lo /\ f \in Frame /\ f.lo = lo /\ f.up = up /\ Len(a) \in Nat
      /\ frames \in Seq(Frame)
  BY CurrentPart DEF SortInv, SortTypeOK
<1>2. /\ sub \in Frame /\ other \in Frame
      /\ Size(sub) >= 0 /\ Size(other) >= Size(sub) /\ Size(f) >= Size(sub) + Size(other)
  <2>1. q - 1 \in Nat /\ q + 1 \in Nat /\ q - f.lo \in Int /\ f.up - q \in Int
    BY <1>1
  <2> HIDE DEF f
  <2>2. CASE left
    <3>1. sub = [f EXCEPT !.up = q - 1] /\ other = [f EXCEPT !.lo = q + 1, !.n = q - f.lo]
      BY <2>2
    <3> HIDE DEF sub, other
    <3>2. sub \in Frame /\ sub.lo = lo /\ sub.up = q - 1 /\ other \in Frame /\ other.lo = q + 1 /\ other.up = up
      BY <1>1, <2>1, <3>1 DEF Frame
    <3> QED BY <1>1, <2>2, <3>2 DEF Size
  <2>3. CASE ~left
    <3>1. sub = [f EXCEPT !.lo = q + 1] /\ other = [f EXCEPT !.up = q - 1, !.n = f.up - q]
      BY <2>3
    <3> HIDE DEF sub, other
    <3>2. sub \in Frame /\ sub.lo = q + 1 /\ sub.up = up /\ other \in Frame /\ other.lo = lo /\ other.up = q - 1
      BY <1>1, <2>1, <3>1 DEF Frame
    <3> QED BY <1>1, <2>3, <3>2 DEF Size
  <2> QED BY <2>2, <2>3
<1>3. PICK seed \in Seeds : Begin(IF sub.lo < sub.up THEN gs ELSE auxsort(hs, seed))
  BY DEF Smaller
<1> HIDE DEF sub, other, left
<1>4. Nested(gs, Len(a))
  BY <1>1, <1>2, NestedSplit DEF f
<1>5. gs \in Seq(Frame) /\ gs # <<>> /\ Tail(gs) = hs /\ hs \in Seq(Frame)
  <2>1. gs \in Seq(Frame) /\ Len(gs) = Len(frames) + 1 /\ Tail(gs) = hs
    BY <1>1, <1>2, SplitCalls
  <2> HIDE DEF gs, hs
  <2>2. gs # <<>>
    BY <1>1, <2>1
  <2> QED BY <2>1, <2>2, HeadTailProperties
<1> HIDE DEF gs, hs
<1>6. Nested(hs, Len(a))
  BY <1>1, <1>4, <1>5, TailNested
<1>7. Nested(auxsort(hs, seed), Len(a))
  BY <1>1, <1>5, <1>6, ResumedNested
<1> QED BY <1>3, <1>4, <1>7 DEF Begin

\* Every step keeps the sizes of the parts that wait.
LEMMA NestedStep == SortInv /\ Nested(frames, Len(a)) /\ [SortNext]_sortvars => Nested(frames, Len(a))'
<1> SUFFICES ASSUME SortInv, Nested(frames, Len(a)), [SortNext]_sortvars
             PROVE  Nested(frames', Len(a'))
  BY DEF Nested
<1>1. SortInv' /\ frames \in Seq(Frame) /\ Len(a) \in Nat
  BY StepHolds DEF SortInv, SortTypeOK
<1>2. Len(a') = Len(a)
  BY <1>1 DEF SortInv, SortTypeOK, SortNext, sortvars
<1>3. ASSUME Back, frames # <<>> PROVE Nested(frames', Len(a))
  <2>1. PICK seed \in Seeds : frames' = auxsort(Tail(frames), seed)
    BY <1>3 DEF Back, Begin
  <2>2. Tail(frames) \in Seq(Frame) /\ Nested(Tail(frames), Len(a))
    BY <1>1, <1>3, HeadTailProperties, TailNested
  <2> QED BY <1>1, <2>1, <2>2, ResumedNested
<1>4. ASSUME at # "done", at # "idle" PROVE frames # <<>>
  BY <1>4 DEF SortInv, SortTypeOK
<1>5. CASE Ends
  <2>1. Back \/ frames' = frames
    BY <1>5 DEF Ends, Stays
  <2> QED BY <1>2, <1>3, <1>4, <1>5, <2>1 DEF Ends
<1>6. CASE Low \/ High
  <2>1. (Back \/ frames' = frames) /\ at \in {"low", "high"}
    BY <1>6 DEF Low, High, Pivoted, Stays
  <2> QED BY <1>2, <1>3, <1>4, <2>1
<1>7. CASE partition
  <2>1. (at = "right" /\ Smaller(i)) \/ frames' = frames
    BY <1>7 DEF partition, Stays, InvalidOrder
  <2>2. ASSUME at = "right", Smaller(i) PROVE Nested(frames', Len(a))
    <3>1. frames # <<>> /\ lo < i /\ i < up /\ i \in Int
      BY <1>4, <2>2 DEF SortInv, SortTypeOK, StaysInside
    <3>2. i \in Nat /\ lo <= i /\ i <= up
      BY <3>1, CurrentPart
    <3> QED BY <2>2, <3>1, <3>2, SmallerNested
  <2> QED BY <1>2, <2>1, <2>2
<1>8. CASE UNCHANGED sortvars
  BY <1>8 DEF sortvars
<1> QED BY <1>5, <1>6, <1>7, <1>8 DEF SortNext

\* One part is not nested in any.
LEMMA NestedInit == sort => Nested(frames, Len(a))
<1> SUFFICES ASSUME sort PROVE Nested(frames, Len(a))
  OBVIOUS
<1>1. a \in Seq(Int) /\ Len(a) \in Nat
  BY InitHolds DEF SortInv, SortTypeOK
<1> DEFINE f == [lo |-> 1, up |-> Len(a), rnd |-> 0, n |-> 0]
           t == [k \in DOMAIN frames |-> Len(a)]
<1>2. t \in [DOMAIN frames -> 0..Len(a)]
  BY <1>1
<1>3. frames = <<f>> \/ frames = <<>>
  BY DEF sort
<1>4. Size(f) = Len(a)
  BY <1>1 DEF Size
<1> HIDE DEF f
<1>5. \A k \in DOMAIN frames : k = 1 /\ frames[k] = f
  BY <1>3
<1>6. \A k \in DOMAIN frames : t[k] >= Size(frames[k]) /\ ~ (k > 1)
  BY <1>1, <1>4, <1>5
<1> QED BY <1>2, <1>6 DEF Nested

\* Parts that double in size are no more than the logarithm.
LEMMA NestedIsShallow == SortInv /\ Nested(frames, Len(a)) => IsShallow
<1> SUFFICES ASSUME SortInv, Nested(frames, Len(a)), frames # <<>>
             PROVE  Power2[Len(frames)] <= Len(a)
  BY DEF IsShallow
<1>1. PICK t \in [DOMAIN frames -> 0..Len(a)] : \A k \in DOMAIN frames :
        /\ t[k] >= Size(frames[k])
        /\ k > 1 => t[k] >= t[k - 1] + Size(frames[k]) /\ Size(frames[k]) >= t[k - 1]
  BY DEF Nested
<1> DEFINE n == Len(frames)
<1>2. frames \in Seq(Frame) /\ DOMAIN frames = 1..n /\ n \in Nat /\ n >= 1 /\ Len(a) \in Nat
  BY DEF SortInv, SortTypeOK
<1>3. t \in [1..n -> Nat]
  BY <1>1, <1>2
<1>4. \A k \in 1..n : Size(frames[k]) \in Int
  <2>1. \A f \in Frame : Size(f) \in Int
    BY DEF Frame, Size
  <2> QED BY <1>2, <2>1
<1>5. t[1] >= 2
  <2>1. Size(frames[1]) = up - lo + 1 /\ lo \in Nat /\ up \in Nat /\ lo < up
    BY CurrentPart DEF Size
  <2>2. t[1] \in Nat /\ t[1] >= Size(frames[1])
    BY <1>1, <1>2, <1>3
  <2> QED BY <2>1, <2>2
<1>6. ASSUME NEW k \in 2..n PROVE t[k] >= 2 * t[k - 1]
  <2>1. k \in 1..n /\ k - 1 \in 1..n /\ k > 1
    BY <1>2
  <2>2. t[k] \in Nat /\ t[k - 1] \in Nat /\ Size(frames[k]) \in Int
    BY <1>3, <1>4, <2>1
  <2>3. t[k] >= t[k - 1] + Size(frames[k]) /\ Size(frames[k]) >= t[k - 1]
    BY <1>1, <1>2, <2>1
  <2> QED BY <2>2, <2>3
<1> HIDE DEF n
<1>7. t[n] >= Power2[n]
  BY <1>2, <1>3, <1>5, <1>6, Doubling
<1>8. t[n] \in 0..Len(a) /\ Power2[n] \in Nat
  BY <1>1, <1>2, Power2Is
<1> QED BY <1>2, <1>7, <1>8 DEF n

\* All that a run checks of sort, for every array: whatever the order function
\* answers, the array keeps its elements, no element beyond the part being
\* sorted is compared and the C stack grows with the logarithm only; and an
\* order sorts.
THEOREM SortSafety == SortSpec => []SortIsSafe
<1>1. SortInv /\ Nested(frames, Len(a)) /\ [SortNext]_sortvars => (SortInv /\ Nested(frames, Len(a)))'
  BY StepHolds, NestedStep
<1>2. SortSpec => [](SortInv /\ Nested(frames, Len(a)))
  BY <1>1, InitHolds, NestedInit, PTL DEF SortSpec
<1>3. SortSpec => [](LosesNothing /\ StaysInside /\ IsShallow)
  BY <1>2, NestedIsShallow, PTL DEF SortInv
<1> QED BY <1>3, SortCorrect, PTL DEF SortIsSafe
=============================================================================
