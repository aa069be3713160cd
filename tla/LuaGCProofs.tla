------------------------------ MODULE LuaGCProofs ------------------------------
(***************************************************************************)
(* Theorems about the garbage collector, for any objects, programs and     *)
(* bounds: no object a program can get at is freed, the marks, the lists   *)
(* and the sweep keep their invariants, and weak tables lose only what is  *)
(* dead.                                                                   *)
(***************************************************************************)
EXTENDS LuaGC, NatFacts, FiniteSetTheorems, SequenceTheorems

-----------------------------------------------------------------------------
(* Lists.                                                                  *)

\* w is what is left of the first n members of s without those in S; h says
\* where they were.
Thins(w, s, n, S, h) ==
    /\ h \in [DOMAIN w -> 1..n]
    /\ \A k \in DOMAIN w : w[k] = s[h[k]] /\ w[k] \notin S
    /\ \A k, l \in DOMAIN w : k < l => h[k] < h[l]
    /\ \A j \in 1..n : s[j] \notin S => \E k \in DOMAIN w : h[k] = j

\* Without() takes the members of a list one by one.
LEMMA WithoutSteps ==
  ASSUME NEW T, NEW s \in Seq(T), NEW S
  PROVE  Without(s, S) \in Seq(T) /\ \E h : Thins(Without(s, S), s, Len(s), S, h)
<1> DEFINE U == T \union {s[n] : n \in Nat}
           A == Seq(U)
           G == [x \in Nat \X A |-> IF s[x[1] + 1] \in S THEN x[2] ELSE Append(x[2], s[x[1] + 1])]
           P(g) == g = [n \in Nat |-> IF n = 0 THEN << >>
                                      ELSE IF s[n] \in S THEN g[n - 1]
                                      ELSE Append(g[n - 1], s[n])]
           rest == CHOOSE g : P(g)
           e == << >>
<1>1. e \in A /\ Len(e) = 0 /\ DOMAIN e = {}
  OBVIOUS
<1>2. G \in [Nat \X A -> A]
  <2>1. ASSUME NEW n \in Nat, NEW x \in A PROVE Append(x, s[n + 1]) \in A
    <3>1. n + 1 \in Nat
      OBVIOUS
    <3>2. s[n + 1] \in U
      BY <3>1
    <3> HIDE DEF U
    <3> QED BY <3>2
  <2> HIDE DEF A
  <2> QED BY <2>1
<1>3. \A n \in Nat, x \in A : G[<<n, x>>] = IF s[n + 1] \in S THEN x ELSE Append(x, s[n + 1])
  <2> HIDE DEF A
  <2> QED OBVIOUS
<1>4. PICK f : Recursive(A, e, G, f)
  <2> HIDE DEF A, G, e
  <2> QED BY <1>1, <1>2, Recursion
<1>5. f \in [Nat -> A] /\ f[0] = e
      /\ \A n \in Nat : f[n + 1] = IF s[n + 1] \in S THEN f[n] ELSE Append(f[n], s[n + 1])
  <2> HIDE DEF A, G, e
  <2> QED BY <1>3, <1>4 DEF Recursive
<1> HIDE DEF A, G
<1>6. P(f)
  <2>1. ASSUME NEW n \in Nat
        PROVE f[n] = IF n = 0 THEN << >> ELSE IF s[n] \in S THEN f[n - 1] ELSE Append(f[n - 1], s[n])
    <3>1. CASE n = 0
      BY <1>5, <3>1
    <3>2. CASE n # 0
      <4>1. n - 1 \in Nat /\ (n - 1) + 1 = n
        BY <3>2
      <4>2. f[(n - 1) + 1] = IF s[(n - 1) + 1] \in S THEN f[n - 1] ELSE Append(f[n - 1], s[(n - 1) + 1])
        BY <1>5, <4>1
      <4> QED BY <3>2, <4>1, <4>2
    <3> QED BY <3>1, <3>2
  <2> QED BY <1>5, <2>1
<1>7. P(rest)
  <2> HIDE DEF P
  <2> QED BY <1>6
<1> HIDE DEF rest
<1>8. rest[0] = e /\ \A n \in Nat : rest[n + 1] = IF s[n + 1] \in S THEN rest[n] ELSE Append(rest[n], s[n + 1])
  <2>1. \A n \in Nat : rest[n] = IF n = 0 THEN << >> ELSE IF s[n] \in S THEN rest[n - 1] ELSE Append(rest[n - 1], s[n])
    BY <1>7
  <2>2. ASSUME NEW n \in Nat PROVE rest[n + 1] = IF s[n + 1] \in S THEN rest[n] ELSE Append(rest[n], s[n + 1])
    <3>1. n + 1 \in Nat /\ n + 1 # 0 /\ (n + 1) - 1 = n
      OBVIOUS
    <3> QED BY <2>1, <3>1
  <2> QED BY <2>1, <2>2
<1> HIDE DEF P, e
<1> DEFINE Q == {n \in Nat : n <= Len(s) => rest[n] \in Seq(T) /\ \E h : Thins(rest[n], s, n, S, h)}
<1>9. 0 \in Q
  <2>1. Thins(e, s, 0, S, e)
    BY <1>1 DEF Thins, e
  <2>2. e \in Seq(T)
    BY DEF e
  <2> QED BY <1>8, <2>1, <2>2
<1>10. ASSUME NEW n \in Q PROVE n + 1 \in Q
  <2> SUFFICES ASSUME n + 1 <= Len(s)
               PROVE  rest[n + 1] \in Seq(T) /\ \E h : Thins(rest[n + 1], s, n + 1, S, h)
    OBVIOUS
  <2>1. n \in Nat /\ n + 1 \in 1..Len(s) /\ n <= Len(s)
    OBVIOUS
  <2>2. PICK h : Thins(rest[n], s, n, S, h)
    BY <2>1
  <2>3. rest[n] \in Seq(T) /\ s[n + 1] \in T
    BY <2>1
  <2> DEFINE r == rest[n]
  <2> HIDE DEF r
  <2>4. CASE s[n + 1] \in S
    <3>1. rest[n + 1] = r
      BY <1>8, <2>1, <2>4 DEF r
    <3>2. Thins(r, s, n, S, h) /\ r \in Seq(T)
      BY <2>2, <2>3 DEF r
    <3>3. Thins(r, s, n + 1, S, h)
      <4>1. 1..n \subseteq 1..(n + 1) /\ \A j \in 1..(n + 1) : j \in 1..n \/ j = n + 1
        BY <2>1
      <4> QED BY <2>4, <3>2, <4>1 DEF Thins
    <3> QED BY <3>1, <3>2, <3>3
  <2>5. CASE s[n + 1] \notin S
    <3>1. rest[n + 1] = Append(r, s[n + 1])
      BY <1>8, <2>1, <2>5 DEF r
    <3>2. Thins(r, s, n, S, h) /\ r \in Seq(T)
      BY <2>2, <2>3 DEF r
    <3> DEFINE t == Append(r, s[n + 1])
               m == Len(r) + 1
               g == [k \in DOMAIN t |-> IF k = m THEN n + 1 ELSE h[k]]
    <3>3. /\ t \in Seq(T) /\ Len(t) = m /\ m \in Nat /\ DOMAIN t = 1..m /\ t[m] = s[n + 1]
          /\ \A k \in DOMAIN r : t[k] = r[k]
      BY <2>3, <3>2
    <3>4. \A k \in DOMAIN t : k = m \/ (k \in DOMAIN r /\ k < m)
      BY <3>2, <3>3
    <3>5. DOMAIN r \subseteq DOMAIN t /\ m \in DOMAIN t /\ \A k \in DOMAIN r : k # m
      BY <3>2, <3>3
    <3> HIDE DEF t, m
    <3>6. /\ \A k \in DOMAIN r : g[k] = h[k]
          /\ g[m] = n + 1
      BY <3>5
    <3> HIDE DEF g
    <3>7. \A k \in DOMAIN r : h[k] \in 1..n /\ r[k] = s[h[k]] /\ r[k] \notin S
      BY <3>2 DEF Thins
    <3>8. g \in [DOMAIN t -> 1..(n + 1)]
      <4>1. \A k \in DOMAIN t : (IF k = m THEN n + 1 ELSE h[k]) \in 1..(n + 1)
        BY <2>1, <3>4, <3>7
      <4> QED BY <4>1 DEF g
    <3>9. \A k \in DOMAIN t : t[k] = s[g[k]] /\ t[k] \notin S
      BY <2>5, <3>3, <3>4, <3>6, <3>7
    <3>10. ASSUME NEW k \in DOMAIN t, NEW l \in DOMAIN t, k < l PROVE g[k] < g[l]
      <4>1. k \in Nat /\ l \in Nat
        BY <3>3
      <4>2. k \in DOMAIN r
        BY <3>3, <3>4, <3>10, <4>1
      <4>3. CASE l = m
        BY <2>1, <3>6, <3>7, <4>2, <4>3
      <4>4. CASE l \in DOMAIN r
        <5>1. h[k] < h[l]
          BY <3>2, <3>10, <4>2, <4>4 DEF Thins
        <5> QED BY <3>6, <4>2, <4>4, <5>1
      <4> QED BY <3>4, <4>3, <4>4
    <3>11. ASSUME NEW j \in 1..(n + 1), s[j] \notin S PROVE \E k \in DOMAIN t : g[k] = j
      <4>1. CASE j = n + 1
        BY <3>5, <3>6, <4>1
      <4>2. CASE j # n + 1
        <5>1. j \in 1..n
          BY <2>1, <4>2
        <5>2. PICK k \in DOMAIN r : h[k] = j
          BY <3>2, <3>11, <5>1 DEF Thins
        <5> QED BY <3>5, <3>6, <5>2
      <4> QED BY <4>1, <4>2
    <3>12. Thins(t, s, n + 1, S, g)
      BY <3>8, <3>9, <3>10, <3>11 DEF Thins
    <3>13. rest[n + 1] = t
      BY <3>1 DEF t
    <3> QED BY <3>3, <3>12, <3>13
  <2> QED BY <2>4, <2>5
<1>11. Q \in SUBSET Nat
  OBVIOUS
<1> HIDE DEF Q
<1>12. Q = Nat
  BY <1>9, <1>10, <1>11, SetInduction
<1>13. Len(s) \in Q /\ Len(s) <= Len(s)
  BY <1>12
<1>14. rest[Len(s)] \in Seq(T) /\ \E h : Thins(rest[Len(s)], s, Len(s), S, h)
  BY <1>13 DEF Q
<1>15. Without(s, S) = rest[Len(s)]
  BY DEF Without, rest, P
<1> QED BY <1>14, <1>15

\* The list keeps the other members, once and in their order.
LEMMA WithoutIs ==
  ASSUME NEW T, NEW s \in Seq(T), NEW S
  PROVE  /\ Without(s, S) \in Seq(T)
         /\ Range(Without(s, S)) = Range(s) \ S
         /\ IsInjective(s) => IsInjective(Without(s, S))
         /\ \A x : Through(Without(s, S), x) \subseteq Through(s, x)
<1> DEFINE w == Without(s, S)
<1>1. w \in Seq(T)
  BY WithoutSteps
<1>2. PICK h : Thins(w, s, Len(s), S, h)
  BY WithoutSteps
<1> HIDE DEF w
<1>3. DOMAIN s = 1..Len(s) /\ DOMAIN w = 1..Len(w) /\ Len(w) \in Nat /\ Len(s) \in Nat
  BY <1>1
<1>4. \A k \in DOMAIN w : h[k] \in DOMAIN s /\ w[k] = s[h[k]] /\ w[k] \notin S
  BY <1>2, <1>3 DEF Thins
<1>5. Range(w) = Range(s) \ S
  <2>1. ASSUME NEW x \in Range(w) PROVE x \in Range(s) \ S
    <3>1. PICK k \in DOMAIN w : x = w[k]
      BY DEF Range
    <3> QED BY <1>4, <3>1 DEF Range
  <2>2. ASSUME NEW x \in Range(s) \ S PROVE x \in Range(w)
    <3>1. PICK j \in DOMAIN s : x = s[j]
      BY DEF Range
    <3>2. PICK k \in DOMAIN w : h[k] = j
      BY <1>2, <1>3, <3>1 DEF Thins
    <3> QED BY <1>4, <3>1, <3>2 DEF Range
  <2> QED BY <2>1, <2>2
<1>6. ASSUME NEW k \in DOMAIN w, NEW l \in DOMAIN w, k <= l PROVE h[k] <= h[l]
  <2>1. h[k] \in Nat /\ h[l] \in Nat /\ k \in Nat /\ l \in Nat
    BY <1>3, <1>4
  <2>2. k < l => h[k] < h[l]
    BY <1>2 DEF Thins
  <2> QED BY <1>6, <2>1, <2>2
<1>7. ASSUME IsInjective(s) PROVE IsInjective(w)
  <2> SUFFICES ASSUME NEW k \in DOMAIN w, NEW l \in DOMAIN w, w[k] = w[l] PROVE k = l
    BY DEF IsInjective
  <2>1. h[k] = h[l]
    BY <1>4, <1>7 DEF IsInjective
  <2>2. ~ (k < l) /\ ~ (l < k)
    <3>1. h[k] \in Nat /\ h[l] \in Nat
      BY <1>3, <1>4
    <3>2. (k < l => h[k] < h[l]) /\ (l < k => h[l] < h[k])
      BY <1>2 DEF Thins
    <3> QED BY <2>1, <3>1, <3>2
  <2>3. k \in Nat /\ l \in Nat
    BY <1>3
  <2> QED BY <2>2, <2>3
<1>8. ASSUME NEW x, NEW y \in Through(w, x) PROVE y \in Through(s, x)
  <2>1. PICK j \in DOMAIN w : y = w[j] /\ \E k \in DOMAIN w : w[k] = x /\ j <= k
    BY DEF Through
  <2>2. PICK k \in DOMAIN w : w[k] = x /\ j <= k
    BY <2>1
  <2>3. h[j] <= h[k] /\ s[h[k]] = x /\ y = s[h[j]] /\ h[j] \in DOMAIN s /\ h[k] \in DOMAIN s
    BY <1>4, <1>6, <2>1, <2>2
  <2> QED BY <2>3 DEF Through
<1> QED BY <1>1, <1>5, <1>7, <1>8 DEF w

\* Linking an object at the head of a list.
LEMMA LinkIs ==
  ASSUME NEW T, NEW s \in Seq(T), NEW o \in T
  PROVE  /\ <<o>> \o s \in Seq(T)
         /\ Range(<<o>> \o s) = {o} \union Range(s)
         /\ IsInjective(s) /\ o \notin Range(s) => IsInjective(<<o>> \o s)
         /\ \A x : Through(<<o>> \o s, x) \subseteq {o} \union Through(s, x)
<1> DEFINE t == <<o>> \o s
<1>1. /\ t \in Seq(T) /\ Len(t) = Len(s) + 1 /\ t[1] = o
      /\ \A k \in 1..Len(s) : t[k + 1] = s[k]
  OBVIOUS
<1> HIDE DEF t
<1>2. DOMAIN s = 1..Len(s) /\ DOMAIN t = 1..(Len(s) + 1) /\ Len(s) \in Nat
  BY <1>1
<1>3. \A k \in DOMAIN t : k = 1 \/ (k - 1 \in DOMAIN s /\ t[k] = s[k - 1])
  <2> TAKE k \in DOMAIN t
  <2>1. k # 1 => k - 1 \in 1..Len(s) /\ (k - 1) + 1 = k
    BY <1>2
  <2> QED BY <1>1, <1>2, <2>1
<1>4. Range(t) = {o} \union Range(s)
  <2>1. ASSUME NEW x \in Range(t) PROVE x \in {o} \union Range(s)
    BY <1>1, <1>3 DEF Range
  <2>2. o \in Range(t)
    <3>1. 1 \in DOMAIN t
      BY <1>2
    <3> QED BY <1>1, <3>1 DEF Range
  <2>3. ASSUME NEW x \in Range(s) PROVE x \in Range(t)
    <3>1. PICK k \in DOMAIN s : x = s[k]
      BY DEF Range
    <3>2. k + 1 \in DOMAIN t /\ t[k + 1] = s[k]
      BY <1>1, <1>2
    <3> QED BY <3>1, <3>2 DEF Range
  <2> QED BY <2>1, <2>2, <2>3
<1>5. ASSUME IsInjective(s), o \notin Range(s) PROVE IsInjective(t)
  <2> SUFFICES ASSUME NEW k \in DOMAIN t, NEW l \in DOMAIN t, t[k] = t[l] PROVE k = l
    BY DEF IsInjective
  <2>1. \A j \in DOMAIN s : s[j] # o
    BY <1>5 DEF Range
  <2>2. CASE k = 1 \/ l = 1
    BY <1>1, <1>3, <2>1, <2>2
  <2>3. CASE k # 1 /\ l # 1
    <3>1. k - 1 = l - 1
      BY <1>3, <1>5, <2>3 DEF IsInjective
    <3> QED BY <1>2, <3>1
  <2> QED BY <2>2, <2>3
<1>6. ASSUME NEW x, NEW y \in Through(t, x) PROVE y = o \/ y \in Through(s, x)
  <2>1. PICK j \in DOMAIN t : y = t[j] /\ \E k \in DOMAIN t : t[k] = x /\ j <= k
    BY DEF Through
  <2>2. PICK k \in DOMAIN t : t[k] = x /\ j <= k
    BY <2>1
  <2>3. CASE j = 1
    BY <1>1, <2>1, <2>3
  <2>4. CASE j # 1
    <3>1. k # 1
      BY <1>2, <2>2, <2>4
    <3>2. j - 1 \in DOMAIN s /\ k - 1 \in DOMAIN s /\ t[j] = s[j - 1] /\ t[k] = s[k - 1]
      BY <1>3, <2>4, <3>1
    <3>3. j - 1 <= k - 1
      BY <1>2, <2>2
    <3> QED BY <2>1, <2>2, <3>2, <3>3 DEF Through
  <2> QED BY <2>3, <2>4
<1> QED BY <1>1, <1>4, <1>5, <1>6 DEF t

\* One list at the end of another.
LEMMA AppendIs ==
  ASSUME NEW T, NEW s \in Seq(T), NEW t \in Seq(T)
  PROVE  /\ s \o t \in Seq(T)
         /\ Range(s \o t) = Range(s) \union Range(t)
         /\ IsInjective(s) /\ IsInjective(t) /\ Range(s) \intersect Range(t) = {} => IsInjective(s \o t)
<1> DEFINE u == s \o t
<1>1. /\ u \in Seq(T) /\ Len(u) = Len(s) + Len(t) /\ Len(s) \in Nat /\ Len(t) \in Nat
      /\ \A k \in 1..Len(s) : u[k] = s[k]
      /\ \A k \in 1..Len(t) : u[k + Len(s)] = t[k]
  OBVIOUS
<1> HIDE DEF u
<1>2. DOMAIN s = 1..Len(s) /\ DOMAIN t = 1..Len(t) /\ DOMAIN u = 1..(Len(s) + Len(t))
  BY <1>1
<1>3. \A k \in DOMAIN u : \/ k \in DOMAIN s /\ u[k] = s[k]
                          \/ k - Len(s) \in DOMAIN t /\ u[k] = t[k - Len(s)]
  <2> TAKE k \in DOMAIN u
  <2>1. k \notin DOMAIN s => k - Len(s) \in 1..Len(t) /\ (k - Len(s)) + Len(s) = k
    BY <1>1, <1>2
  <2> QED BY <1>1, <1>2, <2>1
<1>4. Range(u) = Range(s) \union Range(t)
  <2>1. ASSUME NEW x \in Range(u) PROVE x \in Range(s) \union Range(t)
    BY <1>3 DEF Range
  <2>2. ASSUME NEW x \in Range(s) PROVE x \in Range(u)
    <3>1. PICK k \in DOMAIN s : x = s[k]
      BY DEF Range
    <3>2. k \in DOMAIN u /\ u[k] = s[k]
      BY <1>1, <1>2
    <3> QED BY <3>1, <3>2 DEF Range
  <2>3. ASSUME NEW x \in Range(t) PROVE x \in Range(u)
    <3>1. PICK k \in DOMAIN t : x = t[k]
      BY DEF Range
    <3>2. k + Len(s) \in DOMAIN u /\ u[k + Len(s)] = t[k]
      BY <1>1, <1>2
    <3> QED BY <3>1, <3>2 DEF Range
  <2> QED BY <2>1, <2>2, <2>3
<1>5. ASSUME IsInjective(s), IsInjective(t), Range(s) \intersect Range(t) = {} PROVE IsInjective(u)
  <2> SUFFICES ASSUME NEW k \in DOMAIN u, NEW l \in DOMAIN u, u[k] = u[l] PROVE k = l
    BY DEF IsInjective
  <2>1. \A i \in DOMAIN s, j \in DOMAIN t : s[i] # t[j]
    BY <1>5 DEF Range
  <2>2. CASE k \in DOMAIN s /\ u[k] = s[k] /\ l \in DOMAIN s /\ u[l] = s[l]
    BY <1>5, <2>2 DEF IsInjective
  <2>3. CASE /\ k - Len(s) \in DOMAIN t /\ u[k] = t[k - Len(s)]
             /\ l - Len(s) \in DOMAIN t /\ u[l] = t[l - Len(s)]
    <3>1. k - Len(s) = l - Len(s)
      BY <1>5, <2>3 DEF IsInjective
    <3>2. k \in Int /\ l \in Int
      BY <1>2
    <3> QED BY <1>1, <3>1, <3>2
  <2> QED BY <1>3, <2>1, <2>2, <2>3
<1> QED BY <1>1, <1>4, <1>5 DEF u

\* Unlinking the head of a list.
LEMMA UnlinkIs ==
  ASSUME NEW T, NEW s \in Seq(T), s # << >>, IsInjective(s)
  PROVE  /\ Head(s) \in T /\ Head(s) \in Range(s)
         /\ Tail(s) \in Seq(T)
         /\ Range(Tail(s)) = Range(s) \ {Head(s)}
         /\ IsInjective(Tail(s))
<1> DEFINE t == Tail(s)
           o == Head(s)
<1>1. /\ Len(s) \in Nat /\ Len(s) >= 1 /\ o = s[1] /\ o \in T /\ t \in Seq(T) /\ Len(t) = Len(s) - 1
      /\ \A k \in 1..(Len(s) - 1) : t[k] = s[k + 1]
  OBVIOUS
<1> HIDE DEF t, o
<1>2. DOMAIN s = 1..Len(s) /\ DOMAIN t = 1..(Len(s) - 1)
  BY <1>1
<1>3. \A k \in DOMAIN t : k + 1 \in DOMAIN s /\ t[k] = s[k + 1] /\ k + 1 # 1
  BY <1>1, <1>2
<1>4. 1 \in DOMAIN s /\ o \in Range(s)
  BY <1>1, <1>2 DEF Range
<1>5. Range(t) = Range(s) \ {o}
  <2>1. ASSUME NEW x \in Range(t) PROVE x \in Range(s) \ {o}
    <3>1. PICK k \in DOMAIN t : x = t[k]
      BY DEF Range
    <3>2. s[k + 1] # s[1]
      BY <1>3, <1>4 DEF IsInjective
    <3> QED BY <1>1, <1>3, <3>1, <3>2 DEF Range
  <2>2. ASSUME NEW x \in Range(s) \ {o} PROVE x \in Range(t)
    <3>1. PICK k \in DOMAIN s : x = s[k]
      BY DEF Range
    <3>2. k # 1
      BY <1>1, <3>1
    <3>3. k - 1 \in DOMAIN t /\ (k - 1) + 1 = k
      BY <1>1, <1>2, <3>2
    <3>4. t[k - 1] = x
      BY <1>3, <3>1, <3>3
    <3> QED BY <3>3, <3>4 DEF Range
  <2> QED BY <2>1, <2>2
<1>6. IsInjective(t)
  <2> SUFFICES ASSUME NEW k \in DOMAIN t, NEW l \in DOMAIN t, t[k] = t[l] PROVE k = l
    BY DEF IsInjective
  <2>1. k + 1 = l + 1
    BY <1>3 DEF IsInjective
  <2>2. k \in Int /\ l \in Int
    BY <1>1, <1>2
  <2> QED BY <2>1, <2>2
<1> QED BY <1>1, <1>4, <1>5, <1>6 DEF t, o

-----------------------------------------------------------------------------
(* Marks.                                                                  *)

\* The more objects are alive, the more an object keeps alive.
LEMMA StrongGrows ==
  ASSUME NEW o, NEW M, NEW N, M \subseteq N
  PROVE  Strong(o, M) \subseteq Strong(o, N)
BY DEF Strong

\* Whatever o keeps alive it refers to.
LEMMA StrongIsRefs ==
  ASSUME NEW o, NEW M
  PROVE  Strong(o, M) \subseteq Refs(o)
BY DEF Strong, Refs, Values

\* The marks are the least set around S that is closed.
LEMMA MarkedIs ==
  ASSUME NEW S \in SUBSET Objects, NEW T
  PROVE  /\ S \subseteq Marked(S, T) /\ Marked(S, T) \subseteq Objects
         /\ (\A o \in Objects : Refs(o) \subseteq Objects) =>
               \A o \in Marked(S, T) \intersect T : Strong(o, Marked(S, T)) \subseteq Marked(S, T)
         /\ \A M \in SUBSET Objects :
               S \subseteq M /\ (\A o \in M \intersect T : Strong(o, M) \subseteq M) => Marked(S, T) \subseteq M
<1> DEFINE closed == {M \in {S \union X : X \in SUBSET (Objects \ S)} :
                         \A o \in M \intersect T : Strong(o, M) \subseteq M}
           K == Marked(S, T)
<1>1. \A M : M \in closed <=> /\ S \subseteq M /\ M \subseteq Objects
                              /\ \A o \in M \intersect T : Strong(o, M) \subseteq M
  <2> TAKE M
  <2>1. ASSUME S \subseteq M, M \subseteq Objects PROVE M \in {S \union X : X \in SUBSET (Objects \ S)}
    <3>1. M = S \union (M \ S) /\ M \ S \in SUBSET (Objects \ S)
      BY <2>1
    <3> QED BY <3>1
  <2> QED BY <2>1
<1>2. K = {o \in Objects : \A M \in closed : o \in M}
  BY DEF Marked
<1> HIDE DEF closed, K
<1>3. S \subseteq K /\ K \subseteq Objects
  BY <1>1, <1>2
<1>4. ASSUME NEW M \in SUBSET Objects, S \subseteq M, \A o \in M \intersect T : Strong(o, M) \subseteq M
      PROVE  K \subseteq M
  BY <1>1, <1>2, <1>4
<1>5. ASSUME \A o \in Objects : Refs(o) \subseteq Objects, NEW o \in K \intersect T PROVE Strong(o, K) \subseteq K
  <2> SUFFICES ASSUME NEW v \in Strong(o, K) PROVE v \in K
    OBVIOUS
  <2>1. v \in Objects
    BY <1>2, <1>5, StrongIsRefs
  <2>2. ASSUME NEW M \in closed PROVE v \in M
    <3>1. K \subseteq M
      BY <1>2, <2>2
    <3>2. Strong(o, K) \subseteq Strong(o, M)
      BY <3>1, StrongGrows
    <3>3. o \in M \intersect T
      BY <3>1
    <3> QED BY <1>1, <2>2, <3>2, <3>3
  <2> QED BY <1>2, <2>1, <2>2
<1> QED BY <1>3, <1>4, <1>5 DEF K

-----------------------------------------------------------------------------
(* The objects and their lists.                                            *)

Colors == Whites \union {"gray", "black"}
Kinds  == Modes \union {"closure", "thread", "free"}

\* Every object in exactly one of three lists, once.
Linked(ls, used) ==
    /\ ls \in [ListNames -> Seq(Objects)]
    /\ \A l \in ListNames : IsInjective(ls[l])
    /\ \A l, m \in ListNames : l # m => Range(ls[l]) \intersect Range(ls[m]) = {}
    /\ used = UNION {Range(ls[l]) : l \in ListNames}

\* What is alive in a state given by its parts, w being the white that is not dead.
LiveIn(used, c, w) == {o \in used : c[o] \notin Whites \ {w}}
RefsOf(E) == {e.value : e \in E} \union ({e.key : e \in E} \ {NoKey})
RefsIn(es, o) == RefsOf(es[o])
LiveClosed(used, es, c, ls, w) ==
    /\ Roots \union Range(ls["finobj"]) \union Range(ls["tobefnz"]) \subseteq LiveIn(used, c, w)
    /\ \A o \in LiveIn(used, c, w) : RefsIn(es, o) \subseteq LiveIn(used, c, w)
    /\ \A o \in Objects \ used : es[o] = {}

\* The names of the lists are no objects.
LEMMA Names ==
  /\ Roots \subseteq Objects /\ Main \in Objects /\ Permanent \subseteq Objects
  /\ \A o \in Objects : o \notin ListNames /\ o # "none" /\ o # NoKey
  /\ "none" \notin ListNames
BY ObjectAssumption DEF Roots, Objects, ListNames

\* The invariant in these words ...
LEMMA InWords ==
  ASSUME currentwhite \in Whites
  PROVE  /\ Whites \ {currentwhite} = {otherwhite}
         /\ Alive = LiveIn(Allocated, color, currentwhite)
         /\ \A o : Refs(o) = RefsIn(entries, o)
         /\ TypeOK => Linked(list, Allocated)
         /\ AliveIsClosed <=>
               /\ LiveClosed(Allocated, entries, color, list, currentwhite)
               /\ gcstate \notin {"swpallgc", "swpfinobj", "swptobefnz"} => Alive = Allocated
<1>1. Whites \ {currentwhite} = {otherwhite}
  BY DEF Whites, otherwhite
<1>2. Alive = LiveIn(Allocated, color, currentwhite)
  BY <1>1 DEF Alive, LiveIn
<1>3. \A o : Refs(o) = RefsIn(entries, o)
  BY DEF Refs, Values, Keys, RefsIn, RefsOf
<1>4. TypeOK => Linked(list, Allocated)
  BY DEF TypeOK, Linked
<1>5. AliveIsClosed <=>
         /\ LiveClosed(Allocated, entries, color, list, currentwhite)
         /\ gcstate \notin {"swpallgc", "swpfinobj", "swptobefnz"} => Alive = Allocated
  BY <1>2, <1>3 DEF AliveIsClosed, LiveClosed
<1> QED BY <1>1, <1>2, <1>3, <1>4, <1>5

\* ... and after a step.
LEMMA InWordsThen ==
  ASSUME currentwhite' \in Whites
  PROVE  /\ Whites \ {currentwhite'} = {otherwhite'}
         /\ Alive' = LiveIn(Allocated', color', currentwhite')
         /\ \A o : Refs(o)' = RefsIn(entries', o)
         /\ AliveIsClosed' <=>
               /\ LiveClosed(Allocated', entries', color', list', currentwhite')
               /\ gcstate' \notin {"swpallgc", "swpfinobj", "swptobefnz"} => Alive' = Allocated'
<1>1. Whites \ {currentwhite'} = {otherwhite'}
  BY DEF Whites, otherwhite
<1>2. Alive' = LiveIn(Allocated', color', currentwhite')
  BY <1>1 DEF Alive, LiveIn
<1>3. \A o : Refs(o)' = RefsIn(entries', o)
  BY DEF Refs, Values, Keys, RefsIn, RefsOf
<1>4. AliveIsClosed' <=>
         /\ LiveClosed(Allocated', entries', color', list', currentwhite')
         /\ gcstate' \notin {"swpallgc", "swpfinobj", "swptobefnz"} => Alive' = Allocated'
  BY <1>2, <1>3 DEF AliveIsClosed, LiveClosed
<1> QED BY <1>1, <1>2, <1>3, <1>4

\* What a sweep does to the objects it sees.
Frees(seen, dead, c, es, ls, w) ==
    /\ dead = {o \in seen : c[o] \in Whites \ {w}}
    /\ color' = [o \in Objects |-> IF o \in dead THEN "white0" ELSE IF o \in seen THEN w ELSE c[o]]
    /\ kind' = [o \in Objects |-> IF o \in dead THEN "free" ELSE kind[o]]
    /\ entries' = [o \in Objects |-> IF o \in dead THEN {} ELSE es[o]]
    /\ list' = [l \in ListNames |-> Without(ls[l], dead)]

\* What it leaves: the lists without the dead, and what was alive.
Leaves(dead, c, es, ls, w) ==
    /\ kind' \in [Objects -> Kinds] /\ color' \in [Objects -> Colors]
    /\ entries' \in [Objects -> SUBSET Entry]
    /\ Allocated' = Allocated \ dead
    /\ dead \intersect LiveIn(Allocated, c, w) = {}
    /\ \A l \in ListNames : Range(list'[l]) = Range(ls[l]) \ dead
    /\ Linked(list', Allocated')
    /\ LiveIn(Allocated', color', w) = LiveIn(Allocated, c, w)
    /\ LiveClosed(Allocated', entries', color', list', w)
    /\ \A o \in Objects \ dead : entries'[o] = es[o]

\* Sweeping keeps the lists and what is alive.
LEMMA SweepFrees ==
  ASSUME kind \in [Objects -> Kinds], NEW c \in [Objects -> Colors], NEW es \in [Objects -> SUBSET Entry],
         NEW ls, Linked(ls, Allocated), NEW w \in Whites, LiveClosed(Allocated, es, c, ls, w),
         NEW seen \in SUBSET Allocated, NEW dead, Frees(seen, dead, c, es, ls, w)
  PROVE  Leaves(dead, c, es, ls, w)
<1> DEFINE live == LiveIn(Allocated, c, w)
<1>0. Allocated \subseteq Objects
  BY DEF Allocated
<1>1. dead \subseteq seen /\ dead \intersect live = {} /\ dead \subseteq Allocated
  BY DEF Frees, LiveIn
<1>2. /\ kind' \in [Objects -> Kinds]
      /\ color' \in [Objects -> Colors]
      /\ entries' \in [Objects -> SUBSET Entry]
  <2>1. "free" \in Kinds /\ "white0" \in Colors /\ w \in Colors
    BY DEF Kinds, Colors, Whites
  <2> QED BY <2>1 DEF Frees
<1>3. Allocated' = Allocated \ dead
  <2>1. \A o \in Objects : kind'[o] # "free" <=> kind[o] # "free" /\ o \notin dead
    BY DEF Frees
  <2> QED BY <2>1 DEF Allocated
<1>4. \A l \in ListNames : /\ list'[l] = Without(ls[l], dead)
                           /\ ls[l] \in Seq(Objects) /\ IsInjective(ls[l])
  BY DEF Frees, Linked
<1>5. \A l \in ListNames : /\ list'[l] \in Seq(Objects)
                           /\ Range(list'[l]) = Range(ls[l]) \ dead
                           /\ IsInjective(list'[l])
  BY <1>4, WithoutIs
<1>6. Linked(list', Allocated')
  <2>1. list' \in [ListNames -> Seq(Objects)]
    <3>1. list' = [l \in ListNames |-> Without(ls[l], dead)]
      BY DEF Frees
    <3> QED BY <1>4, <1>5, <3>1
  <2>2. \A l, m \in ListNames : l # m => Range(list'[l]) \intersect Range(list'[m]) = {}
    BY <1>5 DEF Linked
  <2>3. Allocated' = UNION {Range(list'[l]) : l \in ListNames}
    BY <1>3, <1>5 DEF Linked
  <2> QED BY <1>5, <2>1, <2>2, <2>3 DEF Linked
<1>7. LiveIn(Allocated', color', w) = live
  <2>1. ASSUME NEW o \in Allocated \ dead PROVE color'[o] = IF o \in seen THEN w ELSE c[o]
    BY <1>0, <2>1 DEF Frees
  <2>2. \A o \in seen \ dead : c[o] \notin Whites \ {w}
    BY DEF Frees
  <2> QED BY <1>1, <1>3, <2>1, <2>2 DEF LiveIn
<1>8. \A o \in Objects : entries'[o] = IF o \in dead THEN {} ELSE es[o]
  BY DEF Frees
<1>9. LiveClosed(Allocated', entries', color', list', w)
  <2>1. Roots \union Range(list'["finobj"]) \union Range(list'["tobefnz"]) \subseteq live
    <3>1. "finobj" \in ListNames /\ "tobefnz" \in ListNames
      BY DEF ListNames
    <3> QED BY <1>5, <3>1 DEF LiveClosed
  <2>2. \A o \in live : RefsIn(entries', o) \subseteq live
    <3>1. \A o \in live : entries'[o] = es[o]
      BY <1>0, <1>1, <1>8 DEF LiveIn
    <3> QED BY <3>1 DEF LiveClosed, RefsIn
  <2>3. \A o \in Objects \ Allocated' : entries'[o] = {}
    BY <1>3, <1>8 DEF LiveClosed
  <2> QED BY <1>7, <2>1, <2>2, <2>3 DEF LiveClosed
<1> QED BY <1>1, <1>2, <1>3, <1>5, <1>6, <1>7, <1>8, <1>9 DEF Leaves

\* The objects of a list from one place to another, and those a sweep finds dead.
Between(s, i, j) == {s[h] : h \in i..j}
Dead(seen, c, w) == {o \in seen : c[o] \in Whites \ {w}}

\* Where the sweep is in the list s: k objects are behind it.
Place(s, l, k, p) == k \in 0..Len(s) /\ (IF k = 0 THEN p = l ELSE p = s[k])

\* Where it goes on.
NextPlace(s, p, k, n, dead) ==
    LET stays == {i \in (k + 1)..n : s[i] \notin dead}
    IN  IF n = Len(s) THEN "none"
        ELSE IF stays = {} THEN p
        ELSE s[CHOOSE i \in stays : \A j \in stays : j <= i]

\* The next field of the sweep is that of an object of the list, or its head.
LEMMA PlaceIs ==
  ASSUME NEW used, Linked(list, used), NEW l \in ListNames, NEW p \in {l} \union Range(list[l])
  PROVE  ListOf(p) = l /\ Place(list[l], l, IndexOf(p), p)
<1>1. list[l] \in Seq(Objects)
  BY DEF Linked
<1>2. CASE p = l
  <2>1. Len(list[l]) \in Nat
    BY <1>1
  <2> QED BY <1>2, <2>1 DEF ListOf, IndexOf, Place
<1>3. CASE p \in Range(list[l])
  <2>1. p \in Objects /\ p \notin ListNames
    BY <1>1, <1>3, Names DEF Range
  <2>2. ListOf(p) = l
    <3>1. \A m \in ListNames : p \in Range(list[m]) => m = l
      BY <1>3 DEF Linked
    <3> QED BY <1>3, <2>1, <3>1 DEF ListOf
  <2>3. \E i \in DOMAIN list[l] : list[l][i] = p
    BY <1>3 DEF Range
  <2>4. IndexOf(p) = CHOOSE i \in DOMAIN list[l] : list[l][i] = p
    BY <2>1, <2>2 DEF IndexOf
  <2>5. IndexOf(p) \in DOMAIN list[l] /\ list[l][IndexOf(p)] = p
    BY <2>3, <2>4
  <2>6. IndexOf(p) \in 0..Len(list[l]) /\ IndexOf(p) # 0
    BY <1>1, <2>5
  <2> QED BY <2>2, <2>5, <2>6 DEF Place
<1> QED BY <1>2, <1>3

\* A sweep of s from the k-th to the n-th object, in these words.
SweepsUp(s, p, k, n, seen, dead, c, es, ls, w) ==
    /\ Frees(seen, dead, c, es, ls, w)
    /\ seen \subseteq Range(s)
    /\ sweepgc' = NextPlace(s, p, k, n, dead)

\* Sweep() in these words.
LEMMA SweepIs ==
  ASSUME NEW used, Linked(list, used), NEW l \in ListNames, NEW p \in {l} \union Range(list[l]),
         NEW n \in Nat, n <= Len(list[l]), NEW c, NEW es, NEW ls, NEW w, Sweep(p, n, c, es, ls, w),
         NEW seen, seen = Between(list[l], IndexOf(p) + 1, n), NEW dead, dead = Dead(seen, c, w)
  PROVE  SweepsUp(list[l], p, IndexOf(p), n, seen, dead, c, es, ls, w)
<1>1. ListOf(p) = l /\ IndexOf(p) \in Nat
  BY PlaceIs DEF Place
<1>2. DOMAIN list[l] = 1..Len(list[l]) /\ Len(list[l]) \in Nat
  BY DEF Linked
<1>3. seen \subseteq Range(list[l])
  <2>1. \A i \in (IndexOf(p) + 1)..n : i \in DOMAIN list[l]
    BY <1>1, <1>2
  <2> QED BY <2>1 DEF Range, Between
<1>4. Frees(seen, dead, c, es, ls, w)
  BY <1>1 DEF Sweep, Frees, Between, Dead
<1>5. sweepgc' = NextPlace(list[l], p, IndexOf(p), n, dead)
  BY <1>1 DEF Sweep, NextPlace, Between, Dead
<1> QED BY <1>3, <1>4, <1>5 DEF SweepsUp

\* What the sweep has passed when it goes on: what it had passed before, and
\* what it has seen.
LEMMA NextPlaceIs ==
  ASSUME NEW s \in Seq(Objects), IsInjective(s), NEW l, l \notin Objects, NEW p, NEW k, Place(s, l, k, p),
         NEW n \in Nat, k <= n, n <= Len(s), NEW dead \in SUBSET Between(s, k + 1, n),
         NEW q, q = NextPlace(s, p, k, n, dead)
  PROVE  \/ /\ q = "none"
            /\ Range(s) \subseteq Between(s, 1, k) \union Between(s, k + 1, n)
         \/ /\ q = p /\ q \notin dead
            /\ Between(s, k + 1, n) \subseteq dead
         \/ /\ q \in Range(s) \ dead /\ q \in Between(s, k + 1, n)
            /\ Through(s, q) \subseteq Between(s, 1, k) \union Between(s, k + 1, n)
<1> USE DEF Between
<1> DEFINE stays == {i \in (k + 1)..n : s[i] \notin dead}
<1>1. k \in Nat /\ DOMAIN s = 1..Len(s) /\ Len(s) \in Nat /\ \A i \in (k + 1)..n : i \in DOMAIN s
  BY DEF Place
<1>2. CASE n = Len(s)
  <2>1. \A i \in DOMAIN s : i \in 1..k \/ i \in (k + 1)..n
    BY <1>1, <1>2
  <2> QED BY <1>2, <2>1 DEF Range, NextPlace
<1>3. CASE n # Len(s) /\ stays = {}
  <2>1. q = p
    BY <1>3 DEF NextPlace
  <2>2. p \notin dead
    <3>1. CASE k = 0
      <4>1. p \notin Objects
        BY <3>1 DEF Place
      <4>2. \A i \in (k + 1)..n : s[i] \in Objects
        BY <1>1
      <4> QED BY <4>1, <4>2
    <3>2. CASE k # 0
      <4>1. p = s[k] /\ k \in DOMAIN s
        BY <1>1, <3>2 DEF Place
      <4>2. \A i \in (k + 1)..n : i # k
        BY <1>1
      <4>3. \A i \in (k + 1)..n : s[i] # s[k]
        BY <1>1, <4>1, <4>2 DEF IsInjective
      <4> QED BY <4>1, <4>3
    <3> QED BY <3>1, <3>2
  <2> QED BY <1>3, <2>1, <2>2
<1>4. CASE n # Len(s) /\ stays # {}
  <2> DEFINE m == CHOOSE i \in stays : \A j \in stays : j <= i
  <2>1. stays \in SUBSET Int /\ n \in Int /\ \A i \in stays : i <= n
    BY <1>1
  <2>2. \E i \in stays : \A j \in stays : j <= i
    <3> HIDE DEF stays
    <3> QED BY <1>4, <2>1, GreatestExists
  <2>3. m \in stays
    BY <2>2
  <2>4. q = s[m]
    BY <1>4 DEF NextPlace
  <2> HIDE DEF m
  <2>5. m \in (k + 1)..n /\ s[m] \notin dead /\ m \in DOMAIN s
    BY <1>1, <2>3
  <2>6. ASSUME NEW y \in Through(s, q) PROVE y \in Between(s, 1, k) \union Between(s, k + 1, n)
    <3>1. PICK j \in DOMAIN s : y = s[j] /\ \E h \in DOMAIN s : s[h] = q /\ j <= h
      BY DEF Through
    <3>2. PICK h \in DOMAIN s : s[h] = q /\ j <= h
      BY <3>1
    <3>3. h = m
      BY <2>4, <2>5, <3>2 DEF IsInjective
    <3>4. j \in 1..k \/ j \in (k + 1)..n
      BY <1>1, <2>5, <3>2, <3>3
    <3> QED BY <3>1, <3>4
  <2>7. s[m] \in Range(s)
    BY <2>5 DEF Range
  <2> QED BY <2>4, <2>5, <2>6, <2>7
<1> QED BY <1>2, <1>3, <1>4

-----------------------------------------------------------------------------
(* The program.                                                            *)

\* The type invariant after a step.
LEMMA TypeThen ==
  ASSUME kind' \in [Objects -> Kinds], entries' \in [Objects -> SUBSET Entry], color' \in [Objects -> Colors],
         Linked(list', Allocated'), gray' \in SUBSET Objects, grayagain' \in SUBSET Objects,
         gcstate' \in States, currentwhite' \in Whites, sweepgc' \in Objects \union ListNames \union {"none"},
         goals' \in Seq(States \union {"resume"}), gcemergency' \in BOOLEAN, gcstp' \in BOOLEAN,
         program' \in Programs
  PROVE  TypeOK'
BY DEF TypeOK, Linked, Kinds, Colors

\* What TypeOK says of the parts of the state.
LEMMA Types ==
  ASSUME TypeOK
  PROVE  /\ kind \in [Objects -> Kinds] /\ entries \in [Objects -> SUBSET Entry]
         /\ color \in [Objects -> Colors] /\ Linked(list, Allocated)
         /\ gray \in SUBSET Objects /\ grayagain \in SUBSET Objects
         /\ gcstate \in States /\ currentwhite \in Whites
         /\ sweepgc \in Objects \union ListNames \union {"none"}
         /\ goals \in Seq(States \union {"resume"}) /\ gcemergency \in BOOLEAN /\ gcstp \in BOOLEAN
         /\ program \in Programs /\ Allocated \subseteq Objects
BY DEF TypeOK, Linked, Kinds, Colors, Allocated

\* What a program holds is alive, and so is what that refers to.
LEMMA HeldIsAlive ==
  ASSUME IInv
  PROVE  /\ Roots \subseteq Alive /\ Held \subseteq Alive /\ Alive \subseteq Allocated
         /\ \A o \in Alive : Refs(o) \subseteq Alive
         /\ \A o \in Alive : color[o] # otherwhite /\ o \in Objects
         /\ Values(Main) \subseteq Alive
<1>1. Roots \subseteq Alive /\ \A o \in Alive : Refs(o) \subseteq Alive
  BY DEF IInv, AliveIsClosed
<1>2. Values(Main) \subseteq Alive
  BY <1>1 DEF Refs, Roots
<1>3. Permanent \subseteq Alive
  BY <1>1 DEF Roots
<1> QED BY <1>1, <1>2, <1>3 DEF Held, Alive, Allocated

\* A step keeps the marks right when t refers to objects in S from now on.
MarksKeep(t, S) ==
    /\ color' \in [Objects -> Colors] /\ gray' \in SUBSET Objects /\ grayagain' \in SUBSET Objects
    /\ \A o \in Objects : \/ color'[o] = color[o]
                          \/ /\ color'[o] \in {"gray", currentwhite} /\ o \in Alive
                             /\ color[o] = "black" \/ keepinvariant
    /\ keepinvariant =>
          /\ color'[t] = "black" => \A v \in S : color'[v] \notin Whites
          /\ \A o \in Objects : color'[o] = "black" => color[o] = "black"
          /\ \A o \in Objects : color'[o] \in Whites => color[o] \in Whites
          /\ {o \in Allocated : color'[o] = "gray"} = gray' \union grayagain'
          /\ gray' \intersect grayagain' = {}

\* Without new references there is nothing to do, nor for a stack.
LEMMA NoMarks ==
  ASSUME IInv, NEW t \in Objects, NEW S, UNCHANGED markVars, S = {} \/ kind[t] = "thread"
  PROVE  MarksKeep(t, S)
BY Types DEF IInv, MarksKeep, markVars, MainInvariant, StacksAreGray

\* The backward barrier.
LEMMA BarrierBack ==
  ASSUME IInv, NEW t \in Alive, NEW S \in SUBSET Alive, luaC_barrierback(t, S)
  PROVE  MarksKeep(t, S)
<1>1. TypeOK /\ t \in Objects /\ S \subseteq Objects /\ t \in Allocated
  BY HeldIsAlive DEF IInv
<1>2. CASE color[t] = "black" /\ \E v \in S : White(v)
  <2>1. color' = [color EXCEPT ![t] = "gray"] /\ grayagain' = grayagain \union {t} /\ gray' = gray
    BY <1>2 DEF luaC_barrierback, luaC_barrierback_
  <2>2. color \in [Objects -> Colors] /\ gray \in SUBSET Objects /\ grayagain \in SUBSET Objects
    BY <1>1, Types
  <2>3. color' \in [Objects -> Colors]
    BY <2>1, <2>2 DEF Colors
  <2>4. color'[t] = "gray" /\ \A o \in Objects \ {t} : color'[o] = color[o]
    BY <1>1, <2>1, <2>2
  <2>5. "gray" # "black" /\ "gray" \notin Whites
    BY DEF Whites
  <2>6. ASSUME keepinvariant
        PROVE  /\ {o \in Allocated : color'[o] = "gray"} = gray' \union grayagain'
               /\ gray' \intersect grayagain' = {}
    <3>1. {o \in Allocated : color[o] = "gray"} = gray \union grayagain /\ gray \intersect grayagain = {}
      BY <2>6 DEF IInv, MainInvariant, StacksAreGray
    <3>2. t \notin gray \union grayagain
      BY <1>2, <2>5, <3>1
    <3>3. Allocated \subseteq Objects
      BY DEF Allocated
    <3> QED BY <1>1, <2>1, <2>4, <3>1, <3>2, <3>3
  <2> QED BY <1>1, <1>2, <2>1, <2>2, <2>3, <2>4, <2>5, <2>6 DEF MarksKeep
<1>3. CASE ~ (color[t] = "black" /\ \E v \in S : White(v))
  <2>1. UNCHANGED markVars
    BY <1>3 DEF luaC_barrierback
  <2> QED BY <1>1, <1>3, <2>1, Types DEF IInv, MarksKeep, markVars, MainInvariant, StacksAreGray, White
<1> QED BY <1>2, <1>3

\* The forward barrier.
LEMMA BarrierForward ==
  ASSUME IInv, NEW t \in Alive, NEW v \in Alive, luaC_barrier(t, v)
  PROVE  MarksKeep(t, {v})
<1>1. TypeOK /\ t \in Objects /\ v \in Objects /\ t \in Allocated /\ v \in Allocated
  BY HeldIsAlive DEF IInv
<1>2. color \in [Objects -> Colors] /\ gray \in SUBSET Objects /\ grayagain \in SUBSET Objects
      /\ currentwhite \in Whites
  BY <1>1, Types
<1>3. "gray" # "black" /\ "gray" \notin Whites /\ "black" \notin Whites
  BY DEF Whites
<1>4. CASE color[t] = "black" /\ White(v) /\ keepinvariant
  <2>1. color' = [color EXCEPT ![v] = "gray"] /\ gray' = gray \union {v} /\ grayagain' = grayagain
    BY <1>4 DEF luaC_barrier, luaC_barrier_
  <2>2. color' \in [Objects -> Colors]
    BY <1>2, <2>1 DEF Colors
  <2>3. color'[v] = "gray" /\ \A o \in Objects \ {v} : color'[o] = color[o]
    BY <1>1, <1>2, <2>1
  <2>4. /\ {o \in Allocated : color'[o] = "gray"} = gray' \union grayagain'
        /\ gray' \intersect grayagain' = {}
    <3>1. {o \in Allocated : color[o] = "gray"} = gray \union grayagain /\ gray \intersect grayagain = {}
      BY <1>4 DEF IInv, MainInvariant, StacksAreGray
    <3>2. v \notin gray \union grayagain
      BY <1>3, <1>4, <3>1 DEF White
    <3>3. Allocated \subseteq Objects
      BY DEF Allocated
    <3> QED BY <1>1, <2>1, <2>3, <3>1, <3>2, <3>3
  <2> QED BY <1>1, <1>2, <1>3, <1>4, <2>1, <2>2, <2>3, <2>4 DEF MarksKeep
<1>5. CASE color[t] = "black" /\ White(v) /\ ~ keepinvariant
  <2>1. color' = [color EXCEPT ![t] = currentwhite] /\ gray' = gray /\ grayagain' = grayagain
    BY <1>5 DEF luaC_barrier, luaC_barrier_
  <2>2. color' \in [Objects -> Colors]
    BY <1>2, <2>1 DEF Colors
  <2>3. color'[t] = currentwhite /\ \A o \in Objects \ {t} : color'[o] = color[o]
    BY <1>1, <1>2, <2>1
  <2> QED BY <1>1, <1>2, <1>5, <2>1, <2>2, <2>3 DEF MarksKeep
<1>6. CASE ~ (color[t] = "black" /\ White(v))
  <2>1. UNCHANGED markVars
    BY <1>6 DEF luaC_barrier
  <2> QED BY <1>1, <1>6, <2>1, Types DEF IInv, MarksKeep, markVars, MainInvariant, StacksAreGray, White
<1> QED BY <1>4, <1>5, <1>6

\* The sweep goes on undisturbed.
LEMMA MarksKeepSweep ==
  ASSUME IInv, NEW t, NEW S, MarksKeep(t, S), list' = list, UNCHANGED phaseVars
  PROVE  SweepAdvances'
<1>1. gcstate' = gcstate /\ sweepgc' = sweepgc /\ currentwhite' = currentwhite /\ TypeOK
  BY DEF phaseVars, IInv
<1>2. ASSUME NEW l \in ListNames, NEW o \in Passed(l) PROVE color'[o] = currentwhite
  <2>1. color[o] = currentwhite /\ ~ keepinvariant
    BY <1>2 DEF IInv, SweepAdvances, Passed, keepinvariant, Swept, Sweeping
  <2>2. o \in Objects
    <3>1. list[l] \in Seq(Objects)
      BY <1>1, Types DEF Linked
    <3> QED BY <1>2, <3>1 DEF Passed, Range, Through
  <2>3. color[o] # "black"
    BY <1>1, <2>1, Types DEF Whites
  <2> QED BY <2>1, <2>2, <2>3 DEF MarksKeep
<1>3. \A l \in ListNames : Passed(l)' = Passed(l) /\ Sweeping(l)' = Sweeping(l)
  BY <1>1 DEF Passed, Swept, Sweeping
<1> QED BY <1>1, <1>2, <1>3 DEF IInv, SweepAdvances

\* An assignment to an object that the program holds, of objects it holds.
LEMMA AssignmentKeeps ==
  ASSUME IInv, program' = program, UNCHANGED <<kind, list, phaseVars, modeVars>>,
         NEW t \in Alive, NEW es \in SUBSET Entry, entries' = [entries EXCEPT ![t] = es],
         NEW S \in SUBSET Alive, RefsOf(es) \subseteq Refs(t) \union S, MarksKeep(t, S)
  PROVE  IInv'
<1>1. /\ gcstate' = gcstate /\ sweepgc' = sweepgc /\ currentwhite' = currentwhite /\ kind' = kind
      /\ list' = list /\ goals' = goals /\ gcemergency' = gcemergency /\ gcstp' = gcstp
  BY DEF phaseVars, modeVars
<1>2. TypeOK /\ t \in Objects /\ Allocated' = Allocated /\ otherwhite' = otherwhite
      /\ currentwhite \in Whites /\ otherwhite \in Whites /\ currentwhite # otherwhite
  BY <1>1, HeldIsAlive DEF IInv, Allocated, otherwhite, TypeOK, Whites
<1>3. entries' \in [Objects -> SUBSET Entry] /\ entries'[t] = es /\ \A o \in Objects \ {t} : entries'[o] = entries[o]
  BY <1>2, Types
<1>4. /\ \A o : Refs(o) = RefsIn(entries, o) /\ Refs(o)' = RefsIn(entries', o)
  BY <1>1, <1>2, InWords, InWordsThen
<1>5. /\ Refs(t)' \subseteq Refs(t) \union S
      /\ \A o \in Objects \ {t} : Refs(o)' = Refs(o)
  BY <1>3, <1>4 DEF RefsIn
<1>6. TypeOK'
  <2>1. Linked(list', Allocated')
    BY <1>1, <1>2, Types
  <2> QED BY <1>1, <1>2, <1>3, <2>1, Types, TypeThen DEF MarksKeep
<1>7. Alive' = Alive
  <2>1. ASSUME NEW o \in Allocated PROVE color'[o] # otherwhite <=> color[o] # otherwhite
    <3>1. o \in Objects
      BY DEF Allocated
    <3>2. "gray" # otherwhite
      BY <1>2 DEF Whites
    <3> QED BY <1>2, <3>1, <3>2, HeldIsAlive DEF MarksKeep
  <2> QED BY <1>2, <2>1 DEF Alive
<1>8. AliveIsClosed'
  <2>1. Roots \union Range(list'["finobj"]) \union Range(list'["tobefnz"]) \subseteq Alive'
    BY <1>1, <1>7 DEF IInv, AliveIsClosed
  <2>2. \A o \in Alive' : Refs(o)' \subseteq Alive'
    BY <1>5, <1>7, HeldIsAlive
  <2>3. \A o \in Objects \ Allocated' : entries'[o] = {}
    <3>1. t \in Allocated
      BY HeldIsAlive
    <3> QED BY <1>2, <1>3, <3>1 DEF IInv, AliveIsClosed
  <2>4. gcstate' \notin {"swpallgc", "swpfinobj", "swptobefnz"} => Alive' = Allocated'
    BY <1>1, <1>2, <1>7 DEF IInv, AliveIsClosed
  <2> QED BY <2>1, <2>2, <2>3, <2>4 DEF AliveIsClosed
<1>9. StacksAreGray'
  BY <1>1 DEF IInv, StacksAreGray, MarksKeep, keepinvariant
<1>10. MainInvariant'
  <2> SUFFICES ASSUME keepinvariant
               PROVE  /\ \A o \in Allocated : color'[o] = "black" => \A v \in Refs(o)' : color'[v] \notin Whites
                      /\ {o \in Allocated : color'[o] = "gray"} = gray' \union grayagain'
    BY <1>1, <1>2 DEF MainInvariant, White, keepinvariant
  <2>1. ASSUME NEW o \in Allocated, color'[o] = "black", NEW v \in Refs(o)' PROVE color'[v] \notin Whites
    <3>1. o \in Objects
      BY DEF Allocated
    <3>2. color[o] = "black"
      BY <2>1, <3>1 DEF MarksKeep
    <3>3. ASSUME v \in Refs(o) PROVE color'[v] \notin Whites
      <4>1. color[v] \notin Whites
        BY <3>2, <3>3 DEF IInv, MainInvariant, White
      <4>2. v \in Objects
        <5>1. entries[o] \in SUBSET Entry
          BY <1>2, <3>1, Types
        <5> QED BY <3>3, <5>1 DEF Refs, Values, Keys, Entry
      <4> QED BY <4>1, <4>2 DEF MarksKeep
    <3>4. CASE o = t
      BY <1>5, <2>1, <3>3, <3>4 DEF MarksKeep
    <3>5. CASE o # t
      BY <1>5, <2>1, <3>1, <3>3, <3>5
    <3> QED BY <3>4, <3>5
  <2> QED BY <2>1 DEF MarksKeep
<1>11. SweepAdvances'
  BY <1>1, MarksKeepSweep
<1> QED BY <1>6, <1>8, <1>9, <1>10, <1>11 DEF IInv

\* Values on the stack and in tables.
LEMMA RefsOfEntries ==
  /\ \A E, F : RefsOf(E \union F) = RefsOf(E) \union RefsOf(F)
  /\ \A E, F : E \subseteq F => RefsOf(E) \subseteq RefsOf(F)
  /\ \A k, v : RefsOf({[key |-> k, value |-> v]}) = {v} \union ({k} \ {NoKey})
  /\ \A o : Refs(o) = RefsOf(entries[o])
BY DEF RefsOf, Refs, Values, Keys

\* Pushing a value.
LEMMA PushedRefs ==
  ASSUME NEW o, NEW v
  PROVE  RefsOf(entries[o] \union {[key |-> NoKey, value |-> v]}) = Refs(o) \union {v}
<1> DEFINE e == [key |-> NoKey, value |-> v]
<1>1. RefsOf({e}) = {v} \union ({NoKey} \ {NoKey})
  BY RefsOfEntries
<1> HIDE DEF e
<1>2. RefsOf(entries[o] \union {e}) = RefsOf(entries[o]) \union RefsOf({e})
  BY RefsOfEntries
<1>3. Refs(o) = RefsOf(entries[o])
  BY RefsOfEntries
<1>4. RefsOf(entries[o] \union {e}) = Refs(o) \union {v}
  BY <1>1, <1>2, <1>3
<1> QED BY <1>4 DEF e

\* Reading pushes what is alive.
LEMMA PushKeeps ==
  ASSUME IInv, program' = program, NEW v \in Alive, entries' = Push(v),
         UNCHANGED <<kind, list, markVars, phaseVars, modeVars>>
  PROVE  IInv'
<1> DEFINE e == [key |-> NoKey, value |-> v]
           es == entries[Main] \union {e}
<1>1. Main \in Alive /\ Main \in Objects /\ kind[Main] = "thread" /\ v \in Objects
  BY HeldIsAlive DEF IInv, StacksAreGray, Roots
<1>2. es \in SUBSET Entry /\ entries' = [entries EXCEPT ![Main] = es]
  <2>1. entries[Main] \in SUBSET Entry
    BY <1>1, Types DEF IInv
  <2> QED BY <1>1, <2>1 DEF Push, Entry
<1>3. RefsOf(es) \subseteq Refs(Main) \union {v}
  BY PushedRefs
<1>4. MarksKeep(Main, {v})
  BY <1>1, NoMarks
<1> HIDE DEF es
<1> QED BY <1>1, <1>2, <1>3, <1>4, AssignmentKeeps

\* Losing entries.
LEMMA LoseKeeps ==
  ASSUME IInv, program' = program, NEW t \in Alive, NEW es \in SUBSET entries[t],
         entries' = [entries EXCEPT ![t] = es],
         UNCHANGED <<kind, list, markVars, phaseVars, modeVars>>
  PROVE  IInv'
<1>1. t \in Objects
  BY HeldIsAlive
<1>2. es \in SUBSET Entry
  BY <1>1, Types DEF IInv
<1>3. RefsOf(es) \subseteq Refs(t) \union {}
  BY RefsOfEntries
<1>4. MarksKeep(t, {}) /\ {} \in SUBSET Alive
  BY <1>1, NoMarks
<1> QED BY <1>2, <1>3, <1>4, AssignmentKeeps

\* A table set.
LEMMA SetTableKeeps ==
  ASSUME IInv, program' = program, NEW t, NEW k, NEW v, SetTable(t, k, v)
  PROVE  IInv'
<1> DEFINE e == [key |-> k, value |-> v]
           kept == {d \in entries[t] : d.key # k \/ k = NoKey}
           es == kept \union {e}
           S == {v} \union ({k} \ (Keys(t) \union {NoKey}))
<1>1. t \in Alive /\ v \in Alive /\ k \in Alive \union {NoKey}
  BY HeldIsAlive DEF SetTable
<1>2. /\ entries' = [entries EXCEPT ![t] = es] /\ luaC_barrierback(t, S)
      /\ UNCHANGED <<kind, list, phaseVars, modeVars>>
  BY DEF SetTable, Refer
<1>3. es \in SUBSET Entry
  <2>1. entries[t] \in SUBSET Entry /\ v \in Objects /\ k \in Objects \union {NoKey}
    BY <1>1, HeldIsAlive, Types DEF IInv
  <2> QED BY <2>1 DEF Entry
<1>4. S \in SUBSET Alive
  BY <1>1
<1>5. RefsOf(es) \subseteq Refs(t) \union S
  <2>1. RefsOf(kept) \subseteq RefsOf(entries[t])
    <3>1. kept \subseteq entries[t]
      OBVIOUS
    <3> HIDE DEF kept
    <3> QED BY <3>1, RefsOfEntries
  <2>2. RefsOf({e}) = {v} \union ({k} \ {NoKey})
    BY RefsOfEntries
  <2>3. RefsOf(es) = RefsOf(kept) \union RefsOf({e})
    <3> HIDE DEF kept, e
    <3> QED BY RefsOfEntries
  <2>4. Keys(t) \subseteq Refs(t) /\ Refs(t) = RefsOf(entries[t])
    BY RefsOfEntries DEF Refs
  <2> HIDE DEF kept, e, es
  <2> QED BY <2>1, <2>2, <2>3, <2>4
<1>6. MarksKeep(t, S)
  BY <1>1, <1>2, <1>4, BarrierBack
<1> HIDE DEF es, S
<1> QED BY <1>1, <1>2, <1>3, <1>4, <1>5, <1>6, AssignmentKeeps

\* An assignment to an upvalue or to the stack of a coroutine.
LEMMA SetOtherKeeps ==
  ASSUME IInv, program' = program, NEW t, NEW v, SetOther(t, v)
  PROVE  IInv'
<1> DEFINE e == [key |-> NoKey, value |-> v]
           es == entries[t] \union {e}
<1>1. t \in Alive /\ v \in Alive
  BY HeldIsAlive DEF SetOther
<1>2. /\ entries' = [entries EXCEPT ![t] = es]
      /\ (kind[t] = "closure" /\ luaC_barrier(t, v)) \/ (kind[t] = "thread" /\ UNCHANGED markVars)
      /\ UNCHANGED <<kind, list, phaseVars, modeVars>>
  BY DEF SetOther, Refer
<1>3. es \in SUBSET Entry
  <2>1. entries[t] \in SUBSET Entry /\ v \in Objects
    BY <1>1, HeldIsAlive, Types DEF IInv
  <2> QED BY <2>1 DEF Entry
<1>4. RefsOf(es) \subseteq Refs(t) \union {v}
  BY PushedRefs
<1>5. MarksKeep(t, {v})
  BY <1>1, <1>2, HeldIsAlive, BarrierForward, NoMarks
<1>6. {v} \in SUBSET Alive
  BY <1>1
<1> HIDE DEF es
<1> QED BY <1>1, <1>2, <1>3, <1>4, <1>5, <1>6, AssignmentKeeps

\* ms is ls, but for the list named l, which is s there.
Replaces(ms, ls, l, s) ==
    /\ ms \in [ListNames -> Seq(Objects)] /\ ms[l] = s
    /\ \A m \in ListNames \ {l} : ms[m] = ls[m]

\* A list of its own for a name.
LEMMA ReplacesIs ==
  ASSUME NEW ls \in [ListNames -> Seq(Objects)], NEW l \in ListNames, NEW s \in Seq(Objects)
  PROVE  Replaces([ls EXCEPT ![l] = s], ls, l, s)
<1> DEFINE ms == [ls EXCEPT ![l] = s]
<1>1. ms \in [ListNames -> Seq(Objects)] /\ ms[l] = s
  OBVIOUS
<1>2. ASSUME NEW m \in ListNames \ {l} PROVE ms[m] = ls[m]
  OBVIOUS
<1> HIDE DEF ms
<1>3. Replaces(ms, ls, l, s)
  BY <1>1, <1>2 DEF Replaces
<1> QED BY <1>3 DEF ms

\* Lists into which an object comes.
LEMMA LinkedMore ==
  ASSUME NEW ls, NEW used, Linked(ls, used), NEW o \in Objects \ used, NEW l \in ListNames,
         NEW s, Range(s) = {o} \union Range(ls[l]), IsInjective(s),
         NEW ms, Replaces(ms, ls, l, s)
  PROVE  Linked(ms, used \union {o})
<1>2. ASSUME NEW m \in ListNames PROVE o \notin Range(ls[m])
  BY DEF Linked
<1>4. ms \in [ListNames -> Seq(Objects)] /\ ms[l] = s /\ \A m \in ListNames \ {l} : ms[m] = ls[m]
  BY DEF Replaces
<1>5. Range(ms[l]) = Range(ls[l]) \union {o}
  BY <1>4
<1>6. ASSUME NEW m \in ListNames \ {l} PROVE Range(ms[m]) = Range(ls[m]) /\ IsInjective(ms[m])
  <2>1. ms[m] = ls[m]
    BY <1>4
  <2>2. IsInjective(ls[m])
    BY DEF Linked
  <2> QED BY <2>1, <2>2
<1>7. ASSUME NEW m \in ListNames PROVE IsInjective(ms[m])
  <2>1. CASE m = l
    BY <1>4, <2>1
  <2>2. CASE m # l
    BY <1>6, <2>2
  <2> QED BY <2>1, <2>2
<1>8. ASSUME NEW m \in ListNames, NEW n \in ListNames, m # n PROVE Range(ms[m]) \intersect Range(ms[n]) = {}
  <2>1. Range(ls[m]) \intersect Range(ls[n]) = {}
    BY <1>8 DEF Linked
  <2>2. o \notin Range(ls[m]) /\ o \notin Range(ls[n])
    BY <1>2
  <2>3. CASE m = l
    <3>1. Range(ms[m]) = Range(ls[m]) \union {o} /\ Range(ms[n]) = Range(ls[n])
      BY <1>5, <1>6, <1>8, <2>3
    <3> QED BY <2>1, <2>2, <3>1
  <2>4. CASE n = l
    <3>1. Range(ms[n]) = Range(ls[n]) \union {o} /\ Range(ms[m]) = Range(ls[m])
      BY <1>5, <1>6, <1>8, <2>4
    <3> QED BY <2>1, <2>2, <3>1
  <2>5. CASE m # l /\ n # l
    <3>1. Range(ms[n]) = Range(ls[n]) /\ Range(ms[m]) = Range(ls[m])
      BY <1>6, <2>5
    <3> QED BY <2>1, <3>1
  <2> QED BY <2>3, <2>4, <2>5
<1>9. used \union {o} = UNION {Range(ms[m]) : m \in ListNames}
  <2>1. used = UNION {Range(ls[m]) : m \in ListNames}
    BY DEF Linked
  <2>2. ASSUME NEW m \in ListNames PROVE Range(ls[m]) \subseteq Range(ms[m]) /\ Range(ms[m]) \subseteq Range(ls[m]) \union {o}
    <3>1. CASE m = l
      BY <1>5, <3>1
    <3>2. CASE m # l
      BY <1>6, <3>2
    <3> QED BY <3>1, <3>2
  <2>3. o \in Range(ms[l])
    BY <1>5
  <2> QED BY <2>1, <2>2, <2>3
<1> QED BY <1>4, <1>7, <1>8, <1>9 DEF Linked

\* An object leaves its list.
LEMMA LinkedLess ==
  ASSUME NEW ls, NEW used, Linked(ls, used), NEW l \in ListNames, NEW o \in Range(ls[l]),
         NEW s, Range(s) = Range(ls[l]) \ {o}, IsInjective(s),
         NEW ms, Replaces(ms, ls, l, s)
  PROVE  Linked(ms, used \ {o})
<1>1. ms \in [ListNames -> Seq(Objects)] /\ ms[l] = s /\ \A m \in ListNames \ {l} : ms[m] = ls[m]
  BY DEF Replaces
<1>2. ASSUME NEW m \in ListNames PROVE Range(ms[m]) = Range(ls[m]) \ {o} /\ IsInjective(ms[m])
  <2>1. CASE m = l
    BY <1>1, <2>1
  <2>2. CASE m # l
    <3>1. ms[m] = ls[m] /\ IsInjective(ls[m])
      BY <1>1, <2>2 DEF Linked
    <3>2. o \notin Range(ls[m])
      <4>1. Range(ls[m]) \intersect Range(ls[l]) = {}
        BY <2>2 DEF Linked
      <4> QED BY <4>1
    <3> QED BY <3>1, <3>2
  <2> QED BY <2>1, <2>2
<1>3. ASSUME NEW m \in ListNames, NEW n \in ListNames, m # n PROVE Range(ms[m]) \intersect Range(ms[n]) = {}
  <2>1. Range(ls[m]) \intersect Range(ls[n]) = {}
    BY <1>3 DEF Linked
  <2> QED BY <1>2, <2>1
<1>4. used \ {o} = UNION {Range(ms[m]) : m \in ListNames}
  <2>1. used = UNION {Range(ls[m]) : m \in ListNames}
    BY DEF Linked
  <2>2. \A m \in ListNames : Range(ms[m]) = Range(ls[m]) \ {o}
    BY <1>2
  <2> HIDE DEF Range
  <2>3. ASSUME NEW x \in used \ {o} PROVE \E m \in ListNames : x \in Range(ms[m])
    <3>1. PICK m \in ListNames : x \in Range(ls[m])
      BY <2>1
    <3> QED BY <2>2, <3>1
  <2>4. ASSUME NEW m \in ListNames, NEW x \in Range(ms[m]) PROVE x \in used \ {o}
    BY <2>1, <2>2
  <2> QED BY <2>3, <2>4
<1> QED BY <1>1, <1>2, <1>3, <1>4 DEF Linked

\* The object o moves from the list named l, of which s remains, to that named m.
Moves(ms, ls, l, m, o, s) ==
    /\ ms[l] = s
    /\ Range(ms[m]) = Range(ls[m]) \union {o}
    /\ \A x : Through(ms[m], x) \subseteq {o} \union Through(ls[m], x)
    /\ \A n \in ListNames \ {l, m} : ms[n] = ls[n]

\* Such a move keeps the lists right.
LEMMA LinkedMoved ==
  ASSUME NEW ls, NEW used, Linked(ls, used), NEW l \in ListNames, NEW m \in ListNames, m # l,
         NEW o \in Range(ls[l]), NEW s \in Seq(Objects), Range(s) = Range(ls[l]) \ {o}, IsInjective(s),
         NEW ms, ms = [ls EXCEPT ![l] = s, ![m] = <<o>> \o @]
  PROVE  Linked(ms, used) /\ Moves(ms, ls, l, m, o, s)
<1> DEFINE ns == [ls EXCEPT ![l] = s]
<1>1. ls \in [ListNames -> Seq(Objects)]
  BY DEF Linked
<1>2. o \in used /\ o \in Objects
  <2>1. ls[l] \in Seq(Objects) /\ used = UNION {Range(ls[n]) : n \in ListNames}
    BY DEF Linked
  <2> QED BY <2>1 DEF Range
<1>3. Replaces(ns, ls, l, s)
  BY <1>1, ReplacesIs
<1>4. ms = [ns EXCEPT ![m] = <<o>> \o ns[m]]
  BY <1>1
<1> HIDE DEF ns
<1>5. Linked(ns, used \ {o})
  BY <1>3, LinkedLess
<1>6. ns \in [ListNames -> Seq(Objects)] /\ ns[l] = s /\ ns[m] = ls[m] /\ \A n \in ListNames \ {l} : ns[n] = ls[n]
  BY <1>3 DEF Replaces
<1> DEFINE t == <<o>> \o ns[m]
<1>7. /\ t \in Seq(Objects) /\ Range(t) = {o} \union Range(ls[m])
      /\ IsInjective(t) /\ \A x : Through(t, x) \subseteq {o} \union Through(ls[m], x)
  <2>1. ls[m] \in Seq(Objects) /\ IsInjective(ls[m]) /\ o \notin Range(ls[m])
    <3>1. Range(ls[l]) \intersect Range(ls[m]) = {}
      BY DEF Linked
    <3> QED BY <3>1 DEF Linked
  <2> QED BY <1>2, <1>6, <2>1, LinkIs
<1>8. ms = [ns EXCEPT ![m] = t]
  BY <1>4
<1> HIDE DEF t
<1>9. Replaces(ms, ns, m, t)
  <2>1. ns \in [ListNames -> Seq(Objects)] /\ t \in Seq(Objects)
    BY <1>6, <1>7
  <2>2. Replaces([ns EXCEPT ![m] = t], ns, m, t)
    BY <2>1, ReplacesIs, Zenon
  <2> QED BY <1>8, <2>2
<1> DEFINE rest == used \ {o}
<1>10. Linked(ns, rest) /\ o \in Objects \ rest /\ used = rest \union {o}
  BY <1>2, <1>5
<1> HIDE DEF rest
<1>11. Linked(ms, used)
  <2>1. Range(t) = {o} \union Range(ns[m]) /\ IsInjective(t)
    BY <1>6, <1>7
  <2> QED BY <1>9, <1>10, <2>1, LinkedMore
<1>12. ms[m] = t /\ \A n \in ListNames \ {m} : ms[n] = ns[n]
  BY <1>9 DEF Replaces
<1>13. ms[l] = s /\ \A n \in ListNames \ {l, m} : ms[n] = ls[n]
  BY <1>6, <1>12
<1> QED BY <1>7, <1>11, <1>12, <1>13 DEF Moves

\* A new object is white and on the stack.
LEMMA NewObjectKeeps ==
  ASSUME IInv, program' = program, NEW o \in Others, NEW k \in program.kinds \ (Modes \ {"table"}),
         luaC_newobj(o, k)
  PROVE  IInv'
<1>1. /\ kind[o] = "free" /\ kind' = [kind EXCEPT ![o] = k] /\ color' = [color EXCEPT ![o] = currentwhite]
      /\ list' = [list EXCEPT !["allgc"] = <<o>> \o @] /\ entries' = Push(o)
      /\ gray' = gray /\ grayagain' = grayagain /\ gcstate' = gcstate /\ currentwhite' = currentwhite
      /\ sweepgc' = sweepgc /\ goals' = goals /\ gcemergency' = gcemergency /\ gcstp' = gcstp
  BY DEF luaC_newobj, phaseVars, modeVars
<1>2. o \in Objects /\ o # Main /\ Main \in Objects /\ o \notin Allocated /\ TypeOK
      /\ k \in {"table", "closure", "thread"}
  <2>1. program.kinds \subseteq Modes \union {"closure", "thread"}
    BY ProgramAssumption DEF IInv, TypeOK
  <2> QED BY <1>1, <2>1, ObjectAssumption DEF Objects, Roots, Allocated, IInv, Modes
<1>3. currentwhite \in Whites /\ otherwhite' = otherwhite /\ currentwhite # otherwhite
  BY <1>1, <1>2, Types DEF otherwhite, Whites
<1>4. /\ kind' \in [Objects -> Kinds] /\ kind'[o] = k /\ \A p \in Objects \ {o} : kind'[p] = kind[p]
      /\ color' \in [Objects -> Colors] /\ color'[o] = currentwhite /\ \A p \in Objects \ {o} : color'[p] = color[p]
  <2>1. k \in Kinds /\ currentwhite \in Colors
    BY <1>2, <1>3 DEF Kinds, Modes, Colors
  <2>2. kind \in [Objects -> Kinds] /\ color \in [Objects -> Colors]
    BY <1>2, Types
  <2> QED BY <1>1, <1>2, <2>1, <2>2
<1>5. Allocated' = Allocated \union {o}
  <2>1. \A p \in Objects : kind'[p] # "free" <=> (kind[p] # "free" \/ p = o)
    BY <1>1, <1>2, <1>4
  <2> QED BY <1>2, <2>1 DEF Allocated
<1>6. Alive' = Alive \union {o}
  <2>1. \A p \in Allocated : color'[p] = color[p]
    BY <1>2, <1>4 DEF Allocated
  <2> QED BY <1>3, <1>4, <1>5, <2>1 DEF Alive
<1> DEFINE t == <<o>> \o list["allgc"]
<1>7. /\ Linked(list', Allocated') /\ Range(list'["allgc"]) = Range(list["allgc"]) \union {o}
      /\ \A m \in ListNames \ {"allgc"} : list'[m] = list[m]
      /\ \A x : Through(list'["allgc"], x) \subseteq {o} \union Through(list["allgc"], x)
  <2>1. "allgc" \in ListNames /\ o \in Objects \ Allocated /\ Linked(list, Allocated)
    BY <1>2, Types DEF ListNames
  <2>2. list \in [ListNames -> Seq(Objects)] /\ IsInjective(list["allgc"]) /\ o \notin Range(list["allgc"])
    BY <2>1 DEF Linked
  <2>3. /\ t \in Seq(Objects) /\ Range(t) = {o} \union Range(list["allgc"])
        /\ IsInjective(t) /\ \A x : Through(t, x) \subseteq {o} \union Through(list["allgc"], x)
    BY <2>1, <2>2, LinkIs
  <2>4. list' = [list EXCEPT !["allgc"] = t]
    BY <1>1, <2>1, <2>2
  <2> HIDE DEF t
  <2>5. Replaces(list', list, "allgc", t)
    BY <2>1, <2>2, <2>3, <2>4, ReplacesIs
  <2>6. list'["allgc"] = t /\ \A m \in ListNames \ {"allgc"} : list'[m] = list[m]
    BY <2>5 DEF Replaces
  <2>7. Linked(list', Allocated \union {o})
    BY <2>1, <2>3, <2>5, LinkedMore
  <2> QED BY <1>5, <2>3, <2>6, <2>7
<1> HIDE DEF t
<1>8. entries[o] = {}
  BY <1>2 DEF IInv, AliveIsClosed
<1>9. /\ entries' \in [Objects -> SUBSET Entry]
      /\ entries'[Main] = entries[Main] \union {[key |-> NoKey, value |-> o]}
      /\ \A p \in Objects \ {Main} : entries'[p] = entries[p]
  <2>1. entries \in [Objects -> SUBSET Entry]
    BY <1>2, Types
  <2>2. [key |-> NoKey, value |-> o] \in Entry
    BY <1>2 DEF Entry
  <2> QED BY <1>1, <1>2, <2>1, <2>2 DEF Push
<1>10. /\ Refs(Main)' = Refs(Main) \union {o} /\ \A p \in Objects \ {Main} : Refs(p)' = Refs(p)
       /\ Refs(o) = {}
  <2>1. \A p : Refs(p)' = RefsOf(entries'[p])
    BY <1>1, <1>3, InWordsThen DEF RefsIn
  <2>2. RefsOf({}) = {}
    BY DEF RefsOf
  <2>3. RefsOf(entries'[Main]) = Refs(Main) \union {o}
    BY <1>9, PushedRefs
  <2> QED BY <1>8, <1>9, <2>1, <2>2, <2>3, RefsOfEntries
<1>11. TypeOK'
  <2>1. /\ gray \in SUBSET Objects /\ grayagain \in SUBSET Objects /\ gcstate \in States /\ currentwhite \in Whites
        /\ sweepgc \in Objects \union ListNames \union {"none"} /\ goals \in Seq(States \union {"resume"})
        /\ gcemergency \in BOOLEAN /\ gcstp \in BOOLEAN /\ program \in Programs
    BY <1>2, Types
  <2> QED BY <1>1, <1>4, <1>7, <1>9, <2>1, TypeThen
<1>12. AliveIsClosed'
  <2>1. Roots \union Range(list'["finobj"]) \union Range(list'["tobefnz"]) \subseteq Alive'
    <3>1. "finobj" \in ListNames \ {"allgc"} /\ "tobefnz" \in ListNames \ {"allgc"}
      BY DEF ListNames
    <3> QED BY <1>6, <1>7, <3>1 DEF IInv, AliveIsClosed
  <2>2. \A p \in Alive' : Refs(p)' \subseteq Alive'
    BY <1>2, <1>6, <1>10, HeldIsAlive
  <2>3. \A p \in Objects \ Allocated' : entries'[p] = {}
    <3>1. Main \in Allocated
      BY HeldIsAlive DEF Roots
    <3> QED BY <1>5, <1>9, <3>1 DEF IInv, AliveIsClosed
  <2>4. gcstate' \notin {"swpallgc", "swpfinobj", "swptobefnz"} => Alive' = Allocated'
    BY <1>1, <1>5, <1>6 DEF IInv, AliveIsClosed
  <2> QED BY <2>1, <2>2, <2>3, <2>4 DEF AliveIsClosed
<1>13. StacksAreGray'
  <2>1. currentwhite # "black"
    BY <1>3 DEF Whites
  <2> QED BY <1>1, <1>2, <1>4, <2>1 DEF IInv, StacksAreGray, keepinvariant
<1>14. MainInvariant'
  <2> SUFFICES ASSUME keepinvariant
               PROVE  /\ \A p \in Allocated' : color'[p] = "black" => \A v \in Refs(p)' : color'[v] \notin Whites
                      /\ {p \in Allocated' : color'[p] = "gray"} = gray' \union grayagain'
    BY <1>1 DEF MainInvariant, White, keepinvariant
  <2>1. currentwhite # "black" /\ currentwhite # "gray"
    BY <1>3 DEF Whites
  <2>2. color[Main] # "black"
    BY <1>2 DEF IInv, StacksAreGray
  <2>3. ASSUME NEW p \in Allocated', color'[p] = "black", NEW v \in Refs(p)' PROVE color'[v] \notin Whites
    <3>1. p # o /\ p # Main /\ p \in Allocated /\ p \in Objects
      BY <1>2, <1>4, <1>5, <2>1, <2>2, <2>3 DEF Allocated
    <3>2. v \in Refs(p) /\ color[p] = "black"
      BY <1>4, <1>10, <2>3, <3>1
    <3>3. color[v] \notin Whites
      BY <3>1, <3>2 DEF IInv, MainInvariant, White
    <3>4. v \in Alive
      <4>1. p \in Alive
        BY <3>1 DEF IInv, AliveIsClosed, keepinvariant
      <4> QED BY <3>2, <4>1, HeldIsAlive
    <3>5. v # o /\ v \in Objects
      BY <1>2, <3>4, HeldIsAlive
    <3> QED BY <1>4, <3>3, <3>5
  <2>4. {p \in Allocated' : color'[p] = "gray"} = {p \in Allocated : color[p] = "gray"}
    <3>1. \A p \in Allocated : p \in Objects \ {o}
      BY <1>2 DEF Allocated
    <3> QED BY <1>4, <1>5, <2>1, <3>1
  <2> QED BY <1>1, <2>3, <2>4 DEF IInv, MainInvariant
<1>15. SweepAdvances'
  <2>1. \A l \in ListNames : Range(list[l]) \subseteq Range(list'[l])
    BY <1>7
  <2>2. \A l \in ListNames : Passed(l)' \subseteq Passed(l) \union {o}
    <3> TAKE l \in ListNames
    <3>1. Range(list'[l]) \subseteq Range(list[l]) \union {o} /\ Through(list'[l], sweepgc) \subseteq Through(list[l], sweepgc) \union {o}
      BY <1>7
    <3> QED BY <1>1, <3>1 DEF Passed, Swept, Sweeping
  <2>3. \A l \in ListNames : \A p \in Passed(l)' : color'[p] = currentwhite
    <3> SUFFICES ASSUME NEW l \in ListNames, NEW p \in Passed(l), p # o PROVE color'[p] = currentwhite
      BY <1>4, <2>2
    <3>1. color[p] = currentwhite
      BY DEF IInv, SweepAdvances
    <3>2. p \in Objects
      <4>1. list[l] \in Seq(Objects)
        BY <1>2, Types DEF Linked
      <4> QED BY <4>1 DEF Passed, Range, Through
    <3> QED BY <1>4, <3>1, <3>2
  <2> QED BY <1>1, <2>1, <2>3 DEF IInv, SweepAdvances, Sweeping
<1> QED BY <1>11, <1>12, <1>13, <1>14, <1>15 DEF IInv

\* Another mode of a table.
LEMMA SetModeKeeps ==
  ASSUME IInv, program' = program, NEW t, NEW mode, SetMode(t, mode)
  PROVE  IInv'
<1>1. /\ t \in Alive /\ t \in Objects /\ kind[t] \in Modes /\ mode \in Modes /\ kind' = [kind EXCEPT ![t] = mode]
  BY HeldIsAlive DEF SetMode
<1>2. UNCHANGED <<entries, list, color, gray, grayagain, gcstate, currentwhite, sweepgc, goals, gcemergency, gcstp>>
  BY DEF SetMode, markVars, phaseVars, modeVars
<1>3. TypeOK /\ kind \in [Objects -> Kinds]
  BY Types DEF IInv
<1>4. kind' \in [Objects -> Kinds] /\ \A o \in Objects : (kind'[o] = "free" <=> kind[o] = "free")
      /\ (kind'[o] = "thread" <=> kind[o] = "thread")
  BY <1>1, <1>3 DEF Kinds, Modes
<1>5. Allocated' = Allocated
  BY <1>4 DEF Allocated
<1>6. \A o : Refs(o)' = Refs(o) /\ White(o)' = White(o)
  BY <1>2 DEF Refs, Values, Keys, White
<1>7. TypeOK'
  BY <1>2, <1>3, <1>4, <1>5, Types, TypeThen
<1>8. AliveIsClosed'
  BY <1>2, <1>5, <1>6 DEF IInv, AliveIsClosed, Alive, otherwhite
<1>9. StacksAreGray'
  BY <1>2, <1>4, Names DEF IInv, StacksAreGray, keepinvariant
<1>10. MainInvariant'
  BY <1>2, <1>5, <1>6 DEF IInv, MainInvariant, keepinvariant
<1>11. SweepAdvances'
  BY <1>2 DEF IInv, SweepAdvances, Passed, Swept, Sweeping
<1> QED BY <1>7, <1>8, <1>9, <1>10, <1>11 DEF IInv

-----------------------------------------------------------------------------
(* Sweeping.                                                               *)

\* What is behind the next field p of the list named l.
Behind(l, p) == IF p \in ListNames THEN {} ELSE Through(list[l], p)

\* These are the objects up to p.
LEMMA BehindIs ==
  ASSUME NEW used, Linked(list, used), NEW l \in ListNames, NEW p \in {l} \union Range(list[l])
  PROVE  Between(list[l], 1, IndexOf(p)) = Behind(l, p)
<1> DEFINE s == list[l]
           k == IndexOf(p)
<1>1. s \in Seq(Objects) /\ IsInjective(s) /\ Place(s, l, k, p)
  BY PlaceIs DEF Linked
<1>2. DOMAIN s = 1..Len(s) /\ Len(s) \in Nat
  BY <1>1
<1>3. CASE p = l
  <2>1. k = 0
    BY <1>3 DEF IndexOf
  <2>2. Behind(l, p) = {}
    BY <1>3 DEF Behind
  <2> QED BY <2>1, <2>2 DEF Between
<1>4. CASE p \in Range(s)
  <2>1. p \in Objects /\ p \notin ListNames
    BY <1>1, <1>4, Names DEF Range
  <2>2. Behind(l, p) = Through(s, p)
    BY <2>1 DEF Behind
  <2> HIDE DEF s, k
  <2>3. k # 0 /\ k \in 1..Len(s) /\ p = s[k]
    BY <1>1, <2>1 DEF Place
  <2>4. \A h \in DOMAIN s : s[h] = p => h = k
    BY <1>1, <1>2, <2>3 DEF IsInjective
  <2>5. ASSUME NEW j \in DOMAIN s PROVE (\E h \in DOMAIN s : s[h] = p /\ j <= h) <=> j \in 1..k
    BY <1>2, <2>3, <2>4
  <2>6. {j \in DOMAIN s : \E h \in DOMAIN s : s[h] = p /\ j <= h} = 1..k
    BY <1>2, <2>3, <2>5
  <2>7. Through(s, p) = Between(s, 1, k)
    BY <2>6 DEF Through, Between
  <2> QED BY <2>2, <2>7 DEF s, k
<1> QED BY <1>3, <1>4

\* Where sweeptolive stops.
LEMMA FirstLiveIs ==
  ASSUME NEW used, Linked(list, used), NEW l \in ListNames, NEW p \in {l} \union Range(list[l]),
         NEW c, NEW w
  PROVE  /\ FirstLive(p, c, w) \in Nat
         /\ IndexOf(p) <= FirstLive(p, c, w) /\ FirstLive(p, c, w) <= Len(list[l])
         /\ \/ FirstLive(p, c, w) = Len(list[l])
            \/ IndexOf(p) < FirstLive(p, c, w) /\ c[list[l][FirstLive(p, c, w)]] \notin Whites \ {w}
<1> DEFINE s == list[l]
           k == IndexOf(p)
           live == {i \in (k + 1)..Len(s) : c[s[i]] \notin Whites \ {w}}
           n == FirstLive(p, c, w)
<1>1. s \in Seq(Objects) /\ ListOf(p) = l /\ k \in 0..Len(s)
  BY PlaceIs DEF Linked, Place
<1>2. n = IF live = {} THEN Len(s) ELSE CHOOSE i \in live : \A j \in live : i <= j
  BY <1>1 DEF FirstLive
<1>3. Len(s) \in Nat /\ k \in Nat /\ k <= Len(s)
  BY <1>1
<1> HIDE DEF s, k, n
<1>4. CASE live = {}
  BY <1>2, <1>3, <1>4 DEF s, k, n
<1>5. CASE live # {}
  <2>1. live \in SUBSET Nat
    BY <1>3
  <2>2. \E i \in live : \A j \in live : i <= j
    <3> HIDE DEF live
    <3> QED BY <1>5, <2>1, LeastExists
  <2>3. n \in live
    BY <1>2, <1>5, <2>2
  <2>4. n \in Nat /\ k < n /\ n <= Len(s) /\ c[s[n]] \notin Whites \ {w}
    BY <1>3, <2>3
  <2> QED BY <1>3, <2>4 DEF s, k, n
<1> QED BY <1>4, <1>5

\* How far the sweep of the list s, named l, is when it goes on at q: what it
\* has passed has the colour w.
Advances(q, s, c, l, w) ==
    /\ q \in {l, "none"} \union Range(s)
    /\ \A o \in (IF q = "none" THEN Range(s) ELSE IF q \in Objects THEN Through(s, q) ELSE {}) : c[o] = w

\* A sweep advances.  The lists it works on may have lost the object p to
\* another list, if the sweep goes on up to a live object.
LEMMA SweepGoesOn ==
  ASSUME NEW used, Linked(list, used), NEW l \in ListNames, NEW p \in {l} \union Range(list[l]),
         NEW n \in Nat, IndexOf(p) <= n, n <= Len(list[l]), NEW c, NEW es,
         NEW ls, Linked(ls, used), NEW w, Sweep(p, n, c, es, ls, w),
         Range(ls[l]) \subseteq Range(list[l]), Range(list[l]) \ {p} \subseteq Range(ls[l]),
         \A x : Through(ls[l], x) \subseteq Through(list[l], x),
         \/ p \in {l} \union Range(ls[l])
         \/ n = Len(list[l])
         \/ IndexOf(p) < n /\ c[list[l][n]] \notin Whites \ {w},
         \A o \in Behind(l, p) : c[o] = w
  PROVE  Advances(sweepgc', list'[l], color', l, w)
<1> DEFINE s == list[l]
           k == IndexOf(p)
           seen == Between(s, k + 1, n)
           dead == Dead(seen, c, w)
           q == sweepgc'
<1>1. s \in Seq(Objects) /\ IsInjective(s) /\ Place(s, l, k, p) /\ l \notin Objects /\ k \in Nat
  <2>1. Place(s, l, k, p)
    BY PlaceIs
  <2>2. s \in Seq(Objects) /\ IsInjective(s) /\ l \notin Objects
    BY Names DEF Linked
  <2> QED BY <2>1, <2>2 DEF Place
<1>2. /\ Frees(seen, dead, c, es, ls, w) /\ seen \subseteq Range(s)
      /\ q = NextPlace(s, p, k, n, dead)
  <2>1. SweepsUp(list[l], p, IndexOf(p), n, seen, dead, c, es, ls, w)
    <3>1. seen = Between(list[l], IndexOf(p) + 1, n) /\ dead = Dead(seen, c, w)
      OBVIOUS
    <3> HIDE DEF seen, dead
    <3> QED BY <3>1, SweepIs, Zenon
  <2> HIDE DEF seen, dead
  <2> QED BY <2>1 DEF SweepsUp
<1>3. Between(s, 1, k) = Behind(l, p)
  BY BehindIs
<1>4. dead \subseteq seen /\ \A o \in seen : o \in dead <=> c[o] \in Whites \ {w}
  BY DEF Dead
<1>5. k <= n /\ n <= Len(s)
  OBVIOUS
<1> HIDE DEF dead, seen, k, q
<1>6. \/ q = "none" /\ Range(s) \subseteq Behind(l, p) \union seen
      \/ q = p /\ q \notin dead /\ seen \subseteq dead
      \/ /\ q \in Range(s) \ dead /\ q \in seen
         /\ Through(s, q) \subseteq Behind(l, p) \union seen
  <2>1. dead \in SUBSET Between(s, k + 1, n)
    BY <1>4 DEF seen
  <2>2. q = NextPlace(s, p, k, n, dead)
    BY <1>2
  <2> QED BY <1>1, <1>3, <1>5, <2>1, <2>2, NextPlaceIs DEF seen
<1>7. list'[l] = Without(ls[l], dead) /\ ls[l] \in Seq(Objects)
  BY <1>2 DEF Frees, Linked
<1>8. /\ Range(list'[l]) = Range(ls[l]) \ dead
      /\ \A x : Through(list'[l], x) \subseteq Through(s, x) \intersect Range(list'[l])
  <2>1. \A x : Through(list'[l], x) \subseteq Through(ls[l], x)
    BY <1>7, WithoutIs
  <2>2. \A x : Through(list'[l], x) \subseteq Range(list'[l])
    BY DEF Through, Range
  <2>3. Range(list'[l]) = Range(ls[l]) \ dead
    BY <1>7, WithoutIs
  <2>4. \A x : Through(ls[l], x) \subseteq Through(s, x)
    OBVIOUS
  <2> QED BY <2>1, <2>2, <2>3, <2>4
<1>9. \A o \in Range(s) : o \in Objects /\ o # "none" /\ o \notin ListNames
  BY <1>1, Names DEF Range
<1>10. ASSUME NEW o \in (Behind(l, p) \union seen) \intersect Range(list'[l]) PROVE color'[o] = w
  <2>1. o \in Objects /\ o \notin dead
    BY <1>8, <1>9
  <2>2. color'[o] = IF o \in seen THEN w ELSE c[o]
    BY <1>2, <2>1 DEF Frees
  <2> QED BY <2>2
<1>11. CASE q = "none" /\ Range(s) \subseteq Behind(l, p) \union seen
  <2>1. Range(list'[l]) \subseteq Range(s)
    BY <1>8
  <2> QED BY <1>10, <1>11, <2>1 DEF Advances, q
<1>12. CASE q = p /\ q \notin dead /\ seen \subseteq dead /\ q # "none"
  <2>1. p \in {l} \union Range(ls[l])
    <3>1. CASE n = Len(s)
      BY <1>2, <1>12, <3>1 DEF NextPlace
    <3>2. CASE k < n /\ c[s[n]] \notin Whites \ {w}
      <4>1. n \in (k + 1)..n
        BY <1>1, <3>2
      <4>2. s[n] \in seen /\ s[n] \notin dead
        BY <1>4, <3>2, <4>1 DEF seen, Between
      <4> QED BY <1>12, <4>2
    <3> QED BY <3>1, <3>2 DEF k
  <2>2. q \in {l} \union Range(list'[l])
    BY <1>8, <1>12, <2>1
  <2>3. Through(list'[l], q) \subseteq Behind(l, p) \/ q \notin Objects
    BY <1>8, <1>12, Names DEF Behind
  <2> QED BY <1>8, <1>10, <1>12, <2>2, <2>3 DEF Advances, q
<1>13. CASE /\ q \in Range(s) \ dead /\ q \in seen
            /\ Through(s, q) \subseteq Behind(l, p) \union seen
  <2>1. q # p
    <3>1. CASE k = 0
      <4>1. p \notin Objects
        BY <1>1, <3>1 DEF Place
      <4> QED BY <1>9, <1>13, <4>1
    <3>2. CASE k # 0
      <4>1. PICK i \in (k + 1)..n : q = s[i]
        BY <1>13 DEF seen, Between
      <4>2. DOMAIN s = 1..Len(s) /\ Len(s) \in Nat
        BY <1>1
      <4>3. p = s[k] /\ k \in DOMAIN s /\ i \in DOMAIN s /\ i # k
        BY <1>1, <1>5, <3>2, <4>1, <4>2 DEF Place
      <4> QED BY <1>1, <4>1, <4>3 DEF IsInjective
    <3> QED BY <3>1, <3>2
  <2>2. q \in Range(list'[l])
    BY <1>8, <1>13, <2>1
  <2>3. q # "none"
    BY <1>9, <1>13
  <2>4. \A o \in Through(list'[l], q) : color'[o] = w
    BY <1>8, <1>10, <1>13
  <2> QED BY <2>2, <2>3, <2>4 DEF Advances, q
<1>14. p # "none"
  BY <1>9, Names
<1> QED BY <1>6, <1>11, <1>12, <1>13, <1>14

\* What a sweep does with lists, colours and entries in which what is alive is closed.
LEMMA SweepKeepsAlive ==
  ASSUME kind \in [Objects -> Kinds], NEW c \in [Objects -> Colors], NEW es \in [Objects -> SUBSET Entry],
         Linked(list, Allocated), NEW ls, Linked(ls, Allocated), NEW w \in Whites,
         LiveClosed(Allocated, es, c, ls, w),
         NEW l \in ListNames, NEW p \in {l} \union Range(list[l]),
         NEW n \in Nat, IndexOf(p) <= n, n <= Len(list[l]), Sweep(p, n, c, es, ls, w)
  PROVE  \E seen \in SUBSET Range(list[l]), dead \in SUBSET Range(list[l]) :
            Frees(seen, dead, c, es, ls, w) /\ Leaves(dead, c, es, ls, w)
<1> DEFINE seen == Between(list[l], IndexOf(p) + 1, n)
           dead == Dead(seen, c, w)
<1>1. SweepsUp(list[l], p, IndexOf(p), n, seen, dead, c, es, ls, w)
  <2>1. seen = Between(list[l], IndexOf(p) + 1, n) /\ dead = Dead(seen, c, w)
    OBVIOUS
  <2> HIDE DEF seen, dead
  <2> QED BY <2>1, SweepIs, Zenon
<1>2. dead \subseteq seen
  BY DEF Dead
<1> HIDE DEF seen, dead
<1>3. /\ Frees(seen, dead, c, es, ls, w)
      /\ seen \in SUBSET Range(list[l]) /\ dead \in SUBSET Range(list[l])
  BY <1>1, <1>2 DEF SweepsUp
<1>4. seen \in SUBSET Allocated
  BY <1>3 DEF Linked
<1>5. Leaves(dead, c, es, ls, w)
  BY <1>3, <1>4, SweepFrees
<1> QED BY <1>3, <1>5

\* A step that sweeps, from lists, colours and entries in which what is alive is
\* closed, and that leaves the lists alone that have been swept.
LEMMA SweepKeeps ==
  ASSUME IInv, program' = program,
         NEW c \in [Objects -> Colors], NEW es \in [Objects -> SUBSET Entry],
         NEW ls, Linked(ls, Allocated), NEW w \in Whites, LiveClosed(Allocated, es, c, ls, w),
         NEW l \in ListNames, NEW p \in {l} \union Range(list[l]),
         NEW n \in Nat, IndexOf(p) <= n, n <= Len(list[l]), Sweep(p, n, c, es, ls, w),
         Range(ls[l]) \subseteq Range(list[l]), Range(list[l]) \ {p} \subseteq Range(ls[l]),
         \A x : Through(ls[l], x) \subseteq Through(list[l], x),
         \/ p \in {l} \union Range(ls[l])
         \/ n = Len(list[l])
         \/ IndexOf(p) < n /\ c[list[l][n]] \notin Whites \ {w},
         \A o \in Behind(l, p) : c[o] = w,
         gcstate' \in {"swpallgc", "swpfinobj", "swptobefnz"}, Sweeping(l)', currentwhite' = w,
         \A m \in ListNames : Swept(m)' => ls[m] = list[m] /\ \A o \in Range(list[m]) : c[o] = w,
         gray' \in SUBSET Objects, grayagain' \in SUBSET Objects,
         goals' \in Seq(States \union {"resume"}), gcemergency' \in BOOLEAN, gcstp' \in BOOLEAN
  PROVE  IInv'
<1>1. kind \in [Objects -> Kinds] /\ Linked(list, Allocated) /\ program \in Programs /\ TypeOK
  BY Types DEF IInv
<1>2. PICK seen \in SUBSET Range(list[l]), dead \in SUBSET Range(list[l]) :
            Frees(seen, dead, c, es, ls, w) /\ Leaves(dead, c, es, ls, w)
  BY <1>1, SweepKeepsAlive
<1>9. /\ kind' \in [Objects -> Kinds] /\ color' \in [Objects -> Colors]
      /\ entries' \in [Objects -> SUBSET Entry]
      /\ dead \intersect LiveIn(Allocated, c, w) = {}
      /\ \A m \in ListNames : Range(list'[m]) = Range(ls[m]) \ dead
      /\ Linked(list', Allocated')
      /\ LiveIn(Allocated', color', w) = LiveIn(Allocated, c, w)
      /\ LiveClosed(Allocated', entries', color', list', w)
  BY <1>2 DEF Leaves
<1>3. Advances(sweepgc', list'[l], color', l, w)
  BY <1>1, SweepGoesOn
<1>4. TypeOK'
  <2>1. sweepgc' \in Objects \union ListNames \union {"none"}
    <3>1. list'[l] \in Seq(Objects)
      BY <1>9 DEF Linked
    <3>2. Range(list'[l]) \subseteq Objects
      BY <3>1 DEF Range
    <3> QED BY <1>3, <3>2 DEF Advances
  <2>2. gcstate' \in States
    BY DEF States
  <2> QED BY <1>1, <1>9, <2>1, <2>2, TypeThen
<1>5. AliveIsClosed'
  BY <1>9, InWordsThen
<1>6. StacksAreGray'
  <2>1. Main \in Objects \ dead
    <3>1. Main \in LiveIn(Allocated, c, w)
      BY DEF LiveClosed, Roots
    <3> QED BY <1>9, <3>1, Names
  <2>2. kind'[Main] = kind[Main]
    BY <1>2, <2>1 DEF Frees
  <2> QED BY <2>2 DEF IInv, StacksAreGray, keepinvariant
<1>7. MainInvariant'
  BY DEF MainInvariant, keepinvariant
<1>8. SweepAdvances'
  <2>1. \A m \in ListNames : Sweeping(m)' <=> m = l
    BY DEF Sweeping
  <2>2. ASSUME NEW m \in ListNames, NEW o \in Passed(m)' PROVE color'[o] = w
    <3>1. CASE m = l
      <4>1. Passed(m)' = IF sweepgc' = "none" THEN Range(list'[l])
                         ELSE IF sweepgc' \in Objects THEN Through(list'[l], sweepgc') ELSE {}
        <5>1. ~ Swept(m)' /\ Sweeping(m)'
          BY <3>1 DEF Sweeping, Swept
        <5> QED BY <3>1, <5>1 DEF Passed
      <4> QED BY <1>3, <2>2, <4>1 DEF Advances
    <3>2. CASE m # l
      <4>1. Swept(m)' /\ o \in Range(list'[m])
        BY <2>1, <2>2, <3>2 DEF Passed
      <4>2. o \in Range(list[m]) /\ c[o] = w /\ o \notin dead
        BY <1>9, <4>1
      <4>3. o \notin seen /\ o \in Objects
        <5>1. Range(list[m]) \intersect Range(list[l]) = {} /\ list[m] \in Seq(Objects)
          BY <1>1, <3>2 DEF Linked
        <5>2. Range(list[m]) \subseteq Objects
          BY <5>1 DEF Range
        <5> QED BY <4>2, <5>1, <5>2
      <4> QED BY <1>2, <4>2, <4>3 DEF Frees
    <3> QED BY <3>1, <3>2
  <2> QED BY <1>3, <2>1, <2>2 DEF SweepAdvances, Advances
<1> QED BY <1>4, <1>5, <1>6, <1>7, <1>8 DEF IInv

\* The invariant says that what is alive is closed for a sweep with the current white.
LEMMA SweepReady ==
  ASSUME IInv
  PROVE  /\ color \in [Objects -> Colors] /\ entries \in [Objects -> SUBSET Entry]
         /\ Linked(list, Allocated) /\ currentwhite \in Whites
         /\ LiveClosed(Allocated, entries, color, list, currentwhite)
         /\ Alive = LiveIn(Allocated, color, currentwhite)
BY Types, InWords DEF IInv

\* A step of the sweep.
LEMMA SweepstepKeeps ==
  ASSUME IInv, program' = program, sweepstep
  PROVE  IInv'
<1>1. /\ gcstate \in {"swpallgc", "swpfinobj", "swptobefnz"} /\ gray' = gray /\ grayagain' = grayagain
      /\ currentwhite' = currentwhite /\ goals' = goals /\ gcemergency' = gcemergency /\ gcstp' = gcstp
  BY DEF sweepstep, modeVars
<1>2. /\ gray \in SUBSET Objects /\ grayagain \in SUBSET Objects /\ goals \in Seq(States \union {"resume"})
      /\ gcemergency \in BOOLEAN /\ gcstp \in BOOLEAN /\ program \in Programs
      /\ kind \in [Objects -> Kinds] /\ Linked(list, Allocated)
  BY Types DEF IInv
<1>3. PICK l \in ListNames : Sweeping(l)
  BY <1>1 DEF Sweeping, ListNames
<1>4. \A m \in ListNames : Sweeping(m) <=> m = l
  BY <1>3 DEF Sweeping
<1>5. sweepgc \in {l, "none"} \union Range(list[l])
  BY <1>3 DEF IInv, SweepAdvances
<1>6. ASSUME NEW m \in ListNames, Swept(m), NEW o \in Range(list[m]) PROVE color[o] = currentwhite
  BY <1>6 DEF IInv, SweepAdvances, Passed
<1>7. CASE sweepgc # "none"
  <2> DEFINE len == Len(list[ListOf(sweepgc)])
             max == IndexOf(sweepgc) + GCSWEEPMAX
             n   == IF goals # << >> \/ max > len THEN len ELSE max
  <2>1. Sweep(sweepgc, n, color, entries, list, currentwhite) /\ gcstate' = gcstate
    BY <1>7 DEF sweepstep
  <2>2. sweepgc \in {l} \union Range(list[l])
    BY <1>5, <1>7
  <2>3. len = Len(list[l]) /\ len \in Nat /\ IndexOf(sweepgc) \in 0..len
    <3>1. ListOf(sweepgc) = l /\ Place(list[l], l, IndexOf(sweepgc), sweepgc)
      BY <1>2, <2>2, PlaceIs
    <3>2. list[l] \in Seq(Objects)
      BY <1>2 DEF Linked
    <3> QED BY <3>1, <3>2 DEF Place
  <2>4. GCSWEEPMAX \in Nat
    BY BoundAssumption
  <2> HIDE DEF len
  <2>5. n \in Nat /\ IndexOf(sweepgc) <= n /\ n <= len
    BY <2>3, <2>4
  <2> HIDE DEF n
  <2>6. \A o \in Behind(l, sweepgc) : color[o] = currentwhite
    <3>1. CASE sweepgc \in ListNames
      BY <3>1 DEF Behind
    <3>2. CASE sweepgc \notin ListNames
      <4>1. sweepgc \in Objects
        BY <1>7, <3>2, Types DEF IInv
      <4>2. Behind(l, sweepgc) = Through(list[l], sweepgc)
        BY <3>2 DEF Behind
      <4>3. Behind(l, sweepgc) \subseteq Passed(l)
        <5>1. Through(list[l], sweepgc) \subseteq Range(list[l])
          BY DEF Through, Range
        <5> QED BY <1>3, <1>7, <4>1, <4>2, <5>1 DEF Passed
      <4> QED BY <4>3 DEF IInv, SweepAdvances
    <3> QED BY <3>1, <3>2
  <2>7. Sweeping(l)' /\ gcstate' \in {"swpallgc", "swpfinobj", "swptobefnz"}
        /\ \A m \in ListNames : Swept(m)' <=> Swept(m)
    BY <1>1, <1>3, <2>1 DEF Sweeping, Swept
  <2>8. /\ gray' \in SUBSET Objects /\ grayagain' \in SUBSET Objects
        /\ goals' \in Seq(States \union {"resume"}) /\ gcemergency' \in BOOLEAN /\ gcstp' \in BOOLEAN
    BY <1>1, <1>2
  <2>9. \A m \in ListNames : Swept(m)' => list[m] = list[m] /\ \A o \in Range(list[m]) : color[o] = currentwhite
    BY <1>6, <2>7
  <2> QED BY <1>1, <2>1, <2>2, <2>3, <2>5, <2>6, <2>7, <2>8, <2>9, SweepReady, SweepKeeps
<1>8. CASE sweepgc = "none"
  <2>1. /\ gcstate' = NextState /\ sweepgc' = NextList /\ kind' = kind /\ entries' = entries /\ list' = list
        /\ color' = color
    BY <1>8 DEF sweepstep, heapVars
  <2>2. gcstate' \in {"swpfinobj", "swptobefnz", "swpend"} /\ sweepgc' \in {"finobj", "tobefnz", "none"}
        /\ Allocated' = Allocated /\ otherwhite' = otherwhite
        /\ (gcstate' = "swpend" => sweepgc' = "none" /\ gcstate = "swptobefnz")
        /\ \A m \in ListNames : /\ Swept(m)' <=> Swept(m) \/ Sweeping(m)
                                                 \/ (gcstate' = "swpend" /\ m = "tobefnz")
                                /\ Sweeping(m)' => sweepgc' = m
    BY <1>1, <2>1 DEF NextState, NextList, Swept, Sweeping, Allocated, otherwhite, ListNames
  <2>3. TypeOK'
    <3>1. gcstate' \in States /\ sweepgc' \in Objects \union ListNames \union {"none"}
      BY <2>2 DEF States, ListNames
    <3>2. color \in [Objects -> Colors] /\ entries \in [Objects -> SUBSET Entry] /\ currentwhite \in Whites
      BY SweepReady
    <3> QED BY <1>1, <1>2, <2>1, <2>2, <3>1, <3>2, TypeThen
  <2>4. ASSUME NEW m \in ListNames, Swept(m)', NEW o \in Range(list[m]) PROVE color[o] = currentwhite
    <3>1. Swept(m) \/ Sweeping(m)
      BY <2>2, <2>4 DEF Sweeping
    <3>2. Passed(m) = Range(list[m])
      BY <1>8, <3>1 DEF Passed
    <3> QED BY <2>4, <3>2 DEF IInv, SweepAdvances
  <2>5. Alive' = Alive /\ \A o : Refs(o)' = Refs(o)
    BY <2>1, <2>2 DEF Alive, Refs, Values, Keys
  <2>6. gcstate' = "swpend" => Alive = Allocated
    <3> SUFFICES ASSUME gcstate' = "swpend", NEW o \in Allocated PROVE color[o] # otherwhite
      BY DEF Alive
    <3>1. PICK m \in ListNames : o \in Range(list[m])
      BY <1>2 DEF Linked
    <3>2. color[o] = currentwhite
      BY <2>4, <3>1 DEF Swept
    <3> QED BY <3>2, SweepReady DEF otherwhite, Whites
  <2>7. AliveIsClosed'
    BY <2>1, <2>2, <2>5, <2>6 DEF IInv, AliveIsClosed
  <2>8. StacksAreGray' /\ MainInvariant'
    BY <2>1, <2>2 DEF IInv, StacksAreGray, MainInvariant, keepinvariant
  <2>9. SweepAdvances'
    <3>1. ASSUME NEW m \in ListNames, NEW o \in Passed(m)' PROVE color'[o] = currentwhite'
      <4>1. Swept(m)'
        <5>1. ~ Sweeping(m)' \/ (sweepgc' # "none" /\ sweepgc' \notin Objects)
          BY <2>2, Names
        <5> QED BY <3>1, <5>1 DEF Passed
      <4>2. o \in Range(list[m])
        BY <2>1, <3>1, <4>1 DEF Passed
      <4> QED BY <1>1, <2>1, <2>4, <4>1, <4>2
    <3>2. \A m \in ListNames : Sweeping(m)' => sweepgc' \in {m, "none"} \union Range(list'[m])
      BY <2>2
    <3>3. gcstate' \notin {"swpallgc", "swpfinobj", "swptobefnz"} => sweepgc' = "none"
      BY <2>2
    <3> QED BY <3>1, <3>2, <3>3 DEF SweepAdvances
  <2> QED BY <2>3, <2>7, <2>8, <2>9 DEF IInv
<1> QED BY <1>7, <1>8

\* Through the whole of allgc: nothing is behind its head.
LEMMA FromHead ==
  ASSUME NEW used, Linked(list, used), NEW c, NEW w
  PROVE  /\ "allgc" \in ListNames /\ Behind("allgc", "allgc") = {}
         /\ FirstLive("allgc", c, w) \in Nat
         /\ IndexOf("allgc") <= FirstLive("allgc", c, w)
         /\ FirstLive("allgc", c, w) <= Len(list["allgc"])
<1>1. "allgc" \in ListNames /\ "allgc" \in {"allgc"} \union Range(list["allgc"])
  BY DEF ListNames
<1>2. Behind("allgc", "allgc") = {}
  BY <1>1 DEF Behind
<1> QED BY <1>1, <1>2, FirstLiveIs

\* A full collection starts.
LEMMA FullKeeps ==
  ASSUME IInv, program' = program, NEW b \in BOOLEAN, luaC_fullgc(b)
  PROVE  IInv'
<1>1. /\ goals' = <<"pause", "callfin", "pause">> \o (IF b THEN <<"resume">> ELSE << >>) \o goals
      /\ gcemergency' = b
      /\ gray' = gray /\ grayagain' = grayagain /\ currentwhite' = currentwhite /\ gcstp' = gcstp
  BY DEF luaC_fullgc
<1>2. /\ gray \in SUBSET Objects /\ grayagain \in SUBSET Objects /\ goals \in Seq(States \union {"resume"})
      /\ gcemergency \in BOOLEAN /\ gcstp \in BOOLEAN /\ gcstate \in States /\ program \in Programs
      /\ sweepgc \in Objects \union ListNames \union {"none"} /\ currentwhite \in Whites
      /\ kind \in [Objects -> Kinds] /\ Linked(list, Allocated)
  BY Types DEF IInv
<1>3. goals' \in Seq(States \union {"resume"})
  <2> DEFINE T == States \union {"resume"}
             a == <<"pause", "callfin", "pause">>
             d == IF b THEN <<"resume">> ELSE << >>
  <2>1. "pause" \in T /\ "callfin" \in T /\ "resume" \in T
    BY DEF States
  <2> HIDE DEF T
  <2>2. a \in Seq(T) /\ d \in Seq(T)
    BY <2>1
  <2>3. goals \in Seq(T)
    BY <1>2 DEF T
  <2> HIDE DEF a, d
  <2>4. a \o d \in Seq(T)
    BY <2>2
  <2>5. (a \o d) \o goals \in Seq(T)
    BY <2>3, <2>4
  <2>6. goals' = (a \o d) \o goals
    BY <1>1 DEF a, d
  <2> QED BY <2>5, <2>6 DEF T
<1>4. CASE keepinvariant /\ gcstate' = "swpallgc"
           /\ Sweep("allgc", FirstLive("allgc", color, currentwhite), color, entries, list, currentwhite)
  <2> DEFINE n == FirstLive("allgc", color, currentwhite)
  <2>1. /\ "allgc" \in ListNames /\ Behind("allgc", "allgc") = {}
        /\ n \in Nat /\ IndexOf("allgc") <= n /\ n <= Len(list["allgc"])
    BY <1>2, FromHead
  <2>2. Sweep("allgc", n, color, entries, list, currentwhite)
    BY <1>4
  <2> HIDE DEF n
  <2>3. Sweeping("allgc")' /\ \A m \in ListNames : ~ Swept(m)'
    BY <1>4 DEF Sweeping, Swept
  <2> QED BY <1>1, <1>2, <1>3, <1>4, <2>1, <2>2, <2>3, SweepReady, SweepKeeps
<1>5. CASE ~ keepinvariant /\ UNCHANGED <<heapVars, color, gcstate, sweepgc>>
  <2>1. /\ kind' = kind /\ entries' = entries /\ list' = list /\ color' = color
        /\ gcstate' = gcstate /\ sweepgc' = sweepgc
    BY <1>5 DEF heapVars
  <2>2. TypeOK'
    <3>1. Allocated' = Allocated
      BY <2>1 DEF Allocated
    <3> QED BY <1>1, <1>2, <1>3, <2>1, <3>1, SweepReady, TypeThen
  <2>3. AliveIsClosed'
    BY <1>1, <2>1 DEF IInv, AliveIsClosed, Alive, Allocated, otherwhite, Refs, Values, Keys
  <2>4. StacksAreGray' /\ MainInvariant'
    BY <1>5, <2>1 DEF IInv, StacksAreGray, MainInvariant, keepinvariant
  <2>5. SweepAdvances'
    BY <1>1, <2>1 DEF IInv, SweepAdvances, Passed, Swept, Sweeping
  <2> QED BY <2>2, <2>3, <2>4, <2>5 DEF IInv
<1> QED BY <1>4, <1>5 DEF luaC_fullgc

\* An object gets a finalizer.
LEMMA FinalizerKeeps ==
  ASSUME IInv, program' = program, NEW o, luaC_checkfinalizer(o)
  PROVE  IInv'
<1> DEFINE c  == IF issweepphase THEN [color EXCEPT ![o] = currentwhite] ELSE color
           s  == Without(list["allgc"], {o})
           ls == [list EXCEPT !["allgc"] = Without(@, {o}), !["finobj"] = <<o>> \o @]
<1>1. /\ gray' = gray /\ grayagain' = grayagain /\ currentwhite' = currentwhite /\ gcstp' = gcstp
      /\ goals' = goals /\ gcemergency' = gcemergency /\ gcstate' = gcstate
      /\ o \in Held \ Roots /\ ~ tofinalize(o)
  BY DEF luaC_checkfinalizer, modeVars
<1>2. /\ gray \in SUBSET Objects /\ grayagain \in SUBSET Objects /\ goals \in Seq(States \union {"resume"})
      /\ gcemergency \in BOOLEAN /\ gcstp \in BOOLEAN /\ gcstate \in States /\ program \in Programs
      /\ sweepgc \in Objects \union ListNames \union {"none"} /\ currentwhite \in Whites
      /\ kind \in [Objects -> Kinds] /\ Linked(list, Allocated) /\ color \in [Objects -> Colors]
      /\ entries \in [Objects -> SUBSET Entry]
  BY Types DEF IInv
<1>3. o \in Alive /\ o \in Allocated /\ o \in Objects
  BY <1>1, HeldIsAlive
<1>4. "allgc" \in ListNames /\ "finobj" \in ListNames /\ "tobefnz" \in ListNames
      /\ \A l \in ListNames : l \in {"allgc", "finobj", "tobefnz"}
  BY DEF ListNames
<1>5. o \in Range(list["allgc"])
  <2>1. PICK l \in ListNames : o \in Range(list[l])
    BY <1>2, <1>3 DEF Linked
  <2> QED BY <1>1, <1>4, <2>1 DEF tofinalize
<1>6. list["allgc"] \in Seq(Objects) /\ IsInjective(list["allgc"]) /\ list \in [ListNames -> Seq(Objects)]
  BY <1>2, <1>4 DEF Linked
<1>7. /\ s \in Seq(Objects) /\ Range(s) = Range(list["allgc"]) \ {o} /\ IsInjective(s)
      /\ \A x : Through(s, x) \subseteq Through(list["allgc"], x)
  BY <1>6, WithoutIs
<1>8. ls = [list EXCEPT !["allgc"] = s, !["finobj"] = <<o>> \o @]
  BY <1>4, <1>6
<1> HIDE DEF s, ls
<1>9. /\ Linked(ls, Allocated) /\ ls["allgc"] = s /\ Range(ls["finobj"]) = Range(list["finobj"]) \union {o}
      /\ \A x : Through(ls["finobj"], x) \subseteq {o} \union Through(list["finobj"], x)
      /\ ls["tobefnz"] = list["tobefnz"]
  <2>1. "finobj" # "allgc" /\ "tobefnz" \in ListNames \ {"allgc", "finobj"}
    BY <1>4
  <2>2. Linked(ls, Allocated) /\ Moves(ls, list, "allgc", "finobj", o, s)
    BY <1>2, <1>4, <1>5, <1>7, <1>8, <2>1, LinkedMoved
  <2> QED BY <2>1, <2>2 DEF Moves
<1>10. c \in [Objects -> Colors] /\ \A p \in Objects : c[p] = IF p = o /\ issweepphase THEN currentwhite ELSE color[p]
  <2>1. currentwhite \in Colors
    BY <1>2 DEF Colors
  <2> QED BY <1>2, <1>3, <2>1
<1> HIDE DEF c
<1>11. LiveIn(Allocated, c, currentwhite) = Alive
  <2>1. ASSUME NEW p \in Allocated PROVE c[p] \notin Whites \ {currentwhite} <=> color[p] \notin Whites \ {currentwhite}
    <3>1. p \in Objects
      BY DEF Allocated
    <3>2. color[o] \notin Whites \ {currentwhite}
      BY <1>3, SweepReady DEF LiveIn
    <3> QED BY <1>10, <3>1, <3>2
  <2>2. LiveIn(Allocated, c, currentwhite) = LiveIn(Allocated, color, currentwhite)
    BY <2>1 DEF LiveIn
  <2> QED BY <2>2, SweepReady
<1>12. LiveClosed(Allocated, entries, c, ls, currentwhite)
  BY <1>3, <1>9, <1>11, SweepReady DEF LiveClosed
<1>13. CASE issweepphase /\ sweepgc = o
            /\ Sweep(o, FirstLive(o, c, currentwhite), c, entries, ls, currentwhite)
  <2> DEFINE n == FirstLive(o, c, currentwhite)
  <2>1. gcstate = "swpallgc"
    <3>1. o # "none" /\ o \notin ListNames
      BY <1>3, Names
    <3>2. gcstate \in {"swpallgc", "swpfinobj", "swptobefnz"}
      BY <1>13, <3>1 DEF IInv, SweepAdvances
    <3>3. ASSUME NEW l \in ListNames, Sweeping(l) PROVE l = "allgc"
      <4>1. o \in Range(list[l])
        BY <1>13, <3>1, <3>3 DEF IInv, SweepAdvances
      <4> QED BY <1>2, <1>4, <1>5, <3>3, <4>1 DEF Linked
    <3> QED BY <1>4, <3>2, <3>3 DEF Sweeping
  <2>2. /\ n \in Nat /\ IndexOf(o) <= n /\ n <= Len(list["allgc"])
        /\ n = Len(list["allgc"]) \/ (IndexOf(o) < n /\ c[list["allgc"][n]] \notin Whites \ {currentwhite})
    <3>1. o \in {"allgc"} \union Range(list["allgc"])
      BY <1>5
    <3> QED BY <1>2, <1>4, <3>1, FirstLiveIs
  <2>3. Sweep(o, n, c, entries, ls, currentwhite)
    BY <1>13
  <2> HIDE DEF n
  <2>4. \A p \in Behind("allgc", o) : c[p] = currentwhite
    <3>1. Behind("allgc", o) = Through(list["allgc"], o)
      BY <1>3, Names DEF Behind
    <3>2. Passed("allgc") = Through(list["allgc"], o)
      BY <1>3, <1>13, <2>1, Names DEF Passed, Swept, Sweeping
    <3>3. Through(list["allgc"], o) \subseteq Objects
      BY <1>6 DEF Through
    <3>4. \A p \in Through(list["allgc"], o) : color[p] = currentwhite
      BY <1>4, <3>2 DEF IInv, SweepAdvances
    <3> QED BY <1>10, <3>1, <3>3, <3>4
  <2>5. Sweeping("allgc")' /\ gcstate' \in {"swpallgc", "swpfinobj", "swptobefnz"} /\ \A m \in ListNames : ~ Swept(m)'
    BY <1>1, <2>1 DEF Sweeping, Swept
  <2>6. Range(ls["allgc"]) \subseteq Range(list["allgc"]) /\ Range(list["allgc"]) \ {o} \subseteq Range(ls["allgc"])
        /\ \A x : Through(ls["allgc"], x) \subseteq Through(list["allgc"], x)
    BY <1>7, <1>9
  <2>7. o \in {"allgc"} \union Range(list["allgc"])
    BY <1>5
  <2> QED BY <1>1, <1>2, <1>4, <1>9, <1>10, <1>12, <2>2, <2>3, <2>4, <2>5, <2>6, <2>7, SweepKeeps
<1>14. CASE ~ (issweepphase /\ sweepgc = o) /\ color' = c /\ list' = ls /\ UNCHANGED <<kind, entries, sweepgc>>
  <2>1. color' = c /\ list' = ls /\ kind' = kind /\ entries' = entries /\ sweepgc' = sweepgc
        /\ Allocated' = Allocated /\ otherwhite' = otherwhite
    BY <1>1, <1>14 DEF Allocated, otherwhite
  <2>2. TypeOK'
    BY <1>1, <1>2, <1>9, <1>10, <2>1, TypeThen
  <2>3. Alive' = Alive
    BY <1>1, <1>2, <1>11, <2>1, InWordsThen
  <2>4. AliveIsClosed'
    <3>1. LiveClosed(Allocated', entries', color', list', currentwhite')
      BY <1>1, <1>12, <2>1
    <3>2. gcstate' \notin {"swpallgc", "swpfinobj", "swptobefnz"} => Alive' = Allocated'
      BY <1>1, <2>1, <2>3 DEF IInv, AliveIsClosed
    <3> QED BY <1>1, <1>2, <3>1, <3>2, InWordsThen
  <2>5. StacksAreGray' /\ MainInvariant'
    <3>1. keepinvariant => color' = color
      BY <1>2, <1>10, <2>1 DEF keepinvariant, issweepphase, c
    <3>2. keepinvariant' = keepinvariant
      BY <1>1 DEF keepinvariant
    <3>3. StacksAreGray'
      BY <1>1, <2>1, <3>1, <3>2 DEF IInv, StacksAreGray
    <3>4. MainInvariant'
      BY <1>1, <2>1, <3>1, <3>2 DEF IInv, MainInvariant, Refs, Values, Keys, White
    <3> QED BY <3>3, <3>4
  <2>6. SweepAdvances'
    <3>1. \A m \in ListNames : (Sweeping(m)' <=> Sweeping(m)) /\ (Swept(m)' <=> Swept(m))
      BY <1>1 DEF Sweeping, Swept
    <3>2. \A m \in ListNames : Sweeping(m) => issweepphase
      BY DEF Sweeping, issweepphase
    <3>3. \A m \in ListNames : Range(list[m]) \ {o} \subseteq Range(list'[m])
                               /\ Range(list'[m]) \subseteq Range(list[m]) \union {o}
                               /\ (m # "allgc" => Range(list[m]) \subseteq Range(list'[m]))
                               /\ \A x : Through(list'[m], x) \subseteq {o} \union Through(list[m], x)
      BY <1>4, <1>7, <1>9, <2>1
    <3>4. ASSUME NEW m \in ListNames, Sweeping(m) PROVE sweepgc \in {m, "none"} \union Range(list'[m])
      <4>1. sweepgc \in {m, "none"} \union Range(list[m]) /\ sweepgc # o
        BY <1>14, <3>2, <3>4 DEF IInv, SweepAdvances
      <4> QED BY <3>3, <4>1
    <3>5. ASSUME NEW m \in ListNames, NEW p \in Passed(m)' PROVE color'[p] = currentwhite
      <4>1. p \in Passed(m) \union {o}
        BY <2>1, <3>1, <3>3, <3>5 DEF Passed
      <4>2. Passed(m) \subseteq Objects
        <5>1. list[m] \in Seq(Objects)
          BY <1>6
        <5> QED BY <5>1 DEF Passed, Range, Through
      <4>3. CASE p = o
        <5>1. CASE issweepphase
          BY <1>3, <1>10, <2>1, <4>3, <5>1
        <5>2. CASE ~ issweepphase
          <6>1. ~ Sweeping(m)
            BY <3>2, <5>2
          <6>2. Swept(m)
            BY <3>1, <3>5, <6>1 DEF Passed
          <6>3. Swept("allgc")
            BY <5>2, <6>2 DEF Swept, issweepphase
          <6>4. o \in Passed("allgc")
            BY <1>5, <6>3 DEF Passed
          <6>5. color[o] = currentwhite
            BY <1>4, <6>4 DEF IInv, SweepAdvances
          <6> QED BY <1>3, <1>10, <2>1, <4>3, <5>2, <6>5
        <5> QED BY <5>1, <5>2
      <4>4. CASE p \in Passed(m)
        <5>1. color[p] = currentwhite
          BY <4>4 DEF IInv, SweepAdvances
        <5> QED BY <1>10, <2>1, <4>2, <4>4, <5>1
      <4> QED BY <4>1, <4>3, <4>4
    <3> QED BY <1>1, <2>1, <3>1, <3>4, <3>5 DEF IInv, SweepAdvances
  <2> QED BY <2>2, <2>4, <2>5, <2>6 DEF IInv
<1> QED BY <1>13, <1>14 DEF luaC_checkfinalizer, c, ls

-----------------------------------------------------------------------------
(* The other steps of the collector.                                       *)

\* From one phase to another that it does not sweep in.
LEMMA PhaseKeeps ==
  ASSUME IInv, program' = program, UNCHANGED <<heapVars, markVars, currentwhite, sweepgc>>,
         goals' \in Seq(States \union {"resume"}), gcemergency' \in BOOLEAN, gcstp' \in BOOLEAN,
         \/ gcstate' = gcstate
         \/ gcstate = "propagate" /\ gcstate' = "enteratomic"
         \/ gcstate \in {"swpend", "callfin"} /\ gcstate' \in {"callfin", "pause"}
  PROVE  IInv'
<1>1. /\ kind' = kind /\ entries' = entries /\ list' = list /\ color' = color /\ gray' = gray
      /\ grayagain' = grayagain /\ currentwhite' = currentwhite /\ sweepgc' = sweepgc
      /\ Allocated' = Allocated /\ gcstate' \in States
  BY Types DEF heapVars, markVars, Allocated, IInv, States
<1>2. TypeOK'
  BY <1>1, Types, TypeThen DEF IInv
<1>3. AliveIsClosed'
  BY <1>1 DEF IInv, AliveIsClosed, Alive, otherwhite, Refs, Values, Keys
<1>4. StacksAreGray'
  BY <1>1 DEF IInv, StacksAreGray, keepinvariant
<1>5. MainInvariant'
  BY <1>1 DEF IInv, MainInvariant, keepinvariant, Refs, Values, Keys, White
<1>6. SweepAdvances'
  <2>1. \A l \in ListNames : (Sweeping(l)' <=> Sweeping(l)) /\ (Swept(l)' <=> Swept(l))
    BY DEF Sweeping, Swept
  <2>2. \A l \in ListNames : Passed(l)' = Passed(l)
    BY <1>1, <2>1 DEF Passed
  <2> QED BY <1>1, <2>1, <2>2 DEF IInv, SweepAdvances
<1> QED BY <1>2, <1>3, <1>4, <1>5, <1>6 DEF IInv

\* Between cycles all objects are alive, and white once the sweep is over.
LEMMA AllWhite ==
  ASSUME IInv, gcstate \in {"swpend", "callfin", "pause"}
  PROVE  \A o \in Allocated : color[o] = currentwhite
<1> TAKE o \in Allocated
<1>1. Linked(list, Allocated)
  BY Types DEF IInv
<1>2. PICK l \in ListNames : o \in Range(list[l])
  BY <1>1 DEF Linked
<1>3. Passed(l) = Range(list[l])
  BY DEF Passed, Swept
<1> QED BY <1>2, <1>3 DEF IInv, SweepAdvances

\* A cycle starts: the roots are gray.
LEMMA RestartKeeps ==
  ASSUME IInv, program' = program, restartcollection
  PROVE  IInv'
<1> DEFINE new == {o \in Roots \union Range(list["tobefnz"]) : White(o)}
<1>1. /\ gcstate = "pause" /\ gcstate' = "propagate" /\ gray' = new /\ grayagain' = {}
      /\ color' = [o \in Objects |-> IF o \in new THEN "gray" ELSE color[o]]
      /\ kind' = kind /\ entries' = entries /\ list' = list /\ currentwhite' = currentwhite
      /\ sweepgc' = sweepgc /\ goals' = goals /\ gcemergency' = gcemergency /\ gcstp' = gcstp
      /\ Allocated' = Allocated /\ otherwhite' = otherwhite
  BY DEF restartcollection, heapVars, modeVars, Allocated, otherwhite
<1>2. /\ gray \in SUBSET Objects /\ grayagain \in SUBSET Objects /\ goals \in Seq(States \union {"resume"})
      /\ gcemergency \in BOOLEAN /\ gcstp \in BOOLEAN /\ program \in Programs
      /\ sweepgc \in Objects \union ListNames \union {"none"} /\ currentwhite \in Whites
      /\ kind \in [Objects -> Kinds] /\ Linked(list, Allocated) /\ color \in [Objects -> Colors]
      /\ entries \in [Objects -> SUBSET Entry]
  BY Types DEF IInv
<1>3. Alive = Allocated /\ new \subseteq Allocated /\ Allocated \subseteq Objects
      /\ otherwhite \in Whites /\ currentwhite # otherwhite
  <2>1. Alive = Allocated /\ Roots \union Range(list["tobefnz"]) \subseteq Alive
    BY <1>1 DEF IInv, AliveIsClosed
  <2> QED BY <1>2, <2>1 DEF Allocated, otherwhite, Whites
<1>4. \A o \in Allocated : color[o] = currentwhite
  BY <1>1, AllWhite
<1> HIDE DEF new
<1>5. /\ color' \in [Objects -> Colors]
      /\ \A o \in Allocated : color'[o] = IF o \in new THEN "gray" ELSE currentwhite
  <2>1. "gray" \in Colors
    BY DEF Colors
  <2> QED BY <1>1, <1>2, <1>3, <1>4, <2>1
<1>6. "gray" \notin Whites /\ "black" \notin Whites /\ "gray" # "black"
  BY DEF Whites
<1>7. TypeOK'
  <2>1. gray' \in SUBSET Objects /\ grayagain' \in SUBSET Objects /\ gcstate' \in States
    BY <1>1, <1>3 DEF States
  <2> QED BY <1>1, <1>2, <1>5, <2>1, TypeThen
<1>8. Alive' = Allocated
  <2>1. \A o \in Allocated : color'[o] # otherwhite
    BY <1>3, <1>5, <1>6
  <2> QED BY <1>1, <2>1 DEF Alive
<1>9. AliveIsClosed'
  BY <1>1, <1>3, <1>8 DEF IInv, AliveIsClosed, Refs, Values, Keys
<1>10. \A o \in Allocated : color'[o] # "black"
  BY <1>2, <1>5, <1>6
<1>11. StacksAreGray'
  <2>1. \A o \in Objects : kind[o] = "thread" => o \in Allocated
    BY DEF Allocated
  <2> QED BY <1>1, <1>10, <2>1 DEF IInv, StacksAreGray
<1>12. MainInvariant'
  <2>1. {o \in Allocated : color'[o] = "gray"} = new
    BY <1>2, <1>3, <1>5, <1>6
  <2> QED BY <1>1, <1>10, <2>1 DEF MainInvariant
<1>13. SweepAdvances'
  <2>1. \A l \in ListNames : Passed(l)' = {} /\ ~ Sweeping(l)'
    BY <1>1 DEF Passed, Swept, Sweeping
  <2>2. sweepgc = "none"
    BY <1>1 DEF IInv, SweepAdvances
  <2> QED BY <1>1, <2>1, <2>2 DEF SweepAdvances
<1> QED BY <1>7, <1>9, <1>11, <1>12, <1>13 DEF IInv

\* A gray object is visited.
LEMMA VisitKeeps ==
  ASSUME IInv, program' = program, NEW o, propagatemark(o)
  PROVE  IInv'
<1> DEFINE again == kind[o] \in {"thread", "weakvalue", "ephemeron", "allweak"}
           new   == {v \in Strong(o, {k \in Objects : ~White(k)}) : White(v)}
           mark  == IF again THEN "gray" ELSE "black"
<1>1. /\ gcstate = "propagate" /\ gcstate' = gcstate /\ o \in gray
      /\ gray' = (gray \ {o}) \union new
      /\ grayagain' = IF again THEN grayagain \union {o} ELSE grayagain
      /\ color' = [p \in Objects |-> IF p = o THEN mark ELSE IF p \in new THEN "gray" ELSE color[p]]
      /\ kind' = kind /\ entries' = entries /\ list' = list /\ currentwhite' = currentwhite
      /\ sweepgc' = sweepgc /\ goals' = goals /\ gcemergency' = gcemergency /\ gcstp' = gcstp
      /\ Allocated' = Allocated /\ otherwhite' = otherwhite
  BY DEF propagatemark, heapVars, phaseVars, modeVars, Allocated, otherwhite
<1>2. /\ gray \in SUBSET Objects /\ grayagain \in SUBSET Objects /\ goals \in Seq(States \union {"resume"})
      /\ gcemergency \in BOOLEAN /\ gcstp \in BOOLEAN /\ program \in Programs
      /\ sweepgc \in Objects \union ListNames \union {"none"} /\ currentwhite \in Whites
      /\ kind \in [Objects -> Kinds] /\ Linked(list, Allocated) /\ color \in [Objects -> Colors]
      /\ entries \in [Objects -> SUBSET Entry] /\ gcstate \in States
  BY Types DEF IInv
<1>3. /\ {p \in Allocated : color[p] = "gray"} = gray \union grayagain /\ gray \intersect grayagain = {}
      /\ \A p \in Allocated : color[p] = "black" => \A v \in Refs(p) : ~White(v)
  BY <1>1 DEF IInv, MainInvariant, StacksAreGray, keepinvariant
<1>4. /\ Alive = Allocated /\ Allocated \subseteq Objects /\ o \in Allocated /\ color[o] = "gray"
      /\ Refs(o) \subseteq Allocated
  BY <1>1, <1>3, HeldIsAlive DEF IInv, AliveIsClosed, Allocated
<1>5. "gray" \notin Whites /\ "black" \notin Whites /\ "gray" # "black" /\ otherwhite \in Whites
  BY DEF Whites, otherwhite
<1>6. new \subseteq Refs(o) /\ (\A v \in new : color[v] \in Whites) /\ o \notin new
      /\ (~ again => \A v \in Refs(o) : v \in new \/ color[v] \notin Whites)
  <2>1. new \subseteq Refs(o)
    BY StrongIsRefs
  <2>2. ~ again => Strong(o, {k \in Objects : ~White(k)}) = Refs(o)
    BY DEF Strong
  <2>3. ~ again => \A v \in Refs(o) : v \in new \/ color[v] \notin Whites
    BY <2>2 DEF White
  <2>4. \A v \in new : color[v] \in Whites
    BY DEF White
  <2> HIDE DEF new
  <2> QED BY <1>4, <1>5, <2>1, <2>3, <2>4
<1>7. mark \in {"gray", "black"} /\ (again => mark = "gray") /\ (~ again => mark = "black")
  OBVIOUS
<1> HIDE DEF new, mark
<1>8. /\ color' \in [Objects -> Colors] /\ color'[o] = mark
      /\ \A p \in Objects \ {o} : color'[p] = IF p \in new THEN "gray" ELSE color[p]
  <2>1. "gray" \in Colors /\ "black" \in Colors
    BY DEF Colors
  <2>2. mark \in Colors
    BY <1>7, <2>1
  <2> QED BY <1>1, <1>2, <1>4, <2>1, <2>2
<1>9. \A p \in Objects : color[p] \notin Whites => color'[p] \notin Whites
  BY <1>5, <1>7, <1>8
<1>10. TypeOK'
  <2>1. gray' \in SUBSET Objects /\ grayagain' \in SUBSET Objects
    BY <1>1, <1>2, <1>4, <1>6
  <2> QED BY <1>1, <1>2, <1>8, <2>1, TypeThen
<1>11. Alive' = Alive
  <2>1. ASSUME NEW p \in Allocated PROVE color'[p] # otherwhite
    <3>1. color[p] # otherwhite
      BY <1>4 DEF Alive
    <3> QED BY <1>4, <1>5, <1>7, <1>8, <3>1
  <2> QED BY <1>1, <1>4, <2>1 DEF Alive
<1>12. AliveIsClosed'
  BY <1>1, <1>4, <1>11 DEF IInv, AliveIsClosed, Refs, Values, Keys
<1>13. StacksAreGray'
  <2>1. ASSUME NEW p \in Objects, kind[p] = "thread" PROVE color'[p] # "black"
    <3>1. color[p] # "black"
      BY <1>1, <2>1 DEF IInv, StacksAreGray, keepinvariant
    <3>2. p = o => again
      BY <2>1
    <3> QED BY <1>5, <1>7, <1>8, <3>1, <3>2
  <2>2. gray' \intersect grayagain' = {}
    <3>1. \A v \in new : v \notin grayagain
      BY <1>3, <1>5, <1>6
    <3>2. o \notin gray'
      BY <1>1, <1>6
    <3> QED BY <1>1, <1>3, <3>1, <3>2
  <2> QED BY <1>1, <2>1, <2>2 DEF IInv, StacksAreGray
<1>14. MainInvariant'
  <2>1. ASSUME NEW p \in Allocated, color'[p] = "black", NEW v \in Refs(p) PROVE color'[v] \notin Whites
    <3>1. v \in Objects
      BY <1>4, HeldIsAlive
    <3>2. CASE p = o
      <4>1. ~ again
        BY <1>5, <1>7, <1>8, <2>1, <3>2
      <4>2. v \in new \/ color[v] \notin Whites
        BY <1>6, <2>1, <3>2, <4>1
      <4>3. v \in new /\ v # o => color'[v] = "gray"
        BY <1>8, <3>1
      <4> QED BY <1>5, <1>6, <1>9, <3>1, <4>2, <4>3
    <3>3. CASE p # o
      <4>1. color[p] = "black"
        BY <1>4, <1>5, <1>8, <2>1, <3>3
      <4>2. color[v] \notin Whites
        BY <1>3, <2>1, <4>1 DEF White
      <4> QED BY <1>9, <3>1, <4>2
    <3> QED BY <3>2, <3>3
  <2>2. {p \in Allocated : color'[p] = "gray"} = gray' \union grayagain'
    <3>1. ASSUME NEW p \in Allocated PROVE color'[p] = "gray" <=> p \in gray' \union grayagain'
      <4>1. CASE p = o
        BY <1>1, <1>3, <1>5, <1>6, <1>7, <1>8, <4>1
      <4>2. CASE p # o
        <5>1. color'[p] = IF p \in new THEN "gray" ELSE color[p]
          BY <1>4, <1>8, <4>2
        <5>2. p \in gray' \union grayagain' <=> p \in gray \union grayagain \union new
          BY <1>1, <4>2
        <5> QED BY <1>3, <5>1, <5>2
      <4> QED BY <4>1, <4>2
    <3>2. gray' \union grayagain' \subseteq Allocated
      BY <1>1, <1>3, <1>4, <1>6
    <3> QED BY <3>1, <3>2
  <2>3. \A p : Refs(p)' = Refs(p)
    BY <1>1 DEF Refs, Values, Keys
  <2> QED BY <1>1, <2>1, <2>2, <2>3 DEF MainInvariant, White
<1>15. SweepAdvances'
  <2>1. \A l \in ListNames : Passed(l)' = {} /\ ~ Sweeping(l)'
    BY <1>1 DEF Passed, Swept, Sweeping
  <2>2. sweepgc = "none"
    BY <1>1 DEF IInv, SweepAdvances
  <2> QED BY <1>1, <2>1, <2>2 DEF SweepAdvances
<1> QED BY <1>10, <1>12, <1>13, <1>14, <1>15 DEF IInv

\* A finalizer starts.
LEMMA GCTMKeeps ==
  ASSUME IInv, program' = program, GCTM
  PROVE  IInv'
<1> DEFINE o == Head(list["tobefnz"])
           s == Tail(list["tobefnz"])
           e == [key |-> NoKey, value |-> o]
<1>1. /\ gcstate = "callfin" /\ gcstate' = gcstate /\ list["tobefnz"] # << >>
      /\ list' = [list EXCEPT !["tobefnz"] = Tail(@), !["allgc"] = <<o>> \o @]
      /\ entries' = [entries EXCEPT ![Main] = @ \union {e}]
      /\ kind' = kind /\ color' = color /\ gray' = gray /\ grayagain' = grayagain
      /\ currentwhite' = currentwhite /\ sweepgc' = sweepgc /\ goals' = goals
      /\ gcemergency' = gcemergency /\ gcstp' = TRUE
      /\ Allocated' = Allocated /\ otherwhite' = otherwhite
  BY DEF GCTM, markVars, phaseVars, Allocated, otherwhite
<1>2. /\ gray \in SUBSET Objects /\ grayagain \in SUBSET Objects /\ goals \in Seq(States \union {"resume"})
      /\ gcemergency \in BOOLEAN /\ gcstp \in BOOLEAN /\ program \in Programs
      /\ sweepgc \in Objects \union ListNames \union {"none"} /\ currentwhite \in Whites
      /\ kind \in [Objects -> Kinds] /\ Linked(list, Allocated) /\ color \in [Objects -> Colors]
      /\ entries \in [Objects -> SUBSET Entry] /\ gcstate \in States
  BY Types DEF IInv
<1>3. "allgc" \in ListNames /\ "tobefnz" \in ListNames /\ "allgc" # "tobefnz" /\ "finobj" \in ListNames \ {"allgc", "tobefnz"}
      /\ \A l \in ListNames : l \in {"allgc", "finobj", "tobefnz"}
  BY DEF ListNames
<1>4. list["tobefnz"] \in Seq(Objects) /\ IsInjective(list["tobefnz"]) /\ list \in [ListNames -> Seq(Objects)]
  BY <1>2, <1>3 DEF Linked
<1>5. /\ o \in Objects /\ o \in Range(list["tobefnz"]) /\ s \in Seq(Objects)
      /\ Range(s) = Range(list["tobefnz"]) \ {o} /\ IsInjective(s)
  BY <1>1, <1>4, UnlinkIs
<1>6. list' = [list EXCEPT !["tobefnz"] = s, !["allgc"] = <<o>> \o @]
  BY <1>1, <1>3, <1>4
<1> HIDE DEF o, s
<1>7. Linked(list', Allocated) /\ Moves(list', list, "tobefnz", "allgc", o, s)
  BY <1>2, <1>3, <1>5, <1>6, LinkedMoved
<1>8. o \in Alive /\ Main \in Objects /\ Main \in Alive
  BY <1>5, HeldIsAlive DEF IInv, AliveIsClosed, Roots
<1>9. entries' \in [Objects -> SUBSET Entry] /\ entries'[Main] = entries[Main] \union {e}
      /\ \A p \in Objects \ {Main} : entries'[p] = entries[p]
  <2>1. e \in Entry
    BY <1>5 DEF Entry
  <2> HIDE DEF e
  <2> QED BY <1>1, <1>2, <1>8, <2>1
<1>10. Refs(Main)' = Refs(Main) \union {o} /\ \A p \in Objects \ {Main} : Refs(p)' = Refs(p)
  <2>1. \A p : Refs(p)' = RefsOf(entries'[p]) /\ Refs(p) = RefsOf(entries[p])
    BY <1>1, <1>2, InWordsThen, RefsOfEntries DEF RefsIn
  <2>2. RefsOf(entries'[Main]) = Refs(Main) \union {o}
    BY <1>9, PushedRefs
  <2> QED BY <1>9, <2>1, <2>2
<1>11. TypeOK'
  BY <1>1, <1>2, <1>7, <1>9, TypeThen
<1>12. Alive' = Alive /\ Alive = Allocated
  BY <1>1 DEF IInv, AliveIsClosed, Alive
<1>13. AliveIsClosed'
  <2>1. Range(list'["finobj"]) = Range(list["finobj"]) /\ Range(list'["tobefnz"]) \subseteq Range(list["tobefnz"])
    BY <1>3, <1>5, <1>7 DEF Moves
  <2>2. Roots \union Range(list'["finobj"]) \union Range(list'["tobefnz"]) \subseteq Alive'
    BY <1>12, <2>1 DEF IInv, AliveIsClosed
  <2>3. \A p \in Alive' : Refs(p)' \subseteq Alive'
    BY <1>8, <1>10, <1>12, HeldIsAlive
  <2>4. \A p \in Objects \ Allocated' : entries'[p] = {}
    BY <1>1, <1>8, <1>9, <1>12 DEF IInv, AliveIsClosed
  <2> QED BY <1>1, <1>12, <2>2, <2>3, <2>4 DEF AliveIsClosed
<1>14. StacksAreGray' /\ MainInvariant'
  BY <1>1 DEF IInv, StacksAreGray, MainInvariant, keepinvariant
<1>15. SweepAdvances'
  <2>1. \A l \in ListNames : ~ Sweeping(l)' /\ Passed(l)' = Range(list'[l])
    BY <1>1 DEF Sweeping, Passed, Swept
  <2>2. \A l \in ListNames : Range(list'[l]) \subseteq Allocated
    BY <1>7 DEF Linked
  <2>3. \A p \in Allocated : color[p] = currentwhite
    BY <1>1, AllWhite
  <2>4. sweepgc = "none"
    BY <1>1 DEF IInv, SweepAdvances
  <2> QED BY <1>1, <2>1, <2>2, <2>3, <2>4 DEF SweepAdvances
<1> QED BY <1>11, <1>13, <1>14, <1>15 DEF IInv

-----------------------------------------------------------------------------
(* The atomic step.                                                        *)

\* Its parts: what was marked before, what is visited, what is alive then, the
\* lists without and with what is to be finalized, what is marked in the end,
\* and the colours and entries it leaves to the sweep.
Old       == {o \in Allocated : ~White(o)} \union Roots
Visits    == gray \union grayagain \union {o \in Allocated : White(o)}
Survivors == Marked(Old, Visits)
Split     == separatetobefnz(Survivors)
Found     == Marked(Survivors \union Range(Split["tobefnz"]), Visits)
Painted   == [o \in Objects |->
                IF o \notin Found \intersect Visits THEN color[o]
                ELSE IF kind[o] \in Modes \ {"table"} THEN "gray" ELSE "black"]
Cleared   == [o \in Objects |->
                IF o \notin Found \intersect Visits THEN entries[o]
                ELSE ClearedEntries(o, IF o \in Survivors THEN Survivors ELSE Found, Found)]

\* The step in these words.
LEMMA AtomicIs ==
  ASSUME atomic
  PROVE  /\ gcstate = "enteratomic" /\ gcstate' = "swpallgc" /\ gray' = {} /\ grayagain' = {}
         /\ currentwhite' = otherwhite /\ goals' = goals /\ gcemergency' = gcemergency /\ gcstp' = gcstp
         /\ Sweep("allgc", FirstLive("allgc", Painted, otherwhite), Painted, Cleared, Split, otherwhite)
BY DEF atomic, Old, Visits, Survivors, Split, Found, Painted, Cleared, modeVars

\* What there is at the beginning of the step: nothing is dead, and a black
\* object refers to none that is white.
LEMMA AtomicStart ==
  ASSUME IInv, gcstate = "enteratomic"
  PROVE  /\ \A o \in Objects : Refs(o) \subseteq Objects
         /\ \A o \in Allocated : Refs(o) \subseteq Allocated
         /\ Allocated \in SUBSET Objects /\ Old \in SUBSET Allocated /\ Visits \in SUBSET Allocated
         /\ Roots \subseteq Old /\ \A o \in Allocated \ Old : color[o] = currentwhite
         /\ \A o \in Allocated \ Visits : color[o] = "black" /\ Refs(o) \subseteq Old
<1>1. Alive = Allocated /\ Roots \subseteq Allocated /\ \A o \in Allocated : Refs(o) \subseteq Allocated
  BY DEF IInv, AliveIsClosed
<1>2. Allocated \subseteq Objects
  BY DEF Allocated
<1>3. ASSUME NEW o \in Objects PROVE Refs(o) \subseteq Objects
  <2>1. entries[o] \in SUBSET Entry
    BY Types DEF IInv
  <2> QED BY <2>1 DEF Refs, Values, Keys, Entry
<1>4. /\ {o \in Allocated : color[o] = "gray"} = gray \union grayagain
      /\ \A o \in Allocated : color[o] = "black" => \A v \in Refs(o) : ~White(v)
  BY DEF IInv, MainInvariant, keepinvariant
<1>5. Old \subseteq Allocated /\ Visits \subseteq Allocated /\ Roots \subseteq Old
  BY <1>1, <1>4 DEF Old, Visits
<1>6. ASSUME NEW o \in Allocated \ Old PROVE color[o] = currentwhite
  <2>1. color[o] \in Whites
    BY DEF Old, White
  <2>2. color[o] # otherwhite
    BY <1>1 DEF Alive
  <2>3. currentwhite \in Whites
    BY Types DEF IInv
  <2> QED BY <2>1, <2>2, <2>3 DEF otherwhite, Whites
<1>7. ASSUME NEW o \in Allocated \ Visits PROVE color[o] = "black" /\ Refs(o) \subseteq Old
  <2>1. color[o] \notin Whites /\ color[o] # "gray"
    BY <1>4 DEF Visits, White
  <2>2. color[o] \in Colors
    BY <1>2, Types DEF IInv
  <2>3. color[o] = "black"
    BY <2>1, <2>2 DEF Colors
  <2>4. Refs(o) \subseteq Old
    BY <1>1, <1>4, <2>3 DEF Old
  <2> QED BY <2>3, <2>4
<1> QED BY <1>1, <1>2, <1>3, <1>5, <1>6, <1>7

\* Both marks, of what survives and of what comes alive again.
LEMMA AtomicMarks ==
  ASSUME IInv, gcstate = "enteratomic"
  PROVE  /\ Old \subseteq Survivors /\ Survivors \subseteq Found /\ Found \subseteq Allocated
         /\ \A o \in Survivors \intersect Visits : Strong(o, Survivors) \subseteq Survivors
         /\ \A o \in Found \intersect Visits : Strong(o, Found) \subseteq Found
         /\ Linked(Split, Allocated) /\ Split["allgc"] = list["allgc"]
         /\ Range(Split["finobj"]) = Range(list["finobj"]) \intersect Survivors
         /\ Range(Split["tobefnz"]) = Range(list["tobefnz"]) \union (Range(list["finobj"]) \ Survivors)
         /\ Range(Split["tobefnz"]) \subseteq Found
<1>1. /\ \A o \in Objects : Refs(o) \subseteq Objects
      /\ \A o \in Allocated : Refs(o) \subseteq Allocated
      /\ Allocated \in SUBSET Objects /\ Old \in SUBSET Allocated
  BY AtomicStart
<1>2. \A o \in Allocated \intersect Visits : Strong(o, Allocated) \subseteq Allocated
  BY <1>1, StrongIsRefs
<1>3. Old \in SUBSET Objects
  BY <1>1
<1>4. /\ Old \subseteq Survivors /\ Survivors \subseteq Allocated
      /\ \A o \in Survivors \intersect Visits : Strong(o, Survivors) \subseteq Survivors
  BY <1>1, <1>2, <1>3, MarkedIs DEF Survivors
<1>5. Linked(list, Allocated) /\ \A l \in ListNames : Range(list[l]) \subseteq Allocated
  BY Types DEF IInv, Linked
<1>6. "allgc" \in ListNames /\ "finobj" \in ListNames /\ "tobefnz" \in ListNames
      /\ \A l \in ListNames : l \in {"allgc", "finobj", "tobefnz"}
  BY DEF ListNames
<1> DEFINE f == Without(list["finobj"], Objects \ Survivors)
           d == Without(list["finobj"], Survivors)
           t == list["tobefnz"] \o d
<1>7. /\ list["finobj"] \in Seq(Objects) /\ IsInjective(list["finobj"])
      /\ list["tobefnz"] \in Seq(Objects) /\ IsInjective(list["tobefnz"])
      /\ Range(list["finobj"]) \intersect Range(list["tobefnz"]) = {}
      /\ list \in [ListNames -> Seq(Objects)]
  BY <1>5, <1>6 DEF Linked
<1>8. f \in Seq(Objects) /\ IsInjective(f) /\ Range(f) = Range(list["finobj"]) \ (Objects \ Survivors)
  BY <1>7, WithoutIs
<1>9. d \in Seq(Objects) /\ IsInjective(d) /\ Range(d) = Range(list["finobj"]) \ Survivors
  BY <1>7, WithoutIs
<1> HIDE DEF f, d
<1>10. t \in Seq(Objects) /\ IsInjective(t) /\ Range(t) = Range(list["tobefnz"]) \union Range(d)
  <2>1. Range(list["tobefnz"]) \intersect Range(d) = {}
    BY <1>7, <1>9
  <2> QED BY <1>7, <1>9, <2>1, AppendIs
<1> HIDE DEF t
<1>11. Split = [list EXCEPT !["tobefnz"] = t, !["finobj"] = f]
  BY <1>6, <1>7 DEF Split, separatetobefnz, t, d, f
<1>12. /\ Split \in [ListNames -> Seq(Objects)]
       /\ Split["allgc"] = list["allgc"] /\ Split["finobj"] = f /\ Split["tobefnz"] = t
  BY <1>6, <1>7, <1>8, <1>10, <1>11
<1>13. Range(f) = Range(list["finobj"]) \intersect Survivors
  <2>1. Range(list["finobj"]) \subseteq Objects
    BY <1>1, <1>5, <1>6
  <2> QED BY <1>8, <2>1
<1>14. Range(t) = Range(list["tobefnz"]) \union (Range(list["finobj"]) \ Survivors)
  BY <1>9, <1>10
<1>15. Linked(Split, Allocated)
  <2>1. ASSUME NEW l \in ListNames PROVE IsInjective(Split[l])
    <3>1. IsInjective(list["allgc"])
      BY <1>5, <1>6 DEF Linked
    <3> QED BY <1>6, <1>8, <1>10, <1>12, <3>1
  <2>2. /\ Range(list["allgc"]) \intersect Range(list["finobj"]) = {}
        /\ Range(list["allgc"]) \intersect Range(list["tobefnz"]) = {}
    BY <1>5, <1>6 DEF Linked
  <2>3. ASSUME NEW l \in ListNames, NEW m \in ListNames, l # m PROVE Range(Split[l]) \intersect Range(Split[m]) = {}
    <3>1. Range(f) \intersect Range(t) = {}
      BY <1>7, <1>13, <1>14
    <3>2. Range(list["allgc"]) \intersect Range(f) = {} /\ Range(list["allgc"]) \intersect Range(t) = {}
      BY <2>2, <1>13, <1>14
    <3> QED BY <1>6, <1>12, <2>3, <3>1, <3>2
  <2>4. Allocated = Range(list["allgc"]) \union Range(list["finobj"]) \union Range(list["tobefnz"])
    <3>1. Allocated = UNION {Range(list[l]) : l \in ListNames}
      BY <1>5 DEF Linked
    <3> QED BY <1>6, <3>1
  <2>5. Allocated = UNION {Range(Split[l]) : l \in ListNames}
    <3>1. UNION {Range(Split[l]) : l \in ListNames} = Range(list["allgc"]) \union Range(f) \union Range(t)
      BY <1>6, <1>12
    <3>2. Range(f) \union Range(t) = Range(list["finobj"]) \union Range(list["tobefnz"])
      BY <1>13, <1>14
    <3> QED BY <2>4, <3>1, <3>2
  <2> QED BY <1>12, <2>1, <2>3, <2>5 DEF Linked
<1>16. /\ Survivors \subseteq Found /\ Found \subseteq Allocated /\ Range(Split["tobefnz"]) \subseteq Found
       /\ \A o \in Found \intersect Visits : Strong(o, Found) \subseteq Found
  <2> DEFINE start == Survivors \union Range(Split["tobefnz"])
  <2>1. start \subseteq Allocated
    BY <1>4, <1>5, <1>6, <1>12, <1>14
  <2>2. start \in SUBSET Objects
    BY <1>1, <2>1
  <2>3. Found = Marked(start, Visits)
    BY DEF Found
  <2> HIDE DEF start
  <2>4. /\ start \subseteq Found /\ Found \subseteq Allocated
        /\ \A o \in Found \intersect Visits : Strong(o, Found) \subseteq Found
    BY <1>1, <1>2, <2>1, <2>2, <2>3, MarkedIs
  <2> QED BY <2>4 DEF start
<1> QED BY <1>4, <1>12, <1>13, <1>14, <1>15, <1>16

\* What remains of the entries of a marked object leads to marked objects.
LEMMA ClearedIsMarked ==
  ASSUME IInv, gcstate = "enteratomic", NEW o \in Found
  PROVE  RefsIn(Cleared, o) \subseteq Found
<1>1. /\ Old \subseteq Survivors /\ Survivors \subseteq Found /\ Found \subseteq Allocated
      /\ o \in Visits => Strong(o, Found) \subseteq Found
  BY AtomicMarks
<1>2. o \in Objects /\ o \in Allocated
  BY <1>1 DEF Allocated
<1>3. CASE o \notin Visits
  <2>1. Cleared[o] = entries[o]
    BY <1>2, <1>3 DEF Cleared
  <2>2. RefsIn(Cleared, o) = Refs(o)
    BY <2>1, RefsOfEntries DEF RefsIn
  <2>3. Refs(o) \subseteq Old
    BY <1>2, <1>3, AtomicStart
  <2> QED BY <1>1, <2>2, <2>3
<1>4. CASE o \in Visits
  <2> DEFINE before == IF o \in Survivors THEN Survivors ELSE Found
  <2>1. Cleared[o] = ClearedEntries(o, before, Found) /\ before \subseteq Found
    BY <1>1, <1>2, <1>4 DEF Cleared
  <2> HIDE DEF before
  <2>2. ASSUME NEW e \in Cleared[o] PROVE e.value \in Found /\ (e.key = NoKey \/ e.key \in Found)
    <3>1. e \in entries[o]
      BY <2>1, <2>2 DEF ClearedEntries
    <3>2. kind[o] \in {"weakvalue", "allweak"} => e.value \in Found
      BY <2>1, <2>2 DEF ClearedEntries
    <3>3. kind[o] \in {"ephemeron", "allweak"} => e.key \in Found \union {NoKey}
      BY <2>1, <2>2 DEF ClearedEntries
    <3>4. kind[o] = "ephemeron" => e.value \in Strong(o, Found)
      BY <3>1, <3>3 DEF Strong
    <3>5. kind[o] = "weakvalue" => e.key \in Strong(o, Found) \union {NoKey}
      BY <3>1 DEF Strong, Keys
    <3>6. kind[o] \notin {"weakvalue", "ephemeron", "allweak"} =>
             e.value \in Strong(o, Found) /\ e.key \in Strong(o, Found) \union {NoKey}
      BY <3>1 DEF Strong, Refs, Keys, Values
    <3> QED BY <1>1, <1>4, <3>2, <3>3, <3>4, <3>5, <3>6
  <2> QED BY <2>2 DEF RefsIn, RefsOf
<1> QED BY <1>3, <1>4

\* What is marked is what the sweep will not free.
LEMMA AtomicLives ==
  ASSUME IInv, gcstate = "enteratomic"
  PROVE  /\ Painted \in [Objects -> Colors] /\ Cleared \in [Objects -> SUBSET Entry]
         /\ otherwhite \in Whites
         /\ LiveIn(Allocated, Painted, otherwhite) = Found
         /\ LiveClosed(Allocated, Cleared, Painted, Split, otherwhite)
<1>1. /\ color \in [Objects -> Colors] /\ entries \in [Objects -> SUBSET Entry]
      /\ currentwhite \in Whites
  BY Types DEF IInv
<1>2. /\ "gray" \in Colors /\ "black" \in Colors /\ "gray" \notin Whites /\ "black" \notin Whites
      /\ otherwhite \in Whites /\ Whites \ {otherwhite} = {currentwhite}
  BY <1>1 DEF Colors, Whites, otherwhite
<1>3. /\ Old \subseteq Found /\ Found \subseteq Allocated
  BY AtomicMarks
<1>4. Allocated \subseteq Objects
  BY DEF Allocated
<1>5. Painted \in [Objects -> Colors]
  BY <1>1, <1>2 DEF Painted
<1>6. Cleared \in [Objects -> SUBSET Entry]
  <2>1. \A o \in Objects : \A B, C : ClearedEntries(o, B, C) \subseteq entries[o] /\ entries[o] \in SUBSET Entry
    BY <1>1 DEF ClearedEntries
  <2> QED BY <2>1 DEF Cleared
<1>7. LiveIn(Allocated, Painted, otherwhite) = Found
  <2>1. ASSUME NEW o \in Found PROVE Painted[o] \in {"gray", "black"}
    <3>1. CASE o \in Visits
      BY <1>3, <1>4, <3>1 DEF Painted
    <3>2. CASE o \notin Visits
      <4>1. color[o] = "black"
        BY <1>3, <3>2, AtomicStart
      <4> QED BY <1>3, <1>4, <3>2, <4>1 DEF Painted
    <3> QED BY <3>1, <3>2
  <2>2. ASSUME NEW o \in Allocated \ Found PROVE Painted[o] = currentwhite
    <3>1. color[o] = currentwhite
      BY <1>3, AtomicStart
    <3> QED BY <1>4, <3>1 DEF Painted
  <2>3. \A o \in Allocated : Painted[o] \notin Whites \ {otherwhite} <=> o \in Found
    BY <1>2, <2>1, <2>2
  <2> QED BY <1>3, <2>3 DEF LiveIn
<1>8. LiveClosed(Allocated, Cleared, Painted, Split, otherwhite)
  <2>1. Roots \union Range(Split["finobj"]) \union Range(Split["tobefnz"]) \subseteq Found
    BY AtomicStart, AtomicMarks
  <2>2. \A o \in Found : RefsIn(Cleared, o) \subseteq Found
    BY ClearedIsMarked
  <2>3. ASSUME NEW o \in Objects \ Allocated PROVE Cleared[o] = {}
    <3>1. entries[o] = {}
      BY DEF IInv, AliveIsClosed
    <3> QED BY <1>3, <3>1 DEF Cleared
  <2> QED BY <1>7, <2>1, <2>2, <2>3 DEF LiveClosed
<1> QED BY <1>2, <1>5, <1>6, <1>7, <1>8

\* The atomic step.
LEMMA AtomicKeeps ==
  ASSUME IInv, program' = program, atomic
  PROVE  IInv'
<1> DEFINE n == FirstLive("allgc", Painted, otherwhite)
<1>1. /\ gcstate = "enteratomic" /\ gcstate' = "swpallgc" /\ gray' = {} /\ grayagain' = {}
      /\ currentwhite' = otherwhite /\ goals' = goals /\ gcemergency' = gcemergency /\ gcstp' = gcstp
      /\ Sweep("allgc", n, Painted, Cleared, Split, otherwhite)
  BY AtomicIs
<1>2. /\ goals \in Seq(States \union {"resume"}) /\ gcemergency \in BOOLEAN /\ gcstp \in BOOLEAN
      /\ Linked(list, Allocated)
  BY Types DEF IInv
<1>3. /\ "allgc" \in ListNames /\ Behind("allgc", "allgc") = {}
      /\ n \in Nat /\ IndexOf("allgc") <= n /\ n <= Len(list["allgc"])
  BY <1>2, FromHead
<1> HIDE DEF n
<1>4. Linked(Split, Allocated) /\ Split["allgc"] = list["allgc"]
  BY <1>1, AtomicMarks
<1>5. /\ Painted \in [Objects -> Colors] /\ Cleared \in [Objects -> SUBSET Entry]
      /\ otherwhite \in Whites
      /\ LiveClosed(Allocated, Cleared, Painted, Split, otherwhite)
  BY <1>1, AtomicLives
<1>6. Sweeping("allgc")' /\ (\A m \in ListNames : ~ Swept(m)') /\ gcstate' \in {"swpallgc", "swpfinobj", "swptobefnz"}
  BY <1>1 DEF Sweeping, Swept
<1>7. /\ gray' \in SUBSET Objects /\ grayagain' \in SUBSET Objects
      /\ goals' \in Seq(States \union {"resume"}) /\ gcemergency' \in BOOLEAN /\ gcstp' \in BOOLEAN
  BY <1>1, <1>2
<1> QED BY <1>1, <1>3, <1>4, <1>5, <1>6, <1>7, SweepKeeps

-----------------------------------------------------------------------------
(* The invariant.                                                          *)

\* The roots are linked, once, and nothing else.
LEMMA RootsAreLinked ==
  ASSUME NEW s \in [1..Cardinality(Roots) -> Roots], IsInjective(s)
  PROVE  s \in Seq(Objects) /\ Range(s) = Roots
<1> DEFINE n == Cardinality(Roots)
<1>1. IsFiniteSet(Roots)
  <2>1. Roots \in SUBSET Objects /\ IsFiniteSet(Objects)
    BY Names, ObjectAssumption
  <2> QED BY <2>1, FS_Subset
<1>2. n \in Nat
  BY <1>1, FS_CardinalityType
<1>3. Cardinality(1..n) = n
  <2>1. n \in Int /\ 1 \in Int
    BY <1>2
  <2>2. Cardinality(1..n) = IF 1 > n THEN 0 ELSE n - 1 + 1
    BY <2>1, FS_Interval
  <2> QED BY <1>2, <2>2
<1> HIDE DEF n
<1>4. s \in Injection(1..n, Roots)
  BY DEF Injection, n
<1>5. s \in Surjection(1..n, Roots)
  BY <1>1, <1>3, <1>4, FS_Injection, Zenon DEF n
<1>6. Range(s) = Roots
  BY <1>5 DEF Surjection, Range
<1>7. s \in Seq(Objects)
  <2>1. s \in [1..n -> Roots] /\ Roots \subseteq Objects
    BY Names DEF n
  <2>2. s \in [1..n -> Objects]
    BY <2>1
  <2> QED BY <1>2, <2>2
<1> QED BY <1>6, <1>7

\* At the start there are the roots, white and without entries.
LEMMA InitIs ==
  ASSUME Init
  PROVE  IInv
<1>1. PICK s \in [1..Cardinality(Roots) -> Roots] :
         IsInjective(s) /\ list = [l \in ListNames |-> IF l = "allgc" THEN s ELSE << >>]
  BY DEF Init
<1>2. s \in Seq(Objects) /\ Range(s) = Roots
  BY <1>1, RootsAreLinked
<1> DEFINE e == << >>
<1>3. e \in Seq(Objects) /\ Range(e) = {} /\ IsInjective(e)
  BY DEF Range, IsInjective
<1> HIDE DEF e
<1>4. "allgc" \in ListNames /\ list \in [ListNames -> Seq(Objects)]
      /\ list["allgc"] = s /\ \A l \in ListNames : l # "allgc" => list[l] = e
  BY <1>1, <1>2, <1>3 DEF ListNames, e
<1>5. kind \in [Objects -> Kinds] /\ Allocated = Roots /\ kind[Main] = "thread"
  <2>1. kind = [o \in Objects |-> IF o = Main THEN "thread" ELSE IF o \in Permanent THEN "table" ELSE "free"]
    BY DEF Init
  <2>2. \A o \in Objects : kind[o] # "free" <=> o \in Roots
    BY <2>1 DEF Roots
  <2> QED BY <2>1, <2>2, Names DEF Kinds, Modes, Allocated
<1>6. Linked(list, Allocated)
  <2>1. \A l \in ListNames : IsInjective(list[l])
    BY <1>1, <1>3, <1>4
  <2>2. \A l \in ListNames : Range(list[l]) = IF l = "allgc" THEN Roots ELSE {}
    BY <1>2, <1>3, <1>4
  <2>3. \A l, m \in ListNames : l # m => Range(list[l]) \intersect Range(list[m]) = {}
    BY <2>2
  <2>4. Roots = UNION {Range(list[l]) : l \in ListNames}
    BY <1>4, <2>2
  <2> QED BY <1>4, <1>5, <2>1, <2>3, <2>4 DEF Linked
<1>7. /\ entries = [o \in Objects |-> {}] /\ color = [o \in Objects |-> "white0"]
      /\ gray = {} /\ grayagain = {} /\ gcstate = "pause" /\ currentwhite = "white0" /\ sweepgc = "none"
      /\ goals = << >> /\ gcemergency = FALSE /\ gcstp = FALSE /\ program \in Programs
  BY DEF Init
<1>8. TypeOK
  <2>1. entries \in [Objects -> SUBSET Entry]
    BY <1>7
  <2>2. color \in [Objects -> Colors]
    BY <1>7 DEF Colors, Whites
  <2>3. goals \in Seq(States \union {"resume"})
    BY <1>7
  <2> QED BY <1>5, <1>6, <1>7, <2>1, <2>2, <2>3 DEF TypeOK, Linked, Kinds, Colors, Whites, States
<1>9. Alive = Allocated
  <2>1. otherwhite = "white1"
    BY <1>7 DEF otherwhite
  <2> QED BY <1>7, <2>1 DEF Alive, Allocated
<1>10. AliveIsClosed
  <2>1. Range(list["finobj"]) = {} /\ Range(list["tobefnz"]) = {}
    BY <1>3, <1>4 DEF ListNames
  <2>2. \A o \in Objects : Refs(o) = {}
    BY <1>7 DEF Refs, Values, Keys
  <2>3. \A o \in Alive : o \in Objects
    BY DEF Alive, Allocated
  <2> QED BY <1>5, <1>7, <1>9, <2>1, <2>2, <2>3 DEF AliveIsClosed
<1>11. StacksAreGray /\ MainInvariant
  BY <1>5, <1>7 DEF StacksAreGray, MainInvariant, keepinvariant
<1>12. SweepAdvances
  <2>1. \A l \in ListNames : ~ Sweeping(l) /\ Passed(l) = Range(list[l])
    BY <1>7 DEF Sweeping, Passed, Swept
  <2>2. \A l \in ListNames : Range(list[l]) \subseteq Objects
    BY <1>4 DEF Range
  <2> QED BY <1>7, <2>1, <2>2 DEF SweepAdvances
<1> QED BY <1>8, <1>10, <1>11, <1>12 DEF IInv

\* Whatever the collector does ...
LEMMA CollectorKeeps ==
  ASSUME IInv, program' = program, singlestep
  PROVE  IInv'
<1>1. goals \in Seq(States \union {"resume"}) /\ gcemergency \in BOOLEAN /\ gcstp \in BOOLEAN
  BY Types DEF IInv
<1>2. CASE restartcollection
  BY <1>2, RestartKeeps
<1>3. ASSUME NEW o \in gray, propagatemark(o) PROVE IInv'
  BY <1>3, VisitKeeps
<1>4. CASE enteratomic
  BY <1>1, <1>4, PhaseKeeps DEF enteratomic, modeVars
<1>5. CASE atomic
  BY <1>5, AtomicKeeps
<1>6. CASE sweepstep
  BY <1>6, SweepstepKeeps
<1>7. CASE swpend
  BY <1>1, <1>7, PhaseKeeps DEF swpend, modeVars
<1>8. CASE GCTM
  BY <1>8, GCTMKeeps
<1>9. CASE finishcycle
  BY <1>1, <1>9, PhaseKeeps DEF finishcycle, modeVars
<1> QED BY <1>2, <1>3, <1>4, <1>5, <1>6, <1>7, <1>8, <1>9 DEF singlestep

\* ... and whatever the program does.
LEMMA ProgramKeeps ==
  ASSUME IInv, program' = program, Program
  PROVE  IInv'
<1>1. /\ goals \in Seq(States \union {"resume"}) /\ gcemergency \in BOOLEAN
      /\ program.full \subseteq BOOLEAN
  BY Types, ProgramAssumption DEF IInv
<1>2. ASSUME NEW o \in Others, NEW k \in program.kinds \ (Modes \ {"table"}), luaC_newobj(o, k) PROVE IInv'
  BY <1>2, NewObjectKeeps
<1>3. ASSUME NEW t \in Held, NEW v \in Refs(t), Get(t, v) PROVE IInv'
  <2>1. v \in Alive
    BY HeldIsAlive
  <2> QED BY <1>3, <2>1, PushKeeps DEF Get
<1>4. ASSUME NEW v \in Values(Main), Pop(v) PROVE IInv'
  <2> DEFINE es == {e \in entries[Main] : e.value # v}
  <2>1. Main \in Alive /\ es \in SUBSET entries[Main]
    BY HeldIsAlive DEF Roots
  <2>2. Main \in Objects /\ entries \in [Objects -> SUBSET Entry]
    BY Names, Types DEF IInv
  <2>3. entries' = [entries EXCEPT ![Main] = es] /\ UNCHANGED <<kind, list, markVars, phaseVars, modeVars>>
    BY <1>4, <2>2 DEF Pop
  <2> HIDE DEF es
  <2> QED BY <2>1, <2>3, LoseKeeps
<1>5. ASSUME NEW t \in Held, NEW v \in Values(Main),
             SetOther(t, v) \/ \E k \in program.keys : SetTable(t, k, v)
      PROVE  IInv'
  BY <1>5, SetOtherKeeps, SetTableKeeps
<1>6. ASSUME NEW t \in Held, NEW e \in entries[t], SetNil(t, e) PROVE IInv'
  <2> DEFINE es == entries[t] \ {e}
  <2>1. t \in Alive /\ es \in SUBSET entries[t]
    BY HeldIsAlive
  <2>2. t \in Objects /\ entries \in [Objects -> SUBSET Entry]
    BY <2>1, HeldIsAlive, Types DEF IInv
  <2>3. entries' = [entries EXCEPT ![t] = es] /\ UNCHANGED <<kind, list, markVars, phaseVars, modeVars>>
    BY <1>6, <2>2 DEF SetNil
  <2> HIDE DEF es
  <2> QED BY <2>1, <2>3, LoseKeeps
<1>7. ASSUME NEW t \in Held, NEW m \in Modes, SetMode(t, m) PROVE IInv'
  BY <1>7, SetModeKeeps
<1>8. ASSUME NEW o \in Held, luaC_checkfinalizer(o) PROVE IInv'
  BY <1>8, FinalizerKeeps
<1>9. CASE FinalizerReturns
  BY <1>1, <1>9, PhaseKeeps DEF FinalizerReturns, phaseVars
<1>10. ASSUME NEW b \in program.full, luaC_fullgc(b) PROVE IInv'
  BY <1>1, <1>10, FullKeeps
<1> QED BY <1>2, <1>3, <1>4, <1>5, <1>6, <1>7, <1>8, <1>9, <1>10 DEF Program

\* The invariant holds after every step.
LEMMA Invariance ==
  ASSUME IInv, [Next]_vars
  PROVE  IInv'
<1>1. CASE Next
  <2>1. program' = program
    BY <1>1 DEF Next
  <2>2. CASE luaC_step \/ luaC_runtilstate
    BY <2>1, <2>2, CollectorKeeps DEF luaC_step, luaC_runtilstate
  <2>3. CASE ReachGoal
    <3>1. goals \in Seq(States \union {"resume"}) /\ gcemergency \in BOOLEAN /\ gcstp \in BOOLEAN
      BY Types DEF IInv
    <3>2. Tail(goals) \in Seq(States \union {"resume"})
      <4> DEFINE T == States \union {"resume"}
      <4>1. goals \in Seq(T) /\ goals # << >>
        BY <2>3, <3>1 DEF ReachGoal
      <4> HIDE DEF T
      <4>2. Tail(goals) \in Seq(T)
        BY <4>1
      <4> QED BY <4>2 DEF T
    <3>3. /\ goals' = Tail(goals) /\ gcemergency' = (gcemergency /\ Head(goals) # "resume") /\ gcstp' = gcstp
          /\ UNCHANGED <<heapVars, markVars, currentwhite, sweepgc>> /\ gcstate' = gcstate
      BY <2>3 DEF ReachGoal, phaseVars
    <3>4. gcemergency' \in BOOLEAN
      BY <3>3
    <3> QED BY <2>1, <3>1, <3>2, <3>3, <3>4, PhaseKeeps
  <2>4. CASE Program
    BY <2>1, <2>4, ProgramKeeps
  <2> QED BY <1>1, <2>2, <2>3, <2>4 DEF Next, Collector
<1>2. CASE UNCHANGED vars
  <2>1. /\ program' = program /\ UNCHANGED <<heapVars, markVars, currentwhite, sweepgc>> /\ gcstate' = gcstate
        /\ goals' = goals /\ gcemergency' = gcemergency /\ gcstp' = gcstp
    BY <1>2 DEF vars, phaseVars, modeVars
  <2> QED BY <2>1, Types, PhaseKeeps DEF IInv
<1> QED BY <1>1, <1>2

\* The inductive invariant holds of every behaviour.
LEMMA InductiveInvariant == Spec => []IInv
<1>1. Init => IInv
  BY InitIs
<1>2. IInv /\ [Next]_vars => IInv'
  BY Invariance
<1> QED BY <1>1, <1>2, PTL DEF Spec

-----------------------------------------------------------------------------
(* The theorems.                                                           *)

\* Every object is linked in exactly one list, once, whatever setmetatable,
\* finalizers and collections in the middle of a sweep do to the lists.
THEOREM TypeCorrect == Spec => []TypeOK
<1>1. IInv => TypeOK
  BY DEF IInv
<1> QED BY <1>1, InductiveInvariant, PTL

\* While the collector marks, no black object refers to a white one and the
\* gray lists hold the gray objects: the barriers suffice, for any program.
THEOREM MarkSafety == Spec => []MainInvariant
<1>1. IInv => MainInvariant
  BY DEF IInv
<1> QED BY <1>1, InductiveInvariant, PTL

\* What the sweep leaves behind is white, and so is everything when it ends.
THEOREM SweepSafety == Spec => []SweptIsWhite
<1>1. IInv => SweptIsWhite
  <2> SUFFICES ASSUME IInv PROVE SweptIsWhite
    OBVIOUS
  <2>1. gcstate \in {"swpend", "callfin", "pause"} => \A o \in Allocated : color[o] = currentwhite
    BY AllWhite
  <2>2. ASSUME gcstate = "swpallgc", sweepgc \in Objects, NEW i \in 1..IndexOf(sweepgc)
        PROVE  color[list["allgc"][i]] = currentwhite
    <3>1. "allgc" \in ListNames /\ Linked(list, Allocated)
      BY Types DEF IInv, ListNames
    <3>2. sweepgc \in {"allgc"} \union Range(list["allgc"]) /\ sweepgc # "none" /\ sweepgc \notin ListNames
      BY <2>2, <3>1, Names DEF IInv, SweepAdvances, Sweeping
    <3>3. Between(list["allgc"], 1, IndexOf(sweepgc)) = Through(list["allgc"], sweepgc)
      BY <3>1, <3>2, BehindIs DEF Behind
    <3>4. Passed("allgc") = Through(list["allgc"], sweepgc)
      BY <2>2, <3>2 DEF Passed, Swept, Sweeping
    <3>5. list["allgc"][i] \in Passed("allgc")
      BY <3>3, <3>4 DEF Between
    <3> QED BY <3>1, <3>5 DEF IInv, SweepAdvances
  <2> QED BY <2>1, <2>2 DEF SweptIsWhite
<1> QED BY <1>1, InductiveInvariant, PTL

\* No object that a program can get hold of, through weak tables too, is ever
\* freed: what the sweep spares contains the roots and what that refers to.
THEOREM DanglingSafety == Spec => []NoDangling
<1>1. IInv => NoDangling
  <2> SUFFICES ASSUME IInv PROVE NoDangling
    OBVIOUS
  <2> DEFINE closed == {M \in {Roots \union X : X \in SUBSET Others} : \A o \in M : Refs(o) \subseteq M}
  <2>1. Alive \in closed
    <3>1. Roots \subseteq Alive /\ Alive \subseteq Objects /\ \A o \in Alive : Refs(o) \subseteq Alive
      BY HeldIsAlive
    <3>2. Alive = Roots \union (Alive \ Roots) /\ Alive \ Roots \in SUBSET Others
      BY <3>1 DEF Objects
    <3> QED BY <3>1, <3>2
  <2>2. \A o \in Others : (\A M \in closed : o \in M) => kind[o] # "free"
    <3> SUFFICES ASSUME NEW o \in Others, \A M \in closed : o \in M PROVE kind[o] # "free"
      OBVIOUS
    <3>1. o \in Alive
      BY <2>1
    <3> QED BY <3>1 DEF Alive, Allocated
  <2> QED BY <2>2 DEF NoDangling
<1> QED BY <1>1, InductiveInvariant, PTL

-----------------------------------------------------------------------------
(* Weak tables.                                                            *)

\* What is strongly reachable survives the atomic step, and is alive at any time.
LEMMA ReachedSurvives ==
  ASSUME IInv
  PROVE  StronglyReachable \subseteq Alive
         /\ (gcstate = "enteratomic" => StronglyReachable \subseteq Survivors)
<1>1. Roots \in SUBSET Objects
  BY Names
<1>2. Alive \in SUBSET Objects /\ Roots \subseteq Alive /\ \A o \in Alive : Strong(o, Alive) \subseteq Alive
  BY HeldIsAlive, StrongIsRefs
<1>3. StronglyReachable \subseteq Alive
  BY <1>1, <1>2, MarkedIs DEF StronglyReachable
<1>4. ASSUME gcstate = "enteratomic" PROVE StronglyReachable \subseteq Survivors
  <2>1. /\ Roots \subseteq Old /\ Old \subseteq Survivors /\ Survivors \subseteq Allocated
        /\ \A o \in Survivors \intersect Visits : Strong(o, Survivors) \subseteq Survivors
        /\ \A o \in Allocated \ Visits : Refs(o) \subseteq Old
    BY <1>4, AtomicStart, AtomicMarks
  <2>2. \A o \in Survivors \intersect Objects : Strong(o, Survivors) \subseteq Survivors
    <3> TAKE o \in Survivors \intersect Objects
    <3>1. Strong(o, Survivors) \subseteq Refs(o)
      BY StrongIsRefs
    <3> QED BY <2>1, <3>1
  <2>3. Survivors \in SUBSET Objects /\ Roots \subseteq Survivors
    BY <2>1 DEF Allocated
  <2> QED BY <1>1, <2>2, <2>3, MarkedIs DEF StronglyReachable
<1> QED BY <1>3, <1>4

\* The atomic step leaves its lists and entries to the objects that stay.
LEMMA AtomicLeaves ==
  ASSUME IInv, atomic
  PROVE  /\ \A o \in Found : entries'[o] = Cleared[o]
         /\ \A l \in ListNames : Range(list'[l]) \subseteq Range(Split[l])
         /\ Found \subseteq Allocated' /\ Allocated' \subseteq Allocated
         /\ Found \subseteq Alive'
         /\ \A l \in ListNames : Range(list'[l]) = Range(Split[l]) \intersect Allocated'
         /\ \A o \in Objects : entries'[o] = IF o \in Allocated' THEN Cleared[o] ELSE {}
<1> DEFINE n == FirstLive("allgc", Painted, otherwhite)
<1>1. /\ gcstate = "enteratomic" /\ currentwhite' = otherwhite
      /\ Sweep("allgc", n, Painted, Cleared, Split, otherwhite)
  BY AtomicIs
<1>2. kind \in [Objects -> Kinds] /\ Linked(list, Allocated)
  BY Types DEF IInv
<1>3. /\ "allgc" \in ListNames /\ "allgc" \in {"allgc"} \union Range(list["allgc"])
      /\ n \in Nat /\ IndexOf("allgc") <= n /\ n <= Len(list["allgc"])
  BY <1>2, FromHead
<1> HIDE DEF n
<1>4. Linked(Split, Allocated) /\ Found \subseteq Allocated
  BY <1>1, AtomicMarks
<1>5. /\ Painted \in [Objects -> Colors] /\ Cleared \in [Objects -> SUBSET Entry]
      /\ otherwhite \in Whites
      /\ LiveIn(Allocated, Painted, otherwhite) = Found
      /\ LiveClosed(Allocated, Cleared, Painted, Split, otherwhite)
  BY <1>1, AtomicLives
<1>6. PICK seen \in SUBSET Range(list["allgc"]), dead \in SUBSET Range(list["allgc"]) :
         Frees(seen, dead, Painted, Cleared, Split, otherwhite) /\ Leaves(dead, Painted, Cleared, Split, otherwhite)
  BY <1>1, <1>2, <1>3, <1>4, <1>5, SweepKeepsAlive
<1>7. /\ Allocated' = Allocated \ dead /\ dead \intersect Found = {}
      /\ \A l \in ListNames : Range(list'[l]) = Range(Split[l]) \ dead
      /\ LiveIn(Allocated', color', otherwhite) = Found
      /\ \A o \in Objects \ dead : entries'[o] = Cleared[o]
  BY <1>5, <1>6 DEF Leaves
<1>8. Alive' = Found
  BY <1>1, <1>5, <1>7, InWordsThen
<1>9. Found \subseteq Objects
  BY <1>4 DEF Allocated
<1>10. \A l \in ListNames : Range(Split[l]) \subseteq Allocated
  BY <1>4 DEF Linked
<1>11. \A l \in ListNames : Range(list'[l]) = Range(Split[l]) \intersect Allocated'
  BY <1>7, <1>10
<1>12. ASSUME NEW o \in Objects PROVE entries'[o] = IF o \in Allocated' THEN Cleared[o] ELSE {}
  <2>1. entries'[o] = IF o \in dead THEN {} ELSE Cleared[o]
    BY <1>6 DEF Frees
  <2>2. o \notin Allocated => Cleared[o] = {}
    BY <1>5 DEF LiveClosed
  <2> QED BY <1>7, <2>1, <2>2
<1> QED BY <1>4, <1>7, <1>8, <1>9, <1>11, <1>12

\* A sweep outside the atomic step frees nothing that is alive and keeps the rest.
LEMMA SweepLeaves ==
  ASSUME IInv, NEW c \in [Objects -> Colors], NEW ls, Linked(ls, Allocated),
         LiveIn(Allocated, c, currentwhite) = Alive,
         LiveClosed(Allocated, entries, c, ls, currentwhite),
         NEW l \in ListNames, NEW p \in {l} \union Range(list[l]),
         NEW n \in Nat, IndexOf(p) <= n, n <= Len(list[l]),
         Sweep(p, n, c, entries, ls, currentwhite)
  PROVE  /\ Allocated' \subseteq Allocated /\ Alive \subseteq Allocated'
         /\ \A m \in ListNames : Range(list'[m]) = Range(ls[m]) \intersect Allocated'
         /\ \A o \in Objects : entries'[o] = IF o \in Allocated' THEN entries[o] ELSE {}
<1>1. kind \in [Objects -> Kinds] /\ Linked(list, Allocated) /\ currentwhite \in Whites
      /\ entries \in [Objects -> SUBSET Entry]
  BY Types DEF IInv
<1>2. PICK seen \in SUBSET Range(list[l]), dead \in SUBSET Range(list[l]) :
         Frees(seen, dead, c, entries, ls, currentwhite) /\ Leaves(dead, c, entries, ls, currentwhite)
  BY <1>1, SweepKeepsAlive
<1>3. /\ Allocated' = Allocated \ dead /\ dead \intersect Alive = {}
      /\ \A m \in ListNames : Range(list'[m]) = Range(ls[m]) \ dead
  BY <1>2 DEF Leaves
<1>4. Alive \subseteq Allocated
  BY HeldIsAlive
<1>5. \A m \in ListNames : Range(ls[m]) \subseteq Allocated
  BY DEF Linked
<1>6. ASSUME NEW o \in Objects PROVE entries'[o] = IF o \in Allocated' THEN entries[o] ELSE {}
  <2>1. entries'[o] = IF o \in dead THEN {} ELSE entries[o]
    BY <1>2 DEF Frees
  <2>2. o \notin Allocated => entries[o] = {}
    BY DEF IInv, AliveIsClosed
  <2> QED BY <1>3, <2>1, <2>2
<1>7. ASSUME NEW m \in ListNames PROVE Range(list'[m]) = Range(ls[m]) \intersect Allocated'
  BY <1>3, <1>5
<1> QED BY <1>3, <1>4, <1>6, <1>7

\* A full collection that starts while the collector marks frees nothing.
LEMMA FullLeaves ==
  ASSUME IInv, NEW b, luaC_fullgc(b)
  PROVE  /\ Allocated' = Allocated /\ \A o \in Objects : entries'[o] = entries[o]
         /\ \A l \in ListNames : Range(list'[l]) = Range(list[l])
<1>1. CASE ~ keepinvariant /\ UNCHANGED <<heapVars, color, gcstate, sweepgc>>
  BY <1>1 DEF heapVars, Allocated
<1>2. CASE keepinvariant
           /\ Sweep("allgc", FirstLive("allgc", color, currentwhite), color, entries, list, currentwhite)
  <2> DEFINE n == FirstLive("allgc", color, currentwhite)
  <2>1. Linked(list, Allocated)
    BY SweepReady
  <2>2. /\ "allgc" \in ListNames /\ "allgc" \in {"allgc"} \union Range(list["allgc"])
        /\ n \in Nat /\ IndexOf("allgc") <= n /\ n <= Len(list["allgc"])
    BY <2>1, FromHead
  <2>3. Sweep("allgc", n, color, entries, list, currentwhite)
    BY <1>2
  <2> HIDE DEF n
  <2>4. /\ Allocated' \subseteq Allocated /\ Alive \subseteq Allocated'
        /\ \A m \in ListNames : Range(list'[m]) = Range(list[m]) \intersect Allocated'
        /\ \A o \in Objects : entries'[o] = IF o \in Allocated' THEN entries[o] ELSE {}
    BY <2>2, <2>3, SweepReady, SweepLeaves
  <2>5. Alive = Allocated
    BY <1>2 DEF IInv, AliveIsClosed, keepinvariant
  <2>6. \A m \in ListNames : Range(list[m]) \subseteq Allocated
    BY <2>1 DEF Linked
  <2>7. \A o \in Objects \ Allocated : entries[o] = {}
    BY DEF IInv, AliveIsClosed
  <2> QED BY <2>4, <2>5, <2>6, <2>7
<1> QED BY <1>1, <1>2 DEF luaC_fullgc

\* Only these steps leave the phase before the sweep.
LEMMA LeavesPhase ==
  ASSUME Next, gcstate = "enteratomic", gcstate' # gcstate
  PROVE  atomic \/ \E b : luaC_fullgc(b)
<1>1. CASE Collector
  <2>1. ~ ReachGoal
    BY DEF ReachGoal, phaseVars
  <2>2. singlestep
    BY <1>1, <2>1 DEF Collector, luaC_step, luaC_runtilstate
  <2>3. ~ restartcollection /\ ~ enteratomic /\ ~ swpend /\ ~ finishcycle /\ ~ GCTM /\ ~ sweepstep
    BY DEF restartcollection, enteratomic, swpend, finishcycle, GCTM, sweepstep
  <2>4. \A o : ~ propagatemark(o)
    BY DEF propagatemark
  <2> QED BY <2>2, <2>3, <2>4 DEF singlestep
<1>2. CASE Program
  <2>1. \A o, k : ~ luaC_newobj(o, k)
    BY DEF luaC_newobj, phaseVars
  <2>2. \A t, v : ~ Get(t, v) /\ ~ SetOther(t, v) /\ ~ SetNil(t, v) /\ ~ SetMode(t, v)
    BY DEF Get, SetOther, SetNil, SetMode, phaseVars
  <2>3. \A v : ~ Pop(v) /\ ~ luaC_checkfinalizer(v)
    BY DEF Pop, luaC_checkfinalizer, phaseVars
  <2>4. \A t, k, v : ~ SetTable(t, k, v)
    BY DEF SetTable, phaseVars
  <2>5. ~ FinalizerReturns
    BY DEF FinalizerReturns, phaseVars
  <2> QED BY <1>2, <2>1, <2>2, <2>3, <2>4, <2>5 DEF Program
<1> QED BY <1>1, <1>2 DEF Next

\* A weak table loses an entry in the atomic step only for what is held weakly
\* in it and not strongly reachable.
LEMMA AtomicClears ==
  ASSUME IInv, atomic, NEW t \in StronglyReachable, NEW e \in entries[t] \ entries'[t]
  PROVE  \/ kind[t] \in {"weakvalue", "allweak"} /\ e.value \notin StronglyReachable
         \/ kind[t] \in {"ephemeron", "allweak"} /\ e.key # NoKey /\ e.key \notin StronglyReachable
<1>1. gcstate = "enteratomic"
  BY AtomicIs
<1>2. /\ StronglyReachable \subseteq Survivors /\ Survivors \subseteq Found /\ Found \subseteq Allocated
  BY <1>1, ReachedSurvives, AtomicMarks
<1>3. entries'[t] = Cleared[t] /\ t \in Objects /\ t \in Survivors
  BY <1>2, AtomicLeaves DEF Allocated
<1>4. CASE t \notin Visits
  BY <1>3, <1>4 DEF Cleared
<1>5. CASE t \in Visits
  <2>1. Cleared[t] = ClearedEntries(t, Survivors, Found)
    BY <1>2, <1>3, <1>5 DEF Cleared
  <2>2. \/ kind[t] \in {"weakvalue", "allweak"} /\ e.value \notin Survivors
        \/ kind[t] \in {"ephemeron", "allweak"} /\ e.key \notin Found \union {NoKey}
    BY <1>3, <2>1 DEF ClearedEntries
  <2> QED BY <1>2, <2>2
<1> QED BY <1>4, <1>5

\* The collector removes an entry of a weak table that is alive only if its
\* value, held weakly, or its key, held weakly, is not strongly reachable.
THEOREM WeakTablesKeep == Spec => KeepsLiveEntries
<1> DEFINE A == (gcstate = "enteratomic" /\ gcstate' # gcstate) =>
         \A t \in StronglyReachable : \A e \in entries[t] \ entries'[t] :
            \/ kind[t] \in {"weakvalue", "allweak"} /\ e.value \notin StronglyReachable
            \/ kind[t] \in {"ephemeron", "allweak"}
                 /\ e.key # NoKey /\ e.key \notin StronglyReachable
<1>1. IInv /\ [Next]_vars => [A]_vars
  <2> SUFFICES ASSUME IInv, Next, gcstate = "enteratomic", gcstate' # gcstate,
                      NEW t \in StronglyReachable, NEW e \in entries[t] \ entries'[t]
               PROVE  \/ kind[t] \in {"weakvalue", "allweak"} /\ e.value \notin StronglyReachable
                      \/ kind[t] \in {"ephemeron", "allweak"}
                           /\ e.key # NoKey /\ e.key \notin StronglyReachable
    OBVIOUS
  <2>1. CASE atomic
    BY <2>1, AtomicClears
  <2>2. ASSUME NEW b, luaC_fullgc(b) PROVE FALSE
    <3>1. t \in Objects
      BY ReachedSurvives, HeldIsAlive
    <3> QED BY <2>2, <3>1, FullLeaves
  <2> QED BY <2>1, <2>2, LeavesPhase
<1>2. KeepsLiveEntries <=> [][A]_vars
  BY DEF KeepsLiveEntries
<1> HIDE DEF A
<1>3. Spec => [][A]_vars
  BY <1>1, InductiveInvariant, PTL DEF Spec
<1> QED BY <1>2, <1>3

-----------------------------------------------------------------------------
(* What a step does to the heap: the objects there are, their references,  *)
(* those with finalizers and those due for them.                           *)

\* Objects that are not alive go.
Shrinks(l) == /\ Allocated' \subseteq Allocated /\ Alive \subseteq Allocated'
              /\ \A o \in Objects : entries'[o] = IF o \in Allocated' THEN entries[o] ELSE {}
              /\ Range(list'[l]) = Range(list[l])

\* A step of the sweep.
LEMMA SweepstepLeaves ==
  ASSUME IInv, sweepstep
  PROVE  Shrinks("finobj") /\ Shrinks("tobefnz")
<1>1. Linked(list, Allocated) /\ "finobj" \in ListNames /\ "tobefnz" \in ListNames
  BY SweepReady DEF ListNames
<1>2. Alive \subseteq Allocated /\ \A o \in Objects \ Allocated : entries[o] = {}
  BY HeldIsAlive DEF IInv, AliveIsClosed
<1>3. CASE sweepgc # "none"
  <2> DEFINE len == Len(list[ListOf(sweepgc)])
             max == IndexOf(sweepgc) + GCSWEEPMAX
             n   == IF goals # << >> \/ max > len THEN len ELSE max
  <2>1. Sweep(sweepgc, n, color, entries, list, currentwhite)
        /\ gcstate \in {"swpallgc", "swpfinobj", "swptobefnz"}
    BY <1>3 DEF sweepstep
  <2>2. PICK l \in ListNames : Sweeping(l)
    BY <2>1 DEF Sweeping, ListNames
  <2>3. sweepgc \in {l} \union Range(list[l])
    BY <1>3, <2>2 DEF IInv, SweepAdvances
  <2>4. len = Len(list[l]) /\ len \in Nat /\ IndexOf(sweepgc) \in 0..len
    <3>1. ListOf(sweepgc) = l /\ Place(list[l], l, IndexOf(sweepgc), sweepgc)
      BY <1>1, <2>3, PlaceIs
    <3>2. list[l] \in Seq(Objects)
      BY <1>1 DEF Linked
    <3> QED BY <3>1, <3>2 DEF Place
  <2>5. GCSWEEPMAX \in Nat
    BY BoundAssumption
  <2> HIDE DEF len
  <2>6. n \in Nat /\ IndexOf(sweepgc) <= n /\ n <= len
    BY <2>4, <2>5
  <2> HIDE DEF n
  <2>7. /\ Allocated' \subseteq Allocated /\ Alive \subseteq Allocated'
        /\ \A m \in ListNames : Range(list'[m]) = Range(list[m]) \intersect Allocated'
        /\ \A o \in Objects : entries'[o] = IF o \in Allocated' THEN entries[o] ELSE {}
    BY <2>1, <2>3, <2>4, <2>6, SweepReady, SweepLeaves
  <2>8. Range(list["finobj"]) \subseteq Alive /\ Range(list["tobefnz"]) \subseteq Alive
    BY DEF IInv, AliveIsClosed
  <2> QED BY <1>1, <2>7, <2>8 DEF Shrinks
<1>4. CASE sweepgc = "none"
  <2>1. kind' = kind /\ entries' = entries /\ list' = list
    BY <1>4 DEF sweepstep, heapVars
  <2>2. Allocated' = Allocated
    BY <2>1 DEF Allocated
  <2> QED BY <1>2, <2>1, <2>2 DEF Shrinks
<1> QED BY <1>3, <1>4

\* An object gets a finalizer, with which others may go.
LEMMA FinalizerLeaves ==
  ASSUME IInv, NEW o, luaC_checkfinalizer(o)
  PROVE  /\ Shrinks("tobefnz")
         /\ Range(list'["finobj"]) = Range(list["finobj"]) \union {o}
         /\ o \in Held /\ o \notin Range(list["finobj"]) \union Range(list["tobefnz"])
<1> DEFINE c  == IF issweepphase THEN [color EXCEPT ![o] = currentwhite] ELSE color
           s  == Without(list["allgc"], {o})
           ls == [list EXCEPT !["allgc"] = Without(@, {o}), !["finobj"] = <<o>> \o @]
<1>1. o \in Held \ Roots /\ ~ tofinalize(o)
  BY DEF luaC_checkfinalizer
<1>2. currentwhite \in Whites /\ Linked(list, Allocated) /\ color \in [Objects -> Colors]
  BY Types DEF IInv
<1>3. o \in Alive /\ o \in Allocated /\ o \in Objects /\ Alive \subseteq Allocated
  BY <1>1, HeldIsAlive
<1>4. "allgc" \in ListNames /\ "finobj" \in ListNames /\ "tobefnz" \in ListNames \ {"allgc", "finobj"}
      /\ "finobj" # "allgc" /\ \A l \in ListNames : l \in {"allgc", "finobj", "tobefnz"}
  BY DEF ListNames
<1>5. o \in Range(list["allgc"])
  <2>1. PICK l \in ListNames : o \in Range(list[l])
    BY <1>2, <1>3 DEF Linked
  <2> QED BY <1>1, <1>4, <2>1 DEF tofinalize
<1>6. list["allgc"] \in Seq(Objects) /\ IsInjective(list["allgc"]) /\ list \in [ListNames -> Seq(Objects)]
  BY <1>2, <1>4 DEF Linked
<1>7. /\ s \in Seq(Objects) /\ Range(s) = Range(list["allgc"]) \ {o} /\ IsInjective(s)
  BY <1>6, WithoutIs
<1>8. ls = [list EXCEPT !["allgc"] = s, !["finobj"] = <<o>> \o @]
  BY <1>4, <1>6
<1> HIDE DEF s, ls
<1>9. /\ Linked(ls, Allocated) /\ Range(ls["finobj"]) = Range(list["finobj"]) \union {o}
      /\ ls["tobefnz"] = list["tobefnz"]
  <2>1. Linked(ls, Allocated) /\ Moves(ls, list, "allgc", "finobj", o, s)
    BY <1>2, <1>4, <1>5, <1>7, <1>8, LinkedMoved
  <2> QED BY <1>4, <2>1 DEF Moves
<1>10. c \in [Objects -> Colors] /\ \A p \in Objects : c[p] = IF p = o /\ issweepphase THEN currentwhite ELSE color[p]
  <2>1. currentwhite \in Colors
    BY <1>2 DEF Colors
  <2> QED BY <1>2, <1>3, <2>1
<1> HIDE DEF c
<1>11. LiveIn(Allocated, c, currentwhite) = Alive
  <2>1. ASSUME NEW p \in Allocated PROVE c[p] \notin Whites \ {currentwhite} <=> color[p] \notin Whites \ {currentwhite}
    <3>1. p \in Objects
      BY DEF Allocated
    <3>2. color[o] \notin Whites \ {currentwhite}
      BY <1>3, SweepReady DEF LiveIn
    <3> QED BY <1>10, <3>1, <3>2
  <2>2. LiveIn(Allocated, c, currentwhite) = LiveIn(Allocated, color, currentwhite)
    BY <2>1 DEF LiveIn
  <2> QED BY <2>2, SweepReady
<1>12. LiveClosed(Allocated, entries, c, ls, currentwhite)
  BY <1>3, <1>9, <1>11, SweepReady DEF LiveClosed
<1>13. Range(list["finobj"]) \union Range(list["tobefnz"]) \subseteq Alive
       /\ \A p \in Objects \ Allocated : entries[p] = {}
  BY DEF IInv, AliveIsClosed
<1>14. CASE Sweep(o, FirstLive(o, c, currentwhite), c, entries, ls, currentwhite)
  <2> DEFINE n == FirstLive(o, c, currentwhite)
  <2>1. o \in {"allgc"} \union Range(list["allgc"])
    BY <1>5
  <2>2. n \in Nat /\ IndexOf(o) <= n /\ n <= Len(list["allgc"])
    BY <1>2, <1>4, <2>1, FirstLiveIs
  <2>3. Sweep(o, n, c, entries, ls, currentwhite)
    BY <1>14
  <2> HIDE DEF n
  <2>4. /\ Allocated' \subseteq Allocated /\ Alive \subseteq Allocated'
        /\ \A m \in ListNames : Range(list'[m]) = Range(ls[m]) \intersect Allocated'
        /\ \A p \in Objects : entries'[p] = IF p \in Allocated' THEN entries[p] ELSE {}
    BY <1>4, <1>9, <1>10, <1>11, <1>12, <2>1, <2>2, <2>3, SweepLeaves
  <2> QED BY <1>1, <1>3, <1>4, <1>9, <1>13, <2>4 DEF Shrinks, tofinalize
<1>15. CASE list' = ls /\ UNCHANGED <<kind, entries>>
  <2>1. Allocated' = Allocated
    BY <1>15 DEF Allocated
  <2> QED BY <1>1, <1>3, <1>9, <1>13, <1>15, <2>1 DEF Shrinks, tofinalize
<1> QED BY <1>14, <1>15 DEF luaC_checkfinalizer, c, ls

\* A finalizer starts.
LEMMA GCTMLeaves ==
  ASSUME IInv, GCTM
  PROVE  \E o \in Range(list["tobefnz"]) :
            /\ Range(list'["tobefnz"]) = Range(list["tobefnz"]) \ {o}
            /\ Range(list'["finobj"]) = Range(list["finobj"])
            /\ entries' = Push(o) /\ kind' = kind
<1> DEFINE o == Head(list["tobefnz"])
           s == Tail(list["tobefnz"])
<1>1. /\ list["tobefnz"] # << >> /\ kind' = kind /\ entries' = Push(o)
      /\ list' = [list EXCEPT !["tobefnz"] = s, !["allgc"] = <<o>> \o @]
  <2>1. list \in [ListNames -> Seq(Objects)] /\ "tobefnz" \in ListNames /\ "allgc" # "tobefnz"
    BY SweepReady DEF Linked, ListNames
  <2> QED BY <2>1 DEF GCTM, Push
<1>2. "allgc" \in ListNames /\ "tobefnz" \in ListNames /\ "finobj" \in ListNames \ {"allgc", "tobefnz"} /\ "allgc" # "tobefnz"
  BY DEF ListNames
<1>3. list["tobefnz"] \in Seq(Objects) /\ IsInjective(list["tobefnz"]) /\ Linked(list, Allocated)
  BY <1>2, SweepReady DEF Linked
<1>4. /\ o \in Range(list["tobefnz"]) /\ s \in Seq(Objects)
      /\ Range(s) = Range(list["tobefnz"]) \ {o} /\ IsInjective(s)
  BY <1>1, <1>3, UnlinkIs
<1> HIDE DEF o, s
<1>5. Moves(list', list, "tobefnz", "allgc", o, s)
  BY <1>1, <1>2, <1>3, <1>4, LinkedMoved
<1>6. Range(list'["tobefnz"]) = Range(list["tobefnz"]) \ {o} /\ Range(list'["finobj"]) = Range(list["finobj"])
  BY <1>2, <1>4, <1>5 DEF Moves
<1> QED BY <1>1, <1>4, <1>6

\* Only the atomic step picks objects for their finalizers.
LEMMA OnlyAtomicPicks ==
  ASSUME IInv, [Next]_vars, ~ atomic
  PROVE  Range(list'["tobefnz"]) \subseteq Range(list["tobefnz"])
<1>1. CASE list' = list
  BY <1>1
<1>2. CASE singlestep
  <2>1. CASE sweepstep
    BY <2>1, SweepstepLeaves DEF Shrinks
  <2>2. CASE GCTM
    BY <2>2, GCTMLeaves
  <2>3. CASE restartcollection \/ enteratomic \/ swpend \/ finishcycle \/ \E o : propagatemark(o)
    BY <1>1, <2>3 DEF restartcollection, enteratomic, swpend, finishcycle, propagatemark, heapVars
  <2> QED BY <1>2, <2>1, <2>2, <2>3 DEF singlestep
<1>3. ASSUME NEW o, NEW k, luaC_newobj(o, k) PROVE list'["tobefnz"] = list["tobefnz"]
  <2>1. list' = [list EXCEPT !["allgc"] = <<o>> \o @] /\ list \in [ListNames -> Seq(Objects)]
    BY <1>3, SweepReady DEF luaC_newobj, Linked
  <2> QED BY <2>1 DEF ListNames
<1>4. ASSUME NEW o, luaC_checkfinalizer(o) PROVE Range(list'["tobefnz"]) \subseteq Range(list["tobefnz"])
  BY <1>4, FinalizerLeaves DEF Shrinks
<1>5. ASSUME NEW b, luaC_fullgc(b) PROVE Range(list'["tobefnz"]) \subseteq Range(list["tobefnz"])
  BY <1>5, FullLeaves DEF ListNames
<1>6. CASE Program
  <2>1. \A t, v : Get(t, v) \/ SetOther(t, v) \/ SetNil(t, v) \/ SetMode(t, v) => list' = list
    BY DEF Get, SetOther, SetNil, SetMode
  <2>2. \A t, k, v : SetTable(t, k, v) => list' = list
    BY DEF SetTable
  <2>3. (\A v : Pop(v) => list' = list) /\ (FinalizerReturns => list' = list)
    BY DEF Pop, FinalizerReturns, heapVars
  <2> QED BY <1>1, <1>3, <1>4, <1>5, <1>6, <2>1, <2>2, <2>3 DEF Program
<1>7. (ReachGoal => list' = list) /\ (UNCHANGED vars => list' = list)
  BY DEF ReachGoal, heapVars, vars
<1> QED BY <1>1, <1>2, <1>6, <1>7 DEF Next, Collector, luaC_step, luaC_runtilstate

\* An object that is given to its finalizer is in no weak value of a table that
\* is alive otherwise: weak values go before the object comes alive again.
THEOREM WeakValuesGoFirst == Spec => FinalizedIsNoWeakValue
<1> DEFINE A == \A o \in Range(list["tobefnz"]') \ Range(list["tobefnz"]) :
                   \A t \in StronglyReachable :
                      kind[t] \in {"weakvalue", "allweak"} => o \notin {e.value : e \in entries'[t]}
<1>1. IInv /\ [Next]_vars => A
  <2> SUFFICES ASSUME IInv, [Next]_vars, NEW o \in Range(list'["tobefnz"]) \ Range(list["tobefnz"]),
                      NEW t \in StronglyReachable, kind[t] \in {"weakvalue", "allweak"},
                      NEW e \in entries'[t], o = e.value
               PROVE  FALSE
    OBVIOUS
  <2>1. atomic
    BY OnlyAtomicPicks
  <2>2. gcstate = "enteratomic"
    BY <2>1, AtomicIs
  <2>3. /\ Survivors \subseteq Found /\ Found \subseteq Allocated /\ Old \subseteq Survivors
        /\ Range(Split["tobefnz"]) = Range(list["tobefnz"]) \union (Range(list["finobj"]) \ Survivors)
    BY <2>2, AtomicMarks
  <2>4. o \notin Survivors
    <3>1. Range(list'["tobefnz"]) \subseteq Range(Split["tobefnz"])
      BY <2>1, AtomicLeaves DEF ListNames
    <3> QED BY <2>3, <3>1
  <2>5. t \in Survivors /\ t \in Objects /\ e \in Cleared[t]
    <3>1. t \in Survivors
      BY <2>2, ReachedSurvives
    <3> QED BY <2>1, <2>3, <3>1, AtomicLeaves DEF Allocated
  <2>6. CASE t \in Visits
    <3>1. Cleared[t] = ClearedEntries(t, Survivors, Found)
      BY <2>3, <2>5, <2>6 DEF Cleared
    <3> QED BY <2>4, <2>5, <3>1 DEF ClearedEntries
  <2>7. CASE t \notin Visits
    <3>1. Cleared[t] = entries[t]
      BY <2>5, <2>7 DEF Cleared
    <3>2. Refs(t) \subseteq Old
      BY <2>2, <2>3, <2>5, <2>7, AtomicStart
    <3>3. e.value \in Refs(t)
      BY <2>5, <3>1 DEF Refs, Values
    <3> QED BY <2>3, <2>4, <3>2, <3>3
  <2> QED BY <2>6, <2>7
<1>2. FinalizedIsNoWeakValue <=> [][A]_vars
  BY DEF FinalizedIsNoWeakValue
<1> HIDE DEF A
<1>3. Spec => [][A]_vars
  BY <1>1, InductiveInvariant, PTL DEF Spec
<1> QED BY <1>2, <1>3

-----------------------------------------------------------------------------
(* The garbage collector implements the abstract heap (LuaHeap), for any    *)
(* objects and bounds, and for programs without weak tables, which are not  *)
(* part of that: every step of the program, of the collector and of full    *)
(* collections in the middle of them is a step of the heap, or changes      *)
(* nothing there.                                                           *)

\* No program makes tables weak.
StrongTables == \A p \in Programs : p.kinds \intersect Modes \subseteq {"table"}
NoWeakTable  == \A o \in Objects : kind[o] \notin Modes \ {"table"}

-----------------------------------------------------------------------------
(* What references lead to.                                                *)

\* The objects reached from S are the least set around it that references
\* do not leave.
LEMMA ReachIs ==
  ASSUME NEW S \in SUBSET Objects, \A o \in Objects : Refs(o) \subseteq Objects
  PROVE  /\ S \subseteq Heap!Reach(S) /\ Heap!Reach(S) \subseteq Objects
         /\ \A o \in Heap!Reach(S) : Refs(o) \subseteq Heap!Reach(S)
         /\ \A M \in SUBSET Objects :
               S \subseteq M /\ (\A o \in M : Refs(o) \subseteq M) => Heap!Reach(S) \subseteq M
<1> DEFINE R == [o \in Objects |-> Refs(o)]
           closed == {M \in {S \union X : X \in SUBSET (Objects \ S)} : \A o \in M : R[o] \subseteq M}
           K == Heap!Reach(S)
<1>1. \A o \in Objects : R[o] = Refs(o)
  OBVIOUS
<1>2. K = {o \in Objects : \A M \in closed : o \in M}
  BY DEF Heap!Reach
<1> HIDE DEF R
<1>3. \A M : M \in closed <=> /\ S \subseteq M /\ M \subseteq Objects
                              /\ \A o \in M : Refs(o) \subseteq M
  <2> TAKE M
  <2>1. ASSUME S \subseteq M, M \subseteq Objects PROVE M \in {S \union X : X \in SUBSET (Objects \ S)}
    <3>1. M = S \union (M \ S) /\ M \ S \in SUBSET (Objects \ S)
      BY <2>1
    <3> QED BY <3>1
  <2> QED BY <1>1, <2>1
<1> HIDE DEF closed, K
<1>4. S \subseteq K /\ K \subseteq Objects
  BY <1>2, <1>3
<1>5. ASSUME NEW M \in SUBSET Objects, S \subseteq M, \A o \in M : Refs(o) \subseteq M
      PROVE  K \subseteq M
  BY <1>2, <1>3, <1>5
<1>6. \A o \in K : Refs(o) \subseteq K
  BY <1>2, <1>3
<1> QED BY <1>4, <1>5, <1>6 DEF K

\* What a program can get at is alive, and so is what finalizers will get.
LEMMA ReachIsAlive ==
  ASSUME IInv
  PROVE  /\ \A o \in Objects : Refs(o) \subseteq Objects
         /\ Roots \subseteq Heap!InReach /\ Heap!InReach \subseteq Alive /\ Held \subseteq Heap!InReach
         /\ \A o \in Heap!InReach : Refs(o) \subseteq Heap!InReach
         /\ Heap!Reach({Main} \union Permanent \union Range(list["finobj"]) \union Range(list["tobefnz"]))
               \subseteq Alive
<1>1. ASSUME NEW o \in Objects PROVE Refs(o) \subseteq Objects
  <2>1. entries[o] \in SUBSET Entry
    BY Types DEF IInv
  <2> QED BY <2>1 DEF Refs, Values, Keys, Entry
<1>2. Alive \in SUBSET Objects /\ \A o \in Alive : Refs(o) \subseteq Alive
  BY HeldIsAlive
<1>3. Roots \union Range(list["finobj"]) \union Range(list["tobefnz"]) \subseteq Alive
  BY DEF IInv, AliveIsClosed
<1>4. Roots = {Main} \union Permanent
  BY DEF Roots
<1>5. Heap!InReach = Heap!Reach(Roots)
  BY <1>4 DEF Heap!InReach
<1>6. /\ Roots \subseteq Heap!InReach /\ Heap!InReach \subseteq Alive
      /\ \A o \in Heap!InReach : Refs(o) \subseteq Heap!InReach
  <2>1. Roots \in SUBSET Objects /\ Roots \subseteq Alive
    BY <1>3, Names
  <2> QED BY <1>1, <1>2, <1>5, <2>1, ReachIs
<1>7. Held \subseteq Heap!InReach
  <2>1. Values(Main) \subseteq Refs(Main)
    BY DEF Refs
  <2> QED BY <1>4, <1>6, <2>1 DEF Held
<1>8. Heap!Reach({Main} \union Permanent \union Range(list["finobj"]) \union Range(list["tobefnz"])) \subseteq Alive
  <2> DEFINE W == {Main} \union Permanent \union Range(list["finobj"]) \union Range(list["tobefnz"])
  <2>1. W \subseteq Alive
    BY <1>3, <1>4
  <2> HIDE DEF W
  <2>2. W \in SUBSET Objects
    BY <1>2, <2>1
  <2>3. Heap!Reach(W) \subseteq Alive
    BY <1>1, <1>2, <2>1, <2>2, ReachIs
  <2> QED BY <2>3 DEF W
<1> QED BY <1>1, <1>6, <1>7, <1>8

-----------------------------------------------------------------------------
(* Weak tables.                                                            *)

\* Without programs that make them there are none.
LEMMA NoWeakTables ==
  ASSUME StrongTables, IInv, NoWeakTable, [Next]_vars
  PROVE  NoWeakTable'
<1>1. ASSUME NEW o \in Objects PROVE kind'[o] \in {kind[o], "free"} \union {"table", "closure", "thread"}
  <2>1. CASE kind' = kind
    BY <2>1
  <2>2. ASSUME NEW p, NEW n, NEW c, NEW es, NEW ls, NEW w, Sweep(p, n, c, es, ls, w)
        PROVE  kind'[o] \in {kind[o], "free"}
    <3>1. \E dead : kind' = [q \in Objects |-> IF q \in dead THEN "free" ELSE kind[q]]
      BY <2>2 DEF Sweep
    <3> QED BY <3>1
  <2>3. CASE singlestep
    <3>1. CASE atomic
      <4>1. PICK n, c, es, ls, w : Sweep("allgc", n, c, es, ls, w)
        BY <3>1, AtomicIs
      <4> QED BY <2>2, <4>1
    <3>2. CASE sweepstep
      <4>1. kind' = kind \/ \E n : Sweep(sweepgc, n, color, entries, list, currentwhite)
        BY <3>2 DEF sweepstep, heapVars
      <4> QED BY <2>1, <2>2, <4>1
    <3>3. CASE restartcollection \/ enteratomic \/ swpend \/ finishcycle \/ GCTM \/ \E q : propagatemark(q)
      BY <2>1, <3>3 DEF restartcollection, enteratomic, swpend, finishcycle, GCTM, propagatemark, heapVars
    <3> QED BY <2>3, <3>1, <3>2, <3>3 DEF singlestep
  <2>4. ASSUME NEW p \in Others, NEW k \in program.kinds \ (Modes \ {"table"}), luaC_newobj(p, k)
        PROVE  kind'[o] \in {kind[o], "table", "closure", "thread"}
    <3>1. program.kinds \subseteq Modes \union {"closure", "thread"}
      BY Types, ProgramAssumption DEF IInv
    <3>2. kind' = [kind EXCEPT ![p] = k] /\ kind \in [Objects -> Kinds]
      BY <2>4, Types DEF luaC_newobj, IInv
    <3>3. k \in {"table", "closure", "thread"}
      BY <3>1
    <3> QED BY <3>2, <3>3
  <2>5. ASSUME NEW t, NEW m, SetMode(t, m) PROVE kind'[o] \in {kind[o], "table"}
    <3>1. program.kinds \intersect Modes \subseteq {"table"}
      BY Types DEF IInv, StrongTables
    <3>2. kind' = [kind EXCEPT ![t] = m] /\ kind \in [Objects -> Kinds] /\ m \in Modes \intersect program.kinds
      BY <2>5, Types DEF SetMode, IInv
    <3> QED BY <3>1, <3>2
  <2>6. ASSUME NEW q, luaC_checkfinalizer(q) PROVE kind'[o] \in {kind[o], "free"}
    <3>1. kind' = kind \/ \E n, c, ls : Sweep(q, n, c, entries, ls, currentwhite)
      BY <2>6 DEF luaC_checkfinalizer
    <3> QED BY <2>2, <3>1
  <2>7. ASSUME NEW b, luaC_fullgc(b) PROVE kind'[o] \in {kind[o], "free"}
    <3>1. kind' = kind \/ \E n : Sweep("allgc", n, color, entries, list, currentwhite)
      BY <2>7 DEF luaC_fullgc, heapVars
    <3> QED BY <2>2, <3>1
  <2>8. CASE Program
    <3>1. \A t, v : Get(t, v) \/ SetOther(t, v) \/ SetNil(t, v) => kind' = kind
      BY DEF Get, SetOther, SetNil
    <3>2. \A t, k, v : SetTable(t, k, v) => kind' = kind
      BY DEF SetTable
    <3>3. (\A v : Pop(v) => kind' = kind) /\ (FinalizerReturns => kind' = kind)
      BY DEF Pop, FinalizerReturns, heapVars
    <3> QED BY <2>1, <2>4, <2>5, <2>6, <2>7, <2>8, <3>1, <3>2, <3>3 DEF Program
  <2>9. (ReachGoal => kind' = kind) /\ (UNCHANGED vars => kind' = kind)
    BY DEF ReachGoal, heapVars, vars
  <2> QED BY <2>1, <2>3, <2>8, <2>9 DEF Next, Collector, luaC_step, luaC_runtilstate
<1>2. {"free", "table", "closure", "thread"} \intersect (Modes \ {"table"}) = {}
  BY DEF Modes
<1> QED BY <1>1, <1>2 DEF NoWeakTable

-----------------------------------------------------------------------------
(* The steps.                                                              *)

\* An object and its references after a step, in words of the heap.
LEMMA RefsThen ==
  /\ \A o : Refs(o)' = RefsOf(entries'[o])
  /\ \A E, F : RefsOf(E \union F) = RefsOf(E) \union RefsOf(F)
  /\ RefsOf({}) = {}
BY DEF Refs, Values, Keys, RefsOf

\* Where nothing changes that the heap knows of.
LEMMA Nothing ==
  ASSUME Allocated' = Allocated, \A o \in Objects : entries'[o] = entries[o],
         Range(list'["finobj"]) = Range(list["finobj"]),
         Range(list'["tobefnz"]) = Range(list["tobefnz"])
  PROVE  UNCHANGED Heap!heap
<1>1. \A o \in Objects : Refs(o)' = Refs(o)
  BY DEF Refs, Values, Keys
<1>2. [o \in Objects |-> Refs(o)]' = [o \in Objects |-> Refs(o)]
  BY <1>1
<1> QED BY <1>2 DEF Heap!heap

\* An assignment to an object that the program can get at.
LEMMA Changes ==
  ASSUME IInv, NEW t \in Heap!InReach, NEW E, entries' = [entries EXCEPT ![t] = E],
         RefsOf(E) \subseteq Heap!InReach, kind' = kind, list' = list
  PROVE  Heap!Change(t)
<1>1. t \in Heap!InReach /\ t \in Objects
  BY ReachIsAlive, HeldIsAlive
<1>2. entries \in [Objects -> SUBSET Entry]
  BY Types DEF IInv
<1>3. entries'[t] = E /\ \A o \in Objects \ {t} : entries'[o] = entries[o]
  BY <1>1, <1>2
<1>4. Allocated' = Allocated
  BY DEF Allocated
<1> DEFINE R  == [o \in Objects |-> Refs(o)]
           R1 == [o \in Objects |-> Refs(o)']
<1>5. R1[t] = RefsOf(E)
  BY <1>1, <1>3, RefsThen
<1>6. R1 = [R EXCEPT ![t] = R1[t]]
  <2>1. \A o \in Objects \ {t} : Refs(o)' = Refs(o)
    BY <1>3 DEF Refs, Values, Keys
  <2>2. /\ R = [o \in DOMAIN R |-> R[o]] /\ DOMAIN R = Objects
        /\ R1 = [o \in DOMAIN R1 |-> R1[o]] /\ DOMAIN R1 = Objects
        /\ \A o \in Objects : o # t => R1[o] = R[o]
    BY <2>1
  <2> HIDE DEF R, R1
  <2> QED BY <1>1, <2>2
<1>7. [o \in Objects |-> Refs(o)]' = R1
  OBVIOUS
<1> HIDE DEF R1
<1>8. R1 = [[o \in Objects |-> Refs(o)] EXCEPT ![t] = R1[t]] /\ R1[t] \subseteq Heap!InReach
  BY <1>5, <1>6
<1> QED BY <1>1, <1>4, <1>7, <1>8 DEF Heap!Change

\* Objects disappear that nothing leads to.
LEMMA Removes ==
  ASSUME IInv, Allocated' \subseteq Allocated, Alive \subseteq Allocated',
         \A o \in Objects : entries'[o] = IF o \in Allocated' THEN entries[o] ELSE {}
  PROVE  Heap!Remove
<1>1. Allocated \ Allocated' \subseteq
         Objects \ Heap!Reach({Main} \union Permanent \union Range(list["finobj"]) \union Range(list["tobefnz"]))
  BY ReachIsAlive DEF Allocated
<1>2. \A o \in Objects : Refs(o)' = IF o \in Allocated' THEN [p \in Objects |-> Refs(p)][o] ELSE {}
  BY RefsThen, RefsOfEntries
<1>3. [o \in Objects |-> Refs(o)]'
         = [o \in Objects |-> IF o \in Allocated' THEN [p \in Objects |-> Refs(p)][o] ELSE {}]
  BY <1>2
<1> QED BY <1>1, <1>3 DEF Heap!Remove

\* A value is pushed on the stack.
LEMMA PushRefers ==
  ASSUME IInv, NEW o \in Objects, entries' = Push(o)
  PROVE  [p \in Objects |-> Refs(p)]' = [[p \in Objects |-> Refs(p)] EXCEPT ![Main] = @ \union {o}]
<1>1. entries \in [Objects -> SUBSET Entry] /\ Main \in Objects
  BY Types, Names DEF IInv
<1> DEFINE E == entries[Main] \union {[key |-> NoKey, value |-> o]}
<1>2. entries'[Main] = E /\ \A p \in Objects \ {Main} : entries'[p] = entries[p]
  BY <1>1 DEF Push
<1>3. RefsOf(E) = Refs(Main) \union {o}
  BY PushedRefs
<1> HIDE DEF E
<1>4. Refs(Main)' = Refs(Main) \union {o}
  BY <1>2, <1>3, RefsThen
<1>5. \A p \in Objects \ {Main} : Refs(p)' = Refs(p)
  BY <1>2 DEF Refs, Values, Keys
<1> QED BY <1>1, <1>4, <1>5

\* A new object.
LEMMA NewObjectCreates ==
  ASSUME IInv, NEW o \in Others, NEW k \in program.kinds \ (Modes \ {"table"}), luaC_newobj(o, k)
  PROVE  Heap!Create(o)
<1>1. /\ kind[o] = "free" /\ kind' = [kind EXCEPT ![o] = k]
      /\ list' = [list EXCEPT !["allgc"] = <<o>> \o @] /\ entries' = Push(o)
  BY DEF luaC_newobj
<1>2. o \in Objects /\ Main \in Objects /\ o \notin Allocated /\ k # "free"
  <2>1. program.kinds \subseteq Modes \union {"closure", "thread"}
    BY Types, ProgramAssumption DEF IInv
  <2> QED BY <1>1, <2>1 DEF Objects, Roots, Allocated, Modes
<1>3. kind \in [Objects -> Kinds] /\ entries \in [Objects -> SUBSET Entry] /\ Linked(list, Allocated)
  BY Types DEF IInv
<1>4. Allocated' = Allocated \union {o}
  <2>1. \A p \in Objects : kind'[p] # "free" <=> (kind[p] # "free" \/ p = o)
    BY <1>1, <1>2, <1>3
  <2> QED BY <1>2, <2>1 DEF Allocated
<1>5. list'["finobj"] = list["finobj"] /\ list'["tobefnz"] = list["tobefnz"]
  BY <1>1, <1>3 DEF Linked, ListNames
<1>6. [p \in Objects |-> Refs(p)]' = [[p \in Objects |-> Refs(p)] EXCEPT ![Main] = @ \union {o}]
  BY <1>1, <1>2, PushRefers
<1> QED BY <1>2, <1>4, <1>5, <1>6 DEF Heap!Create

\* A finalizer is called.
LEMMA GCTMFinalizes ==
  ASSUME IInv, GCTM
  PROVE  \E o \in Objects : Heap!Finalize(o)
<1>1. PICK o \in Range(list["tobefnz"]) :
         /\ Range(list'["tobefnz"]) = Range(list["tobefnz"]) \ {o}
         /\ Range(list'["finobj"]) = Range(list["finobj"])
         /\ entries' = Push(o) /\ kind' = kind
  BY GCTMLeaves
<1>2. o \in Objects
  BY <1>1, HeldIsAlive DEF IInv, AliveIsClosed
<1>3. Allocated' = Allocated
  BY <1>1 DEF Allocated
<1>4. [p \in Objects |-> Refs(p)]' = [[p \in Objects |-> Refs(p)] EXCEPT ![Main] = @ \union {o}]
  BY <1>1, <1>2, PushRefers
<1> QED BY <1>1, <1>2, <1>3, <1>4 DEF Heap!Finalize

\* setmetatable with a finalizer.
LEMMA FinalizerSets ==
  ASSUME IInv, NEW o, luaC_checkfinalizer(o)
  PROVE  Heap!SetFinalizer(o)
<1>1. /\ Shrinks("tobefnz") /\ Range(list'["finobj"]) = Range(list["finobj"]) \union {o}
      /\ o \in Held /\ o \notin Range(list["finobj"]) \union Range(list["tobefnz"])
  BY FinalizerLeaves
<1>2. Heap!Remove
  BY <1>1, Removes DEF Shrinks
<1> QED BY <1>1, <1>2, ReachIsAlive DEF Heap!SetFinalizer, Shrinks

\* A step of the sweep.
LEMMA SweepstepCollects ==
  ASSUME IInv, sweepstep
  PROVE  Heap!Collect
<1>1. Shrinks("finobj") /\ Shrinks("tobefnz")
  BY SweepstepLeaves
<1>2. Heap!Remove
  BY <1>1, Removes DEF Shrinks
<1> QED BY <1>1, <1>2 DEF Heap!Collect, Shrinks

\* Without weak tables the marks are what references lead to, and the atomic
\* step removes no entries.
LEMMA AtomicStrong ==
  ASSUME IInv, NoWeakTable, gcstate = "enteratomic"
  PROVE  /\ \A o \in Survivors : Refs(o) \subseteq Survivors
         /\ \A o \in Found : Refs(o) \subseteq Found
         /\ \A o \in Objects : Cleared[o] = entries[o]
<1>1. /\ Old \subseteq Survivors /\ Survivors \subseteq Found /\ Found \subseteq Allocated
      /\ \A o \in Survivors \intersect Visits : Strong(o, Survivors) \subseteq Survivors
      /\ \A o \in Found \intersect Visits : Strong(o, Found) \subseteq Found
  BY AtomicMarks
<1>2. \A o \in Allocated \ Visits : Refs(o) \subseteq Old
  BY AtomicStart
<1>3. \A o \in Objects : kind[o] \notin {"weakvalue", "ephemeron", "allweak"}
  BY DEF NoWeakTable, Modes
<1>4. \A o \in Objects : \A M : Strong(o, M) = Refs(o)
  BY <1>3 DEF Strong
<1>5. Found \subseteq Objects
  BY <1>1 DEF Allocated
<1>6. ASSUME NEW o \in Objects PROVE Cleared[o] = entries[o]
  <2>1. \A B, C : ClearedEntries(o, B, C) = entries[o]
    BY <1>3 DEF ClearedEntries
  <2> QED BY <2>1 DEF Cleared
<1>7. \A o \in Survivors : Refs(o) \subseteq Survivors
  <2> TAKE o \in Survivors
  <2>1. o \in Found /\ o \in Allocated /\ o \in Objects
    BY <1>1, <1>5
  <2>2. Strong(o, Survivors) = Refs(o)
    BY <1>4, <2>1
  <2> QED BY <1>1, <1>2, <2>1, <2>2
<1>8. \A o \in Found : Refs(o) \subseteq Found
  <2> TAKE o \in Found
  <2>1. o \in Allocated /\ o \in Objects
    BY <1>1, <1>5
  <2>2. Strong(o, Found) = Refs(o)
    BY <1>4, <2>1
  <2> QED BY <1>1, <1>2, <2>1, <2>2
<1> QED BY <1>6, <1>7, <1>8

\* The atomic step: what it picks no reference leads to, and nothing is freed
\* that has or gets a finalizer.
LEMMA AtomicCollects ==
  ASSUME IInv, NoWeakTable, atomic
  PROVE  Heap!Collect
<1> DEFINE W == {Main} \union Permanent \union Range(list["finobj"]) \union Range(list["tobefnz"])
<1>1. gcstate = "enteratomic" /\ "finobj" \in ListNames /\ "tobefnz" \in ListNames
  BY AtomicIs DEF ListNames
<1>2. /\ \A o \in Survivors : Refs(o) \subseteq Survivors
      /\ \A o \in Found : Refs(o) \subseteq Found
      /\ \A o \in Objects : Cleared[o] = entries[o]
  BY <1>1, AtomicStrong
<1>3. /\ Old \subseteq Survivors /\ Survivors \subseteq Found /\ Found \subseteq Allocated
      /\ Range(Split["finobj"]) = Range(list["finobj"]) \intersect Survivors
      /\ Range(Split["tobefnz"]) = Range(list["tobefnz"]) \union (Range(list["finobj"]) \ Survivors)
      /\ Range(Split["tobefnz"]) \subseteq Found
  BY <1>1, AtomicMarks
<1>4. Roots \subseteq Old /\ Found \subseteq Objects /\ \A o \in Objects : Refs(o) \subseteq Objects
  BY <1>1, <1>3, AtomicStart DEF Allocated
<1>5. /\ Found \subseteq Allocated' /\ Allocated' \subseteq Allocated
      /\ \A l \in ListNames : Range(list'[l]) = Range(Split[l]) \intersect Allocated'
      /\ \A o \in Objects : entries'[o] = IF o \in Allocated' THEN entries[o] ELSE {}
  BY <1>2, AtomicLeaves
<1>6. Roots = {Main} \union Permanent
  BY DEF Roots
<1>7. W \subseteq Found
  BY <1>3, <1>4, <1>6
<1>8. Heap!InReach \subseteq Survivors
  <2>1. Roots \in SUBSET Objects /\ Survivors \in SUBSET Objects /\ Roots \subseteq Survivors
    BY <1>3, <1>4
  <2>2. Heap!Reach(Roots) \subseteq Survivors
    BY <1>2, <1>4, <2>1, ReachIs
  <2> QED BY <1>6, <2>2 DEF Heap!InReach
<1>9. Heap!Reach(W) \subseteq Found
  <2> HIDE DEF W
  <2>1. W \in SUBSET Objects /\ Found \in SUBSET Objects
    BY <1>4, <1>7
  <2> QED BY <1>2, <1>4, <1>7, <2>1, ReachIs
<1>10. /\ Range(list'["finobj"]) = Range(list["finobj"]) \intersect Survivors
       /\ Range(list'["tobefnz"]) = Range(list["tobefnz"]) \union (Range(list["finobj"]) \ Survivors)
  BY <1>1, <1>3, <1>5
<1>11. Heap!Remove
  <2>1. Allocated \ Allocated' \subseteq Objects \ Heap!Reach(W)
    BY <1>5, <1>9 DEF Allocated
  <2>2. \A o \in Objects : Refs(o)' = IF o \in Allocated' THEN [p \in Objects |-> Refs(p)][o] ELSE {}
    BY <1>5, RefsThen, RefsOfEntries
  <2>3. [o \in Objects |-> Refs(o)]'
           = [o \in Objects |-> IF o \in Allocated' THEN [p \in Objects |-> Refs(p)][o] ELSE {}]
    BY <2>2
  <2> QED BY <1>5, <2>1, <2>3 DEF Heap!Remove
<1>12. Range(list["finobj"]) \subseteq Objects
  BY <1>4, <1>7
<1> QED BY <1>8, <1>10, <1>11, <1>12 DEF Heap!Collect

\* Entries are lost, or one more is there.
LEMMA LosesOrGains ==
  ASSUME IInv, NEW t \in Heap!InReach, kind' = kind, list' = list, NEW E \in SUBSET entries[t],
         \/ entries' = [entries EXCEPT ![t] = E]
         \/ \E k \in Heap!InReach \union {NoKey}, v \in Heap!InReach :
               entries' = [entries EXCEPT ![t] = E \union {[key |-> k, value |-> v]}]
  PROVE  Heap!Change(t)
<1>1. RefsOf(E) \subseteq Heap!InReach
  <2>1. RefsOf(E) \subseteq Refs(t)
    BY RefsOfEntries
  <2> QED BY <2>1, ReachIsAlive
<1>2. CASE entries' = [entries EXCEPT ![t] = E]
  BY <1>1, <1>2, Changes
<1>3. ASSUME NEW k \in Heap!InReach \union {NoKey}, NEW v \in Heap!InReach,
             entries' = [entries EXCEPT ![t] = E \union {[key |-> k, value |-> v]}]
      PROVE  Heap!Change(t)
  <2> DEFINE F == E \union {[key |-> k, value |-> v]}
  <2>1. entries' = [entries EXCEPT ![t] = F]
    BY <1>3
  <2>2. RefsOf(F) = RefsOf(E) \union RefsOf({[key |-> k, value |-> v]})
    BY RefsOfEntries
  <2>3. RefsOf({[key |-> k, value |-> v]}) = {v} \union ({k} \ {NoKey})
    BY RefsOfEntries
  <2> HIDE DEF F
  <2>4. RefsOf(F) \subseteq Heap!InReach
    BY <1>1, <2>2, <2>3
  <2> QED BY <2>1, <2>4, Changes
<1> QED BY <1>2, <1>3

\* Values go from objects to the stack and from there to objects.
LEMMA ProgramChanges ==
  ASSUME IInv, NEW t \in Held
  PROVE  /\ \A v \in Refs(t) : Get(t, v) => Heap!Change(Main)
         /\ \A v : SetOther(t, v) => Heap!Change(t)
         /\ \A k, v : SetTable(t, k, v) => Heap!Change(t)
         /\ \A e : SetNil(t, e) => Heap!Change(t)
<1>1. /\ Held \subseteq Heap!InReach /\ Main \in Heap!InReach
      /\ Refs(t) \subseteq Heap!InReach /\ Values(Main) \subseteq Heap!InReach
  BY ReachIsAlive DEF Held, Roots
<1>2. Main \in Objects /\ t \in Objects /\ entries \in [Objects -> SUBSET Entry]
  BY Names, HeldIsAlive, Types DEF IInv
<1>3. NoKey \in Heap!InReach \union {NoKey}
  OBVIOUS
<1>4. ASSUME NEW v \in Refs(t), Get(t, v) PROVE Heap!Change(Main)
  <2>1. kind' = kind /\ list' = list /\ v \in Heap!InReach
        /\ entries' = [entries EXCEPT ![Main] = entries[Main] \union {[key |-> NoKey, value |-> v]}]
    BY <1>1, <1>2, <1>4 DEF Get, Push
  <2> QED BY <1>1, <1>3, <2>1, LosesOrGains
<1>5. ASSUME NEW v, SetOther(t, v) PROVE Heap!Change(t)
  <2>1. kind' = kind /\ list' = list /\ v \in Heap!InReach
        /\ entries' = [entries EXCEPT ![t] = entries[t] \union {[key |-> NoKey, value |-> v]}]
    BY <1>1, <1>5 DEF SetOther, Refer
  <2> QED BY <1>1, <1>3, <2>1, LosesOrGains
<1>6. ASSUME NEW k, NEW v, SetTable(t, k, v) PROVE Heap!Change(t)
  <2> DEFINE E == {e \in entries[t] : e.key # k \/ k = NoKey}
  <2>1. kind' = kind /\ list' = list /\ v \in Heap!InReach /\ k \in Heap!InReach \union {NoKey}
        /\ entries' = [entries EXCEPT ![t] = E \union {[key |-> k, value |-> v]}] /\ E \in SUBSET entries[t]
    BY <1>1, <1>6 DEF SetTable, Refer
  <2> HIDE DEF E
  <2> QED BY <1>1, <2>1, LosesOrGains
<1>7. ASSUME NEW e, SetNil(t, e) PROVE Heap!Change(t)
  <2> DEFINE E == entries[t] \ {e}
  <2>1. kind' = kind /\ list' = list /\ entries' = [entries EXCEPT ![t] = E] /\ E \in SUBSET entries[t]
    BY <1>2, <1>7 DEF SetNil
  <2> HIDE DEF E
  <2> QED BY <1>1, <2>1, LosesOrGains
<1> QED BY <1>4, <1>5, <1>6, <1>7

\* Values go from the stack.
LEMMA PopChanges ==
  ASSUME IInv, NEW v, Pop(v)
  PROVE  Heap!Change(Main)
<1> DEFINE E == {e \in entries[Main] : e.value # v}
<1>1. Main \in Objects /\ entries \in [Objects -> SUBSET Entry] /\ Main \in Heap!InReach
  BY Names, Types, ReachIsAlive DEF IInv, Roots
<1>2. kind' = kind /\ list' = list /\ entries' = [entries EXCEPT ![Main] = E] /\ E \in SUBSET entries[Main]
  BY <1>1 DEF Pop
<1> HIDE DEF E
<1> QED BY <1>1, <1>2, LosesOrGains

\* Every step is one of the heap or changes nothing there.
LEMMA StepsOfTheHeap ==
  ASSUME IInv, NoWeakTable, StrongTables, [Next]_vars
  PROVE  Heap!HeapNext \/ UNCHANGED Heap!heap
<1>1. CASE kind' = kind /\ entries' = entries /\ list' = list
  <2>1. Allocated' = Allocated
    BY <1>1 DEF Allocated
  <2> QED BY <1>1, <2>1, Nothing
<1>2. CASE singlestep
  <2>1. CASE restartcollection \/ enteratomic \/ swpend \/ finishcycle \/ \E o : propagatemark(o)
    BY <1>1, <2>1 DEF restartcollection, enteratomic, swpend, finishcycle, propagatemark, heapVars
  <2>2. CASE atomic
    BY <2>2, AtomicCollects DEF Heap!HeapNext
  <2>3. CASE sweepstep
    BY <2>3, SweepstepCollects DEF Heap!HeapNext
  <2>4. CASE GCTM
    BY <2>4, GCTMFinalizes DEF Heap!HeapNext
  <2> QED BY <1>2, <2>1, <2>2, <2>3, <2>4 DEF singlestep
<1>3. \A o \in Held : o \in Objects
  BY HeldIsAlive
<1>4. Main \in Objects
  BY Names
<1>5. ASSUME NEW t \in Held PROVE
         /\ \A v \in Refs(t) : Get(t, v) => Heap!HeapNext
         /\ \A v : SetOther(t, v) => Heap!HeapNext
         /\ \A k, v : SetTable(t, k, v) => Heap!HeapNext
         /\ \A e : SetNil(t, e) => Heap!HeapNext
  BY <1>3, <1>4, <1>5, ProgramChanges DEF Heap!HeapNext
<1>6. ASSUME NEW v, Pop(v) PROVE Heap!HeapNext
  BY <1>4, <1>6, PopChanges DEF Heap!HeapNext
<1>7. ASSUME NEW o \in Others, NEW k \in program.kinds \ (Modes \ {"table"}), luaC_newobj(o, k)
      PROVE  Heap!HeapNext
  BY <1>7, NewObjectCreates DEF Heap!HeapNext, Objects
<1>8. ASSUME NEW o \in Held, luaC_checkfinalizer(o) PROVE Heap!HeapNext
  BY <1>3, <1>8, FinalizerSets DEF Heap!HeapNext
<1>9. ASSUME NEW b, luaC_fullgc(b) PROVE UNCHANGED Heap!heap
  BY <1>9, FullLeaves, Nothing DEF ListNames
<1>10. ASSUME NEW t \in Held, NEW m, SetMode(t, m) PROVE FALSE
  <2>1. program.kinds \intersect Modes \subseteq {"table"}
    BY Types DEF IInv, StrongTables
  <2>2. kind[t] \in Modes \ {m} /\ m = "table"
    BY <1>10, <2>1 DEF SetMode
  <2> QED BY <1>3, <2>2 DEF NoWeakTable
<1>11. CASE Program
  <2>1. CASE FinalizerReturns
    BY <1>1, <2>1 DEF FinalizerReturns, heapVars
  <2> QED BY <1>5, <1>6, <1>7, <1>8, <1>9, <1>10, <1>11, <2>1 DEF Program
<1>12. (ReachGoal \/ UNCHANGED vars) => kind' = kind /\ entries' = entries /\ list' = list
  BY DEF ReachGoal, heapVars, vars
<1> QED BY <1>1, <1>2, <1>11, <1>12 DEF Next, Collector, luaC_step, luaC_runtilstate

\* In the beginning there are the roots.
LEMMA StartOfTheHeap ==
  ASSUME Init
  PROVE  NoWeakTable /\ Heap!HeapInit
<1>1. kind = [o \in Objects |-> IF o = Main THEN "thread" ELSE IF o \in Permanent THEN "table" ELSE "free"]
      /\ entries = [o \in Objects |-> {}]
      /\ list["finobj"] = << >> /\ list["tobefnz"] = << >>
  BY DEF Init, ListNames
<1>2. NoWeakTable
  BY <1>1 DEF NoWeakTable, Modes
<1>3. Allocated = {Main} \union Permanent
  <2>1. \A o \in Objects : kind[o] # "free" <=> o \in {Main} \union Permanent
    BY <1>1
  <2> QED BY <2>1, Names DEF Allocated
<1>4. [o \in Objects |-> Refs(o)] = [o \in Objects |-> {}]
  <2>1. \A o \in Objects : Refs(o) = {}
    BY <1>1 DEF Refs, Values, Keys
  <2> QED BY <2>1
<1>5. Range(list["finobj"]) = {} /\ Range(list["tobefnz"]) = {}
  BY <1>1 DEF Range
<1> QED BY <1>2, <1>3, <1>4, <1>5 DEF Heap!HeapInit

\* The collector, its lists, phases, barriers, finalizers and full collections
\* in the middle of anything, implements the heap that has none of them, where
\* no table is weak.
THEOREM CollectorImplementsHeap ==
  ASSUME StrongTables
  PROVE  Spec => ImplementsHeap
<1>1. Init => IInv /\ NoWeakTable /\ Heap!HeapInit
  BY InitIs, StartOfTheHeap
<1>2. IInv /\ NoWeakTable /\ [Next]_vars => IInv' /\ NoWeakTable'
  BY Invariance, NoWeakTables
<1>3. IInv /\ NoWeakTable /\ [Next]_vars => [Heap!HeapNext]_(Heap!heap)
  BY StepsOfTheHeap
<1> QED BY <1>1, <1>2, <1>3, PTL DEF Spec, ImplementsHeap, Heap!HeapSpec

=============================================================================
