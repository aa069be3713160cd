-------------------------------- MODULE NatFacts -------------------------------
(***************************************************************************)
(* Facts about numbers that the proofs of several components cite: every   *)
(* set of naturals has a least element, which CHOOSE finds, and a bounded  *)
(* one has a greatest; a function may be defined by recursion.             *)
(***************************************************************************)
EXTENDS Integers, WellFoundedInduction, TLAPS

\* The least-number principle, for sets.
LEMMA LeastExists ==
  ASSUME NEW S \in SUBSET Nat, S # {}
  PROVE  \E m \in S : \A n \in S : m <= n
<1>1. PICK m \in S : \A n \in S : ~ (<<n, m>> \in OpToRel(<, Nat))
  BY WFMin, NatLessThanWellFounded, Zenon
<1>2. ASSUME NEW n \in S PROVE m <= n
  <2>1. ~ (n < m)
    BY <1>1 DEF OpToRel
  <2> QED BY <2>1
<1> QED BY <1>2

\* Induction on a set of naturals, as its least number without the property.
LEMMA SetInduction ==
  ASSUME NEW S \in SUBSET Nat, 0 \in S,
         \A n \in S : n + 1 \in S
  PROVE  S = Nat
<1> DEFINE T == Nat \ S
<1> SUFFICES ASSUME T # {} PROVE FALSE
  OBVIOUS
<1>1. PICK m \in T : \A n \in T : m <= n
  <2>1. T \in SUBSET Nat OBVIOUS
  <2> QED BY <2>1, LeastExists, Zenon
<1>2. m # 0 /\ m - 1 \in Nat /\ m - 1 \notin T
  BY <1>1
<1>3. (m - 1) + 1 \in S
  BY <1>2
<1> QED BY <1>1, <1>3

\* The greatest number of a bounded set.
LEMMA GreatestExists ==
  ASSUME NEW S \in SUBSET Int, S # {}, NEW k \in Int, \A n \in S : n <= k
  PROVE  \E m \in S : \A n \in S : n <= m
<1> DEFINE T == {k - n : n \in S}
<1>1. T \in SUBSET Nat /\ T # {}
  <2>1. ASSUME NEW n \in S PROVE k - n \in Nat
    OBVIOUS
  <2>2. T # {}
    OBVIOUS
  <2> QED BY <2>1, <2>2
<1>2. PICK t \in T : \A u \in T : t <= u
  BY <1>1, LeastExists, Zenon
<1>3. PICK m \in S : t = k - m
  OBVIOUS
<1>4. ASSUME NEW n \in S PROVE n <= m
  <2>1. t <= k - n
    BY <1>2
  <2> QED BY <1>3, <2>1
<1> QED BY <1>4

\* g has the values that a0 and the step G give, up to n.
UpTo(A, a0, G, n, g) ==
    /\ g \in [0..n -> A] /\ g[0] = a0
    /\ \A m \in 0..(n - 1) : g[m + 1] = G[<<m, g[m]>>]

\* f has them for all numbers.
Recursive(A, a0, G, f) ==
    f \in [Nat -> A] /\ f[0] = a0 /\ \A n \in Nat : f[n + 1] = G[<<n, f[n]>>]

\* Definition by recursion: a first value and a step define a function.
LEMMA Recursion ==
  ASSUME NEW A, NEW a0 \in A, NEW G \in [Nat \X A -> A]
  PROVE  \E f : Recursive(A, a0, G, f)
<1>1. \A n \in Nat : \E g : UpTo(A, a0, G, n, g)
  <2> DEFINE S == {n \in Nat : \E g : UpTo(A, a0, G, n, g)}
  <2>1. 0 \in S
    <3>1. UpTo(A, a0, G, 0, [m \in 0..0 |-> a0])
      BY DEF UpTo
    <3> QED BY <3>1
  <2>2. ASSUME NEW n \in S PROVE n + 1 \in S
    <3>1. PICK g : UpTo(A, a0, G, n, g)
      BY <2>2
    <3> DEFINE h == [m \in 0..(n + 1) |-> IF m = n + 1 THEN G[<<n, g[n]>>] ELSE g[m]]
    <3>2. n \in Nat /\ g[n] \in A /\ G[<<n, g[n]>>] \in A
      BY <3>1 DEF UpTo
    <3>3. h \in [0..(n + 1) -> A] /\ h[0] = a0
      BY <3>1, <3>2 DEF UpTo
    <3>4. ASSUME NEW m \in 0..((n + 1) - 1) PROVE h[m + 1] = G[<<m, h[m]>>]
      <4>1. h[m] = g[m]
        BY <3>2
      <4>2. CASE m = n
        <5>1. h[n + 1] = G[<<n, g[n]>>]
          BY <3>2
        <5> HIDE DEF h
        <5> QED BY <4>1, <4>2, <5>1
      <4>3. CASE m # n
        <5>1. m \in 0..(n - 1) /\ m + 1 \in 0..(n + 1) /\ m + 1 # n + 1
          BY <3>2, <4>3
        <5> QED BY <3>1, <4>1, <5>1 DEF UpTo
      <4> QED BY <4>2, <4>3
    <3>5. UpTo(A, a0, G, n + 1, h)
      BY <3>3, <3>4 DEF UpTo
    <3> QED BY <3>2, <3>5
  <2>3. S \in SUBSET Nat
    OBVIOUS
  <2> HIDE DEF S
  <2>4. S = Nat
    BY <2>1, <2>2, <2>3, SetInduction
  <2> QED BY <2>4 DEF S
<1>2. ASSUME NEW n \in Nat, NEW g, UpTo(A, a0, G, n, g), NEW k \in Nat, NEW h, UpTo(A, a0, G, k, h)
      PROVE  \A m \in Nat : m <= n /\ m <= k => g[m] = h[m]
  <2> DEFINE S == {m \in Nat : m <= n /\ m <= k => g[m] = h[m]}
  <2>1. 0 \in S
    BY <1>2 DEF UpTo
  <2>2. ASSUME NEW m \in S PROVE m + 1 \in S
    <3>1. ASSUME m + 1 <= n, m + 1 <= k PROVE g[m + 1] = h[m + 1]
      <4>1. m \in 0..(n - 1) /\ m \in 0..(k - 1) /\ g[m] = h[m]
        BY <2>2, <3>1
      <4> QED BY <1>2, <4>1 DEF UpTo
    <3> QED BY <3>1
  <2>3. S \in SUBSET Nat
    OBVIOUS
  <2> HIDE DEF S
  <2>4. S = Nat
    BY <2>1, <2>2, <2>3, SetInduction
  <2> QED BY <2>4 DEF S
<1> DEFINE c == [n \in Nat |-> CHOOSE g : UpTo(A, a0, G, n, g)]
           f == [n \in Nat |-> c[n][n]]
<1>3. \A n \in Nat : UpTo(A, a0, G, n, c[n])
  BY <1>1
<1> HIDE DEF c
<1>4. f \in [Nat -> A]
  <2>1. ASSUME NEW n \in Nat PROVE c[n][n] \in A
    BY <1>3 DEF UpTo
  <2> QED BY <2>1
<1>5. f[0] = a0
  BY <1>3 DEF UpTo
<1>6. ASSUME NEW n \in Nat PROVE f[n + 1] = G[<<n, f[n]>>]
  <2>1. UpTo(A, a0, G, n + 1, c[n + 1]) /\ UpTo(A, a0, G, n, c[n])
    BY <1>3
  <2>2. c[n + 1][n] = c[n][n]
    BY <1>2, <2>1
  <2>3. n \in 0..((n + 1) - 1)
    OBVIOUS
  <2>4. c[n + 1][n + 1] = G[<<n, c[n + 1][n]>>]
    BY <2>1, <2>3 DEF UpTo
  <2> QED BY <2>2, <2>4
<1> QED BY <1>4, <1>5, <1>6 DEF Recursive

\* The values of a function applied again and again.
Iterates(A, a0, H, f) ==
    f \in [Nat -> A] /\ \A n \in Nat : f[n] = IF n = 0 THEN a0 ELSE H[f[n - 1]]

\* A function can be applied again and again.
LEMMA Iteration ==
  ASSUME NEW A, NEW a0 \in A, NEW H \in [A -> A]
  PROVE  \E f : Iterates(A, a0, H, f)
<1> DEFINE G == [x \in Nat \X A |-> H[x[2]]]
<1>1. G \in [Nat \X A -> A] /\ \A n \in Nat, x \in A : G[<<n, x>>] = H[x]
  OBVIOUS
<1> HIDE DEF G
<1>2. PICK f : Recursive(A, a0, G, f)
  BY <1>1, Recursion
<1>3. f \in [Nat -> A] /\ f[0] = a0 /\ \A n \in Nat : f[n + 1] = H[f[n]]
  BY <1>1, <1>2 DEF Recursive
<1>4. ASSUME NEW n \in Nat PROVE f[n] = IF n = 0 THEN a0 ELSE H[f[n - 1]]
  <2>1. CASE n = 0
    BY <1>3, <2>1
  <2>2. CASE n # 0
    <3>1. n - 1 \in Nat /\ (n - 1) + 1 = n
      BY <2>2
    <3> QED BY <1>3, <2>2, <3>1
  <2> QED BY <2>1, <2>2
<1> QED BY <1>3, <1>4 DEF Iterates

===============================================================================
