----------------------------- MODULE EditorProofs -----------------------------
(***************************************************************************)
(* Theorems about the full-screen editor, for buffers, clipboards, pages   *)
(* and texts of every size: no keystroke writes outside the buffer, what   *)
(* is saved is what is shown while the cursor and the mark are in the      *)
(* text, and where a session starts.                                       *)
(***************************************************************************)
EXTENDS Editor, NatFacts, FiniteSetTheorems, SequenceTheorems

(* Operators.                                                              *)

\* The least of a set of naturals is the least.
LEMMA LeastOfIs ==
  ASSUME NEW S \in SUBSET Nat, S # {}
  PROVE  LeastOf(S) \in S /\ \A s \in S : LeastOf(S) <= s
<1>1. \E m \in S : \A s \in S : m <= s
  BY LeastExists, Zenon
<1> QED BY <1>1 DEF LeastOf

\* The greatest of a bounded set of naturals is the greatest.
LEMMA GreatestOfIs ==
  ASSUME NEW S \in SUBSET Nat, S # {}, NEW k \in Nat, \A s \in S : s <= k
  PROVE  GreatestOf(S) \in S /\ \A s \in S : s <= GreatestOf(S)
<1>1. S \in SUBSET Int /\ k \in Int
  OBVIOUS
<1>2. \E m \in S : \A n \in S : n <= m
  BY <1>1, GreatestExists
<1>3. \E m \in S : \A n \in S : m >= n
  BY <1>2
<1>4. GreatestOf(S) \in S /\ \A n \in S : GreatestOf(S) >= n
  BY <1>3 DEF GreatestOf
<1> QED BY <1>4

\* The numbers of the buffer.
LEMMA Sizes == MaxSize \in Nat /\ MaxSize >= 4 /\ ClipSize \in Nat /\ ClipSize >= 3 /\ PageLines \in Nat
               /\ Index \subseteq Nat
BY SizeAssumption DEF Index

\* strlen() stops inside a buffer whose last byte is NUL.
LEMMA StrlenIs ==
  ASSUME NEW b \in Buffer, b[MaxSize - 1] = NUL, NEW from \in Index
  PROVE  /\ Strlen(b, from) \in Nat
         /\ from + Strlen(b, from) \in Index
         /\ b[from + Strlen(b, from)] = NUL
         /\ \A i \in Index : from <= i /\ i < from + Strlen(b, from) => b[i] # NUL
<1> DEFINE S == {i \in Index : i >= from /\ b[i] = NUL}
<1>1. S \in SUBSET Nat /\ MaxSize - 1 \in S
  BY Sizes DEF Index
<1>2. LeastOf(S) \in S /\ \A s \in S : LeastOf(S) <= s
  BY <1>1, LeastOfIs
<1>3. Strlen(b, from) = LeastOf(S) - from
  BY DEF Strlen
<1> DEFINE m == LeastOf(S)
<1>4. m \in Nat /\ m \in Index /\ m >= from /\ b[m] = NUL /\ \A i \in Index : i >= from /\ i < m => b[i] # NUL
  <2>1. m \in Index /\ m >= from /\ b[m] = NUL
    BY <1>2
  <2>2. ASSUME NEW i \in Index, i >= from, i < m PROVE b[i] # NUL
    <3>1. i \in Nat /\ m \in Nat
      BY <2>1, Sizes
    <3> QED BY <1>2, <2>2, <3>1
  <2> QED BY <2>1, <2>2, Sizes
<1> HIDE DEF m
<1>5. from \in Nat /\ Strlen(b, from) = m - from
  BY <1>3, Sizes DEF m
<1>6. from + Strlen(b, from) = m /\ Strlen(b, from) \in Nat
  BY <1>4, <1>5
<1> QED BY <1>4, <1>6

\* strlen() is where the first NUL is.
LEMMA StrlenUnique ==
  ASSUME NEW b \in Buffer, NEW n \in Index, b[n] = NUL, \A i \in Index : i < n => b[i] # NUL
  PROVE  Strlen(b, 0) = n
<1> DEFINE S == {i \in Index : i >= 0 /\ b[i] = NUL}
<1>1. S \in SUBSET Nat /\ n \in S /\ n \in Nat
  <2>1. S \in SUBSET Nat
    BY Sizes
  <2>2. n \in Nat /\ n >= 0
    BY Sizes
  <2> QED BY <2>1, <2>2
<1>2. LeastOf(S) \in S /\ LeastOf(S) <= n
  BY <1>1, LeastOfIs
<1>3. LeastOf(S) \in Nat /\ ~ (LeastOf(S) < n)
  BY <1>1, <1>2
<1>4. LeastOf(S) = n
  BY <1>1, <1>2, <1>3
<1>5. Strlen(b, 0) = LeastOf(S) - 0
  BY DEF Strlen
<1> QED BY <1>1, <1>4, <1>5

\* Where a line begins.
LEMMA LineStartIs ==
  ASSUME NEW b, NEW i \in Nat
  PROVE  LineStart(b, i) \in 0..i
<1> DEFINE S == {0} \union {j \in 1..i : b[j - 1] = NL}
<1>1. S \in SUBSET Nat /\ S # {} /\ \A s \in S : s <= i
  OBVIOUS
<1>2. GreatestOf(S) \in S
  BY <1>1, GreatestOfIs
<1> QED BY <1>1, <1>2 DEF LineStart

\* Walking to the right stays behind i and inside the buffer.
LEMMA WalkIs ==
  ASSUME NEW b, NEW i \in 0..MaxSize, NEW cols \in Nat, NEW lim \in Int, lim <= MaxSize
  PROVE  Walk(b, i, cols, lim) \in 0..MaxSize
<1> DEFINE m == SmallerOf(i + cols, LargerOf(i, lim))
           S == {m} \union {j \in Index : i <= j /\ j < i + cols /\ b[j] \in {NL, NUL}}
<1>1. m \in 0..MaxSize
  BY Sizes DEF SmallerOf, LargerOf
<1>2. Index \subseteq 0..MaxSize
  BY Sizes DEF Index
<1> HIDE DEF m
<1>3. S \in SUBSET (0..MaxSize) /\ S # {} /\ S \in SUBSET Nat
  <2>1. S \in SUBSET (0..MaxSize)
    BY <1>1, <1>2
  <2>2. m \in S
    OBVIOUS
  <2>3. 0..MaxSize \subseteq Nat
    BY Sizes
  <2> QED BY <2>1, <2>2, <2>3, Zenon
<1>4. LeastOf(S) \in S
  BY <1>3, LeastOfIs
<1> HIDE DEF S
<1>5. Walk(b, i, cols, lim) = LeastOf(S)
  BY DEF Walk, S, m
<1> QED BY <1>3, <1>4, <1>5

\* The cursor one line up ...
LEMMA LineAboveIs ==
  ASSUME NEW b, NEW i \in 0..MaxSize
  PROVE  LineAbove(b, i) \in 0..MaxSize
<1> DEFINE start == LineStart(b, i)
           from  == IF start > 0 THEN start - 1 ELSE start
           above == LineStart(b, from)
<1>1. i \in Nat /\ start \in 0..i
  BY LineStartIs
<1> HIDE DEF start
<1>2. from \in Nat /\ from <= MaxSize
  BY <1>1, Sizes
<1> HIDE DEF from
<1>3. above \in 0..from
  BY <1>2, LineStartIs
<1> HIDE DEF above
<1>4. above \in 0..MaxSize /\ i - start \in Nat /\ MaxSize - 1 \in Int /\ MaxSize - 1 <= MaxSize
  BY <1>1, <1>2, <1>3, Sizes
<1>5. Walk(b, above, i - start, MaxSize - 1) \in 0..MaxSize
  BY <1>4, WalkIs
<1> QED BY <1>5 DEF LineAbove, above, from, start

\* ... at the end of its line ...
LEMMA LineEndIs ==
  ASSUME NEW b, NEW i \in 0..MaxSize, NEW len \in Int, len <= MaxSize
  PROVE  LineEnd(b, i, len) \in 0..MaxSize
<1> DEFINE m == LargerOf(i, len)
           S == {m} \union {j \in Index : i <= j /\ j < len /\ b[j] = NL}
<1>1. m \in 0..MaxSize
  BY Sizes DEF LargerOf
<1>2. Index \subseteq 0..MaxSize
  BY Sizes DEF Index
<1> HIDE DEF m
<1>3. S \in SUBSET (0..MaxSize) /\ S # {} /\ S \in SUBSET Nat
  <2>1. S \in SUBSET (0..MaxSize)
    BY <1>1, <1>2
  <2>2. m \in S
    OBVIOUS
  <2>3. 0..MaxSize \subseteq Nat
    BY Sizes
  <2> QED BY <2>1, <2>2, <2>3, Zenon
<1>4. LeastOf(S) \in S
  BY <1>3, LeastOfIs
<1> HIDE DEF S
<1>5. LineEnd(b, i, len) = LeastOf(S)
  BY DEF LineEnd, S, m
<1> QED BY <1>3, <1>4, <1>5

\* ... and one line down.
LEMMA LineBelowIs ==
  ASSUME NEW b, NEW i \in 0..MaxSize, NEW len \in Int, len <= MaxSize
  PROVE  LineBelow(b, i, len) \in 0..MaxSize
<1> DEFINE end  == LineEnd(b, i, len)
           next == IF end < len THEN end + 1 ELSE end
           cols == i - LineStart(b, i)
<1>1. end \in 0..MaxSize
  BY LineEndIs
<1> HIDE DEF end
<1>2. next \in 0..MaxSize
  BY <1>1, Sizes
<1>3. i \in Nat /\ LineStart(b, i) \in 0..i
  BY LineStartIs
<1>4. cols \in Nat
  BY <1>3
<1> HIDE DEF next, cols
<1>5. Walk(b, next, cols, len) \in 0..MaxSize
  BY <1>2, <1>4, WalkIs
<1> QED BY <1>5 DEF LineBelow, end, next, cols

\* A page up stays in the buffer.
LEMMA PageUpIs ==
  ASSUME NEW b, NEW i \in 0..MaxSize
  PROVE  PageUp(b, i) \in 0..MaxSize
<1> DEFINE A == 0..MaxSize
           H == [x \in A |-> LineAbove(b, x)]
           P(g) == g = [n \in Nat |-> IF n = 0 THEN i ELSE LineAbove(b, g[n - 1])]
           at == CHOOSE g : P(g)
<1>1. H \in [A -> A] /\ \A x \in A : H[x] = LineAbove(b, x)
  BY LineAboveIs
<1> HIDE DEF H
<1>0. PICK f : Iterates(A, i, H, f)
  BY <1>1, Iteration
<1>2. f \in [Nat -> A] /\ \A n \in Nat : f[n] = IF n = 0 THEN i ELSE H[f[n - 1]]
  BY <1>0 DEF Iterates
<1>3. P(f)
  <2>1. ASSUME NEW n \in Nat PROVE f[n] = IF n = 0 THEN i ELSE LineAbove(b, f[n - 1])
    <3>1. CASE n = 0
      BY <1>2, <3>1
    <3>2. CASE n # 0
      <4>1. n - 1 \in Nat
        BY <3>2
      <4>2. f[n - 1] \in A /\ f[n] = H[f[n - 1]]
        BY <1>2, <3>2, <4>1
      <4> QED BY <1>1, <3>2, <4>2
    <3> QED BY <3>1, <3>2
  <2> QED BY <1>2, <2>1
<1>4. P(at)
  <2> HIDE DEF P
  <2> QED BY <1>3
<1> HIDE DEF at
<1>5. \A n \in Nat : at[n] = IF n = 0 THEN i ELSE LineAbove(b, at[n - 1])
  BY <1>4
<1> DEFINE S == {n \in Nat : at[n] \in A}
<1>6. 0 \in S
  BY <1>5
<1>7. ASSUME NEW n \in S PROVE n + 1 \in S
  <2>1. n + 1 \in Nat /\ n + 1 # 0 /\ (n + 1) - 1 = n
    OBVIOUS
  <2>2. at[n + 1] = LineAbove(b, at[n])
    BY <1>5, <2>1
  <2> QED BY <2>1, <2>2, LineAboveIs
<1>8. S \in SUBSET Nat
  OBVIOUS
<1> HIDE DEF S
<1>9. S = Nat
  BY <1>6, <1>7, <1>8, SetInduction
<1>10. at[PageLines] \in A
  BY <1>9, Sizes DEF S
<1> QED BY <1>10 DEF PageUp, at

\* A page down stays in the buffer.
LEMMA PageDownIs ==
  ASSUME NEW b, NEW i \in 0..MaxSize, NEW len \in Int, len <= MaxSize
  PROVE  PageDown(b, i, len) \in 0..MaxSize
<1> DEFINE A == 0..MaxSize
           H == [x \in A |-> LineBelow(b, x, len)]
           P(g) == g = [n \in Nat |-> IF n = 0 THEN i ELSE LineBelow(b, g[n - 1], len)]
           at == CHOOSE g : P(g)
<1>1. H \in [A -> A] /\ \A x \in A : H[x] = LineBelow(b, x, len)
  BY LineBelowIs
<1> HIDE DEF H
<1>0. PICK f : Iterates(A, i, H, f)
  BY <1>1, Iteration
<1>2. f \in [Nat -> A] /\ \A n \in Nat : f[n] = IF n = 0 THEN i ELSE H[f[n - 1]]
  BY <1>0 DEF Iterates
<1>3. P(f)
  <2>1. ASSUME NEW n \in Nat PROVE f[n] = IF n = 0 THEN i ELSE LineBelow(b, f[n - 1], len)
    <3>1. CASE n = 0
      BY <1>2, <3>1
    <3>2. CASE n # 0
      <4>1. n - 1 \in Nat
        BY <3>2
      <4>2. f[n - 1] \in A /\ f[n] = H[f[n - 1]]
        BY <1>2, <3>2, <4>1
      <4> QED BY <1>1, <3>2, <4>2
    <3> QED BY <3>1, <3>2
  <2> QED BY <1>2, <2>1
<1>4. P(at)
  <2> HIDE DEF P
  <2> QED BY <1>3
<1> HIDE DEF at
<1>5. \A n \in Nat : at[n] = IF n = 0 THEN i ELSE LineBelow(b, at[n - 1], len)
  BY <1>4
<1> DEFINE S == {n \in Nat : at[n] \in A}
<1>6. 0 \in S
  BY <1>5
<1>7. ASSUME NEW n \in S PROVE n + 1 \in S
  <2>1. n + 1 \in Nat /\ n + 1 # 0 /\ (n + 1) - 1 = n
    OBVIOUS
  <2>2. at[n + 1] = LineBelow(b, at[n], len)
    BY <1>5, <2>1
  <2> QED BY <2>1, <2>2, LineBelowIs
<1>8. S \in SUBSET Nat
  OBVIOUS
<1> HIDE DEF S
<1>9. S = Nat
  BY <1>6, <1>7, <1>8, SetInduction
<1>10. at[PageLines] \in A
  BY <1>9, Sizes DEF S
<1> QED BY <1>10 DEF PageDown, at

\* The number of line breaks before an index.
LEMMA LineBreaksIs ==
  ASSUME NEW b, NEW i
  PROVE  /\ IsFiniteSet({j \in Index : j < i /\ b[j] = NL})
         /\ LineBreaks(b, i) \in 0..MaxSize
<1> DEFINE S == {j \in Index : j < i /\ b[j] = NL}
<1>1. IsFiniteSet(Index) /\ Cardinality(Index) = MaxSize
  <2>1. 0 \in Int /\ MaxSize - 1 \in Int /\ ~ (0 > MaxSize - 1) /\ (MaxSize - 1) - 0 + 1 = MaxSize
    BY Sizes
  <2> HIDE DEF S
  <2>2. /\ IsFiniteSet(0..(MaxSize - 1))
        /\ Cardinality(0..(MaxSize - 1)) = IF 0 > MaxSize - 1 THEN 0 ELSE (MaxSize - 1) - 0 + 1
    BY <2>1, FS_Interval, Zenon
  <2> QED BY <2>1, <2>2 DEF Index
<1>2. S \in SUBSET Index
  OBVIOUS
<1> HIDE DEF S
<1>3. IsFiniteSet(S) /\ Cardinality(S) <= MaxSize
  BY <1>1, <1>2, FS_Subset
<1>4. Cardinality(S) \in Nat
  BY <1>3, FS_CardinalityType
<1>5. LineBreaks(b, i) \in 0..MaxSize
  BY <1>3, <1>4, Sizes DEF LineBreaks, S
<1> QED BY <1>3, <1>5 DEF S

\* It grows with the index ...
LEMMA LineBreaksGrow ==
  ASSUME NEW b, NEW i \in Int, NEW k \in Int, i <= k
  PROVE  LineBreaks(b, i) <= LineBreaks(b, k)
<1> DEFINE S(m) == {j \in Index : j < m /\ b[j] = NL}
<1>1. S(i) \in SUBSET S(k)
  <2>1. ASSUME NEW j \in Index, j < i PROVE j < k
    BY <2>1, Sizes
  <2> QED BY <2>1
<1>2. IsFiniteSet(S(k))
  BY LineBreaksIs
<1> HIDE DEF S
<1>3. Cardinality(S(i)) <= Cardinality(S(k))
  BY <1>1, <1>2, FS_Subset
<1> QED BY <1>3 DEF LineBreaks, S

\* ... from nothing ...
LEMMA LineBreaksZero ==
  ASSUME NEW b
  PROVE  LineBreaks(b, 0) = 0
<1>1. {j \in Index : j < 0 /\ b[j] = NL} = {}
  <2>1. \A j \in Index : ~ (j < 0)
    BY Sizes
  <2> QED BY <2>1
<1>2. Cardinality({}) = 0
  BY FS_EmptySet
<1> QED BY <1>1, <1>2 DEF LineBreaks

\* ... by one behind every newline.
LEMMA LineBreaksStep ==
  ASSUME NEW b, NEW i \in Index
  PROVE  LineBreaks(b, i + 1) = LineBreaks(b, i) + (IF b[i] = NL THEN 1 ELSE 0)
<1> DEFINE S(m) == {j \in Index : j < m /\ b[j] = NL}
<1>1. i \in Nat /\ \A j \in Index : j < i + 1 <=> (j < i \/ j = i)
  BY Sizes
<1>2. IsFiniteSet(S(i)) /\ i \notin S(i) /\ Cardinality(S(i)) \in Nat
  <2>1. ~ (i < i)
    BY <1>1
  <2>2. IsFiniteSet(S(i))
    BY LineBreaksIs
  <2>3. i \notin S(i)
    BY <2>1
  <2> HIDE DEF S
  <2>4. Cardinality(S(i)) \in Nat
    BY <2>2, FS_CardinalityType
  <2> QED BY <2>2, <2>3, <2>4
<1>3. S(i + 1) = IF b[i] = NL THEN S(i) \union {i} ELSE S(i)
  BY <1>1
<1> HIDE DEF S
<1>4. b[i] = NL => Cardinality(S(i + 1)) = Cardinality(S(i)) + 1
  BY <1>2, <1>3, FS_AddElement
<1>5. b[i] # NL => Cardinality(S(i + 1)) = Cardinality(S(i))
  BY <1>3
<1>6. LineBreaks(b, i + 1) = Cardinality(S(i + 1)) /\ LineBreaks(b, i) = Cardinality(S(i))
  BY DEF LineBreaks, S
<1> QED BY <1>2, <1>4, <1>5, <1>6

\* A line the text has begins in the text, behind as many newlines as there
\* are lines before it.
LEMMA StartOfLineIs ==
  ASSUME NEW b \in Buffer, b[MaxSize - 1] = NUL, NEW n \in Nat \ {0}, HasLine(b, n)
  PROVE  /\ StartOfLine(b, n) \in 0..Strlen(b, 0)
         /\ LineBreaks(b, StartOfLine(b, n)) + 1 = n
<1> DEFINE L == Strlen(b, 0)
           B(m) == LineBreaks(b, m)
<1>1. L \in Nat /\ L \in Index /\ L <= MaxSize - 1
  <2>1. 0 \in Index
    BY Sizes DEF Index
  <2>2. L \in Nat /\ 0 + L \in Index
    BY <2>1, StrlenIs
  <2> QED BY <2>2, Sizes DEF Index
<1>2. B(L) >= n - 1 /\ B(0) = 0 /\ \A m : B(m) \in Nat
  <2>1. B(L) >= n - 1
    BY DEF HasLine
  <2>2. \A m : B(m) \in 0..MaxSize
    BY LineBreaksIs
  <2>3. B(0) = 0
    BY LineBreaksZero
  <2> HIDE DEF L, B
  <2> QED BY <2>1, <2>2, <2>3, Sizes
<1> HIDE DEF L, B
<1>3. CASE n = 1
  BY <1>1, <1>2, <1>3 DEF StartOfLine, L, B
<1>4. CASE n # 1
  <2> DEFINE S == {m \in Nat : m <= L /\ B(m) >= n - 1}
             J(j) == b[j] = NL /\ B(j) = n - 2
  <2>1. S \in SUBSET Nat /\ L \in S
    BY <1>1, <1>2
  <2>2. PICK m \in S : \A k \in S : m <= k
    <3> HIDE DEF S
    <3> QED BY <2>1, LeastExists, Zenon
  <2>3. m \in Nat /\ m # 0 /\ m <= L /\ B(m) >= n - 1
    BY <1>2, <1>4
  <2>4. m - 1 \in Index /\ (m - 1) + 1 = m /\ m - 1 \in Nat /\ m - 1 <= L
    BY <1>1, <2>3, Sizes DEF Index
  <2>5. m - 1 \notin S
    BY <2>2, <2>3, <2>4
  <2>6. B(m - 1) < n - 1
    BY <1>2, <2>4, <2>5
  <2>7. B(m) = B(m - 1) + (IF b[m - 1] = NL THEN 1 ELSE 0)
    BY <2>4, LineBreaksStep DEF B
  <2>8. J(m - 1)
    BY <1>2, <2>3, <2>6, <2>7
  <2> DEFINE j == CHOOSE k \in Index : J(k)
  <2>9. j \in Index /\ J(j)
    <3> HIDE DEF J
    <3> QED BY <2>4, <2>8
  <2>10. StartOfLine(b, n) = 1 + j
    BY <1>4 DEF StartOfLine, B
  <2> HIDE DEF j
  <2>11. B(j + 1) = n - 1 /\ j \in Nat
    <3>1. B(j + 1) = B(j) + (IF b[j] = NL THEN 1 ELSE 0)
      BY <2>9, LineBreaksStep DEF B
    <3> QED BY <1>2, <2>9, <3>1, Sizes
  <2>12. j < L
    <3> SUFFICES ASSUME L <= j PROVE FALSE
      BY <1>1, <2>11
    <3>1. B(L) <= B(j)
      BY <1>1, <2>11, LineBreaksGrow DEF B
    <3> QED BY <1>2, <2>9, <3>1
  <2>13. 1 + j = j + 1 /\ j + 1 \in 0..L
    BY <1>1, <2>11, <2>12
  <2> QED BY <2>10, <2>11, <2>13 DEF L, B
<1> QED BY <1>3, <1>4

\* memmove() inside the buffer changes the bytes from dst on.
LEMMA MemmoveIs ==
  ASSUME NEW b \in Buffer, NEW dst \in Nat, NEW src \in Nat, NEW n \in Int, Inside(dst, src, n)
  PROVE  /\ Memmove(b, dst, src, n) \in Buffer
         /\ \A i \in Index : Memmove(b, dst, src, n)[i] =
                IF dst <= i /\ i < dst + n THEN b[src + i - dst] ELSE b[i]
<1>1. ASSUME NEW i \in Index, dst <= i, i < dst + n PROVE src + i - dst \in Index
  BY <1>1, Sizes DEF Index, Inside
<1>2. \A i \in Index : (IF dst <= i /\ i < dst + n THEN b[src + i - dst] ELSE b[i]) \in TextChars \union {NUL}
  BY <1>1 DEF Buffer
<1> QED BY <1>2 DEF Memmove, Buffer

\* memcpy() too.
LEMMA MemcpyIs ==
  ASSUME NEW b \in Buffer, NEW dst \in Nat, NEW s \in Seq(TextChars)
  PROVE  /\ Memcpy(b, dst, s) \in Buffer
         /\ \A i \in Index : Memcpy(b, dst, s)[i] =
                IF dst <= i /\ i < dst + Len(s) THEN s[i - dst + 1] ELSE b[i]
         /\ \A i \in Index : dst <= i /\ i < dst + Len(s) => s[i - dst + 1] \in TextChars
<1>1. ASSUME NEW i \in Index, dst <= i, i < dst + Len(s) PROVE s[i - dst + 1] \in TextChars
  <2>1. i - dst + 1 \in 1..Len(s)
    BY <1>1, Sizes
  <2> QED BY <2>1
<1>2. \A i \in Index : (IF dst <= i /\ i < dst + Len(s) THEN s[i - dst + 1] ELSE b[i]) \in TextChars \union {NUL}
  BY <1>1 DEF Buffer
<1> QED BY <1>1, <1>2 DEF Memcpy, Buffer

\* A buffer whose bytes before n are a text and whose byte n is NUL.
Terminated(b, n) == n \in Index /\ b[n] = NUL /\ \A i \in Index : i < n => b[i] # NUL

\* That is what strlen() finds.
LEMMA TerminatedIs ==
  ASSUME NEW b \in Buffer, b[MaxSize - 1] = NUL
  PROVE  /\ Terminated(b, Strlen(b, 0))
         /\ \A n : Terminated(b, n) => Strlen(b, 0) = n
<1>1. 0 \in Index /\ \A i \in Index : 0 <= i
  BY Sizes DEF Index
<1>2. /\ Strlen(b, 0) \in Nat /\ 0 + Strlen(b, 0) \in Index /\ b[0 + Strlen(b, 0)] = NUL
      /\ \A i \in Index : 0 <= i /\ i < 0 + Strlen(b, 0) => b[i] # NUL
  BY <1>1, StrlenIs
<1>3. 0 + Strlen(b, 0) = Strlen(b, 0)
  BY <1>2
<1>4. Terminated(b, Strlen(b, 0))
  BY <1>1, <1>2, <1>3 DEF Terminated
<1>5. ASSUME NEW n, Terminated(b, n) PROVE Strlen(b, 0) = n
  BY <1>5, StrlenUnique DEF Terminated
<1> QED BY <1>4, <1>5

\* Inserting keeps the last byte of the buffer, and a text a text.
LEMMA InsertIs ==
  ASSUME NEW b \in Buffer, b[MaxSize - 1] = NUL, NEW c \in 0..MaxSize, NEW s \in Seq(TextChars),
         NEW t \in Int, t + Len(s) < MaxSize - 1, t - c + 1 >= 0,
         Inside(c + Len(s), c, t - c + 1),
         NEW nb, nb = Memcpy(Memmove(b, c + Len(s), c, t - c + 1), c, s)
  PROVE  /\ nb \in Buffer /\ nb[MaxSize - 1] = NUL
         /\ t = Strlen(b, 0) /\ c <= t => t + Len(s) = Strlen(nb, 0)
<1> DEFINE L == Len(s)
           n == t - c + 1
           m == Memmove(b, c + L, c, n)
<1>1. L \in Nat /\ c \in Nat /\ n \in Int /\ c + L \in Nat
  BY Sizes
<1>2. m \in Buffer /\ \A i \in Index : m[i] = IF c + L <= i /\ i < c + L + n THEN b[c + i - (c + L)] ELSE b[i]
  <2> HIDE DEF n, L, m
  <2>1. Inside(c + L, c, n)
    BY DEF n, L
  <2> QED BY <1>1, <2>1, MemmoveIs DEF m
<1> HIDE DEF m
<1>3. /\ nb \in Buffer
      /\ \A i \in Index : nb[i] = IF c <= i /\ i < c + L THEN s[i - c + 1] ELSE m[i]
      /\ \A i \in Index : c <= i /\ i < c + L => s[i - c + 1] \in TextChars
  <2>1. nb = Memcpy(m, c, s)
    BY DEF m
  <2> HIDE DEF n, L
  <2>2. /\ Memcpy(m, c, s) \in Buffer
        /\ \A i \in Index : Memcpy(m, c, s)[i] =
               IF c <= i /\ i < c + Len(s) THEN s[i - c + 1] ELSE m[i]
        /\ \A i \in Index : c <= i /\ i < c + Len(s) => s[i - c + 1] \in TextChars
    <3>1. m \in Buffer /\ c \in Nat
      BY <1>1, <1>2
    <3> QED BY <3>1, MemcpyIs, Zenon
  <2> QED BY <2>1, <2>2 DEF L
<1> HIDE DEF L
<1>4. t + L < MaxSize - 1 /\ t - c + 1 >= 0
  BY DEF L
<1>5. nb[MaxSize - 1] = NUL
  <2>1. MaxSize - 1 \in Index /\ ~ (MaxSize - 1 < c + L + n) /\ ~ (MaxSize - 1 < c + L)
    BY <1>1, <1>4, Sizes DEF Index
  <2> QED BY <1>2, <1>3, <2>1
<1>6. ASSUME t = Strlen(b, 0), c <= t PROVE t + L = Strlen(nb, 0)
  <2>1. Terminated(b, t)
    BY <1>6, TerminatedIs
  <2>2. t + L \in Index /\ t \in Index /\ t \in Nat
    BY <1>1, <1>4, <2>1, Sizes DEF Index, Terminated
  <2>3. nb[t + L] = NUL
    <3>1. c + L <= t + L /\ t + L < c + L + n /\ ~ (t + L < c + L) /\ c + (t + L) - (c + L) = t
      BY <1>1, <1>6, <2>2
    <3>2. m[t + L] = b[t]
      BY <1>2, <2>2, <3>1
    <3>3. b[t] = NUL
      BY <2>1 DEF Terminated
    <3> QED BY <1>3, <2>2, <3>1, <3>2, <3>3
  <2>4. ASSUME NEW i \in Index, i < t + L PROVE nb[i] # NUL
    <3>0. i \in Nat
      BY Sizes
    <3>1. CASE i < c
      <4>1. ~ (c <= i) /\ ~ (c + L <= i) /\ i < t
        BY <1>1, <1>6, <2>2, <3>0, <3>1
      <4>2. nb[i] = b[i]
        BY <1>2, <1>3, <4>1
      <4> QED BY <2>1, <4>1, <4>2 DEF Terminated
    <3>2. CASE c <= i /\ i < c + L
      BY <1>3, <3>2, CharAssumption
    <3>3. CASE c + L <= i
      <4>1. ~ (i < c + L) /\ i < c + L + n /\ c + i - (c + L) = i - L /\ i - L < t /\ i - L \in Index
        BY <1>1, <1>6, <2>2, <2>4, <3>0, <3>3, Sizes DEF Index
      <4>2. nb[i] = m[i]
        BY <1>3, <4>1
      <4>3. m[i] = b[c + i - (c + L)]
        BY <1>2, <3>3, <4>1
      <4>4. nb[i] = b[i - L]
        BY <4>1, <4>2, <4>3
      <4> QED BY <2>1, <4>1, <4>4 DEF Terminated
    <3> QED BY <1>1, <3>0, <3>1, <3>2, <3>3
  <2>5. Terminated(nb, t + L)
    BY <2>2, <2>3, <2>4 DEF Terminated
  <2> QED BY <1>3, <1>5, <2>5, TerminatedIs
<1> QED BY <1>3, <1>5, <1>6 DEF L

\* Removing keeps the last byte of the buffer, and a text a text.
LEMMA RemoveIs ==
  ASSUME NEW b \in Buffer, b[MaxSize - 1] = NUL, NEW start \in 0..MaxSize, NEW ende \in 0..MaxSize,
         start < ende, NEW n \in Int, Inside(start, ende, n),
         NEW nb, nb = Memmove(b, start, ende, n)
  PROVE  /\ nb \in Buffer /\ nb[MaxSize - 1] = NUL
         /\ \A t \in Int : t = Strlen(b, 0) /\ ende <= t /\ n = t - ende + 1
                              => t - (ende - start) = Strlen(nb, 0)
<1>1. start \in Nat /\ ende \in Nat
  BY Sizes
<1>2. /\ nb \in Buffer
      /\ \A i \in Index : nb[i] = IF start <= i /\ i < start + n THEN b[ende + i - start] ELSE b[i]
  BY <1>1, MemmoveIs
<1>3. nb[MaxSize - 1] = NUL
  <2>1. MaxSize - 1 \in Index /\ ~ (MaxSize - 1 < start + n)
    BY <1>1, Sizes DEF Index, Inside
  <2> QED BY <1>2, <2>1
<1>4. ASSUME NEW t \in Int, t = Strlen(b, 0), ende <= t, n = t - ende + 1
      PROVE  t - (ende - start) = Strlen(nb, 0)
  <2> DEFINE u == t - (ende - start)
  <2>1. Terminated(b, t)
    BY <1>4, TerminatedIs
  <2>2. u \in Index /\ t \in Index /\ t \in Nat
    BY <1>1, <1>4, <2>1, Sizes DEF Index, Terminated
  <2>3. nb[u] = NUL
    <3>1. start <= u /\ u < start + n /\ ende + u - start = t
      BY <1>1, <1>4, <2>2
    <3>2. nb[u] = b[ende + u - start]
      BY <1>2, <2>2, <3>1
    <3>3. b[t] = NUL
      BY <2>1 DEF Terminated
    <3> QED BY <3>1, <3>2, <3>3
  <2>4. ASSUME NEW i \in Index, i < u PROVE nb[i] # NUL
    <3>0. i \in Nat
      BY Sizes
    <3>1. CASE i < start
      <4>1. ~ (start <= i) /\ i < t
        BY <1>1, <1>4, <2>2, <2>4, <3>0, <3>1
      <4>2. nb[i] = b[i]
        BY <1>2, <4>1
      <4> QED BY <2>1, <4>1, <4>2 DEF Terminated
    <3>2. CASE start <= i
      <4>1. i < start + n /\ ende + i - start < t /\ ende + i - start \in Index
        BY <1>1, <1>4, <2>2, <2>4, <3>0, <3>2, Sizes DEF Index
      <4>2. nb[i] = b[ende + i - start]
        BY <1>2, <3>2, <4>1
      <4> QED BY <2>1, <4>1, <4>2 DEF Terminated
    <3> QED BY <1>1, <3>0, <3>1, <3>2
  <2>5. Terminated(nb, u)
    BY <2>2, <2>3, <2>4 DEF Terminated
  <2> QED BY <1>2, <1>3, <2>5, TerminatedIs
<1> QED BY <1>2, <1>3, <1>4

\* A new buffer is empty.
LEMMA EmptyIs == Empty \in Buffer /\ Empty[MaxSize - 1] = NUL /\ Strlen(Empty, 0) = 0
<1>1. Empty \in Buffer /\ \A i \in Index : Empty[i] = NUL
  BY DEF Empty, Buffer
<1>2. MaxSize - 1 \in Index /\ 0 \in Index /\ \A i \in Index : ~ (i < 0)
  BY Sizes DEF Index
<1>3. Terminated(Empty, 0)
  BY <1>1, <1>2 DEF Terminated
<1> QED BY <1>1, <1>2, <1>3, TerminatedIs

\* A file is loaded as far as the buffer takes it.
LEMMA LoadIs ==
  ASSUME NEW text \in Seq(TextChars)
  PROVE  Load(text) \in Buffer /\ Load(text)[MaxSize - 1] = NUL
<1> DEFINE n == SmallerOf(Len(text), MaxSize - 1)
           s == SubSeq(text, 1, n)
<1>1. n \in Nat /\ n <= Len(text) /\ n <= MaxSize - 1
  BY Sizes DEF SmallerOf
<1> HIDE DEF n
<1>2. s \in Seq(TextChars) /\ Len(s) = n
  <2>1. 1 \in Int /\ n \in Int /\ \A i \in 1..n : text[i] \in TextChars
    BY <1>1
  <2>2. s \in Seq(TextChars) /\ Len(s) = IF 1 <= n THEN n - 1 + 1 ELSE 0
    BY <2>1, SubSeqProperties
  <2> HIDE DEF s
  <2> QED BY <1>1, <2>2
<1> HIDE DEF s
<1>3. /\ Memcpy(Empty, 0, s) \in Buffer
      /\ \A i \in Index : Memcpy(Empty, 0, s)[i] =
             IF 0 <= i /\ i < 0 + Len(s) THEN s[i - 0 + 1] ELSE Empty[i]
  <2>1. 0 \in Nat
    OBVIOUS
  <2> QED BY <1>2, <2>1, EmptyIs, MemcpyIs, Zenon
<1>4. MaxSize - 1 \in Index /\ ~ (MaxSize - 1 < 0 + Len(s))
  BY <1>1, <1>2, Sizes DEF Index
<1>5. Memcpy(Empty, 0, s)[MaxSize - 1] = NUL
  BY <1>3, <1>4, EmptyIs
<1> QED BY <1>3, <1>5 DEF Load, s, n

\* The text F1 saves is a text.
LEMMA TextOfIs ==
  ASSUME NEW b \in Buffer, b[MaxSize - 1] = NUL
  PROVE  TextOf(b) \in Seq(TextChars)
<1>1. Terminated(b, Strlen(b, 0))
  BY TerminatedIs
<1>2. Strlen(b, 0) \in Nat /\ Strlen(b, 0) \in Index
  BY <1>1, Sizes DEF Terminated
<1> DEFINE n == Strlen(b, 0)
<1> HIDE DEF n
<1>3. ASSUME NEW i \in 1..n PROVE b[i - 1] \in TextChars
  <2>1. i - 1 \in Index /\ i - 1 < n
    BY <1>2, Sizes DEF Index, n
  <2>2. b[i - 1] # NUL
    BY <1>1, <2>1 DEF Terminated, n
  <2>3. b[i - 1] \in TextChars \union {NUL}
    BY <2>1 DEF Buffer
  <2> QED BY <2>2, <2>3
<1>4. n \in Nat
  BY <1>2 DEF n
<1>5. [i \in 1..n |-> b[i - 1]] \in [1..n -> TextChars]
  BY <1>3
<1>6. [i \in 1..n |-> b[i - 1]] \in Seq(TextChars)
  BY <1>4, <1>5
<1> QED BY <1>6 DEF TextOf, n

\* The invariant without the names of the variables that one keystroke leaves alone.
LEMMA SettleAtKeeps ==
  ASSUME IInv, status = "editing", strayed <= plan.stray, plan' = plan,
         NEW b \in Buffer, b[MaxSize - 1] = NUL, NEW len \in -1..(MaxSize - 1),
         NEW cursor \in 0..MaxSize, NEW mark \in -1..MaxSize,
         NEW line \in {logischeZeile, logischeZeile + 1},
         strayed = 0 /\ cursor <= len /\ mark <= len => len = Strlen(b, 0),
         SettleAt(b, len, cursor, mark, line),
         editorClipboard' \in Seq(TextChars) /\ Len(editorClipboard') < ClipSize - 2
  PROVE  IInv'
<1> USE DEF IInv
<1>1. plan.stray \in Nat /\ strayed \in Nat
  BY SizeAssumption DEF TypeOK
<1>2. strayed' \in 0..(plan'.stray + 1) /\ (strayed' = 0 <=> strayed = 0 /\ cursor <= len /\ mark <= len)
  BY <1>1 DEF SettleAt
<1>3. logischeZeile' \in 1..(MaxSize + 1 + strayed')
  <2>1. LineBreaks(b, cursor) \in 0..MaxSize
    BY LineBreaksIs
  <2>2. line \in 1..(MaxSize + 2 + strayed)
    BY <1>1, Sizes DEF TypeOK
  <2>3. CASE cursor <= len
    <3>1. logischeZeile' = LineBreaks(b, cursor) + 1
      BY <2>3 DEF SettleAt
    <3> QED BY <1>2, <2>1, <3>1, SizeAssumption, Sizes
  <2>4. CASE ~ (cursor <= len)
    <3>1. logischeZeile' = line /\ strayed' = strayed + 1
      BY <2>4 DEF SettleAt
    <3> QED BY <1>1, <2>2, <3>1, Sizes
  <2> QED BY <2>3, <2>4
<1>4. /\ editorBuffer' = b /\ textLength' = len /\ cursorIdx' = cursor /\ blockStartIdx' = mark
      /\ UNCHANGED <<sd, status, filename, tmpDatei, editorStartZeile, gemerkte_stelle, gemerkte_zeile>>
  BY DEF SettleAt, sessionVars, memoryVars
<1>5. len \in -MaxSize..(MaxSize - 1) /\ len >= -1
  BY Sizes
<1>6. TypeOK'
  BY <1>2, <1>3, <1>4, <1>5 DEF TypeOK
<1>7. BufferHoldsText'
  BY <1>2, <1>4 DEF BufferHoldsText
<1>8. OnlyStrayingCrashes'
  BY <1>4 DEF OnlyStrayingCrashes
<1>9. LengthIsBounded'
  BY <1>2, <1>4, <1>5 DEF LengthIsBounded
<1> QED BY <1>6, <1>7, <1>8, <1>9

LEMMA SettleKeeps ==
  ASSUME IInv, status = "editing", strayed <= plan.stray, plan' = plan,
         NEW b \in Buffer, b[MaxSize - 1] = NUL, NEW len \in -1..(MaxSize - 1),
         NEW cursor \in 0..MaxSize, NEW mark \in -1..MaxSize,
         strayed = 0 /\ cursor <= len /\ mark <= len => len = Strlen(b, 0),
         Settle(b, len, cursor, mark),
         editorClipboard' \in Seq(TextChars) /\ Len(editorClipboard') < ClipSize - 2
  PROVE  IInv'
<1>1. SettleAt(b, len, cursor, mark, logischeZeile)
  BY DEF Settle
<1>2. logischeZeile \in {logischeZeile, logischeZeile + 1}
  OBVIOUS
<1> QED BY <1>1, <1>2, SettleAtKeeps

\* A crash outside the text breaks nothing that the invariant says.
LEMMA CrashKeeps ==
  ASSUME IInv, plan' = plan, Crash, strayed # 0
  PROVE  IInv'
<1> USE DEF IInv
<1>1. strayed \in Nat
  BY SizeAssumption DEF TypeOK
<1>2. /\ status' = "crashed"
      /\ UNCHANGED <<sd, filename, editorBuffer, textLength, cursorIdx, blockStartIdx, logischeZeile,
                     editorClipboard, tmpDatei, editorStartZeile, gemerkte_stelle, gemerkte_zeile, strayed>>
  BY DEF Crash, textVars, memoryVars
<1>3. TypeOK'
  BY <1>2 DEF TypeOK
<1>4. BufferHoldsText' /\ OnlyStrayingCrashes' /\ LengthIsBounded'
  BY <1>1, <1>2 DEF BufferHoldsText, OnlyStrayingCrashes, LengthIsBounded
<1> QED BY <1>3, <1>4

\* What the invariant says of one keystroke's variables.
LEMMA Editing ==
  ASSUME IInv
  PROVE  /\ editorBuffer \in Buffer /\ editorBuffer[MaxSize - 1] = NUL
         /\ textLength \in -1..(MaxSize - 1) /\ cursorIdx \in 0..MaxSize /\ blockStartIdx \in -1..MaxSize
         /\ editorClipboard \in Seq(TextChars) /\ Len(editorClipboard) < ClipSize - 2
         /\ status = "editing" /\ strayed = 0 =>
                /\ textLength = Strlen(editorBuffer, 0)
                /\ cursorIdx <= textLength /\ blockStartIdx <= textLength
BY Sizes DEF IInv, TypeOK, BufferHoldsText, LengthIsBounded

\* Typing, Enter, TAB and F8 insert.
LEMMA InsertKeeps ==
  ASSUME IInv, status = "editing", strayed <= plan.stray, plan' = plan,
         NEW s \in Seq(TextChars), textLength + Len(s) < MaxSize - 1,
         NEW mark \in {blockStartIdx, -1},
         NEW line \in {logischeZeile, logischeZeile + 1}, Insert(s, mark, line)
  PROVE  IInv'
<1> DEFINE L == Len(s)
           n == textLength - cursorIdx + 1
           b == Memcpy(Memmove(editorBuffer, cursorIdx + L, cursorIdx, n), cursorIdx, s)
<1>1. L \in Nat /\ n \in Int
  BY Editing
<1>2. CASE Inside(cursorIdx + L, cursorIdx, n) /\ cursorIdx + L <= MaxSize
  <2>1. SettleAt(b, textLength + L, cursorIdx + L, mark, line) /\ editorClipboard' = editorClipboard
    BY <1>2 DEF Insert
  <2>2. n >= 0
    BY <1>2 DEF Inside
  <2>3. /\ b \in Buffer /\ b[MaxSize - 1] = NUL
        /\ textLength = Strlen(editorBuffer, 0) /\ cursorIdx <= textLength =>
               textLength + L = Strlen(b, 0)
    <3>1. textLength \in Int
      BY Editing
    <3> QED BY <1>2, <2>2, <3>1, Editing, InsertIs
  <2> HIDE DEF b
  <2>4. textLength + L \in -1..(MaxSize - 1) /\ cursorIdx + L \in 0..MaxSize /\ mark \in -1..MaxSize
    BY <1>1, <1>2, Editing, Sizes
  <2>5. strayed = 0 => textLength + L = Strlen(b, 0)
    BY <2>3, Editing
  <2> HIDE DEF L
  <2> QED BY <2>1, <2>3, <2>4, <2>5, Editing, SettleAtKeeps
<1>3. CASE ~ (Inside(cursorIdx + L, cursorIdx, n) /\ cursorIdx + L <= MaxSize)
  <2>1. Crash
    BY <1>3 DEF Insert
  <2>2. strayed # 0
    BY <1>1, <1>3, Editing, Sizes DEF Inside
  <2> QED BY <2>1, <2>2, CrashKeeps
<1> QED BY <1>2, <1>3

\* Backspace, DEL and F9 remove.
LEMMA RemoveKeeps ==
  ASSUME IInv, status = "editing", strayed <= plan.stray, plan' = plan,
         NEW start \in 0..MaxSize, NEW ende \in 0..MaxSize, start < ende,
         NEW n, n = textLength - ende + 1, strayed = 0 => ende <= textLength,
         NEW mark \in {blockStartIdx, -1}, Remove(start, ende, n, mark)
  PROVE  IInv'
<1> DEFINE b == Memmove(editorBuffer, start, ende, n)
<1>1. textLength \in Int /\ textLength >= -1 /\ textLength < MaxSize /\ n \in Int /\ start \in Nat /\ ende \in Nat
  BY Editing, Sizes
<1>2. CASE Inside(start, ende, n)
  <2>1. Settle(b, textLength - (ende - start), start, mark) /\ editorClipboard' = editorClipboard
    BY <1>2 DEF Remove
  <2>2. /\ b \in Buffer /\ b[MaxSize - 1] = NUL
        /\ textLength = Strlen(editorBuffer, 0) /\ ende <= textLength =>
               textLength - (ende - start) = Strlen(b, 0)
    BY <1>1, <1>2, Editing, RemoveIs
  <2> HIDE DEF b
  <2>3. textLength - (ende - start) \in -1..(MaxSize - 1) /\ mark \in -1..MaxSize
    <3>1. n >= 0
      BY <1>2 DEF Inside
    <3> QED BY <1>1, <3>1, Editing, Sizes
  <2>4. strayed = 0 => textLength - (ende - start) = Strlen(b, 0)
    BY <2>2, Editing
  <2> QED BY <2>1, <2>2, <2>3, <2>4, Editing, SettleKeeps
<1>3. CASE ~ Inside(start, ende, n)
  <2>1. Crash
    BY <1>3 DEF Remove
  <2>2. strayed # 0
    BY <1>1, <1>3, Editing, Sizes DEF Inside
  <2> QED BY <2>1, <2>2, CrashKeeps
<1> QED BY <1>2, <1>3

\* The cursor keys, and what sets or clears the mark, change no text.
LEMMA SameTextKeeps ==
  ASSUME IInv, status = "editing", strayed <= plan.stray, plan' = plan,
         NEW cursor \in 0..MaxSize, NEW mark \in -1..MaxSize,
         Settle(editorBuffer, textLength, cursor, mark),
         editorClipboard' \in Seq(TextChars) /\ Len(editorClipboard') < ClipSize - 2
  PROVE  IInv'
<1>1. strayed = 0 => textLength = Strlen(editorBuffer, 0)
  BY Editing
<1> QED BY <1>1, Editing, SettleKeeps

-----------------------------------------------------------------------------
(* The steps.                                                              *)

\* The first state.
LEMMA InitHolds == Init => IInv
<1> SUFFICES ASSUME Init PROVE IInv
  OBVIOUS
<1>1. plan \in Plans /\ plan.files \subseteq Names /\ plan.lines \in Nat \ {0} /\ plan.stray \in Nat
  BY SizeAssumption DEF Init
<1>2. sd \in [Names -> Seq(TextChars) \union {Missing}]
  <2>1. PICK t \in [Names -> FileTexts \union {Missing}] :
             sd = [f \in Names |-> IF f \in plan.files THEN t[f] ELSE Missing]
    BY DEF Init
  <2>2. FileTexts \subseteq Seq(TextChars)
    BY FileAssumption
  <2> QED BY <2>1, <2>2
<1>3. editorClipboard \in Seq(TextChars) /\ Len(editorClipboard) < ClipSize - 2
  <2>1. editorClipboard = << >>
    BY DEF Init
  <2> QED BY <2>1, Sizes
<1>4. /\ editorBuffer \in Buffer /\ editorBuffer[MaxSize - 1] = NUL
      /\ textLength = 0 /\ cursorIdx = 0 /\ blockStartIdx = -1 /\ logischeZeile = 1
      /\ tmpDatei = NoName /\ editorStartZeile = 1 /\ gemerkte_stelle = 1 /\ gemerkte_zeile = 1
      /\ strayed = 0 /\ status = "closed" /\ filename \in plan.files
  BY EmptyIs DEF Init
<1>5. TypeOK
  BY <1>1, <1>2, <1>3, <1>4, Sizes DEF TypeOK
<1>6. BufferHoldsText /\ OnlyStrayingCrashes /\ LengthIsBounded
  BY <1>4 DEF BufferHoldsText, OnlyStrayingCrashes, LengthIsBounded
<1> QED BY <1>5, <1>6 DEF IInv

\* F10 copies characters of the text.
LEMMA CopyKeeps ==
  ASSUME IInv, status = "editing", strayed <= plan.stray, plan' = plan, CopyBlock
  PROVE  IInv'
<1> DEFINE start == SmallerOf(blockStartIdx, cursorIdx)
           ende  == LargerOf(blockStartIdx, cursorIdx)
           n     == SmallerOf(ende - start, Strlen(editorBuffer, start))
<1>1. /\ blockStartIdx # -1 /\ start < ende /\ ende - start < ClipSize - 2
      /\ editorClipboard' = [i \in 1..n |-> editorBuffer[start + i - 1]]
      /\ Settle(editorBuffer, textLength, cursorIdx, blockStartIdx)
  BY DEF CopyBlock
<1>2. start \in Index /\ start \in Nat /\ ende \in Nat
  BY <1>1, Editing, Sizes DEF Index, SmallerOf, LargerOf
<1> HIDE DEF start, ende
<1>3. /\ Strlen(editorBuffer, start) \in Nat /\ start + Strlen(editorBuffer, start) \in Index
      /\ \A i \in Index : start <= i /\ i < start + Strlen(editorBuffer, start) => editorBuffer[i] # NUL
  BY <1>2, Editing, StrlenIs
<1>4. n \in Nat /\ n <= ende - start /\ n <= Strlen(editorBuffer, start)
  BY <1>1, <1>2, <1>3 DEF SmallerOf
<1> HIDE DEF n
<1>5. ASSUME NEW i \in 1..n PROVE editorBuffer[start + i - 1] \in TextChars
  <2>1. start <= start + i - 1 /\ start + i - 1 < start + Strlen(editorBuffer, start)
    BY <1>2, <1>3, <1>4
  <2>2. start + i - 1 \in Index
    BY <1>2, <1>3, <2>1, Sizes DEF Index
  <2>3. editorBuffer[start + i - 1] # NUL
    BY <1>3, <2>1, <2>2
  <2>4. editorBuffer[start + i - 1] \in TextChars \union {NUL}
    BY <2>2, Editing DEF Buffer
  <2> QED BY <2>3, <2>4
<1>6. editorClipboard' \in [1..n -> TextChars]
  BY <1>1, <1>5
<1>7. editorClipboard' \in Seq(TextChars) /\ Len(editorClipboard') = n
  BY <1>4, <1>6
<1>8. Len(editorClipboard') < ClipSize - 2
  BY <1>1, <1>2, <1>4, <1>7, Sizes
<1> QED BY <1>1, <1>7, <1>8, Editing, SameTextKeeps

\* F7 finds a place in the buffer, or leaves it.
LEMMA FindKeeps ==
  ASSUME IInv, status = "editing", strayed <= plan.stray, plan' = plan,
         NEW s, Find(s)
  PROVE  IInv'
<1> DEFINE ahead == IF cursorIdx + 1 \in Index THEN Matches(editorBuffer, cursorIdx + 1, s) ELSE {}
           top   == Matches(editorBuffer, 0, s)
<1>1. ahead \subseteq Index /\ top \subseteq Index
  BY DEF Matches
<1>2. editorClipboard' = editorClipboard
  BY DEF Find
<1>3. \E cursor \in 0..MaxSize : Settle(editorBuffer, textLength, cursor, -1)
  <2> HIDE DEF ahead, top
  <2>1. \/ ahead # {} /\ Settle(editorBuffer, textLength, LeastOf(ahead), -1)
        \/ top # {} /\ Settle(editorBuffer, textLength, LeastOf(top), -1)
        \/ Settle(editorBuffer, textLength, MaxSize, -1)
    BY DEF Find, ahead, top
  <2>2. \A S \in SUBSET Index : S # {} => LeastOf(S) \in 0..MaxSize
    <3> TAKE S \in SUBSET Index
    <3>1. S \in SUBSET Nat
      BY Sizes
    <3>2. S # {} => LeastOf(S) \in S
      BY <3>1, LeastOfIs
    <3>3. Index \subseteq 0..MaxSize
      BY Sizes DEF Index
    <3> QED BY <3>2, <3>3
  <2>3. MaxSize \in 0..MaxSize
    BY Sizes
  <2> QED BY <1>1, <2>1, <2>2, <2>3
<1>4. PICK cursor \in 0..MaxSize : Settle(editorBuffer, textLength, cursor, -1)
  BY <1>3
<1>5. -1 \in -1..MaxSize
  BY Sizes
<1> HIDE DEF ahead, top
<1> QED BY <1>2, <1>4, <1>5, Editing, SameTextKeeps

\* The cursor keys stay in the buffer.
LEMMA MoveKeeps ==
  ASSUME IInv, status = "editing", strayed <= plan.stray, plan' = plan, Move
  PROVE  IInv'
<1> DEFINE b == editorBuffer
           i == cursorIdx
           t == textLength
<1>1. i \in 0..MaxSize /\ i \in Nat /\ t \in Int /\ t <= MaxSize /\ t < MaxSize
  BY Editing, Sizes
<1>2. /\ LineAbove(b, i) \in 0..MaxSize
      /\ LineBelow(b, i, t) \in 0..MaxSize
      /\ LineStart(b, i) \in 0..i
      /\ LineEnd(b, i, t) \in 0..MaxSize
      /\ PageUp(b, i) \in 0..MaxSize
      /\ PageDown(b, i, t) \in 0..MaxSize
  <2> HIDE DEF b, i, t
  <2> QED BY <1>1, LineAboveIs, LineBelowIs, LineStartIs, LineEndIs, PageUpIs, PageDownIs
<1>3. \E cursor \in 0..MaxSize : MoveTo(cursor)
  <2>1. i > 0 => i - 1 \in 0..MaxSize
    BY <1>1, Sizes
  <2>2. i < t => i + 1 \in 0..MaxSize
    BY <1>1, Sizes
  <2>3. LineStart(b, i) \in 0..MaxSize
    BY <1>1, <1>2, Sizes
  <2>4. \/ i > 0 /\ MoveTo(i - 1)
        \/ i < t /\ MoveTo(i + 1)
        \/ MoveTo(LineAbove(b, i)) \/ MoveTo(LineBelow(b, i, t))
        \/ MoveTo(LineStart(b, i)) \/ MoveTo(LineEnd(b, i, t))
        \/ MoveTo(PageUp(b, i)) \/ MoveTo(PageDown(b, i, t))
    BY DEF Move
  <2> HIDE DEF b, i, t
  <2> QED BY <1>2, <2>1, <2>2, <2>3, <2>4, Zenon
<1>4. PICK cursor \in 0..MaxSize : MoveTo(cursor)
  BY <1>3
<1>5. Settle(editorBuffer, textLength, cursor, blockStartIdx) /\ editorClipboard' = editorClipboard
  BY <1>4 DEF MoveTo
<1> HIDE DEF b, i, t
<1> QED BY <1>5, Editing, SameTextKeeps

\* Every keystroke.
LEMMA KeystrokeKeeps ==
  ASSUME IInv, Keystroke, plan' = plan
  PROVE  IInv'
<1>1. status = "editing" /\ strayed <= plan.stray
  BY DEF Keystroke
<1>2. /\ textLength \in Int /\ textLength < MaxSize /\ cursorIdx \in 0..MaxSize /\ cursorIdx \in Nat
      /\ blockStartIdx \in -1..MaxSize /\ blockStartIdx \in {blockStartIdx, -1} /\ -1 \in {blockStartIdx, -1}
      /\ strayed = 0 => cursorIdx <= textLength /\ blockStartIdx <= textLength
  BY <1>1, Editing, Sizes
<1>3. \A c \in TextChars : <<c>> \in Seq(TextChars) /\ Len(<<c>>) = 1
  OBVIOUS
<1>4. ASSUME NEW c \in Printable, Type(c) PROVE IInv'
  <2>1. c \in TextChars /\ textLength + 1 < MaxSize - 1 /\ Insert(<<c>>, blockStartIdx, logischeZeile)
    BY <1>2, <1>4, Sizes DEF Type, TextChars
  <2> QED BY <1>1, <1>2, <1>3, <2>1, InsertKeeps
<1>5. CASE Enter
  <2>1. NL \in TextChars /\ textLength + 1 < MaxSize - 1 /\ Insert(<<NL>>, blockStartIdx, logischeZeile + 1)
    BY <1>2, <1>5, Sizes DEF Enter, TextChars
  <2> QED BY <1>1, <1>2, <1>3, <2>1, InsertKeeps
<1>6. CASE Tab
  <2> DEFINE s == <<Blank, Blank>>
  <2>1. Blank \in TextChars /\ textLength + 2 < MaxSize - 1 /\ Insert(s, blockStartIdx, logischeZeile)
    BY <1>2, <1>6, Sizes, CharAssumption DEF Tab, TextChars
  <2>2. s \in Seq(TextChars) /\ Len(s) = 2
    BY <2>1
  <2> HIDE DEF s
  <2> QED BY <1>1, <1>2, <2>1, <2>2, InsertKeeps
<1>7. CASE Backspace
  <2>1. /\ cursorIdx - 1 \in 0..MaxSize /\ cursorIdx - 1 < cursorIdx
        /\ Remove(cursorIdx - 1, cursorIdx, textLength - cursorIdx + 1, blockStartIdx)
    BY <1>2, <1>7, Sizes DEF Backspace
  <2> QED BY <1>1, <1>2, <2>1, RemoveKeeps
<1>8. CASE DeleteChar
  <2>1. /\ cursorIdx + 1 \in 0..MaxSize /\ cursorIdx < cursorIdx + 1 /\ cursorIdx + 1 <= textLength
        /\ textLength - cursorIdx = textLength - (cursorIdx + 1) + 1
        /\ Remove(cursorIdx, cursorIdx + 1, textLength - cursorIdx, -1)
    BY <1>2, <1>8, Sizes DEF DeleteChar
  <2> QED BY <1>1, <1>2, <2>1, RemoveKeeps
<1>9. CASE DeleteBlock
  <2> DEFINE start == SmallerOf(blockStartIdx, cursorIdx)
             ende  == LargerOf(blockStartIdx, cursorIdx)
  <2>1. CASE ende > start
    <3>1. blockStartIdx # -1 /\ Remove(start, ende, textLength - ende + 1, -1)
      BY <1>9, <2>1 DEF DeleteBlock
    <3>2. /\ start \in 0..MaxSize /\ ende \in 0..MaxSize /\ start < ende
          /\ strayed = 0 => ende <= textLength
      BY <1>2, <2>1, <3>1, Sizes DEF SmallerOf, LargerOf
    <3> HIDE DEF start, ende
    <3> QED BY <1>1, <1>2, <3>1, <3>2, RemoveKeeps
  <2>2. CASE ~ (ende > start)
    <3>1. Settle(editorBuffer, textLength, cursorIdx, -1) /\ editorClipboard' = editorClipboard
      BY <1>9, <2>2 DEF DeleteBlock
    <3>2. -1 \in -1..MaxSize
      BY Sizes
    <3> HIDE DEF start, ende
    <3> QED BY <1>1, <1>2, <3>1, <3>2, Editing, SameTextKeeps
  <2> QED BY <2>1, <2>2
<1>10. CASE MarkBlock
  <2>1. /\ Settle(editorBuffer, textLength, cursorIdx, cursorIdx) /\ editorClipboard' = editorClipboard
        /\ cursorIdx \in -1..MaxSize
    BY <1>2, <1>10 DEF MarkBlock
  <2> QED BY <1>1, <1>2, <2>1, Editing, SameTextKeeps
<1>11. CASE CopyBlock
  BY <1>1, <1>11, CopyKeeps
<1>12. CASE Paste
  <2>1. textLength + Len(editorClipboard) < MaxSize - 1 /\ Insert(editorClipboard, -1, logischeZeile)
    BY <1>2, <1>12, Editing, Sizes DEF Paste
  <2> QED BY <1>1, <1>2, <2>1, Editing, InsertKeeps
<1>13. ASSUME NEW s \in Needles, Find(s) PROVE IInv'
  BY <1>1, <1>13, FindKeeps
<1>14. CASE Move
  BY <1>1, <1>14, MoveKeeps
<1> QED BY <1>4, <1>5, <1>6, <1>7, <1>8, <1>9, <1>10, <1>11, <1>12, <1>13, <1>14 DEF Keystroke

\* What a session starts with: the buffer, and a place that is either the
\* remembered one or the line of the last error.
LEMMA OpenIs ==
  ASSUME IInv, NEW f \in Names, NEW r \in BOOLEAN, Open(f, r)
  PROVE  /\ status = "closed" /\ status' = "editing" /\ filename' = f
         /\ editorBuffer' \in Buffer /\ editorBuffer'[MaxSize - 1] = NUL
         /\ textLength' = Strlen(editorBuffer', 0) /\ textLength' \in 0..(MaxSize - 1)
         /\ textLength' > 0 => sd[f] # Missing /\ r
         /\ cursorIdx' \in 0..MaxSize /\ blockStartIdx' = -1
         /\ logischeZeile' \in 1..(MaxSize + 1)
         /\ tmpDatei' \in {tmpDatei, RelName[f]}
         /\ gemerkte_stelle' \in {1, gemerkte_stelle} /\ gemerkte_zeile' = 1 /\ editorStartZeile' = 1
         /\ strayed' = (IF cursorIdx' > textLength' THEN 1 ELSE 0)
         /\ UNCHANGED <<sd, editorClipboard>>
         /\ ForgetsPlace(f, sd[f] # Missing /\ r) =>
               /\ HasLine(editorBuffer', editorStartZeile) =>
                     /\ cursorIdx' = StartOfLine(editorBuffer', editorStartZeile)
                     /\ logischeZeile' = editorStartZeile
               /\ cursorIdx' <= textLength'
<1> DEFINE loaded == sd[f] # Missing /\ r
           b      == IF loaded THEN Load(sd[f]) ELSE Empty
           forget == ForgetsPlace(f, loaded)
           stelle == IF forget THEN 1 ELSE gemerkte_stelle
           zeile  == IF forget THEN 1 ELSE gemerkte_zeile
           back   == stelle > 1 \/ zeile > 1
           line   == IF back THEN zeile ELSE editorStartZeile
           L      == Strlen(b, 0)
           cursor == IF back THEN stelle
                     ELSE IF HasLine(b, line) THEN StartOfLine(b, line) ELSE 0
<1>1. /\ status = "closed" /\ status' = "editing" /\ filename' = f
      /\ editorBuffer' = b /\ textLength' = L
      /\ cursorIdx' = cursor /\ blockStartIdx' = -1
      /\ logischeZeile' = (IF cursor <= L THEN LineBreaks(b, cursor) + 1
                           ELSE IF HasLine(b, line) THEN line ELSE 1)
      /\ tmpDatei' = (IF loaded THEN RelName[f] ELSE tmpDatei)
      /\ gemerkte_stelle' = (IF back THEN 1 ELSE stelle)
      /\ gemerkte_zeile' = 1 /\ editorStartZeile' = 1
      /\ strayed' = (IF cursor > L THEN 1 ELSE 0)
      /\ UNCHANGED <<sd, editorClipboard>>
  BY DEF Open
<1>2. /\ sd[f] # Missing => sd[f] \in Seq(TextChars)
      /\ gemerkte_stelle \in 0..MaxSize /\ gemerkte_zeile \in 1..(MaxSize + 2 + plan.stray)
      /\ editorStartZeile \in Nat \ {0}
  <2>1. sd[f] \in Seq(TextChars) \union {Missing}
    BY DEF IInv, TypeOK
  <2>2. plan.lines \in Nat /\ editorStartZeile \in 1..plan.lines
    BY SizeAssumption DEF IInv, TypeOK
  <2>3. gemerkte_stelle \in 0..MaxSize /\ gemerkte_zeile \in 1..(MaxSize + 2 + plan.stray)
    BY DEF IInv, TypeOK
  <2> QED BY <2>1, <2>2, <2>3
<1>3. b \in Buffer /\ b[MaxSize - 1] = NUL /\ (L > 0 => loaded)
  <2>1. CASE loaded
    BY <1>2, <2>1, LoadIs
  <2>2. CASE ~ loaded
    BY <2>2, EmptyIs
  <2> QED BY <2>1, <2>2
<1> HIDE DEF b
<1>4. L \in 0..(MaxSize - 1)
  BY <1>3, TerminatedIs DEF Terminated, Index
<1>5. zeile \in Nat \ {0} /\ line \in Nat \ {0} /\ stelle \in 0..MaxSize /\ stelle \in {1, gemerkte_stelle}
  BY <1>2, Sizes
<1>6. forget => ~ back /\ line = editorStartZeile
  OBVIOUS
<1> HIDE DEF loaded, forget, stelle, zeile, line
<1>7. HasLine(b, line) => /\ StartOfLine(b, line) \in 0..L
                          /\ LineBreaks(b, StartOfLine(b, line)) + 1 = line
  BY <1>3, <1>5, StartOfLineIs
<1> HIDE DEF L
<1>8. cursor \in 0..MaxSize /\ (~ back => cursor \in 0..L)
  BY <1>4, <1>5, <1>7, Sizes
<1>9. ~ back /\ HasLine(b, line) => cursor = StartOfLine(b, line) /\ logischeZeile' = line
  <2>1. ASSUME ~ back, HasLine(b, line) PROVE cursor = StartOfLine(b, line) /\ logischeZeile' = line
    <3>1. cursor = StartOfLine(b, line) /\ cursor <= L
      BY <1>4, <1>7, <1>8, <2>1
    <3> HIDE DEF cursor, back
    <3>2. logischeZeile' = LineBreaks(b, cursor) + 1
      BY <1>1, <3>1
    <3> QED BY <1>7, <2>1, <3>1, <3>2
  <2> QED BY <2>1
<1> HIDE DEF back, cursor
<1>10. logischeZeile' \in 1..(MaxSize + 1)
  <2>1. LineBreaks(b, cursor) \in 0..MaxSize
    BY LineBreaksIs
  <2>2. HasLine(b, line) => line \in 1..(MaxSize + 1)
    <3>1. LineBreaks(b, Strlen(b, 0)) \in 0..MaxSize
      BY LineBreaksIs
    <3> QED BY <1>5, <3>1, Sizes DEF HasLine
  <2> QED BY <1>1, <2>1, <2>2, Sizes
<1>11. gemerkte_stelle' \in {1, gemerkte_stelle}
  BY <1>1, <1>5
<1>12. ASSUME forget
       PROVE  /\ HasLine(b, editorStartZeile) => cursor = StartOfLine(b, editorStartZeile)
                                                 /\ logischeZeile' = editorStartZeile
              /\ cursor <= L
  BY <1>4, <1>6, <1>8, <1>9, <1>12
<1>13. tmpDatei' \in {tmpDatei, RelName[f]}
  BY <1>1
<1>14. L > 0 => sd[f] # Missing /\ r
  BY <1>3 DEF loaded
<1>15. strayed' = (IF cursor > L THEN 1 ELSE 0)
  BY <1>1
<1>16. L = Strlen(b, 0) /\ (ForgetsPlace(f, sd[f] # Missing /\ r) => forget)
  BY DEF L, forget, loaded
<1> QED BY <1>1, <1>3, <1>4, <1>8, <1>10, <1>11, <1>12, <1>13, <1>14, <1>15, <1>16

\* Opening a file establishes the invariant anew.
LEMMA OpenKeeps ==
  ASSUME IInv, NEW f \in Names, NEW r \in BOOLEAN, Open(f, r), plan' = plan
  PROVE  IInv'
<1>0. plan.lines \in Nat \ {0} /\ plan.stray \in Nat
  BY SizeAssumption DEF IInv, TypeOK
<1>1. /\ status' = "editing" /\ filename' = f
      /\ editorBuffer' \in Buffer /\ editorBuffer'[MaxSize - 1] = NUL
      /\ textLength' = Strlen(editorBuffer', 0) /\ textLength' \in 0..(MaxSize - 1)
      /\ cursorIdx' \in 0..MaxSize /\ blockStartIdx' = -1
      /\ logischeZeile' \in 1..(MaxSize + 1)
      /\ tmpDatei' \in {tmpDatei, RelName[f]}
      /\ gemerkte_stelle' \in {1, gemerkte_stelle} /\ gemerkte_zeile' = 1 /\ editorStartZeile' = 1
      /\ strayed' = (IF cursorIdx' > textLength' THEN 1 ELSE 0)
      /\ sd' = sd /\ editorClipboard' = editorClipboard
  BY OpenIs
<1>2. TypeOK'
  <2>1. /\ textLength' \in -MaxSize..(MaxSize - 1) /\ blockStartIdx' \in -1..MaxSize
        /\ gemerkte_zeile' \in 1..(MaxSize + 2 + plan'.stray) /\ editorStartZeile' \in 1..plan'.lines
        /\ strayed' \in 0..(plan'.stray + 1)
    BY <1>0, <1>1, Sizes
  <2>3. logischeZeile' \in 1..(MaxSize + 1 + strayed')
    BY <1>1, Sizes
  <2>2. gemerkte_stelle' \in 0..MaxSize /\ tmpDatei' \in {RelName[g] : g \in Names} \union {NoName}
    BY <1>1, Sizes DEF IInv, TypeOK
  <2> QED BY <1>1, <2>1, <2>2, <2>3 DEF IInv, TypeOK
<1>3. BufferHoldsText' /\ OnlyStrayingCrashes'
  BY <1>1 DEF BufferHoldsText, OnlyStrayingCrashes
<1>4. LengthIsBounded'
  BY <1>1, Sizes DEF LengthIsBounded
<1> QED BY <1>2, <1>3, <1>4 DEF IInv

\* ESC and F1 close the session.
LEMMA LeaveKeeps ==
  ASSUME IInv, Leave, plan' = plan, sd' \in [Names -> Seq(TextChars) \union {Missing}]
  PROVE  IInv'
<1>1. /\ status' = "closed" /\ gemerkte_stelle' = cursorIdx /\ gemerkte_zeile' = logischeZeile
      /\ textLength' = 0 /\ cursorIdx' = 0 /\ blockStartIdx' = -1 /\ logischeZeile' = 1
      /\ UNCHANGED <<filename, editorBuffer, editorClipboard, tmpDatei, editorStartZeile, strayed>>
  BY DEF Leave
<1>2. TypeOK'
  <2>1. /\ plan.stray \in Nat /\ strayed \in 0..(plan.stray + 1)
        /\ logischeZeile \in 1..(MaxSize + 1 + strayed)
    BY SizeAssumption DEF IInv, TypeOK
  <2>2. gemerkte_zeile' \in 1..(MaxSize + 2 + plan'.stray) /\ logischeZeile' \in 1..(MaxSize + 1 + strayed')
    BY <1>1, <2>1, Sizes
  <2> QED BY <1>1, <2>2, Sizes DEF IInv, TypeOK
<1>3. BufferHoldsText' /\ OnlyStrayingCrashes' /\ LengthIsBounded'
  BY <1>1 DEF IInv, BufferHoldsText, OnlyStrayingCrashes, LengthIsBounded
<1> QED BY <1>2, <1>3 DEF IInv

\* Every step keeps the invariant.
LEMMA NextKeeps ==
  ASSUME IInv, [Next]_vars
  PROVE  IInv'
<1>0. plan.files \subseteq Names /\ plan.lines \in Nat \ {0} /\ sd \in [Names -> Seq(TextChars) \union {Missing}]
  BY SizeAssumption DEF IInv, TypeOK
<1>1. ASSUME NEW f \in plan.files, NEW r \in BOOLEAN, Open(f, r), plan' = plan PROVE IInv'
  <2>1. f \in Names
    BY <1>0
  <2> QED BY <1>1, <2>1, OpenKeeps
<1>2. ASSUME Keystroke, plan' = plan PROVE IInv'
  BY <1>2, KeystrokeKeeps
<1>3. ASSUME Esc, plan' = plan PROVE IInv'
  <2>1. Leave /\ sd' = sd
    BY <1>3 DEF Esc
  <2> QED BY <1>0, <1>3, <2>1, LeaveKeeps
<1>4. ASSUME Save, plan' = plan PROVE IInv'
  <2>1. Leave
    BY <1>4 DEF Save
  <2>2. PICK t \in {Missing, TextOf(editorBuffer)} : sd' = [sd EXCEPT ![filename] = t]
    BY <1>4 DEF Save
  <2>3. TextOf(editorBuffer) \in Seq(TextChars)
    BY Editing, TextOfIs
  <2>4. sd' \in [Names -> Seq(TextChars) \union {Missing}]
    BY <1>0, <2>2, <2>3
  <2> QED BY <1>4, <2>1, <2>4, LeaveKeeps
<1>5. ASSUME NEW f \in plan.files, NEW t \in FileTexts \union {Missing}, ProgramWrites(f, t), plan' = plan
      PROVE  IInv'
  <2>1. /\ status = "closed" /\ sd' = [sd EXCEPT ![f] = t]
        /\ UNCHANGED <<status, filename, editorBuffer, textLength, cursorIdx, blockStartIdx, logischeZeile,
                       editorClipboard, tmpDatei, editorStartZeile, gemerkte_stelle, gemerkte_zeile, strayed>>
    BY <1>5 DEF ProgramWrites, sessionVars, textVars, memoryVars
  <2>2. t \in Seq(TextChars) \union {Missing}
    BY FileAssumption
  <2>3. sd' \in [Names -> Seq(TextChars) \union {Missing}]
    BY <1>0, <2>1, <2>2
  <2>4. TypeOK'
    BY <1>5, <2>1, <2>3 DEF IInv, TypeOK
  <2>5. BufferHoldsText' /\ OnlyStrayingCrashes' /\ LengthIsBounded'
    BY <2>1 DEF IInv, BufferHoldsText, OnlyStrayingCrashes, LengthIsBounded
  <2> QED BY <2>4, <2>5 DEF IInv
<1>6. ASSUME NEW n \in 1..plan.lines, zeigeFehlerPopup(n), plan' = plan PROVE IInv'
  <2>1. /\ status = "closed" /\ editorStartZeile' = n
        /\ UNCHANGED <<sd, status, filename, editorBuffer, textLength, cursorIdx, blockStartIdx, logischeZeile,
                       editorClipboard, tmpDatei, gemerkte_stelle, gemerkte_zeile, strayed>>
    BY <1>6 DEF zeigeFehlerPopup, sessionVars, textVars
  <2>2. TypeOK'
    BY <1>6, <2>1 DEF IInv, TypeOK
  <2>3. BufferHoldsText' /\ OnlyStrayingCrashes' /\ LengthIsBounded'
    BY <2>1 DEF IInv, BufferHoldsText, OnlyStrayingCrashes, LengthIsBounded
  <2> QED BY <2>2, <2>3 DEF IInv
<1>7. CASE UNCHANGED vars
  <2>1. UNCHANGED <<plan, sd, status, filename, editorBuffer, textLength, cursorIdx, blockStartIdx, logischeZeile,
                    editorClipboard, tmpDatei, editorStartZeile, gemerkte_stelle, gemerkte_zeile, strayed>>
    BY <1>7 DEF vars, sessionVars, textVars, memoryVars
  <2>2. TypeOK'
    BY <2>1 DEF IInv, TypeOK
  <2>3. BufferHoldsText' /\ OnlyStrayingCrashes' /\ LengthIsBounded'
    BY <2>1 DEF IInv, BufferHoldsText, OnlyStrayingCrashes, LengthIsBounded
  <2> QED BY <2>2, <2>3 DEF IInv
<1> QED BY <1>1, <1>2, <1>3, <1>4, <1>5, <1>6, <1>7 DEF Next

\* The invariant holds in every session.
LEMMA Invariant == Spec => []IInv
BY InitHolds, NextKeeps, PTL DEF Spec

-----------------------------------------------------------------------------
(* Theorems.                                                               *)

\* Every variable of the editor keeps its type: the cursor and the mark never
\* leave the buffer, and textLength stays below its size.
THEOREM TypeCorrect == Spec => []TypeOK
<1>1. IInv => TypeOK
  BY DEF IInv
<1> QED BY <1>1, Invariant, PTL

\* The length checks of Enter, TAB, typing and F8 are enough for every size of
\* the buffer and of the clipboard: the NUL at its end is never overwritten, and
\* textLength is the length of the text unless the cursor or the mark left it.
THEOREM TextSafety == Spec => []BufferHoldsText
<1>1. IInv => BufferHoldsText
  BY DEF IInv
<1> QED BY <1>1, Invariant, PTL

\* Every memmove() of a session whose cursor and mark were in the text so far
\* stays inside the buffer.
THEOREM CrashesOnlyOutside == Spec => []OnlyStrayingCrashes
<1>1. IInv => OnlyStrayingCrashes
  BY DEF IInv
<1> QED BY <1>1, Invariant, PTL

\* A step that starts a session opens a file.
LEMMA StartsByOpen ==
  ASSUME Next, status = "closed", status' = "editing"
  PROVE  \E f \in plan.files, r \in BOOLEAN : Open(f, r)
<1>1. Keystroke => FALSE
  BY DEF Keystroke
<1>2. (Esc \/ Save) => FALSE
  BY DEF Esc, Save, Leave
<1>3. \A f, t : ProgramWrites(f, t) => FALSE
  BY DEF ProgramWrites, sessionVars
<1>4. \A n : zeigeFehlerPopup(n) => FALSE
  BY DEF zeigeFehlerPopup, sessionVars
<1> QED BY <1>1, <1>2, <1>3, <1>4 DEF Next

\* After an error message the editor starts at the beginning of the reported
\* line and shows its number, in every text that has that line and wherever the
\* last session ended.
THEOREM ErrorLineSafety == Spec => ErrorLineComesFirst
<1> DEFINE A == (status = "closed" /\ status' = "editing" /\ editorStartZeile > 1
                   /\ HasLine(editorBuffer', editorStartZeile)) =>
                     /\ cursorIdx' = StartOfLine(editorBuffer', editorStartZeile)
                     /\ logischeZeile' = editorStartZeile
<1>1. IInv /\ [Next]_vars => [A]_vars
  <2> SUFFICES ASSUME IInv, Next, status = "closed", status' = "editing", editorStartZeile > 1,
                      HasLine(editorBuffer', editorStartZeile)
               PROVE  /\ cursorIdx' = StartOfLine(editorBuffer', editorStartZeile)
                      /\ logischeZeile' = editorStartZeile
    OBVIOUS
  <2>1. PICK f \in plan.files, r \in BOOLEAN : Open(f, r)
    BY StartsByOpen
  <2>2. f \in Names
    BY SizeAssumption DEF IInv, TypeOK
  <2>3. ForgetsPlace(f, sd[f] # Missing /\ r)
    BY DEF ForgetsPlace
  <2> QED BY <2>1, <2>2, <2>3, OpenIs
<1>2. ErrorLineComesFirst <=> [][A]_vars
  BY DEF ErrorLineComesFirst
<1> HIDE DEF A
<1> QED BY <1>1, <1>2, Invariant, PTL DEF Spec

\* A file that can be read and has another name than the last one starts inside
\* its text.
THEOREM OtherFileSafety == Spec => OtherFileStartsInText
<1> DEFINE A == (status = "closed" /\ status' = "editing" /\ textLength' > 0
                   /\ tmpDatei # RelName[filename']) => cursorIdx' <= textLength'
<1>1. IInv /\ [Next]_vars => [A]_vars
  <2> SUFFICES ASSUME IInv, Next, status = "closed", status' = "editing", textLength' > 0,
                      tmpDatei # RelName[filename']
               PROVE  cursorIdx' <= textLength'
    OBVIOUS
  <2>1. PICK f \in plan.files, r \in BOOLEAN : Open(f, r)
    BY StartsByOpen
  <2>2. f \in Names
    BY SizeAssumption DEF IInv, TypeOK
  <2>3. filename' = f /\ sd[f] # Missing /\ r
    BY <2>1, <2>2, OpenIs
  <2>4. ForgetsPlace(f, sd[f] # Missing /\ r)
    BY <2>3 DEF ForgetsPlace
  <2> QED BY <2>1, <2>2, <2>4, OpenIs
<1>2. OtherFileStartsInText <=> [][A]_vars
  BY DEF OtherFileStartsInText
<1> HIDE DEF A
<1> QED BY <1>1, <1>2, Invariant, PTL DEF Spec

=============================================================================
