------------------------------- MODULE SumProofs -------------------------------
(***************************************************************************)
(* Sums over finite sets.  What the folds of the library compute is shown  *)
(* from their recursion: a smallest set for which a claim fails would have *)
(* a smaller one.                                                          *)
(***************************************************************************)
EXTENDS Integers, Functions, FiniteSetTheorems, TLAPS

\* The element a fold takes first.
First(s) == CHOOSE x \in s : TRUE

\* f gives the sum of w over every subset of S.
IsSum(f, w, S) ==
    f = [s \in SUBSET S |-> IF s = {} THEN 0 ELSE w[First(s)] + f[s \ {First(s)}]]

Sum(w, S) == (CHOOSE f : IsSum(f, w, S))[S]

-------------------------------------------------------------------------------
(* There are such sums.                                                      *)

\* Among subsets of a finite set there is a smallest.
LEMMA SmallestSubset ==
    ASSUME NEW S, IsFiniteSet(S), NEW B \in SUBSET (SUBSET S), B # {}
    PROVE  \E T \in B : \A U \in B : U \subseteq T => U = T
  <1>1. FiniteSubsetsOf(S) = SUBSET S
    BY FS_FiniteSubsetsOfFinite
  <1>2. IsWellFoundedOn(StrictSubsetOrdering(S), SUBSET S)
    BY <1>1, FS_StrictSubsetOrderingWellFounded
  <1>3. \E T \in B : \A U \in B : ~ (<<U, T>> \in StrictSubsetOrdering(S))
    BY <1>2, WFMin
  <1>4. PICK T \in B : \A U \in B : ~ (<<U, T>> \in StrictSubsetOrdering(S))
    BY <1>3
  <1>5. ASSUME NEW U \in B, U \subseteq T PROVE U = T
    <2>1. <<U, T>> \in (SUBSET S) \X (SUBSET S)
      OBVIOUS
    <2>2. ~ (<<U, T>>[1] \subseteq <<U, T>>[2] /\ <<U, T>>[1] # <<U, T>>[2])
      BY <1>4, <2>1 DEF StrictSubsetOrdering
    <2> QED BY <1>5, <2>2
  <1> QED BY <1>5

\* The first element of a set that is not empty is one of it.
LEMMA FirstIn == \A s : s # {} => First(s) \in s
  BY DEF First

\* Sums over one set agree with those over another.
LEMMA SumsAgree ==
    ASSUME NEW S, IsFiniteSet(S), NEW A \in SUBSET S, NEW B \in SUBSET S,
           NEW w, NEW f, NEW g, IsSum(f, w, A), IsSum(g, w, B),
           NEW s, s \subseteq A, s \subseteq B
    PROVE  f[s] = g[s]
  <1> DEFINE Bad == {t \in SUBSET S : t \subseteq A /\ t \subseteq B /\ f[t] # g[t]}
  <1> SUFFICES ASSUME Bad # {} PROVE FALSE
    OBVIOUS
  <1>1. PICK t \in Bad : \A r \in Bad : r \subseteq t => r = t
    <2>1. Bad \in SUBSET (SUBSET S)
      OBVIOUS
    <2> HIDE DEF Bad
    <2> QED BY <2>1, SmallestSubset
  <1>2. /\ f[t] = IF t = {} THEN 0 ELSE w[First(t)] + f[t \ {First(t)}]
        /\ g[t] = IF t = {} THEN 0 ELSE w[First(t)] + g[t \ {First(t)}]
    BY DEF IsSum
  <1>3. t # {}
    BY <1>2
  <1>4. First(t) \in t
    BY <1>3, FirstIn
  <1>5. t \ {First(t)} \notin Bad
    BY <1>1, <1>4
  <1>6. f[t \ {First(t)}] = g[t \ {First(t)}]
    BY <1>5
  <1> QED BY <1>2, <1>3, <1>6

\* There is a sum over every finite set.
LEMMA SumExists ==
    ASSUME NEW S, IsFiniteSet(S), NEW w
    PROVE  \E f : IsSum(f, w, S)
  <1> DEFINE Bad == {t \in SUBSET S : ~ \E f : IsSum(f, w, t)}
  <1> SUFFICES ASSUME Bad # {} PROVE FALSE
    OBVIOUS
  <1>1. PICK t \in Bad : \A r \in Bad : r \subseteq t => r = t
    <2>1. Bad \in SUBSET (SUBSET S)
      OBVIOUS
    <2> HIDE DEF Bad
    <2> QED BY <2>1, SmallestSubset
  <1> DEFINE F(s) == CHOOSE f : IsSum(f, w, s)
  <1>2. ASSUME NEW s \in SUBSET t, s # t PROVE IsSum(F(s), w, s)
    BY <1>1, <1>2
  <1> DEFINE rest == t \ {First(t)}
             h == [s \in SUBSET t |->
                      IF s # t THEN F(s)[s]
                      ELSE IF t = {} THEN 0 ELSE w[First(t)] + F(rest)[rest]]
  <1>3. IsSum(h, w, t)
    <2>0. h = [s \in SUBSET t |-> h[s]]
      OBVIOUS
    <2> SUFFICES ASSUME NEW s \in SUBSET t
                 PROVE  h[s] = IF s = {} THEN 0 ELSE w[First(s)] + h[s \ {First(s)}]
      <3> HIDE DEF h
      <3> QED BY <2>0 DEF IsSum
    <2>1. CASE s = {} /\ s # t
      <3>1. F(s)[s] = 0
        <4>1. IsSum(F(s), w, s)
          BY <1>2, <2>1
        <4> HIDE DEF F
        <4> QED BY <2>1, <4>1 DEF IsSum
      <3> QED BY <2>1, <3>1
    <2>2. CASE s # {} /\ s # t
      <3> DEFINE r == s \ {First(s)}
      <3>1. First(s) \in s
        BY <2>2, FirstIn
      <3>2. r \in SUBSET t /\ r # t /\ r \subseteq s
        BY <2>2, <3>1
      <3>3. F(s)[s] = w[First(s)] + F(s)[r]
        <4>1. IsSum(F(s), w, s)
          BY <1>2, <2>2
        <4> HIDE DEF F
        <4> QED BY <2>2, <4>1 DEF IsSum
      <3>4. F(s)[r] = F(r)[r]
        <4>1. IsSum(F(s), w, s) /\ IsSum(F(r), w, r)
          BY <1>2, <2>2, <3>2
        <4> HIDE DEF F, r
        <4> QED BY <3>2, <4>1, SumsAgree
      <3>5. h[s] = F(s)[s] /\ h[r] = F(r)[r]
        BY <2>2, <3>2
      <3> HIDE DEF F, h
      <3> QED BY <2>2, <3>3, <3>4, <3>5
    <2>3. CASE s = t
      <3>1. CASE t = {}
        BY <2>3, <3>1
      <3>2. CASE t # {}
        <4>1. First(t) \in t
          BY <3>2, FirstIn
        <4>2. rest \in SUBSET t /\ rest # t
          BY <4>1
        <4>3. h[rest] = F(rest)[rest] /\ h[t] = w[First(t)] + F(rest)[rest]
          BY <3>2, <4>2
        <4> HIDE DEF F, h
        <4> QED BY <2>3, <3>2, <4>3
      <3> QED BY <3>1, <3>2
    <2> QED BY <2>1, <2>2, <2>3
  <1> QED BY <1>1, <1>3

-------------------------------------------------------------------------------
(* What they are.                                                            *)

\* The sum over the empty set, and over a set but for its first element.
LEMMA SumFirst ==
    ASSUME NEW S, IsFiniteSet(S), NEW w
    PROVE  Sum(w, S) = IF S = {} THEN 0 ELSE w[First(S)] + Sum(w, S \ {First(S)})
  <1> DEFINE F(s) == CHOOSE f : IsSum(f, w, s)
             rest == S \ {First(S)}
  <1>1. IsSum(F(S), w, S)
    BY SumExists
  <1>2. IsSum(F(rest), w, rest)
    <2>1. IsFiniteSet(rest)
      BY FS_RemoveElement
    <2> HIDE DEF rest
    <2> QED BY <2>1, SumExists
  <1>3. Sum(w, S) = F(S)[S] /\ Sum(w, rest) = F(rest)[rest]
    BY DEF Sum
  <1> HIDE DEF F
  <1>4. F(S)[S] = IF S = {} THEN 0 ELSE w[First(S)] + F(S)[rest]
    BY <1>1 DEF IsSum
  <1>5. rest \subseteq S
    OBVIOUS
  <1>6. F(S)[rest] = F(rest)[rest]
    <2> HIDE DEF rest
    <2> QED BY <1>1, <1>2, <1>5, SumsAgree
  <1> QED BY <1>3, <1>4, <1>6

\* The sum of integers is one.
LEMMA SumInt ==
    ASSUME NEW S, IsFiniteSet(S), NEW w, \A x \in S : w[x] \in Int
    PROVE  Sum(w, S) \in Int
  <1> DEFINE Bad == {t \in SUBSET S : Sum(w, t) \notin Int}
  <1> SUFFICES ASSUME Bad # {} PROVE FALSE
    OBVIOUS
  <1>1. PICK t \in Bad : \A r \in Bad : r \subseteq t => r = t
    <2>1. Bad \in SUBSET (SUBSET S)
      OBVIOUS
    <2> HIDE DEF Bad
    <2> QED BY <2>1, SmallestSubset
  <1>2. IsFiniteSet(t)
    BY FS_Subset
  <1>3. Sum(w, t) = IF t = {} THEN 0 ELSE w[First(t)] + Sum(w, t \ {First(t)})
    BY <1>2, SumFirst
  <1>4. t # {}
    BY <1>3
  <1>5. First(t) \in t /\ w[First(t)] \in Int
    BY <1>4, FirstIn
  <1>6. Sum(w, t \ {First(t)}) \in Int
    BY <1>1, <1>5
  <1>7. Sum(w, t) \in Int
    BY <1>3, <1>4, <1>5, <1>6
  <1> QED BY <1>7

\* It does not matter which element is taken first.
LEMMA SumAny ==
    ASSUME NEW S, IsFiniteSet(S), NEW w, \A y \in S : w[y] \in Int, NEW x \in S
    PROVE  Sum(w, S) = w[x] + Sum(w, S \ {x})
  <1> DEFINE Right(t, z) == Sum(w, t) = w[z] + Sum(w, t \ {z})
             Bad == {t \in SUBSET S : \E z \in t : ~ Right(t, z)}
  <1> SUFFICES ASSUME Bad # {} PROVE FALSE
    OBVIOUS
  <1>1. PICK t \in Bad : \A r \in Bad : r \subseteq t => r = t
    <2>1. Bad \in SUBSET (SUBSET S)
      OBVIOUS
    <2> HIDE DEF Bad
    <2> QED BY <2>1, SmallestSubset
  <1>2. PICK z \in t : ~ Right(t, z)
    OBVIOUS
  <1> DEFINE y == First(t)
  <1>3. y \in t
    BY FirstIn
  <1>4. IsFiniteSet(t) /\ IsFiniteSet(t \ {y}) /\ IsFiniteSet((t \ {y}) \ {z})
    BY FS_Subset
  <1>5. Right(t, y)
    BY <1>3, <1>4, SumFirst
  <1>6. y # z
    BY <1>2, <1>5
  <1>7. t \ {y} \notin Bad /\ t \ {z} \notin Bad
    BY <1>1, <1>3
  <1>8. Right(t \ {y}, z) /\ Right(t \ {z}, y)
    <2>1. t \ {y} \in SUBSET S /\ z \in t \ {y} /\ t \ {z} \in SUBSET S /\ y \in t \ {z}
      BY <1>3, <1>6
    <2> QED BY <1>7, <2>1
  <1>9. (t \ {y}) \ {z} = (t \ {z}) \ {y}
    OBVIOUS
  <1>10. /\ w[y] \in Int /\ w[z] \in Int
         /\ Sum(w, (t \ {y}) \ {z}) \in Int
    BY <1>3, <1>4, SumInt
  <1> HIDE DEF y
  <1>11. Sum(w, t) = w[y] + (w[z] + Sum(w, (t \ {y}) \ {z}))
    BY <1>5, <1>8
  <1>12. Sum(w, t \ {z}) = w[y] + Sum(w, (t \ {y}) \ {z})
    BY <1>8, <1>9
  <1>13. Sum(w, t) = w[z] + Sum(w, t \ {z})
    BY <1>10, <1>11, <1>12
  <1> QED BY <1>2, <1>13

\* The sum over nothing.
LEMMA SumNone == \A w : Sum(w, {}) = 0
  BY FS_EmptySet, SumFirst

\* Sums of sums.
LEMMA SumPlus ==
    ASSUME NEW S, IsFiniteSet(S), NEW w, NEW y, NEW z,
           \A x \in S : y[x] \in Int /\ z[x] \in Int /\ w[x] = y[x] + z[x]
    PROVE  Sum(w, S) = Sum(y, S) + Sum(z, S)
  <1> DEFINE Bad == {t \in SUBSET S : Sum(w, t) # Sum(y, t) + Sum(z, t)}
  <1> SUFFICES ASSUME Bad # {} PROVE FALSE
    OBVIOUS
  <1>1. PICK t \in Bad : \A r \in Bad : r \subseteq t => r = t
    <2>1. Bad \in SUBSET (SUBSET S)
      OBVIOUS
    <2> HIDE DEF Bad
    <2> QED BY <2>1, SmallestSubset
  <1>2. t # {}
    <2>1. Sum(w, {}) = Sum(y, {}) + Sum(z, {})
      BY SumNone
    <2> QED BY <2>1
  <1> DEFINE a == First(t)
             r == t \ {a}
  <1>3. a \in t /\ a \in S
    BY <1>2, FirstIn
  <1>4. IsFiniteSet(t) /\ IsFiniteSet(r)
    BY FS_Subset
  <1>5. r \notin Bad /\ r \in SUBSET S
    BY <1>1, <1>3
  <1>6. Sum(w, r) = Sum(y, r) + Sum(z, r)
    BY <1>5
  <1>7. /\ Sum(w, t) = w[a] + Sum(w, r)
        /\ Sum(y, t) = y[a] + Sum(y, r)
        /\ Sum(z, t) = z[a] + Sum(z, r)
    BY <1>2, <1>4, SumFirst
  <1>8. Sum(y, r) \in Int /\ Sum(z, r) \in Int
    BY <1>4, <1>5, SumInt
  <1>9. y[a] \in Int /\ z[a] \in Int /\ w[a] = y[a] + z[a]
    BY <1>3
  <1> HIDE DEF a, r
  <1>10. Sum(w, t) = Sum(y, t) + Sum(z, t)
    BY <1>6, <1>7, <1>8, <1>9
  <1> QED BY <1>10

\* Larger terms, larger sum.
LEMMA SumAtMost ==
    ASSUME NEW S, IsFiniteSet(S), NEW w, NEW y,
           \A x \in S : w[x] \in Int /\ y[x] \in Int /\ w[x] <= y[x]
    PROVE  Sum(w, S) <= Sum(y, S)
  <1> DEFINE Bad == {t \in SUBSET S : ~ (Sum(w, t) <= Sum(y, t))}
  <1> SUFFICES ASSUME Bad # {} PROVE FALSE
    OBVIOUS
  <1>1. PICK t \in Bad : \A r \in Bad : r \subseteq t => r = t
    <2>1. Bad \in SUBSET (SUBSET S)
      OBVIOUS
    <2> HIDE DEF Bad
    <2> QED BY <2>1, SmallestSubset
  <1>2. t # {}
    BY SumNone
  <1> DEFINE a == First(t)
             r == t \ {a}
  <1>3. a \in t /\ a \in S
    BY <1>2, FirstIn
  <1>4. IsFiniteSet(t) /\ IsFiniteSet(r)
    BY FS_Subset
  <1>5. r \notin Bad /\ r \in SUBSET S
    BY <1>1, <1>3
  <1>6. Sum(w, r) <= Sum(y, r)
    BY <1>5
  <1>7. Sum(w, t) = w[a] + Sum(w, r) /\ Sum(y, t) = y[a] + Sum(y, r)
    BY <1>2, <1>4, SumFirst
  <1>8. Sum(w, r) \in Int /\ Sum(y, r) \in Int
    BY <1>4, <1>5, SumInt
  <1>9. w[a] \in Int /\ y[a] \in Int /\ w[a] <= y[a]
    BY <1>3
  <1> HIDE DEF a, r
  <1>10. Sum(w, t) <= Sum(y, t)
    BY <1>6, <1>7, <1>8, <1>9
  <1> QED BY <1>10

\* Only the terms matter.
LEMMA SumSame ==
    ASSUME NEW S, IsFiniteSet(S), NEW w, NEW y, \A x \in S : w[x] \in Int /\ w[x] = y[x]
    PROVE  Sum(w, S) = Sum(y, S)
  <1>1. Sum(w, S) <= Sum(y, S) /\ Sum(y, S) <= Sum(w, S)
    BY SumAtMost
  <1>2. Sum(w, S) \in Int /\ Sum(y, S) \in Int
    BY SumInt
  <1> QED BY <1>1, <1>2

\* Terms that are b for some elements and 0 for the others.
LEMMA SumTimes ==
    ASSUME NEW S, IsFiniteSet(S), NEW w, NEW b \in Int, NEW A \in SUBSET S,
           \A x \in S : w[x] = IF x \in A THEN b ELSE 0
    PROVE  Sum(w, S) = b * Cardinality(A)
  <1> DEFINE Bad == {t \in SUBSET S : Sum(w, t) # b * Cardinality(A \intersect t)}
  <1> SUFFICES ASSUME Bad # {} PROVE FALSE
    <2>1. S \notin Bad /\ A \intersect S = A
      OBVIOUS
    <2> QED BY <2>1
  <1>1. PICK t \in Bad : \A r \in Bad : r \subseteq t => r = t
    <2>1. Bad \in SUBSET (SUBSET S)
      OBVIOUS
    <2> HIDE DEF Bad
    <2> QED BY <2>1, SmallestSubset
  <1>2. t # {}
    <2>1. A \intersect {} = {} /\ Cardinality({}) = 0 /\ b * 0 = 0
      BY FS_EmptySet
    <2> QED BY <2>1, SumNone
  <1> DEFINE a == First(t)
             r == t \ {a}
  <1>3. a \in t /\ a \in S
    BY <1>2, FirstIn
  <1>4. IsFiniteSet(t) /\ IsFiniteSet(A \intersect t) /\ IsFiniteSet(A \intersect r)
    BY FS_Subset
  <1>5. r \notin Bad /\ r \in SUBSET S
    BY <1>1, <1>3
  <1>6. Sum(w, r) = b * Cardinality(A \intersect r)
    BY <1>5
  <1>7. Sum(w, t) = w[a] + Sum(w, r)
    BY <1>2, <1>4, SumFirst
  <1>8. Cardinality(A \intersect r) \in Nat
    BY <1>4, FS_CardinalityType
  <1>9. CASE a \in A
    <2>1. A \intersect t = (A \intersect r) \union {a} /\ a \notin A \intersect r
      BY <1>3, <1>9
    <2>2. Cardinality(A \intersect t) = Cardinality(A \intersect r) + 1
      BY <1>4, <2>1, FS_AddElement
    <2>3. w[a] = b
      BY <1>3, <1>9
    <2> HIDE DEF a, r
    <2>4. \A k \in Nat : b * (k + 1) = b + b * k
      OBVIOUS
    <2>5. Sum(w, t) = b * Cardinality(A \intersect t)
      BY <1>6, <1>7, <1>8, <2>2, <2>3, <2>4
    <2> QED BY <2>5
  <1>10. CASE a \notin A
    <2>1. A \intersect t = A \intersect r
      BY <1>3, <1>10
    <2>2. w[a] = 0 /\ b * Cardinality(A \intersect r) \in Int
      BY <1>3, <1>8, <1>10
    <2> HIDE DEF a, r
    <2>3. Sum(w, r) \in Int /\ Sum(w, t) = Sum(w, r)
      BY <1>6, <1>7, <2>2
    <2>4. Sum(w, t) = b * Cardinality(A \intersect t)
      BY <1>6, <2>1, <2>3
    <2> QED BY <2>4
  <1> QED BY <1>9, <1>10

\* Summed in another order: the terms of S are those of T, one for one.
LEMMA SumRenamed ==
    ASSUME NEW S, IsFiniteSet(S), NEW T, NEW w, NEW y, NEW m \in [S -> T],
           \A a, b \in S : m[a] = m[b] => a = b,
           \A t \in T : \E a \in S : m[a] = t,
           \A a \in S : y[m[a]] \in Int /\ w[a] = y[m[a]]
    PROVE  Sum(w, S) = Sum(y, T)
  <1> DEFINE Image(t) == {m[a] : a \in t}
             Bad == {t \in SUBSET S : Sum(w, t) # Sum(y, Image(t))}
  <1> SUFFICES ASSUME Bad # {} PROVE FALSE
    <2>1. Image(S) = T
      OBVIOUS
    <2>2. S \notin Bad
      OBVIOUS
    <2>3. Sum(w, S) = Sum(y, Image(S))
      BY <2>2
    <2> QED BY <2>1, <2>3
  <1>1. PICK t \in Bad : \A r \in Bad : r \subseteq t => r = t
    <2>1. Bad \in SUBSET (SUBSET S)
      OBVIOUS
    <2> HIDE DEF Bad
    <2> QED BY <2>1, SmallestSubset
  <1>2. t # {}
    <2>1. Image({}) = {}
      OBVIOUS
    <2> QED BY <2>1, SumNone
  <1> DEFINE a == First(t)
             r == t \ {a}
  <1>3. a \in t /\ a \in S
    BY <1>2, FirstIn
  <1>4. IsFiniteSet(t)
    BY FS_Subset
  <1>5. r \notin Bad /\ r \in SUBSET S
    BY <1>1, <1>3
  <1>6. Sum(w, r) = Sum(y, Image(r))
    BY <1>5
  <1>7. Sum(w, t) = w[a] + Sum(w, r)
    BY <1>2, <1>4, SumFirst
  <1>8. IsFiniteSet(Image(t))
    <2> DEFINE q == [x \in t |-> m[x]]
    <2>1. q \in Surjection(t, Image(t))
      BY DEF Surjection
    <2> HIDE DEF q, Image
    <2> QED BY <1>4, <2>1, FS_Surjection
  <1>9. m[a] \in Image(t) /\ Image(t) \ {m[a]} = Image(r)
    BY <1>3
  <1>10. \A x \in Image(t) : y[x] \in Int
    OBVIOUS
  <1>11. Sum(y, Image(t)) = y[m[a]] + Sum(y, Image(t) \ {m[a]})
    <2> HIDE DEF Image, a
    <2> QED BY <1>8, <1>9, <1>10, SumAny
  <1>12. w[a] = y[m[a]]
    BY <1>3
  <1>13. Sum(w, t) = Sum(y, Image(t))
    <2> HIDE DEF Image, a, r
    <2> QED BY <1>6, <1>7, <1>9, <1>11, <1>12
  <1> QED BY <1>13

\* Terms that are 0 add nothing.
LEMMA SumSparse ==
    ASSUME NEW S, IsFiniteSet(S), NEW A \in SUBSET S, NEW w,
           \A x \in S : w[x] \in Int, \A x \in S \ A : w[x] = 0
    PROVE  Sum(w, S) = Sum(w, A)
  <1> DEFINE Bad == {t \in SUBSET S : A \subseteq t /\ Sum(w, t) # Sum(w, A)}
  <1> SUFFICES ASSUME Bad # {} PROVE FALSE
    <2>1. S \notin Bad
      OBVIOUS
    <2> QED BY <2>1
  <1>1. PICK t \in Bad : \A r \in Bad : r \subseteq t => r = t
    <2>1. Bad \in SUBSET (SUBSET S)
      OBVIOUS
    <2> HIDE DEF Bad
    <2> QED BY <2>1, SmallestSubset
  <1>2. PICK a \in t : a \notin A
    <2>1. A \subseteq t /\ t # A
      BY <1>1
    <2> QED BY <2>1
  <1>3. IsFiniteSet(t)
    BY FS_Subset
  <1>4. Sum(w, t) = w[a] + Sum(w, t \ {a})
    BY <1>3, SumAny
  <1>5. t \ {a} \notin Bad
    BY <1>1
  <1>6. Sum(w, t \ {a}) = Sum(w, A)
    BY <1>2, <1>5
  <1>7. w[a] = 0 /\ Sum(w, A) \in Int
    BY <1>2, FS_Subset, SumInt
  <1> QED BY <1>1, <1>4, <1>6, <1>7

-------------------------------------------------------------------------------
(* The library's sums.                                                       *)

\* SumFunction, a fold, is the sum over the function's domain.
LEMMA SumOfFunction == \A w : SumFunction(w) = Sum(w, DOMAIN w)
  BY DEF SumFunction, SumFunctionOnSet, FoldFunctionOnSet, MapThenFoldSet, Sum, IsSum, First
===============================================================================
