----------------------------- MODULE FoldProofs ------------------------------
(***************************************************************************)
(* Definitions by recursion over numbers and finite sets: that there is a  *)
(* function that satisfies the recursion, that there is one only, and what *)
(* follows for the sums of module Functions. Every induction is the choice *)
(* of a smallest counterexample.                                           *)
(***************************************************************************)
EXTENDS Integers, Functions, TLAPS, FiniteSetTheorems, WellFoundedInduction

\* A set of numbers with an element has a smallest one.
LEMMA Smallest ==
  ASSUME NEW S, S \subseteq Nat, S # {}
  PROVE  \E m \in S : m \in Nat /\ \A k \in S : m <= k
<1>1. PICK m \in S : \A k \in S : ~(<<k, m>> \in OpToRel(<, Nat))
  BY NatLessThanWellFounded, WFMin
<1>2. \A k \in S : ~(k < m)
  BY <1>1 DEF OpToRel
<1>3. m \in Nat /\ \A k \in S : m <= k
  BY <1>2
<1>. QED
  BY <1>3

\* f starts at a and moves by g, up to n.
Iterates(f, n, a, g) ==
  /\ f[0] = a
  /\ \A k \in 1..n : f[k] = g[<<k, f[k - 1]>>]

\* Recursion over the numbers up to n.
LEMMA IterationExists ==
  ASSUME NEW n \in Nat, NEW S, NEW a \in S, NEW g \in [(1..n) \X S -> S]
  PROVE  \E f \in [0..n -> S] : Iterates(f, n, a, g)
<1>. DEFINE Missing == {m \in 0..n : ~\E f \in [0..m -> S] : Iterates(f, m, a, g)}
<1>. SUFFICES ASSUME Missing # {} PROVE FALSE
  OBVIOUS
<1>1. PICK m \in Missing : m \in Nat /\ \A k \in Missing : m <= k
  <2>1. Missing \subseteq Nat
    OBVIOUS
  <2>. HIDE DEF Missing
  <2>. QED
    BY <2>1, Smallest
<1>2. CASE m = 0
  <2>. DEFINE f == [k \in 0..0 |-> a]
  <2>1. f \in [0..0 -> S] /\ Iterates(f, 0, a, g)
    BY DEF Iterates
  <2>. QED
    BY <1>2, <2>1
<1>3. CASE m # 0
  <2>1. m - 1 \in 0..n /\ m \in 1..n /\ ~(m <= m - 1)
    BY <1>3
  <2>2. m - 1 \notin Missing
    BY <1>1, <2>1
  <2>3. PICK h \in [0..(m - 1) -> S] : Iterates(h, m - 1, a, g)
    BY <2>1, <2>2
  <2>. DEFINE f == [k \in 0..m |-> IF k = m THEN g[<<m, h[m - 1]>>] ELSE h[k]]
  <2>4. h[m - 1] \in S /\ g[<<m, h[m - 1]>>] \in S
    BY <2>1, <2>3
  <2>5. f \in [0..m -> S]
    BY <2>1, <2>3, <2>4
  <2>6. Iterates(f, m, a, g)
    <3>1. f[0] = a
      BY <2>1, <2>3 DEF Iterates
    <3>2. ASSUME NEW k \in 1..m PROVE f[k] = g[<<k, f[k - 1]>>]
      <4>1. CASE k = m
        <5>1. f[m] = g[<<m, h[m - 1]>>] /\ f[m - 1] = h[m - 1]
          BY <2>1
        <5>. QED
          BY <4>1, <5>1
      <4>2. CASE k # m
        <5>1. k \in 1..(m - 1) /\ f[k] = h[k] /\ f[k - 1] = h[k - 1]
          BY <2>1, <4>2
        <5>. QED
          BY <2>3, <5>1 DEF Iterates
      <4>. QED
        BY <4>1, <4>2
    <3>. QED
      BY <3>1, <3>2 DEF Iterates
  <2>. QED
    BY <2>5, <2>6
<1>. QED
  BY <1>2, <1>3

\* What moves by g from a is determined by g and a.
LEMMA IterationUnique ==
  ASSUME NEW n \in Nat, NEW a, NEW g, NEW f, NEW h,
         Iterates(f, n, a, g), Iterates(h, n, a, g)
  PROVE  \A k \in 0..n : f[k] = h[k]
<1>. DEFINE Differ == {k \in 0..n : f[k] # h[k]}
<1>. SUFFICES ASSUME Differ # {} PROVE FALSE
  OBVIOUS
<1>1. PICK m \in Differ : m \in Nat /\ \A k \in Differ : m <= k
  <2>1. Differ \subseteq Nat
    OBVIOUS
  <2>. HIDE DEF Differ
  <2>. QED
    BY <2>1, Smallest
<1>2. m # 0
  BY DEF Iterates
<1>3. m \in 1..n /\ m - 1 \in 0..n /\ ~(m <= m - 1)
  BY <1>2
<1>4. f[m - 1] = h[m - 1]
  BY <1>1, <1>3
<1>5. f[m] = g[<<m, f[m - 1]>>] /\ h[m] = g[<<m, h[m - 1]>>]
  BY <1>3 DEF Iterates
<1>. QED
  BY <1>4, <1>5

\* f moves by g as long as it is in S.
MovesWithin(f, n, S, g) ==
  \A k \in 1..n : f[k - 1] \in S => f[k] = g[<<k, f[k - 1]>>]

\* What moves by g within S stays in S.
LEMMA IterationStays ==
  ASSUME NEW n \in Nat, NEW S, NEW a \in S, NEW g \in [(1..n) \X S -> S], NEW f, f[0] = a,
         MovesWithin(f, n, S, g)
  PROVE  \A k \in 0..n : f[k] \in S
<1>. DEFINE Out == {k \in 0..n : f[k] \notin S}
<1>. SUFFICES ASSUME Out # {} PROVE FALSE
  OBVIOUS
<1>1. PICK m \in Out : m \in Nat /\ \A k \in Out : m <= k
  <2>1. Out \subseteq Nat
    OBVIOUS
  <2>. HIDE DEF Out
  <2>. QED
    BY <2>1, Smallest
<1>2. m # 0
  OBVIOUS
<1>3. m \in 1..n /\ m - 1 \in 0..n /\ ~(m <= m - 1)
  BY <1>2
<1>4. f[m - 1] \in S
  BY <1>1, <1>3
<1>5. f[m] = g[<<m, f[m - 1]>>] /\ <<m, f[m - 1]>> \in (1..n) \X S
  BY <1>3, <1>4 DEF MovesWithin
<1>. QED
  BY <1>5

(***************************************************************************)
(* Sums over finite sets                                                   *)
(***************************************************************************)

\* The element that the sum over s takes out first.
Some(s) == CHOOSE x \in s : TRUE

\* h sums f over every subset of S, taking out one element after the other.
Sums(h, f, S) ==
  h = [s \in SUBSET S |-> IF s = {} THEN 0 ELSE f[Some(s)] + h[s \ {Some(s)}]]

\* SumFunctionOnSet is defined by such a function.
LEMMA SumUnfolds ==
  ASSUME NEW f, NEW S, NEW h, Sums(h, f, S)
  PROVE  \E g : Sums(g, f, S) /\ SumFunctionOnSet(f, S) = g[S]
<1>1. SumFunctionOnSet(f, S) = (CHOOSE g : Sums(g, f, S))[S]
  BY DEF SumFunctionOnSet, FoldFunctionOnSet, MapThenFoldSet, Sums, Some
<1>. QED
  BY <1>1

\* The element taken out is one of the set, and leaves a smaller set.
LEMMA SomeTaken ==
  ASSUME NEW s, IsFiniteSet(s), s # {}
  PROVE  /\ Some(s) \in s /\ IsFiniteSet(s \ {Some(s)})
         /\ Cardinality(s) \in Nat \ {0}
         /\ Cardinality(s \ {Some(s)}) = Cardinality(s) - 1
<1>1. Some(s) \in s
  BY DEF Some
<1>2. Cardinality(s) \in Nat /\ Cardinality(s) # 0
  BY FS_CardinalityType, FS_EmptySet
<1>. QED
  BY <1>1, <1>2, FS_RemoveElement

\* A finite set has a sum.
LEMMA SumsExist ==
  ASSUME NEW S, IsFiniteSet(S), NEW f, \A x \in S : f[x] \in Int
  PROVE  \E h \in [SUBSET S -> Int] : Sums(h, f, S)
<1>. DEFINE F == [SUBSET S -> Int]
           n == Cardinality(S)
           zero == [s \in SUBSET S |-> 0]
           Next(p) == [s \in SUBSET S |->
                         IF s = {} THEN 0 ELSE f[Some(s)] + p[s \ {Some(s)}]]
           g == [p \in (1..n) \X F |-> Next(p[2])]
<1>1. n \in Nat
  BY FS_CardinalityType
<1>2. zero \in F
  OBVIOUS
<1>3. \A s \in SUBSET S : s # {} => Some(s) \in S /\ s \ {Some(s)} \in SUBSET S
  BY DEF Some
<1>4. ASSUME NEW p \in F
      PROVE  Next(p) \in F
  <2>1. \A s \in SUBSET S : s # {} => f[Some(s)] \in Int /\ p[s \ {Some(s)}] \in Int
    BY <1>3
  <2>. QED
    BY <2>1
<1>5. g \in [(1..n) \X F -> F]
  <2>. HIDE DEF Next, F
  <2>. QED
    BY <1>4
<1>6. PICK it \in [0..n -> F] : Iterates(it, n, zero, g)
  <2>. HIDE DEF zero, F, g, n
  <2>. QED
    BY <1>1, <1>2, <1>5, IterationExists
<1>7. it[0] = zero /\ \A k \in 1..n : it[k] = Next(it[k - 1])
  <2>. HIDE DEF Next, F, zero, n
  <2>1. \A k \in 1..n : it[k - 1] \in F
    BY <1>1
  <2>. QED
    BY <1>6, <2>1 DEF Iterates
<1>8. ASSUME NEW s \in SUBSET S
      PROVE  IsFiniteSet(s) /\ Cardinality(s) \in 0..n
  BY <1>1, FS_Subset, FS_CardinalityType
<1>. DEFINE h == [s \in SUBSET S |-> it[Cardinality(s)][s]]
<1>9. h \in F
  BY <1>6, <1>8
<1>10. h[{}] = 0
  BY <1>7, FS_EmptySet
<1>11. ASSUME NEW s \in SUBSET S, s # {}
       PROVE  h[s] = f[Some(s)] + h[s \ {Some(s)}]
  <2>. DEFINE r == s \ {Some(s)}
              k == Cardinality(s)
  <2>1. k \in 1..n /\ Cardinality(r) = k - 1
    BY <1>1, <1>8, <1>11, SomeTaken
  <2>2. r \in SUBSET S
    OBVIOUS
  <2>3. h[s] = it[k][s] /\ h[r] = it[k - 1][r]
    BY <2>1, <2>2
  <2>4. it[k] = Next(it[k - 1])
    BY <1>7, <2>1
  <2>5. it[k][s] = f[Some(s)] + it[k - 1][r]
    BY <1>11, <2>4
  <2>. QED
    BY <2>3, <2>5
<1>. HIDE DEF h
<1>12. Sums(h, f, S)
  BY <1>9, <1>10, <1>11 DEF Sums
<1>. QED
  BY <1>9, <1>12

\* However a set is embedded, its sum is the same.
LEMMA SumsAgree ==
  ASSUME NEW S, NEW T, NEW f, NEW h, NEW g, Sums(h, f, S), Sums(g, f, T),
         NEW s \in SUBSET S, s \in SUBSET T, IsFiniteSet(s)
  PROVE  h[s] = g[s]
<1>. DEFINE Differ == {t \in SUBSET s : h[t] # g[t]}
           Sizes == {Cardinality(t) : t \in Differ}
<1>1. \A t \in SUBSET s : IsFiniteSet(t) /\ Cardinality(t) \in Nat
  BY FS_Subset, FS_CardinalityType
<1>2. SUFFICES ASSUME Differ # {} PROVE FALSE
  OBVIOUS
<1>3. PICK m \in Sizes : \A k \in Sizes : m <= k
  <2>1. Sizes \subseteq Nat /\ Sizes # {}
    BY <1>1, <1>2
  <2>. HIDE DEF Sizes
  <2>. QED
    BY <2>1, Smallest
<1>4. PICK t \in Differ : Cardinality(t) = m
  OBVIOUS
<1>5. h[{}] = 0 /\ g[{}] = 0
  BY DEF Sums
<1>6. t \in SUBSET s /\ IsFiniteSet(t) /\ t # {}
  BY <1>1, <1>5
<1>. DEFINE r == t \ {Some(t)}
<1>7. r \in SUBSET s /\ Cardinality(r) = m - 1 /\ m \in Nat
  BY <1>4, <1>6, SomeTaken
<1>8. h[r] = g[r]
  <2>1. ~(m <= m - 1)
    BY <1>7
  <2>2. Cardinality(r) \notin Sizes
    BY <1>3, <1>7, <2>1
  <2>. QED
    BY <1>7, <2>2
<1>9. h[t] = f[Some(t)] + h[r] /\ g[t] = f[Some(t)] + g[r]
  <2>1. t \in SUBSET S /\ t \in SUBSET T
    BY <1>6
  <2>. QED
    BY <1>6, <2>1 DEF Sums
<1>. QED
  BY <1>8, <1>9

\* The sum over a set takes one element out and sums the others.
LEMMA SumTakesSome ==
  ASSUME NEW S, IsFiniteSet(S), NEW f, \A x \in S : f[x] \in Int
  PROVE  /\ SumFunctionOnSet(f, S) \in Int
         /\ S = {} => SumFunctionOnSet(f, S) = 0
         /\ S # {} => SumFunctionOnSet(f, S)
                        = f[Some(S)] + SumFunctionOnSet(f, S \ {Some(S)})
<1>1. PICK h \in [SUBSET S -> Int] : Sums(h, f, S)
  BY SumsExist
<1>2. ASSUME NEW T \in SUBSET S
      PROVE  SumFunctionOnSet(f, T) = h[T]
  <2>1. IsFiniteSet(T) /\ \A x \in T : f[x] \in Int
    BY FS_Subset
  <2>2. PICK g1 \in [SUBSET T -> Int] : Sums(g1, f, T)
    BY <2>1, SumsExist
  <2>3. PICK g : Sums(g, f, T) /\ SumFunctionOnSet(f, T) = g[T]
    BY <2>2, SumUnfolds
  <2>4. g[T] = h[T]
    BY <1>1, <2>1, <2>3, SumsAgree
  <2>. QED
    BY <2>3, <2>4
<1>3. S = {} => h[S] = 0
  BY <1>1 DEF Sums
<1>4. S # {} => h[S] = f[Some(S)] + h[S \ {Some(S)}]
  BY <1>1 DEF Sums
<1>. QED
  BY <1>1, <1>2, <1>3, <1>4

\* The order in which elements are taken out makes no difference.
LEMMA SumTakes ==
  ASSUME NEW S, IsFiniteSet(S), NEW f, \A x \in S : f[x] \in Int, NEW e \in S
  PROVE  SumFunctionOnSet(f, S) = f[e] + SumFunctionOnSet(f, S \ {e})
<1>. DEFINE Wrong(T) == \E x \in T : SumFunctionOnSet(f, T)
                                       # f[x] + SumFunctionOnSet(f, T \ {x})
           Sizes == {Cardinality(T) : T \in {U \in SUBSET S : Wrong(U)}}
<1>1. SUFFICES ASSUME Wrong(S) PROVE FALSE
  OBVIOUS
<1>2. \A T \in SUBSET S : IsFiniteSet(T) /\ Cardinality(T) \in Nat
  BY FS_Subset, FS_CardinalityType
<1>3. PICK m \in Sizes : \A k \in Sizes : m <= k
  <2>1. Sizes \subseteq Nat /\ Sizes # {}
    BY <1>1, <1>2
  <2>. HIDE DEF Sizes
  <2>. QED
    BY <2>1, Smallest
<1>4. PICK T \in SUBSET S : Wrong(T) /\ Cardinality(T) = m
  OBVIOUS
<1>5. PICK x \in T : SumFunctionOnSet(f, T) # f[x] + SumFunctionOnSet(f, T \ {x})
  BY <1>4
<1>. DEFINE c == Some(T)
           r == T \ {c}
           q == T \ {x}
           rq == T \ {c, x}
<1>6. IsFiniteSet(T) /\ c \in T /\ m \in Nat /\ T # {}
  BY <1>2, <1>4, <1>5 DEF Some
<1>7. SumFunctionOnSet(f, T) = f[c] + SumFunctionOnSet(f, r)
  BY <1>6, SumTakesSome
<1>8. c # x
  BY <1>5, <1>7
<1>9. Cardinality(r) = m - 1 /\ Cardinality(q) = m - 1
  BY <1>4, <1>6, FS_RemoveElement
<1>10. ~Wrong(r) /\ ~Wrong(q)
  <2>1. ~(m <= m - 1) /\ r \in SUBSET S /\ q \in SUBSET S
    BY <1>6
  <2>2. m - 1 \notin Sizes
    BY <1>3, <2>1
  <2>. HIDE DEF Wrong, r, q
  <2>. QED
    BY <1>9, <2>1, <2>2
<1>11. SumFunctionOnSet(f, r) = f[x] + SumFunctionOnSet(f, rq)
  <2>1. x \in r /\ r \ {x} = rq
    BY <1>8
  <2>. HIDE DEF r, rq
  <2>. QED
    BY <1>10, <2>1
<1>12. SumFunctionOnSet(f, q) = f[c] + SumFunctionOnSet(f, rq)
  <2>1. c \in q /\ q \ {c} = rq
    BY <1>6, <1>8
  <2>. HIDE DEF q, rq
  <2>. QED
    BY <1>10, <2>1
<1>13. SumFunctionOnSet(f, rq) \in Int /\ f[c] \in Int /\ f[x] \in Int
  BY <1>2, <1>6, SumTakesSome
<1>14. SumFunctionOnSet(f, T) # f[x] + SumFunctionOnSet(f, q)
  BY <1>5
<1>. HIDE DEF c, q, r, rq
<1>. QED
  BY <1>7, <1>11, <1>12, <1>13, <1>14

\* What one more element adds to a sum.
LEMMA SumAdds ==
  ASSUME NEW S, IsFiniteSet(S), NEW f, NEW e, e \notin S,
         \A x \in S \cup {e} : f[x] \in Int
  PROVE  /\ IsFiniteSet(S \cup {e})
         /\ SumFunctionOnSet(f, S) \in Int
         /\ SumFunctionOnSet(f, S \cup {e}) = f[e] + SumFunctionOnSet(f, S)
<1>1. IsFiniteSet(S \cup {e}) /\ (S \cup {e}) \ {e} = S
  BY FS_AddElement
<1>2. SumFunctionOnSet(f, S \cup {e}) = f[e] + SumFunctionOnSet(f, (S \cup {e}) \ {e})
  BY <1>1, SumTakes
<1>. QED
  BY <1>1, <1>2, SumTakesSome

\* Nothing adds up to nothing.
LEMMA SumOfNone == \A f : SumFunctionOnSet(f, {}) = 0
BY FS_EmptySet, SumTakesSome

\* Greater terms have a greater sum.
LEMMA SumCompare ==
  ASSUME NEW S, IsFiniteSet(S), NEW f, NEW g,
         \A x \in S : f[x] \in Int /\ g[x] \in Int /\ f[x] <= g[x]
  PROVE  SumFunctionOnSet(f, S) <= SumFunctionOnSet(g, S)
<1>. DEFINE Wrong == {T \in SUBSET S : ~(SumFunctionOnSet(f, T) <= SumFunctionOnSet(g, T))}
            Sizes == {Cardinality(T) : T \in Wrong}
<1>1. SUFFICES ASSUME Wrong # {} PROVE FALSE
  OBVIOUS
<1>2. \A T \in SUBSET S : IsFiniteSet(T) /\ Cardinality(T) \in Nat
  BY FS_Subset, FS_CardinalityType
<1>3. PICK m \in Sizes : \A k \in Sizes : m <= k
  <2>1. Sizes \subseteq Nat /\ Sizes # {}
    BY <1>1, <1>2
  <2>. HIDE DEF Sizes
  <2>. QED
    BY <2>1, Smallest
<1>4. PICK T \in Wrong : Cardinality(T) = m
  OBVIOUS
<1>5. T # {}
  BY <1>4, SumOfNone
<1>. DEFINE c == Some(T)
            r == T \ {c}
<1>6. IsFiniteSet(T) /\ c \in T /\ m \in Nat /\ Cardinality(r) = m - 1 /\ r \in SUBSET S
  BY <1>2, <1>4, <1>5, SomeTaken
<1>7. SumFunctionOnSet(f, r) <= SumFunctionOnSet(g, r)
  <2>1. ~(m <= m - 1)
    BY <1>6
  <2>2. Cardinality(r) \notin Sizes
    BY <1>3, <1>6, <2>1
  <2>. QED
    BY <1>6, <2>2
<1>8. /\ SumFunctionOnSet(f, T) = f[c] + SumFunctionOnSet(f, r)
      /\ SumFunctionOnSet(g, T) = g[c] + SumFunctionOnSet(g, r)
  BY <1>5, <1>6, SumTakesSome
<1>9. /\ SumFunctionOnSet(f, r) \in Int /\ SumFunctionOnSet(g, r) \in Int
      /\ f[c] \in Int /\ g[c] \in Int /\ f[c] <= g[c]
  BY <1>2, <1>6, SumTakesSome
<1>10. ~(SumFunctionOnSet(f, T) <= SumFunctionOnSet(g, T))
  BY <1>4
<1>. HIDE DEF c, r
<1>. QED
  BY <1>7, <1>8, <1>9, <1>10

\* A sum of terms that are at most m.
LEMMA SumBounded ==
  ASSUME NEW S, IsFiniteSet(S), NEW f, NEW m \in Nat,
         \A x \in S : f[x] \in Int /\ f[x] <= m
  PROVE  SumFunctionOnSet(f, S) <= Cardinality(S) * m
<1>. DEFINE Wrong == {T \in SUBSET S : ~(SumFunctionOnSet(f, T) <= Cardinality(T) * m)}
            Sizes == {Cardinality(T) : T \in Wrong}
<1>1. SUFFICES ASSUME Wrong # {} PROVE FALSE
  OBVIOUS
<1>2. \A T \in SUBSET S : IsFiniteSet(T) /\ Cardinality(T) \in Nat
  BY FS_Subset, FS_CardinalityType
<1>3. PICK n \in Sizes : \A k \in Sizes : n <= k
  <2>1. Sizes \subseteq Nat /\ Sizes # {}
    BY <1>1, <1>2
  <2>. HIDE DEF Sizes
  <2>. QED
    BY <2>1, Smallest
<1>4. PICK T \in Wrong : Cardinality(T) = n
  OBVIOUS
<1>5. T # {}
  <2>1. SumFunctionOnSet(f, {}) = 0 /\ Cardinality({}) = 0 /\ 0 <= 0 * m
    BY SumOfNone, FS_EmptySet
  <2>. QED
    BY <1>4, <2>1
<1>. DEFINE c == Some(T)
            r == T \ {c}
<1>6. IsFiniteSet(T) /\ c \in T /\ n \in Nat /\ Cardinality(r) = n - 1 /\ r \in SUBSET S
  BY <1>2, <1>4, <1>5, SomeTaken
<1>7. SumFunctionOnSet(f, r) <= (n - 1) * m
  <2>1. ~(n <= n - 1)
    BY <1>6
  <2>2. Cardinality(r) \notin Sizes
    BY <1>3, <1>6, <2>1
  <2>. QED
    BY <1>6, <2>2
<1>8. SumFunctionOnSet(f, T) = f[c] + SumFunctionOnSet(f, r)
  BY <1>5, <1>6, SumTakesSome
<1>9. SumFunctionOnSet(f, r) \in Int /\ f[c] \in Int /\ f[c] <= m
  BY <1>2, <1>6, SumTakesSome
<1>10. (n - 1) * m = n * m - m /\ n * m \in Int /\ (n - 1) * m \in Int
  BY <1>6
<1>11. ~(SumFunctionOnSet(f, T) <= n * m)
  BY <1>4
<1>. HIDE DEF c, r
<1>12. SumFunctionOnSet(f, r) <= n * m - m
  BY <1>7, <1>10
<1>. QED
  BY <1>8, <1>9, <1>10, <1>11, <1>12

\* A sum of which one term is another one.
LEMMA SumChanges ==
  ASSUME NEW S, IsFiniteSet(S), NEW f, NEW g, NEW e \in S,
         \A x \in S : f[x] \in Int /\ g[x] \in Int,
         \A x \in S : x # e => f[x] = g[x]
  PROVE  /\ SumFunctionOnSet(f, S) \in Int /\ SumFunctionOnSet(g, S) \in Int
         /\ SumFunctionOnSet(g, S) = SumFunctionOnSet(f, S) - f[e] + g[e]
<1>. DEFINE r == S \ {e}
<1>1. IsFiniteSet(r) /\ \A x \in r : f[x] = g[x] /\ f[x] \in Int /\ g[x] \in Int /\ f[x] <= g[x]
  BY FS_RemoveElement
<1>2. SumFunctionOnSet(f, r) <= SumFunctionOnSet(g, r)
  <2>. HIDE DEF r
  <2>. QED
    BY <1>1, SumCompare
<1>3. SumFunctionOnSet(g, r) <= SumFunctionOnSet(f, r)
  <2>. HIDE DEF r
  <2>1. \A x \in r : g[x] <= f[x]
    BY <1>1
  <2>. QED
    BY <1>1, <2>1, SumCompare
<1>4. /\ SumFunctionOnSet(f, S) = f[e] + SumFunctionOnSet(f, r)
      /\ SumFunctionOnSet(g, S) = g[e] + SumFunctionOnSet(g, r)
  BY SumTakes
<1>5. /\ SumFunctionOnSet(f, r) \in Int /\ SumFunctionOnSet(g, r) \in Int
      /\ f[e] \in Int /\ g[e] \in Int
  BY <1>1, SumTakesSome
<1>. HIDE DEF r
<1>. QED
  BY <1>2, <1>3, <1>4, <1>5
=============================================================================
