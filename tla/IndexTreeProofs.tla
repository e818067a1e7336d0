-------------------------- MODULE IndexTreeProofs ---------------------------
(***************************************************************************)
(* The index tree is an ordered set, as long as none of its Node48s has a  *)
(* hole.                                                                   *)
(*                                                                         *)
(* The invariant (Kept): the tree fits (Fit), that is, every inner node    *)
(* is sound - its bytes lead to children of their own, in order, and its   *)
(* count is right - and no path is longer than the longest value; and the  *)
(* words below the root are the values in use. What a tree holds is found  *)
(* by induction on the bytes that are left below a node, and so is what    *)
(* insert_node, remove_node and storing make of it. A tree that fits is    *)
(* also shapely: its nodes are of the kind for their number of children,   *)
(* and none could be merged with its only child. So the words of a node    *)
(* tell its prefix, its bytes and whether a value ends there, and by the   *)
(* same induction the tree is a function of the set it holds, but for the  *)
(* two traces of its history that Tidied takes out.                        *)
(*                                                                         *)
(* Storing can lose values: a Node48 with a hole is written without its    *)
(* last slots. So each result is stated where no tree gets a hole, and     *)
(* that storing loses nothing then is part of its proof. Trees stay packed *)
(* if nothing is removed or a Node48 shrinks with the first child it       *)
(* loses; and, whatever is removed, if the values are narrow: after no     *)
(* prefix do they go on with more bytes than a Node16 holds, so that no    *)
(* tree of them has a Node48.                                              *)
(***************************************************************************)
EXTENDS IndexTreeShape, FoldProofs, SequenceTheorems

-----------------------------------------------------------------------------
(* Sequences and words. *)

\* Min yields the least of some numbers.
LEMMA LeastIs ==
  ASSUME NEW S, S \subseteq Nat, S # {}
  PROVE  Min(S) \in S /\ \A x \in S : Min(S) <= x
<1>1. \E x \in S : \A y \in S : x <= y
  BY Smallest
<1>. QED
  BY <1>1 DEF Min

\* Max yields the greatest of some numbers up to n.
LEMMA GreatestIs ==
  ASSUME NEW n \in Nat, NEW S, S \subseteq 0..n, S # {}
  PROVE  Max(S) \in S /\ \A x \in S : x <= Max(S)
<1>. DEFINE T == {n - x : x \in S}
<1>1. T \subseteq Nat /\ T # {}
  OBVIOUS
<1>2. PICK t \in T : t \in Nat /\ \A u \in T : t <= u
  <2>. HIDE DEF T
  <2>. QED
    BY <1>1, Smallest
<1>3. PICK m \in S : t = n - m
  BY <1>2
<1>4. \A x \in S : x <= m
  <2>. TAKE x \in S
  <2>1. n - x \in T
    OBVIOUS
  <2>. QED
    BY <1>2, <1>3, <2>1
<1>5. \E x \in S : \A y \in S : x >= y
  BY <1>4
<1>. QED
  BY <1>5 DEF Max

\* Each pair of elements of a sequence, in their order, is in R.
Chained(s, R) == \A j, k \in 1..Len(s) : j < k => <<s[j], s[k]>> \in R

\* The elements of a sequence are those at its indices.
LEMMA ElementsOf ==
  ASSUME NEW S, NEW s \in Seq(S)
  PROVE  ToSet(s) \subseteq S /\ ToSet(s) = {s[i] : i \in 1..Len(s)}
BY LenProperties DEF ToSet

\* Two chained sequences joined where the first ends below the second.
LEMMA ConcatChained ==
  ASSUME NEW S, NEW R, NEW s \in Seq(S), NEW t \in Seq(S),
         Chained(s, R), Chained(t, R),
         \A x \in ToSet(s), y \in ToSet(t) : <<x, y>> \in R
  PROVE  /\ s \o t \in Seq(S) /\ Chained(s \o t, R)
         /\ ToSet(s \o t) = ToSet(s) \cup ToSet(t)
<1>. DEFINE u == s \o t
<1>1. /\ u \in Seq(S) /\ Len(u) = Len(s) + Len(t)
      /\ \A i \in 1 .. Len(s) + Len(t) : u[i] = IF i <= Len(s) THEN s[i] ELSE t[i - Len(s)]
  BY ConcatProperties
<1>. HIDE DEF u
<1>2. Len(s) \in Nat /\ Len(t) \in Nat
  BY LenProperties
<1>3. /\ ToSet(s) = {s[i] : i \in 1..Len(s)} /\ ToSet(t) = {t[i] : i \in 1..Len(t)}
      /\ ToSet(u) = {u[i] : i \in 1..Len(u)}
  BY <1>1, ElementsOf
<1>4. ToSet(u) = ToSet(s) \cup ToSet(t)
  <2>1. \A i \in 1..Len(u) : u[i] \in ToSet(s) \cup ToSet(t)
    BY <1>1, <1>2, <1>3
  <2>2. \A i \in 1..Len(s) : s[i] = u[i] /\ i \in 1..Len(u)
    BY <1>1, <1>2
  <2>3. \A i \in 1..Len(t) : t[i] = u[i + Len(s)] /\ i + Len(s) \in 1..Len(u)
    BY <1>1, <1>2
  <2>. QED
    BY <1>3, <2>1, <2>2, <2>3
<1>5. Chained(u, R)
  <2>. SUFFICES ASSUME NEW j \in 1..Len(u), NEW k \in 1..Len(u), j < k
                PROVE  <<u[j], u[k]>> \in R
    BY DEF Chained
  <2>1. CASE k <= Len(s)
    <3>1. j \in 1..Len(s) /\ k \in 1..Len(s) /\ u[j] = s[j] /\ u[k] = s[k]
      BY <1>1, <1>2, <2>1
    <3>. QED
      BY <3>1 DEF Chained
  <2>2. CASE j > Len(s)
    <3>1. /\ j - Len(s) \in 1..Len(t) /\ k - Len(s) \in 1..Len(t) /\ j - Len(s) < k - Len(s)
          /\ u[j] = t[j - Len(s)] /\ u[k] = t[k - Len(s)]
      BY <1>1, <1>2, <2>2
    <3>. QED
      BY <3>1 DEF Chained
  <2>3. CASE j <= Len(s) /\ k > Len(s)
    <3>1. /\ j \in 1..Len(s) /\ k - Len(s) \in 1..Len(t)
          /\ u[j] = s[j] /\ u[k] = t[k - Len(s)]
      BY <1>1, <1>2, <2>3
    <3>2. u[j] \in ToSet(s) /\ u[k] \in ToSet(t)
      BY <1>3, <3>1
    <3>. QED
      BY <3>2
  <2>. QED
    BY <1>2, <2>1, <2>2, <2>3
<1>. QED
  BY <1>1, <1>4, <1>5 DEF u

\* The empty sequence is chained.
LEMMA EmptyChained ==
  ASSUME NEW S, NEW R
  PROVE  <<>> \in Seq(S) /\ Chained(<<>>, R) /\ ToSet(<<>>) = {}
<1>1. <<>> \in Seq(S) /\ Len(<<>>) = 0
  BY EmptySeq
<1>2. ToSet(<<>>) = {<<>>[i] : i \in 1..Len(<<>>)}
  BY <1>1, ElementsOf
<1>. QED
  BY <1>1, <1>2 DEF Chained

\* The recursion of FlattenSeq.
JoinedBy(q, f, i) == IF i = 1 THEN q[i] ELSE f[i - 1] \o q[i]
\* The joins of the first 1 .. k sequences.
Joins(q, k, f) == f = [i \in 1..k |-> JoinedBy(q, f, i)]

\* The joins of the first 1 .. n of some sequences exist.
LEMMA JoinsExist ==
  ASSUME NEW q, NEW n \in Nat
  PROVE  \E f : Joins(q, n, f)
<1>. DEFINE Missing == {m \in 0..n : ~\E f : Joins(q, m, f)}
<1>. SUFFICES ASSUME Missing # {} PROVE FALSE
  OBVIOUS
<1>1. PICK m \in Missing : m \in Nat /\ \A k \in Missing : m <= k
  <2>1. Missing \subseteq Nat
    OBVIOUS
  <2>. HIDE DEF Missing
  <2>. QED
    BY <2>1, Smallest
<1>2. Joins(q, 0, <<>>)
  BY DEF Joins
<1>3. m # 0 /\ m - 1 \in 0..n
  BY <1>1, <1>2
<1>4. PICK f : Joins(q, m - 1, f)
  BY <1>1, <1>3
<1>. DEFINE g == [i \in 1..m |-> JoinedBy(q, f, i)]
<1>5. \A i \in 1..(m - 1) : g[i] = f[i]
  <2>1. \A i \in 1..(m - 1) : f[i] = JoinedBy(q, f, i)
    BY <1>4, Zenon DEF Joins
  <2>2. \A i \in 1..(m - 1) : i \in 1..m
    BY <1>3
  <2>. QED
    BY <2>1, <2>2, Zenon
<1>6. \A i \in 1..m : JoinedBy(q, g, i) = JoinedBy(q, f, i)
  <2>. TAKE i \in 1..m
  <2>1. CASE i = 1
    BY <2>1 DEF JoinedBy
  <2>2. CASE i # 1
    <3>1. g[i - 1] = f[i - 1]
      <4>1. i - 1 \in 1..(m - 1)
        BY <1>3, <2>2
      <4>. QED
        BY <1>5, <4>1
    <3>. HIDE DEF g
    <3>. QED
      BY <2>2, <3>1 DEF JoinedBy
  <2>. QED
    BY <2>1, <2>2
<1>7. Joins(q, m, g)
  <2>1. g = [i \in 1..m |-> JoinedBy(q, g, i)]
    BY <1>6, Zenon
  <2>. QED
    BY <2>1, Zenon DEF Joins
<1>. QED
  BY <1>1, <1>7

\* FlattenSeq joins sequences one after the other.
LEMMA FlattenUnfolds ==
  ASSUME NEW q, Len(q) \in Nat \ {0}
  PROVE  \E f : /\ FlattenSeq(q) = f[Len(q)]
                /\ \A i \in 1..Len(q) : f[i] = JoinedBy(q, f, i)
<1>. DEFINE f == CHOOSE g : Joins(q, Len(q), g)
<1>1. FlattenSeq(q) = f[Len(q)]
  BY Zenon DEF FlattenSeq, Joins, JoinedBy
<1>2. Joins(q, Len(q), f)
  BY JoinsExist, Zenon
<1>3. \A i \in 1..Len(q) : f[i] = JoinedBy(q, f, i)
  <2>. HIDE DEF f
  <2>. QED
    BY <1>2, Zenon DEF Joins
<1>. QED
  BY <1>1, <1>3, Zenon

\* FlattenSeq joins sequences in their order.
LEMMA FlattenChained ==
  ASSUME NEW S, NEW R, NEW q \in Seq(Seq(S)),
         \A i \in 1..Len(q) : Chained(q[i], R),
         \A i, j \in 1..Len(q) : i < j =>
            \A x \in ToSet(q[i]), y \in ToSet(q[j]) : <<x, y>> \in R
  PROVE  /\ FlattenSeq(q) \in Seq(S) /\ Chained(FlattenSeq(q), R)
         /\ ToSet(FlattenSeq(q)) = UNION {ToSet(q[i]) : i \in 1..Len(q)}
<1>. DEFINE n == Len(q)
<1>0. n \in Nat /\ \A i \in 1..n : q[i] \in Seq(S)
  BY LenProperties, ElementOfSeq
<1>1. CASE n = 0
  <2>1. FlattenSeq(q) = q /\ q = <<>>
    BY <1>1, EmptySeq DEF FlattenSeq
  <2>2. <<>> \in Seq(S) /\ Chained(<<>>, R) /\ ToSet(<<>>) = {}
    BY EmptyChained
  <2>. QED
    BY <1>1, <2>1, <2>2
<1>2. CASE n # 0
  <2>1. PICK f : /\ FlattenSeq(q) = f[n]
                 /\ \A i \in 1..n : f[i] = JoinedBy(q, f, i)
    BY <1>0, <1>2, FlattenUnfolds
  <2>. DEFINE Good(i) == /\ f[i] \in Seq(S) /\ Chained(f[i], R)
                         /\ ToSet(f[i]) = UNION {ToSet(q[l]) : l \in 1..i}
              Bad == {i \in 1..n : ~Good(i)}
  <2>2. Bad = {}
    <3>. SUFFICES ASSUME Bad # {} PROVE FALSE
      OBVIOUS
    <3>1. PICK m \in Bad : m \in Nat /\ \A k \in Bad : m <= k
      <4>1. Bad \subseteq Nat
        OBVIOUS
      <4>. HIDE DEF Bad
      <4>. QED
        BY <4>1, Smallest
    <3>2. m \in 1..n /\ f[m] = JoinedBy(q, f, m)
      BY <2>1, <3>1
    <3>3. CASE m = 1
      <4>1. f[1] = q[1] /\ q[1] \in Seq(S) /\ Chained(q[1], R)
        BY <1>0, <3>2, <3>3 DEF JoinedBy
      <4>2. UNION {ToSet(q[l]) : l \in 1..1} = ToSet(q[1])
        OBVIOUS
      <4>. QED
        BY <3>1, <3>3, <4>1, <4>2
    <3>4. CASE m # 1
      <4>1. m - 1 \in 1..n /\ ~(m <= m - 1)
        BY <1>0, <3>2, <3>4
      <4>2. Good(m - 1)
        BY <3>1, <4>1
      <4>3. f[m] = f[m - 1] \o q[m]
        BY <3>2, <3>4 DEF JoinedBy
      <4>4. q[m] \in Seq(S) /\ Chained(q[m], R)
        BY <1>0, <3>2
      <4>5. \A x \in ToSet(f[m - 1]), y \in ToSet(q[m]) : <<x, y>> \in R
        <5>. TAKE x \in ToSet(f[m - 1]), y \in ToSet(q[m])
        <5>1. PICK l \in 1..(m - 1) : x \in ToSet(q[l])
          BY <4>2
        <5>2. l \in 1..n /\ l < m
          BY <3>2, <4>1
        <5>. QED
          BY <3>2, <5>1, <5>2
      <4>6. /\ f[m] \in Seq(S) /\ Chained(f[m], R)
            /\ ToSet(f[m]) = ToSet(f[m - 1]) \cup ToSet(q[m])
        <5>. DEFINE u == f[m - 1]
        <5>1. u \in Seq(S) /\ Chained(u, R) /\ \A x \in ToSet(u), y \in ToSet(q[m]) : <<x, y>> \in R
          BY <4>2, <4>5
        <5>2. f[m] = u \o q[m]
          BY <4>3
        <5>. HIDE DEF u, Good, Bad
        <5>3. /\ u \o q[m] \in Seq(S) /\ Chained(u \o q[m], R)
              /\ ToSet(u \o q[m]) = ToSet(u) \cup ToSet(q[m])
          BY <4>4, <5>1, ConcatChained
        <5>. QED
          BY <5>2, <5>3 DEF u
      <4>7. \A l : l \in 1..m <=> l \in 1..(m - 1) \/ l = m
        BY <3>2
      <4>8. ToSet(f[m]) = UNION {ToSet(q[l]) : l \in 1..m}
        <5>1. \A x \in ToSet(f[m]) : \E l \in 1..m : x \in ToSet(q[l])
          BY <4>2, <4>6, <4>7
        <5>2. \A l \in 1..m : ToSet(q[l]) \subseteq ToSet(f[m])
          BY <4>2, <4>6, <4>7
        <5>. QED
          BY <5>1, <5>2
      <4>. QED
        BY <3>1, <4>6, <4>8
    <3>. QED
      BY <3>3, <3>4
  <2>3. Good(n)
    <3>1. n \in 1..n
      BY <1>0, <1>2
    <3>. HIDE DEF Good, n
    <3>. QED
      BY <2>2, <3>1
  <2>. QED
    BY <2>1, <2>3
<1>. QED
  BY <1>0, <1>1, <1>2

\* A word that goes through byte b after p.
Path(p, b, s) == p \o <<b>> \o s

\* The sequence of one byte.
LEMMA SingletonSeq ==
  ASSUME NEW S, NEW b \in S
  PROVE  <<b>> \in Seq(S) /\ Len(<<b>>) = 1 /\ <<b>>[1] = b
OBVIOUS

\* Its bytes.
IsPath(w, p, b, s) ==
  /\ Len(w) = Len(p) + 1 + Len(s)
  /\ \A i \in 1..(Len(p) + 1 + Len(s)) :
       w[i] = IF i <= Len(p) THEN p[i]
              ELSE IF i = Len(p) + 1 THEN b ELSE s[i - (Len(p) + 1)]

\* A path is made of its prefix, its byte and the rest.
LEMMA PathIs ==
  ASSUME NEW S, NEW p \in Seq(S), NEW b \in S, NEW s \in Seq(S)
  PROVE  Path(p, b, s) \in Seq(S) /\ IsPath(Path(p, b, s), p, b, s)
<1>. DEFINE u == p \o <<b>>
            w == u \o s
<1>0. <<b>> \in Seq(S) /\ Len(<<b>>) = 1 /\ <<b>>[1] = b
  BY SingletonSeq
<1>1. /\ u \in Seq(S) /\ Len(u) = Len(p) + 1
      /\ \A i \in 1 .. Len(p) + 1 : u[i] = IF i <= Len(p) THEN p[i] ELSE <<b>>[i - Len(p)]
  BY <1>0, ConcatProperties
<1>. HIDE DEF u
<1>2. /\ w \in Seq(S) /\ Len(w) = Len(u) + Len(s)
      /\ \A i \in 1 .. Len(u) + Len(s) : w[i] = IF i <= Len(u) THEN u[i] ELSE s[i - Len(u)]
  BY <1>1, ConcatProperties, ZenonT(60)
<1>. HIDE DEF w
<1>3. Len(p) \in Nat /\ Len(s) \in Nat
  BY LenProperties
<1>4. u[Len(p) + 1] = b
  <2>1. (Len(p) + 1) - Len(p) = 1 /\ Len(p) + 1 \in 1..(Len(p) + 1) /\ ~(Len(p) + 1 <= Len(p))
    BY <1>3
  <2>. QED
    BY <1>0, <1>1, <2>1
<1>5. \A i \in 1..(Len(p) + 1 + Len(s)) :
        w[i] = IF i <= Len(p) THEN p[i] ELSE IF i = Len(p) + 1 THEN b ELSE s[i - (Len(p) + 1)]
  BY <1>1, <1>2, <1>3, <1>4
<1>6. w = Path(p, b, s)
  BY DEF Path, u, w
<1>. QED
  BY <1>1, <1>2, <1>5, <1>6 DEF IsPath

\* After the same prefix, equal paths have equal bytes and rests.
LEMMA PathInjective ==
  ASSUME NEW S, NEW p \in Seq(S), NEW b \in S, NEW s \in Seq(S), NEW c \in S, NEW t \in Seq(S),
         Path(p, b, s) = Path(p, c, t)
  PROVE  b = c /\ s = t
<1>. DEFINE w == Path(p, b, s)
            n == Len(p) + 1
<1>0. IsPath(w, p, b, s) /\ IsPath(w, p, c, t)
  <2>1. IsPath(Path(p, b, s), p, b, s) /\ IsPath(Path(p, c, t), p, c, t)
    BY PathIs
  <2>. QED
    BY <2>1, Zenon
<1>. HIDE DEF w
<1>1. /\ Len(w) = n + Len(s)
      /\ \A i \in 1..(n + Len(s)) :
           w[i] = IF i <= Len(p) THEN p[i] ELSE IF i = n THEN b ELSE s[i - n]
  BY <1>0, Zenon DEF IsPath
<1>2. /\ Len(w) = n + Len(t)
      /\ \A i \in 1..(n + Len(t)) :
           w[i] = IF i <= Len(p) THEN p[i] ELSE IF i = n THEN c ELSE t[i - n]
  BY <1>0, Zenon DEF IsPath
<1>3. Len(p) \in Nat /\ n \in Nat /\ Len(p) < n /\ Len(s) \in Nat /\ Len(t) \in Nat
  BY LenProperties
<1>. HIDE DEF n
<1>4. Len(s) = Len(t)
  BY <1>1, <1>2, <1>3
<1>5. b = c
  BY <1>1, <1>2, <1>3
<1>6. \A i \in 1..Len(s) : s[i] = t[i]
  <2>. TAKE i \in 1..Len(s)
  <2>1. /\ i + n \in 1..(n + Len(s)) /\ ~(i + n <= Len(p)) /\ i + n # n /\ (i + n) - n = i
    BY <1>3
  <2>. QED
    BY <1>1, <1>2, <1>4, <2>1
<1>. QED
  BY <1>4, <1>5, <1>6, SeqEqual

\* A path that goes on: the prefix of a node merged with its only child.
LEMMA PathPath ==
  ASSUME NEW S, NEW p \in Seq(S), NEW b \in S, NEW q \in Seq(S), NEW c \in S, NEW s \in Seq(S)
  PROVE  Path(Path(p, b, q), c, s) = Path(p, b, Path(q, c, s))
<1>. DEFINE u == p \o <<b>>
<1>1. <<b>> \in Seq(S) /\ <<c>> \in Seq(S)
  OBVIOUS
<1>2. u \in Seq(S) /\ q \o <<c>> \in Seq(S)
  BY <1>1, ConcatProperties
<1>3. (u \o q) \o <<c>> = u \o (q \o <<c>>)
  BY <1>1, <1>2, ConcatAssociative
<1>4. (u \o (q \o <<c>>)) \o s = u \o ((q \o <<c>>) \o s)
  BY <1>2, ConcatAssociative
<1>. QED
  BY <1>3, <1>4 DEF Path

\* A word that is longer than m goes through its next byte.
LEMMA PathSplits ==
  ASSUME NEW S, NEW w \in Seq(S), NEW m \in Nat, m < Len(w)
  PROVE  /\ SubSeq(w, 1, m) \in Seq(S) /\ Len(SubSeq(w, 1, m)) = m
         /\ From(w, m + 2) \in Seq(S) /\ Len(From(w, m + 2)) = Len(w) - (m + 1)
         /\ w[m + 1] \in S
         /\ w = Path(SubSeq(w, 1, m), w[m + 1], From(w, m + 2))
<1>. DEFINE p == SubSeq(w, 1, m)
            s == SubSeq(w, m + 2, Len(w))
            l == Len(w)
<1>1. l \in Nat /\ \A i \in 1..l : w[i] \in S
  BY LenProperties, ElementOfSeq
<1>2. w[m + 1] \in S
  BY <1>1
<1>3. /\ p \in Seq(S) /\ Len(p) = m
      /\ \A i \in 1..m : p[i] = w[i]
  <2>1. \A i \in 1..m : w[i] \in S
    BY <1>1
  <2>2. /\ p \in Seq(S) /\ Len(p) = (IF 1 <= m THEN m - 1 + 1 ELSE 0)
        /\ \A i \in 1 .. m - 1 + 1 : p[i] = w[1 + i - 1]
    BY <2>1, SubSeqProperties
  <2>3. \A i \in 1..m : i \in 1 .. m - 1 + 1 /\ 1 + i - 1 = i
    OBVIOUS
  <2>4. Len(p) = m
    <3>. HIDE DEF p
    <3>. QED
      BY <2>2
  <2>. QED
    BY <2>2, <2>3, <2>4
<1>4. /\ s \in Seq(S) /\ Len(s) = l - (m + 1)
      /\ \A i \in 1 .. l - (m + 1) : s[i] = w[m + 1 + i]
  <2>1. \A i \in m + 2 .. l : w[i] \in S
    BY <1>1
  <2>2. /\ s \in Seq(S) /\ Len(s) = (IF m + 2 <= l THEN l - (m + 2) + 1 ELSE 0)
        /\ \A i \in 1 .. l - (m + 2) + 1 : s[i] = w[m + 2 + i - 1]
    BY <1>1, <2>1, SubSeqProperties
  <2>3. \A i \in 1 .. l - (m + 1) : i \in 1 .. l - (m + 2) + 1 /\ m + 2 + i - 1 = m + 1 + i
    BY <1>1
  <2>4. Len(s) = l - (m + 1)
    <3>. HIDE DEF s
    <3>. QED
      BY <1>1, <2>2
  <2>. QED
    BY <2>2, <2>3, <2>4
<1>. DEFINE b == w[m + 1]
<1>. HIDE DEF p, s, l
<1>. DEFINE u == Path(p, b, s)
<1>5. /\ u \in Seq(S) /\ Len(u) = Len(p) + 1 + Len(s)
      /\ \A i \in 1..(Len(p) + 1 + Len(s)) :
           u[i] = IF i <= Len(p) THEN p[i] ELSE IF i = Len(p) + 1 THEN b ELSE s[i - (Len(p) + 1)]
  <2>1. b \in S
    BY <1>2
  <2>. HIDE DEF b
  <2>2. u \in Seq(S) /\ IsPath(u, p, b, s)
    BY <1>3, <1>4, <2>1, PathIs
  <2>. QED
    BY <2>2, Zenon DEF IsPath
<1>. HIDE DEF u
<1>6. Len(u) = l
  BY <1>1, <1>3, <1>4, <1>5
<1>7. \A i \in 1..l : w[i] = u[i]
  <2>. TAKE i \in 1..l
  <2>0. i \in 1..(Len(p) + 1 + Len(s))
    BY <1>1, <1>3, <1>4
  <2>1. CASE i <= m
    BY <1>1, <1>3, <1>5, <2>0, <2>1
  <2>2. CASE i = m + 1
    BY <1>3, <1>5, <2>0, <2>2
  <2>3. CASE i > m + 1
    <3>1. i - (m + 1) \in 1 .. l - (m + 1) /\ m + 1 + (i - (m + 1)) = i
      BY <1>1, <2>3
    <3>2. u[i] = s[i - (m + 1)]
      BY <1>3, <1>5, <2>0, <2>3
    <3>3. s[i - (m + 1)] = w[m + 1 + (i - (m + 1))]
      BY <1>4, <3>1
    <3>. QED
      BY <3>1, <3>2, <3>3
  <2>. QED
    BY <1>1, <2>1, <2>2, <2>3
<1>8. w = u
  BY <1>5, <1>6, <1>7, SeqEqual DEF l
<1>. QED
  BY <1>2, <1>3, <1>4, <1>8 DEF u, p, s, l, b, From

\* What Common finds: how far two words agree.
LEMMA CommonIs ==
  ASSUME NEW S, NEW s \in Seq(S), NEW t \in Seq(S)
  PROVE  /\ Common(s, t) \in Nat /\ Common(s, t) <= Len(s) /\ Common(s, t) <= Len(t)
         /\ \A i \in 1..Common(s, t) : s[i] = t[i]
         /\ Common(s, t) < Len(s) /\ Common(s, t) < Len(t)
              => s[Common(s, t) + 1] # t[Common(s, t) + 1]
<1>. DEFINE n == Min({Len(s), Len(t)})
            M == {m \in 0..n : \A i \in 1..m : s[i] = t[i]}
            c == Max(M)
<1>1. Len(s) \in Nat /\ Len(t) \in Nat
  BY LenProperties
<1>2. n \in {Len(s), Len(t)} /\ n <= Len(s) /\ n <= Len(t)
  BY <1>1, LeastIs
<1>. HIDE DEF n
<1>3. n \in Nat /\ M \subseteq 0..n
  BY <1>1, <1>2
<1>4. 0 \in M
  BY <1>3
<1>5. c \in M /\ \A x \in M : x <= c
  <2>. HIDE DEF M
  <2>. QED
    BY <1>3, <1>4, GreatestIs
<1>6. c \in 0..n /\ \A i \in 1..c : s[i] = t[i]
  BY <1>5
<1>7. ASSUME c < Len(s), c < Len(t), s[c + 1] = t[c + 1]
      PROVE  FALSE
  <2>1. c + 1 \in 0..n
    BY <1>1, <1>2, <1>3, <1>6, <1>7
  <2>2. \A i \in 1..(c + 1) : s[i] = t[i]
    <3>. TAKE i \in 1..(c + 1)
    <3>1. i \in 1..c \/ i = c + 1
      <4>. HIDE DEF c, M
      <4>. QED
        BY <1>3, <1>6
    <3>. QED
      BY <1>6, <1>7, <3>1
  <2>3. c + 1 \in M
    BY <2>1, <2>2
  <2>4. c \in Nat /\ c + 1 <= c
    BY <1>3, <1>5, <1>6, <2>3
  <2>. QED
    BY <2>4
<1>8. c = Common(s, t)
  BY DEF c, M, n, Common
<1>. HIDE DEF c, M
<1>9. c \in Nat /\ c <= Len(s) /\ c <= Len(t)
  BY <1>1, <1>2, <1>3, <1>6
<1>. QED
  BY <1>6, <1>7, <1>8, <1>9

\* What insert_node and remove_node find where a word rest meets bytes s.
Meets(S, s, rest) ==
  LET m == Common(s, rest)
      below == From(rest, m + 1)
      common == SubSeq(rest, 1, m)
  IN /\ m \in Nat /\ m <= Len(s) /\ m <= Len(rest)
     /\ common \in Seq(S) /\ Len(common) = m
     /\ m = Len(s) => common = s
     /\ below = <<>> => rest = common
     /\ below # <<>> =>
          /\ Head(below) \in S /\ Tail(below) \in Seq(S)
          /\ Len(rest) = m + 1 + Len(Tail(below))
          /\ rest = Path(common, Head(below), Tail(below))
     /\ m < Len(s) =>
          /\ s[m + 1] \in S /\ From(s, m + 2) \in Seq(S)
          /\ Len(s) = m + 1 + Len(From(s, m + 2))
          /\ s = Path(common, s[m + 1], From(s, m + 2))
          /\ below # <<>> => Head(below) # s[m + 1]

\* Where common_prefix leaves two words: each goes on with a byte of its own.
LEMMA CommonSplits ==
  ASSUME NEW S, NEW s \in Seq(S), NEW rest \in Seq(S)
  PROVE  Meets(S, s, rest)
<1>. DEFINE m == Common(s, rest)
            below == From(rest, m + 1)
            common == SubSeq(rest, 1, m)
<1>1. /\ m \in Nat /\ m <= Len(s) /\ m <= Len(rest)
      /\ \A i \in 1..m : s[i] = rest[i]
      /\ m < Len(s) /\ m < Len(rest) => s[m + 1] # rest[m + 1]
  BY CommonIs
<1>. HIDE DEF m
<1>2. Len(s) \in Nat /\ Len(rest) \in Nat /\ \A i \in 1..Len(rest) : rest[i] \in S
  BY LenProperties, ElementOfSeq
<1>3. SubSeq(s, 1, m) = common /\ common \in Seq(S) /\ Len(common) = m
  <2>1. \A i \in 1..m : rest[i] \in S /\ s[i] \in S /\ i \in 1..(m - 1 + 1) /\ 1 + i - 1 = i
    BY <1>1, <1>2
  <2>2. /\ common \in Seq(S) /\ Len(common) = (IF 1 <= m THEN m - 1 + 1 ELSE 0)
        /\ \A i \in 1 .. m - 1 + 1 : common[i] = rest[1 + i - 1]
    BY <1>1, <2>1, SubSeqProperties
  <2>. DEFINE c == SubSeq(s, 1, m)
  <2>3. /\ c \in Seq(S) /\ Len(c) = (IF 1 <= m THEN m - 1 + 1 ELSE 0)
        /\ \A i \in 1 .. m - 1 + 1 : c[i] = s[1 + i - 1]
    BY <1>1, <2>1, SubSeqProperties
  <2>. HIDE DEF c, common
  <2>4. Len(c) = m /\ Len(common) = m
    BY <1>1, <2>2, <2>3
  <2>5. \A i \in 1..m : c[i] = common[i]
    BY <1>1, <2>1, <2>2, <2>3
  <2>6. c = common
    BY <2>2, <2>3, <2>4, <2>5, SeqEqual
  <2>. QED
    BY <2>2, <2>4, <2>6 DEF c
<1>4. m = Len(s) => common = s
  <2>1. SubSeq(s, 1, Len(s)) = s
    BY SubSeqFull
  <2>. QED
    BY <1>3, <2>1
<1>5. CASE m = Len(rest)
  <2>1. common = rest
    BY <1>5, SubSeqFull
  <2>2. below = <<>>
    <3>1. Len(rest) < m + 1
      BY <1>1, <1>5
    <3>. QED
      BY <1>1, <1>2, <3>1, SubSeqEmpty DEF From
  <2>3. m < Len(s) =>
          /\ s[m + 1] \in S /\ From(s, m + 2) \in Seq(S)
          /\ Len(From(s, m + 2)) = Len(s) - (m + 1)
          /\ s = Path(common, s[m + 1], From(s, m + 2))
    BY <1>1, <1>3, PathSplits, ZenonT(60)
  <2>4. m < Len(s) => Len(s) = m + 1 + Len(From(s, m + 2))
    BY <1>1, <1>2, <2>3
  <2>. HIDE DEF common, below
  <2>. QED
    BY <1>1, <1>3, <1>4, <2>1, <2>2, <2>3, <2>4 DEF Meets, m, common, below
<1>6. CASE m < Len(rest)
  <2>1. /\ rest[m + 1] \in S /\ From(rest, m + 2) \in Seq(S)
        /\ Len(From(rest, m + 2)) = Len(rest) - (m + 1)
        /\ rest = Path(common, rest[m + 1], From(rest, m + 2))
    BY <1>1, <1>6, PathSplits
  <2>2. m + 1 \in 1..Len(rest) /\ Len(rest) \in (m + 1)..Len(rest) /\ (m + 1) + 1 = m + 2
    BY <1>1, <1>2, <1>6
  <2>3. Head(below) = rest[m + 1] /\ Tail(below) = From(rest, m + 2)
    BY <2>2, HeadTailOfSubSeq DEF From
  <2>4. below # <<>>
    <3>1. below = <<rest[m + 1]>> \o SubSeq(rest, m + 2, Len(rest))
      BY <2>2, SubSeqRecursiveFirst DEF From
    <3>2. <<rest[m + 1]>> \in Seq(S) /\ SubSeq(rest, m + 2, Len(rest)) \in Seq(S)
      BY <2>1 DEF From
    <3>3. <<rest[m + 1]>> # <<>>
      OBVIOUS
    <3>. QED
      BY <3>1, <3>2, <3>3, ConcatEqualIffEmpty
  <2>5. m < Len(s) =>
          /\ s[m + 1] \in S /\ From(s, m + 2) \in Seq(S)
          /\ Len(From(s, m + 2)) = Len(s) - (m + 1)
          /\ s = Path(common, s[m + 1], From(s, m + 2))
    BY <1>1, <1>3, PathSplits, ZenonT(60)
  <2>6. m < Len(s) => Len(s) = m + 1 + Len(From(s, m + 2))
    BY <1>1, <1>2, <2>5
  <2>. HIDE DEF common, below
  <2>7. Len(rest) = m + 1 + Len(Tail(below))
    <3>1. Len(Tail(below)) = Len(rest) - (m + 1)
      BY <2>1, <2>3
    <3>2. \A x, y, z \in Int : x = y - (z + 1) => y = z + 1 + x
      OBVIOUS
    <3>3. Len(rest) \in Int /\ m \in Int /\ Len(rest) - (m + 1) \in Int
      BY <1>1, <1>2
    <3>4. Len(Tail(below)) \in Int
      BY <3>1, <3>3
    <3>. QED
      BY <3>1, <3>2, <3>3, <3>4
  <2>8. m < Len(s) => Head(below) # s[m + 1]
    BY <1>1, <1>6, <2>3
  <2>. QED
    BY <1>1, <1>3, <1>4, <2>1, <2>3, <2>4, <2>5, <2>6, <2>7, <2>8 DEF Meets, m, common, below
<1>. QED
  BY <1>1, <1>2, <1>5, <1>6

\* What InsertAt makes of a sequence, index by index.
LEMMA InsertAtIs ==
  ASSUME NEW S, NEW s \in Seq(S), NEW at \in 1..(Len(s) + 1), NEW e \in S
  PROVE  /\ InsertAt(s, at, e) \in Seq(S) /\ Len(InsertAt(s, at, e)) = Len(s) + 1
         /\ \A i \in 1..(Len(s) + 1) :
              InsertAt(s, at, e)[i] = IF i < at THEN s[i] ELSE IF i = at THEN e ELSE s[i - 1]
<1>. DEFINE p == SubSeq(s, 1, at - 1)
            q == SubSeq(s, at, Len(s))
            n == Len(s)
<1>1. n \in Nat /\ \A i \in 1..n : s[i] \in S
  BY LenProperties, ElementOfSeq
<1>2. /\ p \in Seq(S) /\ Len(p) = at - 1
      /\ \A i \in 1..(at - 1) : p[i] = s[i]
  <2>1. \A i \in 1..(at - 1) : s[i] \in S /\ i \in 1..(at - 1 - 1 + 1) /\ 1 + i - 1 = i
    BY <1>1
  <2>2. /\ p \in Seq(S) /\ Len(p) = (IF 1 <= at - 1 THEN at - 1 - 1 + 1 ELSE 0)
        /\ \A i \in 1 .. at - 1 - 1 + 1 : p[i] = s[1 + i - 1]
    BY <1>1, <2>1, SubSeqProperties
  <2>. HIDE DEF p
  <2>. QED
    BY <1>1, <2>1, <2>2
<1>3. /\ q \in Seq(S) /\ Len(q) = n - (at - 1)
      /\ \A i \in 1..(n - (at - 1)) : q[i] = s[at + i - 1]
  <2>1. \A i \in at..n : s[i] \in S
    BY <1>1
  <2>2. /\ q \in Seq(S) /\ Len(q) = (IF at <= n THEN n - at + 1 ELSE 0)
        /\ \A i \in 1 .. n - at + 1 : q[i] = s[at + i - 1]
    BY <1>1, <2>1, SubSeqProperties
  <2>. HIDE DEF q
  <2>. QED
    BY <1>1, <2>2
<1>. HIDE DEF p, q, n
<1>4. Path(p, e, q) \in Seq(S) /\ IsPath(Path(p, e, q), p, e, q)
  BY <1>2, <1>3, PathIs
<1>5. InsertAt(s, at, e) = Path(p, e, q)
  BY DEF InsertAt, Path, p, q
<1>. DEFINE w == Path(p, e, q)
<1>. HIDE DEF w
<1>6. Len(w) = n + 1
  BY <1>1, <1>2, <1>3, <1>4 DEF IsPath, w, n
<1>7. \A i \in 1..(n + 1) : w[i] = IF i < at THEN s[i] ELSE IF i = at THEN e ELSE s[i - 1]
  <2>. TAKE i \in 1..(n + 1)
  <2>0. w[i] = IF i <= Len(p) THEN p[i] ELSE IF i = Len(p) + 1 THEN e ELSE q[i - (Len(p) + 1)]
    <3>1. i \in 1..(Len(p) + 1 + Len(q))
      BY <1>1, <1>2, <1>3 DEF n
    <3>. QED
      BY <1>4, <3>1, Zenon DEF IsPath, w
  <2>1. CASE i < at
    BY <1>1, <1>2, <2>0, <2>1
  <2>2. CASE i = at
    BY <1>1, <1>2, <2>0, <2>2
  <2>3. CASE i > at
    <3>1. i - at \in 1..(n - (at - 1)) /\ at + (i - at) - 1 = i - 1 /\ Len(p) + 1 = at
      BY <1>1, <1>2, <2>3 DEF n
    <3>. QED
      BY <1>1, <1>2, <1>3, <2>0, <2>3, <3>1
  <2>. QED
    BY <1>1, <2>1, <2>2, <2>3 DEF n
<1>. QED
  BY <1>4, <1>5, <1>6, <1>7 DEF n, w

\* What RemoveAt makes of a sequence, index by index.
LEMMA RemoveAtIs ==
  ASSUME NEW S, NEW s \in Seq(S), NEW at \in 1..Len(s)
  PROVE  /\ RemoveAt(s, at) \in Seq(S) /\ Len(RemoveAt(s, at)) = Len(s) - 1
         /\ \A i \in 1..(Len(s) - 1) : RemoveAt(s, at)[i] = IF i < at THEN s[i] ELSE s[i + 1]
<1>. DEFINE p == SubSeq(s, 1, at - 1)
            q == SubSeq(s, at + 1, Len(s))
            n == Len(s)
<1>1. n \in Nat /\ \A i \in 1..n : s[i] \in S
  BY LenProperties, ElementOfSeq
<1>2. /\ p \in Seq(S) /\ Len(p) = at - 1
      /\ \A i \in 1..(at - 1) : p[i] = s[i]
  <2>1. \A i \in 1..(at - 1) : s[i] \in S /\ i \in 1..(at - 1 - 1 + 1) /\ 1 + i - 1 = i
    BY <1>1
  <2>2. /\ p \in Seq(S) /\ Len(p) = (IF 1 <= at - 1 THEN at - 1 - 1 + 1 ELSE 0)
        /\ \A i \in 1 .. at - 1 - 1 + 1 : p[i] = s[1 + i - 1]
    BY <1>1, <2>1, SubSeqProperties
  <2>. HIDE DEF p
  <2>. QED
    BY <1>1, <2>1, <2>2
<1>3. /\ q \in Seq(S) /\ Len(q) = n - at
      /\ \A i \in 1..(n - at) : q[i] = s[at + i]
  <2>1. \A i \in (at + 1)..n : s[i] \in S
    BY <1>1
  <2>2. /\ q \in Seq(S) /\ Len(q) = (IF at + 1 <= n THEN n - (at + 1) + 1 ELSE 0)
        /\ \A i \in 1 .. n - (at + 1) + 1 : q[i] = s[(at + 1) + i - 1]
    BY <1>1, <2>1, SubSeqProperties
  <2>3. \A i \in 1..(n - at) : i \in 1 .. n - (at + 1) + 1 /\ (at + 1) + i - 1 = at + i
    BY <1>1
  <2>. HIDE DEF q
  <2>. QED
    BY <1>1, <2>2, <2>3
<1>. DEFINE w == p \o q
<1>. HIDE DEF p, q, n
<1>4. /\ w \in Seq(S) /\ Len(w) = Len(p) + Len(q)
      /\ \A i \in 1 .. Len(p) + Len(q) : w[i] = IF i <= Len(p) THEN p[i] ELSE q[i - Len(p)]
  BY <1>2, <1>3, ConcatProperties
<1>. HIDE DEF w
<1>5. Len(w) = n - 1
  BY <1>1, <1>2, <1>3, <1>4 DEF n
<1>6. \A i \in 1..(n - 1) : w[i] = IF i < at THEN s[i] ELSE s[i + 1]
  <2>. TAKE i \in 1..(n - 1)
  <2>0. w[i] = IF i <= at - 1 THEN p[i] ELSE q[i - (at - 1)]
    BY <1>1, <1>2, <1>3, <1>4 DEF n
  <2>1. CASE i < at
    BY <1>1, <1>2, <2>0, <2>1
  <2>2. CASE i >= at
    <3>1. i - (at - 1) \in 1..(n - at) /\ at + (i - (at - 1)) = i + 1
      BY <1>1, <2>2 DEF n
    <3>. QED
      BY <1>1, <1>3, <2>0, <2>2, <3>1
  <2>. QED
    BY <1>1, <2>1, <2>2
<1>7. RemoveAt(s, at) = w
  BY DEF RemoveAt, w, p, q
<1>. QED
  BY <1>4, <1>5, <1>6, <1>7 DEF n

-----------------------------------------------------------------------------
(* Keys in order. *)

\* Keys in ascending order.
Increasing(s) == \A i, j \in 1..Len(s) : i < j => s[i] < s[j]

\* The number of keys below a byte, as add_ch counts it.
Before(keys, b) == Cardinality({i \in DOMAIN keys : \A j \in 1..i : keys[j] < b})

\* Before(keys, b) is where the linear scan of add_ch stops: the keys up to
\* there are less than b, the others greater.
LEMMA PositionIs ==
  ASSUME NEW S, S \subseteq Nat, NEW keys \in Seq(S), Increasing(keys),
         NEW b \in Nat, b \notin ToSet(keys)
  PROVE  /\ Before(keys, b) \in 0..Len(keys)
         /\ \A i \in 1..Len(keys) : /\ keys[i] \in Nat
                                    /\ i <= Before(keys, b) => keys[i] < b
                                    /\ i > Before(keys, b) => b < keys[i]
<1>. DEFINE n == Len(keys)
            L == {i \in 0..n : i = 0 \/ keys[i] < b}
            T == {i \in DOMAIN keys : \A j \in 1..i : keys[j] < b}
            p == Max(L)
<1>0. n \in Nat /\ DOMAIN keys = 1..n /\ ToSet(keys) = {keys[i] : i \in 1..n}
  BY LenProperties, ElementsOf
<1>1. /\ n \in Nat /\ DOMAIN keys = 1..n
      /\ \A i \in 1..n : keys[i] \in Nat /\ keys[i] # b
  <2>1. \A i \in 1..n : keys[i] \in S
    BY ElementOfSeq
  <2>2. \A i \in 1..n : keys[i] \in ToSet(keys)
    BY <1>0
  <2>. QED
    BY <1>0, <2>1, <2>2
<1>2. \A i, j \in 1..n : i < j => keys[i] < keys[j]
  BY DEF Increasing
<1>. HIDE DEF n
<1>3. p \in L /\ \A i \in L : i <= p
  <2>1. L \subseteq 0..n /\ 0 \in L
    BY <1>1
  <2>. HIDE DEF L
  <2>. QED
    BY <1>1, <2>1, GreatestIs
<1>. HIDE DEF p
<1>4. p \in 0..n /\ (p = 0 \/ keys[p] < b)
  BY <1>3
<1>5. \A i \in 1..n : i <= p => keys[i] < b
  <2>. TAKE i \in 1..n
  <2>. SUFFICES ASSUME i <= p PROVE keys[i] < b
    OBVIOUS
  <2>1. p \in 1..n /\ keys[p] < b
    BY <1>1, <1>4
  <2>2. CASE i = p
    BY <2>1, <2>2
  <2>3. CASE i < p
    <3>1. keys[i] < keys[p] /\ keys[i] \in Nat /\ keys[p] \in Nat
      BY <1>1, <1>2, <2>1, <2>3
    <3>. QED
      BY <2>1, <3>1
  <2>. QED
    BY <1>1, <1>4, <2>2, <2>3
<1>6. \A i \in 1..n : i > p => b < keys[i]
  <2>. TAKE i \in 1..n
  <2>. SUFFICES ASSUME i > p, ~(b < keys[i]) PROVE FALSE
    OBVIOUS
  <2>1. keys[i] < b
    BY <1>1
  <2>2. i \in L
    BY <1>1, <2>1
  <2>3. i <= p
    BY <1>3, <2>2
  <2>. QED
    BY <1>1, <1>4, <2>3
<1>7. T = 1..p
  <2>1. \A i \in 1..p : i \in 1..n /\ \A j \in 1..i : j \in 1..n /\ j <= p
    BY <1>1, <1>4
  <2>2. 1..p \subseteq T
    BY <1>1, <1>5, <2>1
  <2>3. ASSUME NEW i \in T, i \notin 1..p PROVE FALSE
    <3>1. i \in 1..n /\ i > p /\ keys[i] < b
      BY <1>1, <1>4, <2>3
    <3>. QED
      BY <1>1, <1>6, <3>1
  <2>. QED
    BY <2>2, <2>3
<1>8. Cardinality(T) = p
  <2>1. Cardinality(1..p) = p
    BY <1>1, <1>4, FS_Interval
  <2>. QED
    BY <1>7, <2>1
<1>. QED
  <2>1. Before(keys, b) = p
    BY <1>8, Zenon DEF Before
  <2>. QED
    BY <1>1, <1>4, <1>5, <1>6, <2>1 DEF n

\* The number of elements below b.
Rank(set, b) == Cardinality({c \in set : c < b})

\* A rank is less than the number of elements, and greater elements have
\* greater ranks.
LEMMA RankGrows ==
  ASSUME NEW T, T \subseteq Nat, IsFiniteSet(T), NEW b \in T
  PROVE  /\ Rank(T, b) \in Nat /\ Rank(T, b) < Cardinality(T)
         /\ \A c \in T : c < b => Rank(T, c) < Rank(T, b)
<1>. DEFINE under(c) == {x \in T : x < c}
<1>1. \A c \in T : under(c) \in SUBSET T /\ IsFiniteSet(under(c)) /\ Cardinality(under(c)) \in Nat
  <2>. TAKE c \in T
  <2>. DEFINE U == under(c)
  <2>1. U \in SUBSET T
    OBVIOUS
  <2>. HIDE DEF U
  <2>2. IsFiniteSet(U) /\ Cardinality(U) \in Nat
    BY <2>1, FS_Subset, FS_CardinalityType
  <2>. QED
    BY <2>1, <2>2 DEF U
<1>2. Cardinality(T) \in Nat
  BY FS_CardinalityType
<1>3. Cardinality(under(b)) < Cardinality(T)
  <2>1. b \notin under(b)
    OBVIOUS
  <2>. DEFINE U == under(b)
  <2>2. U \in SUBSET T /\ U # T
    BY <2>1
  <2>3. Cardinality(U) \in Nat
    BY <1>1
  <2>. HIDE DEF U
  <2>4. Cardinality(U) <= Cardinality(T) /\ Cardinality(T) # Cardinality(U)
    BY <2>2, FS_Subset
  <2>5. Cardinality(U) < Cardinality(T)
    BY <1>2, <2>3, <2>4
  <2>. QED
    BY <2>5 DEF U
<1>4. \A c \in T : c < b => Cardinality(under(c)) < Cardinality(under(b))
  <2>. TAKE c \in T
  <2>. HAVE c < b
  <2>. DEFINE U == under(c)
              W == under(b)
  <2>1. \A x \in U : x \in W
    <3>. TAKE x \in U
    <3>1. x \in Nat /\ c \in Nat /\ b \in Nat /\ x < c
      OBVIOUS
    <3>2. x < b
      BY <3>1
    <3>. QED
      BY <3>2
  <2>2. c \in W /\ c \notin U
    OBVIOUS
  <2>3. IsFiniteSet(W) /\ Cardinality(W) \in Nat /\ Cardinality(U) \in Nat
    BY <1>1
  <2>. HIDE DEF U, W
  <2>4. U \in SUBSET W /\ U # W
    BY <2>1, <2>2
  <2>5. Cardinality(U) <= Cardinality(W) /\ Cardinality(W) # Cardinality(U)
    BY <2>3, <2>4, FS_Subset
  <2>6. Cardinality(U) < Cardinality(W)
    BY <2>3, <2>5
  <2>. QED
    BY <2>6 DEF U, W
<1>. QED
  BY <1>1, <1>3, <1>4 DEF Rank

\* Each number below the size is the rank of an element.
LEMMA RanksTaken ==
  ASSUME NEW T, T \subseteq Nat, IsFiniteSet(T)
  PROVE  /\ Cardinality(T) \in Nat
         /\ \A k \in 0..(Cardinality(T) - 1) : \E b \in T : Rank(T, b) = k
<1>. DEFINE n == Cardinality(T)
            f == [b \in T |-> Rank(T, b)]
<1>1. n \in Nat
  BY FS_CardinalityType
<1>. HIDE DEF n
<1>2. f \in [T -> 0..(n - 1)]
  <2>. SUFFICES ASSUME NEW b \in T PROVE Rank(T, b) \in 0..(n - 1)
    OBVIOUS
  <2>1. Rank(T, b) \in Nat /\ Rank(T, b) < n
    BY RankGrows DEF n
  <2>. QED
    BY <1>1, <2>1
<1>3. \A b, c \in T : f[b] = f[c] => b = c
  <2>. TAKE b, c \in T
  <2>. SUFFICES ASSUME f[b] = f[c], b # c PROVE FALSE
    OBVIOUS
  <2>1. b < c \/ c < b
    OBVIOUS
  <2>2. Rank(T, b) < Rank(T, c) \/ Rank(T, c) < Rank(T, b)
    BY <2>1, RankGrows
  <2>3. Rank(T, b) \in Nat /\ Rank(T, c) \in Nat
    BY RankGrows
  <2>. QED
    BY <2>2, <2>3
<1>4. f \in Injection(T, 0..(n - 1))
  BY <1>2, <1>3 DEF Injection, IsInjective
<1>5. IsFiniteSet(0..(n - 1)) /\ Cardinality(0..(n - 1)) = n
  <2>1. /\ IsFiniteSet(0..(n - 1))
        /\ Cardinality(0..(n - 1)) = IF 0 > n - 1 THEN 0 ELSE (n - 1) - 0 + 1
    BY <1>1, FS_Interval
  <2>. QED
    BY <1>1, <2>1
<1>. HIDE DEF f
<1>6. f \in Surjection(T, 0..(n - 1))
  BY <1>4, <1>5, FS_Injection DEF n
<1>7. \A k \in 0..(n - 1) : \E b \in T : f[b] = k
  BY <1>6 DEF Surjection
<1>. QED
  BY <1>1, <1>7 DEF f, n

\* Ascending lists the elements of a finite set, each at its rank.
LEMMA AscendingIs ==
  ASSUME NEW T, T \subseteq Nat, IsFiniteSet(T)
  PROVE  /\ Cardinality(T) \in Nat
         /\ Ascending(T) \in Seq(T) /\ Len(Ascending(T)) = Cardinality(T)
         /\ Increasing(Ascending(T)) /\ ToSet(Ascending(T)) = T
         /\ \A b \in T : /\ Rank(T, b) + 1 \in 1..Cardinality(T)
                         /\ Ascending(T)[Rank(T, b) + 1] = b
         /\ \A i \in 1..Cardinality(T) : /\ Ascending(T)[i] \in T
                                         /\ Rank(T, Ascending(T)[i]) = i - 1
<1>. DEFINE n == Cardinality(T)
            a == Ascending(T)
<1>1. n \in Nat /\ \A k \in 0..(n - 1) : \E b \in T : Rank(T, b) = k
  BY RanksTaken
<1>2. a = [i \in 1..n |-> CHOOSE b \in T : Rank(T, b) = i - 1]
  BY DEF Ascending, Rank
<1>. HIDE DEF n, a
<1>3. \A i \in 1..n : a[i] \in T /\ Rank(T, a[i]) = i - 1
  <2>. TAKE i \in 1..n
  <2>1. i - 1 \in 0..(n - 1)
    BY <1>1
  <2>2. \E b \in T : Rank(T, b) = i - 1
    BY <1>1, <2>1
  <2>3. a[i] = CHOOSE b \in T : Rank(T, b) = i - 1
    BY <1>2
  <2>. QED
    BY <2>2, <2>3
<1>4. a \in Seq(T) /\ Len(a) = n
  <2>1. a \in [1..n -> T]
    BY <1>2, <1>3
  <2>. QED
    BY <1>1, <2>1
<1>5. \A b, c \in T : Rank(T, b) = Rank(T, c) => b = c
  <2>. TAKE b, c \in T
  <2>. SUFFICES ASSUME Rank(T, b) = Rank(T, c), b # c PROVE FALSE
    OBVIOUS
  <2>1. b < c \/ c < b
    OBVIOUS
  <2>2. Rank(T, b) < Rank(T, c) \/ Rank(T, c) < Rank(T, b)
    BY <2>1, RankGrows
  <2>3. Rank(T, b) \in Nat /\ Rank(T, c) \in Nat
    BY RankGrows
  <2>. QED
    BY <2>2, <2>3
<1>6. \A b \in T : Rank(T, b) + 1 \in 1..n /\ a[Rank(T, b) + 1] = b
  <2>. TAKE b \in T
  <2>1. Rank(T, b) \in Nat /\ Rank(T, b) < n
    BY RankGrows DEF n
  <2>2. Rank(T, b) + 1 \in 1..n /\ Rank(T, b) + 1 - 1 = Rank(T, b)
    BY <1>1, <2>1
  <2>. DEFINE k == Rank(T, b) + 1
  <2>3. k \in 1..n /\ k - 1 = Rank(T, b)
    BY <2>1, <1>1
  <2>. HIDE DEF k
  <2>4. a[k] \in T /\ Rank(T, a[k]) = Rank(T, b)
    BY <1>3, <2>3
  <2>5. a[k] = b
    BY <1>5, <2>4
  <2>. QED
    BY <2>3, <2>5 DEF k
<1>7. Increasing(a)
  <2>. SUFFICES ASSUME NEW i \in 1..n, NEW j \in 1..n, i < j, ~(a[i] < a[j])
                PROVE  FALSE
    BY <1>4 DEF Increasing
  <2>1. a[i] \in T /\ a[j] \in T /\ Rank(T, a[i]) = i - 1 /\ Rank(T, a[j]) = j - 1
    BY <1>3
  <2>2. a[i] = a[j] \/ a[j] < a[i]
    <3>1. a[i] \in Nat /\ a[j] \in Nat
      BY <2>1
    <3>. QED
      BY <3>1
  <2>3. ~(j - 1 < i - 1) /\ i - 1 # j - 1
    BY <1>1
  <2>. QED
    BY <2>1, <2>2, <2>3, RankGrows
<1>8. ToSet(a) = T
  <2>1. ToSet(a) = {a[i] : i \in 1..n}
    BY <1>4, ElementsOf
  <2>. QED
    BY <1>3, <1>6, <2>1
<1>. QED
  BY <1>1, <1>3, <1>4, <1>6, <1>7, <1>8 DEF n, a

-----------------------------------------------------------------------------
(* Inner nodes, and what each change of one keeps. *)

\* Bytes that a Node48 can tell from its mark of an unused byte.
Clean == Bytes \ {Nil}

\* Inner nodes as the operations leave them, with children in below.
SoundLinear(node, below) ==
  /\ node \in [kind : {"N4", "N16"}, prefix : Seq(Clean), end : BOOLEAN,
               keys : Seq(Clean), ch : Seq(below)]
  /\ Len(node.keys) = Len(node.ch) /\ Increasing(node.keys)
\* The bytes that lead to a slot of a Node48.
Used48(idx) == {b \in Bytes : idx[b] # Nil}
\* A Node48 whose bytes lead to slots of their own, and every child has one.
Sound48(node, below) ==
  /\ node \in [kind : {"N48"}, prefix : Seq(Clean), end : BOOLEAN, n : Nat,
               idx : [Bytes -> Slots \cup {Nil}], ch : [Slots -> below \cup {Empty}]]
  /\ node.idx[Nil] = Nil /\ node.n = Cardinality(Used48(node.idx))
  /\ \A b \in Used48(node.idx) : node.ch[node.idx[b]] \in below
  /\ \A b, c \in Used48(node.idx) : node.idx[b] = node.idx[c] => b = c
  /\ \A s \in Slots : node.ch[s] # Empty => \E b \in Used48(node.idx) : node.idx[b] = s
\* The bytes with a child in a Node256.
Used256(ch) == {b \in Bytes : ch[b] # Empty}
\* A Node256 that counts its children.
Sound256(node, below) ==
  /\ node \in [kind : {"N256"}, prefix : Seq(Clean), end : BOOLEAN, n : Nat,
               ch : [Bytes -> below \cup {Empty}]]
  /\ node.ch[Nil] = Empty /\ node.n = Cardinality(Used256(node.ch))
\* An inner node as insert and remove keep it, over the nodes below.
Sound(node, below) ==
  SoundLinear(node, below) \/ Sound48(node, below) \/ Sound256(node, below)

\* A Node48 whose children are in its first slots, as its encoding needs it.
Packed(node) ==
  node.kind = "N48" => \A b \in Used48(node.idx) : node.idx[b] < node.n

\* Nodes that have the same children at the same bytes.
SameChildren(r, node) ==
  ChildBytes(r) = ChildBytes(node) /\ \A b \in ChildBytes(node) : Child(r, b) = Child(node, b)
\* The same prefix, and a value that ends here or not.
SameValue(r, node) == r.prefix = node.prefix /\ r.end = node.end

\* The kind for a number of children. A node that fits has it, and one with
\* fewer than two children is there because a value ends at it.
Kind(n) == IF n <= Cap4 THEN "N4" ELSE IF n <= Cap16 THEN "N16" ELSE IF n <= Cap48 THEN "N48" ELSE "N256"
Shapely(node) == node.kind = Kind(Size(node)) /\ (Size(node) <= 1 => node.end)

\* The arithmetic of bytes, slots and capacities.
LEMMA BytesAre ==
  /\ MaxByte \in Nat /\ MaxLength \in Nat /\ Cap4 \in Nat /\ Cap16 \in Nat /\ Cap48 \in Nat
  /\ 2 <= Cap4 /\ Cap4 < Cap16 /\ Cap16 < Cap48 /\ Cap48 <= MaxByte
  /\ Nil \in Bytes /\ Nil \notin Slots /\ Nil \notin Clean
  /\ Clean \subseteq Bytes /\ Clean \subseteq Nat /\ Bytes \subseteq Nat /\ Slots \subseteq Nat
  /\ IsFiniteSet(Bytes) /\ IsFiniteSet(Slots) /\ Cardinality(Slots) = Cap48
<1>1. /\ MaxByte \in Nat /\ MaxLength \in Nat /\ Cap4 \in Nat /\ Cap16 \in Nat /\ Cap48 \in Nat
      /\ 2 <= Cap4 /\ Cap4 < Cap16 /\ Cap16 < Cap48 /\ Cap48 <= MaxByte
  BY TreeAssumption
<1>2. IsFiniteSet(0..MaxByte) /\ IsFiniteSet(0..(Cap48 - 1))
  BY <1>1, FS_Interval
<1>3. Cardinality(0..(Cap48 - 1)) = Cap48
  <2>1. Cardinality(0..(Cap48 - 1)) = IF 0 > Cap48 - 1 THEN 0 ELSE (Cap48 - 1) - 0 + 1
    BY <1>1, FS_Interval
  <2>. QED
    BY <1>1, <2>1
<1>. QED
  BY <1>1, <1>2, <1>3 DEF Bytes, Slots, Nil, Clean

\* A sound Node4 or Node16: each byte leads to the child at its index.
LEMMA LinearIs ==
  ASSUME NEW X, NEW node, SoundLinear(node, X)
  PROVE  /\ IsLinear(node) /\ node.kind # "N48" /\ node.kind # "N256"
         /\ Len(node.keys) \in Nat /\ Size(node) = Len(node.keys)
         /\ DOMAIN node.keys = 1..Len(node.keys)
         /\ ChildBytes(node) = {node.keys[i] : i \in 1..Len(node.keys)}
         /\ \A i \in 1..Len(node.keys) :
              /\ node.keys[i] \in Clean /\ node.ch[i] \in X
              /\ Place(node, node.keys[i]) = i /\ Child(node, node.keys[i]) = node.ch[i]
<1>1. /\ node.kind \in {"N4", "N16"} /\ node.keys \in Seq(Clean) /\ node.ch \in Seq(X)
      /\ Len(node.keys) = Len(node.ch) /\ Increasing(node.keys)
  BY DEF SoundLinear
<1>2. IsLinear(node) /\ node.kind # "N48" /\ node.kind # "N256"
  BY <1>1 DEF IsLinear
<1>3. /\ Len(node.keys) \in Nat /\ DOMAIN node.keys = 1..Len(node.keys)
      /\ ToSet(node.keys) = {node.keys[i] : i \in 1..Len(node.keys)}
  BY <1>1, LenProperties, ElementsOf
<1>4. Size(node) = Len(node.keys)
  BY <1>2 DEF Size
<1>5. ChildBytes(node) = ToSet(node.keys)
  BY <1>2 DEF ChildBytes
<1>6. ASSUME NEW i \in 1..Len(node.keys)
      PROVE  /\ node.keys[i] \in Clean /\ node.ch[i] \in X
             /\ Place(node, node.keys[i]) = i /\ Child(node, node.keys[i]) = node.ch[i]
  <2>1. node.keys[i] \in Clean /\ node.ch[i] \in X
    BY <1>1, ElementOfSeq
  <2>2. Place(node, node.keys[i]) = Min({j \in DOMAIN node.keys : node.keys[j] = node.keys[i]})
    BY <1>2 DEF Place
  <2>. DEFINE M == {j \in DOMAIN node.keys : node.keys[j] = node.keys[i]}
  <2>3. M = {i}
    <3>1. ASSUME NEW j \in 1..Len(node.keys), node.keys[j] = node.keys[i], j # i
          PROVE  FALSE
      <4>1. j < i \/ i < j
        BY <1>3, <3>1
      <4>2. node.keys[j] < node.keys[i] \/ node.keys[i] < node.keys[j]
        BY <1>1, <4>1 DEF Increasing
      <4>3. node.keys[i] \in Nat
        BY <2>1, BytesAre
      <4>. QED
        BY <3>1, <4>2, <4>3
    <3>. QED
      BY <1>3, <3>1
  <2>4. Min(M) \in M
    <3>1. M \subseteq Nat /\ M # {}
      BY <1>3, <2>3
    <3>. HIDE DEF M
    <3>. QED
      BY <3>1, LeastIs
  <2>5. Place(node, node.keys[i]) = i
    BY <2>2, <2>3, <2>4
  <2>6. Child(node, node.keys[i]) = node.ch[i]
    BY <2>5 DEF Child
  <2>. QED
    BY <2>1, <2>5, <2>6
<1>. QED
  BY <1>2, <1>3, <1>4, <1>5, <1>6

\* A Node48: a byte leads to the child in its slot.
LEMMA Node48Is ==
  ASSUME NEW node, node.kind = "N48"
  PROVE  /\ ~IsLinear(node) /\ Size(node) = node.n
         /\ ChildBytes(node) = Used48(node.idx)
         /\ \A b : Place(node, b) = node.idx[b] /\ Child(node, b) = node.ch[node.idx[b]]
<1>1. ~IsLinear(node)
  BY DEF IsLinear
<1>2. \A b : Place(node, b) = node.idx[b]
  BY <1>1 DEF Place
<1>3. ChildBytes(node) = Used48(node.idx)
  BY <1>1 DEF ChildBytes, Used48
<1>. QED
  BY <1>1, <1>2, <1>3 DEF Size, Child

\* A Node256: a byte leads to the child at its index.
LEMMA Node256Is ==
  ASSUME NEW node, node.kind = "N256"
  PROVE  /\ ~IsLinear(node) /\ node.kind # "N48" /\ Size(node) = node.n
         /\ ChildBytes(node) = Used256(node.ch)
         /\ \A b : Place(node, b) = b /\ Child(node, b) = node.ch[b]
<1>1. ~IsLinear(node) /\ node.kind # "N48"
  BY DEF IsLinear
<1>2. \A b : Place(node, b) = b
  BY <1>1 DEF Place
<1>3. ChildBytes(node) = Used256(node.ch)
  BY <1>1 DEF ChildBytes, Used256
<1>. QED
  BY <1>1, <1>2, <1>3 DEF Size, Child

\* Whatever its kind, a sound node has a child at each of its bytes.
LEMMA SoundIs ==
  ASSUME NEW X, Empty \notin X, NEW node, Sound(node, X)
  PROVE  /\ node.prefix \in Seq(Clean) /\ node.end \in BOOLEAN
         /\ node.kind \notin {"Empty", "Leaf"}
         /\ ChildBytes(node) \subseteq Clean /\ IsFiniteSet(ChildBytes(node))
         /\ Size(node) = Cardinality(ChildBytes(node))
         /\ \A b \in ChildBytes(node) : Child(node, b) \in X
<1>0. \A T : T \subseteq Clean => IsFiniteSet(T)
  <2>. TAKE T
  <2>. HAVE T \subseteq Clean
  <2>1. T \in SUBSET Bytes
    BY BytesAre
  <2>. QED
    BY <2>1, BytesAre, FS_Subset
<1>1. CASE SoundLinear(node, X)
  <2>1. /\ node.prefix \in Seq(Clean) /\ node.end \in BOOLEAN /\ node.keys \in Seq(Clean)
        /\ node.kind \in {"N4", "N16"}
    BY <1>1 DEF SoundLinear
  <2>2. \A b \in ChildBytes(node) : b \in Clean /\ Child(node, b) \in X
    BY <1>1, LinearIs
  <2>3. Cardinality(ChildBytes(node)) = Len(node.keys)
    <3>. DEFINE n == Len(node.keys)
                f == [i \in 1..n |-> node.keys[i]]
    <3>1. /\ n \in Nat /\ ChildBytes(node) = {node.keys[i] : i \in 1..n}
          /\ \A i \in 1..n : node.keys[i] \in Nat
      <4>1. \A i \in 1..n : node.keys[i] \in Clean
        BY <1>1, LinearIs
      <4>2. n \in Nat /\ ChildBytes(node) = {node.keys[i] : i \in 1..n}
        BY <1>1, LinearIs
      <4>. QED
        BY <4>1, <4>2, BytesAre
    <3>2. \A i, j \in 1..n : i < j => node.keys[i] < node.keys[j]
      BY <1>1 DEF SoundLinear, Increasing
    <3>. HIDE DEF n
    <3>3. \A i, j \in 1..n : f[i] = f[j] => i = j
      <4>. TAKE i, j \in 1..n
      <4>. SUFFICES ASSUME f[i] = f[j], i # j PROVE FALSE
        OBVIOUS
      <4>1. i < j \/ j < i
        BY <3>1
      <4>2. node.keys[i] < node.keys[j] \/ node.keys[j] < node.keys[i]
        BY <3>2, <4>1
      <4>. QED
        BY <3>1, <4>2
    <3>4. f \in Bijection(1..n, ChildBytes(node))
      <4>1. f \in [1..n -> ChildBytes(node)] /\ \A b \in ChildBytes(node) : \E i \in 1..n : f[i] = b
        BY <3>1
      <4>. HIDE DEF f
      <4>. QED
        BY <3>3, <4>1 DEF Bijection, Injection, Surjection, IsInjective
    <3>5. ExistsBijection(1..n, ChildBytes(node))
      <4>. HIDE DEF f
      <4>. QED
        BY <3>4 DEF ExistsBijection
    <3>. QED
      BY <3>1, <3>5, FS_CountingElements DEF n
  <2>4. Size(node) = Len(node.keys)
    BY <1>1, LinearIs
  <2>5. ChildBytes(node) \subseteq Clean
    BY <2>2
  <2>. QED
    BY <1>0, <2>1, <2>2, <2>3, <2>4, <2>5
<1>2. CASE Sound48(node, X)
  <2>1. /\ node.prefix \in Seq(Clean) /\ node.end \in BOOLEAN /\ node.kind = "N48"
        /\ node.idx[Nil] = Nil /\ node.n = Cardinality(Used48(node.idx))
        /\ \A b \in Used48(node.idx) : node.ch[node.idx[b]] \in X
    BY <1>2 DEF Sound48
  <2>2. Used48(node.idx) \subseteq Clean
    BY <2>1 DEF Used48, Clean
  <2>. QED
    BY <1>0, <2>1, <2>2, Node48Is
<1>3. CASE Sound256(node, X)
  <2>1. /\ node.prefix \in Seq(Clean) /\ node.end \in BOOLEAN /\ node.kind = "N256"
        /\ node.ch[Nil] = Empty /\ node.n = Cardinality(Used256(node.ch))
        /\ \A b \in Bytes : node.ch[b] \in X \cup {Empty}
    BY <1>3 DEF Sound256
  <2>2. Used256(node.ch) \subseteq Clean
    BY <2>1 DEF Used256, Clean
  <2>3. \A b \in Used256(node.ch) : node.ch[b] \in X
    BY <2>1 DEF Used256
  <2>. QED
    BY <1>0, <2>1, <2>2, <2>3, Node256Is
<1>. QED
  BY <1>1, <1>2, <1>3 DEF Sound

\* r has the children of node and one more, at byte b.
Gains(r, node, b, child) ==
  /\ ChildBytes(r) = ChildBytes(node) \cup {b} /\ Child(r, b) = child
  /\ \A c \in ChildBytes(node) : Child(r, c) = Child(node, c)

\* add_ch of a Node4 or Node16 keeps its keys in order.
LEMMA AddLinear ==
  ASSUME NEW X, NEW node, SoundLinear(node, X),
         NEW b \in Clean, b \notin ChildBytes(node), NEW child \in X
  PROVE  LET r == AddChild(node, b, child)
         IN SoundLinear(r, X) /\ SameValue(r, node) /\ Gains(r, node, b, child)
<1>. DEFINE r == AddChild(node, b, child)
            keys == node.keys
            ch == node.ch
            n == Len(keys)
            p == Before(keys, b)
            at == 1 + p
<1>1. /\ node \in [kind : {"N4", "N16"}, prefix : Seq(Clean), end : BOOLEAN,
                   keys : Seq(Clean), ch : Seq(X)]
      /\ Len(keys) = Len(ch) /\ Increasing(keys)
  BY DEF SoundLinear
<1>2. /\ IsLinear(node) /\ node.kind # "N48" /\ node.kind # "N256"
      /\ n \in Nat /\ DOMAIN keys = 1..n
      /\ ChildBytes(node) = {keys[i] : i \in 1..n}
      /\ \A i \in 1..n : keys[i] \in Clean /\ ch[i] \in X
                         /\ Place(node, keys[i]) = i /\ Child(node, keys[i]) = ch[i]
  BY LinearIs
<1>3. /\ p \in 0..n
      /\ \A i \in 1..n : /\ keys[i] \in Nat
                         /\ i <= p => keys[i] < b
                         /\ i > p => b < keys[i]
  <2>1. b \notin ToSet(keys) /\ b \in Nat /\ Clean \subseteq Nat /\ keys \in Seq(Clean)
    BY <1>1, <1>2, ElementsOf, BytesAre
  <2>. QED
    BY <1>1, <2>1, PositionIs
<1>4. r = [node EXCEPT !.keys = InsertAt(keys, at, b), !.ch = InsertAt(ch, at, child)]
  BY <1>2 DEF AddChild, Before
<1>. DEFINE k2 == InsertAt(keys, at, b)
            c2 == InsertAt(ch, at, child)
<1>5. /\ k2 \in Seq(Clean) /\ Len(k2) = n + 1
      /\ \A i \in 1..(n + 1) : k2[i] = IF i < at THEN keys[i] ELSE IF i = at THEN b ELSE keys[i - 1]
  <2>1. at \in 1..(n + 1)
    BY <1>2, <1>3
  <2>. HIDE DEF at
  <2>. QED
    BY <1>1, <2>1, InsertAtIs
<1>6. /\ c2 \in Seq(X) /\ Len(c2) = n + 1
      /\ \A i \in 1..(n + 1) : c2[i] = IF i < at THEN ch[i] ELSE IF i = at THEN child ELSE ch[i - 1]
  <2>1. at \in 1..(Len(ch) + 1) /\ ch \in Seq(X)
    BY <1>1, <1>2, <1>3
  <2>. HIDE DEF at
  <2>. QED
    BY <1>1, <2>1, InsertAtIs
<1>. HIDE DEF k2, c2, p, n, r
<1>7. /\ r \in [kind : {"N4", "N16"}, prefix : Seq(Clean), end : BOOLEAN,
                keys : Seq(Clean), ch : Seq(X)]
      /\ r.keys = k2 /\ r.ch = c2 /\ SameValue(r, node)
  <2>1. r = [node EXCEPT !.keys = k2, !.ch = c2]
    BY <1>4 DEF k2, c2
  <2>. QED
    BY <1>1, <1>5, <1>6, <2>1 DEF SameValue
<1>8. Increasing(k2)
  <2>. SUFFICES ASSUME NEW i \in 1..(n + 1), NEW j \in 1..(n + 1), i < j
                PROVE  k2[i] < k2[j]
    BY <1>5 DEF Increasing
  <2>0. \A x, y \in 1..n : x < y => keys[x] < keys[y]
    BY <1>1 DEF Increasing, n
  <2>1. CASE i < at /\ j < at
    BY <1>2, <1>3, <1>5, <2>0, <2>1
  <2>2. CASE i < at /\ j = at
    BY <1>2, <1>3, <1>5, <2>2
  <2>3. CASE i < at /\ j > at
    <3>1. j - 1 \in 1..n /\ i \in 1..n /\ i < j - 1
      BY <1>2, <1>3, <2>3
    <3>. QED
      BY <1>2, <1>3, <1>5, <2>0, <2>3, <3>1
  <2>4. CASE i = at /\ j > at
    <3>1. j - 1 \in 1..n /\ j - 1 > p /\ ~(j < at) /\ j # at
      BY <1>2, <1>3, <2>4
    <3>2. k2[j] = keys[j - 1] /\ k2[i] = b
      BY <1>5, <2>4, <3>1
    <3>3. b < keys[j - 1]
      BY <1>3, <3>1
    <3>. QED
      BY <3>2, <3>3
  <2>5. CASE i > at
    <3>1. j - 1 \in 1..n /\ i - 1 \in 1..n /\ i - 1 < j - 1 /\ j > at
      BY <1>2, <1>3, <2>5
    <3>2. ~(i < at) /\ i # at /\ ~(j < at) /\ j # at
      BY <1>2, <1>3, <2>5
    <3>3. k2[i] = keys[i - 1] /\ k2[j] = keys[j - 1]
      BY <1>5, <3>2
    <3>4. keys[i - 1] < keys[j - 1]
      BY <2>0, <3>1
    <3>. QED
      BY <3>3, <3>4
  <2>. QED
    BY <1>2, <1>3, <2>1, <2>2, <2>3, <2>4, <2>5
<1>9. SoundLinear(r, X)
  BY <1>5, <1>6, <1>7, <1>8 DEF SoundLinear
<1>10. /\ ChildBytes(r) = {k2[i] : i \in 1..(n + 1)}
       /\ \A i \in 1..(n + 1) : Child(r, k2[i]) = c2[i]
  <2>1. Len(r.keys) = n + 1 /\ r.keys = k2 /\ r.ch = c2
    BY <1>5, <1>7
  <2>2. /\ ChildBytes(r) = {r.keys[i] : i \in 1..Len(r.keys)}
        /\ \A i \in 1..Len(r.keys) : Child(r, r.keys[i]) = r.ch[i]
    BY <1>9, LinearIs
  <2>. HIDE DEF at
  <2>. QED
    BY <2>1, <2>2
<1>11. at \in 1..(n + 1) /\ k2[at] = b /\ c2[at] = child
  BY <1>2, <1>3, <1>5, <1>6
<1>12. \A i \in 1..n : \E j \in 1..(n + 1) : k2[j] = keys[i] /\ c2[j] = ch[i]
  <2>. TAKE i \in 1..n
  <2>1. CASE i < at
    BY <1>2, <1>5, <1>6, <2>1
  <2>2. CASE i >= at
    <3>1. i + 1 \in 1..(n + 1) /\ i + 1 > at /\ (i + 1) - 1 = i
      BY <1>2, <1>3, <2>2
    <3>2. k2[i + 1] = keys[i] /\ c2[i + 1] = ch[i]
      BY <1>3, <1>5, <1>6, <3>1
    <3>. QED
      BY <3>1, <3>2
  <2>. QED
    BY <1>2, <1>3, <2>1, <2>2
<1>13. \A j \in 1..(n + 1) : k2[j] = b \/ \E i \in 1..n : k2[j] = keys[i]
  <2>. TAKE j \in 1..(n + 1)
  <2>1. CASE j < at
    <3>1. j \in 1..n
      BY <1>2, <1>3, <2>1
    <3>. QED
      BY <1>5, <2>1, <3>1
  <2>2. CASE j = at
    BY <1>11, <2>2
  <2>3. CASE j > at
    <3>1. j - 1 \in 1..n
      BY <1>2, <1>3, <2>3
    <3>. QED
      BY <1>3, <1>5, <2>3, <3>1
  <2>. QED
    BY <1>2, <1>3, <2>1, <2>2, <2>3
<1>14. Gains(r, node, b, child)
  <2>. HIDE DEF at
  <2>1. ChildBytes(r) = ChildBytes(node) \cup {b}
    <3>1. \A c \in ChildBytes(r) : c \in ChildBytes(node) \cup {b}
      BY <1>2, <1>10, <1>13 DEF n
    <3>2. b \in ChildBytes(r)
      BY <1>10, <1>11
    <3>3. \A c \in ChildBytes(node) : c \in ChildBytes(r)
      BY <1>2, <1>10, <1>12 DEF n
    <3>. QED
      BY <3>1, <3>2, <3>3
  <2>2. Child(r, b) = child
    BY <1>10, <1>11
  <2>3. \A c \in ChildBytes(node) : Child(r, c) = Child(node, c)
    BY <1>2, <1>10, <1>12 DEF n
  <2>. QED
    BY <2>1, <2>2, <2>3 DEF Gains
<1>. QED
  BY <1>7, <1>9, <1>14 DEF r

\* add_ch of a Node48 fills the first empty slot.
LEMMA Add48 ==
  ASSUME NEW X, Empty \notin X, NEW node, Sound48(node, X), node.n < Cap48,
         NEW b \in Clean, b \notin ChildBytes(node), NEW child \in X
  PROVE  LET r == AddChild(node, b, child)
         IN /\ Sound48(r, X) /\ SameValue(r, node) /\ Gains(r, node, b, child)
            /\ Packed(node) => Packed(r)
<1>. DEFINE r == AddChild(node, b, child)
            idx == node.idx
            ch == node.ch
            U == Used48(idx)
            free == {i \in Slots : ch[i] = Empty}
            slot == Min(free)
            i2 == [idx EXCEPT ![b] = slot]
            c2 == [ch EXCEPT ![slot] = child]
<1>1. /\ node \in [kind : {"N48"}, prefix : Seq(Clean), end : BOOLEAN, n : Nat,
                   idx : [Bytes -> Slots \cup {Nil}], ch : [Slots -> X \cup {Empty}]]
      /\ idx[Nil] = Nil /\ node.n = Cardinality(U)
      /\ \A c \in U : ch[idx[c]] \in X
      /\ \A c, d \in U : idx[c] = idx[d] => c = d
      /\ \A s \in Slots : ch[s] # Empty => \E c \in U : idx[c] = s
  BY DEF Sound48
<1>2. /\ node.kind = "N48" /\ idx \in [Bytes -> Slots \cup {Nil}] /\ ch \in [Slots -> X \cup {Empty}]
      /\ node.n \in Nat
  BY <1>1
<1>3. ChildBytes(node) = U /\ ~IsLinear(node)
  BY <1>2, Node48Is
<1>4. U \subseteq Bytes /\ IsFiniteSet(U) /\ \A c \in U : idx[c] \in Slots
  <2>1. U \in SUBSET Bytes
    BY DEF Used48
  <2>2. \A c \in U : idx[c] \in Slots
    BY <1>2 DEF Used48
  <2>. HIDE DEF U
  <2>. QED
    BY <2>1, <2>2, BytesAre, FS_Subset
<1>5. free # {}
  <2>. SUFFICES ASSUME free = {} PROVE FALSE
    OBVIOUS
  <2>. DEFINE f == [c \in U |-> idx[c]]
  <2>1. \A s \in Slots : \E c \in U : f[c] = s
    BY <1>1
  <2>2. f \in [U -> Slots]
    BY <1>4
  <2>. HIDE DEF f, U
  <2>3. f \in Surjection(U, Slots)
    BY <2>1, <2>2 DEF Surjection
  <2>4. Cardinality(Slots) <= Cardinality(U)
    BY <1>4, <2>3, FS_Surjection
  <2>. QED
    BY <1>1, <1>2, <2>4, BytesAre
<1>6. slot \in free /\ \A i \in free : slot <= i
  <2>1. free \subseteq Nat
    BY BytesAre
  <2>. HIDE DEF free
  <2>. QED
    BY <1>5, <2>1, LeastIs
<1>7. slot \in Slots /\ slot \in Nat /\ slot # Nil /\ ch[slot] = Empty
  BY <1>6, BytesAre
<1>8. b \in Bytes /\ b # Nil /\ b \notin U /\ idx[b] = Nil
  BY <1>3, BytesAre DEF Clean, Used48
<1>9. r = [node EXCEPT !.idx[b] = slot, !.ch[slot] = child, !.n = @ + 1]
  BY <1>2, <1>3 DEF AddChild
<1>. HIDE DEF slot, free, r
<1>10. /\ r \in [kind : {"N48"}, prefix : Seq(Clean), end : BOOLEAN, n : Nat,
                idx : [Bytes -> Slots \cup {Nil}], ch : [Slots -> X \cup {Empty}]]
       /\ r.idx = i2 /\ r.ch = c2 /\ r.n = node.n + 1 /\ SameValue(r, node) /\ r.kind = "N48"
  <2>1. r = [node EXCEPT !.idx = i2, !.ch = c2, !.n = node.n + 1]
    BY <1>1, <1>9
  <2>2. /\ i2 \in [Bytes -> Slots \cup {Nil}] /\ c2 \in [Slots -> X \cup {Empty}]
        /\ node.n + 1 \in Nat
    BY <1>2, <1>7, <1>8
  <2>. HIDE DEF i2, c2, idx, ch, U
  <2>. QED
    BY <1>1, <2>1, <2>2 DEF SameValue
<1>11. /\ \A c \in Bytes : i2[c] = IF c = b THEN slot ELSE idx[c]
       /\ \A s \in Slots : c2[s] = IF s = slot THEN child ELSE ch[s]
  BY <1>2
<1>12. Used48(i2) = U \cup {b}
  BY <1>7, <1>8, <1>11 DEF Used48
<1>13. \A c \in U : idx[c] # slot
  BY <1>1, <1>7
<1>. HIDE DEF i2, c2, U, idx, ch
<1>14. Cardinality(U \cup {b}) = node.n + 1
  BY <1>1, <1>4, <1>8, FS_AddElement, ZenonT(60)
<1>15. \A c \in U \cup {b} : c2[i2[c]] \in X /\ i2[c] = IF c = b THEN slot ELSE idx[c]
  BY <1>1, <1>4, <1>7, <1>8, <1>11, <1>13, ZenonT(60)
<1>16. \A c, d \in U \cup {b} : i2[c] = i2[d] => c = d
  BY <1>1, <1>8, <1>13, <1>15
<1>17. \A s \in Slots : c2[s] # Empty => \E c \in U \cup {b} : i2[c] = s
  BY <1>1, <1>8, <1>11, <1>15
<1>18. i2[Nil] = Nil
  BY <1>1, <1>8, <1>11, BytesAre
<1>19. Sound48(r, X)
  BY <1>10, <1>12, <1>14, <1>15, <1>16, <1>17, <1>18 DEF Sound48
<1>20. Gains(r, node, b, child)
  <2>1. ChildBytes(r) = U \cup {b} /\ \A c : Child(r, c) = c2[i2[c]] /\ Child(node, c) = ch[idx[c]]
    BY <1>2, <1>10, <1>12, Node48Is DEF idx, ch
  <2>2. c2[i2[b]] = child
    BY <1>7, <1>11, <1>15
  <2>3. \A c \in U : c2[i2[c]] = ch[idx[c]]
    BY <1>4, <1>8, <1>11, <1>13, <1>15
  <2>. QED
    BY <1>3, <2>1, <2>2, <2>3 DEF Gains
<1>21. Packed(node) => Packed(r)
  <2>. SUFFICES ASSUME Packed(node) PROVE Packed(r)
    OBVIOUS
  <2>1. \A c \in U : idx[c] < node.n
    BY <1>2 DEF Packed, U, idx
  <2>2. node.n \in Slots
    BY <1>2, BytesAre DEF Slots
  <2>3. ch[node.n] = Empty
    <3>. SUFFICES ASSUME ch[node.n] # Empty PROVE FALSE
      OBVIOUS
    <3>1. PICK c \in U : idx[c] = node.n
      BY <1>1, <2>2
    <3>. QED
      BY <1>2, <2>1, <3>1
  <2>4. slot <= node.n
    BY <1>6, <2>2, <2>3 DEF free, ch
  <2>5. \A c \in U \cup {b} : i2[c] < node.n + 1
    <3>. TAKE c \in U \cup {b}
    <3>1. CASE c = b
      BY <1>2, <1>7, <1>15, <2>4, <3>1
    <3>2. CASE c # b
      <4>1. i2[c] = idx[c] /\ idx[c] < node.n /\ idx[c] \in Nat
        BY <1>4, <1>15, <2>1, <3>2, BytesAre
      <4>. QED
        BY <1>2, <4>1
    <3>. QED
      BY <3>1, <3>2
  <2>. QED
    BY <1>10, <1>12, <2>5 DEF Packed
<1>. QED
  BY <1>10, <1>19, <1>20, <1>21 DEF r

\* add_ch of a Node256 sets the child of the byte.
LEMMA Add256 ==
  ASSUME NEW X, Empty \notin X, NEW node, Sound256(node, X),
         NEW b \in Clean, b \notin ChildBytes(node), NEW child \in X
  PROVE  LET r == AddChild(node, b, child)
         IN Sound256(r, X) /\ SameValue(r, node) /\ Gains(r, node, b, child)
<1>. DEFINE r == AddChild(node, b, child)
            ch == node.ch
            U == Used256(ch)
            c2 == [ch EXCEPT ![b] = child]
<1>1. /\ node \in [kind : {"N256"}, prefix : Seq(Clean), end : BOOLEAN, n : Nat,
                   ch : [Bytes -> X \cup {Empty}]]
      /\ ch[Nil] = Empty /\ node.n = Cardinality(U)
  BY DEF Sound256
<1>2. node.kind = "N256" /\ ch \in [Bytes -> X \cup {Empty}] /\ node.n \in Nat
  BY <1>1
<1>3. ChildBytes(node) = U /\ ~IsLinear(node) /\ node.kind # "N48"
  BY <1>2, Node256Is
<1>4. IsFiniteSet(U)
  <2>1. U \in SUBSET Bytes
    BY DEF Used256
  <2>. HIDE DEF U
  <2>. QED
    BY <2>1, BytesAre, FS_Subset
<1>5. b \in Bytes /\ b # Nil /\ b \notin U
  BY <1>3, BytesAre
<1>6. r = [node EXCEPT !.ch[b] = child, !.n = @ + 1]
  BY <1>2, <1>3 DEF AddChild
<1>. HIDE DEF r
<1>7. /\ r \in [kind : {"N256"}, prefix : Seq(Clean), end : BOOLEAN, n : Nat,
                ch : [Bytes -> X \cup {Empty}]]
      /\ r.ch = c2 /\ r.n = node.n + 1 /\ SameValue(r, node) /\ r.kind = "N256"
  <2>1. r = [node EXCEPT !.ch = c2, !.n = node.n + 1]
    BY <1>1, <1>6
  <2>2. c2 \in [Bytes -> X \cup {Empty}] /\ node.n + 1 \in Nat
    BY <1>2, <1>5
  <2>. HIDE DEF c2, ch, U
  <2>. QED
    BY <1>1, <2>1, <2>2 DEF SameValue
<1>8. \A c \in Bytes : c2[c] = IF c = b THEN child ELSE ch[c]
  BY <1>2
<1>9. Used256(c2) = U \cup {b}
  <2>. HIDE DEF c2
  <2>. QED
    BY <1>5, <1>8 DEF Used256
<1>10. c2[Nil] = Empty
  BY <1>1, <1>5, <1>8, BytesAre
<1>11. U \subseteq Bytes
  BY DEF Used256
<1>. HIDE DEF c2, U, ch
<1>12. Cardinality(U \cup {b}) = node.n + 1
  BY <1>1, <1>4, <1>5, FS_AddElement
<1>13. Sound256(r, X)
  BY <1>7, <1>9, <1>10, <1>12 DEF Sound256
<1>14. Gains(r, node, b, child)
  <2>1. ChildBytes(r) = U \cup {b} /\ \A c : Child(r, c) = c2[c] /\ Child(node, c) = ch[c]
    BY <1>2, <1>7, <1>9, Node256Is DEF ch
  <2>. QED
    BY <1>3, <1>5, <1>8, <1>11, <2>1 DEF Gains
<1>. QED
  BY <1>7, <1>13, <1>14 DEF r

\* add_ch at a node that has room.
LEMMA AddChildSound ==
  ASSUME NEW X, Empty \notin X, NEW node, Sound(node, X), node.kind = "N48" => Size(node) < Cap48,
         NEW b \in Clean, b \notin ChildBytes(node), NEW child \in X
  PROVE  LET r == AddChild(node, b, child)
         IN /\ Sound(r, X) /\ SameValue(r, node) /\ Gains(r, node, b, child)
            /\ Packed(node) => Packed(r)
<1>1. CASE SoundLinear(node, X)
  <2>1. SoundLinear(AddChild(node, b, child), X)
    BY <1>1, AddLinear
  <2>2. AddChild(node, b, child).kind # "N48"
    BY <2>1, LinearIs
  <2>. QED
    BY <1>1, <2>1, <2>2, AddLinear DEF Sound, Packed
<1>2. CASE Sound48(node, X)
  <2>1. node.kind = "N48"
    BY <1>2 DEF Sound48
  <2>2. node.n < Cap48
    BY <2>1, Node48Is
  <2>. QED
    BY <1>2, <2>2, Add48 DEF Sound
<1>3. CASE Sound256(node, X)
  <2>1. Sound256(AddChild(node, b, child), X)
    BY <1>3, Add256
  <2>2. AddChild(node, b, child).kind = "N256"
    BY <2>1 DEF Sound256
  <2>. QED
    BY <1>3, <2>1, <2>2, Add256 DEF Sound, Packed
<1>. QED
  BY <1>1, <1>2, <1>3 DEF Sound

\* r has the children of node, but another one at byte b.
Replaces(r, node, b, child) ==
  /\ ChildBytes(r) = ChildBytes(node) /\ Child(r, b) = child
  /\ \A c \in ChildBytes(node) \ {b} : Child(r, c) = Child(node, c)

\* r has the children of node but the one at byte b.
Loses(r, node, b) ==
  /\ ChildBytes(r) = ChildBytes(node) \ {b}
  /\ \A c \in ChildBytes(node) \ {b} : Child(r, c) = Child(node, c)

\* A child put in the place of another leaves the node sound.
LEMMA WithChildSound ==
  ASSUME NEW X, Empty \notin X, NEW node, Sound(node, X), NEW b \in ChildBytes(node), NEW child \in X
  PROVE  LET r == WithChild(node, b, child)
         IN /\ Sound(r, X) /\ SameValue(r, node) /\ Replaces(r, node, b, child)
            /\ Packed(node) => Packed(r)
<1>. DEFINE at == Place(node, b)
            c2 == [node.ch EXCEPT ![at] = child]
            r == WithChild(node, b, child)
<1>1. r = [node EXCEPT !.ch[at] = child]
  BY DEF WithChild
<1>. HIDE DEF r
<1>2. CASE SoundLinear(node, X)
  <2>. DEFINE keys == node.keys
              ch == node.ch
              n == Len(keys)
  <2>1. /\ node \in [kind : {"N4", "N16"}, prefix : Seq(Clean), end : BOOLEAN,
                     keys : Seq(Clean), ch : Seq(X)]
        /\ Len(ch) = n /\ Increasing(keys)
    BY <1>2 DEF SoundLinear
  <2>2. /\ n \in Nat
        /\ ChildBytes(node) = {keys[i] : i \in 1..n}
        /\ \A i \in 1..n : Place(node, keys[i]) = i /\ Child(node, keys[i]) = ch[i]
    BY <1>2, LinearIs
  <2>3. at \in 1..n /\ keys[at] = b
    BY <2>2
  <2>4. /\ c2 \in Seq(X) /\ Len(c2) = n
        /\ \A i \in 1..n : c2[i] = IF i = at THEN child ELSE ch[i]
    <3>. HIDE DEF at
    <3>. QED
      BY <2>1, <2>3, ExceptSeq
  <2>5. /\ r \in [kind : {"N4", "N16"}, prefix : Seq(Clean), end : BOOLEAN,
                  keys : Seq(Clean), ch : Seq(X)]
        /\ r.keys = keys /\ r.ch = c2 /\ SameValue(r, node)
    <3>1. r = [node EXCEPT !.ch = c2]
      BY <1>1, <2>1
    <3>. HIDE DEF c2
    <3>. QED
      BY <2>1, <2>4, <3>1 DEF SameValue
  <2>. HIDE DEF c2, at
  <2>6. SoundLinear(r, X)
    BY <2>1, <2>4, <2>5 DEF SoundLinear
  <2>7. /\ ChildBytes(r) = {keys[i] : i \in 1..n} /\ r.kind # "N48"
        /\ \A i \in 1..n : Child(r, keys[i]) = c2[i]
    <3>1. /\ ChildBytes(r) = {r.keys[i] : i \in 1..Len(r.keys)} /\ r.kind # "N48"
          /\ \A i \in 1..Len(r.keys) : Child(r, r.keys[i]) = r.ch[i]
      BY <2>6, LinearIs
    <3>. QED
      BY <2>5, <3>1
  <2>8. Replaces(r, node, b, child)
    <3>1. Child(r, b) = child
      BY <2>3, <2>4, <2>7
    <3>2. \A i \in 1..n : keys[i] # b => Child(r, keys[i]) = Child(node, keys[i])
      BY <2>2, <2>3, <2>4, <2>7
    <3>3. \A c \in ChildBytes(node) \ {b} : Child(r, c) = Child(node, c)
      BY <2>2, <3>2
    <3>. QED
      BY <2>2, <2>7, <3>1, <3>3 DEF Replaces
  <2>. QED
    BY <2>5, <2>6, <2>7, <2>8 DEF Sound, Packed, r
<1>3. CASE Sound48(node, X)
  <2>. DEFINE idx == node.idx
              ch == node.ch
              U == Used48(idx)
  <2>1. /\ node \in [kind : {"N48"}, prefix : Seq(Clean), end : BOOLEAN, n : Nat,
                     idx : [Bytes -> Slots \cup {Nil}], ch : [Slots -> X \cup {Empty}]]
        /\ idx[Nil] = Nil /\ node.n = Cardinality(U)
        /\ \A c \in U : ch[idx[c]] \in X
        /\ \A c, d \in U : idx[c] = idx[d] => c = d
        /\ \A s \in Slots : ch[s] # Empty => \E c \in U : idx[c] = s
    BY <1>3 DEF Sound48
  <2>2. node.kind = "N48" /\ idx \in [Bytes -> Slots \cup {Nil}] /\ ch \in [Slots -> X \cup {Empty}]
    BY <2>1
  <2>3. ChildBytes(node) = U /\ at = idx[b] /\ \A c : Child(node, c) = ch[idx[c]]
    BY <2>2, Node48Is
  <2>4. at \in Slots /\ \A c \in U : idx[c] \in Slots
    BY <2>2, <2>3 DEF Used48
  <2>5. r.idx = idx /\ r.ch = c2 /\ r.n = node.n /\ SameValue(r, node) /\ r.kind = "N48"
        /\ r \in [kind : {"N48"}, prefix : Seq(Clean), end : BOOLEAN, n : Nat,
                  idx : [Bytes -> Slots \cup {Nil}], ch : [Slots -> X \cup {Empty}]]
    <3>1. r = [node EXCEPT !.ch = c2]
      BY <1>1, <2>1
    <3>2. c2 \in [Slots -> X \cup {Empty}]
      BY <2>2, <2>4
    <3>. HIDE DEF c2, idx, ch, U
    <3>. QED
      BY <2>1, <3>1, <3>2 DEF SameValue, idx
  <2>6. \A s \in Slots : c2[s] = IF s = at THEN child ELSE ch[s]
    BY <2>2
  <2>. HIDE DEF c2, at, U, idx, ch
  <2>7. Sound48(r, X)
    <3>1. \A c \in U : c2[idx[c]] \in X
      BY <2>1, <2>4, <2>6
    <3>2. \A s \in Slots : c2[s] # Empty => \E c \in U : idx[c] = s
      BY <2>1, <2>3, <2>6
    <3>. QED
      BY <2>1, <2>5, <3>1, <3>2 DEF Sound48, U
  <2>8. /\ ChildBytes(r) = U /\ \A c : Child(r, c) = c2[idx[c]]
    BY <2>5, Node48Is DEF U
  <2>9. Replaces(r, node, b, child)
    <3>1. Child(r, b) = child
      BY <2>3, <2>4, <2>6, <2>8
    <3>2. \A c \in U \ {b} : idx[c] # at
      BY <2>1, <2>3
    <3>3. \A c \in U \ {b} : Child(r, c) = Child(node, c)
      BY <2>3, <2>4, <2>6, <2>8, <3>2
    <3>. QED
      BY <2>3, <2>8, <3>1, <3>3 DEF Replaces
  <2>10. Packed(node) => Packed(r)
    BY <2>2, <2>5 DEF Packed, idx
  <2>. QED
    BY <2>5, <2>7, <2>9, <2>10 DEF Sound, r
<1>4. CASE Sound256(node, X)
  <2>. DEFINE ch == node.ch
              U == Used256(ch)
  <2>1. /\ node \in [kind : {"N256"}, prefix : Seq(Clean), end : BOOLEAN, n : Nat,
                     ch : [Bytes -> X \cup {Empty}]]
        /\ ch[Nil] = Empty /\ node.n = Cardinality(U)
    BY <1>4 DEF Sound256
  <2>2. node.kind = "N256" /\ ch \in [Bytes -> X \cup {Empty}]
    BY <2>1
  <2>3. ChildBytes(node) = U /\ at = b /\ \A c : Child(node, c) = ch[c]
    BY <2>2, Node256Is
  <2>4. b \in Bytes /\ b # Nil
    BY <2>1, <2>3 DEF Used256
  <2>5. r.ch = c2 /\ r.n = node.n /\ SameValue(r, node) /\ r.kind = "N256"
        /\ r \in [kind : {"N256"}, prefix : Seq(Clean), end : BOOLEAN, n : Nat,
                  ch : [Bytes -> X \cup {Empty}]]
    <3>1. r = [node EXCEPT !.ch = c2]
      BY <1>1, <2>1
    <3>2. c2 \in [Bytes -> X \cup {Empty}]
      BY <2>2, <2>3, <2>4
    <3>. HIDE DEF c2, ch, U
    <3>. QED
      BY <2>1, <3>1, <3>2 DEF SameValue
  <2>6. \A c \in Bytes : c2[c] = IF c = b THEN child ELSE ch[c]
    BY <2>2, <2>3
  <2>7. Used256(c2) = U
    <3>. HIDE DEF c2
    <3>. QED
      BY <2>3, <2>6 DEF Used256
  <2>8. U \subseteq Bytes
    BY DEF Used256
  <2>. HIDE DEF c2, at, U, ch
  <2>9. Sound256(r, X)
    BY <2>1, <2>4, <2>5, <2>6, <2>7, BytesAre DEF Sound256
  <2>10. ChildBytes(r) = U /\ \A c : Child(r, c) = c2[c]
    BY <2>5, <2>7, Node256Is
  <2>11. Replaces(r, node, b, child)
    BY <2>3, <2>4, <2>6, <2>8, <2>10 DEF Replaces
  <2>. QED
    BY <2>5, <2>9, <2>11 DEF Sound, Packed, r
<1>. QED
  BY <1>2, <1>3, <1>4 DEF Sound

\* del_ch takes away the one child and leaves the node sound.
LEMMA DelChildSound ==
  ASSUME NEW X, Empty \notin X, NEW node, Sound(node, X), NEW b \in ChildBytes(node)
  PROVE  LET r == DelChild(node, b)
         IN /\ Sound(r, X) /\ SameValue(r, node) /\ Loses(r, node, b)
            /\ r.kind = node.kind
<1>. DEFINE at == Place(node, b)
            r == DelChild(node, b)
<1>2. CASE SoundLinear(node, X)
  <2>. DEFINE keys == node.keys
              ch == node.ch
              n == Len(keys)
              k2 == RemoveAt(keys, at)
              c2 == RemoveAt(ch, at)
  <2>1. /\ node \in [kind : {"N4", "N16"}, prefix : Seq(Clean), end : BOOLEAN,
                     keys : Seq(Clean), ch : Seq(X)]
        /\ Len(ch) = n /\ Increasing(keys)
    BY <1>2 DEF SoundLinear
  <2>2. /\ n \in Nat /\ IsLinear(node) /\ node.kind # "N48" /\ node.kind # "N256"
        /\ ChildBytes(node) = {keys[i] : i \in 1..n}
        /\ \A i \in 1..n : /\ keys[i] \in Clean /\ Place(node, keys[i]) = i
                           /\ Child(node, keys[i]) = ch[i]
    BY <1>2, LinearIs
  <2>3. at \in 1..n /\ keys[at] = b
    BY <2>2
  <2>4. r = [node EXCEPT !.keys = k2, !.ch = c2]
    BY <2>2 DEF DelChild
  <2>. HIDE DEF r
  <2>5. /\ k2 \in Seq(Clean) /\ Len(k2) = n - 1
        /\ \A i \in 1..(n - 1) : k2[i] = IF i < at THEN keys[i] ELSE keys[i + 1]
    <3>1. keys \in Seq(Clean)
      BY <2>1
    <3>. HIDE DEF at
    <3>. QED
      BY <2>3, <3>1, RemoveAtIs
  <2>6. /\ c2 \in Seq(X) /\ Len(c2) = n - 1
        /\ \A i \in 1..(n - 1) : c2[i] = IF i < at THEN ch[i] ELSE ch[i + 1]
    <3>1. ch \in Seq(X) /\ at \in 1..Len(ch) /\ Len(ch) = n
      BY <2>1, <2>3
    <3>. HIDE DEF at
    <3>. QED
      BY <3>1, RemoveAtIs
  <2>. HIDE DEF k2, c2, at
  <2>7. /\ r \in [kind : {"N4", "N16"}, prefix : Seq(Clean), end : BOOLEAN,
                  keys : Seq(Clean), ch : Seq(X)]
        /\ r.keys = k2 /\ r.ch = c2 /\ SameValue(r, node) /\ r.kind = node.kind
    BY <2>1, <2>4, <2>5, <2>6 DEF SameValue
  <2>8. \A i, j \in 1..n : i < j => keys[i] < keys[j]
    BY <2>1 DEF Increasing
  <2>. DEFINE up(i) == IF i < at THEN i ELSE i + 1
  <2>9. \A i \in 1..(n - 1) : up(i) \in 1..n /\ up(i) # at /\ k2[i] = keys[up(i)] /\ c2[i] = ch[up(i)]
    BY <2>2, <2>3, <2>5, <2>6
  <2>10. \A i, j \in 1..(n - 1) : i < j => up(i) < up(j)
    BY <2>2, <2>3
  <2>11. \A j \in 1..n : j # at => \E i \in 1..(n - 1) : up(i) = j
    <3>. TAKE j \in 1..n
    <3>. HAVE j # at
    <3>1. CASE j < at
      <4>1. j \in 1..(n - 1) /\ up(j) = j
        BY <2>2, <2>3, <3>1
      <4>. QED
        BY <4>1
    <3>2. CASE j > at
      <4>1. j - 1 \in 1..(n - 1) /\ up(j - 1) = j
        BY <2>2, <2>3, <3>2
      <4>. QED
        BY <4>1
    <3>. QED
      BY <2>2, <2>3, <3>1, <3>2
  <2>. HIDE DEF up
  <2>12. Increasing(k2)
    <3>. SUFFICES ASSUME NEW i \in 1..(n - 1), NEW j \in 1..(n - 1), i < j PROVE k2[i] < k2[j]
      BY <2>5 DEF Increasing
    <3>. QED
      BY <2>8, <2>9, <2>10
  <2>13. SoundLinear(r, X)
    BY <2>5, <2>6, <2>7, <2>12 DEF SoundLinear
  <2>14. /\ ChildBytes(r) = {k2[i] : i \in 1..(n - 1)}
         /\ \A i \in 1..(n - 1) : Child(r, k2[i]) = c2[i]
    <3>1. /\ ChildBytes(r) = {r.keys[i] : i \in 1..Len(r.keys)}
          /\ \A i \in 1..Len(r.keys) : Child(r, r.keys[i]) = r.ch[i]
      BY <2>13, LinearIs
    <3>. QED
      BY <2>5, <2>7, <3>1
  <2>15. \A i, j \in 1..n : keys[i] = keys[j] => i = j
    <3>. TAKE i, j \in 1..n
    <3>. HAVE keys[i] = keys[j]
    <3>1. keys[i] = keys[j] /\ Place(node, keys[i]) = i /\ Place(node, keys[j]) = j
      BY <2>2
    <3>. QED
      BY <3>1
  <2>16. Loses(r, node, b)
    <3>1. \A c \in ChildBytes(r) : c \in ChildBytes(node) /\ c # b
      BY <2>2, <2>3, <2>9, <2>14, <2>15
    <3>2. \A j \in 1..n : keys[j] # b =>
             keys[j] \in ChildBytes(r) /\ Child(r, keys[j]) = Child(node, keys[j])
      <4>. TAKE j \in 1..n
      <4>. HAVE keys[j] # b
      <4>1. PICK i \in 1..(n - 1) : up(i) = j
        BY <2>3, <2>11
      <4>2. k2[i] = keys[j] /\ c2[i] = ch[j]
        BY <2>9, <4>1
      <4>. QED
        BY <2>2, <2>14, <4>2
    <3>3. \A c \in ChildBytes(node) \ {b} : c \in ChildBytes(r) /\ Child(r, c) = Child(node, c)
      BY <2>2, <3>2
    <3>4. ChildBytes(r) = ChildBytes(node) \ {b}
      BY <3>1, <3>3
    <3>. QED
      BY <3>3, <3>4 DEF Loses
  <2>. QED
    BY <2>7, <2>13, <2>16 DEF Sound, r
<1>3. CASE Sound48(node, X)
  <2>. DEFINE idx == node.idx
              ch == node.ch
              U == Used48(idx)
              i2 == [idx EXCEPT ![b] = Nil]
              c2 == [ch EXCEPT ![at] = Empty]
  <2>1. /\ node \in [kind : {"N48"}, prefix : Seq(Clean), end : BOOLEAN, n : Nat,
                     idx : [Bytes -> Slots \cup {Nil}], ch : [Slots -> X \cup {Empty}]]
        /\ idx[Nil] = Nil /\ node.n = Cardinality(U)
        /\ \A c \in U : ch[idx[c]] \in X
        /\ \A c, d \in U : idx[c] = idx[d] => c = d
        /\ \A s \in Slots : ch[s] # Empty => \E c \in U : idx[c] = s
    BY <1>3 DEF Sound48
  <2>2. /\ node.kind = "N48" /\ idx \in [Bytes -> Slots \cup {Nil}] /\ ch \in [Slots -> X \cup {Empty}]
        /\ node.n \in Nat
    BY <2>1
  <2>3. ChildBytes(node) = U /\ at = idx[b] /\ ~IsLinear(node) /\ \A c : Child(node, c) = ch[idx[c]]
    BY <2>2, Node48Is
  <2>4. U \subseteq Bytes /\ IsFiniteSet(U) /\ at \in Slots /\ \A c \in U : idx[c] \in Slots
    <3>1. U \in SUBSET Bytes /\ at \in Slots /\ \A c \in U : idx[c] \in Slots
      BY <2>2, <2>3 DEF Used48
    <3>. HIDE DEF U
    <3>. QED
      BY <3>1, BytesAre, FS_Subset
  <2>5. r = [node EXCEPT !.idx[b] = Nil, !.ch[at] = Empty, !.n = @ - 1]
    BY <2>2, <2>3 DEF DelChild
  <2>. HIDE DEF r
  <2>6. node.n - 1 \in Nat
    <3>. HIDE DEF U
    <3>1. Cardinality(U) = 0 <=> U = {}
      BY <2>4, FS_EmptySet
    <3>. QED
      BY <2>1, <2>2, <2>3, <3>1
  <2>7. r.idx = i2 /\ r.ch = c2 /\ r.n = node.n - 1 /\ SameValue(r, node) /\ r.kind = "N48"
        /\ r \in [kind : {"N48"}, prefix : Seq(Clean), end : BOOLEAN, n : Nat,
                  idx : [Bytes -> Slots \cup {Nil}], ch : [Slots -> X \cup {Empty}]]
    <3>1. r = [node EXCEPT !.idx = i2, !.ch = c2, !.n = node.n - 1]
      BY <2>1, <2>5
    <3>2. c2 \in [Slots -> X \cup {Empty}] /\ i2 \in [Bytes -> Slots \cup {Nil}]
      BY <2>2, <2>4
    <3>. HIDE DEF i2, c2, idx, ch, U
    <3>. QED
      BY <2>1, <2>6, <3>1, <3>2 DEF SameValue
  <2>8. /\ \A s \in Slots : c2[s] = IF s = at THEN Empty ELSE ch[s]
        /\ \A c \in Bytes : i2[c] = IF c = b THEN Nil ELSE idx[c]
    BY <2>2
  <2>9. Used48(i2) = U \ {b}
    <3>. HIDE DEF i2
    <3>. QED
      BY <2>8 DEF Used48
  <2>. HIDE DEF c2, i2, at, U, idx, ch
  <2>10. Cardinality(U \ {b}) = node.n - 1
    BY <2>1, <2>3, <2>4, FS_RemoveElement
  <2>11. \A c \in U \ {b} : i2[c] = idx[c] /\ idx[c] # at /\ c2[idx[c]] = ch[idx[c]]
    BY <2>1, <2>3, <2>4, <2>8
  <2>12. Sound48(r, X)
    <3>1. \A c \in U \ {b} : c2[i2[c]] \in X
      BY <2>1, <2>11
    <3>2. \A s \in Slots : c2[s] # Empty => \E c \in U \ {b} : i2[c] = s
      <4>. TAKE s \in Slots
      <4>. HAVE c2[s] # Empty
      <4>1. s # at /\ ch[s] # Empty
        BY <2>8
      <4>2. PICK c \in U : idx[c] = s
        BY <2>1, <4>1
      <4>. QED
        BY <2>3, <2>11, <4>1, <4>2
    <3>3. \A c, d \in U \ {b} : i2[c] = i2[d] => c = d
      BY <2>1, <2>11
    <3>4. i2[Nil] = Nil
      BY <2>1, <2>8, BytesAre
    <3>. QED
      BY <2>7, <2>9, <2>10, <3>1, <3>2, <3>3, <3>4 DEF Sound48
  <2>13. /\ ChildBytes(r) = U \ {b} /\ \A c : Child(r, c) = c2[i2[c]]
    BY <2>7, <2>9, Node48Is
  <2>14. Loses(r, node, b)
    BY <2>3, <2>11, <2>13 DEF Loses
  <2>. QED
    BY <2>2, <2>7, <2>12, <2>14 DEF Sound, r
<1>4. CASE Sound256(node, X)
  <2>. DEFINE ch == node.ch
              U == Used256(ch)
              c2 == [ch EXCEPT ![b] = Empty]
  <2>1. /\ node \in [kind : {"N256"}, prefix : Seq(Clean), end : BOOLEAN, n : Nat,
                     ch : [Bytes -> X \cup {Empty}]]
        /\ ch[Nil] = Empty /\ node.n = Cardinality(U)
    BY <1>4 DEF Sound256
  <2>2. node.kind = "N256" /\ ch \in [Bytes -> X \cup {Empty}] /\ node.n \in Nat
    BY <2>1
  <2>3. ChildBytes(node) = U /\ ~IsLinear(node) /\ node.kind # "N48" /\ \A c : Child(node, c) = ch[c]
    BY <2>2, Node256Is
  <2>4. U \subseteq Bytes /\ IsFiniteSet(U) /\ ch[b] # Empty
    <3>1. U \in SUBSET Bytes /\ ch[b] # Empty
      BY <2>3 DEF Used256
    <3>. HIDE DEF U
    <3>. QED
      BY <3>1, BytesAre, FS_Subset
  <2>5. r = [node EXCEPT !.ch[b] = Empty, !.n = @ - 1]
    BY <2>2, <2>3, <2>4 DEF DelChild
  <2>. HIDE DEF r
  <2>6. node.n - 1 \in Nat
    <3>. HIDE DEF U
    <3>1. Cardinality(U) = 0 <=> U = {}
      BY <2>4, FS_EmptySet
    <3>. QED
      BY <2>1, <2>2, <2>3, <3>1
  <2>7. r.ch = c2 /\ r.n = node.n - 1 /\ SameValue(r, node) /\ r.kind = "N256"
        /\ r \in [kind : {"N256"}, prefix : Seq(Clean), end : BOOLEAN, n : Nat,
                  ch : [Bytes -> X \cup {Empty}]]
    <3>1. r = [node EXCEPT !.ch = c2, !.n = node.n - 1]
      BY <2>1, <2>5
    <3>2. c2 \in [Bytes -> X \cup {Empty}]
      BY <2>2
    <3>. HIDE DEF c2, ch, U
    <3>. QED
      BY <2>1, <2>6, <3>1, <3>2 DEF SameValue
  <2>8. \A c \in Bytes : c2[c] = IF c = b THEN Empty ELSE ch[c]
    BY <2>2
  <2>9. Used256(c2) = U \ {b}
    <3>. HIDE DEF c2
    <3>. QED
      BY <2>8 DEF Used256
  <2>. HIDE DEF c2, U, ch
  <2>10. Cardinality(U \ {b}) = node.n - 1
    BY <2>1, <2>3, <2>4, FS_RemoveElement
  <2>11. Sound256(r, X)
    BY <2>1, <2>7, <2>8, <2>9, <2>10, BytesAre DEF Sound256
  <2>12. ChildBytes(r) = U \ {b} /\ \A c : Child(r, c) = c2[c]
    BY <2>7, <2>9, Node256Is
  <2>13. Loses(r, node, b)
    BY <2>3, <2>4, <2>8, <2>12 DEF Loses
  <2>. QED
    BY <2>2, <2>7, <2>11, <2>13 DEF Sound, r
<1>. QED
  BY <1>2, <1>3, <1>4 DEF Sound

\* Another prefix, another end, or room for more children, change no child.
Retitle(node, p, e) == [node EXCEPT !.prefix = p, !.end = e]
\* r is node with prefix p and flag e.
RetitledAs(r, node, Y, p, e) ==
  /\ Sound(r, Y) /\ r.prefix = p /\ r.end = e /\ r.kind = node.kind
  /\ Size(r) = Size(node) /\ SameChildren(r, node)
  /\ Packed(node) => Packed(r)

\* A new prefix and flag leave a sound node sound, with the same children.
LEMMA Retitled ==
  ASSUME NEW X, NEW Y, X \subseteq Y, NEW node, Sound(node, X), NEW p \in Seq(Clean), NEW e \in BOOLEAN
  PROVE  RetitledAs(Retitle(node, p, e), node, Y, p, e)
<1>. DEFINE r == [node EXCEPT !.prefix = p, !.end = e]
<1>1. CASE SoundLinear(node, X)
  <2>1. /\ node \in [kind : {"N4", "N16"}, prefix : Seq(Clean), end : BOOLEAN,
                     keys : Seq(Clean), ch : Seq(X)]
        /\ Len(node.ch) = Len(node.keys) /\ Increasing(node.keys)
    BY <1>1 DEF SoundLinear
  <2>2. node.ch \in Seq(Y)
    BY <2>1, SeqMonotonic
  <2>3. /\ r \in [kind : {"N4", "N16"}, prefix : Seq(Clean), end : BOOLEAN,
                  keys : Seq(Clean), ch : Seq(Y)]
        /\ r.keys = node.keys /\ r.ch = node.ch /\ r.kind = node.kind /\ r.prefix = p /\ r.end = e
    BY <2>1, <2>2
  <2>. HIDE DEF r
  <2>5. SoundLinear(r, Y)
    BY <2>1, <2>3 DEF SoundLinear
  <2>6. SameChildren(r, node) /\ Size(r) = Size(node) /\ r.kind # "N48"
    <3>1. IsLinear(node) /\ IsLinear(r) /\ r.kind # "N48"
      BY <1>1, <2>5, LinearIs
    <3>2. ChildBytes(r) = ChildBytes(node) /\ Size(r) = Size(node)
      BY <2>3, <3>1 DEF ChildBytes, Size
    <3>3. \A b : Place(r, b) = Place(node, b)
      BY <2>3, <3>1 DEF Place
    <3>. QED
      BY <2>3, <3>1, <3>2, <3>3 DEF SameChildren, Child
  <2>. QED
    BY <2>3, <2>5, <2>6 DEF Sound, Packed, r, Retitle, RetitledAs
<1>2. CASE Sound48(node, X)
  <2>1. node \in [kind : {"N48"}, prefix : Seq(Clean), end : BOOLEAN, n : Nat,
                  idx : [Bytes -> Slots \cup {Nil}], ch : [Slots -> X \cup {Empty}]]
    BY <1>2 DEF Sound48
  <2>2. node.ch \in [Slots -> Y \cup {Empty}]
    BY <2>1
  <2>3. /\ r \in [kind : {"N48"}, prefix : Seq(Clean), end : BOOLEAN, n : Nat,
                  idx : [Bytes -> Slots \cup {Nil}], ch : [Slots -> Y \cup {Empty}]]
        /\ r.idx = node.idx /\ r.ch = node.ch /\ r.n = node.n /\ r.kind = "N48"
        /\ node.kind = "N48" /\ r.prefix = p /\ r.end = e
    BY <2>1, <2>2
  <2>. HIDE DEF r
  <2>5. Sound48(r, Y)
    BY <1>2, <2>3 DEF Sound48
  <2>6. Packed(node) => Packed(r)
    BY <2>3 DEF Packed
  <2>7. SameChildren(r, node) /\ Size(r) = Size(node)
    BY <2>3, Node48Is DEF SameChildren
  <2>. QED
    BY <2>3, <2>5, <2>6, <2>7 DEF Sound, r, Retitle, RetitledAs
<1>3. CASE Sound256(node, X)
  <2>1. node \in [kind : {"N256"}, prefix : Seq(Clean), end : BOOLEAN, n : Nat,
                  ch : [Bytes -> X \cup {Empty}]]
    BY <1>3 DEF Sound256
  <2>2. node.ch \in [Bytes -> Y \cup {Empty}]
    BY <2>1
  <2>3. /\ r \in [kind : {"N256"}, prefix : Seq(Clean), end : BOOLEAN, n : Nat,
                  ch : [Bytes -> Y \cup {Empty}]]
        /\ r.ch = node.ch /\ r.n = node.n /\ r.kind = "N256"
        /\ node.kind = "N256" /\ r.prefix = p /\ r.end = e
    BY <2>1, <2>2
  <2>. HIDE DEF r
  <2>5. Sound256(r, Y)
    BY <1>3, <2>3 DEF Sound256
  <2>6. SameChildren(r, node) /\ Size(r) = Size(node)
    BY <2>3, Node256Is DEF SameChildren
  <2>. QED
    BY <2>3, <2>5, <2>6 DEF Sound, Packed, r, Retitle, RetitledAs
<1>. QED
  BY <1>1, <1>2, <1>3 DEF Sound

\* A change of the prefix, or of the flag, is a Retitle.
LEMMA RetitleIs ==
  ASSUME NEW X, NEW node, Sound(node, X)
  PROVE  /\ \A p : [node EXCEPT !.prefix = p] = Retitle(node, p, node.end)
         /\ \A e : [node EXCEPT !.end = e] = Retitle(node, node.prefix, e)
         /\ node = Retitle(node, node.prefix, node.end)
<1>1. CASE SoundLinear(node, X)
  <2>1. node \in [kind : {"N4", "N16"}, prefix : Seq(Clean), end : BOOLEAN,
                  keys : Seq(Clean), ch : Seq(X)]
    BY <1>1 DEF SoundLinear
  <2>. QED
    BY <2>1 DEF Retitle
<1>2. CASE Sound48(node, X)
  <2>1. node \in [kind : {"N48"}, prefix : Seq(Clean), end : BOOLEAN, n : Nat,
                  idx : [Bytes -> Slots \cup {Nil}], ch : [Slots -> X \cup {Empty}]]
    BY <1>2 DEF Sound48
  <2>. QED
    BY <2>1 DEF Retitle
<1>3. CASE Sound256(node, X)
  <2>1. node \in [kind : {"N256"}, prefix : Seq(Clean), end : BOOLEAN, n : Nat,
                  ch : [Bytes -> X \cup {Empty}]]
    BY <1>3 DEF Sound256
  <2>. QED
    BY <2>1 DEF Retitle
<1>. QED
  BY <1>1, <1>2, <1>3 DEF Sound

\* What a change of kind keeps.
Recast(r, node, X) == Sound(r, X) /\ SameValue(r, node) /\ SameChildren(r, node) /\ Packed(r)

\* A Node4 becomes a Node16, and back, by its name alone.
LEMMA N4Grows ==
  ASSUME NEW X, NEW node, SoundLinear(node, X), NEW k \in {"N4", "N16"}
  PROVE  LET r == [node EXCEPT !.kind = k]
         IN Recast(r, node, X) /\ r.kind = k
<1>. DEFINE r == [node EXCEPT !.kind = k]
<1>1. /\ node \in [kind : {"N4", "N16"}, prefix : Seq(Clean), end : BOOLEAN,
                   keys : Seq(Clean), ch : Seq(X)]
      /\ Len(node.ch) = Len(node.keys) /\ Increasing(node.keys)
  BY DEF SoundLinear
<1>2. /\ r \in [kind : {"N4", "N16"}, prefix : Seq(Clean), end : BOOLEAN,
                keys : Seq(Clean), ch : Seq(X)]
      /\ r.keys = node.keys /\ r.ch = node.ch /\ r.kind = k /\ SameValue(r, node)
  BY <1>1 DEF SameValue
<1>. HIDE DEF r
<1>3. SoundLinear(r, X)
  BY <1>1, <1>2 DEF SoundLinear
<1>4. SameChildren(r, node) /\ r.kind # "N48"
  <2>1. IsLinear(node) /\ IsLinear(r) /\ r.kind # "N48"
    BY <1>3, LinearIs
  <2>2. ChildBytes(r) = ChildBytes(node)
    BY <1>2, <2>1 DEF ChildBytes
  <2>3. \A b : Place(r, b) = Place(node, b)
    BY <1>2, <2>1 DEF Place
  <2>. QED
    BY <1>2, <2>1, <2>2, <2>3 DEF SameChildren, Child
<1>. QED
  BY <1>2, <1>3, <1>4 DEF Sound, Recast, Packed, r

\* n16_to_n48 keeps the children, and its slots are packed.
LEMMA N16To48 ==
  ASSUME NEW X, Empty \notin X, NEW node, SoundLinear(node, X), Len(node.keys) = Cap16
  PROVE  LET r == N16ToN48(node)
         IN Recast(r, node, X) /\ r.kind = "N48" /\ Size(r) = Cap16
<1>. DEFINE r == N16ToN48(node)
            keys == node.keys
            ch == node.ch
            n == Len(keys)
            idx == [b \in Bytes |-> IF b \in ToSet(keys) THEN Place(node, b) - 1 ELSE Nil]
            c2 == [s \in Slots |-> IF s < Len(ch) THEN ch[s + 1] ELSE Empty]
<1>1. /\ node \in [kind : {"N4", "N16"}, prefix : Seq(Clean), end : BOOLEAN,
                   keys : Seq(Clean), ch : Seq(X)]
      /\ Len(ch) = n /\ Increasing(keys)
  BY DEF SoundLinear
<1>2. /\ n \in Nat /\ n = Cap16 /\ DOMAIN keys = 1..n
      /\ ChildBytes(node) = {keys[i] : i \in 1..n}
      /\ \A i \in 1..n : /\ keys[i] \in Clean /\ ch[i] \in X /\ Place(node, keys[i]) = i
                         /\ Child(node, keys[i]) = ch[i]
  BY LinearIs
<1>3. ToSet(keys) = ChildBytes(node)
  BY <1>1, <1>2, ElementsOf
<1>. DEFINE U == ChildBytes(node)
<1>4. \A i \in 1..n : i - 1 \in Slots /\ i - 1 # Nil /\ i - 1 < Len(ch) /\ (i - 1) + 1 = i
  BY <1>1, <1>2, BytesAre DEF Slots
<1>5. \A b \in U : /\ b \in Clean /\ Place(node, b) \in 1..n
                   /\ ch[Place(node, b)] \in X /\ Child(node, b) = ch[Place(node, b)]
                   /\ keys[Place(node, b)] = b
  BY <1>2
<1>6. \A b \in U : idx[b] = Place(node, b) - 1 /\ idx[b] \in Slots /\ idx[b] # Nil
  <2>. TAKE b \in U
  <2>1. b \in Bytes
    BY <1>5, BytesAre
  <2>2. idx[b] = Place(node, b) - 1
    BY <1>3, <2>1
  <2>. QED
    BY <1>4, <1>5, <2>2
<1>7. \A b \in Bytes \ U : idx[b] = Nil
  BY <1>3
<1>8. U \subseteq Bytes
  BY <1>5, BytesAre
<1>9. \A b \in U : c2[idx[b]] = Child(node, b) /\ c2[idx[b]] \in X
  <2>. TAKE b \in U
  <2>. DEFINE i == Place(node, b)
  <2>1. i \in 1..n /\ idx[b] = i - 1
    BY <1>5, <1>6
  <2>2. c2[i - 1] = ch[i]
    <3>. HIDE DEF i
    <3>. QED
      BY <1>4, <2>1
  <2>. HIDE DEF c2, idx, n
  <2>. QED
    BY <1>5, <2>1, <2>2
<1>10. \A s \in Slots : c2[s] # Empty => \E b \in U : idx[b] = s
  <2>. TAKE s \in Slots
  <2>. HAVE c2[s] # Empty
  <2>1. s < n /\ s \in Nat
    BY <1>1, BytesAre
  <2>2. s + 1 \in 1..n /\ (s + 1) - 1 = s
    BY <1>2, <2>1
  <2>3. keys[s + 1] \in U /\ Place(node, keys[s + 1]) = s + 1
    BY <1>2, <2>2
  <2>. QED
    BY <1>6, <2>2, <2>3
<1>11. idx \in [Bytes -> Slots \cup {Nil}]
  BY <1>6, <1>7
<1>12. c2 \in [Slots -> X \cup {Empty}]
  <2>. SUFFICES ASSUME NEW s \in Slots PROVE c2[s] \in X \cup {Empty}
    OBVIOUS
  <2>1. CASE s < Len(ch)
    <3>1. s + 1 \in 1..n
      BY <1>1, <1>2, <2>1, BytesAre
    <3>. QED
      BY <1>2, <2>1, <3>1
  <2>. QED
    BY <2>1
<1>13. idx[Nil] = Nil
  <2>1. Nil \in Bytes /\ Nil \notin U
    BY <1>5, BytesAre
  <2>. QED
    BY <1>7, <2>1
<1>14. \A b, c \in U : idx[b] = idx[c] => b = c
  <2>. TAKE b, c \in U
  <2>. HAVE idx[b] = idx[c]
  <2>1. Place(node, b) - 1 = Place(node, c) - 1 /\ Place(node, b) \in Int /\ Place(node, c) \in Int
    BY <1>5, <1>6
  <2>2. Place(node, b) = Place(node, c)
    BY <2>1
  <2>. QED
    BY <1>5, <2>2
<1>15. r = Node48(node.prefix, node.end, n, idx, c2)
  BY DEF N16ToN48
<1>. HIDE DEF r, idx, c2
<1>16. Used48(idx) = U
  BY <1>6, <1>7, <1>8 DEF Used48
<1>17. Cardinality(U) = n
  BY SoundIs, LinearIs DEF Sound
<1>18. /\ r \in [kind : {"N48"}, prefix : Seq(Clean), end : BOOLEAN, n : Nat,
                 idx : [Bytes -> Slots \cup {Nil}], ch : [Slots -> X \cup {Empty}]]
       /\ r.idx = idx /\ r.ch = c2 /\ r.n = n /\ r.kind = "N48" /\ SameValue(r, node)
  BY <1>1, <1>2, <1>11, <1>12, <1>15 DEF Node48, SameValue
<1>. HIDE DEF U, n, keys, ch
<1>19. Sound48(r, X)
  BY <1>9, <1>10, <1>13, <1>14, <1>16, <1>17, <1>18 DEF Sound48
<1>20. SameChildren(r, node) /\ Size(r) = n
  <2>1. ChildBytes(r) = U /\ Size(r) = n /\ \A b : Child(r, b) = c2[idx[b]]
    BY <1>16, <1>18, Node48Is
  <2>. QED
    BY <1>9, <2>1 DEF SameChildren, U
<1>21. Packed(r)
  <2>1. \A b \in U : idx[b] < n
    BY <1>2, <1>5, <1>6
  <2>. QED
    BY <1>16, <1>18, <2>1 DEF Packed
<1>. QED
  BY <1>2, <1>18, <1>19, <1>20, <1>21 DEF Recast, Sound, r

\* n48_to_n256 keeps the children when none has the last byte.
LEMMA N48To256 ==
  ASSUME NEW X, Empty \notin X, NEW node, Sound48(node, X)
  PROVE  LET r == N48ToN256(node)
         IN Recast(r, node, X) /\ r.kind = "N256"
<1>. DEFINE r == N48ToN256(node)
            idx == node.idx
            ch == node.ch
            U == Used48(idx)
            lead(s) == {b \in Bytes : node.idx[b] # Nil /\ node.idx[b] = s}
            slotByte(s) == IF lead(s) = {} THEN Nil ELSE Max(lead(s))
            filled(b) == {s \in Slots : slotByte(s) = b /\ b # Nil}
            c2 == [b \in Bytes |-> IF filled(b) = {} THEN Empty ELSE node.ch[Max(filled(b))]]
<1>1. /\ node \in [kind : {"N48"}, prefix : Seq(Clean), end : BOOLEAN, n : Nat,
                   idx : [Bytes -> Slots \cup {Nil}], ch : [Slots -> X \cup {Empty}]]
      /\ idx[Nil] = Nil /\ node.n = Cardinality(U)
      /\ \A c \in U : ch[idx[c]] \in X
      /\ \A c, d \in U : idx[c] = idx[d] => c = d
  BY DEF Sound48
<1>2. /\ node.kind = "N48" /\ idx \in [Bytes -> Slots \cup {Nil}] /\ node.n \in Nat
  BY <1>1
<1>3. ChildBytes(node) = U /\ \A c : Child(node, c) = ch[idx[c]]
  BY <1>2, Node48Is
<1>4. U \subseteq Bytes /\ Nil \notin U /\ \A c \in U : idx[c] \in Slots /\ idx[c] # Nil
  BY <1>1, <1>2 DEF Used48
<1>5. r = Node256(node.prefix, node.end, node.n, c2)
  BY DEF N48ToN256
<1>6. \A b \in U : lead(idx[b]) = {b} /\ slotByte(idx[b]) = b
  <2>. TAKE b \in U
  <2>. DEFINE L == lead(idx[b])
  <2>1. L = {b}
    BY <1>1, <1>4 DEF Used48
  <2>2. L # {} /\ L \subseteq 0..MaxByte
    BY <2>1 DEF Bytes
  <2>. HIDE DEF L
  <2>3. Max(L) \in L
    BY <2>2, BytesAre, GreatestIs
  <2>4. Max(L) = b
    BY <2>1, <2>3
  <2>. QED
    BY <2>1, <2>2, <2>4 DEF L
<1>7. \A s \in Slots : slotByte(s) # Nil => slotByte(s) \in U /\ idx[slotByte(s)] = s
  <2>. TAKE s \in Slots
  <2>. HAVE slotByte(s) # Nil
  <2>. DEFINE L == lead(s)
  <2>1. L # {} /\ slotByte(s) = Max(L)
    OBVIOUS
  <2>2. L \subseteq 0..MaxByte
    BY DEF Bytes
  <2>3. Max(L) \in L
    <3>. HIDE DEF L
    <3>. QED
      BY <2>1, <2>2, BytesAre, GreatestIs
  <2>4. Max(L) \in U /\ idx[Max(L)] = s
    BY <2>3 DEF Used48
  <2>. HIDE DEF L, slotByte
  <2>. QED
    BY <2>1, <2>4
<1>. HIDE DEF slotByte
<1>8. \A b \in U : filled(b) = {idx[b]}
  <2>. TAKE b \in U
  <2>1. idx[b] \in filled(b)
    BY <1>4, <1>6
  <2>2. \A s \in filled(b) : s = idx[b]
    BY <1>7
  <2>. QED
    BY <2>1, <2>2
<1>9. \A b \in Bytes \ U : filled(b) = {}
  BY <1>7
<1>10. \A b \in U : c2[b] = ch[idx[b]]
  <2>. TAKE b \in U
  <2>. DEFINE F == filled(b)
  <2>1. F = {idx[b]} /\ idx[b] \in Slots
    BY <1>4, <1>8
  <2>2. c2[b] = ch[Max(F)]
    BY <1>4, <2>1
  <2>3. Max(F) \in F
    <3>1. F # {} /\ F \subseteq 0..Cap48
      BY <2>1, BytesAre DEF Slots
    <3>. HIDE DEF F
    <3>. QED
      BY <3>1, BytesAre, GreatestIs
  <2>. HIDE DEF F, c2, ch
  <2>. QED
    BY <2>1, <2>2, <2>3
<1>11. \A b \in Bytes \ U : c2[b] = Empty
  BY <1>9
<1>12. c2 \in [Bytes -> X \cup {Empty}]
  <2>1. \A b \in Bytes : c2[b] \in X \cup {Empty}
    <3>. HIDE DEF c2, U, ch, idx
    <3>. QED
      BY <1>1, <1>10, <1>11
  <2>. QED
    BY <2>1
<1>. HIDE DEF c2, r, U, ch, idx
<1>13. /\ r \in [kind : {"N256"}, prefix : Seq(Clean), end : BOOLEAN, n : Nat,
                 ch : [Bytes -> X \cup {Empty}]]
       /\ r.ch = c2 /\ r.n = node.n /\ r.kind = "N256" /\ SameValue(r, node)
  BY <1>1, <1>2, <1>5, <1>12 DEF Node256, SameValue
<1>14. Used256(c2) = U
  BY <1>1, <1>4, <1>10, <1>11 DEF Used256
<1>15. Sound256(r, X)
  BY <1>1, <1>4, <1>11, <1>13, <1>14, BytesAre DEF Sound256
<1>16. SameChildren(r, node)
  <2>1. ChildBytes(r) = U /\ \A b : Child(r, b) = c2[b]
    BY <1>13, <1>14, Node256Is
  <2>. QED
    BY <1>3, <1>10, <2>1 DEF SameChildren
<1>. QED
  BY <1>13, <1>15, <1>16 DEF Recast, Sound, Packed, r

\* A sound Node48 has no more children than slots.
LEMMA AtMost48 ==
  ASSUME NEW X, NEW node, Sound(node, X), node.kind = "N48"
  PROVE  Size(node) \in Nat /\ Size(node) <= Cap48
<1>1. Sound48(node, X)
  BY DEF Sound, SoundLinear, Sound256
<1>. DEFINE U == Used48(node.idx)
            f == [b \in U |-> node.idx[b]]
<1>2. /\ node.idx \in [Bytes -> Slots \cup {Nil}] /\ Size(node) = Cardinality(U)
      /\ \A b, c \in U : node.idx[b] = node.idx[c] => b = c
  BY <1>1, Node48Is DEF Sound48
<1>3. f \in [U -> Slots] /\ \A b, c \in U : f[b] = f[c] => b = c
  BY <1>2 DEF Used48
<1>. HIDE DEF f, U
<1>4. f \in Injection(U, Slots)
  BY <1>3 DEF Injection, IsInjective
<1>5. Cardinality(U) <= Cardinality(Slots) /\ IsFiniteSet(U)
  BY <1>4, BytesAre, FS_Injection
<1>6. Cardinality(U) \in Nat /\ Cardinality(Slots) = Cap48 /\ Cap48 \in Nat
  BY <1>5, BytesAre, FS_CardinalityType
<1>. QED
  BY <1>2, <1>5, <1>6

\* node_maybe_grow keeps what a node holds and leaves room.
LEMMA GrownSound ==
  ASSUME NEW X, Empty \notin X, NEW node, Sound(node, X)
  PROVE  LET r == Grown(node)
         IN /\ Sound(r, X) /\ SameValue(r, node) /\ SameChildren(r, node)
            /\ Packed(node) => Packed(r)
            /\ r.kind = "N48" => Size(r) < Cap48
<1>. DEFINE r == Grown(node)
<1>0. Cap16 < Cap48
  BY BytesAre
<1>1. CASE node.kind = "N4" /\ Size(node) = Cap4
  <2>1. SoundLinear(node, X)
    BY <1>1 DEF Sound, Sound48, Sound256
  <2>2. r = [node EXCEPT !.kind = "N16"]
    BY <1>1 DEF Grown
  <2>3. Recast(r, node, X) /\ r.kind = "N16"
    BY <2>1, <2>2, N4Grows, ZenonT(60)
  <2>. QED
    BY <2>3 DEF Recast
<1>2. CASE node.kind = "N16" /\ Size(node) = Cap16
  <2>1. SoundLinear(node, X)
    BY <1>2 DEF Sound, Sound48, Sound256
  <2>2. r = N16ToN48(node)
    BY <1>2 DEF Grown
  <2>3. Len(node.keys) = Cap16
    BY <1>2, <2>1, LinearIs
  <2>4. Recast(r, node, X) /\ r.kind = "N48" /\ Size(r) = Cap16
    BY <2>1, <2>2, <2>3, N16To48
  <2>. QED
    BY <1>0, <2>4 DEF Recast
<1>3. CASE node.kind = "N48" /\ Size(node) = Cap48
  <2>1. Sound48(node, X)
    BY <1>3 DEF Sound, SoundLinear, Sound256
  <2>2. r = N48ToN256(node)
    BY <1>3 DEF Grown
  <2>3. Recast(r, node, X) /\ r.kind = "N256"
    BY <2>1, <2>2, N48To256
  <2>. QED
    BY <2>3 DEF Recast
<1>4. CASE /\ ~(node.kind = "N4" /\ Size(node) = Cap4)
           /\ ~(node.kind = "N16" /\ Size(node) = Cap16)
           /\ ~(node.kind = "N48" /\ Size(node) = Cap48)
  <2>1. r = node
    BY <1>4 DEF Grown
  <2>2. node.kind = "N48" => Size(node) < Cap48
    BY <1>4, BytesAre, AtMost48
  <2>. QED
    BY <2>1, <2>2 DEF SameValue, SameChildren
<1>. QED
  BY <1>1, <1>2, <1>3, <1>4

\* n48_to_n16 keeps the children and sorts them by byte.
LEMMA N48To16 ==
  ASSUME NEW X, Empty \notin X, NEW node, Sound48(node, X)
  PROVE  LET r == N48ToN16(node)
         IN Recast(r, node, X) /\ r.kind = "N16"
<1>. DEFINE r == N48ToN16(node)
            idx == node.idx
            ch == node.ch
            U == Used48(idx)
            used == Ascending(U)
            n == node.n
            taken(i) == \E j \in 1 .. i - 1 : idx[used[j]] = idx[used[i]]
            size == Max({n, Len(used)})
            keys == [i \in 1 .. size |-> IF i <= Len(used) THEN used[i] ELSE 0]
            c2 == [i \in 1 .. size |-> IF i <= Len(used) /\ ~taken(i)
                                       THEN ch[idx[used[i]]] ELSE Empty]
<1>1. /\ node \in [kind : {"N48"}, prefix : Seq(Clean), end : BOOLEAN, n : Nat,
                   idx : [Bytes -> Slots \cup {Nil}], ch : [Slots -> X \cup {Empty}]]
      /\ idx[Nil] = Nil /\ n = Cardinality(U)
      /\ \A c \in U : ch[idx[c]] \in X
      /\ \A c, d \in U : idx[c] = idx[d] => c = d
  BY DEF Sound48
<1>2. node.kind = "N48" /\ n \in Nat
  BY <1>1
<1>3. ChildBytes(node) = U /\ \A c : Child(node, c) = ch[idx[c]]
  BY <1>2, Node48Is
<1>4. U \subseteq Clean /\ U \subseteq Nat /\ IsFiniteSet(U)
  <2>1. U \in SUBSET Bytes /\ U \subseteq Clean
    BY <1>1 DEF Used48, Clean
  <2>. HIDE DEF U
  <2>. QED
    BY <2>1, BytesAre, FS_Subset
<1>5. r = Linear("N16", node.prefix, node.end, keys, c2)
  BY <1>3 DEF N48ToN16
<1>6. /\ used \in Seq(U) /\ Len(used) = n /\ Increasing(used) /\ ToSet(used) = U
      /\ \A i \in 1..n : used[i] \in U
  <2>. HIDE DEF U, n
  <2>. QED
    BY <1>1, <1>4, AscendingIs
<1>. HIDE DEF U, used, n
<1>7. size = n
  <2>1. size = Max({n})
    BY <1>6
  <2>2. {n} \subseteq 0..n
    BY <1>2
  <2>3. Max({n}) \in {n}
    BY <1>2, <2>2, GreatestIs
  <2>. QED
    BY <2>1, <2>3
<1>. HIDE DEF size
<1>8. \A i \in 1..n : ~taken(i)
  <2>. TAKE i \in 1..n
  <2>. SUFFICES ASSUME NEW j \in 1..(i - 1), idx[used[j]] = idx[used[i]] PROVE FALSE
    OBVIOUS
  <2>1. j \in 1..n /\ j < i
    BY <1>2
  <2>2. used[j] < used[i] /\ used[j] \in U /\ used[i] \in U
    BY <1>6, <2>1 DEF Increasing
  <2>3. used[j] = used[i] /\ used[i] \in Nat
    BY <1>1, <1>4, <2>2
  <2>. QED
    BY <2>2, <2>3
<1>. HIDE DEF taken
<1>9. keys = [i \in 1..n |-> used[i]] /\ c2 = [i \in 1..n |-> ch[idx[used[i]]]]
  <2>1. \A i \in 1..n : i <= n
    BY <1>2
  <2>2. keys = [i \in 1..n |-> used[i]]
    BY <1>6, <1>7, <2>1
  <2>3. c2 = [i \in 1..n |-> ch[idx[used[i]]]]
    BY <1>6, <1>7, <1>8, <2>1
  <2>. QED
    BY <2>2, <2>3
<1>. HIDE DEF keys, c2, r
<1>10. keys \in Seq(Clean) /\ Len(keys) = n /\ \A i \in 1..n : keys[i] = used[i]
  <2>1. keys \in [1..n -> Clean] /\ \A i \in 1..n : keys[i] = used[i]
    BY <1>4, <1>6, <1>9
  <2>. QED
    BY <1>2, <2>1
<1>11. c2 \in Seq(X) /\ Len(c2) = n /\ \A i \in 1..n : c2[i] = ch[idx[used[i]]]
  <2>1. c2 \in [1..n -> X] /\ \A i \in 1..n : c2[i] = ch[idx[used[i]]]
    BY <1>1, <1>6, <1>9
  <2>. QED
    BY <1>2, <2>1
<1>12. /\ r \in [kind : {"N4", "N16"}, prefix : Seq(Clean), end : BOOLEAN,
                 keys : Seq(Clean), ch : Seq(X)]
       /\ r.keys = keys /\ r.ch = c2 /\ r.kind = "N16" /\ SameValue(r, node)
  BY <1>1, <1>5, <1>10, <1>11 DEF Linear, SameValue
<1>13. Increasing(keys)
  BY <1>6, <1>10 DEF Increasing
<1>14. SoundLinear(r, X)
  BY <1>10, <1>11, <1>12, <1>13 DEF SoundLinear
<1>15. SameChildren(r, node)
  <2>1. /\ ChildBytes(r) = {r.keys[i] : i \in 1..Len(r.keys)}
        /\ \A i \in 1..Len(r.keys) : Child(r, r.keys[i]) = r.ch[i]
    BY <1>14, LinearIs
  <2>2. /\ ChildBytes(r) = {used[i] : i \in 1..n}
        /\ \A i \in 1..n : Child(r, used[i]) = ch[idx[used[i]]]
    BY <1>10, <1>11, <1>12, <2>1
  <2>3. ToSet(used) = {used[i] : i \in 1..n}
    BY <1>6, ElementsOf
  <2>4. \A b \in U : Child(r, b) = ch[idx[b]]
    BY <1>6, <2>2, <2>3
  <2>. QED
    BY <1>3, <1>6, <2>2, <2>3, <2>4 DEF SameChildren
<1>. QED
  BY <1>12, <1>14, <1>15 DEF Recast, Sound, Packed, r

\* n256_to_n48 keeps the children, and its slots are packed.
LEMMA N256To48 ==
  ASSUME NEW X, Empty \notin X, NEW node, Sound256(node, X), node.n <= Cap48
  PROVE  LET r == N256ToN48(node)
         IN Recast(r, node, X) /\ r.kind = "N48"
<1>. DEFINE r == N256ToN48(node)
            ch == node.ch
            U == Used256(ch)
            used == Ascending(U)
            n == node.n
            idx == [b \in Bytes |-> IF b \in U THEN Rank(U, b) ELSE Nil]
            c2 == [s \in Slots |-> IF s < Len(used) THEN ch[used[s + 1]] ELSE Empty]
<1>1. /\ node \in [kind : {"N256"}, prefix : Seq(Clean), end : BOOLEAN, n : Nat,
                   ch : [Bytes -> X \cup {Empty}]]
      /\ ch[Nil] = Empty /\ n = Cardinality(U)
  BY DEF Sound256
<1>2. node.kind = "N256" /\ n \in Nat
  BY <1>1
<1>3. ChildBytes(node) = U /\ \A c : Child(node, c) = ch[c]
  BY <1>2, Node256Is
<1>4. U \subseteq Clean /\ U \subseteq Nat /\ IsFiniteSet(U) /\ U \subseteq Bytes
      /\ \A b \in U : ch[b] \in X
  <2>1. U \in SUBSET Bytes /\ U \subseteq Clean /\ \A b \in U : ch[b] \in X
    BY <1>1 DEF Used256, Clean
  <2>. HIDE DEF U
  <2>. QED
    BY <2>1, BytesAre, FS_Subset
<1>5. r = Node48(node.prefix, node.end, n, idx, c2)
  BY <1>3 DEF N256ToN48, Rank
<1>6. /\ Len(used) = n
      /\ \A i \in 1..n : used[i] \in U /\ Rank(U, used[i]) = i - 1
      /\ \A b \in U : Rank(U, b) + 1 \in 1..n /\ used[Rank(U, b) + 1] = b
  <2>. HIDE DEF U, n
  <2>. QED
    BY <1>1, <1>4, AscendingIs
<1>7. \A b \in U : Rank(U, b) \in Nat /\ Rank(U, b) < n
  <2>. HIDE DEF U, n
  <2>. QED
    BY <1>1, <1>4, RankGrows
<1>. HIDE DEF U, used, n, ch
<1>8. \A s \in Nat : s < n => s \in Slots
  BY <1>2, BytesAre DEF Slots, n
<1>9. \A b \in U : idx[b] = Rank(U, b) /\ idx[b] \in Slots /\ idx[b] # Nil /\ idx[b] < n
  BY <1>4, <1>7, <1>8, BytesAre
<1>10. \A b \in Bytes \ U : idx[b] = Nil
  OBVIOUS
<1>11. \A b \in U : c2[idx[b]] = ch[b]
  BY <1>6, <1>9
<1>12. \A s \in Slots : c2[s] # Empty => \E b \in U : idx[b] = s
  <2>. TAKE s \in Slots
  <2>. HAVE c2[s] # Empty
  <2>1. s < n /\ s \in Nat
    BY <1>6, BytesAre
  <2>2. s + 1 \in 1..n /\ (s + 1) - 1 = s
    BY <1>2, <2>1
  <2>3. used[s + 1] \in U /\ Rank(U, used[s + 1]) = s
    BY <1>6, <2>2
  <2>. QED
    BY <1>9, <2>3
<1>13. idx \in [Bytes -> Slots \cup {Nil}]
  <2>1. \A b \in Bytes : idx[b] \in Slots \cup {Nil}
    BY <1>9, <1>10
  <2>. QED
    BY <2>1
<1>14. c2 \in [Slots -> X \cup {Empty}]
  <2>. SUFFICES ASSUME NEW s \in Slots PROVE c2[s] \in X \cup {Empty}
    OBVIOUS
  <2>1. CASE s < n
    <3>1. s + 1 \in 1..n
      BY <1>2, <2>1, BytesAre
    <3>. QED
      BY <1>4, <1>6, <2>1, <3>1
  <2>2. CASE ~(s < n)
    BY <1>6, <2>2
  <2>. QED
    BY <2>1, <2>2
<1>15. \A b, c \in U : idx[b] = idx[c] => b = c
  <2>. TAKE b, c \in U
  <2>. HAVE idx[b] = idx[c]
  <2>1. Rank(U, b) = Rank(U, c)
    BY <1>9
  <2>. QED
    BY <1>6, <2>1
<1>16. idx[Nil] = Nil
  <2>1. Nil \in Bytes /\ Nil \notin U
    BY <1>4, BytesAre
  <2>. QED
    BY <2>1
<1>. HIDE DEF idx, c2, r
<1>17. Used48(idx) = U
  BY <1>4, <1>9, <1>10 DEF Used48
<1>18. /\ r \in [kind : {"N48"}, prefix : Seq(Clean), end : BOOLEAN, n : Nat,
                 idx : [Bytes -> Slots \cup {Nil}], ch : [Slots -> X \cup {Empty}]]
       /\ r.idx = idx /\ r.ch = c2 /\ r.n = n /\ r.kind = "N48" /\ SameValue(r, node)
  BY <1>1, <1>2, <1>5, <1>13, <1>14 DEF Node48, SameValue
<1>19. Sound48(r, X)
  <2>1. \A b \in U : c2[idx[b]] \in X
    BY <1>4, <1>11
  <2>2. r.n = Cardinality(U)
    BY <1>1, <1>18
  <2>. HIDE DEF n
  <2>. QED
    BY <1>12, <1>15, <1>16, <1>17, <1>18, <2>1, <2>2 DEF Sound48
<1>20. SameChildren(r, node)
  <2>1. ChildBytes(r) = U /\ \A b : Child(r, b) = c2[idx[b]]
    BY <1>17, <1>18, Node48Is
  <2>. QED
    BY <1>3, <1>11, <2>1 DEF SameChildren
<1>21. Packed(r)
  BY <1>9, <1>17, <1>18 DEF Packed
<1>. QED
  BY <1>18, <1>19, <1>20, <1>21 DEF Recast, Sound, r

\* node_maybe_shrink, where a node stays an inner node.
LEMMA ShrunkSound ==
  ASSUME NEW X, Empty \notin X, NEW node, Sound(node, X),
         ~(Size(node) = 0 /\ ~node.end),
         ~(node.kind = "N4" /\ Size(node) = 1 /\ ~node.end)
  PROVE  LET r == Shrunk(node)
         IN /\ Sound(r, X) /\ SameValue(r, node) /\ SameChildren(r, node)
            /\ Packed(node) \/ (node.kind = "N48" => Size(node) <= Cap16) => Packed(r)
<1>. DEFINE r == Shrunk(node)
<1>1. CASE node.kind = "N16" /\ Size(node) <= Cap4
  <2>1. SoundLinear(node, X)
    BY <1>1 DEF Sound, Sound48, Sound256
  <2>2. r = [node EXCEPT !.kind = "N4"]
    BY <1>1 DEF Shrunk
  <2>3. Recast(r, node, X)
    BY <2>1, <2>2, N4Grows, ZenonT(60)
  <2>. QED
    BY <2>3 DEF Recast
<1>2. CASE node.kind = "N48" /\ Size(node) <= Cap16
  <2>1. Sound48(node, X)
    BY <1>2 DEF Sound, SoundLinear, Sound256
  <2>2. r = N48ToN16(node)
    BY <1>2 DEF Shrunk
  <2>3. Recast(r, node, X)
    BY <2>1, <2>2, N48To16
  <2>. QED
    BY <2>3 DEF Recast
<1>3. CASE node.kind = "N256" /\ Size(node) <= Cap48
  <2>1. Sound256(node, X)
    BY <1>3 DEF Sound, SoundLinear, Sound48
  <2>2. r = N256ToN48(node)
    BY <1>3 DEF Shrunk
  <2>3. node.n <= Cap48
    BY <1>3, Node256Is
  <2>4. Recast(r, node, X)
    BY <2>1, <2>2, <2>3, N256To48
  <2>. QED
    BY <2>4 DEF Recast
<1>4. CASE /\ ~(node.kind = "N16" /\ Size(node) <= Cap4)
           /\ ~(node.kind = "N48" /\ Size(node) <= Cap16)
           /\ ~(node.kind = "N256" /\ Size(node) <= Cap48)
  <2>1. r = node
    BY <1>4 DEF Shrunk
  <2>2. Packed(node) \/ (node.kind = "N48" => Size(node) <= Cap16) => Packed(node)
    BY <1>4 DEF Packed
  <2>. QED
    BY <2>1, <2>2 DEF SameValue, SameChildren
<1>. QED
  BY <1>1, <1>2, <1>3, <1>4

\* prepend_into: the only child goes on after its parent's bytes.
LEMMA MergedIs ==
  ASSUME NEW X, Empty \notin X, NEW node, Sound(node, X), node.kind = "N4", Size(node) = 1,
         ~node.end
  PROVE  /\ Shrunk(node) = Merged(node)
         /\ \E b \in Clean :
              LET child == Child(node, b)
              IN /\ ChildBytes(node) = {b} /\ child \in X
                 /\ Merged(node) =
                      CASE child.kind = "Empty" -> Empty
                        [] child.kind = "Leaf" -> Leaf(Append(node.prefix, b) \o child.suffix)
                        [] OTHER -> [child EXCEPT !.prefix = Append(node.prefix, b) \o @]
<1>1. Shrunk(node) = Merged(node)
  BY DEF Shrunk
<1>2. SoundLinear(node, X)
  BY DEF Sound, Sound48, Sound256
<1>3. /\ Len(node.keys) = 1
      /\ ChildBytes(node) = {node.keys[i] : i \in 1..Len(node.keys)}
      /\ \A i \in 1..Len(node.keys) : /\ node.keys[i] \in Clean /\ node.ch[i] \in X
                                      /\ Child(node, node.keys[i]) = node.ch[i]
  BY <1>2, LinearIs
<1>. DEFINE b == node.keys[1]
            child == node.ch[1]
<1>4. b \in Clean /\ ChildBytes(node) = {b} /\ Child(node, b) = child /\ child \in X
  BY <1>3
<1>5. Merged(node) = CASE child.kind = "Empty" -> Empty
                        [] child.kind = "Leaf" -> Leaf(Append(node.prefix, b) \o child.suffix)
                        [] OTHER -> [child EXCEPT !.prefix = Append(node.prefix, b) \o @]
  BY Zenon DEF Merged
<1>. HIDE DEF b, child
<1>. QED
  BY <1>1, <1>4, <1>5, Zenon

\* The kind of an inner node, which add_ch and a new child leave alone.
LEMMA KindKept ==
  ASSUME NEW X, Empty \notin X, NEW node, Sound(node, X), NEW b, NEW child
  PROVE  AddChild(node, b, child).kind = node.kind /\ WithChild(node, b, child).kind = node.kind
<1>1. \A at : [node EXCEPT !.ch[at] = child].kind = node.kind
  BY DEF Sound, SoundLinear, Sound48, Sound256
<1>2. WithChild(node, b, child).kind = node.kind
  BY <1>1 DEF WithChild
<1>3. CASE SoundLinear(node, X)
  <2>1. /\ node \in [kind : {"N4", "N16"}, prefix : Seq(Clean), end : BOOLEAN,
                     keys : Seq(Clean), ch : Seq(X)]
        /\ IsLinear(node) /\ node.kind # "N48" /\ node.kind # "N256"
    BY <1>3, LinearIs DEF SoundLinear
  <2>2. \A s, t : [node EXCEPT !.keys = s, !.ch = t].kind = node.kind
    BY <2>1
  <2>3. \E s, t : AddChild(node, b, child) = [node EXCEPT !.keys = s, !.ch = t]
    BY <2>1, Zenon DEF AddChild
  <2>. QED
    BY <1>2, <2>2, <2>3
<1>4. CASE Sound48(node, X)
  <2>1. /\ node \in [kind : {"N48"}, prefix : Seq(Clean), end : BOOLEAN, n : Nat,
                     idx : [Bytes -> Slots \cup {Nil}], ch : [Slots -> X \cup {Empty}]]
        /\ ~IsLinear(node) /\ node.kind = "N48"
    BY <1>4 DEF Sound48, IsLinear
  <2>. DEFINE slot == Min({i \in Slots : node.ch[i] = Empty})
  <2>2. AddChild(node, b, child) = [node EXCEPT !.idx[b] = slot, !.ch[slot] = child, !.n = @ + 1]
    BY <2>1 DEF AddChild
  <2>. HIDE DEF slot
  <2>3. AddChild(node, b, child).kind = "N48"
    BY <2>1, <2>2
  <2>. QED
    BY <1>2, <2>1, <2>3
<1>5. CASE Sound256(node, X)
  <2>1. /\ node \in [kind : {"N256"}, prefix : Seq(Clean), end : BOOLEAN, n : Nat,
                     ch : [Bytes -> X \cup {Empty}]]
        /\ ~IsLinear(node) /\ node.kind = "N256"
    BY <1>5 DEF Sound256, IsLinear
  <2>2. AddChild(node, b, child) = [node EXCEPT !.ch[b] = child, !.n = @ + 1]
    BY <2>1 DEF AddChild
  <2>3. AddChild(node, b, child).kind = "N256"
    BY <2>1, <2>2
  <2>. QED
    BY <1>2, <2>1, <2>3
<1>. QED
  BY <1>3, <1>4, <1>5 DEF Sound

\* The arithmetic of kinds.
LEMMA KindIs ==
  ASSUME NEW n \in Nat
  PROVE  /\ Kind(n) = "N4" <=> n <= Cap4
         /\ Kind(n) = "N16" <=> Cap4 < n /\ n <= Cap16
         /\ Kind(n) = "N48" <=> Cap16 < n /\ n <= Cap48
         /\ Kind(n) = "N256" <=> Cap48 < n
         /\ Kind(n) \in {"N4", "N16", "N48", "N256"}
BY BytesAre DEF Kind

\* A node that has grown, and then gains a child.
LEMMA ShapeGains ==
  ASSUME NEW X, Empty \notin X, NEW node, Sound(node, X), Shapely(node),
         NEW b \in Clean, b \notin ChildBytes(node), NEW child \in X
  PROVE  Shapely(AddChild(Grown(node), b, child))
<1>. DEFINE g == Grown(node)
            r == AddChild(g, b, child)
            n == Size(node)
<1>1. LET q == Grown(node)
      IN /\ Sound(q, X) /\ SameValue(q, node) /\ SameChildren(q, node)
         /\ Packed(node) => Packed(q)
         /\ q.kind = "N48" => Size(q) < Cap48
  BY GrownSound
<1>2. Sound(g, X) /\ SameValue(g, node) /\ SameChildren(g, node) /\ (g.kind = "N48" => Size(g) < Cap48)
  BY <1>1, Zenon
<1>3. n \in Nat /\ n = Cardinality(ChildBytes(node)) /\ IsFiniteSet(ChildBytes(node))
  <2>1. n = Cardinality(ChildBytes(node)) /\ IsFiniteSet(ChildBytes(node))
    BY SoundIs
  <2>. QED
    BY <2>1, FS_CardinalityType
<1>4. g.kind = Kind(n + 1)
  <2>1. node.kind = Kind(n)
    BY DEF Shapely
  <2>2. /\ n + 1 \in Nat /\ Cap4 \in Nat /\ Cap16 \in Nat /\ Cap48 \in Nat
        /\ Cap4 < Cap16 /\ Cap16 < Cap48
    BY <1>3, BytesAre
  <2>3. CASE node.kind = "N4" /\ n = Cap4
    <3>1. g = [node EXCEPT !.kind = "N16"]
      BY <2>3 DEF Grown
    <3>2. SoundLinear(node, X)
      BY <2>3 DEF Sound, Sound48, Sound256
    <3>3. g.kind = "N16"
      BY <3>1, <3>2, N4Grows
    <3>. QED
      BY <2>2, <2>3, <3>3, KindIs
  <2>4. CASE node.kind = "N16" /\ n = Cap16
    <3>1. g = N16ToN48(node)
      BY <2>4 DEF Grown
    <3>2. g.kind = "N48"
      BY <3>1 DEF N16ToN48, Node48
    <3>. QED
      BY <2>2, <2>4, <3>2, KindIs
  <2>5. CASE node.kind = "N48" /\ n = Cap48
    <3>1. g = N48ToN256(node)
      BY <2>5 DEF Grown
    <3>2. g.kind = "N256"
      BY <3>1 DEF N48ToN256, Node256
    <3>. QED
      BY <2>2, <2>5, <3>2, KindIs
  <2>6. CASE /\ ~(node.kind = "N4" /\ n = Cap4) /\ ~(node.kind = "N16" /\ n = Cap16)
             /\ ~(node.kind = "N48" /\ n = Cap48)
    <3>1. g = node
      BY <2>6 DEF Grown
    <3>. HIDE DEF g, n
    <3>. QED
      BY <1>3, <2>1, <2>2, <2>6, <3>1, KindIs
  <2>. QED
    BY <2>3, <2>4, <2>5, <2>6
<1>5. r.kind = g.kind
  BY <1>2, KindKept
<1>. HIDE DEF g, n
<1>6. b \notin ChildBytes(g) /\ ChildBytes(g) = ChildBytes(node)
  BY <1>2 DEF SameChildren
<1>7. LET q == AddChild(g, b, child)
      IN /\ Sound(q, X) /\ SameValue(q, g) /\ Gains(q, g, b, child)
         /\ Packed(g) => Packed(q)
  BY <1>2, <1>6, AddChildSound
<1>8. Sound(r, X) /\ SameValue(r, g) /\ Gains(r, g, b, child)
  BY <1>7, Zenon
<1>. HIDE DEF r
<1>9. Size(r) = n + 1
  <2>1. ChildBytes(r) = ChildBytes(node) \cup {b}
    BY <1>6, <1>8 DEF Gains
  <2>2. Size(r) = Cardinality(ChildBytes(r))
    BY <1>8, SoundIs
  <2>. QED
    BY <1>3, <2>1, <2>2, FS_AddElement
<1>10. n = 0 => r.end
  <2>1. r.end = node.end
    BY <1>2, <1>8 DEF SameValue
  <2>. QED
    BY <2>1 DEF Shapely, n
<1>. QED
  BY <1>3, <1>4, <1>5, <1>9, <1>10 DEF Shapely, r, g

\* A node under another prefix or with another end.
LEMMA ShapeRetitled ==
  ASSUME NEW r, NEW node, NEW Y, NEW p, NEW e, RetitledAs(r, node, Y, p, e), Shapely(node),
         Size(node) <= 1 => e
  PROVE  Shapely(r)
<1>1. r.end = e /\ r.kind = node.kind /\ Size(r) = Size(node)
  BY Zenon DEF RetitledAs
<1>2. node.kind = Kind(Size(node))
  BY DEF Shapely
<1>. QED
  BY <1>1, <1>2 DEF Shapely

\* A child put in the place of another.
LEMMA ShapeWith ==
  ASSUME NEW X, Empty \notin X, NEW node, Sound(node, X), Shapely(node),
         NEW b \in ChildBytes(node), NEW child \in X
  PROVE  Shapely(WithChild(node, b, child))
<1>. DEFINE r == WithChild(node, b, child)
<1>1. LET q == WithChild(node, b, child)
      IN /\ Sound(q, X) /\ SameValue(q, node) /\ Replaces(q, node, b, child)
         /\ Packed(node) => Packed(q)
  BY WithChildSound
<1>2. Sound(r, X) /\ SameValue(r, node) /\ Replaces(r, node, b, child)
  BY <1>1, Zenon
<1>3. r.kind = node.kind
  BY KindKept
<1>. HIDE DEF r
<1>4. Size(r) = Cardinality(ChildBytes(r)) /\ Size(node) = Cardinality(ChildBytes(node))
  BY <1>2, SoundIs
<1>5. Size(r) = Size(node) /\ r.end = node.end
  BY <1>2, <1>4 DEF Replaces, SameValue
<1>. QED
  BY <1>3, <1>5 DEF Shapely, r

\* A node that may have lost a child, and then shrinks.
LEMMA ShapeShrunk ==
  ASSUME NEW X, Empty \notin X, NEW node, Sound(node, X),
         node.kind \in {Kind(Size(node)), Kind(Size(node) + 1)},
         ~(Size(node) = 0 /\ ~node.end),
         ~(node.kind = "N4" /\ Size(node) = 1 /\ ~node.end)
  PROVE  Shapely(Shrunk(node))
<1>. DEFINE r == Shrunk(node)
            n == Size(node)
<1>1. LET q == Shrunk(node)
      IN /\ Sound(q, X) /\ SameValue(q, node) /\ SameChildren(q, node)
         /\ Packed(node) \/ (node.kind = "N48" => Size(node) <= Cap16) => Packed(q)
  BY ShrunkSound
<1>2. Sound(r, X) /\ SameValue(r, node) /\ SameChildren(r, node)
  BY <1>1, Zenon
<1>3. n \in Nat /\ n = Cardinality(ChildBytes(node))
  <2>1. n = Cardinality(ChildBytes(node)) /\ IsFiniteSet(ChildBytes(node))
    BY SoundIs
  <2>. QED
    BY <2>1, FS_CardinalityType
<1>4. /\ n + 1 \in Nat /\ Cap4 \in Nat /\ Cap16 \in Nat /\ Cap48 \in Nat
      /\ 2 <= Cap4 /\ Cap4 < Cap16 /\ Cap16 < Cap48
  BY <1>3, BytesAre
<1>5. r.kind = Kind(n)
  <2>1. CASE node.kind = "N16" /\ n <= Cap4
    <3>1. r = [node EXCEPT !.kind = "N4"]
      BY <2>1 DEF Shrunk
    <3>2. SoundLinear(node, X)
      BY <2>1 DEF Sound, Sound48, Sound256
    <3>3. r.kind = "N4"
      BY <3>1, <3>2, N4Grows
    <3>. QED
      BY <1>3, <2>1, <3>3, KindIs
  <2>2. CASE node.kind = "N48" /\ n <= Cap16
    <3>1. r = N48ToN16(node)
      BY <2>2 DEF Shrunk
    <3>0. Sound48(node, X)
      BY <2>2 DEF Sound, SoundLinear, Sound256
    <3>2. r.kind = "N16"
      BY <3>0, <3>1, N48To16
    <3>. HIDE DEF n, r
    <3>3. ~(n <= Cap4)
      BY <1>3, <1>4, <2>2, KindIs DEF n
    <3>. QED
      BY <1>3, <1>4, <2>2, <3>2, <3>3, KindIs
  <2>3. CASE node.kind = "N256" /\ n <= Cap48
    <3>1. r = N256ToN48(node)
      BY <2>3 DEF Shrunk
    <3>0. Sound256(node, X) /\ node.n <= Cap48
      BY <2>3, Node256Is DEF Sound, SoundLinear, Sound48
    <3>2. r.kind = "N48"
      BY <3>0, <3>1, N256To48
    <3>. HIDE DEF n, r
    <3>3. ~(n <= Cap16)
      BY <1>3, <1>4, <2>3, KindIs DEF n
    <3>. QED
      BY <1>3, <1>4, <2>3, <3>2, <3>3, KindIs
  <2>4. CASE /\ ~(node.kind = "N16" /\ n <= Cap4) /\ ~(node.kind = "N48" /\ n <= Cap16)
             /\ ~(node.kind = "N256" /\ n <= Cap48)
    <3>1. r = node
      BY <2>4 DEF Shrunk
    <3>2. node.kind \in {Kind(n), Kind(n + 1)}
      OBVIOUS
    <3>. HIDE DEF n, r
    <3>. QED
      BY <1>3, <1>4, <2>4, <3>1, <3>2, KindIs
  <2>. QED
    BY <2>1, <2>2, <2>3, <2>4
<1>. HIDE DEF r
<1>6. Size(r) = n /\ r.end = node.end
  <2>1. Size(r) = Cardinality(ChildBytes(r))
    BY <1>2, SoundIs
  <2>. QED
    BY <1>2, <1>3, <2>1 DEF SameChildren, SameValue
<1>7. n <= 1 => r.end
  <2>1. n = 0 => node.end
    OBVIOUS
  <2>2. n = 1 => node.kind = "N4"
    <3>1. node.kind \in {Kind(n), Kind(n + 1)}
      OBVIOUS
    <3>. HIDE DEF n
    <3>. QED
      BY <1>4, <3>1, KindIs
  <2>. QED
    BY <1>3, <1>6, <2>1, <2>2
<1>. QED
  BY <1>5, <1>6, <1>7 DEF Shapely, r

-----------------------------------------------------------------------------
(* The recursive functions of the tree unfold. *)

\* The levels of the trees.
Depth == MaxLength + 1

\* Level is what its recursive definition says.
LEMMA LevelsExist == \A h \in 0..Depth : Level[h] = LevelOver(Level, h)
<1>0. Depth \in Nat /\ 0..Depth = 0 .. MaxLength + 1
  BY BytesAre DEF Depth
<1>. DEFINE Is(m, f) == f = [h \in 0..m |-> LevelOver(f, h)]
            Missing == {m \in 0..Depth : ~\E f : Is(m, f)}
<1>1. Missing = {}
  <2>. SUFFICES ASSUME Missing # {} PROVE FALSE
    OBVIOUS
  <2>1. PICK m \in Missing : m \in Nat /\ \A k \in Missing : m <= k
    <3>1. Missing \subseteq Nat
      BY <1>0
    <3>. HIDE DEF Missing
    <3>. QED
      BY <3>1, Smallest
  <2>2. m \in 0..Depth /\ ~\E f : Is(m, f)
    BY <2>1
  <2>. HIDE DEF Is
  <2>3. PICK f : m # 0 => Is(m - 1, f)
    <3>1. CASE m = 0
      BY <3>1
    <3>2. CASE m # 0
      <4>1. m - 1 \in 0..Depth /\ ~(m <= m - 1)
        BY <1>0, <2>2, <3>2
      <4>2. m - 1 \notin Missing
        BY <2>1, <4>1
      <4>. QED
        BY <4>1, <4>2
    <3>. QED
      BY <3>1, <3>2
  <2>. DEFINE g == [h \in 0..m |-> LevelOver(f, h)]
  <2>4. \A h \in 0..m : h # 0 => g[h - 1] = f[h - 1]
    <3>. TAKE h \in 0..m
    <3>. HAVE h # 0
    <3>1. m # 0 /\ h - 1 \in 0..m /\ h - 1 \in 0..(m - 1)
      BY <2>1
    <3>2. f[h - 1] = LevelOver(f, h - 1)
      <4>1. f = [k \in 0..(m - 1) |-> LevelOver(f, k)]
        BY <2>3, <3>1, Zenon DEF Is
      <4>. QED
        BY <3>1, <4>1, Zenon
    <3>3. g[h - 1] = LevelOver(f, h - 1)
      BY <3>1, Zenon
    <3>. QED
      BY <3>2, <3>3, Zenon
  <2>5. \A h \in 0..m : LevelOver(g, h) = LevelOver(f, h)
    <3>. TAKE h \in 0..m
    <3>. HIDE DEF g
    <3>1. h = 0 \/ g[h - 1] = f[h - 1]
      BY <2>4
    <3>. QED
      BY <3>1, Zenon DEF LevelOver
  <2>6. g = [h \in 0..m |-> LevelOver(g, h)]
    BY <2>5, Zenon
  <2>7. Is(m, g)
    BY <2>6, Zenon DEF Is
  <2>. QED
    BY <2>2, <2>7
<1>2. \E f : Is(Depth, f)
  <2>1. Depth \in 0..Depth
    BY <1>0
  <2>. HIDE DEF Is
  <2>. QED
    BY <1>1, <2>1
<1>3. Level = CHOOSE f : Is(Depth, f)
  BY Zenon DEF Level, Depth
<1>4. Is(Depth, Level)
  <2>. HIDE DEF Is
  <2>. QED
    BY <1>2, <1>3, Zenon
<1>. QED
  BY <1>4, Zenon

\* More nodes below, more inner nodes.
LEMMA InnerGrows ==
  ASSUME NEW X, NEW Y, X \subseteq Y
  PROVE  Inner(X) \subseteq Inner(Y)
<1>. SUFFICES ASSUME NEW node \in Inner(X) PROVE node \in Inner(Y)
  OBVIOUS
<1>1. CASE /\ node \in [kind : {"N4", "N16"}, prefix : Seq(Bytes), end : BOOLEAN,
                        keys : Seq(Bytes), ch : Seq(X)]
           /\ Len(node.keys) = Len(node.ch)
  <2>1. node.ch \in Seq(Y)
    BY <1>1, SeqMonotonic
  <2>2. node \in [kind : {"N4", "N16"}, prefix : Seq(Bytes), end : BOOLEAN,
                  keys : Seq(Bytes), ch : Seq(Y)]
    BY <1>1, <2>1
  <2>. QED
    BY <1>1, <2>2 DEF Inner
<1>2. CASE node \in [kind : {"N48"}, prefix : Seq(Bytes), end : BOOLEAN, n : Nat,
                     idx : [Bytes -> Slots \cup {Nil}], ch : [Slots -> X]]
  <2>1. node \in [kind : {"N48"}, prefix : Seq(Bytes), end : BOOLEAN, n : Nat,
                  idx : [Bytes -> Slots \cup {Nil}], ch : [Slots -> Y]]
    BY <1>2
  <2>. QED
    BY <2>1 DEF Inner
<1>3. CASE node \in [kind : {"N256"}, prefix : Seq(Bytes), end : BOOLEAN, n : Nat,
                     ch : [Bytes -> X]]
  <2>1. node \in [kind : {"N256"}, prefix : Seq(Bytes), end : BOOLEAN, n : Nat,
                  ch : [Bytes -> Y]]
    BY <1>3
  <2>. QED
    BY <2>1 DEF Inner
<1>. QED
  BY <1>1, <1>2, <1>3 DEF Inner

\* A level contains the levels below it.
LEMMA LevelsGrow ==
  \A k \in 0..Depth : \A h \in 0..k : Level[h] \subseteq Level[k]
<1>0. Depth \in Nat
  BY BytesAre DEF Depth
<1>. DEFINE Good(k) == k = 0 \/ Level[k - 1] \subseteq Level[k]
            Bad == {k \in 0..Depth : ~Good(k)}
<1>1. Bad = {}
  <2>. SUFFICES ASSUME Bad # {} PROVE FALSE
    OBVIOUS
  <2>1. PICK k \in Bad : k \in Nat /\ \A l \in Bad : k <= l
    <3>1. Bad \subseteq Nat
      BY <1>0
    <3>. HIDE DEF Bad
    <3>. QED
      BY <3>1, Smallest
  <2>2. k \in 0..Depth /\ k # 0 /\ ~(Level[k - 1] \subseteq Level[k])
    BY <2>1
  <2>3. k - 1 \in 0..Depth /\ ~(k <= k - 1)
    BY <1>0, <2>2
  <2>4. Good(k - 1)
    BY <2>1, <2>3
  <2>5. Level[k] = Outer \cup Inner(Level[k - 1])
    BY <2>2, LevelsExist DEF LevelOver
  <2>6. CASE k - 1 = 0
    <3>1. Level[k - 1] = Outer
      BY <2>3, <2>6, LevelsExist DEF LevelOver
    <3>. QED
      BY <2>2, <2>5, <3>1
  <2>7. CASE k - 1 # 0
    <3>1. Level[k - 1] = Outer \cup Inner(Level[(k - 1) - 1])
      BY <2>3, <2>7, LevelsExist DEF LevelOver
    <3>2. Inner(Level[(k - 1) - 1]) \subseteq Inner(Level[k - 1])
      BY <2>4, <2>7, InnerGrows
    <3>. QED
      BY <2>2, <2>5, <3>1, <3>2
  <2>. QED
    BY <2>6, <2>7
<1>2. \A k \in 0..Depth : k # 0 => Level[k - 1] \subseteq Level[k]
  BY <1>1
<1>. DEFINE Worse == {k \in 0..Depth : ~\A h \in 0..k : Level[h] \subseteq Level[k]}
<1>. SUFFICES ASSUME Worse # {} PROVE FALSE
  OBVIOUS
<1>3. PICK k \in Worse : k \in Nat /\ \A l \in Worse : k <= l
  <2>1. Worse \subseteq Nat
    BY <1>0
  <2>. HIDE DEF Worse
  <2>. QED
    BY <2>1, Smallest
<1>4. PICK h \in 0..k : ~(Level[h] \subseteq Level[k])
  BY <1>3
<1>5. h # k
  BY <1>4
<1>6. k # 0 /\ k - 1 \in 0..Depth /\ h \in 0..(k - 1) /\ ~(k <= k - 1) /\ k \in 0..Depth
  BY <1>0, <1>3, <1>4, <1>5
<1>7. Level[h] \subseteq Level[k - 1]
  BY <1>3, <1>6
<1>8. Level[k - 1] \subseteq Level[k]
  BY <1>2, <1>6
<1>. QED
  BY <1>4, <1>7, <1>8

\* The children of an inner node are of the level below it.
LEMMA InnerIs ==
  ASSUME NEW B, NEW node \in Inner(B)
  PROVE  /\ node.kind \notin {"Empty", "Leaf"} /\ node # Empty
         /\ node.kind \in {"N4", "N16", "N48", "N256"}
         /\ ChildBytes(node) \subseteq Bytes
         /\ IsLinear(node) => /\ DOMAIN node.keys = DOMAIN node.ch
                              /\ \A i \in DOMAIN node.ch : node.ch[i] \in B
         /\ node.kind = "N48" => \A s \in Slots : node.ch[s] \in B
         /\ node.kind = "N256" => \A b \in Bytes : node.ch[b] \in B
         /\ \A b \in ChildBytes(node) : Child(node, b) \in B
<1>1. CASE /\ node \in [kind : {"N4", "N16"}, prefix : Seq(Bytes), end : BOOLEAN,
                        keys : Seq(Bytes), ch : Seq(B)]
           /\ Len(node.keys) = Len(node.ch)
  <2>. DEFINE n == Len(node.keys)
  <2>1. /\ n \in Nat /\ DOMAIN node.keys = 1..n /\ DOMAIN node.ch = 1..n
        /\ \A i \in 1..n : node.ch[i] \in B /\ node.keys[i] \in Bytes
    <3>1. node.keys \in Seq(Bytes) /\ node.ch \in Seq(B) /\ Len(node.ch) = n
      BY <1>1
    <3>. QED
      BY <3>1, LenProperties, ElementOfSeq
  <2>2. IsLinear(node) /\ node.kind \in {"N4", "N16"} /\ node.kind # "N48" /\ node.kind # "N256"
    BY <1>1 DEF IsLinear
  <2>3. ChildBytes(node) = {node.keys[i] : i \in 1..n}
    BY <2>1, <2>2 DEF ChildBytes, ToSet
  <2>4. \A b \in ChildBytes(node) : Child(node, b) \in B
    <3>. TAKE b \in ChildBytes(node)
    <3>. DEFINE M == {i \in DOMAIN node.keys : node.keys[i] = b}
    <3>1. M # {} /\ M \subseteq 1..n /\ M \subseteq Nat
      BY <2>1, <2>3
    <3>2. Min(M) \in M
      <4>. HIDE DEF M
      <4>. QED
        BY <3>1, LeastIs
    <3>3. Place(node, b) = Min(M)
      BY <2>2 DEF Place
    <3>. HIDE DEF M
    <3>. QED
      BY <2>1, <3>1, <3>2, <3>3 DEF Child
  <2>5. node # Empty
    BY <2>2 DEF Empty
  <2>. HIDE DEF n
  <2>. QED
    BY <2>1, <2>2, <2>3, <2>4, <2>5
<1>2. CASE node \in [kind : {"N48"}, prefix : Seq(Bytes), end : BOOLEAN, n : Nat,
                     idx : [Bytes -> Slots \cup {Nil}], ch : [Slots -> B]]
  <2>1. /\ node.kind = "N48" /\ node.idx \in [Bytes -> Slots \cup {Nil}]
        /\ node.ch \in [Slots -> B] /\ node # Empty
    BY <1>2 DEF Empty
  <2>2. ~IsLinear(node) /\ ChildBytes(node) = Used48(node.idx)
        /\ \A b : Child(node, b) = node.ch[node.idx[b]]
    BY <2>1, Node48Is
  <2>3. \A b \in Used48(node.idx) : b \in Bytes /\ node.idx[b] \in Slots
    BY <2>1 DEF Used48
  <2>. QED
    BY <2>1, <2>2, <2>3
<1>3. CASE node \in [kind : {"N256"}, prefix : Seq(Bytes), end : BOOLEAN, n : Nat,
                     ch : [Bytes -> B]]
  <2>1. node.kind = "N256" /\ node.ch \in [Bytes -> B] /\ node # Empty
    BY <1>3 DEF Empty
  <2>2. ~IsLinear(node) /\ ChildBytes(node) \subseteq Bytes
        /\ \A b : Child(node, b) = node.ch[b]
    BY <2>1, Node256Is DEF Used256
  <2>. QED
    BY <2>1, <2>2
<1>. QED
  BY <1>1, <1>2, <1>3 DEF Inner

\* A node is Empty, a leaf, or an inner node over the level below.
LEMMA LevelCases ==
  ASSUME NEW h \in 0..Depth, NEW node \in Level[h]
  PROVE  \/ node = Empty /\ node.kind = "Empty"
         \/ node.kind = "Leaf" /\ node # Empty /\ node.suffix \in Seq(Bytes) /\ node = Leaf(node.suffix)
         \/ h # 0 /\ node \in Inner(Level[h - 1])
<1>1. node \in LevelOver(Level, h)
  BY LevelsExist
<1>2. CASE node = Empty
  BY <1>2 DEF Empty
<1>3. CASE node \in [kind : {"Leaf"}, suffix : Seq(Bytes)]
  <2>1. node.kind = "Leaf" /\ node.suffix \in Seq(Bytes) /\ node = [kind |-> "Leaf", suffix |-> node.suffix]
    BY <1>3
  <2>2. node # Empty
    BY <2>1 DEF Empty
  <2>. QED
    BY <2>1, <2>2 DEF Leaf
<1>4. CASE h # 0 /\ node \in Inner(Level[h - 1])
  BY <1>4
<1>. QED
  BY <1>1, <1>2, <1>3, <1>4 DEF LevelOver, Outer

\* What two readings of a level below have in common.
Agree(f, g, h) == h # 0 => \A c \in Level[h - 1] : f[c] = g[c]

\* BelowNode reads its first argument at the children only.
LEMMA BelowLocal ==
  ASSUME NEW h \in 0..Depth, NEW node \in Level[h], NEW f, NEW g, Agree(f, g, h)
  PROVE  BelowNode(f, node) = BelowNode(g, node)
<1>1. CASE node = Empty \/ node.kind = "Leaf"
  BY <1>1, Zenon DEF BelowNode
<1>2. CASE h # 0 /\ node \in Inner(Level[h - 1])
  <2>. DEFINE bytes == IF IsLinear(node) THEN node.keys ELSE Ascending(ChildBytes(node))
              child(i) == IF IsLinear(node) THEN node.ch[i] ELSE Child(node, bytes[i])
              under(r, i) == [j \in DOMAIN r[child(i)] |-> node.prefix \o <<bytes[i]>> \o r[child(i)][j]]
  <2>1. \A i \in DOMAIN bytes : child(i) \in Level[h - 1]
    <3>1. CASE IsLinear(node)
      BY <1>2, <3>1, InnerIs
    <3>2. CASE ~IsLinear(node)
      <4>. DEFINE U == ChildBytes(node)
      <4>1. U \in SUBSET Bytes /\ U \subseteq Nat
        BY <1>2, InnerIs, BytesAre
      <4>2. \A b \in U : Child(node, b) \in Level[h - 1]
        BY <1>2, InnerIs
      <4>. HIDE DEF U
      <4>3. IsFiniteSet(U)
        BY <4>1, BytesAre, FS_Subset
      <4>4. Ascending(U) \in Seq(U)
        BY <4>1, <4>3, AscendingIs
      <4>5. \A i \in DOMAIN Ascending(U) : Ascending(U)[i] \in U
        <5>. DEFINE a == Ascending(U)
        <5>. HIDE DEF a
        <5>1. a \in Seq(U)
          BY <4>4 DEF a
        <5>2. \A i \in DOMAIN a : a[i] \in U
          BY <5>1, LenProperties, ElementOfSeq
        <5>. QED
          BY <5>2 DEF a
      <4>6. bytes = Ascending(U)
        BY <3>2 DEF U
      <4>. QED
        BY <3>2, <4>2, <4>5, <4>6
    <3>. QED
      BY <3>1, <3>2
  <2>2. \A i \in DOMAIN bytes : f[child(i)] = g[child(i)]
    <3>. HIDE DEF bytes, child
    <3>. QED
      BY <1>2, <2>1 DEF Agree
  <2>. HIDE DEF bytes, child
  <2>3. \A i \in DOMAIN bytes : under(f, i) = under(g, i)
    BY <2>2, Zenon
  <2>. HIDE DEF under
  <2>4. [i \in DOMAIN bytes |-> under(f, i)] = [i \in DOMAIN bytes |-> under(g, i)]
    BY <2>3, Zenon
  <2>5. BelowInner(f, node) = BelowInner(g, node)
    BY <2>4, Zenon DEF BelowInner, bytes, child, under
  <2>. QED
    BY <2>5, Zenon DEF BelowNode
<1>. QED
  BY <1>1, <1>2, LevelCases

\* InsertAtNode reads its first argument at the children only.
LEMMA InsertLocal ==
  ASSUME NEW h \in 0..Depth, NEW node \in Level[h], NEW f, NEW g, Agree(f, g, h)
  PROVE  InsertAtNode(f, node) = InsertAtNode(g, node)
<1>1. CASE node = Empty \/ node.kind = "Leaf"
  BY <1>1, Zenon DEF InsertAtNode
<1>2. CASE h # 0 /\ node \in Inner(Level[h - 1])
  <2>1. \A b \in ChildBytes(node) : f[Child(node, b)] = g[Child(node, b)]
    BY <1>2, InnerIs DEF Agree
  <2>2. \A rest \in Seq(Bytes) : InsertAtInner(f, node, rest) = InsertAtInner(g, node, rest)
    <3>. TAKE rest \in Seq(Bytes)
    <3>1. CASE Head(From(rest, Common(node.prefix, rest) + 1)) \in ChildBytes(node)
      <4>1. f[Child(node, Head(From(rest, Common(node.prefix, rest) + 1)))]
              = g[Child(node, Head(From(rest, Common(node.prefix, rest) + 1)))]
        BY <2>1, <3>1, Zenon
      <4>. QED
        BY <4>1, Zenon DEF InsertAtInner
    <3>2. CASE Head(From(rest, Common(node.prefix, rest) + 1)) \notin ChildBytes(node)
      BY <3>2, Zenon DEF InsertAtInner
    <3>. QED
      BY <3>1, <3>2
  <2>. QED
    BY <2>2, Zenon DEF InsertAtNode
<1>. QED
  BY <1>1, <1>2, LevelCases

\* RemoveAtNode reads its first argument at the children only.
LEMMA RemoveLocal ==
  ASSUME NEW h \in 0..Depth, NEW node \in Level[h], NEW f, NEW g, Agree(f, g, h)
  PROVE  RemoveAtNode(f, node) = RemoveAtNode(g, node)
<1>1. CASE node = Empty \/ node.kind = "Leaf"
  BY <1>1, Zenon DEF RemoveAtNode
<1>2. CASE h # 0 /\ node \in Inner(Level[h - 1])
  <2>1. \A b \in ChildBytes(node) : f[Child(node, b)] = g[Child(node, b)]
    BY <1>2, InnerIs DEF Agree
  <2>2. \A rest \in Seq(Bytes) : RemoveAtInner(f, node, rest) = RemoveAtInner(g, node, rest)
    <3>. TAKE rest \in Seq(Bytes)
    <3>1. CASE Head(From(rest, Common(node.prefix, rest) + 1)) \in ChildBytes(node)
      <4>1. f[Child(node, Head(From(rest, Common(node.prefix, rest) + 1)))]
              = g[Child(node, Head(From(rest, Common(node.prefix, rest) + 1)))]
        BY <2>1, <3>1, Zenon
      <4>. QED
        BY <4>1, Zenon DEF RemoveAtInner
    <3>2. CASE Head(From(rest, Common(node.prefix, rest) + 1)) \notin ChildBytes(node)
      BY <3>2, Zenon DEF RemoveAtInner
    <3>. QED
      BY <3>1, <3>2
  <2>. QED
    BY <2>2, Zenon DEF RemoveAtNode
<1>. QED
  BY <1>1, <1>2, LevelCases

\* ReloadNode reads its first argument at the children only.
LEMMA ReloadLocal ==
  ASSUME NEW h \in 0..Depth, NEW node \in Level[h], NEW f, NEW g, Agree(f, g, h)
  PROVE  ReloadNode(f, node) = ReloadNode(g, node)
<1>1. CASE node.kind \in {"Empty", "Leaf"}
  BY <1>1, Zenon DEF ReloadNode
<1>2. CASE h # 0 /\ node \in Inner(Level[h - 1])
  <2>1. /\ node.kind \notin {"Empty", "Leaf"} /\ node.kind \in {"N4", "N16", "N48", "N256"}
        /\ IsLinear(node) => \A i \in DOMAIN node.ch : f[node.ch[i]] = g[node.ch[i]]
        /\ node.kind = "N48" => \A s \in Slots : f[node.ch[s]] = g[node.ch[s]]
        /\ node.kind = "N256" => \A b \in Bytes : f[node.ch[b]] = g[node.ch[b]]
    BY <1>2, InnerIs DEF Agree
  <2>2. ReloadInner(f, node) = ReloadInner(g, node)
    <3>1. CASE IsLinear(node)
      <4>1. [i \in DOMAIN node.ch |-> f[node.ch[i]]] = [i \in DOMAIN node.ch |-> g[node.ch[i]]]
        BY <2>1, <3>1, Zenon
      <4>2. node.kind # "N48" /\ node.kind # "N256"
        BY <3>1 DEF IsLinear
      <4>. QED
        BY <3>1, <4>1, <4>2 DEF ReloadInner
    <3>2. CASE node.kind = "N48"
      <4>1. [s \in Slots |-> IF s < node.n THEN f[node.ch[s]] ELSE Empty]
              = [s \in Slots |-> IF s < node.n THEN g[node.ch[s]] ELSE Empty]
        BY <2>1, <3>2, Zenon
      <4>2. ~IsLinear(node)
        BY <3>2 DEF IsLinear
      <4>. QED
        BY <3>2, <4>1, <4>2 DEF ReloadInner
    <3>3. CASE node.kind = "N256"
      <4>1. [b \in Bytes |-> f[node.ch[b]]] = [b \in Bytes |-> g[node.ch[b]]]
        BY <2>1, <3>3, Zenon
      <4>2. ~IsLinear(node)
        BY <3>3 DEF IsLinear
      <4>. QED
        BY <3>3, <4>1, <4>2 DEF ReloadInner
    <3>. QED
      BY <2>1, <3>1, <3>2, <3>3 DEF IsLinear
  <2>. QED
    BY <2>2, Zenon DEF ReloadNode
<1>. QED
  BY <1>1, <1>2, LevelCases

\* Below is what its recursive definition says.
LEMMA BelowUnfolds == \A node \in Nodes : Below[node] = BelowNode(Below, node)
<1>0. Depth \in Nat /\ Nodes = Level[Depth]
  BY BytesAre DEF Depth, Nodes
<1>. DEFINE Is(m, f) == f = [node \in Level[m] |-> BelowNode(f, node)]
            Missing == {m \in 0..Depth : ~\E f : Is(m, f)}
<1>1. Missing = {}
  <2>. SUFFICES ASSUME Missing # {} PROVE FALSE
    OBVIOUS
  <2>1. PICK m \in Missing : m \in Nat /\ \A k \in Missing : m <= k
    <3>1. Missing \subseteq Nat
      BY <1>0
    <3>. HIDE DEF Missing
    <3>. QED
      BY <3>1, Smallest
  <2>2. m \in 0..Depth /\ ~\E f : Is(m, f)
    BY <2>1
  <2>. HIDE DEF Is
  <2>3. PICK f : m # 0 => Is(m - 1, f)
    <3>1. CASE m = 0
      BY <3>1
    <3>2. CASE m # 0
      <4>1. m - 1 \in 0..Depth /\ ~(m <= m - 1)
        BY <1>0, <2>2, <3>2
      <4>2. m - 1 \notin Missing
        BY <2>1, <4>1
      <4>. QED
        BY <4>1, <4>2
    <3>. QED
      BY <3>1, <3>2
  <2>. DEFINE g == [node \in Level[m] |-> BelowNode(f, node)]
  <2>4. Agree(g, f, m)
    <3>. SUFFICES ASSUME m # 0, NEW c \in Level[m - 1] PROVE g[c] = f[c]
      BY DEF Agree
    <3>1. c \in Level[m]
      <4>1. m - 1 \in 0..m
        BY <2>1
      <4>. QED
        BY <2>2, <4>1, LevelsGrow
    <3>2. f = [node \in Level[m - 1] |-> BelowNode(f, node)]
      BY <2>3, Zenon DEF Is
    <3>3. f[c] = BelowNode(f, c)
      BY <3>2, Zenon
    <3>. QED
      BY <3>1, <3>3, Zenon
  <2>5. \A node \in Level[m] : BelowNode(g, node) = BelowNode(f, node)
    <3>. HIDE DEF g
    <3>. QED
      BY <2>2, <2>4, BelowLocal
  <2>6. g = [node \in Level[m] |-> BelowNode(g, node)]
    BY <2>5, Zenon
  <2>7. Is(m, g)
    BY <2>6, Zenon DEF Is
  <2>. QED
    BY <2>2, <2>7
<1>2. \E f : Is(Depth, f)
  <2>1. Depth \in 0..Depth
    BY <1>0
  <2>. HIDE DEF Is
  <2>. QED
    BY <1>1, <2>1
<1>3. Below = CHOOSE f : Is(Depth, f)
  BY Zenon DEF Below, Nodes, Depth
<1>4. Is(Depth, Below)
  <2>. HIDE DEF Is
  <2>. QED
    BY <1>2, <1>3, Zenon
<1>. QED
  BY <1>0, <1>4, Zenon

\* InsertNode is what its recursive definition says.
LEMMA InsertUnfolds == \A node \in Nodes : InsertNode[node] = InsertAtNode(InsertNode, node)
<1>0. Depth \in Nat /\ Nodes = Level[Depth]
  BY BytesAre DEF Depth, Nodes
<1>. DEFINE Is(m, f) == f = [node \in Level[m] |-> InsertAtNode(f, node)]
            Missing == {m \in 0..Depth : ~\E f : Is(m, f)}
<1>1. Missing = {}
  <2>. SUFFICES ASSUME Missing # {} PROVE FALSE
    OBVIOUS
  <2>1. PICK m \in Missing : m \in Nat /\ \A k \in Missing : m <= k
    <3>1. Missing \subseteq Nat
      BY <1>0
    <3>. HIDE DEF Missing
    <3>. QED
      BY <3>1, Smallest
  <2>2. m \in 0..Depth /\ ~\E f : Is(m, f)
    BY <2>1
  <2>. HIDE DEF Is
  <2>3. PICK f : m # 0 => Is(m - 1, f)
    <3>1. CASE m = 0
      BY <3>1
    <3>2. CASE m # 0
      <4>1. m - 1 \in 0..Depth /\ ~(m <= m - 1)
        BY <1>0, <2>2, <3>2
      <4>2. m - 1 \notin Missing
        BY <2>1, <4>1
      <4>. QED
        BY <4>1, <4>2
    <3>. QED
      BY <3>1, <3>2
  <2>. DEFINE g == [node \in Level[m] |-> InsertAtNode(f, node)]
  <2>4. Agree(g, f, m)
    <3>. SUFFICES ASSUME m # 0, NEW c \in Level[m - 1] PROVE g[c] = f[c]
      BY DEF Agree
    <3>1. c \in Level[m]
      <4>1. m - 1 \in 0..m
        BY <2>1
      <4>. QED
        BY <2>2, <4>1, LevelsGrow
    <3>2. f = [node \in Level[m - 1] |-> InsertAtNode(f, node)]
      BY <2>3, Zenon DEF Is
    <3>3. f[c] = InsertAtNode(f, c)
      BY <3>2, Zenon
    <3>. QED
      BY <3>1, <3>3, Zenon
  <2>5. \A node \in Level[m] : InsertAtNode(g, node) = InsertAtNode(f, node)
    <3>. HIDE DEF g
    <3>. QED
      BY <2>2, <2>4, InsertLocal
  <2>6. g = [node \in Level[m] |-> InsertAtNode(g, node)]
    BY <2>5, Zenon
  <2>7. Is(m, g)
    BY <2>6, Zenon DEF Is
  <2>. QED
    BY <2>2, <2>7
<1>2. \E f : Is(Depth, f)
  <2>1. Depth \in 0..Depth
    BY <1>0
  <2>. HIDE DEF Is
  <2>. QED
    BY <1>1, <2>1
<1>3. InsertNode = CHOOSE f : Is(Depth, f)
  BY Zenon DEF InsertNode, Nodes, Depth
<1>4. Is(Depth, InsertNode)
  <2>. HIDE DEF Is
  <2>. QED
    BY <1>2, <1>3, Zenon
<1>. QED
  BY <1>0, <1>4, Zenon

\* RemoveNode is what its recursive definition says.
LEMMA RemoveUnfolds == \A node \in Nodes : RemoveNode[node] = RemoveAtNode(RemoveNode, node)
<1>0. Depth \in Nat /\ Nodes = Level[Depth]
  BY BytesAre DEF Depth, Nodes
<1>. DEFINE Is(m, f) == f = [node \in Level[m] |-> RemoveAtNode(f, node)]
            Missing == {m \in 0..Depth : ~\E f : Is(m, f)}
<1>1. Missing = {}
  <2>. SUFFICES ASSUME Missing # {} PROVE FALSE
    OBVIOUS
  <2>1. PICK m \in Missing : m \in Nat /\ \A k \in Missing : m <= k
    <3>1. Missing \subseteq Nat
      BY <1>0
    <3>. HIDE DEF Missing
    <3>. QED
      BY <3>1, Smallest
  <2>2. m \in 0..Depth /\ ~\E f : Is(m, f)
    BY <2>1
  <2>. HIDE DEF Is
  <2>3. PICK f : m # 0 => Is(m - 1, f)
    <3>1. CASE m = 0
      BY <3>1
    <3>2. CASE m # 0
      <4>1. m - 1 \in 0..Depth /\ ~(m <= m - 1)
        BY <1>0, <2>2, <3>2
      <4>2. m - 1 \notin Missing
        BY <2>1, <4>1
      <4>. QED
        BY <4>1, <4>2
    <3>. QED
      BY <3>1, <3>2
  <2>. DEFINE g == [node \in Level[m] |-> RemoveAtNode(f, node)]
  <2>4. Agree(g, f, m)
    <3>. SUFFICES ASSUME m # 0, NEW c \in Level[m - 1] PROVE g[c] = f[c]
      BY DEF Agree
    <3>1. c \in Level[m]
      <4>1. m - 1 \in 0..m
        BY <2>1
      <4>. QED
        BY <2>2, <4>1, LevelsGrow
    <3>2. f = [node \in Level[m - 1] |-> RemoveAtNode(f, node)]
      BY <2>3, Zenon DEF Is
    <3>3. f[c] = RemoveAtNode(f, c)
      BY <3>2, Zenon
    <3>. QED
      BY <3>1, <3>3, Zenon
  <2>5. \A node \in Level[m] : RemoveAtNode(g, node) = RemoveAtNode(f, node)
    <3>. HIDE DEF g
    <3>. QED
      BY <2>2, <2>4, RemoveLocal
  <2>6. g = [node \in Level[m] |-> RemoveAtNode(g, node)]
    BY <2>5, Zenon
  <2>7. Is(m, g)
    BY <2>6, Zenon DEF Is
  <2>. QED
    BY <2>2, <2>7
<1>2. \E f : Is(Depth, f)
  <2>1. Depth \in 0..Depth
    BY <1>0
  <2>. HIDE DEF Is
  <2>. QED
    BY <1>1, <2>1
<1>3. RemoveNode = CHOOSE f : Is(Depth, f)
  BY Zenon DEF RemoveNode, Nodes, Depth
<1>4. Is(Depth, RemoveNode)
  <2>. HIDE DEF Is
  <2>. QED
    BY <1>2, <1>3, Zenon
<1>. QED
  BY <1>0, <1>4, Zenon

\* Reloaded is what its recursive definition says.
LEMMA ReloadUnfolds == \A node \in Nodes : Reloaded[node] = ReloadNode(Reloaded, node)
<1>0. Depth \in Nat /\ Nodes = Level[Depth]
  BY BytesAre DEF Depth, Nodes
<1>. DEFINE Is(m, f) == f = [node \in Level[m] |-> ReloadNode(f, node)]
            Missing == {m \in 0..Depth : ~\E f : Is(m, f)}
<1>1. Missing = {}
  <2>. SUFFICES ASSUME Missing # {} PROVE FALSE
    OBVIOUS
  <2>1. PICK m \in Missing : m \in Nat /\ \A k \in Missing : m <= k
    <3>1. Missing \subseteq Nat
      BY <1>0
    <3>. HIDE DEF Missing
    <3>. QED
      BY <3>1, Smallest
  <2>2. m \in 0..Depth /\ ~\E f : Is(m, f)
    BY <2>1
  <2>. HIDE DEF Is
  <2>3. PICK f : m # 0 => Is(m - 1, f)
    <3>1. CASE m = 0
      BY <3>1
    <3>2. CASE m # 0
      <4>1. m - 1 \in 0..Depth /\ ~(m <= m - 1)
        BY <1>0, <2>2, <3>2
      <4>2. m - 1 \notin Missing
        BY <2>1, <4>1
      <4>. QED
        BY <4>1, <4>2
    <3>. QED
      BY <3>1, <3>2
  <2>. DEFINE g == [node \in Level[m] |-> ReloadNode(f, node)]
  <2>4. Agree(g, f, m)
    <3>. SUFFICES ASSUME m # 0, NEW c \in Level[m - 1] PROVE g[c] = f[c]
      BY DEF Agree
    <3>1. c \in Level[m]
      <4>1. m - 1 \in 0..m
        BY <2>1
      <4>. QED
        BY <2>2, <4>1, LevelsGrow
    <3>2. f = [node \in Level[m - 1] |-> ReloadNode(f, node)]
      BY <2>3, Zenon DEF Is
    <3>3. f[c] = ReloadNode(f, c)
      BY <3>2, Zenon
    <3>. QED
      BY <3>1, <3>3, Zenon
  <2>5. \A node \in Level[m] : ReloadNode(g, node) = ReloadNode(f, node)
    <3>. HIDE DEF g
    <3>. QED
      BY <2>2, <2>4, ReloadLocal
  <2>6. g = [node \in Level[m] |-> ReloadNode(g, node)]
    BY <2>5, Zenon
  <2>7. Is(m, g)
    BY <2>6, Zenon DEF Is
  <2>. QED
    BY <2>2, <2>7
<1>2. \E f : Is(Depth, f)
  <2>1. Depth \in 0..Depth
    BY <1>0
  <2>. HIDE DEF Is
  <2>. QED
    BY <1>1, <2>1
<1>3. Reloaded = CHOOSE f : Is(Depth, f)
  BY Zenon DEF Reloaded, Nodes, Depth
<1>4. Is(Depth, Reloaded)
  <2>. HIDE DEF Is
  <2>. QED
    BY <1>2, <1>3, Zenon
<1>. QED
  BY <1>0, <1>4, Zenon

-----------------------------------------------------------------------------
(* Trees that fit the bytes that are left. *)

\* Words of clean bytes, no longer than k.
Words(k) == {w \in Seq(Clean) : Len(w) <= k}

\* What may be below an inner node with a prefix of length n where k bytes are left.
Room(fit, k, n) == IF n < k THEN fit[k - 1 - n] \ {Empty} ELSE {}

\* Nodes that hold words of at most k bytes.
FitOver(packed, fit, k) ==
  {node \in Level[k + 1] :
     \/ node = Empty
     \/ node.kind = "Leaf" /\ node.suffix \in Words(k)
     \/ /\ node.prefix \in Words(k)
        /\ Sound(node, Room(fit, k, Len(node.prefix)))
        /\ Shapely(node)
        /\ packed => Packed(node)}
\* f holds the trees that fit where 0 .. m bytes are left.
IsFit(packed, m, f) == f = [k \in 0..m |-> FitOver(packed, f, k)]
\* The trees that fit where k bytes are left.
Fit(packed) == CHOOSE f : IsFit(packed, MaxLength, f)

\* FitOver reads its argument below k only.
LEMMA FitLocal ==
  ASSUME NEW packed, NEW f, NEW g, NEW k \in Nat, \A j \in 0..(k - 1) : f[j] = g[j]
  PROVE  FitOver(packed, f, k) = FitOver(packed, g, k)
<1>1. \A n \in Nat : Room(f, k, n) = Room(g, k, n)
  <2>. TAKE n \in Nat
  <2>1. CASE n < k
    <3>1. k - 1 - n \in 0..(k - 1)
      BY <2>1
    <3>2. f[k - 1 - n] = g[k - 1 - n]
      BY <3>1, Zenon
    <3>. QED
      BY <3>2, Zenon DEF Room
  <2>2. CASE ~(n < k)
    BY <2>2, Zenon DEF Room
  <2>. QED
    BY <2>1, <2>2
<1>2. \A w \in Words(k) : Room(f, k, Len(w)) = Room(g, k, Len(w))
  <2>1. \A w \in Words(k) : Len(w) \in Nat
    BY LenProperties DEF Words
  <2>. QED
    BY <1>1, <2>1
<1>. QED
  BY <1>2, Zenon DEF FitOver

\* Fit is what its definition says.
LEMMA FitExists ==
  ASSUME NEW packed, NEW k \in 0..MaxLength
  PROVE  Fit(packed)[k] = FitOver(packed, Fit(packed), k)
<1>. DEFINE Missing == {m \in 0..MaxLength : ~\E f : IsFit(packed, m, f)}
<1>0. MaxLength \in Nat
  BY BytesAre
<1>1. Missing = {}
  <2>. SUFFICES ASSUME Missing # {} PROVE FALSE
    OBVIOUS
  <2>1. PICK m \in Missing : m \in Nat /\ \A l \in Missing : m <= l
    <3>1. Missing \subseteq Nat
      BY <1>0
    <3>. HIDE DEF Missing
    <3>. QED
      BY <3>1, Smallest
  <2>2. m \in 0..MaxLength /\ ~\E f : IsFit(packed, m, f)
    BY <2>1
  <2>3. PICK f : m # 0 => IsFit(packed, m - 1, f)
    <3>1. CASE m = 0
      BY <3>1
    <3>2. CASE m # 0
      <4>1. m - 1 \in 0..MaxLength /\ ~(m <= m - 1)
        BY <1>0, <2>2, <3>2
      <4>2. m - 1 \notin Missing
        BY <2>1, <4>1
      <4>. QED
        BY <4>1, <4>2
    <3>. QED
      BY <3>1, <3>2
  <2>. DEFINE g == [l \in 0..m |-> FitOver(packed, f, l)]
  <2>4. \A l \in 0..(m - 1) : g[l] = f[l]
    <3>. TAKE l \in 0..(m - 1)
    <3>1. m # 0 /\ l \in 0..m
      BY <2>1
    <3>2. f = [j \in 0..(m - 1) |-> FitOver(packed, f, j)]
      BY <2>3, <3>1, Zenon DEF IsFit
    <3>3. f[l] = FitOver(packed, f, l)
      BY <3>2, Zenon
    <3>4. g[l] = FitOver(packed, f, l)
      BY <3>1, Zenon
    <3>. QED
      BY <3>3, <3>4, Zenon
  <2>5. \A l \in 0..m : FitOver(packed, g, l) = FitOver(packed, f, l)
    <3>. TAKE l \in 0..m
    <3>. HIDE DEF g
    <3>1. l \in Nat /\ \A j \in 0..(l - 1) : j \in 0..(m - 1)
      BY <2>1
    <3>2. \A j \in 0..(l - 1) : g[j] = f[j]
      BY <2>4, <3>1
    <3>. QED
      BY <3>1, <3>2, FitLocal
  <2>6. g = [l \in 0..m |-> FitOver(packed, g, l)]
    BY <2>5, Zenon
  <2>7. IsFit(packed, m, g)
    BY <2>6, Zenon DEF IsFit
  <2>. QED
    BY <2>2, <2>7
<1>2. \E f : IsFit(packed, MaxLength, f)
  <2>1. MaxLength \in 0..MaxLength
    BY <1>0
  <2>. QED
    BY <1>1, <2>1
<1>3. IsFit(packed, MaxLength, Fit(packed))
  BY <1>2, Zenon DEF Fit
<1>. QED
  BY <1>3, Zenon DEF IsFit

\* Below an inner node that fits.
Under(packed, k, n) == Room(Fit(packed), k, n)

\* What may lie under a node: trees that fit where its prefix and a byte
\* are taken off.
LEMMA UnderIs ==
  ASSUME NEW packed, NEW k \in 0..MaxLength, NEW n \in 0..k
  PROVE  /\ Empty \notin Under(packed, k, n)
         /\ n < k => /\ k - 1 - n \in 0..MaxLength /\ k - 1 - n < k
                     /\ Under(packed, k, n) = Fit(packed)[k - 1 - n] \ {Empty}
         /\ n = k => Under(packed, k, n) = {}
<1>1. MaxLength \in Nat
  BY BytesAre
<1>2. n < k => k - 1 - n \in 0..MaxLength /\ k - 1 - n < k
  BY <1>1
<1>3. n < k => Under(packed, k, n) = Fit(packed)[k - 1 - n] \ {Empty}
  BY DEF Under, Room
<1>4. ~(n < k) => Under(packed, k, n) = {}
  BY DEF Under, Room
<1>5. Empty \notin Under(packed, k, n)
  BY <1>3, <1>4
<1>6. n = k => ~(n < k)
  BY <1>1
<1>. QED
  BY <1>2, <1>3, <1>4, <1>5, <1>6

\* A node that fits is Empty, a leaf or a sound inner node.
LEMMA FitCases ==
  ASSUME NEW packed, NEW k \in 0..MaxLength, NEW node \in Fit(packed)[k]
  PROVE  /\ k \in Nat /\ node \in Level[k + 1] /\ node \in Nodes
         /\ \/ node = Empty /\ node.kind = "Empty"
            \/ /\ node.kind = "Leaf" /\ node # Empty /\ node.suffix \in Words(k)
               /\ node = Leaf(node.suffix)
            \/ /\ node # Empty /\ node.kind \notin {"Empty", "Leaf"}
               /\ node.prefix \in Words(k) /\ Len(node.prefix) \in 0..k
               /\ Sound(node, Under(packed, k, Len(node.prefix)))
               /\ Shapely(node)
               /\ packed => Packed(node)
<1>0. MaxLength \in Nat /\ Depth = MaxLength + 1 /\ k \in Nat
  BY BytesAre DEF Depth
<1>1. /\ node \in Level[k + 1]
      /\ \/ node = Empty
         \/ node.kind = "Leaf" /\ node.suffix \in Words(k)
         \/ /\ node.prefix \in Words(k)
            /\ Sound(node, Under(packed, k, Len(node.prefix)))
            /\ Shapely(node)
            /\ packed => Packed(node)
  BY FitExists DEF FitOver, Under
<1>2. k + 1 \in 0..Depth /\ Depth \in 0..Depth /\ k + 1 \in 0..Depth
  BY <1>0
<1>3. node \in Nodes
  <2>1. Level[k + 1] \subseteq Level[Depth]
    BY <1>2, LevelsGrow
  <2>. QED
    BY <1>0, <1>1, <2>1 DEF Nodes
<1>4. CASE node = Empty
  BY <1>0, <1>1, <1>3, <1>4 DEF Empty
<1>5. CASE node.kind = "Leaf" /\ node.suffix \in Words(k)
  <2>1. node # Empty
    BY <1>5 DEF Empty
  <2>2. node = Leaf(node.suffix)
    <3>1. node.kind # "Empty"
      BY <1>5
    <3>2. ~\E B : node \in Inner(B)
      BY <1>5, InnerIs
    <3>. QED
      BY <1>1, <1>2, <2>1, <3>2, LevelCases
  <2>. QED
    BY <1>0, <1>1, <1>3, <1>5, <2>1, <2>2
<1>6. CASE /\ node.prefix \in Words(k)
           /\ Sound(node, Under(packed, k, Len(node.prefix)))
           /\ Shapely(node)
           /\ packed => Packed(node)
  <2>1. Len(node.prefix) \in 0..k
    BY <1>0, <1>6, LenProperties DEF Words
  <2>2. Empty \notin Under(packed, k, Len(node.prefix))
    BY <2>1, UnderIs
  <2>3. node.kind \notin {"Empty", "Leaf"}
    BY <1>6, <2>2, SoundIs
  <2>4. node # Empty
    BY <2>3 DEF Empty
  <2>. QED
    BY <1>0, <1>1, <1>3, <1>6, <2>1, <2>3, <2>4
<1>. QED
  BY <1>1, <1>4, <1>5, <1>6

\* The empty tree fits everywhere.
LEMMA EmptyFits ==
  ASSUME NEW packed, NEW k \in 0..MaxLength
  PROVE  Empty \in Fit(packed)[k]
<1>1. k + 1 \in 0..Depth
  BY BytesAre DEF Depth
<1>2. Empty \in Level[k + 1]
  BY <1>1, LevelsExist DEF LevelOver, Outer
<1>. QED
  BY <1>2, FitExists DEF FitOver

\* The fields of a leaf.
LEMMA LeafIs ==
  ASSUME NEW w
  PROVE  Leaf(w).kind = "Leaf" /\ Leaf(w).suffix = w /\ Leaf(w) # Empty
BY DEF Leaf, Empty

\* A leaf fits where its word does.
LEMMA LeafFits ==
  ASSUME NEW packed, NEW k \in 0..MaxLength, NEW w \in Words(k)
  PROVE  Leaf(w) \in Fit(packed)[k] /\ Leaf(w) # Empty
<1>1. k + 1 \in 0..Depth
  BY BytesAre DEF Depth
<1>2. w \in Seq(Bytes)
  BY BytesAre, SeqMonotonic DEF Words
<1>3. Leaf(w) \in Level[k + 1]
  <2>1. Leaf(w) \in [kind : {"Leaf"}, suffix : Seq(Bytes)]
    BY <1>2 DEF Leaf
  <2>. QED
    BY <1>1, <2>1, LevelsExist DEF LevelOver, Outer
<1>. QED
  BY <1>3, FitExists, LeafIs DEF FitOver

\* A sound node is an inner node.
LEMMA SoundInner ==
  ASSUME NEW X, NEW B, X \cup {Empty} \subseteq B, NEW node, Sound(node, X)
  PROVE  node \in Inner(B)
<1>0. Seq(Clean) \subseteq Seq(Bytes) /\ Seq(X) \subseteq Seq(B)
  BY BytesAre, SeqMonotonic
<1>1. CASE SoundLinear(node, X)
  <2>1. /\ node \in [kind : {"N4", "N16"}, prefix : Seq(Clean), end : BOOLEAN,
                     keys : Seq(Clean), ch : Seq(X)]
        /\ Len(node.keys) = Len(node.ch)
    BY <1>1 DEF SoundLinear
  <2>2. node \in [kind : {"N4", "N16"}, prefix : Seq(Bytes), end : BOOLEAN,
                  keys : Seq(Bytes), ch : Seq(B)]
    BY <1>0, <2>1
  <2>. QED
    BY <2>1, <2>2 DEF Inner
<1>2. CASE Sound48(node, X)
  <2>1. node \in [kind : {"N48"}, prefix : Seq(Clean), end : BOOLEAN, n : Nat,
                  idx : [Bytes -> Slots \cup {Nil}], ch : [Slots -> X \cup {Empty}]]
    BY <1>2 DEF Sound48
  <2>2. node \in [kind : {"N48"}, prefix : Seq(Bytes), end : BOOLEAN, n : Nat,
                  idx : [Bytes -> Slots \cup {Nil}], ch : [Slots -> B]]
    BY <1>0, <2>1
  <2>. QED
    BY <2>2 DEF Inner
<1>3. CASE Sound256(node, X)
  <2>1. node \in [kind : {"N256"}, prefix : Seq(Clean), end : BOOLEAN, n : Nat,
                  ch : [Bytes -> X \cup {Empty}]]
    BY <1>3 DEF Sound256
  <2>2. node \in [kind : {"N256"}, prefix : Seq(Bytes), end : BOOLEAN, n : Nat,
                  ch : [Bytes -> B]]
    BY <1>0, <2>1
  <2>. QED
    BY <2>2 DEF Inner
<1>. QED
  BY <1>1, <1>2, <1>3 DEF Sound

\* A sound node over trees that fit, fits.
LEMMA InnerFits ==
  ASSUME NEW packed, NEW k \in 0..MaxLength, NEW node,
         node.prefix \in Words(k), Sound(node, Under(packed, k, Len(node.prefix))),
         Shapely(node), packed => Packed(node)
  PROVE  node \in Fit(packed)[k] /\ node # Empty
<1>. DEFINE n == Len(node.prefix)
            X == Under(packed, k, n)
<1>0. MaxLength \in Nat /\ k \in Nat /\ n \in 0..k
  BY BytesAre, LenProperties DEF Words
<1>1. k \in 0..Depth /\ k + 1 \in 0..Depth /\ k + 1 # 0 /\ (k + 1) - 1 = k
  BY <1>0 DEF Depth
<1>2. Empty \notin X /\ X \subseteq Level[k]
  <2>. HIDE DEF n
  <2>1. CASE n < k
    <3>1. X = Fit(packed)[k - 1 - n] \ {Empty} /\ k - 1 - n \in 0..MaxLength /\ Empty \notin X
      BY <1>0, <2>1, UnderIs
    <3>2. \A c \in X : c \in Level[(k - 1 - n) + 1]
      BY <3>1, FitCases
    <3>3. (k - 1 - n) + 1 \in 0..k
      BY <1>0, <2>1
    <3>4. Level[(k - 1 - n) + 1] \subseteq Level[k]
      BY <1>1, <3>3, LevelsGrow
    <3>. QED
      BY <3>1, <3>2, <3>4
  <2>2. CASE n = k
    <3>1. X = {}
      BY <1>0, <2>2, UnderIs
    <3>. QED
      BY <3>1
  <2>. QED
    BY <1>0, <2>1, <2>2
<1>3. Empty \in Level[k]
  BY <1>1, LevelsExist DEF LevelOver, Outer
<1>4. node \in Inner(Level[k])
  <2>. HIDE DEF X
  <2>1. Sound(node, X) /\ X \cup {Empty} \subseteq Level[k]
    BY <1>2, <1>3 DEF X
  <2>. QED
    BY <2>1, SoundInner
<1>5. node \in Level[k + 1]
  BY <1>1, <1>4, LevelsExist DEF LevelOver
<1>6. node \in FitOver(packed, Fit(packed), k)
  BY <1>5 DEF FitOver, Under
<1>7. node # Empty
  BY <1>4, InnerIs
<1>. QED
  BY <1>6, <1>7, FitExists

\* A node sound over some nodes is sound over more of them.
LEMMA SoundGrows ==
  ASSUME NEW X, NEW Y, X \subseteq Y, Empty \notin X, NEW node, Sound(node, X)
  PROVE  Sound(node, Y)
<1>. DEFINE p == node.prefix
            e == node.end
<1>1. p \in Seq(Clean) /\ e \in BOOLEAN
  BY SoundIs
<1>. HIDE DEF p, e
<1>2. RetitledAs(Retitle(node, p, e), node, Y, p, e)
  BY <1>1, Retitled
<1>3. node = Retitle(node, node.prefix, node.end)
  BY RetitleIs
<1>. QED
  BY <1>2, <1>3, Zenon DEF RetitledAs, p, e

\* A tree that fits, fits where there is more room.
LEMMA FitGrows ==
  ASSUME NEW packed
  PROVE  \A k \in 0..MaxLength : \A j \in 0..k : Fit(packed)[j] \subseteq Fit(packed)[k]
<1>0. MaxLength \in Nat
  BY BytesAre
<1>. DEFINE Good(k) == \A j \in 0..k : Fit(packed)[j] \subseteq Fit(packed)[k]
            Bad == {k \in 0..MaxLength : ~Good(k)}
<1>. SUFFICES ASSUME Bad # {} PROVE FALSE
  OBVIOUS
<1>1. PICK k \in Bad : k \in Nat /\ \A l \in Bad : k <= l
  <2>1. Bad \subseteq Nat
    BY <1>0
  <2>. HIDE DEF Bad
  <2>. QED
    BY <2>1, Smallest
<1>2. k \in 0..MaxLength /\ \A l \in 0..MaxLength : l < k => Good(l)
  BY <1>0, <1>1
<1>3. PICK j \in 0..k : \E node \in Fit(packed)[j] : node \notin Fit(packed)[k]
  BY <1>1
<1>4. PICK node \in Fit(packed)[j] : node \notin Fit(packed)[k]
  BY <1>3
<1>5. j \in 0..MaxLength /\ j \in Nat /\ j <= k /\ k \in Nat
  BY <1>0, <1>1, <1>2
<1>6. Words(j) \subseteq Words(k)
  <2>1. \A w \in Seq(Clean) : Len(w) \in Nat
    BY LenProperties
  <2>. QED
    BY <1>5, <2>1 DEF Words
<1>7. CASE node = Empty
  BY <1>2, <1>4, <1>7, EmptyFits
<1>8. CASE node.suffix \in Words(j) /\ node = Leaf(node.suffix)
  <2>1. node.suffix \in Words(k)
    BY <1>6, <1>8
  <2>. DEFINE w == node.suffix
  <2>2. Leaf(w) \in Fit(packed)[k]
    <3>. HIDE DEF w
    <3>1. w \in Words(k)
      BY <2>1 DEF w
    <3>. QED
      BY <1>2, <3>1, LeafFits
  <2>. QED
    BY <1>4, <1>8, <2>2
<1>9. CASE /\ node.prefix \in Words(j) /\ Len(node.prefix) \in 0..j
           /\ Sound(node, Under(packed, j, Len(node.prefix)))
           /\ Shapely(node)
           /\ packed => Packed(node)
  <2>. DEFINE n == Len(node.prefix)
              X == Under(packed, j, n)
              Y == Under(packed, k, n)
  <2>. HIDE DEF n
  <2>0. n \in 0..j /\ n \in 0..k
    BY <1>5, <1>9 DEF n
  <2>1. X \subseteq Y
    <3>1. CASE n = j
      <4>1. X = {}
        BY <1>5, <2>0, <3>1, UnderIs
      <4>. QED
        BY <4>1
    <3>2. CASE n < j
      <4>1. n < k /\ k - 1 - n \in 0..MaxLength /\ k - 1 - n < k /\ j - 1 - n \in 0..(k - 1 - n)
        <5>1. MaxLength \in Nat /\ j \in Nat /\ k \in Nat /\ n \in Nat /\ n < j /\ j <= k /\ k <= MaxLength
          BY <1>0, <1>2, <1>5, <2>0, <3>2
        <5>. HIDE DEF Bad, X, Y
        <5>. QED
          BY ONLY <5>1
      <4>2. X = Fit(packed)[j - 1 - n] \ {Empty} /\ Y = Fit(packed)[k - 1 - n] \ {Empty}
        BY <1>2, <1>5, <2>0, <3>2, <4>1, UnderIs
      <4>3. Good(k - 1 - n)
        BY <1>2, <4>1
      <4>. QED
        BY <4>1, <4>2, <4>3
    <3>. QED
      BY <1>5, <2>0, <3>1, <3>2
  <2>2. Sound(node, X)
    BY <1>9 DEF n
  <2>3. Empty \notin X
    BY <1>5, <2>0, UnderIs
  <2>. HIDE DEF X, Y
  <2>5. Sound(node, Y)
    BY <2>1, <2>2, <2>3, SoundGrows
  <2>6. node.prefix \in Words(k) /\ Sound(node, Under(packed, k, Len(node.prefix)))
    BY <1>6, <1>9, <2>5 DEF Y, n
  <2>7. Shapely(node) /\ (packed => Packed(node))
    BY <1>9
  <2>. QED
    BY <1>2, <1>4, <2>6, <2>7, InnerFits
<1>. QED
  BY <1>4, <1>5, <1>7, <1>8, <1>9, FitCases

-----------------------------------------------------------------------------
(* The words below a tree, in order. *)

\* Words in their order.
Order == {pair \in Seq(Clean) \X Seq(Clean) : Precedes(pair[1], pair[2])}

\* Precedes, with the number of bytes in common.
PrecedesAt(s, t, m) ==
  /\ m \in 0 .. Len(s) /\ m < Len(t) /\ \A i \in 1 .. m : s[i] = t[i]
  /\ m = Len(s) \/ s[m + 1] < t[m + 1]

\* How paths compare: the prefix first, then by byte, then by the rest.
LEMMA PathOrder ==
  ASSUME NEW p \in Seq(Clean), NEW b \in Clean, NEW s \in Seq(Clean)
  PROVE  /\ <<p, Path(p, b, s)>> \in Order
         /\ \A c \in Clean, t \in Seq(Clean) :
              b < c => <<Path(p, b, s), Path(p, c, t)>> \in Order
         /\ \A t \in Seq(Clean) :
              <<s, t>> \in Order => <<Path(p, b, s), Path(p, b, t)>> \in Order
<1>. DEFINE n == Len(p)
            w == Path(p, b, s)
<1>0. /\ w \in Seq(Clean) /\ Len(w) = n + 1 + Len(s) /\ n \in Nat /\ Len(s) \in Nat
      /\ \A i \in 1..(n + 1 + Len(s)) :
           w[i] = IF i <= n THEN p[i] ELSE IF i = n + 1 THEN b ELSE s[i - (n + 1)]
  <2>1. Path(p, b, s) \in Seq(Clean) /\ IsPath(Path(p, b, s), p, b, s)
    BY PathIs
  <2>2. n \in Nat /\ Len(s) \in Nat
    BY LenProperties
  <2>. QED
    BY <2>1, <2>2, Zenon DEF IsPath
<1>. HIDE DEF w, n
<1>1. PrecedesAt(p, w, n)
  BY <1>0 DEF PrecedesAt, n
<1>2. <<p, w>> \in Order
  <2>1. Precedes(p, w)
    BY <1>1, Zenon DEF Precedes, PrecedesAt
  <2>. QED
    BY <1>0, <2>1 DEF Order
<1>3. ASSUME NEW c \in Clean, NEW t \in Seq(Clean), b < c
      PROVE  <<w, Path(p, c, t)>> \in Order
  <2>. DEFINE v == Path(p, c, t)
  <2>0. /\ v \in Seq(Clean) /\ Len(v) = n + 1 + Len(t) /\ Len(t) \in Nat
        /\ \A i \in 1..(n + 1 + Len(t)) :
             v[i] = IF i <= n THEN p[i] ELSE IF i = n + 1 THEN c ELSE t[i - (n + 1)]
    <3>1. Path(p, c, t) \in Seq(Clean) /\ IsPath(Path(p, c, t), p, c, t)
      BY PathIs
    <3>2. Len(t) \in Nat
      BY LenProperties
    <3>. QED
      BY <3>1, <3>2, Zenon DEF IsPath, n
  <2>. HIDE DEF v
  <2>1. PrecedesAt(w, v, n)
    BY <1>0, <1>3, <2>0 DEF PrecedesAt
  <2>2. Precedes(w, v)
    BY <2>1, Zenon DEF Precedes, PrecedesAt
  <2>. QED
    BY <1>0, <2>0, <2>2 DEF Order, v
<1>4. ASSUME NEW t \in Seq(Clean), <<s, t>> \in Order
      PROVE  <<w, Path(p, b, t)>> \in Order
  <2>. DEFINE v == Path(p, b, t)
  <2>0. /\ v \in Seq(Clean) /\ Len(v) = n + 1 + Len(t) /\ Len(t) \in Nat
        /\ \A i \in 1..(n + 1 + Len(t)) :
             v[i] = IF i <= n THEN p[i] ELSE IF i = n + 1 THEN b ELSE t[i - (n + 1)]
    <3>1. Path(p, b, t) \in Seq(Clean) /\ IsPath(Path(p, b, t), p, b, t)
      BY PathIs
    <3>2. Len(t) \in Nat
      BY LenProperties
    <3>. QED
      BY <3>1, <3>2, Zenon DEF IsPath, n
  <2>. HIDE DEF v
  <2>1. Precedes(s, t)
    BY <1>4 DEF Order
  <2>2. PICK m : PrecedesAt(s, t, m)
    BY <2>1, Zenon DEF Precedes, PrecedesAt
  <2>3. /\ m \in 0..Len(s) /\ m < Len(t) /\ m \in Nat
        /\ \A i \in 1..m : s[i] = t[i]
        /\ m = Len(s) \/ s[m + 1] < t[m + 1]
    BY <1>0, <2>2 DEF PrecedesAt
  <2>. DEFINE k == n + 1 + m
  <2>4. k \in 0..Len(w) /\ k < Len(v)
    BY <1>0, <2>0, <2>3
  <2>5. \A i \in 1..k : w[i] = v[i]
    <3>. TAKE i \in 1..k
    <3>1. CASE i <= n + 1
      <4>1. i \in 1..(n + 1 + Len(s)) /\ i \in 1..(n + 1 + Len(t)) /\ (i <= n \/ i = n + 1)
        BY <1>0, <2>0, <2>3, <3>1
      <4>. QED
        BY <1>0, <2>0, <4>1
    <3>2. CASE i > n + 1
      <4>1. /\ i - (n + 1) \in 1..m /\ i \in 1..(n + 1 + Len(s)) /\ i \in 1..(n + 1 + Len(t))
            /\ ~(i <= n) /\ i # n + 1
        BY <1>0, <2>0, <2>3, <3>2
      <4>2. w[i] = s[i - (n + 1)] /\ v[i] = t[i - (n + 1)]
        BY <1>0, <2>0, <4>1
      <4>. QED
        BY <2>3, <4>1, <4>2
    <3>. QED
      BY <1>0, <2>3, <3>1, <3>2
  <2>6. k = Len(w) \/ w[k + 1] < v[k + 1]
    <3>1. CASE m = Len(s)
      BY <1>0, <3>1
    <3>2. CASE m # Len(s)
      <4>1. /\ k + 1 \in 1..(n + 1 + Len(s)) /\ k + 1 \in 1..(n + 1 + Len(t))
            /\ (k + 1) - (n + 1) = m + 1 /\ ~(k + 1 <= n) /\ k + 1 # n + 1
        BY <1>0, <2>0, <2>3, <3>2
      <4>2. w[k + 1] = s[m + 1] /\ v[k + 1] = t[m + 1]
        <5>. HIDE DEF k
        <5>. QED
          BY <1>0, <2>0, <4>1
      <4>. QED
        BY <2>3, <3>2, <4>2
    <3>. QED
      BY <3>1, <3>2
  <2>. HIDE DEF k
  <2>7. PrecedesAt(w, v, k)
    BY <2>4, <2>5, <2>6 DEF PrecedesAt
  <2>8. Precedes(w, v)
    BY <2>7, Zenon DEF Precedes, PrecedesAt
  <2>. QED
    BY <1>0, <2>0, <2>8 DEF Order, v
<1>. QED
  BY <1>2, <1>3, <1>4 DEF w

\* The children of a sound node, as collect_all visits them.
UnderByte(found, node, b) ==
  [j \in DOMAIN found[Child(node, b)] |-> Path(node.prefix, b, found[Child(node, b)][j])]
\* The word that ends at a node, if one does.
EndsHere(node) == IF node.end THEN <<node.prefix>> ELSE <<>>
\* collect_all over the bytes of a node.
Visit(found, node, bytes) ==
  EndsHere(node) \o FlattenSeq([i \in DOMAIN bytes |-> UnderByte(found, node, bytes[i])])

\* collect_all visits the children in the order of their bytes.
LEMMA VisitIs ==
  ASSUME NEW X, Empty \notin X, NEW node, Sound(node, X), NEW found
  PROVE  \E bytes \in Seq(ChildBytes(node)) :
           /\ Increasing(bytes) /\ ToSet(bytes) = ChildBytes(node)
           /\ BelowInner(found, node) = Visit(found, node, bytes)
<1>1. CASE IsLinear(node)
  <2>. DEFINE n == Len(node.keys)
  <2>1. SoundLinear(node, X)
    BY <1>1 DEF Sound, Sound48, Sound256, IsLinear
  <2>2. /\ n \in Nat /\ DOMAIN node.keys = 1..n
        /\ ChildBytes(node) = {node.keys[i] : i \in 1..n}
        /\ \A i \in 1..n : Child(node, node.keys[i]) = node.ch[i]
    BY <2>1, LinearIs
  <2>3. node.keys \in Seq(Clean) /\ Increasing(node.keys)
    BY <2>1 DEF SoundLinear
  <2>4. ToSet(node.keys) = ChildBytes(node)
    BY <2>2, <2>3, ElementsOf
  <2>5. node.keys \in Seq(ChildBytes(node))
    <3>1. \A i \in 1..n : node.keys[i] \in ChildBytes(node)
      BY <2>2
    <3>. QED
      BY <2>2, <2>3, <3>1
  <2>6. \A i \in DOMAIN node.keys :
          UnderByte(found, node, node.keys[i])
            = [j \in DOMAIN found[node.ch[i]] |-> node.prefix \o <<node.keys[i]>> \o found[node.ch[i]][j]]
    <3>. TAKE i \in DOMAIN node.keys
    <3>1. Child(node, node.keys[i]) = node.ch[i]
      BY <2>2
    <3>. QED
      BY <3>1, Zenon DEF UnderByte, Path
  <2>7. [i \in DOMAIN node.keys |-> UnderByte(found, node, node.keys[i])]
          = [i \in DOMAIN node.keys |->
               [j \in DOMAIN found[node.ch[i]] |-> node.prefix \o <<node.keys[i]>> \o found[node.ch[i]][j]]]
    BY <2>6, Zenon
  <2>8. BelowInner(found, node) = Visit(found, node, node.keys)
    BY <1>1, <2>7, Zenon DEF BelowInner, Visit, EndsHere
  <2>. QED
    BY <2>3, <2>4, <2>5, <2>8, Zenon
<1>2. CASE ~IsLinear(node)
  <2>. DEFINE U == ChildBytes(node)
              bytes == Ascending(U)
  <2>1. U \subseteq Nat /\ IsFiniteSet(U)
    BY SoundIs, BytesAre
  <2>2. BelowInner(found, node) = Visit(found, node, bytes)
    BY <1>2, Zenon DEF BelowInner, Visit, EndsHere, UnderByte, Path
  <2>. HIDE DEF U
  <2>3. bytes \in Seq(U) /\ Increasing(bytes) /\ ToSet(bytes) = U
    BY <2>1, AscendingIs
  <2>. HIDE DEF bytes
  <2>. QED
    BY <2>2, <2>3, Zenon DEF U
<1>. QED
  BY <1>1, <1>2

\* The words beyond byte b, and the words of a node.
At(found, node, b) == IF b \in ChildBytes(node) THEN ToSet(found[Child(node, b)]) ELSE {}
\* The words of an inner node, given what is found below the children.
Held(found, node) ==
  {w \in Seq(Clean) :
     \/ node.end /\ w = node.prefix
     \/ \E b \in Clean : \E t \in At(found, node, b) : w = Path(node.prefix, b, t)}

\* What is found below a node: clean words in their order.
Found(s) == s \in Seq(Seq(Clean)) /\ Chained(s, Order)

\* What is found under one byte of a node.
UnderFound(found, node, b) ==
  /\ Found(UnderByte(found, node, b))
  /\ ToSet(UnderByte(found, node, b)) = {Path(node.prefix, b, t) : t \in ToSet(found[Child(node, b)])}

\* The words under one byte keep their order behind the prefix and the byte.
LEMMA UnderByteIs ==
  ASSUME NEW found, NEW node, node.prefix \in Seq(Clean), NEW b \in Clean,
         Found(found[Child(node, b)])
  PROVE  UnderFound(found, node, b)
<1>. DEFINE p == node.prefix
            s == found[Child(node, b)]
            u == [j \in DOMAIN s |-> Path(p, b, s[j])]
            n == Len(s)
<1>1. s \in Seq(Seq(Clean)) /\ Chained(s, Order) /\ p \in Seq(Clean)
  BY DEF Found
<1>2. UnderByte(found, node, b) = u
  BY Zenon DEF UnderByte
<1>. HIDE DEF p, s
<1>3. n \in Nat /\ DOMAIN s = 1..n /\ \A j \in 1..n : s[j] \in Seq(Clean)
  BY <1>1, LenProperties, ElementOfSeq
<1>4. ToSet(s) = {s[j] : j \in 1..n}
  BY <1>1, ElementsOf
<1>5. \A j \in 1..n : Path(p, b, s[j]) \in Seq(Clean)
  BY <1>1, <1>3, PathIs
<1>6. u \in Seq(Seq(Clean)) /\ Len(u) = n /\ \A j \in 1..n : u[j] = Path(p, b, s[j])
  BY <1>3, <1>5
<1>. HIDE DEF u, n
<1>7. ToSet(u) = {Path(p, b, t) : t \in ToSet(s)}
  <2>1. ToSet(u) = {u[j] : j \in 1..n}
    BY <1>6, ElementsOf
  <2>. QED
    BY <1>4, <1>6, <2>1
<1>8. Chained(u, Order)
  <2>. SUFFICES ASSUME NEW j \in 1..n, NEW k \in 1..n, j < k
                PROVE  <<u[j], u[k]>> \in Order
    BY <1>6 DEF Chained
  <2>1. <<s[j], s[k]>> \in Order /\ s[j] \in Seq(Clean) /\ s[k] \in Seq(Clean)
    BY <1>1, <1>3 DEF Chained, n
  <2>2. <<Path(p, b, s[j]), Path(p, b, s[k])>> \in Order
    BY <1>1, <2>1, PathOrder
  <2>. QED
    BY <1>6, <2>2
<1>. QED
  BY <1>2, <1>6, <1>7, <1>8 DEF UnderFound, Found, p, s

\* collect_all at an inner node: its words, each before the next.
LEMMA BelowInnerIs ==
  ASSUME NEW X, Empty \notin X, NEW node, Sound(node, X), NEW found,
         \A c \in X : Found(found[c])
  PROVE  /\ Found(BelowInner(found, node))
         /\ ToSet(BelowInner(found, node)) = Held(found, node)
<1>. DEFINE U == ChildBytes(node)
            p == node.prefix
<1>1. /\ p \in Seq(Clean) /\ node.end \in BOOLEAN /\ U \subseteq Clean
      /\ \A b \in U : Child(node, b) \in X
  BY SoundIs
<1>2. PICK bytes \in Seq(U) :
        /\ Increasing(bytes) /\ ToSet(bytes) = U
        /\ BelowInner(found, node) = Visit(found, node, bytes)
  BY VisitIs
<1>. DEFINE n == Len(bytes)
            q == [i \in DOMAIN bytes |-> UnderByte(found, node, bytes[i])]
            e == EndsHere(node)
<1>3. n \in Nat /\ DOMAIN bytes = 1..n /\ U = {bytes[i] : i \in 1..n}
  BY <1>2, LenProperties, ElementsOf
<1>4. \A i \in 1..n : bytes[i] \in U /\ bytes[i] \in Clean
  BY <1>1, <1>3
<1>5. \A b \in U : /\ Found(UnderByte(found, node, b))
                   /\ ToSet(UnderByte(found, node, b)) = {Path(p, b, t) : t \in At(found, node, b)}
                   /\ At(found, node, b) \subseteq Seq(Clean)
  <2>. TAKE b \in U
  <2>1. b \in Clean /\ Found(found[Child(node, b)])
    BY <1>1
  <2>2. /\ Found(UnderByte(found, node, b))
        /\ ToSet(UnderByte(found, node, b)) = {Path(p, b, t) : t \in ToSet(found[Child(node, b)])}
    <3>1. UnderFound(found, node, b)
      BY <1>1, <2>1, UnderByteIs
    <3>. QED
      BY <3>1, Zenon DEF UnderFound
  <2>3. At(found, node, b) = ToSet(found[Child(node, b)])
    BY DEF At
  <2>4. ToSet(found[Child(node, b)]) \subseteq Seq(Clean)
    BY <2>1, ElementsOf DEF Found
  <2>. QED
    BY <2>2, <2>3, <2>4, Zenon
<1>6. /\ q \in Seq(Seq(Seq(Clean))) /\ Len(q) = n
      /\ \A i \in 1..n : q[i] = UnderByte(found, node, bytes[i])
  <2>1. \A i \in 1..n : UnderByte(found, node, bytes[i]) \in Seq(Seq(Clean))
    BY <1>4, <1>5 DEF Found
  <2>. QED
    BY <1>3, <2>1
<1>. HIDE DEF q, n
<1>7. \A i \in 1..Len(q) : Chained(q[i], Order)
  BY <1>4, <1>5, <1>6 DEF Found
<1>8. \A i, j \in 1..Len(q) : i < j => \A x \in ToSet(q[i]), y \in ToSet(q[j]) : <<x, y>> \in Order
  <2>. TAKE i, j \in 1..Len(q)
  <2>. HAVE i < j
  <2>. TAKE x \in ToSet(q[i]), y \in ToSet(q[j])
  <2>1. bytes[i] < bytes[j] /\ bytes[i] \in Clean /\ bytes[j] \in Clean
    BY <1>2, <1>4, <1>6 DEF Increasing, n
  <2>0. \A k \in 1..n : /\ ToSet(q[k]) = {Path(p, bytes[k], t) : t \in At(found, node, bytes[k])}
                        /\ At(found, node, bytes[k]) \subseteq Seq(Clean)
    <3>. TAKE k \in 1..n
    <3>1. bytes[k] \in U /\ q[k] = UnderByte(found, node, bytes[k])
      BY <1>4, <1>6
    <3>. QED
      BY <1>5, <3>1
  <2>2. PICK s \in At(found, node, bytes[i]) : x = Path(p, bytes[i], s) /\ s \in Seq(Clean)
    BY <1>6, <2>0
  <2>3. PICK t \in At(found, node, bytes[j]) : y = Path(p, bytes[j], t) /\ t \in Seq(Clean)
    BY <1>6, <2>0
  <2>. QED
    BY <1>1, <2>1, <2>2, <2>3, PathOrder
<1>. DEFINE f == FlattenSeq(q)
<1>9. /\ f \in Seq(Seq(Clean)) /\ Chained(f, Order)
      /\ ToSet(f) = UNION {ToSet(q[i]) : i \in 1..Len(q)}
  BY <1>6, <1>7, <1>8, FlattenChained
<1>. HIDE DEF f
<1>10. \A x : x \in ToSet(f) <=> \E b \in Clean : \E t \in At(found, node, b) : x = Path(p, b, t)
  <2>1. \A x \in ToSet(f) : \E b \in Clean : \E t \in At(found, node, b) : x = Path(p, b, t)
    <3>. TAKE x \in ToSet(f)
    <3>1. PICK i \in 1..n : x \in ToSet(q[i])
      BY <1>6, <1>9
    <3>2. PICK t \in At(found, node, bytes[i]) : x = Path(p, bytes[i], t)
      BY <1>4, <1>5, <1>6, <3>1
    <3>. QED
      BY <1>4, <3>2
  <2>2. ASSUME NEW b \in Clean, NEW t \in At(found, node, b)
        PROVE  Path(p, b, t) \in ToSet(f)
    <3>1. b \in U
      BY DEF At
    <3>2. PICK i \in 1..n : b = bytes[i]
      BY <1>3, <3>1
    <3>3. Path(p, b, t) \in ToSet(q[i])
      BY <1>5, <1>6, <3>1, <3>2
    <3>. QED
      BY <1>6, <1>9, <3>3
  <2>. QED
    BY <2>1, <2>2
<1>11. /\ e \in Seq(Seq(Clean)) /\ Chained(e, Order)
       /\ \A x : x \in ToSet(e) <=> node.end /\ x = p
  <2>1. CASE node.end
    <3>1. e = <<p>>
      BY <2>1 DEF EndsHere
    <3>2. e \in Seq(Seq(Clean)) /\ Len(e) = 1 /\ e[1] = p
      BY <1>1, <3>1
    <3>. HIDE DEF e
    <3>3. ToSet(e) = {e[i] : i \in 1..Len(e)}
      BY <3>2, ElementsOf
    <3>. QED
      BY <2>1, <3>2, <3>3 DEF Chained
  <2>2. CASE ~node.end
    <3>1. e = <<>>
      BY <2>2 DEF EndsHere
    <3>2. <<>> \in Seq(Seq(Clean)) /\ Chained(<<>>, Order) /\ ToSet(<<>>) = {}
      BY EmptyChained
    <3>. QED
      BY <2>2, <3>1, <3>2
  <2>. QED
    BY <2>1, <2>2
<1>. HIDE DEF e
<1>12. \A x \in ToSet(e), y \in ToSet(f) : <<x, y>> \in Order
  <2>. TAKE x \in ToSet(e), y \in ToSet(f)
  <2>1. x = p
    BY <1>11
  <2>2. PICK b \in Clean : \E t \in At(found, node, b) : y = Path(p, b, t)
    BY <1>10
  <2>4. PICK t \in At(found, node, b) : y = Path(p, b, t)
    BY <2>2
  <2>3. t \in Seq(Clean)
    <3>1. b \in U
      BY DEF At
    <3>. QED
      BY <1>5, <3>1
  <2>. QED
    BY <1>1, <2>1, <2>3, <2>4, PathOrder
<1>13. /\ e \o f \in Seq(Seq(Clean)) /\ Chained(e \o f, Order)
       /\ ToSet(e \o f) = ToSet(e) \cup ToSet(f)
  BY <1>9, <1>11, <1>12, ConcatChained
<1>14. BelowInner(found, node) = e \o f
  BY <1>2 DEF Visit, e, f, q
<1>15. ToSet(e) \cup ToSet(f) = Held(found, node)
  <2>1. ToSet(e) \subseteq Seq(Clean) /\ ToSet(f) \subseteq Seq(Clean)
    BY <1>9, <1>11, ElementsOf
  <2>. QED
    BY <1>10, <1>11, <2>1 DEF Held, p
<1>. QED
  BY <1>13, <1>14, <1>15 DEF Found

\* The words of a tree, and those beyond one byte of a node.
WordsOf(node) == ToSet(Below[node])
Beyond(node, b) == At(Below, node, b)
\* The words an inner node holds by its prefix, flag and children.
Holds(node) == Held(Below, node)

\* The words below a node, by its kind.
ReadsAs(node) ==
  /\ Found(Below[node])
  /\ node = Empty => WordsOf(node) = {}
  /\ node.kind = "Leaf" => WordsOf(node) = {node.suffix}
  /\ node.kind \notin {"Empty", "Leaf"} => WordsOf(node) = Holds(node)

\* The induction on the bytes that are left: below every tree that fits,
\* collect_all finds its words in order.
LEMMA WordsAre ==
  ASSUME NEW packed
  PROVE  \A k \in 0..MaxLength : \A node \in Fit(packed)[k] :
           ReadsAs(node) /\ WordsOf(node) \subseteq Words(k)
<1>0. MaxLength \in Nat
  BY BytesAre
<1>. DEFINE Good(k) == \A node \in Fit(packed)[k] : ReadsAs(node) /\ WordsOf(node) \subseteq Words(k)
            Bad == {k \in 0..MaxLength : ~Good(k)}
<1>. SUFFICES ASSUME Bad # {} PROVE FALSE
  OBVIOUS
<1>1. PICK k \in Bad : k \in Nat /\ \A l \in Bad : k <= l
  <2>1. Bad \subseteq Nat
    BY <1>0
  <2>. HIDE DEF Bad
  <2>. QED
    BY <2>1, Smallest
<1>2. k \in 0..MaxLength /\ \A l \in 0..MaxLength : l < k => Good(l)
  BY <1>0, <1>1
<1>3. PICK node \in Fit(packed)[k] : ~(ReadsAs(node) /\ WordsOf(node) \subseteq Words(k))
  BY <1>1
<1>. HIDE DEF Bad
<1>4. Below[node] = BelowNode(Below, node)
  BY <1>2, FitCases, BelowUnfolds
<1>5. CASE node = Empty /\ node.kind = "Empty"
  <2>1. Below[node] = <<>>
    BY <1>4, <1>5 DEF BelowNode
  <2>2. Found(Below[node]) /\ WordsOf(node) = {}
    BY <2>1, EmptyChained DEF Found, WordsOf
  <2>. QED
    BY <1>3, <1>5, <2>2 DEF ReadsAs
<1>6. CASE node.kind = "Leaf" /\ node # Empty /\ node.suffix \in Words(k)
  <2>. DEFINE s == Below[node]
  <2>1. s = <<node.suffix>>
    BY <1>4, <1>6 DEF BelowNode
  <2>2. s \in Seq(Seq(Clean)) /\ Len(s) = 1 /\ s[1] = node.suffix
    BY <1>6, <2>1 DEF Words
  <2>. HIDE DEF s
  <2>3. ToSet(s) = {s[i] : i \in 1..Len(s)}
    BY <2>2, ElementsOf
  <2>4. Chained(s, Order)
    BY <2>2 DEF Chained
  <2>5. Found(Below[node]) /\ WordsOf(node) = {node.suffix}
    BY <2>2, <2>3, <2>4 DEF Found, WordsOf, s
  <2>. QED
    BY <1>3, <1>6, <2>5 DEF ReadsAs
<1>7. CASE /\ node # Empty /\ node.kind \notin {"Empty", "Leaf"}
           /\ node.prefix \in Words(k) /\ Len(node.prefix) \in 0..k
           /\ Sound(node, Under(packed, k, Len(node.prefix)))
  <2>. DEFINE n == Len(node.prefix)
              X == Under(packed, k, n)
  <2>. HIDE DEF n
  <2>0. n \in 0..k
    BY <1>7 DEF n
  <2>1. Empty \notin X /\ \A c \in X : /\ n < k /\ k - 1 - n \in 0..MaxLength /\ k - 1 - n < k
                                       /\ c \in Fit(packed)[k - 1 - n]
    <3>1. /\ Empty \notin X
          /\ n < k => /\ k - 1 - n \in 0..MaxLength /\ k - 1 - n < k
                      /\ X = Fit(packed)[k - 1 - n] \ {Empty}
          /\ n = k => X = {}
      BY <1>2, <2>0, UnderIs
    <3>2. n < k \/ n = k
      BY <1>1, <2>0
    <3>. HIDE DEF X
    <3>. QED
      BY <3>1, <3>2
  <2>2. \A c \in X : Found(Below[c]) /\ WordsOf(c) \subseteq Words(k - 1 - n)
    BY <1>2, <2>1 DEF ReadsAs
  <2>3. Sound(node, X)
    BY <1>7 DEF n
  <2>. HIDE DEF X
  <2>4. /\ Found(BelowInner(Below, node))
        /\ ToSet(BelowInner(Below, node)) = Held(Below, node)
    BY <2>1, <2>2, <2>3, BelowInnerIs
  <2>5. Below[node] = BelowInner(Below, node)
    BY <1>4, <1>7 DEF BelowNode
  <2>6. Found(Below[node]) /\ WordsOf(node) = Holds(node)
    BY <2>4, <2>5 DEF WordsOf, Holds
  <2>7. Holds(node) \subseteq Words(k)
    <3>. SUFFICES ASSUME NEW w \in Holds(node) PROVE w \in Words(k)
      OBVIOUS
    <3>1. w \in Seq(Clean)
      BY DEF Holds, Held
    <3>2. CASE w = node.prefix
      BY <1>7, <3>2
    <3>3. CASE \E b \in Clean : \E t \in At(Below, node, b) : w = Path(node.prefix, b, t)
      <4>1. PICK b \in Clean : \E t \in At(Below, node, b) : w = Path(node.prefix, b, t)
        BY <3>3
      <4>2. PICK t \in At(Below, node, b) : w = Path(node.prefix, b, t)
        BY <4>1
      <4>3. b \in ChildBytes(node) /\ t \in WordsOf(Child(node, b))
        BY DEF At, WordsOf
      <4>4. Child(node, b) \in X
        BY <2>1, <2>3, <4>3, SoundIs
      <4>5. t \in Words(k - 1 - n) /\ n < k
        BY <2>1, <2>2, <4>3, <4>4
      <4>6. IsPath(w, node.prefix, b, t)
        BY <1>7, <4>2, <4>5, PathIs DEF Words
      <4>7. Len(w) = n + 1 + Len(t)
        BY <4>6, Zenon DEF IsPath, n
      <4>8. Len(t) \in Nat /\ Len(t) <= k - 1 - n
        BY <4>5, LenProperties DEF Words
      <4>9. Len(w) <= k
        BY <1>1, <2>0, <4>7, <4>8
      <4>. QED
        BY <3>1, <4>9 DEF Words
    <3>. QED
      BY <3>2, <3>3 DEF Holds, Held
  <2>. QED
    BY <1>3, <1>7, <2>6, <2>7 DEF ReadsAs
<1>. QED
  BY <1>2, <1>3, <1>5, <1>6, <1>7, FitCases

\* A word that goes on is not its beginning.
LEMMA PathLonger ==
  ASSUME NEW p \in Seq(Clean), NEW b \in Clean, NEW s \in Seq(Clean)
  PROVE  Path(p, b, s) \in Seq(Clean) /\ Path(p, b, s) # p
<1>1. Path(p, b, s) \in Seq(Clean) /\ IsPath(Path(p, b, s), p, b, s)
  BY PathIs
<1>2. Len(Path(p, b, s)) = Len(p) + 1 + Len(s)
  BY <1>1, Zenon DEF IsPath
<1>3. Len(p) \in Nat /\ Len(s) \in Nat
  BY LenProperties
<1>4. Len(Path(p, b, s)) # Len(p)
  BY <1>2, <1>3
<1>. QED
  BY <1>1, <1>4

\* The words of an inner node: the one that ends there, and those beyond its
\* bytes.
LEMMA HoldsIs ==
  ASSUME NEW node
  PROVE  \A w : w \in Holds(node) <=>
           /\ w \in Seq(Clean)
           /\ \/ node.end /\ w = node.prefix
              \/ \E b \in Clean : \E t \in Beyond(node, b) : w = Path(node.prefix, b, t)
BY DEF Holds, Held, Beyond

\* How what lies beyond the bytes of two nodes compares.
SameBeyond(r, node) == \A b : Beyond(r, b) = Beyond(node, b)
SameBut(r, node, b) == \A c \in Clean \ {b} : Beyond(r, c) = Beyond(node, c)
OneMore(r, node, b, t) == SameBut(r, node, b) /\ Beyond(r, b) = Beyond(node, b) \cup {t}
OneLess(r, node, b, t) == SameBut(r, node, b) /\ Beyond(r, b) = Beyond(node, b) \ {t}
\* No word beyond a byte contains the mark.
BeyondClean(node) == \A b : Beyond(node, b) \subseteq Seq(Clean)

\* The same children, the same words beyond the bytes.
LEMMA BeyondIs ==
  ASSUME NEW r, NEW node, SameChildren(r, node)
  PROVE  SameBeyond(r, node)
<1>. SUFFICES \A b : Beyond(r, b) = Beyond(node, b)
  BY DEF SameBeyond
<1>1. /\ ChildBytes(r) = ChildBytes(node)
      /\ \A b \in ChildBytes(node) : Child(r, b) = Child(node, b)
  BY DEF SameChildren
<1>. TAKE b
<1>2. CASE b \in ChildBytes(node)
  <2>1. Child(r, b) = Child(node, b) /\ b \in ChildBytes(r)
    BY <1>1, <1>2
  <2>. QED
    BY <1>2, <2>1 DEF Beyond, At
<1>3. CASE b \notin ChildBytes(node)
  BY <1>1, <1>3 DEF Beyond, At
<1>. QED
  BY <1>2, <1>3

\* The same value and the same words beyond the bytes: the same words.
LEMMA HoldsSame ==
  ASSUME NEW r, NEW node, SameValue(r, node), SameBeyond(r, node)
  PROVE  Holds(r) = Holds(node)
<1>0. \A c \in Clean : Beyond(r, c) = Beyond(node, c)
  BY DEF SameBeyond
<1>1. r.prefix = node.prefix /\ r.end = node.end
  BY DEF SameValue
<1>2. \A w : w \in Holds(r) <=> w \in Holds(node)
  BY <1>0, <1>1, HoldsIs
<1>. QED
  BY <1>2

\* The flag adds the prefix to the words, or takes it away.
LEMMA HoldsEnd ==
  ASSUME NEW r, NEW node, r.prefix = node.prefix, node.prefix \in Seq(Clean),
         SameBeyond(r, node), BeyondClean(node)
  PROVE  /\ r.end => Holds(r) = Holds(node) \cup {node.prefix}
         /\ ~r.end => Holds(r) = Holds(node) \ {node.prefix}
<1>0. \A c \in Clean : Beyond(r, c) = Beyond(node, c) /\ Beyond(node, c) \subseteq Seq(Clean)
  BY DEF SameBeyond, BeyondClean
<1>. DEFINE p == node.prefix
            More(w) == \E b \in Clean : \E t \in Beyond(node, b) : w = Path(p, b, t)
<1>1. \A w : w \in Holds(node) <=> w \in Seq(Clean) /\ ((node.end /\ w = p) \/ More(w))
  BY HoldsIs
<1>2. \A w : w \in Holds(r) <=> w \in Seq(Clean) /\ ((r.end /\ w = p) \/ More(w))
  <2>1. \A w : w \in Holds(r) <=>
           /\ w \in Seq(Clean)
           /\ (r.end /\ w = r.prefix) \/ \E b \in Clean : \E t \in Beyond(r, b) : w = Path(r.prefix, b, t)
    BY HoldsIs
  <2>. QED
    BY <1>0, <2>1
<1>3. ~More(p)
  BY <1>0, PathLonger
<1>. HIDE DEF More, p
<1>4. p \in Seq(Clean)
  BY DEF p
<1>5. r.end => \A w : w \in Holds(r) <=> w \in Holds(node) \/ w = p
  BY <1>1, <1>2, <1>4
<1>6. ~r.end => \A w : w \in Holds(r) <=> w \in Holds(node) /\ w # p
  BY <1>1, <1>2, <1>3
<1>. QED
  BY <1>5, <1>6 DEF p

\* One word more beyond a byte is one word more.
LEMMA HoldsMore ==
  ASSUME NEW r, NEW node, SameValue(r, node), node.prefix \in Seq(Clean),
         NEW b \in Clean, NEW t \in Seq(Clean),
         OneMore(r, node, b, t)
  PROVE  Holds(r) = Holds(node) \cup {Path(node.prefix, b, t)}
<1>0. /\ \A c \in Clean \ {b} : Beyond(r, c) = Beyond(node, c)
      /\ Beyond(r, b) = Beyond(node, b) \cup {t}
  BY DEF OneMore, SameBut
<1>. DEFINE p == node.prefix
            v == Path(p, b, t)
<1>1. r.prefix = p /\ r.end = node.end
  BY DEF SameValue
<1>2. v \in Seq(Clean)
  BY PathLonger
<1>3. \A w : w \in Holds(node) => w \in Holds(r)
  <2>. SUFFICES ASSUME NEW w, w \in Holds(node) PROVE w \in Holds(r)
    OBVIOUS
  <2>1. \A c \in Clean : Beyond(node, c) \subseteq Beyond(r, c)
    BY <1>0
  <2>. QED
    BY <1>1, <2>1, HoldsIs
<1>4. v \in Holds(r)
  BY <1>0, <1>1, <1>2, HoldsIs
<1>5. \A w : w \in Holds(r) => w \in Holds(node) \/ w = v
  <2>. SUFFICES ASSUME NEW w, w \in Holds(r), w # v PROVE w \in Holds(node)
    OBVIOUS
  <2>1. w \in Seq(Clean)
    BY HoldsIs
  <2>2. CASE r.end /\ w = r.prefix
    BY <1>1, <2>1, <2>2, HoldsIs
  <2>3. CASE \E c \in Clean : \E s \in Beyond(r, c) : w = Path(r.prefix, c, s)
    <3>1. PICK c \in Clean : \E s \in Beyond(r, c) : w = Path(p, c, s)
      BY <1>1, <2>3
    <3>2. PICK s \in Beyond(r, c) : w = Path(p, c, s)
      BY <3>1
    <3>3. s \in Beyond(node, c)
      <4>1. CASE c = b
        <5>1. s # t
          BY <3>2, <4>1
        <5>. QED
          BY <1>0, <4>1, <5>1
      <4>2. CASE c # b
        BY <1>0, <4>2
      <4>. QED
        BY <4>1, <4>2
    <3>. QED
      BY <2>1, <3>2, <3>3, HoldsIs
  <2>. QED
    BY <2>2, <2>3, HoldsIs
<1>. QED
  BY <1>3, <1>4, <1>5

\* One word less beyond a byte is one word less.
LEMMA HoldsLess ==
  ASSUME NEW r, NEW node, SameValue(r, node), node.prefix \in Seq(Clean),
         NEW b \in Clean, NEW t \in Seq(Clean),
         BeyondClean(node), OneLess(r, node, b, t)
  PROVE  Holds(r) = Holds(node) \ {Path(node.prefix, b, t)}
<1>0. /\ \A c \in Clean \ {b} : Beyond(r, c) = Beyond(node, c)
      /\ Beyond(r, b) = Beyond(node, b) \ {t}
      /\ \A c \in Clean : Beyond(node, c) \subseteq Seq(Clean)
  BY DEF OneLess, SameBut, BeyondClean
<1>. DEFINE p == node.prefix
            v == Path(p, b, t)
<1>1. r.prefix = p /\ r.end = node.end
  BY DEF SameValue
<1>2. v \in Seq(Clean) /\ v # p
  BY PathLonger
<1>3. \A w : w \in Holds(r) => w \in Holds(node)
  <2>. SUFFICES ASSUME NEW w, w \in Holds(r) PROVE w \in Holds(node)
    OBVIOUS
  <2>1. \A c \in Clean : Beyond(r, c) \subseteq Beyond(node, c)
    BY <1>0
  <2>. QED
    BY <1>1, <2>1, HoldsIs
<1>4. v \notin Holds(r)
  <2>. SUFFICES ASSUME v \in Holds(r) PROVE FALSE
    OBVIOUS
  <2>1. \E c \in Clean : \E s \in Beyond(r, c) : v = Path(p, c, s)
    BY <1>1, <1>2, HoldsIs
  <2>2. PICK c \in Clean : \E s \in Beyond(r, c) : v = Path(p, c, s)
    BY <2>1
  <2>3. PICK s \in Beyond(r, c) : v = Path(p, c, s)
    BY <2>2
  <2>4. s \in Seq(Clean)
    <3>1. s \in Beyond(node, c)
      BY <1>0
    <3>. QED
      BY <1>0, <3>1
  <2>5. c = b /\ s = t
    BY <2>3, <2>4, PathInjective
  <2>. QED
    BY <1>0, <2>5
<1>5. \A w : w \in Holds(node) => w \in Holds(r) \/ w = v
  <2>. SUFFICES ASSUME NEW w, w \in Holds(node), w # v PROVE w \in Holds(r)
    OBVIOUS
  <2>1. w \in Seq(Clean)
    BY HoldsIs
  <2>2. CASE node.end /\ w = node.prefix
    BY <1>1, <2>1, <2>2, HoldsIs
  <2>3. CASE \E c \in Clean : \E s \in Beyond(node, c) : w = Path(p, c, s)
    <3>1. PICK c \in Clean : \E s \in Beyond(node, c) : w = Path(p, c, s)
      BY <2>3
    <3>2. PICK s \in Beyond(node, c) : w = Path(p, c, s)
      BY <3>1
    <3>3. s \in Beyond(r, c)
      <4>1. CASE c = b
        <5>1. s # t
          BY <3>2, <4>1
        <5>. QED
          BY <1>0, <4>1, <5>1
      <4>2. CASE c # b
        BY <1>0, <4>2
      <4>. QED
        BY <4>1, <4>2
    <3>. QED
      BY <1>1, <2>1, <3>2, <3>3, HoldsIs
  <2>. QED
    BY <2>2, <2>3, HoldsIs
<1>. QED
  BY <1>3, <1>4, <1>5

\* A node moved below the bytes p and b.
LEMMA HoldsMoved ==
  ASSUME NEW r, NEW c, NEW p \in Seq(Clean), NEW b \in Clean,
         c.prefix \in Seq(Clean), r.prefix = Path(p, b, c.prefix), r.end = c.end,
         SameBeyond(r, c), BeyondClean(c)
  PROVE  Holds(r) = {Path(p, b, w) : w \in Holds(c)}
<1>0. \A d \in Clean : Beyond(r, d) = Beyond(c, d) /\ Beyond(c, d) \subseteq Seq(Clean)
  BY DEF SameBeyond, BeyondClean
<1>. DEFINE q == c.prefix
<1>1. \A d \in Clean, t \in Seq(Clean) : Path(Path(p, b, q), d, t) = Path(p, b, Path(q, d, t))
  BY PathPath
<1>2. ASSUME NEW w \in Holds(c)
      PROVE  Path(p, b, w) \in Holds(r)
  <2>1. w \in Seq(Clean)
    BY HoldsIs
  <2>2. Path(p, b, w) \in Seq(Clean)
    BY <2>1, PathLonger
  <2>3. CASE c.end /\ w = q
    BY <2>2, <2>3, HoldsIs
  <2>4. CASE \E d \in Clean : \E t \in Beyond(c, d) : w = Path(q, d, t)
    <3>1. PICK d \in Clean : \E t \in Beyond(c, d) : w = Path(q, d, t)
      BY <2>4
    <3>2. PICK t \in Beyond(c, d) : w = Path(q, d, t)
      BY <3>1
    <3>3. t \in Seq(Clean) /\ t \in Beyond(r, d)
      BY <1>0
    <3>4. Path(p, b, w) = Path(r.prefix, d, t)
      BY <1>1, <3>2, <3>3
    <3>. QED
      BY <2>2, <3>3, <3>4, HoldsIs
  <2>. QED
    BY <2>3, <2>4, HoldsIs
<1>3. ASSUME NEW v \in Holds(r)
      PROVE  \E w \in Holds(c) : v = Path(p, b, w)
  <2>1. CASE r.end /\ v = r.prefix
    <3>1. q \in Holds(c)
      BY <2>1, HoldsIs
    <3>. QED
      BY <2>1, <3>1
  <2>2. CASE \E d \in Clean : \E t \in Beyond(r, d) : v = Path(r.prefix, d, t)
    <3>1. PICK d \in Clean : \E t \in Beyond(r, d) : v = Path(r.prefix, d, t)
      BY <2>2
    <3>2. PICK t \in Beyond(r, d) : v = Path(r.prefix, d, t)
      BY <3>1
    <3>3. t \in Seq(Clean) /\ t \in Beyond(c, d)
      BY <1>0
    <3>4. v = Path(p, b, Path(q, d, t))
      BY <1>1, <3>2, <3>3
    <3>5. Path(q, d, t) \in Seq(Clean)
      BY <3>3, PathLonger
    <3>6. Path(q, d, t) \in Holds(c)
      BY <3>3, <3>5, HoldsIs
    <3>. QED
      BY <3>4, <3>6
  <2>. QED
    BY <2>1, <2>2, HoldsIs
<1>. QED
  BY <1>2, <1>3

-----------------------------------------------------------------------------
(* insert_node. *)

\* What lies beyond the bytes of a node that fits.
LEMMA UnderClean ==
  ASSUME NEW packed, NEW k \in 0..MaxLength, NEW n \in 0..k,
         NEW node, Sound(node, Under(packed, k, n))
  PROVE  BeyondClean(node)
<1>. DEFINE X == Under(packed, k, n)
<1>0. k \in Nat /\ MaxLength \in Nat
  BY BytesAre
<1>1. \A c \in X : WordsOf(c) \subseteq Seq(Clean)
  <2>0. n = k => X = {}
    BY UnderIs
  <2>1. \A c \in X : n < k
    BY <1>0, <2>0
  <2>2. n < k => k - 1 - n \in 0..MaxLength /\ X = Fit(packed)[k - 1 - n] \ {Empty}
    BY UnderIs
  <2>3. \A c \in X : WordsOf(c) \subseteq Words(k - 1 - n)
    BY <2>1, <2>2, WordsAre
  <2>. QED
    BY <2>3 DEF Words
<1>2. Empty \notin X
  BY UnderIs
<1>. HIDE DEF X
<1>3. \A b \in ChildBytes(node) : Child(node, b) \in X
  BY <1>2, SoundIs DEF X
<1>4. ASSUME NEW b
      PROVE  Beyond(node, b) \subseteq Seq(Clean)
  <2>1. CASE b \in ChildBytes(node)
    <3>1. WordsOf(Child(node, b)) \subseteq Seq(Clean)
      BY <1>1, <1>3, <2>1
    <3>. QED
      BY <2>1, <3>1 DEF Beyond, At, WordsOf
  <2>2. CASE b \notin ChildBytes(node)
    BY <2>2 DEF Beyond, At
  <2>. QED
    BY <2>1, <2>2
<1>. QED
  BY <1>4 DEF BeyondClean

\* A sound inner node that takes the place of one that fits.
LEMMA InnerStays ==
  ASSUME NEW packed, NEW k \in 0..MaxLength, NEW r, NEW p \in Words(k), r.prefix = p,
         Sound(r, Under(packed, k, Len(p))), Shapely(r), packed => Packed(r)
  PROVE  r \in Fit(packed)[k] /\ r # Empty /\ WordsOf(r) = Holds(r)
<1>1. r \in Fit(packed)[k] /\ r # Empty
  BY InnerFits
<1>2. Len(p) \in 0..k
  BY BytesAre, LenProperties DEF Words
<1>3. Empty \notin Under(packed, k, Len(p))
  BY <1>2, UnderIs
<1>4. r.kind \notin {"Empty", "Leaf"}
  BY <1>3, SoundIs
<1>. QED
  BY <1>1, <1>4, WordsAre DEF ReadsAs

\* A Node4.
New4(prefix, end, keys, ch) == Linear("N4", prefix, end, keys, ch)

\* r is node with the word rest added to it.
Splits(r, node, X, rest) ==
  /\ Sound(r, X) /\ Packed(r) /\ Shapely(r) /\ r.prefix = node.prefix
  /\ Sound(node, X) /\ ChildBytes(node) = ToSet(node.keys)
  /\ \A i \in 1..Len(node.keys) : Child(node, node.keys[i]) = node.ch[i]
  /\ rest = <<>> => r.end /\ SameChildren(r, node)
  /\ rest # <<>> => SameValue(r, node) /\ Gains(r, node, Head(rest), Leaf(Tail(rest)))

\* What Split makes of the values that were there and the new one.
LEMMA SplitIs ==
  ASSUME NEW X, Empty \notin X, NEW p \in Seq(Clean), NEW e \in BOOLEAN,
         NEW keys \in Seq(Clean), NEW ch \in Seq(X), Len(keys) = Len(ch), Increasing(keys), NEW rest,
         Len(keys) = 1 \/ (Len(keys) = 0 /\ e),
         rest # <<>> => /\ Head(rest) \in Clean /\ Head(rest) \notin ToSet(keys)
                        /\ Leaf(Tail(rest)) \in X
  PROVE  Splits(Split(p, e, keys, ch, rest), New4(p, e, keys, ch), X, rest)
<1>. DEFINE node == New4(p, e, keys, ch)
            r == Split(p, e, keys, ch, rest)
<1>1. /\ node = [kind |-> "N4", prefix |-> p, end |-> e, keys |-> keys, ch |-> ch]
      /\ node.kind = "N4" /\ node.prefix = p /\ node.end = e /\ node.keys = keys /\ node.ch = ch
  BY DEF New4, Linear
<1>2. r = IF rest = <<>> THEN [node EXCEPT !.end = TRUE]
          ELSE AddChild(node, Head(rest), Leaf(Tail(rest)))
  BY Zenon DEF Split, New4
<1>3. SoundLinear(node, X)
  <2>1. node \in [kind : {"N4", "N16"}, prefix : Seq(Clean), end : BOOLEAN,
                  keys : Seq(Clean), ch : Seq(X)]
    BY <1>1
  <2>. QED
    BY <1>1, <2>1 DEF SoundLinear
<1>. HIDE DEF node, r
<1>4. Sound(node, X) /\ Packed(node)
  BY <1>1, <1>3 DEF Sound, Packed
<1>5. ChildBytes(node) = ToSet(keys) /\ \A i \in 1..Len(keys) : Child(node, keys[i]) = ch[i]
  <2>1. /\ ChildBytes(node) = {node.keys[i] : i \in 1..Len(node.keys)}
        /\ \A i \in 1..Len(node.keys) : Child(node, node.keys[i]) = node.ch[i]
    BY <1>3, LinearIs
  <2>2. ToSet(keys) = {keys[i] : i \in 1..Len(keys)}
    BY ElementsOf
  <2>. QED
    BY <1>1, <2>1, <2>2
<1>6. CASE rest = <<>>
  <2>1. r = Retitle(node, p, TRUE)
    <3>1. [node EXCEPT !.end = TRUE] = Retitle(node, node.prefix, TRUE)
      BY <1>4, RetitleIs
    <3>. QED
      BY <1>1, <1>2, <1>6, <3>1
  <2>2. RetitledAs(Retitle(node, p, TRUE), node, X, p, TRUE)
    BY <1>4, Retitled
  <2>3. Sound(r, X) /\ r.prefix = p /\ r.end = TRUE /\ SameChildren(r, node) /\ Packed(r)
    BY <1>4, <2>1, <2>2, Zenon DEF RetitledAs
  <2>4. r.kind = node.kind /\ Size(r) = Size(node)
    BY <2>1, <2>2, Zenon DEF RetitledAs
  <2>5. Size(node) = Len(keys)
    BY <1>1 DEF Size, IsLinear
  <2>6. Kind(Len(keys)) = "N4"
    BY BytesAre DEF Kind
  <2>7. Shapely(r)
    BY <1>1, <2>3, <2>4, <2>5, <2>6 DEF Shapely
  <2>. QED
    BY <1>1, <1>4, <1>5, <1>6, <2>3, <2>7 DEF Splits, node, r
<1>7. CASE rest # <<>>
  <2>. DEFINE b == Head(rest)
              leaf == Leaf(Tail(rest))
  <2>1. r = AddChild(node, b, leaf) /\ b \in Clean /\ leaf \in X /\ b \notin ChildBytes(node)
    BY <1>2, <1>5, <1>7
  <2>2. node.kind # "N48"
    BY <1>1
  <2>. HIDE DEF b, leaf
  <2>3. LET q == AddChild(node, b, leaf)
        IN Sound(q, X) /\ SameValue(q, node) /\ Gains(q, node, b, leaf) /\ (Packed(node) => Packed(q))
    BY <1>4, <2>1, <2>2, AddChildSound
  <2>4. Sound(r, X) /\ SameValue(r, node) /\ Gains(r, node, b, leaf) /\ Packed(r)
    BY <1>4, <2>1, <2>3, Zenon
  <2>5. r.kind = "N4"
    BY <1>1, <1>4, <2>1, KindKept
  <2>6. Size(r) = Len(keys) + 1
    <3>1. /\ Size(r) = Cardinality(ChildBytes(r)) /\ ChildBytes(r) = ChildBytes(node) \cup {b}
          /\ Size(node) = Cardinality(ChildBytes(node)) /\ IsFiniteSet(ChildBytes(node))
      BY <1>4, <2>4, SoundIs DEF Gains
    <3>2. Size(node) = Len(keys)
      BY <1>1 DEF Size, IsLinear
    <3>3. Cardinality(ChildBytes(node) \cup {b}) = Cardinality(ChildBytes(node)) + 1
      BY <2>1, <3>1, FS_AddElement
    <3>. QED
      BY <3>1, <3>2, <3>3
  <2>7. Kind(Len(keys) + 1) = "N4" /\ (Len(keys) + 1 <= 1 => e)
    BY BytesAre DEF Kind
  <2>8. Shapely(r)
    BY <1>1, <2>4, <2>5, <2>6, <2>7 DEF Shapely, SameValue
  <2>. QED
    BY <1>1, <1>4, <1>5, <1>7, <2>4, <2>8 DEF Splits, node, r, b, leaf, SameValue
<1>. QED
  BY <1>6, <1>7

\* A child that a node gains, by the words beyond its byte.
LEMMA GainIs ==
  ASSUME NEW r, NEW node, NEW b, b \notin ChildBytes(node), NEW t, Gains(r, node, b, Leaf(t)),
         WordsOf(Leaf(t)) = {t}
  PROVE  OneMore(r, node, b, t)
<1>1. /\ ChildBytes(r) = ChildBytes(node) \cup {b} /\ Child(r, b) = Leaf(t)
      /\ \A c \in ChildBytes(node) : Child(r, c) = Child(node, c)
  BY DEF Gains
<1>2. Beyond(node, b) = {}
  BY DEF Beyond, At
<1>3. Beyond(r, b) = {t}
  BY <1>1 DEF Beyond, At, WordsOf
<1>4. ASSUME NEW c, c # b
      PROVE  Beyond(r, c) = Beyond(node, c)
  <2>1. CASE c \in ChildBytes(node)
    <3>1. c \in ChildBytes(r) /\ Child(r, c) = Child(node, c)
      BY <1>1, <2>1
    <3>. QED
      BY <2>1, <3>1 DEF Beyond, At
  <2>2. CASE c \notin ChildBytes(node)
    <3>1. c \notin ChildBytes(r)
      BY <1>1, <1>4, <2>2
    <3>. QED
      BY <2>2, <3>1 DEF Beyond, At
  <2>. QED
    BY <2>1, <2>2
<1>. QED
  BY <1>2, <1>3, <1>4 DEF OneMore, SameBut

\* A leaf where j bytes are left is one of the children there may be.
LEMMA LeafUnder ==
  ASSUME NEW packed, NEW k \in 0..MaxLength, NEW n \in Nat, NEW t \in Seq(Clean), n + 1 + Len(t) <= k
  PROVE  /\ n \in 0..k /\ n < k /\ k - 1 - n \in 0..MaxLength
         /\ t \in Words(k - 1 - n) /\ Leaf(t) \in Under(packed, k, n)
         /\ Under(packed, k, n) = Fit(packed)[k - 1 - n] \ {Empty}
         /\ WordsOf(Leaf(t)) = {t}
<1>0. MaxLength \in Nat /\ k \in Nat /\ Len(t) \in Nat
  BY BytesAre, LenProperties
<1>1. n \in 0..k /\ n < k /\ k - 1 - n \in 0..MaxLength /\ Len(t) <= k - 1 - n
  BY <1>0
<1>2. t \in Words(k - 1 - n)
  BY <1>1 DEF Words
<1>3. Leaf(t) \in Fit(packed)[k - 1 - n] /\ Leaf(t) # Empty
  BY <1>1, <1>2, LeafFits
<1>4. Under(packed, k, n) = Fit(packed)[k - 1 - n] \ {Empty}
  BY <1>1, UnderIs
<1>5. WordsOf(Leaf(t)) = {t}
  BY <1>1, <1>3, WordsAre, LeafIs DEF ReadsAs
<1>. QED
  BY <1>1, <1>2, <1>3, <1>4, <1>5

\* r holds the words of c after the bytes p and b, and the word rest.
SplitOff(packed, k, r, p, b, c, rest) ==
  /\ r \in Fit(packed)[k] /\ r # Empty
  /\ WordsOf(r) = {Path(p, b, w) : w \in WordsOf(c)} \cup {rest}

\* A new Node4 above what was there.
LEMMA SplitAbove ==
  ASSUME NEW packed, NEW k \in 0..MaxLength, NEW s \in Seq(Clean), NEW rest \in Words(k),
         NEW m, m = Common(s, rest), m < Len(s), Len(s) <= k,
         NEW c \in Fit(packed)[k - 1 - m], c # Empty,
         NEW r, r = Split(SubSeq(rest, 1, m), FALSE, <<s[m + 1]>>, <<c>>, From(rest, m + 1))
  PROVE  SplitOff(packed, k, r, SubSeq(rest, 1, m), s[m + 1], c, rest)
<1>. DEFINE below == From(rest, m + 1)
            p == SubSeq(rest, 1, m)
            b == s[m + 1]
            X == Under(packed, k, m)
            keys == <<b>>
            ch == <<c>>
            node == New4(p, FALSE, keys, ch)
<1>0. /\ m \in Nat /\ m <= Len(rest) /\ p \in Seq(Clean) /\ Len(p) = m
      /\ below = <<>> => rest = p
      /\ below # <<>> => /\ Head(below) \in Clean /\ Tail(below) \in Seq(Clean)
                         /\ Len(rest) = m + 1 + Len(Tail(below))
                         /\ rest = Path(p, Head(below), Tail(below))
                         /\ Head(below) # b
      /\ b \in Clean
  <2>1. rest \in Seq(Clean)
    BY DEF Words
  <2>2. Meets(Clean, s, rest)
    BY <2>1, CommonSplits
  <2>. QED
    BY <2>2 DEF Meets
<1>. HIDE DEF below, p, b
<1>1. /\ k \in Nat /\ MaxLength \in Nat /\ Len(rest) <= k /\ m \in 0..k /\ m < k /\ p \in Words(k)
      /\ Len(s) \in Nat
  <2>1. k \in Nat /\ MaxLength \in Nat /\ Len(rest) <= k /\ Len(s) \in Nat
    BY BytesAre, LenProperties DEF Words
  <2>2. m \in 0..k /\ m < k
    BY <1>0, <2>1
  <2>. QED
    BY <1>0, <2>1, <2>2 DEF Words
<1>2. X = Fit(packed)[k - 1 - m] \ {Empty} /\ Empty \notin X /\ k - 1 - m \in 0..MaxLength
  BY <1>1, UnderIs
<1>. HIDE DEF X
<1>3. c \in X
  BY <1>2
<1>4. /\ keys \in Seq(Clean) /\ ch \in Seq(X) /\ Len(keys) = 1 /\ Len(ch) = 1
      /\ keys[1] = b /\ ch[1] = c
  BY <1>0, <1>3
<1>. HIDE DEF keys, ch
<1>5. Increasing(keys) /\ ToSet(keys) = {b}
  <2>1. ToSet(keys) = {keys[i] : i \in 1..Len(keys)}
    BY <1>4, ElementsOf
  <2>. QED
    BY <1>4, <2>1 DEF Increasing
<1>6. below # <<>> => /\ Head(below) \in Clean /\ Head(below) \notin ToSet(keys)
                      /\ Leaf(Tail(below)) \in X /\ WordsOf(Leaf(Tail(below))) = {Tail(below)}
  <2>. SUFFICES ASSUME below # <<>>
                PROVE  /\ Head(below) \in Clean /\ Head(below) \notin ToSet(keys)
                       /\ Leaf(Tail(below)) \in X /\ WordsOf(Leaf(Tail(below))) = {Tail(below)}
    OBVIOUS
  <2>. DEFINE t == Tail(below)
  <2>1. t \in Seq(Clean) /\ m + 1 + Len(t) <= k
    BY <1>0, <1>1
  <2>. HIDE DEF t
  <2>2. Leaf(t) \in X /\ WordsOf(Leaf(t)) = {t}
    BY <1>0, <2>1, LeafUnder DEF X
  <2>. QED
    BY <1>0, <1>5, <2>2 DEF t
<1>7. r = Split(p, FALSE, keys, ch, below)
  BY DEF p, keys, ch, below, b
<1>8. /\ Sound(r, X) /\ Packed(r) /\ Shapely(r) /\ r.prefix = p
      /\ node.prefix = p /\ node.end = FALSE /\ Sound(node, X) /\ ChildBytes(node) = {b}
      /\ Child(node, b) = c
      /\ below = <<>> => r.end /\ SameChildren(r, node)
      /\ below # <<>> => SameValue(r, node) /\ Gains(r, node, Head(below), Leaf(Tail(below)))
  <2>1. /\ node.prefix = p /\ node.end = FALSE /\ node.keys = keys /\ node.ch = ch
    BY DEF New4, Linear
  <2>2. Splits(Split(p, FALSE, keys, ch, below), node, X, below)
    BY <1>0, <1>2, <1>4, <1>5, <1>6, SplitIs
  <2>. HIDE DEF node
  <2>3. Splits(r, node, X, below)
    BY <1>7, <2>2, Zenon
  <2>4. /\ Sound(r, X) /\ Packed(r) /\ Shapely(r) /\ r.prefix = node.prefix
        /\ Sound(node, X) /\ ChildBytes(node) = ToSet(node.keys)
        /\ \A i \in 1..Len(node.keys) : Child(node, node.keys[i]) = node.ch[i]
        /\ below = <<>> => r.end /\ SameChildren(r, node)
        /\ below # <<>> => SameValue(r, node) /\ Gains(r, node, Head(below), Leaf(Tail(below)))
    BY <2>3, Zenon DEF Splits
  <2>5. Child(node, b) = c /\ ChildBytes(node) = {b}
    <3>1. 1 \in 1..Len(keys)
      BY <1>4
    <3>. QED
      BY <1>4, <1>5, <2>1, <2>4, <3>1
  <2>. QED
    BY <2>1, <2>4, <2>5, Zenon
<1>. HIDE DEF node
<1>9. r \in Fit(packed)[k] /\ r # Empty /\ WordsOf(r) = Holds(r)
  BY <1>0, <1>1, <1>8, InnerStays DEF X
<1>10. Beyond(node, b) = WordsOf(c) /\ \A d : d # b => Beyond(node, d) = {}
  BY <1>8 DEF Beyond, At, WordsOf
<1>11. BeyondClean(node)
  BY <1>1, <1>8, UnderClean DEF X
<1>12. Holds(node) = {Path(p, b, w) : w \in WordsOf(c)}
  <2>1. \A w : w \in Holds(node) <=>
           /\ w \in Seq(Clean)
           /\ \E d \in Clean : \E t \in Beyond(node, d) : w = Path(p, d, t)
    BY <1>8, HoldsIs
  <2>2. \A t \in WordsOf(c) : Path(p, b, t) \in Seq(Clean)
    <3>1. \A t \in WordsOf(c) : t \in Seq(Clean)
      BY <1>10, <1>11 DEF BeyondClean
    <3>. QED
      BY <1>0, <3>1, PathLonger
  <2>3. \A w \in Holds(node) : \E t \in WordsOf(c) : w = Path(p, b, t)
    BY <1>10, <2>1
  <2>4. \A t \in WordsOf(c) : Path(p, b, t) \in Holds(node)
    BY <1>0, <1>10, <2>1, <2>2
  <2>. QED
    BY <2>3, <2>4
<1>13. CASE below = <<>>
  <2>1. SameBeyond(r, node)
    <3>1. SameChildren(r, node)
      BY <1>8, <1>13
    <3>. QED
      BY <3>1, BeyondIs
  <2>2. Holds(r) = Holds(node) \cup {p}
    <3>1. r.prefix = node.prefix /\ node.prefix = p /\ p \in Seq(Clean) /\ r.end
      BY <1>0, <1>8, <1>13
    <3>. QED
      BY <1>11, <2>1, <3>1, HoldsEnd
  <2>. QED
    BY <1>0, <1>9, <1>12, <1>13, <2>2 DEF SplitOff, p, b
<1>14. CASE below # <<>>
  <2>. DEFINE d == Head(below)
              t == Tail(below)
  <2>1. /\ d \in Clean /\ t \in Seq(Clean) /\ rest = Path(p, d, t) /\ d # b
        /\ SameValue(r, node) /\ Gains(r, node, d, Leaf(t)) /\ WordsOf(Leaf(t)) = {t}
        /\ d \notin ChildBytes(node)
    BY <1>0, <1>6, <1>8, <1>14
  <2>. HIDE DEF d, t
  <2>2. OneMore(r, node, d, t)
    BY <2>1, GainIs
  <2>3. Holds(r) = Holds(node) \cup {Path(p, d, t)}
    <3>1. SameValue(r, node) /\ node.prefix = p /\ p \in Seq(Clean) /\ d \in Clean /\ t \in Seq(Clean)
      BY <1>0, <1>8, <2>1
    <3>. QED
      BY <2>2, <3>1, HoldsMore, ZenonT(60)
  <2>. QED
    BY <1>9, <1>12, <2>1, <2>3 DEF SplitOff, p, b
<1>. QED
  BY <1>13, <1>14

\* r is node with the word rest inserted, where k bytes are left.
Inserted(packed, k, r, node, rest) ==
  r \in Fit(packed)[k] /\ r # Empty /\ WordsOf(r) = WordsOf(node) \cup {rest}

\* insert_node at a leaf adds its word.
LEMMA LeafInserts ==
  ASSUME NEW packed, NEW k \in 0..MaxLength, NEW s \in Words(k), NEW rest \in Words(k)
  PROVE  Inserted(packed, k, InsertAtLeaf(Leaf(s), rest), Leaf(s), rest)
<1>. DEFINE leaf == Leaf(s)
            r == InsertAtLeaf(leaf, rest)
            m == Common(s, rest)
            p == SubSeq(rest, 1, m)
            below == From(rest, m + 1)
<1>0. /\ s \in Seq(Clean) /\ rest \in Seq(Clean) /\ Len(s) <= k /\ Len(rest) <= k
      /\ k \in Nat /\ MaxLength \in Nat /\ Len(s) \in Nat /\ Len(rest) \in Nat
  BY BytesAre, LenProperties DEF Words
<1>1. leaf.kind = "Leaf" /\ leaf.suffix = s /\ leaf # Empty /\ leaf \in Fit(packed)[k]
  BY LeafIs, LeafFits
<1>2. WordsOf(leaf) = {s}
  BY <1>1, WordsAre DEF ReadsAs
<1>3. Meets(Clean, s, rest)
  BY <1>0, CommonSplits
<1>4. /\ m \in Nat /\ m <= Len(s) /\ m <= Len(rest) /\ p \in Seq(Clean) /\ Len(p) = m
      /\ m = Len(s) => p = s
      /\ below = <<>> => rest = p
      /\ below # <<>> => /\ Head(below) \in Clean /\ Tail(below) \in Seq(Clean)
                         /\ Len(rest) = m + 1 + Len(Tail(below))
                         /\ rest = Path(p, Head(below), Tail(below))
      /\ m < Len(s) => /\ s[m + 1] \in Clean /\ From(s, m + 2) \in Seq(Clean)
                       /\ Len(s) = m + 1 + Len(From(s, m + 2))
                       /\ s = Path(p, s[m + 1], From(s, m + 2))
  BY <1>3, Zenon DEF Meets
<1>5. r = IF s = rest THEN leaf
          ELSE IF m = Len(s) THEN Split(p, TRUE, <<>>, <<>>, below)
          ELSE Split(p, FALSE, <<s[m + 1]>>, <<Leaf(From(s, m + 2))>>, below)
  BY <1>1 DEF InsertAtLeaf
<1>6. CASE s = rest
  BY <1>1, <1>2, <1>5, <1>6 DEF Inserted
<1>. HIDE DEF p, below, r, leaf
<1>7. CASE s # rest /\ m = Len(s)
  <2>. DEFINE X == Under(packed, k, m)
              b == Head(below)
              t == Tail(below)
              node == New4(p, TRUE, <<>>, <<>>)
  <2>1. r = Split(p, TRUE, <<>>, <<>>, below) /\ p = s /\ below # <<>>
    BY <1>4, <1>5, <1>7
  <2>2. /\ b \in Clean /\ t \in Seq(Clean) /\ Len(rest) = m + 1 + Len(t) /\ rest = Path(p, b, t)
    BY <1>4, <2>1
  <2>. HIDE DEF b, t, m
  <2>3. /\ m \in 0..k /\ Leaf(t) \in X /\ WordsOf(Leaf(t)) = {t} /\ m \in Nat
    <3>1. m \in Nat /\ m + 1 + Len(t) <= k
      BY <1>0, <1>4, <2>2
    <3>. QED
      BY <2>2, <3>1, LeafUnder
  <2>4. Empty \notin X
    BY <2>3, UnderIs
  <2>. HIDE DEF X
  <2>5. <<>> \in Seq(Clean) /\ <<>> \in Seq(X) /\ Len(<<>>) = 0 /\ ToSet(<<>>) = {} /\ Increasing(<<>>)
    <3>1. <<>> \in Seq(Clean) /\ <<>> \in Seq(X) /\ Len(<<>>) = 0 /\ ToSet(<<>>) = {}
      BY EmptySeq, EmptyChained
    <3>. QED
      BY <3>1 DEF Increasing
  <2>6. node.prefix = p /\ node.end = TRUE /\ node.keys = <<>>
    BY DEF New4, Linear
  <2>. HIDE DEF node
  <2>7. Splits(r, node, X, below)
    <3>1. below # <<>> => Head(below) \in Clean /\ Head(below) \notin ToSet(<<>>) /\ Leaf(Tail(below)) \in X
      BY <2>2, <2>3, <2>5 DEF b, t
    <3>2. Splits(Split(p, TRUE, <<>>, <<>>, below), New4(p, TRUE, <<>>, <<>>), X, below)
      BY <1>4, <2>4, <2>5, <3>1, SplitIs
    <3>. QED
      BY <2>1, <3>2 DEF node
  <2>8. /\ Sound(r, X) /\ Packed(r) /\ Shapely(r) /\ r.prefix = p /\ Sound(node, X) /\ ChildBytes(node) = {}
        /\ SameValue(r, node) /\ Gains(r, node, b, Leaf(t))
    BY <2>1, <2>5, <2>6, <2>7 DEF Splits, b, t
  <2>9. r \in Fit(packed)[k] /\ r # Empty /\ WordsOf(r) = Holds(r)
    <3>1. p \in Words(k) /\ Len(p) = m
      BY <1>4, <2>1 DEF Words
    <3>. QED
      BY <2>8, <3>1, InnerStays DEF X
  <2>10. OneMore(r, node, b, t)
    <3>1. b \notin ChildBytes(node)
      BY <2>8
    <3>. QED
      BY <2>3, <2>8, <3>1, GainIs
  <2>11. Holds(r) = Holds(node) \cup {Path(p, b, t)}
    <3>1. node.prefix = p /\ p \in Seq(Clean)
      BY <1>4, <2>6
    <3>. QED
      BY <2>2, <2>8, <2>10, <3>1, HoldsMore
  <2>12. Holds(node) = {p}
    <3>1. \A d : Beyond(node, d) = {}
      BY <2>8 DEF Beyond, At
    <3>2. \A w : w \in Holds(node) <=> w \in Seq(Clean) /\ w = p
      BY <2>6, <3>1, HoldsIs
    <3>. QED
      BY <1>4, <3>2
  <2>. QED
    BY <1>2, <2>1, <2>2, <2>9, <2>11, <2>12 DEF Inserted, r, leaf
<1>8. CASE s # rest /\ m # Len(s)
  <2>. DEFINE c == Leaf(From(s, m + 2))
  <2>1. m < Len(s) /\ r = Split(p, FALSE, <<s[m + 1]>>, <<c>>, below)
    <3>. HIDE DEF m
    <3>1. m < Len(s)
      BY <1>0, <1>4, <1>8
    <3>2. r = Split(p, FALSE, <<s[m + 1]>>, <<Leaf(From(s, m + 2))>>, below)
      BY <1>5, <1>8, Zenon
    <3>. QED
      BY <3>1, <3>2
  <2>2. /\ c \in Fit(packed)[k - 1 - m] /\ c # Empty
        /\ WordsOf(c) = {From(s, m + 2)}
    <3>. DEFINE t == From(s, m + 2)
    <3>1. t \in Seq(Clean) /\ Len(s) = m + 1 + Len(t)
      BY <1>4, <2>1
    <3>. HIDE DEF t, m
    <3>2. m + 1 + Len(t) <= k /\ m \in Nat
      BY <1>0, <1>4, <3>1
    <3>3. /\ Leaf(t) \in Under(packed, k, m) /\ WordsOf(Leaf(t)) = {t}
          /\ Under(packed, k, m) = Fit(packed)[k - 1 - m] \ {Empty}
      BY <3>1, <3>2, LeafUnder
    <3>. QED
      BY <3>3 DEF t, m
  <2>. HIDE DEF c
  <2>3. /\ r \in Fit(packed)[k] /\ r # Empty
        /\ WordsOf(r) = {Path(p, s[m + 1], w) : w \in WordsOf(c)} \cup {rest}
    <3>1. m = Common(s, rest)
      OBVIOUS
    <3>2. r = Split(SubSeq(rest, 1, m), FALSE, <<s[m + 1]>>, <<c>>, From(rest, m + 1))
      BY <2>1 DEF p, below
    <3>3. p = SubSeq(rest, 1, m)
      BY DEF p
    <3>. HIDE DEF m
    <3>4. SplitOff(packed, k, r, SubSeq(rest, 1, m), s[m + 1], c, rest)
      BY <1>0, <2>1, <2>2, <3>1, <3>2, SplitAbove
    <3>. QED
      BY <3>3, <3>4, Zenon DEF SplitOff
  <2>4. {Path(p, s[m + 1], w) : w \in WordsOf(c)} = {s}
    BY <1>4, <2>1, <2>2
  <2>. QED
    BY <1>2, <2>3, <2>4 DEF Inserted, r, leaf
<1>. QED
  BY <1>6, <1>7, <1>8 DEF r, leaf

\* insert_node at an inner node adds its word, if it does so at the children.
LEMMA InnerInserts ==
  ASSUME NEW packed, NEW k \in 0..MaxLength, NEW node \in Fit(packed)[k],
         node.kind \notin {"Empty", "Leaf"}, NEW rest \in Words(k), NEW f,
         \A j \in 0..(k - 1) : \A c \in Fit(packed)[j], t \in Words(j) :
            Inserted(packed, j, f[c][t], c, t)
  PROVE  Inserted(packed, k, InsertAtInner(f, node, rest), node, rest)
<1>. DEFINE s == node.prefix
            n == Len(s)
            r == InsertAtInner(f, node, rest)
            m == Common(s, rest)
            p == SubSeq(rest, 1, m)
            below == From(rest, m + 1)
            X == Under(packed, k, n)
<1>. node # Empty /\ node.kind # "Leaf" /\ node.kind # "Empty"
  BY DEF Empty
<1>0. /\ s \in Words(k) /\ Sound(node, X) /\ (packed => Packed(node)) /\ n \in 0..k
      /\ k \in Nat /\ MaxLength \in Nat
  BY FitCases, BytesAre
<1>shape. Shapely(node)
  BY FitCases
<1>1. /\ s \in Seq(Clean) /\ rest \in Seq(Clean) /\ Len(s) <= k /\ Len(rest) <= k
      /\ Len(s) \in Nat /\ Len(rest) \in Nat
  BY <1>0, LenProperties DEF Words
<1>2. WordsOf(node) = Holds(node)
  BY WordsAre DEF ReadsAs
<1>3. Meets(Clean, s, rest)
  BY <1>1, CommonSplits
<1>4. /\ m \in Nat /\ m <= Len(s) /\ m <= Len(rest) /\ p \in Seq(Clean) /\ Len(p) = m
      /\ m = Len(s) => p = s
      /\ below = <<>> => rest = p
      /\ below # <<>> => /\ Head(below) \in Clean /\ Tail(below) \in Seq(Clean)
                         /\ Len(rest) = m + 1 + Len(Tail(below))
                         /\ rest = Path(p, Head(below), Tail(below))
      /\ m < Len(s) => /\ s[m + 1] \in Clean /\ From(s, m + 2) \in Seq(Clean)
                       /\ Len(s) = m + 1 + Len(From(s, m + 2))
                       /\ s = Path(p, s[m + 1], From(s, m + 2))
  BY <1>3, Zenon DEF Meets
<1>5. r = IF m < Len(s)
          THEN Split(p, FALSE, <<s[m + 1]>>, <<[node EXCEPT !.prefix = From(@, m + 2)]>>, below)
          ELSE IF below = <<>> THEN [node EXCEPT !.end = TRUE]
          ELSE IF Head(below) \in ChildBytes(node)
          THEN WithChild(node, Head(below), f[Child(node, Head(below))][Tail(below)])
          ELSE AddChild(Grown(node), Head(below), Leaf(Tail(below)))
  BY Zenon DEF InsertAtInner
<1>6. /\ [node EXCEPT !.prefix = From(@, m + 2)] = Retitle(node, From(s, m + 2), node.end)
      /\ [node EXCEPT !.end = TRUE] = Retitle(node, s, TRUE)
  BY <1>0, RetitleIs
<1>7. BeyondClean(node) /\ Empty \notin X /\ node.end \in BOOLEAN
  <2>1. Empty \notin X
    BY <1>0, UnderIs
  <2>. HIDE DEF X
  <2>2. node.end \in BOOLEAN
    BY <1>0, <2>1, SoundIs
  <2>3. BeyondClean(node)
    BY <1>0, UnderClean DEF X
  <2>. QED
    BY <2>1, <2>2, <2>3
<1>. HIDE DEF p, below, r, s, n, X
<1>8. CASE m < Len(s)
  <2>. DEFINE q == From(s, m + 2)
              c == Retitle(node, q, node.end)
              j == k - 1 - m
              b == s[m + 1]
  <2>1. /\ r = Split(p, FALSE, <<s[m + 1]>>, <<c>>, below)
        /\ q \in Seq(Clean) /\ n = m + 1 + Len(q) /\ Len(q) \in Nat
        /\ b \in Clean /\ s = Path(p, b, q)
    BY <1>4, <1>5, <1>6, <1>8, LenProperties DEF n
  <2>. HIDE DEF q, m, c
  <2>2. /\ j \in 0..MaxLength /\ Len(q) \in 0..j /\ j \in Nat
        /\ (Len(q) < j) = (n < k) /\ j - 1 - Len(q) = k - 1 - n
        /\ n = k => Len(q) = j
    BY <1>0, <1>4, <2>1
  <2>3. X = Under(packed, j, Len(q))
    <3>1. CASE n < k
      <4>1. X = Fit(packed)[k - 1 - n] \ {Empty}
        BY <1>0, <3>1, UnderIs DEF X
      <4>2. Len(q) < j
        BY <2>2, <3>1
      <4>. HIDE DEF j
      <4>3. Under(packed, j, Len(q)) = Fit(packed)[j - 1 - Len(q)] \ {Empty}
        BY <2>2, <4>2, UnderIs
      <4>. QED
        BY <2>2, <4>1, <4>3
    <3>2. CASE n = k
      <4>1. X = {}
        BY <1>0, <3>2, UnderIs DEF X
      <4>2. Len(q) = j
        BY <2>2, <3>2
      <4>. HIDE DEF j
      <4>3. Under(packed, j, Len(q)) = {}
        BY <2>2, <4>2, UnderIs
      <4>. QED
        BY <4>1, <4>3
    <3>. QED
      BY <1>0, <3>1, <3>2
  <2>4. RetitledAs(c, node, X, q, node.end)
    BY <1>0, <1>7, <2>1, Retitled DEF c
  <2>5. /\ Sound(c, X) /\ c.prefix = q /\ c.end = node.end /\ SameChildren(c, node)
        /\ Shapely(c) /\ (packed => Packed(c))
    <3>1. Shapely(c)
      <4>1. Size(node) <= 1 => node.end
        BY <1>shape DEF Shapely
      <4>. QED
        BY <1>shape, <2>4, <4>1, ShapeRetitled
    <3>. QED
      BY <1>0, <2>4, <3>1, Zenon DEF RetitledAs
  <2>. HIDE DEF j
  <2>6. c \in Fit(packed)[j] /\ c # Empty /\ WordsOf(c) = Holds(c)
    <3>1. q \in Words(j) /\ Sound(c, Under(packed, j, Len(q)))
      BY <2>1, <2>2, <2>3, <2>5 DEF Words
    <3>. QED
      BY <2>2, <2>5, <3>1, InnerStays
  <2>7. /\ r \in Fit(packed)[k] /\ r # Empty
        /\ WordsOf(r) = {Path(p, b, w) : w \in WordsOf(c)} \cup {rest}
    <3>1. m = Common(s, rest)
      BY DEF m, s
    <3>2. r = Split(SubSeq(rest, 1, m), FALSE, <<s[m + 1]>>, <<c>>, From(rest, m + 1))
      BY <2>1 DEF p, below, m, s
    <3>3. c \in Fit(packed)[k - 1 - m]
      BY <2>6 DEF j
    <3>4. p = SubSeq(rest, 1, m)
      BY DEF p, m, s
    <3>5. SplitOff(packed, k, r, SubSeq(rest, 1, m), s[m + 1], c, rest)
      BY <1>1, <1>8, <2>6, <3>1, <3>2, <3>3, SplitAbove
    <3>. QED
      BY <3>4, <3>5, Zenon DEF SplitOff, b
  <2>8. Holds(node) = {Path(p, b, w) : w \in Holds(c)}
    <3>1. SameBeyond(c, node)
      BY <2>5, BeyondIs
    <3>2. SameBeyond(node, c) /\ BeyondClean(c)
      BY <1>7, <3>1 DEF SameBeyond, BeyondClean
    <3>3. node.prefix = Path(p, b, c.prefix) /\ c.prefix \in Seq(Clean) /\ node.end = c.end
      BY <2>1, <2>5 DEF s
    <3>. QED
      BY <1>4, <2>1, <3>2, <3>3, HoldsMoved
  <2>. QED
    BY <1>2, <2>6, <2>7, <2>8 DEF Inserted, r
<1>9. CASE ~(m < Len(s)) /\ below = <<>>
  <2>1. rest = s /\ r = Retitle(node, s, TRUE)
    <3>1. m = Len(s)
      BY <1>1, <1>4, <1>9
    <3>. QED
      BY <1>4, <1>5, <1>6, <1>9, <3>1
  <2>2. RetitledAs(r, node, X, s, TRUE)
    BY <1>0, <1>1, <2>1, Retitled
  <2>3. /\ Sound(r, X) /\ r.prefix = s /\ r.end = TRUE /\ SameChildren(r, node)
        /\ Shapely(r) /\ (packed => Packed(r))
    <3>1. Shapely(r)
      BY <1>shape, <2>2, ShapeRetitled
    <3>. QED
      BY <1>0, <2>2, <3>1, Zenon DEF RetitledAs
  <2>4. r \in Fit(packed)[k] /\ r # Empty /\ WordsOf(r) = Holds(r)
    BY <1>0, <2>3, InnerStays DEF X, n
  <2>5. SameBeyond(r, node)
    BY <2>3, BeyondIs
  <2>6. Holds(r) = Holds(node) \cup {s}
    <3>1. r.prefix = node.prefix /\ node.prefix = s /\ node.prefix \in Seq(Clean) /\ r.end
      BY <1>1, <2>3 DEF s
    <3>. QED
      BY <1>7, <2>5, <3>1, HoldsEnd
  <2>. QED
    BY <1>2, <2>1, <2>4, <2>6 DEF Inserted, r
<1>10. CASE ~(m < Len(s)) /\ below # <<>>
  <2>. DEFINE b == Head(below)
              t == Tail(below)
              j == k - 1 - n
  <2>1. /\ p = s /\ b \in Clean /\ t \in Seq(Clean) /\ Len(rest) = n + 1 + Len(t)
        /\ rest = Path(s, b, t)
        /\ r = IF b \in ChildBytes(node) THEN WithChild(node, b, f[Child(node, b)][t])
               ELSE AddChild(Grown(node), b, Leaf(t))
    <3>1. m = Len(s)
      BY <1>1, <1>4, <1>10
    <3>. QED
      BY <1>4, <1>5, <1>10, <3>1 DEF n
  <2>. HIDE DEF b, t, m
  <2>2. /\ n < k /\ j \in 0..MaxLength /\ j \in 0..(k - 1) /\ t \in Words(j) /\ Leaf(t) \in X
        /\ X = Fit(packed)[j] \ {Empty} /\ WordsOf(Leaf(t)) = {t}
    <3>1. n \in Nat /\ n + 1 + Len(t) <= k
      BY <1>0, <1>1, <2>1
    <3>2. /\ n < k /\ j \in 0..MaxLength /\ t \in Words(j) /\ Leaf(t) \in X
          /\ X = Fit(packed)[j] \ {Empty} /\ WordsOf(Leaf(t)) = {t}
      BY <2>1, <3>1, LeafUnder DEF X
    <3>3. j \in 0..(k - 1)
      BY <1>0, <3>1, <3>2
    <3>. QED
      BY <3>2, <3>3
  <2>. HIDE DEF j
  <2>3. ASSUME /\ Sound(r, X) /\ SameValue(r, node) /\ Shapely(r) /\ (packed => Packed(r))
               /\ OneMore(r, node, b, t)
        PROVE  Inserted(packed, k, r, node, rest)
    <3>1. r.prefix = s
      BY <2>3 DEF SameValue, s
    <3>2. r \in Fit(packed)[k] /\ r # Empty /\ WordsOf(r) = Holds(r)
      BY <1>0, <2>3, <3>1, InnerStays DEF X, n
    <3>3. Holds(r) = Holds(node) \cup {Path(s, b, t)}
      <4>1. node.prefix = s
        BY DEF s
      <4>. QED
        BY <1>1, <2>1, <2>3, <4>1, HoldsMore
    <3>. QED
      BY <1>2, <2>1, <3>2, <3>3 DEF Inserted
  <2>4. CASE b \in ChildBytes(node)
    <3>. DEFINE c == Child(node, b)
                d == f[c][t]
    <3>1. c \in X
      BY <1>0, <1>7, <2>4, SoundIs
    <3>2. Inserted(packed, j, d, c, t)
      BY <2>2, <3>1
    <3>. HIDE DEF d
    <3>3. d \in X /\ WordsOf(d) = WordsOf(c) \cup {t}
      BY <2>2, <3>2 DEF Inserted
    <3>4. r = WithChild(node, b, d)
      BY <2>1, <2>4 DEF d
    <3>5. LET q == WithChild(node, b, d)
          IN /\ Sound(q, X) /\ SameValue(q, node) /\ Replaces(q, node, b, d)
             /\ Packed(node) => Packed(q)
      BY <1>0, <1>7, <2>4, <3>3, WithChildSound
    <3>6. Sound(r, X) /\ SameValue(r, node) /\ Replaces(r, node, b, d) /\ (packed => Packed(r))
      BY <1>0, <3>4, <3>5, Zenon
    <3>7. OneMore(r, node, b, t)
      <4>1. /\ ChildBytes(r) = ChildBytes(node) /\ Child(r, b) = d
            /\ \A e \in ChildBytes(node) \ {b} : Child(r, e) = Child(node, e)
        BY <3>6 DEF Replaces
      <4>2. Beyond(r, b) = Beyond(node, b) \cup {t}
        BY <2>4, <3>3, <4>1 DEF Beyond, At, WordsOf
      <4>3. \A e \in Clean \ {b} : Beyond(r, e) = Beyond(node, e)
        BY <4>1 DEF Beyond, At
      <4>. QED
        BY <4>2, <4>3 DEF OneMore, SameBut
    <3>8. Shapely(r)
      BY <1>0, <1>shape, <1>7, <2>4, <3>3, <3>4, ShapeWith
    <3>. QED
      BY <2>3, <3>6, <3>7, <3>8 DEF r
  <2>5. CASE b \notin ChildBytes(node)
    <3>. DEFINE g == Grown(node)
                leaf == Leaf(t)
    <3>1. LET q == Grown(node)
          IN /\ Sound(q, X) /\ SameValue(q, node) /\ SameChildren(q, node)
             /\ Packed(node) => Packed(q)
             /\ q.kind = "N48" => Size(q) < Cap48
      BY <1>0, <1>7, GrownSound
    <3>2. /\ Sound(g, X) /\ SameValue(g, node) /\ SameChildren(g, node)
          /\ packed => Packed(g)
          /\ g.kind = "N48" => Size(g) < Cap48
      BY <1>0, <3>1, Zenon
    <3>. HIDE DEF g, leaf
    <3>3. b \notin ChildBytes(g) /\ leaf \in X
      BY <2>2, <2>5, <3>2 DEF SameChildren, leaf
    <3>4. LET q == AddChild(g, b, leaf)
          IN /\ Sound(q, X) /\ SameValue(q, g) /\ Gains(q, g, b, leaf)
             /\ Packed(g) => Packed(q)
      BY <1>7, <2>1, <3>2, <3>3, AddChildSound
    <3>5. r = AddChild(g, b, leaf)
      BY <2>1, <2>5 DEF g, leaf
    <3>6. Sound(r, X) /\ SameValue(r, g) /\ Gains(r, g, b, leaf) /\ (packed => Packed(r))
      BY <3>2, <3>4, <3>5, Zenon
    <3>7. SameValue(r, node)
      BY <3>2, <3>6 DEF SameValue
    <3>8. OneMore(r, g, b, t)
      <4>1. WordsOf(Leaf(t)) = {t} /\ Gains(r, g, b, Leaf(t))
        BY <2>2, <3>6 DEF leaf
      <4>. QED
        BY <3>3, <4>1, GainIs
    <3>9. OneMore(r, node, b, t)
      <4>1. SameBeyond(g, node)
        BY <3>2, BeyondIs
      <4>. QED
        BY <3>8, <4>1 DEF OneMore, SameBut, SameBeyond
    <3>10. Shapely(r)
      <4>1. Shapely(AddChild(Grown(node), b, leaf))
        BY <1>0, <1>shape, <1>7, <2>1, <2>5, <3>3, ShapeGains
      <4>. QED
        BY <3>5, <4>1 DEF g
    <3>. QED
      BY <2>3, <3>6, <3>7, <3>9, <3>10 DEF r
  <2>. QED
    BY <2>4, <2>5 DEF r
<1>. QED
  BY <1>8, <1>9, <1>10 DEF r

\* insert_node adds its word and no other, and keeps a tree fit.
LEMMA InsertIs ==
  ASSUME NEW packed
  PROVE  \A k \in 0..MaxLength : \A node \in Fit(packed)[k], rest \in Words(k) :
           Inserted(packed, k, InsertNode[node][rest], node, rest)
<1>0. MaxLength \in Nat
  BY BytesAre
<1>. DEFINE Good(k) == \A node \in Fit(packed)[k], rest \in Words(k) :
                         Inserted(packed, k, InsertNode[node][rest], node, rest)
            Bad == {k \in 0..MaxLength : ~Good(k)}
<1>. SUFFICES ASSUME Bad # {} PROVE FALSE
  OBVIOUS
<1>1. PICK k \in Bad : k \in Nat /\ \A l \in Bad : k <= l
  <2>1. Bad \subseteq Nat
    BY <1>0
  <2>. HIDE DEF Bad
  <2>. QED
    BY <2>1, Smallest
<1>2. k \in 0..MaxLength /\ \A l \in 0..(k - 1) : Good(l)
  <2>1. \A l \in 0..(k - 1) : l \in 0..MaxLength /\ ~(k <= l)
    BY <1>0, <1>1
  <2>. QED
    BY <1>1, <2>1
<1>3. PICK node \in Fit(packed)[k], rest \in Words(k) :
        ~Inserted(packed, k, InsertNode[node][rest], node, rest)
  BY <1>1
<1>. HIDE DEF Bad
<1>4. InsertNode[node][rest] = IF node = Empty THEN Leaf(rest)
                               ELSE IF node.kind = "Leaf" THEN InsertAtLeaf(node, rest)
                               ELSE InsertAtInner(InsertNode, node, rest)
  <2>1. InsertNode[node] = InsertAtNode(InsertNode, node)
    BY <1>2, FitCases, InsertUnfolds
  <2>2. rest \in Seq(Bytes)
    BY BytesAre, SeqMonotonic DEF Words
  <2>. QED
    BY <2>1, <2>2, Zenon DEF InsertAtNode
<1>5. CASE node = Empty
  <2>1. InsertNode[node][rest] = Leaf(rest)
    BY <1>4, <1>5
  <2>2. Leaf(rest) \in Fit(packed)[k] /\ Leaf(rest) # Empty
    BY <1>2, LeafFits
  <2>3. WordsOf(Leaf(rest)) = {rest}
    BY <1>2, <2>2, WordsAre, LeafIs DEF ReadsAs
  <2>4. WordsOf(node) = {}
    BY <1>2, <1>5, WordsAre DEF ReadsAs
  <2>. QED
    BY <1>3, <2>1, <2>2, <2>3, <2>4 DEF Inserted
<1>6. CASE /\ node.kind = "Leaf" /\ node # Empty /\ node.suffix \in Words(k)
           /\ node = Leaf(node.suffix)
  <2>. DEFINE s == node.suffix
  <2>1. s \in Words(k) /\ node = Leaf(s)
    BY <1>6
  <2>. HIDE DEF s
  <2>2. Inserted(packed, k, InsertAtLeaf(Leaf(s), rest), Leaf(s), rest)
    BY <1>2, <2>1, LeafInserts
  <2>. QED
    BY <1>3, <1>4, <1>6, <2>1, <2>2
<1>7. CASE node # Empty /\ node.kind \notin {"Empty", "Leaf"}
  <2>1. \A j \in 0..(k - 1) : \A c \in Fit(packed)[j], t \in Words(j) :
          Inserted(packed, j, InsertNode[c][t], c, t)
    BY <1>2
  <2>2. Inserted(packed, k, InsertAtInner(InsertNode, node, rest), node, rest)
    BY <1>2, <1>7, <2>1, InnerInserts
  <2>. QED
    BY <1>3, <1>4, <1>7, <2>2
<1>. QED
  BY <1>2, <1>5, <1>6, <1>7, FitCases

-----------------------------------------------------------------------------
(* remove_node. *)

\* What lies under a node may be moved up, if its bytes go with it.
LEMMA UnderSame ==
  ASSUME NEW packed, NEW k \in 0..MaxLength, NEW m \in Nat, NEW q \in Nat, m + 1 + q <= k
  PROVE  /\ k - 1 - m \in 0..MaxLength /\ q \in 0..(k - 1 - m) /\ m + 1 + q \in 0..k
         /\ Under(packed, k - 1 - m, q) = Under(packed, k, m + 1 + q)
<1>. DEFINE j == k - 1 - m
            n == m + 1 + q
<1>1. /\ k \in Nat /\ MaxLength \in Nat /\ j \in 0..MaxLength /\ q \in 0..j /\ n \in 0..k /\ j \in Nat
      /\ (q < j) = (n < k) /\ j - 1 - q = k - 1 - n /\ (q = j) = (n = k)
  BY BytesAre
<1>2. CASE n < k
  <2>1. Under(packed, k, n) = Fit(packed)[k - 1 - n] \ {Empty}
    BY <1>1, <1>2, UnderIs
  <2>2. q < j
    BY <1>1, <1>2
  <2>. HIDE DEF j
  <2>3. Under(packed, j, q) = Fit(packed)[j - 1 - q] \ {Empty}
    BY <1>1, <2>2, UnderIs
  <2>. QED
    BY <1>1, <2>1, <2>3 DEF j
<1>3. CASE n = k
  <2>1. Under(packed, k, n) = {}
    BY <1>1, <1>3, UnderIs
  <2>2. q = j
    BY <1>1, <1>3
  <2>. HIDE DEF j
  <2>3. Under(packed, j, q) = {}
    BY <1>1, <2>2, UnderIs
  <2>. QED
    BY <1>1, <2>1, <2>3 DEF j
<1>. QED
  BY <1>1, <1>2, <1>3

\* A node holds no word that leaves its prefix.
LEMMA Apart ==
  ASSUME NEW node, node.prefix \in Seq(Clean), BeyondClean(node), NEW rest \in Seq(Clean),
         Common(node.prefix, rest) < Len(node.prefix)
  PROVE  rest \notin Holds(node)
<1>. DEFINE s == node.prefix
            m == Common(s, rest)
            p == SubSeq(rest, 1, m)
            below == From(rest, m + 1)
            x == s[m + 1]
            q == From(s, m + 2)
<1>1. Meets(Clean, s, rest)
  BY CommonSplits
<1>2. /\ p \in Seq(Clean) /\ x \in Clean /\ q \in Seq(Clean) /\ s = Path(p, x, q)
      /\ below = <<>> => rest = p
      /\ below # <<>> => /\ Head(below) \in Clean /\ Tail(below) \in Seq(Clean)
                         /\ rest = Path(p, Head(below), Tail(below)) /\ Head(below) # x
  BY <1>1, Zenon DEF Meets
<1>. HIDE DEF p, below, x, q
<1>3. \A z \in Seq(Clean) : rest # Path(p, x, z)
  <2>. TAKE z \in Seq(Clean)
  <2>1. CASE below = <<>>
    BY <1>2, <2>1, PathLonger
  <2>2. CASE below # <<>>
    <3>. DEFINE b == Head(below)
                t == Tail(below)
    <3>1. b \in Clean /\ t \in Seq(Clean) /\ rest = Path(p, b, t) /\ b # x
      BY <1>2, <2>2
    <3>. HIDE DEF b, t
    <3>2. Path(p, b, t) # Path(p, x, z)
      BY <1>2, <3>1, PathInjective
    <3>. QED
      BY <3>1, <3>2
  <2>. QED
    BY <2>1, <2>2
<1>4. \A b \in Clean, t \in Seq(Clean) : Path(s, b, t) = Path(p, x, Path(q, b, t)) /\ Path(q, b, t) \in Seq(Clean)
  BY <1>2, PathPath, PathLonger
<1>5. \A b : \A t \in Beyond(node, b) : t \in Seq(Clean)
  BY DEF BeyondClean
<1>. SUFFICES ASSUME rest \in Holds(node) PROVE FALSE
  OBVIOUS
<1>6. rest = s \/ \E b \in Clean : \E t \in Beyond(node, b) : rest = Path(s, b, t)
  BY HoldsIs
<1>7. rest # s
  BY <1>2, <1>3
<1>8. \E b \in Clean : \E t \in Seq(Clean) : rest = Path(s, b, t)
  BY <1>5, <1>6, <1>7
<1>. QED
  BY <1>3, <1>4, <1>8

\* What node_maybe_shrink makes of a node, whose children are those of a tree
\* that fits: the same words.
LEMMA ShrunkIs ==
  ASSUME NEW packed, NEW k \in 0..MaxLength, NEW node, node.prefix \in Words(k),
         Sound(node, Under(packed, k, Len(node.prefix))),
         node.kind \in {Kind(Size(node)), Kind(Size(node) + 1)},
         packed => Packed(node) \/ (node.kind = "N48" => Size(node) <= Cap16)
  PROVE  Shrunk(node) \in Fit(packed)[k] /\ WordsOf(Shrunk(node)) = Holds(node)
<1>. DEFINE p == node.prefix
            n == Len(p)
            X == Under(packed, k, n)
            r == Shrunk(node)
<1>0. /\ p \in Seq(Clean) /\ n \in 0..k /\ k \in Nat /\ MaxLength \in Nat /\ n \in Nat
      /\ Sound(node, X) /\ p \in Words(k) /\ node.prefix = p
  BY BytesAre, LenProperties DEF Words
<1>1. Empty \notin X
  BY <1>0, UnderIs
<1>2. BeyondClean(node)
  BY <1>0, UnderClean
<1>. HIDE DEF X, n, p
<1>3. node.end \in BOOLEAN /\ IsFiniteSet(ChildBytes(node)) /\ Size(node) = Cardinality(ChildBytes(node))
  BY <1>0, <1>1, SoundIs
<1>4. CASE Size(node) = 0 /\ ~node.end
  <2>1. r = Empty
    BY <1>4 DEF Shrunk
  <2>2. ChildBytes(node) = {}
    BY <1>3, <1>4, FS_EmptySet
  <2>3. \A b : Beyond(node, b) = {}
    BY <2>2 DEF Beyond, At
  <2>4. Holds(node) = {}
    BY <1>4, <2>3, HoldsIs
  <2>5. Empty \in Fit(packed)[k] /\ WordsOf(Empty) = {}
    BY EmptyFits, WordsAre DEF ReadsAs
  <2>. QED
    BY <2>1, <2>4, <2>5
<1>5. CASE node.kind = "N4" /\ Size(node) = 1 /\ ~node.end
  <2>1. /\ r = Merged(node)
        /\ \E b \in Clean :
              LET child == Child(node, b)
              IN /\ ChildBytes(node) = {b} /\ child \in X
                 /\ Merged(node) =
                      CASE child.kind = "Empty" -> Empty
                        [] child.kind = "Leaf" -> Leaf(Append(node.prefix, b) \o child.suffix)
                        [] OTHER -> [child EXCEPT !.prefix = Append(node.prefix, b) \o @]
    BY <1>0, <1>1, <1>5, MergedIs
  <2>2. PICK b \in Clean :
          /\ ChildBytes(node) = {b} /\ Child(node, b) \in X
          /\ r = CASE Child(node, b).kind = "Empty" -> Empty
                   [] Child(node, b).kind = "Leaf" -> Leaf(Append(p, b) \o Child(node, b).suffix)
                   [] OTHER -> [Child(node, b) EXCEPT !.prefix = Append(p, b) \o @]
    BY <2>1 DEF p
  <2>. DEFINE c == Child(node, b)
  <2>3. n < k /\ k - 1 - n \in 0..MaxLength /\ X = Fit(packed)[k - 1 - n] \ {Empty} /\ k - 1 - n \in Nat
    <3>1. n # k
      BY <1>0, <2>2, UnderIs DEF X
    <3>2. n < k
      BY <1>0, <3>1
    <3>3. k - 1 - n \in 0..MaxLength /\ X = Fit(packed)[k - 1 - n] \ {Empty}
      BY <1>0, <3>2, UnderIs DEF X
    <3>. QED
      BY <1>0, <3>2, <3>3
  <2>4. c \in X /\ c \in Fit(packed)[k - 1 - n] /\ c # Empty
    BY <2>2, <2>3
  <2>5. \A w : Append(p, b) \o w = Path(p, b, w)
    <3>1. Append(p, b) = p \o <<b>>
      BY <1>0, AppendIsConcat
    <3>. QED
      BY <3>1 DEF Path
  <2>6. /\ Beyond(node, b) = WordsOf(c)
        /\ \A d : d # b => Beyond(node, d) = {}
    BY <2>2 DEF Beyond, At, WordsOf
  <2>7. Holds(node) = {Path(p, b, w) : w \in WordsOf(c)}
    <3>1. \A w : w \in Holds(node) <=>
             /\ w \in Seq(Clean)
             /\ \E d \in Clean : \E t \in Beyond(node, d) : w = Path(p, d, t)
      BY <1>5, HoldsIs DEF p
    <3>2. \A t \in WordsOf(c) : Path(p, b, t) \in Seq(Clean)
      <4>1. \A t \in WordsOf(c) : t \in Seq(Clean)
        BY <1>2, <2>6 DEF BeyondClean
      <4>. QED
        BY <1>0, <4>1, PathLonger
    <3>. HIDE DEF c
    <3>3. \A w \in Holds(node) : \E t \in WordsOf(c) : w = Path(p, b, t)
      BY <2>6, <3>1
    <3>4. \A t \in WordsOf(c) : Path(p, b, t) \in Holds(node)
      BY <2>6, <3>1, <3>2
    <3>. QED
      BY <3>3, <3>4
  <2>. HIDE DEF c
  <2>8. CASE c.kind = "Leaf" /\ c.suffix \in Words(k - 1 - n) /\ c = Leaf(c.suffix)
    <3>. DEFINE t == c.suffix
                w == Path(p, b, t)
    <3>1. r = Leaf(w)
      BY <2>2, <2>5, <2>8 DEF c
    <3>2. w \in Words(k)
      <4>1. t \in Seq(Clean) /\ Len(t) <= k - 1 - n /\ Len(t) \in Nat
        BY <2>8, LenProperties DEF Words
      <4>. HIDE DEF t
      <4>2. w \in Seq(Clean) /\ Len(w) = n + 1 + Len(t)
        <5>1. w \in Seq(Clean) /\ IsPath(w, p, b, t)
          BY <1>0, <2>2, <4>1, PathIs
        <5>. HIDE DEF w
        <5>. QED
          BY <5>1 DEF IsPath, n
      <4>. HIDE DEF w
      <4>3. Len(w) <= k
        BY <1>0, <4>1, <4>2
      <4>. QED
        BY <4>2, <4>3 DEF Words
    <3>3. WordsOf(c) = {t}
      BY <2>3, <2>4, <2>8, WordsAre DEF ReadsAs
    <3>. HIDE DEF t, w
    <3>4. Leaf(w) \in Fit(packed)[k] /\ WordsOf(Leaf(w)) = {w}
      BY <3>2, LeafFits, LeafIs, WordsAre DEF ReadsAs
    <3>. QED
      BY <2>7, <3>1, <3>3, <3>4 DEF w
  <2>9. CASE /\ c.kind \notin {"Empty", "Leaf"}
             /\ c.prefix \in Words(k - 1 - n) /\ Len(c.prefix) \in 0..(k - 1 - n)
             /\ Sound(c, Under(packed, k - 1 - n, Len(c.prefix)))
             /\ Shapely(c)
             /\ packed => Packed(c)
    <3>. DEFINE q == c.prefix
                w == Path(p, b, q)
                Y == Under(packed, k - 1 - n, Len(q))
    <3>1. q \in Seq(Clean) /\ Len(q) \in Nat /\ Len(q) <= k - 1 - n
      BY <2>9, LenProperties DEF Words
    <3>2. w \in Seq(Clean) /\ Len(w) = n + 1 + Len(q) /\ w \in Words(k)
      <4>. HIDE DEF q
      <4>1. w \in Seq(Clean) /\ Len(w) = n + 1 + Len(q)
        <5>1. w \in Seq(Clean) /\ IsPath(w, p, b, q)
          BY <1>0, <2>2, <3>1, PathIs
        <5>. HIDE DEF w
        <5>. QED
          BY <5>1 DEF IsPath, n
      <4>. HIDE DEF w
      <4>2. Len(w) <= k
        BY <1>0, <3>1, <4>1
      <4>. QED
        BY <4>1, <4>2 DEF Words
    <3>3. Y = Under(packed, k, Len(w))
      <4>. HIDE DEF w, q
      <4>1. n + 1 + Len(q) <= k
        BY <1>0, <3>1
      <4>2. \A m \in Nat : n + 1 + m <= k => Under(packed, k - 1 - n, m) = Under(packed, k, n + 1 + m)
        BY <1>0, UnderSame
      <4>3. Under(packed, k - 1 - n, Len(q)) = Under(packed, k, n + 1 + Len(q))
        BY <3>1, <4>1, <4>2
      <4>. QED
        BY <3>2, <4>3
    <3>4. r = Retitle(c, w, c.end)
      <4>1. r = [c EXCEPT !.prefix = w]
        <5>1. r = [c EXCEPT !.prefix = Append(p, b) \o q]
          BY <2>2, <2>9 DEF c
        <5>. QED
          BY <2>5, <5>1
      <4>2. Sound(c, Y)
        BY <2>9
      <4>. HIDE DEF w, Y
      <4>. QED
        BY <4>1, <4>2, RetitleIs
    <3>5. Empty \notin Y /\ c.end \in BOOLEAN /\ BeyondClean(c)
      <4>1. Empty \notin Y
        BY <2>3, <2>9, UnderIs
      <4>2. BeyondClean(c)
        BY <2>3, <2>9, UnderClean
      <4>3. Sound(c, Y)
        BY <2>9
      <4>. HIDE DEF Y
      <4>. QED
        BY <4>1, <4>2, <4>3, SoundIs
    <3>6. Sound(c, Y)
      BY <2>9
    <3>7. WordsOf(c) = Holds(c)
      BY <2>3, <2>4, <2>9, WordsAre DEF ReadsAs
    <3>. HIDE DEF w, Y
    <3>8. RetitledAs(r, c, Y, w, c.end)
      BY <3>2, <3>4, <3>5, <3>6, Retitled
    <3>9. /\ Sound(r, Y) /\ r.prefix = w /\ r.end = c.end /\ SameChildren(r, c)
          /\ Shapely(r) /\ (packed => Packed(r))
      <4>1. Size(c) <= 1 => c.end
        BY <2>9 DEF Shapely
      <4>2. Shapely(r)
        BY <2>9, <3>8, <4>1, ShapeRetitled
      <4>. QED
        BY <2>9, <3>8, <4>2, Zenon DEF RetitledAs
    <3>10. r \in Fit(packed)[k] /\ WordsOf(r) = Holds(r)
      BY <3>2, <3>3, <3>9, InnerStays
    <3>11. Holds(r) = {Path(p, b, v) : v \in Holds(c)}
      <4>1. SameBeyond(r, c)
        BY <3>9, BeyondIs
      <4>2. r.prefix = Path(p, b, c.prefix) /\ c.prefix \in Seq(Clean) /\ r.end = c.end
        BY <3>1, <3>9 DEF w
      <4>. QED
        BY <1>0, <3>5, <4>1, <4>2, HoldsMoved
    <3>. QED
      BY <2>7, <3>7, <3>10, <3>11
  <2>. QED
    BY <2>3, <2>4, <2>8, <2>9, FitCases
<1>6. CASE ~(Size(node) = 0 /\ ~node.end) /\ ~(node.kind = "N4" /\ Size(node) = 1 /\ ~node.end)
  <2>1. LET q == Shrunk(node)
        IN /\ Sound(q, X) /\ SameValue(q, node) /\ SameChildren(q, node)
           /\ Packed(node) \/ (node.kind = "N48" => Size(node) <= Cap16) => Packed(q)
    BY <1>0, <1>1, <1>6, ShrunkSound
  <2>2. Sound(r, X) /\ SameValue(r, node) /\ SameChildren(r, node) /\ (packed => Packed(r))
    BY <2>1, Zenon
  <2>0. Shapely(r)
    BY <1>0, <1>1, <1>6, ShapeShrunk
  <2>. HIDE DEF r
  <2>3. r.prefix = p
    BY <1>0, <2>2 DEF SameValue
  <2>4. r \in Fit(packed)[k] /\ WordsOf(r) = Holds(r)
    BY <1>0, <2>0, <2>2, <2>3, InnerStays DEF X, n
  <2>5. Holds(r) = Holds(node)
    BY <2>2, BeyondIs, HoldsSame
  <2>. QED
    BY <2>4, <2>5 DEF r
<1>. QED
  BY <1>4, <1>5, <1>6

\* When a Node48 can have one child more than a Node16 and no more, it loses
\* none without shrinking.
LEMMA DelFits ==
  ASSUME NEW X, Empty \notin X, NEW node, Sound(node, X), NEW b \in ChildBytes(node),
         NEW r, Sound(r, X), Loses(r, node, b), r.kind = node.kind, r.kind = "N48",
         Cap48 = Cap16 + 1
  PROVE  Size(r) <= Cap16
<1>1. /\ IsFiniteSet(ChildBytes(node)) /\ Size(node) = Cardinality(ChildBytes(node))
      /\ Size(r) = Cardinality(ChildBytes(r))
  BY SoundIs
<1>2. Size(node) \in Nat /\ Size(node) <= Cap48
  BY AtMost48
<1>3. Cardinality(ChildBytes(node) \ {b}) = Cardinality(ChildBytes(node)) - 1
  BY <1>1, FS_RemoveElement
<1>4. Size(r) = Size(node) - 1
  BY <1>1, <1>3 DEF Loses
<1>. QED
  BY <1>2, <1>4, BytesAre

\* A node that has lost a child is still of the kind it had with it.
LEMMA DelShape ==
  ASSUME NEW X, Empty \notin X, NEW node, Sound(node, X), Shapely(node), NEW b \in ChildBytes(node),
         NEW r, Sound(r, X), Loses(r, node, b), r.kind = node.kind
  PROVE  r.kind = Kind(Size(r) + 1)
<1>1. /\ IsFiniteSet(ChildBytes(node)) /\ Size(node) = Cardinality(ChildBytes(node))
      /\ Size(r) = Cardinality(ChildBytes(r))
  BY SoundIs
<1>2. Size(node) \in Nat
  BY <1>1, FS_CardinalityType
<1>3. Cardinality(ChildBytes(node) \ {b}) = Cardinality(ChildBytes(node)) - 1
  BY <1>1, FS_RemoveElement
<1>4. Size(r) + 1 = Size(node)
  BY <1>1, <1>2, <1>3 DEF Loses
<1>. QED
  BY <1>4 DEF Shapely

\* r is node without the word rest, where k bytes are left.
Removed(packed, k, r, node, rest) ==
  r \in Fit(packed)[k] /\ WordsOf(r) = WordsOf(node) \ {rest}

\* remove_node at an inner node takes its word away, if it does so at the
\* children.
LEMMA InnerRemoves ==
  ASSUME NEW packed, packed => Cap48 = Cap16 + 1,
         NEW k \in 0..MaxLength, NEW node \in Fit(packed)[k],
         node.kind \notin {"Empty", "Leaf"}, NEW rest \in Words(k), NEW f,
         \A j \in 0..(k - 1) : \A c \in Fit(packed)[j], t \in Words(j) :
            Removed(packed, j, f[c][t], c, t)
  PROVE  Removed(packed, k, RemoveAtInner(f, node, rest), node, rest)
<1>. DEFINE s == node.prefix
            n == Len(s)
            r == RemoveAtInner(f, node, rest)
            m == Common(s, rest)
            p == SubSeq(rest, 1, m)
            below == From(rest, m + 1)
            X == Under(packed, k, n)
<1>. node # Empty /\ node.kind # "Leaf" /\ node.kind # "Empty"
  BY DEF Empty
<1>0. /\ s \in Words(k) /\ Sound(node, X) /\ (packed => Packed(node)) /\ n \in 0..k
      /\ k \in Nat /\ MaxLength \in Nat
  BY FitCases, BytesAre
<1>shape. Shapely(node)
  BY FitCases
<1>1. /\ s \in Seq(Clean) /\ rest \in Seq(Clean) /\ Len(s) <= k /\ Len(rest) <= k
      /\ Len(s) \in Nat /\ Len(rest) \in Nat
  BY <1>0, LenProperties DEF Words
<1>2. WordsOf(node) = Holds(node)
  BY WordsAre DEF ReadsAs
<1>3. Meets(Clean, s, rest)
  BY <1>1, CommonSplits
<1>4. /\ m \in Nat /\ m <= Len(s) /\ m <= Len(rest)
      /\ m = Len(s) => p = s
      /\ below = <<>> => rest = p
      /\ below # <<>> => /\ Head(below) \in Clean /\ Tail(below) \in Seq(Clean)
                         /\ Len(rest) = m + 1 + Len(Tail(below))
                         /\ rest = Path(p, Head(below), Tail(below))
  BY <1>3, Zenon DEF Meets
<1>5. r = IF m < Len(s) THEN node
          ELSE IF below = <<>>
          THEN IF node.end THEN Shrunk([node EXCEPT !.end = FALSE]) ELSE node
          ELSE IF Head(below) \notin ChildBytes(node) THEN node
          ELSE IF f[Child(node, Head(below))][Tail(below)] = Child(node, Head(below)) THEN node
          ELSE IF f[Child(node, Head(below))][Tail(below)] = Empty
          THEN Shrunk(DelChild(node, Head(below)))
          ELSE WithChild(node, Head(below), f[Child(node, Head(below))][Tail(below)])
  BY Zenon DEF RemoveAtInner
<1>6. [node EXCEPT !.end = FALSE] = Retitle(node, s, FALSE)
  BY <1>0, RetitleIs
<1>7. BeyondClean(node) /\ Empty \notin X /\ node.end \in BOOLEAN
  <2>1. Empty \notin X
    BY <1>0, UnderIs
  <2>. HIDE DEF X
  <2>2. node.end \in BOOLEAN
    BY <1>0, <2>1, SoundIs
  <2>3. BeyondClean(node)
    BY <1>0, UnderClean DEF X
  <2>. QED
    BY <2>1, <2>2, <2>3
<1>8. node.prefix = s
  OBVIOUS
<1>. HIDE DEF p, below, r, s, n, X
<1>9. CASE m < Len(s)
  <2>1. rest \notin Holds(node)
    BY <1>1, <1>7, <1>9, Apart DEF s, m
  <2>. QED
    BY <1>2, <1>5, <1>9, <2>1 DEF Removed, r
<1>10. CASE ~(m < Len(s)) /\ below = <<>>
  <2>1. rest = s
    <3>1. m = Len(s)
      BY <1>1, <1>4, <1>10
    <3>. QED
      BY <1>4, <1>10, <3>1
  <2>2. CASE ~node.end
    <3>1. r = node
      BY <1>5, <1>10, <2>2
    <3>2. SameBeyond(node, node)
      BY DEF SameBeyond
    <3>3. Holds(node) = Holds(node) \ {s}
      BY <1>1, <1>7, <1>8, <2>2, <3>2, HoldsEnd
    <3>. QED
      BY <1>2, <2>1, <3>1, <3>3 DEF Removed, r
  <2>3. CASE node.end
    <3>. DEFINE g == Retitle(node, s, FALSE)
    <3>1. r = Shrunk(g)
      BY <1>5, <1>6, <1>10, <2>3
    <3>2. RetitledAs(g, node, X, s, FALSE)
      BY <1>0, <1>1, Retitled
    <3>. HIDE DEF g
    <3>3. /\ Sound(g, X) /\ g.prefix = s /\ g.end = FALSE /\ SameChildren(g, node)
          /\ packed => Packed(g)
      BY <1>0, <3>2, Zenon DEF RetitledAs
    <3>shape. g.kind = Kind(Size(g))
      <4>1. g.kind = node.kind /\ Size(g) = Size(node)
        BY <3>2, Zenon DEF RetitledAs
      <4>. QED
        BY <1>shape, <4>1 DEF Shapely
    <3>4. r \in Fit(packed)[k] /\ WordsOf(r) = Holds(g)
      BY <1>0, <3>1, <3>3, <3>shape, ShrunkIs DEF X, n
    <3>5. Holds(g) = Holds(node) \ {s}
      <4>1. SameBeyond(g, node)
        BY <3>3, BeyondIs
      <4>2. g.prefix = node.prefix /\ node.prefix \in Seq(Clean) /\ ~g.end
        BY <1>1, <1>8, <3>3
      <4>. QED
        BY <1>7, <1>8, <4>1, <4>2, HoldsEnd
    <3>. QED
      BY <1>2, <2>1, <3>4, <3>5 DEF Removed, r
  <2>. QED
    BY <2>2, <2>3
<1>11. CASE ~(m < Len(s)) /\ below # <<>>
  <2>. DEFINE b == Head(below)
              t == Tail(below)
              c == Child(node, b)
              d == f[c][t]
              j == k - 1 - n
  <2>1. /\ b \in Clean /\ t \in Seq(Clean) /\ Len(rest) = n + 1 + Len(t) /\ rest = Path(s, b, t)
        /\ r = IF b \notin ChildBytes(node) THEN node
               ELSE IF d = c THEN node
               ELSE IF d = Empty THEN Shrunk(DelChild(node, b))
               ELSE WithChild(node, b, d)
    <3>1. m = Len(s)
      BY <1>1, <1>4, <1>11
    <3>. QED
      BY <1>4, <1>5, <1>11, <3>1 DEF n
  <2>. HIDE DEF b, t, m
  <2>2. /\ n < k /\ j \in 0..MaxLength /\ j \in 0..(k - 1) /\ t \in Words(j)
        /\ X = Fit(packed)[j] \ {Empty}
    <3>1. n \in Nat /\ n + 1 + Len(t) <= k
      BY <1>0, <1>1, <2>1
    <3>2. /\ n < k /\ j \in 0..MaxLength /\ t \in Words(j)
          /\ X = Fit(packed)[j] \ {Empty}
      BY <2>1, <3>1, LeafUnder DEF X
    <3>3. j \in 0..(k - 1)
      BY <1>0, <3>1, <3>2
    <3>. QED
      BY <3>2, <3>3
  <2>. HIDE DEF j
  <2>3. ASSUME NEW g, SameValue(g, node), OneLess(g, node, b, t)
        PROVE  Holds(g) = WordsOf(node) \ {rest}
    <3>1. Holds(g) = Holds(node) \ {Path(s, b, t)}
      BY <1>1, <1>7, <1>8, <2>1, <2>3, HoldsLess
    <3>. QED
      BY <1>2, <2>1, <3>1
  <2>4. ASSUME r = node, Beyond(node, b) = Beyond(node, b) \ {t}
        PROVE  Removed(packed, k, r, node, rest)
    <3>1. OneLess(node, node, b, t) /\ SameValue(node, node)
      BY <2>4 DEF OneLess, SameBut, SameValue
    <3>2. Holds(node) = WordsOf(node) \ {rest}
      BY <2>3, <3>1
    <3>. QED
      BY <1>2, <2>4, <3>2 DEF Removed
  <2>5. CASE b \notin ChildBytes(node)
    <3>1. Beyond(node, b) = {}
      BY <2>5 DEF Beyond, At
    <3>2. r = node
      BY <2>1, <2>5
    <3>. QED
      BY <2>4, <3>1, <3>2 DEF r
  <2>6. CASE b \in ChildBytes(node)
    <3>1. c \in X
      BY <1>0, <1>7, <2>6, SoundIs
    <3>2. Removed(packed, j, d, c, t)
      BY <2>2, <3>1
    <3>3. Beyond(node, b) = WordsOf(c)
      BY <2>6 DEF Beyond, At, WordsOf
    <3>4. /\ d \in Fit(packed)[j] /\ WordsOf(d) = Beyond(node, b) \ {t}
      BY <3>2, <3>3 DEF Removed
    <3>5. r = IF d = c THEN node
              ELSE IF d = Empty THEN Shrunk(DelChild(node, b))
              ELSE WithChild(node, b, d)
      BY <2>1, <2>6
    <3>. HIDE DEF d, c
    <3>6. CASE d = c
      <4>1. r = node
        BY <3>5, <3>6
      <4>. QED
        BY <2>4, <3>3, <3>4, <3>6, <4>1 DEF r
    <3>7. CASE d # c /\ d = Empty
      <4>. DEFINE g == DelChild(node, b)
      <4>1. r = Shrunk(g)
        BY <3>5, <3>7
      <4>2. LET q == DelChild(node, b)
            IN /\ Sound(q, X) /\ SameValue(q, node) /\ Loses(q, node, b)
               /\ q.kind = node.kind
        BY <1>0, <1>7, <2>6, DelChildSound
      <4>3. Sound(g, X) /\ SameValue(g, node) /\ Loses(g, node, b) /\ g.kind = node.kind
        BY <4>2, Zenon
      <4>. HIDE DEF g
      <4>4. packed => Packed(g) \/ (g.kind = "N48" => Size(g) <= Cap16)
        BY <1>0, <1>7, <2>6, <4>3, DelFits
      <4>5. g.prefix = s
        BY <1>8, <4>3 DEF SameValue
      <4>shape. g.kind = Kind(Size(g) + 1)
        BY <1>0, <1>shape, <1>7, <2>6, <4>3, DelShape
      <4>6. r \in Fit(packed)[k] /\ WordsOf(r) = Holds(g)
        BY <1>0, <4>1, <4>3, <4>4, <4>5, <4>shape, ShrunkIs DEF X, n
      <4>7. OneLess(g, node, b, t)
        <5>1. Empty \in Fit(packed)[j] /\ WordsOf(Empty) = {}
          BY <2>2, EmptyFits, WordsAre DEF ReadsAs
        <5>2. ChildBytes(g) = ChildBytes(node) \ {b}
              /\ \A e \in ChildBytes(node) \ {b} : Child(g, e) = Child(node, e)
          BY <4>3 DEF Loses
        <5>3. Beyond(g, b) = {}
          BY <5>2 DEF Beyond, At
        <5>4. \A e \in Clean \ {b} : Beyond(g, e) = Beyond(node, e)
          BY <5>2 DEF Beyond, At
        <5>. QED
          BY <3>4, <3>7, <5>1, <5>3, <5>4 DEF OneLess, SameBut
      <4>8. Holds(g) = WordsOf(node) \ {rest}
        BY <2>3, <4>3, <4>7
      <4>. QED
        BY <4>6, <4>8 DEF Removed, r
    <3>8. CASE d # c /\ d # Empty
      <4>1. r = WithChild(node, b, d) /\ d \in X
        BY <2>2, <3>4, <3>5, <3>8
      <4>2. LET q == WithChild(node, b, d)
            IN /\ Sound(q, X) /\ SameValue(q, node) /\ Replaces(q, node, b, d)
               /\ Packed(node) => Packed(q)
        BY <1>0, <1>7, <2>6, <4>1, WithChildSound
      <4>3. Sound(r, X) /\ SameValue(r, node) /\ Replaces(r, node, b, d) /\ (packed => Packed(r))
        BY <1>0, <4>1, <4>2, Zenon
      <4>4. OneLess(r, node, b, t)
        <5>1. /\ ChildBytes(r) = ChildBytes(node) /\ Child(r, b) = d
              /\ \A e \in ChildBytes(node) \ {b} : Child(r, e) = Child(node, e)
          BY <4>3 DEF Replaces
        <5>2. Beyond(r, b) = Beyond(node, b) \ {t}
          BY <2>6, <3>4, <5>1 DEF Beyond, At, WordsOf
        <5>3. \A e \in Clean \ {b} : Beyond(r, e) = Beyond(node, e)
          BY <5>1 DEF Beyond, At
        <5>. QED
          BY <5>2, <5>3 DEF OneLess, SameBut
      <4>5. r.prefix = s
        BY <1>8, <4>3 DEF SameValue
      <4>shape. Shapely(r)
        BY <1>0, <1>shape, <1>7, <2>6, <4>1, ShapeWith
      <4>6. r \in Fit(packed)[k] /\ WordsOf(r) = Holds(r)
        BY <1>0, <4>3, <4>5, <4>shape, InnerStays DEF X, n
      <4>7. Holds(r) = WordsOf(node) \ {rest}
        BY <2>3, <4>3, <4>4
      <4>. QED
        BY <4>6, <4>7 DEF Removed, r
    <3>. QED
      BY <3>6, <3>7, <3>8 DEF r
  <2>. QED
    BY <2>5, <2>6 DEF r
<1>. QED
  BY <1>9, <1>10, <1>11 DEF r

\* remove_node takes away its word and no other, and keeps a tree fit.
LEMMA RemoveIs ==
  ASSUME NEW packed, packed => Cap48 = Cap16 + 1
  PROVE  \A k \in 0..MaxLength : \A node \in Fit(packed)[k], rest \in Words(k) :
           Removed(packed, k, RemoveNode[node][rest], node, rest)
<1>0. MaxLength \in Nat
  BY BytesAre
<1>. DEFINE Good(k) == \A node \in Fit(packed)[k], rest \in Words(k) :
                         Removed(packed, k, RemoveNode[node][rest], node, rest)
            Bad == {k \in 0..MaxLength : ~Good(k)}
<1>. SUFFICES ASSUME Bad # {} PROVE FALSE
  OBVIOUS
<1>1. PICK k \in Bad : k \in Nat /\ \A l \in Bad : k <= l
  <2>1. Bad \subseteq Nat
    BY <1>0
  <2>. HIDE DEF Bad
  <2>. QED
    BY <2>1, Smallest
<1>2. k \in 0..MaxLength /\ \A l \in 0..(k - 1) : Good(l)
  <2>1. \A l \in 0..(k - 1) : l \in 0..MaxLength /\ ~(k <= l)
    BY <1>0, <1>1
  <2>. QED
    BY <1>1, <2>1
<1>3. PICK node \in Fit(packed)[k], rest \in Words(k) :
        ~Removed(packed, k, RemoveNode[node][rest], node, rest)
  BY <1>1
<1>. HIDE DEF Bad
<1>4. RemoveNode[node][rest] = IF node = Empty THEN node
                               ELSE IF node.kind = "Leaf" THEN IF node.suffix = rest THEN Empty ELSE node
                               ELSE RemoveAtInner(RemoveNode, node, rest)
  <2>1. RemoveNode[node] = RemoveAtNode(RemoveNode, node)
    BY <1>2, FitCases, RemoveUnfolds
  <2>2. rest \in Seq(Bytes)
    BY BytesAre, SeqMonotonic DEF Words
  <2>. QED
    BY <2>1, <2>2, Zenon DEF RemoveAtNode
<1>5. CASE node = Empty
  <2>1. RemoveNode[node][rest] = node
    BY <1>4, <1>5
  <2>2. WordsOf(node) = {}
    BY <1>2, <1>5, WordsAre DEF ReadsAs
  <2>. QED
    BY <1>3, <2>1, <2>2 DEF Removed
<1>6. CASE node.kind = "Leaf" /\ node # Empty
  <2>1. WordsOf(node) = {node.suffix}
    BY <1>2, <1>6, WordsAre DEF ReadsAs
  <2>2. Empty \in Fit(packed)[k] /\ WordsOf(Empty) = {}
    BY <1>2, EmptyFits, WordsAre DEF ReadsAs
  <2>. QED
    BY <1>3, <1>4, <1>6, <2>1, <2>2 DEF Removed
<1>7. CASE node # Empty /\ node.kind \notin {"Empty", "Leaf"}
  <2>1. \A j \in 0..(k - 1) : \A c \in Fit(packed)[j], t \in Words(j) :
          Removed(packed, j, RemoveNode[c][t], c, t)
    BY <1>2
  <2>2. Removed(packed, k, RemoveAtInner(RemoveNode, node, rest), node, rest)
    BY <1>2, <1>7, <2>1, InnerRemoves
  <2>. QED
    BY <1>3, <1>4, <1>7, <2>2
<1>. QED
  BY <1>2, <1>5, <1>6, <1>7, FitCases

-----------------------------------------------------------------------------
(* Encoding and decoding. *)

\* Storing an inner node, when its children are stored whole.
LEMMA InnerReloads ==
  ASSUME NEW X, Empty \notin X, NEW node, Sound(node, X), Packed(node), NEW f,
         \A c \in X \cup {Empty} : f[c] = c
  PROVE  ReloadInner(f, node) = node
<1>1. CASE SoundLinear(node, X)
  <2>. DEFINE new == [i \in DOMAIN node.ch |-> f[node.ch[i]]]
  <2>1. /\ node \in [kind : {"N4", "N16"}, prefix : Seq(Clean), end : BOOLEAN,
                     keys : Seq(Clean), ch : Seq(X)]
    BY <1>1 DEF SoundLinear
  <2>2. node.ch \in Seq(X)
    BY <2>1
  <2>3. new = node.ch
    <3>. DEFINE ch == node.ch
    <3>1. ch \in [1..Len(ch) -> X] /\ DOMAIN ch = 1..Len(ch)
      BY <2>2
    <3>. HIDE DEF ch
    <3>2. \A i \in DOMAIN ch : ch[i] \in X
      BY <3>1
    <3>3. \A i \in DOMAIN ch : f[ch[i]] = ch[i]
      BY <3>2
    <3>4. ch = [i \in DOMAIN ch |-> ch[i]]
      BY <3>1
    <3>5. [i \in DOMAIN ch |-> f[ch[i]]] = [i \in DOMAIN ch |-> ch[i]]
      BY <3>3, Zenon
    <3>. QED
      BY <3>4, <3>5 DEF ch
  <2>4. IsLinear(node)
    BY <1>1, LinearIs
  <2>5. ReloadInner(f, node) = [node EXCEPT !.ch = new]
    <3>1. node.kind # "N48" /\ node.kind # "N256"
      BY <1>1, LinearIs
    <3>. QED
      BY <2>4, <3>1 DEF ReloadInner
  <2>. HIDE DEF new
  <2>. QED
    BY <2>1, <2>3, <2>5
<1>2. CASE Sound48(node, X)
  <2>. DEFINE new == [s \in Slots |-> IF s < node.n THEN f[node.ch[s]] ELSE Empty]
  <2>1. /\ node \in [kind : {"N48"}, prefix : Seq(Clean), end : BOOLEAN, n : Nat,
                     idx : [Bytes -> Slots \cup {Nil}], ch : [Slots -> X \cup {Empty}]]
        /\ \A s \in Slots : node.ch[s] # Empty => \E b \in Used48(node.idx) : node.idx[b] = s
    BY <1>2 DEF Sound48
  <2>2. node.kind = "N48" /\ node.ch \in [Slots -> X \cup {Empty}]
    BY <2>1
  <2>3. \A s \in Slots : node.ch[s] = new[s]
    <3>. TAKE s \in Slots
    <3>1. CASE s < node.n
      BY <2>2, <3>1
    <3>2. CASE ~(s < node.n)
      <4>1. \A b \in Used48(node.idx) : node.idx[b] < node.n
        BY <2>2 DEF Packed
      <4>2. node.ch[s] = Empty
        BY <2>1, <3>2, <4>1
      <4>. QED
        BY <3>2, <4>2
    <3>. QED
      BY <3>1, <3>2
  <2>4. new = node.ch
    <3>1. new = [s \in Slots |-> new[s]]
      OBVIOUS
    <3>. HIDE DEF new
    <3>2. node.ch = [s \in Slots |-> node.ch[s]]
      BY <2>2
    <3>3. [s \in Slots |-> node.ch[s]] = [s \in Slots |-> new[s]]
      BY <2>3, Zenon
    <3>. QED
      BY <3>1, <3>2, <3>3
  <2>5. ReloadInner(f, node) = [node EXCEPT !.ch = new]
    BY <2>2 DEF ReloadInner, IsLinear
  <2>. HIDE DEF new
  <2>. QED
    BY <2>1, <2>4, <2>5
<1>3. CASE Sound256(node, X)
  <2>. DEFINE new == [b \in Bytes |-> f[node.ch[b]]]
  <2>1. /\ node \in [kind : {"N256"}, prefix : Seq(Clean), end : BOOLEAN, n : Nat,
                     ch : [Bytes -> X \cup {Empty}]]
        /\ node.n = Cardinality(Used256(node.ch))
    BY <1>3 DEF Sound256
  <2>2. node.kind = "N256" /\ node.ch \in [Bytes -> X \cup {Empty}]
    BY <2>1
  <2>3. \A b \in Bytes : node.ch[b] = f[node.ch[b]]
    BY <2>2
  <2>4. new = node.ch
    <3>1. node.ch = [b \in Bytes |-> node.ch[b]]
      BY <2>2
    <3>2. [b \in Bytes |-> node.ch[b]] = [b \in Bytes |-> f[node.ch[b]]]
      BY <2>3, Zenon
    <3>. QED
      BY <3>1, <3>2
  <2>5. node.n = Cardinality(ChildBytes(node))
    BY <2>1, <2>2, Node256Is
  <2>6. ReloadInner(f, node) = [node EXCEPT !.ch = new, !.n = Cardinality(ChildBytes(node))]
    BY <2>2 DEF ReloadInner, IsLinear
  <2>. HIDE DEF new
  <2>7. ReloadInner(f, node) = [node EXCEPT !.ch = node.ch, !.n = node.n]
    BY <2>4, <2>5, <2>6
  <2>. QED
    BY <2>1, <2>7
<1>. QED
  BY <1>1, <1>2, <1>3 DEF Sound

\* The trees have no holes, as an operator of its own for the provers.
Holding(packed) == packed

\* Storing the node loses nothing.
Stored(node) == Reloaded[node] = node

\* from_bytes of to_bytes gives back a packed tree as it was.
LEMMA ReloadIs ==
  ASSUME NEW packed, Holding(packed)
  PROVE  \A k \in 0..MaxLength : \A node \in Fit(packed)[k] : Stored(node)
<1>0. MaxLength \in Nat
  BY BytesAre
<1>. DEFINE Good(k) == \A node \in Fit(packed)[k] : Stored(node)
            Bad == {k \in 0..MaxLength : ~Good(k)}
<1>. SUFFICES ASSUME Bad # {} PROVE FALSE
  OBVIOUS
<1>1. PICK k \in Bad : k \in Nat /\ \A l \in Bad : k <= l
  <2>1. Bad \subseteq Nat
    BY <1>0
  <2>. HIDE DEF Bad
  <2>. QED
    BY <2>1, Smallest
<1>2. k \in 0..MaxLength /\ \A l \in 0..MaxLength : l < k => Good(l)
  BY <1>0, <1>1
<1>3. PICK node \in Fit(packed)[k] : ~Stored(node)
  BY <1>1
<1>. HIDE DEF Bad
<1>4. \A h \in 0..MaxLength : \A c \in Fit(packed)[h] : Reloaded[c] = ReloadNode(Reloaded, c)
  BY FitCases, ReloadUnfolds
<1>5. Reloaded[node] = IF node.kind \in {"Empty", "Leaf"} THEN node ELSE ReloadInner(Reloaded, node)
  BY <1>2, <1>4 DEF ReloadNode
<1>6. CASE node.kind \in {"Empty", "Leaf"}
  BY <1>3, <1>5, <1>6 DEF Stored
<1>7. CASE node.kind \notin {"Empty", "Leaf"}
  <2>. DEFINE n == Len(node.prefix)
              X == Under(packed, k, n)
  <2>1. n \in 0..k /\ Sound(node, X) /\ Packed(node)
    <3>1. node # Empty
      BY <1>7 DEF Empty
    <3>2. n \in 0..k /\ Sound(node, X) /\ (packed => Packed(node))
      BY <1>2, <1>7, <3>1, FitCases
    <3>3. packed
      BY Zenon DEF Holding
    <3>. QED
      BY <3>2, <3>3, Zenon
  <2>. HIDE DEF n
  <2>2. Empty \notin X
    BY <1>2, <2>1, UnderIs
  <2>3. \A c \in X : Reloaded[c] = c
    <3>1. n = k => X = {}
      BY <1>2, <2>1, UnderIs
    <3>2. n < k => /\ k - 1 - n \in 0..MaxLength /\ k - 1 - n < k
                   /\ X = Fit(packed)[k - 1 - n] \ {Empty}
      BY <1>2, <2>1, UnderIs
    <3>3. n < k \/ n = k
      BY <1>0, <1>2, <2>1
    <3>. HIDE DEF X
    <3>. QED
      BY <1>2, <3>1, <3>2, <3>3 DEF Stored
  <2>4. Reloaded[Empty] = Empty
    <3>1. Reloaded[Empty] = ReloadNode(Reloaded, Empty)
      BY <1>2, <1>4, EmptyFits
    <3>2. Empty.kind = "Empty"
      BY DEF Empty
    <3>. QED
      BY <3>1, <3>2 DEF ReloadNode
  <2>. HIDE DEF X
  <2>5. \A c \in X \cup {Empty} : Reloaded[c] = c
    BY <2>3, <2>4
  <2>6. ReloadInner(Reloaded, node) = node
    BY <2>1, <2>2, <2>5, InnerReloads
  <2>. QED
    BY <1>3, <1>5, <1>7, <2>6 DEF Stored
<1>. QED
  BY <1>6, <1>7

-----------------------------------------------------------------------------
(* The specification. *)

\* The state.
vars == <<root, count, values>>

\* The inductive invariant: the tree fits and holds the values in use, and
\* the length is their number.
Kept(packed) ==
  /\ root \in Fit(packed)[MaxLength] /\ WordsOf(root) = values
  /\ values \subseteq Values /\ IsFiniteSet(values) /\ count = Cardinality(values)

\* No value contains the last byte, the mark of an unused byte of a Node48.
NoMark == Values \subseteq Seq(Clean)

\* Storing loses nothing of what an insertion or a removal makes of the tree.
Intact ==
  \A v \in Values : Stored(InsertNode[root][v]) /\ Stored(RemoveNode[root][v])

\* The values are words, and there is room for them.
LEMMA ValuesAreWords ==
  ASSUME NoMark
  PROVE  Values \subseteq Words(MaxLength) /\ MaxLength \in 0..MaxLength
<1>1. \A v \in Values : Len(v) <= MaxLength
  BY TreeAssumption
<1>. QED
  BY <1>1, BytesAre DEF NoMark, Words

\* The initial state.
LEMMA KeptInit ==
  ASSUME NEW packed, Init
  PROVE  Kept(packed)
<1>1. MaxLength \in 0..MaxLength
  BY BytesAre
<1>2. Empty \in Fit(packed)[MaxLength] /\ WordsOf(Empty) = {}
  BY <1>1, EmptyFits, WordsAre DEF ReadsAs
<1>3. IsFiniteSet({}) /\ Cardinality({}) = 0
  BY FS_EmptySet
<1>. QED
  BY <1>2, <1>3 DEF Init, Kept

\* The step of an insertion.
LEMMA KeptInsert ==
  ASSUME NEW packed, NoMark, Kept(packed), NEW v \in Values, InsertValue(v),
         Holding(packed) \/ Stored(InsertNode[root][v])
  PROVE  Kept(packed)'
<1>. DEFINE node == InsertNode[root][v]
<1>1. v \in Words(MaxLength) /\ MaxLength \in 0..MaxLength
  BY ValuesAreWords
<1>2. Inserted(packed, MaxLength, node, root, v)
  BY <1>1, InsertIs DEF Kept
<1>3. node \in Fit(packed)[MaxLength] /\ WordsOf(node) = values \cup {v}
  BY <1>2 DEF Inserted, Kept
<1>4. Stored(node)
  BY <1>1, <1>3, ReloadIs
<1>5. v \notin values /\ IsFiniteSet(values) /\ count = Cardinality(values) /\ values \subseteq Values
  BY DEF InsertValue, Kept
<1>6. node # root
  BY <1>3, <1>5 DEF Kept
<1>7. root' = node /\ count' = count + 1 /\ values' = values \cup {v}
  BY <1>4, <1>6 DEF InsertValue, Stored
<1>. HIDE DEF node
<1>8. WordsOf(root)' = values'
  BY <1>3, <1>7 DEF WordsOf
<1>9. IsFiniteSet(values') /\ Cardinality(values') = Cardinality(values) + 1
  BY <1>5, <1>7, FS_AddElement
<1>. QED
  BY <1>3, <1>5, <1>7, <1>8, <1>9 DEF Kept

\* The step of a removal; the tree of no value is dropped.
LEMMA KeptRemove ==
  ASSUME NEW packed, NoMark, packed => Cap48 = Cap16 + 1, Kept(packed),
         NEW v \in Values, RemoveValue(v),
         Holding(packed) \/ Stored(RemoveNode[root][v])
  PROVE  Kept(packed)'
<1>. DEFINE node == RemoveNode[root][v]
<1>1. v \in Words(MaxLength) /\ MaxLength \in 0..MaxLength
  BY ValuesAreWords
<1>2. Removed(packed, MaxLength, node, root, v)
  BY <1>1, RemoveIs DEF Kept
<1>3. node \in Fit(packed)[MaxLength] /\ WordsOf(node) = values \ {v}
  BY <1>2 DEF Removed, Kept
<1>4. Stored(node)
  BY <1>1, <1>3, ReloadIs
<1>5. v \in values /\ IsFiniteSet(values) /\ count = Cardinality(values) /\ values \subseteq Values
  BY DEF RemoveValue, Kept
<1>6. node # root
  BY <1>3, <1>5 DEF Kept
<1>7. /\ count' = count - 1 /\ values' = values \ {v}
      /\ root' = IF count' = 0 THEN Empty ELSE node
  BY <1>4, <1>6 DEF RemoveValue, Stored
<1>. HIDE DEF node
<1>8. IsFiniteSet(values') /\ Cardinality(values') = Cardinality(values) - 1
  BY <1>5, <1>7, FS_RemoveElement
<1>9. count' = Cardinality(values')
  BY <1>5, <1>7, <1>8
<1>10. root' \in Fit(packed)[MaxLength] /\ WordsOf(root)' = values'
  <2>1. CASE count' = 0
    <3>1. values' = {} /\ root' = Empty
      BY <1>7, <1>8, <1>9, <2>1, FS_EmptySet
    <3>2. Empty \in Fit(packed)[MaxLength] /\ WordsOf(Empty) = {}
      BY <1>1, EmptyFits, WordsAre DEF ReadsAs
    <3>. QED
      BY <3>1, <3>2 DEF WordsOf
  <2>2. CASE count' # 0
    BY <1>3, <1>7, <2>2 DEF WordsOf
  <2>. QED
    BY <2>1, <2>2
<1>11. values' \subseteq Values
  BY <1>5, <1>7
<1>. QED
  BY <1>8, <1>9, <1>10, <1>11 DEF Kept

\* Every step.
LEMMA KeptNext ==
  ASSUME NEW packed, NoMark, packed => Removable = {} \/ Cap48 = Cap16 + 1,
         Kept(packed), [Next]_vars, Holding(packed) \/ Intact
  PROVE  Kept(packed)'
<1>1. CASE UNCHANGED vars
  BY <1>1 DEF vars, Kept, WordsOf
<1>2. CASE \E v \in Values : InsertValue(v)
  <2>1. PICK v \in Values : InsertValue(v)
    BY <1>2
  <2>2. Holding(packed) \/ Stored(InsertNode[root][v])
    BY DEF Intact
  <2>. QED
    BY <2>1, <2>2, KeptInsert
<1>3. CASE \E v \in Removable : RemoveValue(v)
  <2>1. PICK v \in Removable : RemoveValue(v)
    BY <1>3
  <2>2. v \in Values
    BY <2>1, TreeAssumption
  <2>3. Holding(packed) \/ Stored(RemoveNode[root][v])
    BY <2>2 DEF Intact
  <2>4. packed => Cap48 = Cap16 + 1
    BY <2>1
  <2>. QED
    BY <2>1, <2>2, <2>3, <2>4, KeptRemove
<1>. QED
  BY <1>1, <1>2, <1>3 DEF Next

\* What the invariant says of iteration and length.
LEMMA KeptMeans ==
  ASSUME NEW packed, Kept(packed)
  PROVE  ValuesInOrder /\ CountExact
<1>1. MaxLength \in 0..MaxLength
  BY BytesAre
<1>. DEFINE found == Below[root]
<1>2. Found(found) /\ ToSet(found) = values
  BY <1>1, WordsAre DEF Kept, ReadsAs, WordsOf
<1>. HIDE DEF found
<1>3. \A i \in 1..Len(found) - 1 : Precedes(found[i], found[i + 1])
  <2>1. Len(found) \in Nat
    BY <1>2, LenProperties DEF Found
  <2>2. \A i \in 1..Len(found) - 1 : i \in 1..Len(found) /\ i + 1 \in 1..Len(found) /\ i < i + 1
    BY <2>1
  <2>3. \A i \in 1..Len(found) - 1 : <<found[i], found[i + 1]>> \in Order
    BY <1>2, <2>2 DEF Found, Chained
  <2>. QED
    BY <2>3 DEF Order
<1>. QED
  BY <1>2, <1>3 DEF ValuesInOrder, CountExact, Kept, found

\* A tree that only grows, and one whose Node48 shrinks with the first child it
\* loses, has no holes, so it is always stored whole: ValuesInOrder holds.
THEOREM PackedTreeInOrder ==
  ASSUME NoMark, Removable = {} \/ Cap48 = Cap16 + 1
  PROVE  Spec => []ValuesInOrder
<1>0. Holding(TRUE)
  BY DEF Holding
<1>1. Init => Kept(TRUE)
  BY KeptInit
<1>2. Kept(TRUE) /\ [Next]_vars => Kept(TRUE)'
  BY <1>0, KeptNext
<1>3. Kept(TRUE) => ValuesInOrder
  BY KeptMeans
<1>. QED
  BY <1>1, <1>2, <1>3, PTL DEF Spec, vars

\* The same trees have an exact length (CountExact).
THEOREM PackedTreeCounts ==
  ASSUME NoMark, Removable = {} \/ Cap48 = Cap16 + 1
  PROVE  Spec => []CountExact
<1>0. Holding(TRUE)
  BY DEF Holding
<1>1. Init => Kept(TRUE)
  BY KeptInit
<1>2. Kept(TRUE) /\ [Next]_vars => Kept(TRUE)'
  BY <1>0, KeptNext
<1>3. Kept(TRUE) => CountExact
  BY KeptMeans
<1>. QED
  BY <1>1, <1>2, <1>3, PTL DEF Spec, vars

-----------------------------------------------------------------------------
(* The shape of the tree: of words, and their longest common prefix. *)

\* How far two sequences agree.
Agreeing(s, t, n) == \A i \in 1..n : i <= Len(s) /\ i <= Len(t) /\ s[i] = t[i]

\* Of two increasing sequences of the same numbers neither goes on earlier.
LEMMA GoesOn ==
  ASSUME NEW s \in Seq(Nat), NEW t \in Seq(Nat), Increasing(s), Increasing(t), ToSet(s) = ToSet(t),
         NEW i \in 1..Len(s), Agreeing(s, t, i - 1)
  PROVE  i <= Len(t) /\ ~(s[i] < t[i])
<1>1. Len(s) \in Nat /\ Len(t) \in Nat /\ i \in Nat /\ i <= Len(s) /\ 1 <= i
  BY LenProperties
<1>2. ToSet(s) = {s[k] : k \in 1..Len(s)} /\ ToSet(t) = {t[k] : k \in 1..Len(t)}
  BY ElementsOf
<1>3. PICK j \in 1..Len(t) : s[i] = t[j]
  BY <1>2
<1>4. (\A k \in 1..Len(s) : s[k] \in Nat) /\ (\A k \in 1..Len(t) : t[k] \in Nat)
  BY ElementOfSeq
<1>5. ~(j < i)
  <2>. SUFFICES ASSUME j < i PROVE FALSE
    OBVIOUS
  <2>1. j \in 1..(i - 1) /\ j \in 1..Len(s)
    BY <1>1
  <2>2. s[j] = t[j]
    BY <2>1 DEF Agreeing
  <2>3. s[j] < s[i]
    BY <2>1 DEF Increasing
  <2>. QED
    BY <1>3, <1>4, <2>1, <2>2, <2>3
<1>6. i <= Len(t) /\ i \in 1..Len(t) /\ i <= j
  BY <1>1, <1>5
<1>7. ~(s[i] < t[i])
  <2>1. CASE i = j
    BY <1>3, <1>4, <2>1
  <2>2. CASE i < j
    <3>1. t[i] < t[j]
      BY <1>6, <2>2 DEF Increasing
    <3>. QED
      BY <1>3, <1>4, <1>6, <3>1
  <2>. QED
    BY <1>1, <1>6, <2>1, <2>2
<1>. QED
  BY <1>6, <1>7

\* There is one increasing sequence of some numbers.
LEMMA OneIncreasing ==
  ASSUME NEW s \in Seq(Nat), NEW t \in Seq(Nat), Increasing(s), Increasing(t), ToSet(s) = ToSet(t)
  PROVE  s = t
<1>1. Len(s) \in Nat /\ Len(t) \in Nat
  BY LenProperties
<1>2. (\A k \in 1..Len(s) : s[k] \in Nat) /\ (\A k \in 1..Len(t) : t[k] \in Nat)
  BY ElementOfSeq
<1>3. \A n \in Nat : (n <= Len(s) \/ n <= Len(t)) => Agreeing(s, t, n)
  <2>. DEFINE Bad == {n \in Nat : (n <= Len(s) \/ n <= Len(t)) /\ ~Agreeing(s, t, n)}
  <2>. SUFFICES ASSUME Bad # {} PROVE FALSE
    OBVIOUS
  <2>1. PICK n \in Bad : n \in Nat /\ \A k \in Bad : n <= k
    <3>1. Bad \subseteq Nat
      OBVIOUS
    <3>. HIDE DEF Bad
    <3>. QED
      BY <3>1, Smallest
  <2>2. n # 0
    BY <2>1 DEF Agreeing
  <2>3. n - 1 \in Nat /\ ~(n <= n - 1) /\ (n - 1 <= Len(s) \/ n - 1 <= Len(t))
    BY <1>1, <2>1, <2>2
  <2>4. Agreeing(s, t, n - 1)
    BY <2>1, <2>3
  <2>5. Agreeing(t, s, n - 1)
    BY <2>4 DEF Agreeing
  <2>6. n \in 1..Len(s) => n <= Len(t) /\ ~(s[n] < t[n])
    BY <2>4, GoesOn
  <2>7. n \in 1..Len(t) => n <= Len(s) /\ ~(t[n] < s[n])
    BY <2>5, GoesOn
  <2>8. n \in 1..Len(s) /\ n \in 1..Len(t) /\ s[n] = t[n]
    BY <1>1, <1>2, <2>1, <2>2, <2>6, <2>7
  <2>9. Agreeing(s, t, n)
    <3>1. \A i \in 1..n : i \in 1..(n - 1) \/ i = n
      BY <2>1
    <3>2. \A i \in 1..(n - 1) : i <= Len(s) /\ i <= Len(t) /\ s[i] = t[i]
      BY <2>4 DEF Agreeing
    <3>3. n <= Len(s) /\ n <= Len(t) /\ s[n] = t[n]
      BY <1>1, <2>8
    <3>. QED
      BY <3>1, <3>2, <3>3, Zenon DEF Agreeing
  <2>. QED
    BY <2>1, <2>9
<1>4. Agreeing(s, t, Len(s)) /\ Agreeing(s, t, Len(t))
  BY <1>1, <1>3
<1>5. Len(s) = Len(t)
  <2>1. Len(t) # 0 => Len(t) <= Len(s)
    <3>1. Len(t) # 0 => Len(t) \in 1..Len(t)
      BY <1>1
    <3>. QED
      BY <1>4, <3>1 DEF Agreeing
  <2>2. Len(s) # 0 => Len(s) <= Len(t)
    <3>1. Len(s) # 0 => Len(s) \in 1..Len(s)
      BY <1>1
    <3>. QED
      BY <1>4, <3>1 DEF Agreeing
  <2>. QED
    BY <1>1, <2>1, <2>2
<1>6. \A i \in 1..Len(s) : s[i] = t[i]
  BY <1>4 DEF Agreeing
<1>. QED
  BY <1>5, <1>6, SeqEqual

\* Ascending is the only increasing sequence of a set.
LEMMA AscendingOnly ==
  ASSUME NEW T, T \subseteq Nat, IsFiniteSet(T), NEW s \in Seq(T), Increasing(s), ToSet(s) = T
  PROVE  s = Ascending(T)
<1>. DEFINE a == Ascending(T)
<1>1. a \in Seq(T) /\ Increasing(a) /\ ToSet(a) = T
  BY AscendingIs
<1>. HIDE DEF a
<1>2. s \in Seq(Nat) /\ a \in Seq(Nat)
  BY <1>1, SeqMonotonic
<1>3. s = a
  BY <1>1, <1>2, OneIncreasing
<1>. QED
  BY <1>3 DEF a

\* What is left of a word after n bytes.
LEMMA RestIs ==
  ASSUME NEW S, NEW s \in Seq(S), NEW n \in 0..Len(s)
  PROVE  /\ From(s, n + 1) = <<>> <=> n = Len(s)
         /\ n < Len(s) => /\ Head(From(s, n + 1)) = s[n + 1] /\ s[n + 1] \in S
                          /\ Tail(From(s, n + 1)) = From(s, n + 2)
                          /\ From(s, n + 2) \in Seq(S)
                          /\ Len(From(s, n + 2)) = Len(s) - (n + 1)
<1>0. Len(s) \in Nat /\ n \in Nat /\ n <= Len(s)
  BY LenProperties
<1>1. CASE n = Len(s)
  <2>1. Len(s) < n + 1 /\ ~(n < Len(s))
    BY <1>0, <1>1
  <2>2. From(s, n + 1) = <<>>
    BY <1>0, <2>1, SubSeqEmpty DEF From
  <2>. QED
    BY <1>1, <2>1, <2>2
<1>2. CASE n # Len(s)
  <2>1. n < Len(s) /\ n + 1 \in 1..Len(s) /\ Len(s) \in (n + 1)..Len(s) /\ (n + 1) + 1 = n + 2
    BY <1>0, <1>2
  <2>2. /\ s[n + 1] \in S /\ From(s, n + 2) \in Seq(S)
        /\ Len(From(s, n + 2)) = Len(s) - (n + 1)
    BY <1>0, <2>1, PathSplits
  <2>3. Head(From(s, n + 1)) = s[n + 1] /\ Tail(From(s, n + 1)) = From(s, n + 2)
    BY <2>1, HeadTailOfSubSeq DEF From
  <2>4. From(s, n + 1) # <<>>
    <3>1. From(s, n + 1) = <<s[n + 1]>> \o SubSeq(s, n + 2, Len(s))
      BY <2>1, SubSeqRecursiveFirst DEF From
    <3>2. <<s[n + 1]>> \in Seq(S) /\ SubSeq(s, n + 2, Len(s)) \in Seq(S)
      BY <2>2 DEF From
    <3>3. <<s[n + 1]>> # <<>>
      OBVIOUS
    <3>. QED
      BY <3>1, <3>2, <3>3, ConcatEqualIffEmpty
  <2>. QED
    BY <1>2, <2>2, <2>3, <2>4
<1>. QED
  BY <1>1, <1>2

\* The beginning and the rest of a word that goes through a byte.
Parts(w, p, b, t) ==
  /\ IsPrefix(p, w) /\ w[Len(p) + 1] = b /\ Len(w) > Len(p)
  /\ From(w, Len(p) + 1) # <<>>
  /\ Head(From(w, Len(p) + 1)) = b /\ Tail(From(w, Len(p) + 1)) = t

\* A path has these parts.
LEMMA PartsAre ==
  ASSUME NEW S, NEW p \in Seq(S), NEW b \in S, NEW t \in Seq(S)
  PROVE  Parts(Path(p, b, t), p, b, t)
<1>. DEFINE w == Path(p, b, t)
            n == Len(p)
            q == SubSeq(w, 1, n)
            u == From(w, n + 2)
<1>0. w \in Seq(S) /\ IsPath(w, p, b, t)
  BY PathIs
<1>. HIDE DEF w
<1>1. /\ n \in Nat /\ Len(t) \in Nat /\ Len(w) = n + 1 + Len(t) /\ n < Len(w)
      /\ \A i \in 1..n : w[i] = p[i]
      /\ w[n + 1] = b
  <2>1. n \in Nat /\ Len(t) \in Nat
    BY LenProperties
  <2>2. /\ Len(w) = n + 1 + Len(t)
        /\ \A i \in 1..(n + 1 + Len(t)) :
             w[i] = IF i <= n THEN p[i] ELSE IF i = n + 1 THEN b ELSE t[i - (n + 1)]
    BY <1>0, Zenon DEF IsPath
  <2>. HIDE DEF n
  <2>. QED
    BY <2>1, <2>2
<1>2. /\ q \in Seq(S) /\ Len(q) = n /\ u \in Seq(S) /\ w[n + 1] \in S
      /\ w = Path(q, w[n + 1], u)
  BY <1>0, <1>1, PathSplits
<1>3. q = p
  <2>1. \A i \in 1..n : i \in 1 .. n - 1 + 1 /\ 1 + i - 1 = i /\ w[i] \in S
    <3>1. \A i \in 1..n : p[i] \in S
      BY ElementOfSeq
    <3>. QED
      BY <1>1, <3>1
  <2>2. \A i \in 1 .. n - 1 + 1 : q[i] = w[1 + i - 1]
    BY <1>0, <1>1, <2>1, SubSeqProperties
  <2>. HIDE DEF q
  <2>3. \A i \in 1..n : q[i] = p[i]
    BY <1>1, <2>1, <2>2
  <2>. QED
    BY <1>2, <2>3, SeqEqual
<1>. HIDE DEF q, u
<1>4. u = t
  <2>1. Path(p, b, u) = Path(p, b, t)
    BY <1>1, <1>2, <1>3 DEF w
  <2>. QED
    BY <1>2, <2>1, PathInjective
<1>5. IsPrefix(p, w)
  <2>1. SubSeq(p, 1, n) = p
    BY SubSeqFull
  <2>. QED
    BY <1>1, <1>3, <2>1 DEF IsPrefix, q
<1>6. /\ From(w, n + 1) # <<>> /\ Head(From(w, n + 1)) = w[n + 1]
      /\ Tail(From(w, n + 1)) = From(w, n + 2)
  <2>1. n \in 0..Len(w) /\ n # Len(w)
    BY <1>1
  <2>. QED
    BY <1>0, <1>1, <2>1, RestIs
<1>. QED
  BY <1>1, <1>4, <1>5, <1>6 DEF Parts, w, u

\* The first m elements of a sequence.
LEMMA BeginningIs ==
  ASSUME NEW S, NEW s \in Seq(S), NEW m \in 0..Len(s)
  PROVE  /\ SubSeq(s, 1, m) \in Seq(S) /\ Len(SubSeq(s, 1, m)) = m
         /\ \A i \in 1..m : SubSeq(s, 1, m)[i] = s[i]
<1>. DEFINE q == SubSeq(s, 1, m)
<1>0. Len(s) \in Nat /\ m \in Nat /\ m <= Len(s) /\ \A i \in 1..Len(s) : s[i] \in S
  BY LenProperties, ElementOfSeq
<1>1. \A i \in 1..m : s[i] \in S /\ i \in 1 .. m - 1 + 1 /\ 1 + i - 1 = i
  BY <1>0
<1>2. /\ q \in Seq(S) /\ Len(q) = (IF 1 <= m THEN m - 1 + 1 ELSE 0)
      /\ \A i \in 1 .. m - 1 + 1 : q[i] = s[1 + i - 1]
  BY <1>0, <1>1, SubSeqProperties
<1>. HIDE DEF q
<1>3. Len(q) = m
  BY <1>0, <1>2
<1>4. \A i \in 1..m : q[i] = s[i]
  BY <1>1, <1>2
<1>. QED
  BY <1>2, <1>3, <1>4 DEF q

\* IsPrefix, element by element.
LEMMA PrefixIs ==
  ASSUME NEW S, NEW s \in Seq(S), NEW t \in Seq(S)
  PROVE  IsPrefix(s, t) <=> Len(s) <= Len(t) /\ \A i \in 1..Len(s) : s[i] = t[i]
<1>. DEFINE n == Len(s)
<1>0. n \in Nat /\ Len(t) \in Nat
  BY LenProperties
<1>1. SubSeq(s, 1, n) = s
  BY SubSeqFull
<1>2. CASE n <= Len(t)
  <2>. DEFINE q == SubSeq(t, 1, n)
  <2>1. q \in Seq(S) /\ Len(q) = n /\ \A i \in 1..n : q[i] = t[i]
    <3>1. n \in 0..Len(t)
      BY <1>0, <1>2
    <3>. QED
      BY <3>1, BeginningIs
  <2>. HIDE DEF q
  <2>2. s = q <=> \A i \in 1..n : s[i] = t[i]
    <3>1. (\A i \in 1..n : s[i] = t[i]) => (\A i \in 1..n : s[i] = q[i])
      BY <2>1
    <3>2. (\A i \in 1..n : s[i] = t[i]) => s = q
      BY <2>1, <3>1, SeqEqual
    <3>. QED
      BY <2>1, <3>2
  <2>3. IsPrefix(s, t) <=> s = q
    BY <1>1, <1>2, Zenon DEF IsPrefix, q
  <2>. QED
    BY <1>2, <2>2, <2>3
<1>3. CASE ~(n <= Len(t))
  BY <1>3 DEF IsPrefix
<1>. QED
  BY <1>2, <1>3

\* The common prefixes of some words.
LEMMA CommonPrefixesAre ==
  ASSUME NEW S, NEW W, W \subseteq Seq(S), W # {}
  PROVE  CommonPrefixes(W) = {p \in Seq(S) : \A w \in W : IsPrefix(p, w)}
<1>1. ASSUME NEW p \in CommonPrefixes(W)
      PROVE  p \in Seq(S) /\ \A w \in W : IsPrefix(p, w)
  <2>1. PICK w \in W : p \in Prefixes(w)
    BY <1>1 DEF CommonPrefixes
  <2>2. PICK m \in 0..Len(w) : p = SubSeq(w, 1, m)
    BY <2>1 DEF Prefixes
  <2>3. w \in Seq(S)
    OBVIOUS
  <2>4. p \in Seq(S)
    BY <2>2, <2>3, BeginningIs
  <2>. QED
    BY <1>1, <2>4 DEF CommonPrefixes
<1>2. ASSUME NEW p \in Seq(S), \A w \in W : IsPrefix(p, w)
      PROVE  p \in CommonPrefixes(W)
  <2>1. PICK w \in W : TRUE
    OBVIOUS
  <2>2. Len(p) \in Nat /\ Len(w) \in Nat /\ SubSeq(p, 1, Len(p)) = p
    BY LenProperties, SubSeqFull
  <2>3. Len(p) <= Len(w) /\ p = SubSeq(w, 1, Len(p))
    BY <1>2, <2>2 DEF IsPrefix
  <2>4. Len(p) \in 0..Len(w)
    BY <2>2, <2>3
  <2>5. p \in Prefixes(w)
    BY <2>3, <2>4 DEF Prefixes
  <2>. QED
    BY <1>2, <2>5 DEF CommonPrefixes
<1>. QED
  BY <1>1, <1>2

\* What LongestCommonPrefix finds.
IsLongest(S, W, p) ==
  /\ p \in Seq(S) /\ \A w \in W : IsPrefix(p, w)
  /\ \A q \in Seq(S) : (\A w \in W : IsPrefix(q, w)) => Len(q) <= Len(p)

\* LongestCommonPrefix yields a common prefix, and none is longer.
LEMMA LongestIs ==
  ASSUME NEW S, NEW W, W \subseteq Seq(S), W # {}
  PROVE  IsLongest(S, W, LongestCommonPrefix(W))
<1>. DEFINE C == CommonPrefixes(W)
            L == {Len(p) : p \in C}
            m == Max(L)
<1>1. C = {p \in Seq(S) : \A w \in W : IsPrefix(p, w)}
  BY CommonPrefixesAre
<1>2. PICK v \in W : v \in Seq(S)
  OBVIOUS
<1>3. Len(v) \in Nat
  BY <1>2, LenProperties
<1>. HIDE DEF C
<1>4. L \subseteq 0..Len(v)
  <2>1. \A p \in C : Len(p) \in Nat /\ Len(p) <= Len(v)
    BY <1>1, <1>2, LenProperties DEF IsPrefix
  <2>. QED
    BY <1>3, <2>1
<1>5. L # {}
  <2>1. PICK e \in Seq(S) : Len(e) = 0
    BY EmptySeq
  <2>2. \A w \in W : IsPrefix(e, w)
    <3>. TAKE w \in W
    <3>1. Len(w) \in Nat /\ w \in Seq(S)
      BY LenProperties
    <3>2. Len(e) <= Len(w) /\ \A i \in 1..Len(e) : e[i] = w[i]
      BY <2>1, <3>1
    <3>. QED
      BY <3>1, <3>2, PrefixIs
  <2>3. e \in C
    BY <1>1, <2>1, <2>2
  <2>. QED
    BY <2>3
<1>6. m \in L /\ \A x \in L : x <= m
  <2>. HIDE DEF L
  <2>. QED
    BY <1>3, <1>4, <1>5, GreatestIs
<1>7. \E p \in C : \A q \in C : Len(q) <= Len(p)
  <2>1. PICK p \in C : m = Len(p)
    BY <1>6
  <2>2. \A q \in C : Len(q) <= m
    BY <1>6
  <2>. QED
    BY <2>1, <2>2
<1>. DEFINE l == LongestCommonPrefix(W)
<1>8. l \in C /\ \A q \in C : Len(q) <= Len(l)
  <2>1. l = CHOOSE p \in C : \A q \in C : Len(q) <= Len(p)
    BY Zenon DEF LongestCommonPrefix, C
  <2>. QED
    BY <1>7, <2>1, Zenon
<1>. HIDE DEF l
<1>9. IsLongest(S, W, l)
  BY <1>1, <1>8 DEF IsLongest
<1>. QED
  BY <1>9 DEF l

\* A common prefix is the longest if it is one of the words itself, or two of
\* them differ where it ends.
LEMMA LongestFound ==
  ASSUME NEW S, NEW W, W \subseteq Seq(S), NEW p \in Seq(S), \A w \in W : IsPrefix(p, w),
         \/ p \in W
         \/ \E v, w \in W : /\ Len(p) < Len(v) /\ Len(p) < Len(w)
                            /\ v[Len(p) + 1] # w[Len(p) + 1]
  PROVE  LongestCommonPrefix(W) = p
<1>. DEFINE l == LongestCommonPrefix(W)
<1>0. W # {}
  OBVIOUS
<1>1. IsLongest(S, W, l)
  BY <1>0, LongestIs
<1>. HIDE DEF l
<1>2. l \in Seq(S) /\ Len(p) <= Len(l) /\ \A w \in W : IsPrefix(l, w)
  BY <1>1 DEF IsLongest
<1>3. Len(p) \in Nat /\ Len(l) \in Nat
  BY <1>2, LenProperties
<1>4. \A w \in W : /\ Len(l) <= Len(w) /\ \A i \in 1..Len(l) : l[i] = w[i]
                   /\ \A i \in 1..Len(p) : p[i] = w[i]
  BY <1>2, PrefixIs
<1>5. Len(l) <= Len(p)
  <2>1. CASE p \in W
    BY <1>4, <2>1
  <2>2. CASE p \notin W
    <3>1. PICK v \in W, w \in W : v[Len(p) + 1] # w[Len(p) + 1]
      BY <2>2
    <3>2. Len(p) + 1 \in 1..Len(l) => l[Len(p) + 1] = v[Len(p) + 1] /\ l[Len(p) + 1] = w[Len(p) + 1]
      BY <1>4
    <3>3. ~(Len(p) + 1 \in 1..Len(l))
      BY <3>1, <3>2
    <3>. QED
      BY <1>3, <3>3
  <2>. QED
    BY <2>1, <2>2
<1>6. Len(l) = Len(p)
  BY <1>2, <1>3, <1>5
<1>7. \A i \in 1..Len(l) : l[i] = p[i]
  BY <1>0, <1>4, <1>6
<1>8. l = p
  BY <1>2, <1>6, <1>7, SeqEqual
<1>. QED
  BY <1>8 DEF l

-----------------------------------------------------------------------------
(* The recursive functions of the shape unfold. *)

\* What is left of a word past its longest common prefix with others and a byte.
LEMMA PastShort ==
  ASSUME NEW m \in Nat, NEW set \in SUBSET Short(m), set # {}, NEW b \in Heads(set)
  PROVE  m # 0 /\ Past(set, b) \in SUBSET Short(m - 1)
<1>. DEFINE p == LongestCommonPrefix(set)
            n == Len(p)
<1>1. set \subseteq Seq(Bytes) /\ \A s \in set : Len(s) <= m
  BY DEF Short
<1>2. IsLongest(Bytes, set, p)
  BY <1>1, LongestIs
<1>. HIDE DEF p
<1>3. p \in Seq(Bytes) /\ n \in Nat /\ \A s \in set : Len(s) \in Nat /\ n <= Len(s)
  BY <1>1, <1>2, LenProperties DEF IsLongest, IsPrefix
<1>. HIDE DEF n
<1>4. \A s \in set : From(s, n + 1) # <<>> =>
         m # 0 /\ Tail(From(s, n + 1)) \in Short(m - 1)
  <2>. TAKE s \in set
  <2>. HAVE From(s, n + 1) # <<>>
  <2>1. s \in Seq(Bytes) /\ Len(s) \in Nat /\ n <= Len(s) /\ Len(s) <= m /\ n \in 0..Len(s)
    BY <1>1, <1>3
  <2>2. n # Len(s) /\ n < Len(s)
    BY <1>3, <2>1, RestIs
  <2>3. /\ Tail(From(s, n + 1)) = From(s, n + 2) /\ From(s, n + 2) \in Seq(Bytes)
        /\ Len(From(s, n + 2)) = Len(s) - (n + 1)
    BY <2>1, <2>2, RestIs
  <2>4. m # 0 /\ Len(s) - (n + 1) <= m - 1
    BY <1>3, <2>1, <2>2
  <2>. QED
    BY <2>3, <2>4 DEF Short
<1>5. Rests(set) = {From(s, n + 1) : s \in set}
  BY Zenon DEF Rests, p, n
<1>6. \A r \in Rests(set) \ {<<>>} : m # 0 /\ Tail(r) \in Short(m - 1)
  BY <1>4, <1>5
<1>7. m # 0
  <2>1. Rests(set) \ {<<>>} # {}
    BY DEF Heads
  <2>. QED
    BY <1>6, <2>1
<1>. QED
  BY <1>6, <1>7 DEF Past

\* CanonicalOver reads its function at shorter words only.
LEMMA CanonicalLocal ==
  ASSUME NEW m \in Nat, NEW set \in SUBSET Short(m), NEW f, NEW g,
         m # 0 => \A s \in SUBSET Short(m - 1) : f[s] = g[s]
  PROVE  CanonicalOver(f, set) = CanonicalOver(g, set)
<1>1. CASE set = {}
  BY <1>1, Zenon DEF CanonicalOver
<1>2. CASE set # {}
  <2>1. \A b \in Heads(set) : f[Past(set, b)] = g[Past(set, b)]
    BY <1>2, PastShort
  <2>2. [b \in Heads(set) |-> f[Past(set, b)]] = [b \in Heads(set) |-> g[Past(set, b)]]
    BY <2>1, Zenon
  <2>3. Regular(LongestCommonPrefix(set), <<>> \in Rests(set), [b \in Heads(set) |-> f[Past(set, b)]])
          = Regular(LongestCommonPrefix(set), <<>> \in Rests(set), [b \in Heads(set) |-> g[Past(set, b)]])
    BY <2>2, Zenon
  <2>4. CASE \E s \in set : set = {s}
    BY <1>2, <2>4 DEF CanonicalOver
  <2>5. CASE ~\E s \in set : set = {s}
    BY <1>2, <2>3, <2>5 DEF CanonicalOver
  <2>. QED
    BY <2>4, <2>5
<1>. QED
  BY <1>1, <1>2

\* Shorter words are among the longer ones.
LEMMA ShortGrows == \A m \in Nat : m # 0 => m - 1 \in Nat /\ Short(m - 1) \subseteq Short(m)
<1>. SUFFICES ASSUME NEW m \in Nat, m # 0, NEW s \in Short(m - 1)
              PROVE  s \in Short(m)
  OBVIOUS
<1>1. s \in Seq(Bytes) /\ Len(s) \in Nat /\ Len(s) <= m - 1
  BY LenProperties DEF Short
<1>. QED
  BY <1>1 DEF Short

\* Canonical is what its recursive definition says.
LEMMA CanonicalUnfolds ==
  \A set \in SUBSET Short(MaxLength) : Canonical[set] = CanonicalOver(Canonical, set)
<1>0. MaxLength \in Nat
  BY BytesAre
<1>. DEFINE Is(m, f) == f = [set \in SUBSET Short(m) |-> CanonicalOver(f, set)]
            Missing == {m \in 0..MaxLength : ~\E f : Is(m, f)}
<1>1. Missing = {}
  <2>. SUFFICES ASSUME Missing # {} PROVE FALSE
    OBVIOUS
  <2>1. PICK m \in Missing : m \in Nat /\ \A k \in Missing : m <= k
    <3>1. Missing \subseteq Nat
      BY <1>0
    <3>. HIDE DEF Missing
    <3>. QED
      BY <3>1, Smallest
  <2>2. m \in 0..MaxLength /\ ~\E f : Is(m, f)
    BY <2>1
  <2>. HIDE DEF Is
  <2>3. PICK f : m # 0 => Is(m - 1, f)
    <3>1. CASE m = 0
      BY <3>1
    <3>2. CASE m # 0
      <4>1. m - 1 \in 0..MaxLength /\ ~(m <= m - 1)
        BY <1>0, <2>2, <3>2
      <4>2. m - 1 \notin Missing
        BY <2>1, <4>1
      <4>. QED
        BY <4>1, <4>2
    <3>. QED
      BY <3>1, <3>2
  <2>. DEFINE g == [set \in SUBSET Short(m) |-> CanonicalOver(f, set)]
  <2>4. m # 0 => \A s \in SUBSET Short(m - 1) : g[s] = f[s]
    <3>. SUFFICES ASSUME m # 0, NEW s \in SUBSET Short(m - 1) PROVE g[s] = f[s]
      BY Zenon
    <3>1. s \in SUBSET Short(m)
      BY <2>1, ShortGrows
    <3>2. f = [set \in SUBSET Short(m - 1) |-> CanonicalOver(f, set)]
      BY <2>3, Zenon DEF Is
    <3>3. f[s] = CanonicalOver(f, s)
      BY <3>2, Zenon
    <3>. QED
      BY <3>1, <3>3, Zenon
  <2>5. \A set \in SUBSET Short(m) : CanonicalOver(g, set) = CanonicalOver(f, set)
    <3>. HIDE DEF g
    <3>. QED
      BY <2>1, <2>4, CanonicalLocal
  <2>6. g = [set \in SUBSET Short(m) |-> CanonicalOver(g, set)]
    BY <2>5, Zenon
  <2>7. Is(m, g)
    BY <2>6, Zenon DEF Is
  <2>. QED
    BY <2>2, <2>7
<1>2. \E f : Is(MaxLength, f)
  <2>1. MaxLength \in 0..MaxLength
    BY <1>0
  <2>. HIDE DEF Is
  <2>. QED
    BY <1>1, <2>1
<1>3. Canonical = CHOOSE f : Is(MaxLength, f)
  BY Zenon DEF Canonical
<1>4. Is(MaxLength, Canonical)
  <2>. HIDE DEF Is
  <2>. QED
    BY <1>2, <1>3, Zenon
<1>. QED
  BY <1>4, Zenon

\* TidiedNode reads its function at the children only.
LEMMA TidiedLocal ==
  ASSUME NEW h \in 0..Depth, NEW node \in Level[h], NEW f, NEW g, Agree(f, g, h)
  PROVE  TidiedNode(f, node) = TidiedNode(g, node)
<1>1. CASE node.kind \in {"Empty", "Leaf"}
  BY <1>1, Zenon DEF TidiedNode
<1>2. CASE h # 0 /\ node \in Inner(Level[h - 1])
  <2>1. \A i \in DOMAIN node.ch : node.ch[i] \in Level[h - 1]
    <3>1. CASE IsLinear(node)
      BY <1>2, <3>1, InnerIs
    <3>2. CASE ~IsLinear(node)
      <4>1. node.ch \in [Slots -> Level[h - 1]] \/ node.ch \in [Bytes -> Level[h - 1]]
        BY <1>2, <3>2 DEF Inner, IsLinear
      <4>. QED
        BY <4>1
    <3>. QED
      BY <3>1, <3>2
  <2>2. \A i \in DOMAIN node.ch : f[node.ch[i]] = g[node.ch[i]]
    BY <1>2, <2>1 DEF Agree
  <2>3. [i \in DOMAIN node.ch |-> f[node.ch[i]]] = [i \in DOMAIN node.ch |-> g[node.ch[i]]]
    BY <2>2, Zenon
  <2>. QED
    BY <2>3, Zenon DEF TidiedNode
<1>. QED
  BY <1>1, <1>2, LevelCases

\* Tidied is what its recursive definition says.
LEMMA TidiedUnfolds == \A node \in Nodes : Tidied[node] = TidiedNode(Tidied, node)
<1>0. Depth \in Nat /\ Nodes = Level[Depth]
  BY BytesAre DEF Depth, Nodes
<1>. DEFINE Is(m, f) == f = [node \in Level[m] |-> TidiedNode(f, node)]
            Missing == {m \in 0..Depth : ~\E f : Is(m, f)}
<1>1. Missing = {}
  <2>. SUFFICES ASSUME Missing # {} PROVE FALSE
    OBVIOUS
  <2>1. PICK m \in Missing : m \in Nat /\ \A k \in Missing : m <= k
    <3>1. Missing \subseteq Nat
      BY <1>0
    <3>. HIDE DEF Missing
    <3>. QED
      BY <3>1, Smallest
  <2>2. m \in 0..Depth /\ ~\E f : Is(m, f)
    BY <2>1
  <2>. HIDE DEF Is
  <2>3. PICK f : m # 0 => Is(m - 1, f)
    <3>1. CASE m = 0
      BY <3>1
    <3>2. CASE m # 0
      <4>1. m - 1 \in 0..Depth /\ ~(m <= m - 1)
        BY <1>0, <2>2, <3>2
      <4>2. m - 1 \notin Missing
        BY <2>1, <4>1
      <4>. QED
        BY <4>1, <4>2
    <3>. QED
      BY <3>1, <3>2
  <2>. DEFINE g == [node \in Level[m] |-> TidiedNode(f, node)]
  <2>4. Agree(g, f, m)
    <3>. SUFFICES ASSUME m # 0, NEW c \in Level[m - 1] PROVE g[c] = f[c]
      BY DEF Agree
    <3>1. c \in Level[m]
      <4>1. m - 1 \in 0..m
        BY <2>1
      <4>. QED
        BY <2>2, <4>1, LevelsGrow
    <3>2. f = [node \in Level[m - 1] |-> TidiedNode(f, node)]
      BY <2>3, Zenon DEF Is
    <3>3. f[c] = TidiedNode(f, c)
      BY <3>2, Zenon
    <3>. QED
      BY <3>1, <3>3, Zenon
  <2>5. \A node \in Level[m] : TidiedNode(g, node) = TidiedNode(f, node)
    <3>. HIDE DEF g
    <3>. QED
      BY <2>2, <2>4, TidiedLocal
  <2>6. g = [node \in Level[m] |-> TidiedNode(g, node)]
    BY <2>5, Zenon
  <2>7. Is(m, g)
    BY <2>6, Zenon DEF Is
  <2>. QED
    BY <2>2, <2>7
<1>2. \E f : Is(Depth, f)
  <2>1. Depth \in 0..Depth
    BY <1>0
  <2>. HIDE DEF Is
  <2>. QED
    BY <1>1, <2>1
<1>3. Tidied = CHOOSE f : Is(Depth, f)
  BY Zenon DEF Tidied, Nodes, Depth
<1>4. Is(Depth, Tidied)
  <2>. HIDE DEF Is
  <2>. QED
    BY <1>2, <1>3, Zenon
<1>. QED
  BY <1>0, <1>4, Zenon

-----------------------------------------------------------------------------
(* What the words of a node tell of it. *)

\* A node's words tell its prefix, its end and its children.
TellsApart(node) ==
  LET words == Holds(node)
  IN /\ words # {} /\ ~\E w \in words : words = {w}
     /\ LongestCommonPrefix(words) = node.prefix
     /\ <<>> \in Rests(words) <=> node.end
     /\ Heads(words) = ChildBytes(node)
     /\ \A b \in ChildBytes(node) : Past(words, b) = Beyond(node, b)

\* Two bytes of a set that has more than one.
LEMMA TwoOf ==
  ASSUME NEW T, IsFiniteSet(T), ~(Cardinality(T) <= 1)
  PROVE  \E b, c \in T : b # c
<1>. SUFFICES ASSUME \A b, c \in T : b = c PROVE FALSE
  OBVIOUS
<1>1. CASE T = {}
  BY <1>1, FS_EmptySet
<1>2. CASE T # {}
  <2>1. PICK b \in T : T = {b}
    BY <1>2
  <2>2. Cardinality(T) = 1
    BY <2>1, FS_Singleton
  <2>. QED
    BY <2>2
<1>. QED
  BY <1>1, <1>2

\* The words of a shapely node tell it: two children, or one and the value
\* that ends there, leave no longer common prefix.
LEMMA NodeTells ==
  ASSUME NEW X, Empty \notin X, NEW node, Sound(node, X), Shapely(node), Size(node) # 0,
         BeyondClean(node), \A b \in ChildBytes(node) : Beyond(node, b) # {}
  PROVE  TellsApart(node)
<1>. DEFINE W == Holds(node)
            p == node.prefix
            U == ChildBytes(node)
            n == Len(p)
<1>0. /\ p \in Seq(Clean) /\ U \subseteq Clean /\ IsFiniteSet(U) /\ Size(node) = Cardinality(U)
      /\ node.end \in BOOLEAN
  BY SoundIs
<1>1. \A b : /\ Beyond(node, b) \subseteq Seq(Clean)
             /\ Beyond(node, b) # {} <=> b \in U
  BY DEF BeyondClean, Beyond, At
<1>2. \A b \in U : \A t \in Beyond(node, b) :
        Path(p, b, t) \in Seq(Clean) /\ Path(p, b, t) # p /\ Parts(Path(p, b, t), p, b, t)
  BY <1>0, <1>1, PathLonger, PartsAre
<1>3. \A w : w \in W <=> w \in Seq(Clean) /\ (\/ node.end /\ w = p
                                             \/ \E b \in Clean : \E t \in Beyond(node, b) : w = Path(p, b, t))
  BY HoldsIs
<1>. HIDE DEF W, p, U
<1>4. \A w \in W : /\ w \in Seq(Clean)
                   /\ \/ node.end /\ w = p
                      \/ \E b \in U : \E t \in Beyond(node, b) : w = Path(p, b, t)
  BY <1>1, <1>3
<1>5. node.end => p \in W
  BY <1>0, <1>3
<1>6. \A b \in U : \A t \in Beyond(node, b) : Path(p, b, t) \in W
  BY <1>0, <1>1, <1>2, <1>3
<1>7. /\ U # {}
      /\ ~node.end => \E b, c \in U : b # c
  <2>1. U # {}
    BY <1>0, FS_EmptySet
  <2>2. ~node.end => ~(Cardinality(U) <= 1)
    BY <1>0 DEF Shapely
  <2>. QED
    BY <1>0, <2>1, <2>2, TwoOf
<1>8. n \in Nat /\ n \in 0..n /\ From(p, n + 1) = <<>> /\ IsPrefix(p, p)
  <2>1. n \in Nat /\ n \in 0..n
    BY <1>0, LenProperties
  <2>2. From(p, n + 1) = <<>>
    BY <1>0, <2>1, RestIs
  <2>3. IsPrefix(p, p)
    BY <2>1 DEF IsPrefix
  <2>. QED
    BY <2>1, <2>2, <2>3
<1>9. LongestCommonPrefix(W) = p
  <2>1. W \subseteq Seq(Clean)
    BY <1>4
  <2>2. \A w \in W : IsPrefix(p, w)
    BY <1>2, <1>4, <1>8 DEF Parts
  <2>3. \/ p \in W
        \/ \E v, w \in W : /\ Len(p) < Len(v) /\ Len(p) < Len(w)
                           /\ v[Len(p) + 1] # w[Len(p) + 1]
    <3>1. CASE node.end
      BY <1>5, <3>1
    <3>2. CASE ~node.end
      <4>1. PICK b \in U, c \in U : b # c
        BY <1>7, <3>2
      <4>2. PICK t \in Beyond(node, b) : TRUE
        BY <1>1
      <4>3. PICK u \in Beyond(node, c) : TRUE
        BY <1>1
      <4>4. /\ Path(p, b, t) \in W /\ Parts(Path(p, b, t), p, b, t)
            /\ Path(p, c, u) \in W /\ Parts(Path(p, c, u), p, c, u)
        BY <1>2, <1>6
      <4>5. /\ Len(Path(p, b, t)) > Len(p) /\ Path(p, b, t)[Len(p) + 1] = b
            /\ Len(Path(p, c, u)) > Len(p) /\ Path(p, c, u)[Len(p) + 1] = c
        BY <4>4, Zenon DEF Parts
      <4>6. Len(p) < Len(Path(p, b, t)) /\ Len(p) < Len(Path(p, c, u))
        BY <4>5
      <4>. QED
        BY <4>1, <4>4, <4>5, <4>6, Zenon
    <3>. QED
      BY <3>1, <3>2
  <2>. QED
    BY <1>0, <2>1, <2>2, <2>3, LongestFound
<1>10. Rests(W) = {From(w, n + 1) : w \in W}
  BY <1>9 DEF Rests
<1>11. \A b \in U : \A t \in Beyond(node, b) :
         /\ From(Path(p, b, t), n + 1) # <<>>
         /\ Head(From(Path(p, b, t), n + 1)) = b /\ Tail(From(Path(p, b, t), n + 1)) = t
         /\ From(Path(p, b, t), n + 1) \in Rests(W)
  BY <1>2, <1>6, <1>10 DEF Parts
<1>12. \A r \in Rests(W) : \/ node.end /\ r = <<>>
                           \/ \E b \in U : \E t \in Beyond(node, b) : r = From(Path(p, b, t), n + 1)
  BY <1>4, <1>8, <1>10
<1>13. <<>> \in Rests(W) <=> node.end
  <2>1. node.end => <<>> \in Rests(W)
    BY <1>5, <1>8, <1>10
  <2>. QED
    BY <1>11, <1>12, <2>1
<1>14. Heads(W) = U
  <2>1. \A r \in Rests(W) \ {<<>>} : Head(r) \in U
    BY <1>11, <1>12
  <2>2. \A b \in U : \E r \in Rests(W) \ {<<>>} : Head(r) = b
    BY <1>1, <1>11
  <2>. QED
    BY <2>1, <2>2 DEF Heads
<1>15. ASSUME NEW b \in U PROVE Past(W, b) = Beyond(node, b)
  <2>1. \A r \in Rests(W) \ {<<>>} : Head(r) = b => Tail(r) \in Beyond(node, b)
    <3>. SUFFICES ASSUME NEW r \in Rests(W), r # <<>>, Head(r) = b
                  PROVE  Tail(r) \in Beyond(node, b)
      OBVIOUS
    <3>1. PICK c \in U : \E t \in Beyond(node, c) : r = From(Path(p, c, t), n + 1)
      BY <1>12
    <3>2. PICK t \in Beyond(node, c) : r = From(Path(p, c, t), n + 1)
      BY <3>1
    <3>3. Head(r) = c /\ Tail(r) = t
      BY <1>11, <3>2, Zenon
    <3>. QED
      BY <3>3
  <2>2. \A t \in Beyond(node, b) : \E r \in Rests(W) \ {<<>>} : Head(r) = b /\ Tail(r) = t
    BY <1>11
  <2>. QED
    BY <2>1, <2>2 DEF Past
<1>16. W # {} /\ ~\E w \in W : W = {w}
  <2>1. PICK b \in U : TRUE
    BY <1>7
  <2>2. PICK t \in Beyond(node, b) : TRUE
    BY <1>1
  <2>3. Path(p, b, t) \in W /\ Path(p, b, t) # p
    BY <1>2, <1>6
  <2>4. CASE node.end
    BY <1>5, <2>3, <2>4
  <2>5. CASE ~node.end
    <3>1. PICK c \in U : c # b
      BY <1>7, <2>5
    <3>2. PICK u \in Beyond(node, c) : TRUE
      BY <1>1
    <3>3. Path(p, c, u) \in W /\ Path(p, c, u) # Path(p, b, t)
      BY <1>6, <1>11, <3>1
    <3>. QED
      BY <2>3, <3>3
  <2>. QED
    BY <2>4, <2>5
<1>. QED
  BY <1>9, <1>13, <1>14, <1>15, <1>16 DEF TellsApart, W, p, U

\* A node without children holds the word that ends at it.
LEMMA ChildlessHolds ==
  ASSUME NEW X, Empty \notin X, NEW node, Sound(node, X), Shapely(node), Size(node) = 0
  PROVE  Holds(node) = {node.prefix}
<1>1. /\ node.prefix \in Seq(Clean) /\ IsFiniteSet(ChildBytes(node))
      /\ Size(node) = Cardinality(ChildBytes(node))
  BY SoundIs
<1>2. ChildBytes(node) = {}
  BY <1>1, FS_EmptySet
<1>3. node.end
  BY DEF Shapely
<1>4. \A b : Beyond(node, b) = {}
  BY <1>2 DEF Beyond, At
<1>5. \A w : w \in Holds(node) <=> w = node.prefix
  BY <1>1, <1>3, <1>4, HoldsIs
<1>. QED
  BY <1>5

\* No node that fits stands for nothing, but Empty.
LEMMA FitHolds ==
  ASSUME NEW packed
  PROVE  \A k \in 0..MaxLength : \A node \in Fit(packed)[k] : node # Empty => WordsOf(node) # {}
<1>0. MaxLength \in Nat
  BY BytesAre
<1>. DEFINE Good(k) == \A node \in Fit(packed)[k] : node # Empty => WordsOf(node) # {}
            Bad == {k \in 0..MaxLength : ~Good(k)}
<1>. SUFFICES ASSUME Bad # {} PROVE FALSE
  OBVIOUS
<1>1. PICK k \in Bad : k \in Nat /\ \A l \in Bad : k <= l
  <2>1. Bad \subseteq Nat
    BY <1>0
  <2>. HIDE DEF Bad
  <2>. QED
    BY <2>1, Smallest
<1>2. k \in 0..MaxLength /\ \A l \in 0..MaxLength : l < k => Good(l)
  BY <1>0, <1>1
<1>3. PICK node \in Fit(packed)[k] : node # Empty /\ WordsOf(node) = {}
  BY <1>1
<1>. HIDE DEF Bad
<1>4. ReadsAs(node)
  BY <1>2, WordsAre
<1>5. CASE node.kind = "Leaf"
  BY <1>3, <1>4, <1>5 DEF ReadsAs
<1>6. CASE /\ node # Empty /\ node.kind \notin {"Empty", "Leaf"}
           /\ node.prefix \in Words(k) /\ Len(node.prefix) \in 0..k
           /\ Sound(node, Under(packed, k, Len(node.prefix)))
           /\ Shapely(node)
  <2>. DEFINE n == Len(node.prefix)
              X == Under(packed, k, n)
  <2>0. n \in 0..k /\ Sound(node, X) /\ Shapely(node)
    BY <1>6
  <2>. HIDE DEF n
  <2>1. Empty \notin X /\ BeyondClean(node)
    BY <1>2, <2>0, UnderIs, UnderClean
  <2>2. \A c \in X : WordsOf(c) # {}
    <3>1. /\ n < k => /\ k - 1 - n \in 0..MaxLength /\ k - 1 - n < k
                      /\ X = Fit(packed)[k - 1 - n] \ {Empty}
          /\ n = k => X = {}
      BY <1>2, <2>0, UnderIs
    <3>2. n < k \/ n = k
      BY <1>1, <2>0
    <3>. HIDE DEF X
    <3>3. CASE n < k
      <4>1. Good(k - 1 - n)
        BY <1>2, <3>1, <3>3
      <4>. QED
        BY <3>1, <3>3, <4>1
    <3>. QED
      BY <3>1, <3>2, <3>3
  <2>. HIDE DEF X
  <2>3. \A b \in ChildBytes(node) : Beyond(node, b) # {}
    <3>1. \A b \in ChildBytes(node) : WordsOf(Child(node, b)) # {}
      BY <2>0, <2>1, <2>2, SoundIs
    <3>. QED
      BY <3>1 DEF Beyond, At, WordsOf
  <2>4. Holds(node) # {}
    <3>1. CASE Size(node) = 0
      BY <2>0, <2>1, <3>1, ChildlessHolds
    <3>2. CASE Size(node) # 0
      <4>1. TellsApart(node)
        BY <2>0, <2>1, <2>3, <3>2, NodeTells
      <4>. QED
        BY <4>1 DEF TellsApart
    <3>. QED
      BY <3>1, <3>2
  <2>. QED
    BY <1>3, <1>4, <1>6, <2>4 DEF ReadsAs
<1>. QED
  BY <1>2, <1>3, <1>5, <1>6, FitCases

-----------------------------------------------------------------------------
(* What Tidied makes of a node. *)

\* What g makes of the children of a node.
OfChildren(g, node) == [b \in ChildBytes(node) |-> g[Child(node, b)]]
\* Tidied once, the node is regular.
Tidies(g, node) == TidiedNode(g, node) = Regular(node.prefix, node.end, OfChildren(g, node))

\* Keys in their order, with a child for each.
Lined(kind, p, e, U, child) ==
  Linear(kind, p, e, Ascending(U), [i \in 1..Len(Ascending(U)) |-> child[Ascending(U)[i]]])

\* Regular, by the kind for the number of children.
RegularAs(p, e, f, n) ==
  /\ Kind(n) = "N4" => Regular(p, e, f) = Lined("N4", p, e, DOMAIN f, f)
  /\ Kind(n) = "N16" => Regular(p, e, f) = Lined("N16", p, e, DOMAIN f, f)
  /\ Kind(n) = "N48" => Regular(p, e, f) = N16ToN48(Lined("N16", p, e, DOMAIN f, f))
  /\ Kind(n) = "N256" =>
       Regular(p, e, f) = Node256(p, e, n, [b \in Bytes |-> IF b \in DOMAIN f THEN f[b] ELSE Empty])

\* Regular, case by case.
LEMMA RegularIs ==
  ASSUME NEW p, NEW e, NEW f, NEW n \in Nat, Len(Ascending(DOMAIN f)) = n
  PROVE  RegularAs(p, e, f, n)
<1>. DEFINE node16 == Linear("N16", p, e, Ascending(DOMAIN f), [i \in 1..n |-> f[Ascending(DOMAIN f)[i]]])
            node256 == Node256(p, e, n, [b \in Bytes |-> IF b \in DOMAIN f THEN f[b] ELSE Empty])
<1>1. Regular(p, e, f) = CASE n <= Cap4 -> [node16 EXCEPT !.kind = "N4"]
                           [] n \in Cap4 + 1 .. Cap16 -> node16
                           [] n \in Cap16 + 1 .. Cap48 -> N16ToN48(node16)
                           [] n > Cap48 -> node256
  BY Zenon DEF Regular
<1>2. node16 = Lined("N16", p, e, DOMAIN f, f)
  BY Zenon DEF Lined
<1>0. [node16 EXCEPT !.kind = "N4"] = Lined("N4", p, e, DOMAIN f, f)
  <2>. DEFINE keys == Ascending(DOMAIN f)
              ch == [i \in 1..n |-> f[keys[i]]]
  <2>1. Lined("N4", p, e, DOMAIN f, f) = Linear("N4", p, e, keys, ch)
    BY Zenon DEF Lined
  <2>. HIDE DEF ch, keys
  <2>2. [Linear("N16", p, e, keys, ch) EXCEPT !.kind = "N4"] = Linear("N4", p, e, keys, ch)
    BY DEF Linear
  <2>3. node16 = Linear("N16", p, e, keys, ch)
    BY Zenon DEF keys, ch
  <2>. HIDE DEF node16
  <2>. QED
    BY <2>1, <2>2, <2>3, Zenon
<1>. HIDE DEF node16, node256
<1>3. /\ Kind(n) = "N4" <=> n <= Cap4
      /\ Kind(n) = "N16" <=> n \in Cap4 + 1 .. Cap16
      /\ Kind(n) = "N48" <=> n \in Cap16 + 1 .. Cap48
      /\ Kind(n) = "N256" <=> n > Cap48
  <2>1. /\ Kind(n) = "N4" <=> n <= Cap4
        /\ Kind(n) = "N16" <=> Cap4 < n /\ n <= Cap16
        /\ Kind(n) = "N48" <=> Cap16 < n /\ n <= Cap48
        /\ Kind(n) = "N256" <=> Cap48 < n
        /\ Cap4 \in Nat /\ Cap16 \in Nat /\ Cap48 \in Nat /\ n \in Nat
    BY KindIs, BytesAre
  <2>. QED
    BY ONLY <2>1
<1>4. Kind(n) = "N4" => Regular(p, e, f) = Lined("N4", p, e, DOMAIN f, f)
  BY <1>0, <1>1, <1>3
<1>5. Kind(n) = "N16" => Regular(p, e, f) = node16
  BY <1>1, <1>3
<1>6. Kind(n) = "N48" => Regular(p, e, f) = N16ToN48(node16)
  BY <1>1, <1>3
<1>7. Kind(n) = "N256" => Regular(p, e, f) = node256
  BY <1>1, <1>3
<1>. QED
  BY <1>2, <1>4, <1>5, <1>6, <1>7 DEF node256, RegularAs

\* A Node4 or Node16 of the kind for its size is regular.
LEMMA TidyLinear ==
  ASSUME NEW X, Empty \notin X, NEW node, SoundLinear(node, X), Shapely(node), Size(node) # 0, NEW g
  PROVE  Tidies(g, node)
<1>. DEFINE U == ChildBytes(node)
            f == OfChildren(g, node)
            keys == node.keys
            n == Len(keys)
            c2 == [i \in DOMAIN node.ch |-> g[node.ch[i]]]
<1>1. /\ node.kind \in {"N4", "N16"} /\ keys \in Seq(Clean) /\ node.ch \in Seq(X)
      /\ n = Len(node.ch) /\ Increasing(keys)
      /\ node \in [kind : {"N4", "N16"}, prefix : Seq(Clean), end : BOOLEAN,
                   keys : Seq(Clean), ch : Seq(X)]
  BY DEF SoundLinear
<1>2. /\ Size(node) = n /\ n \in Nat /\ DOMAIN keys = 1..n
      /\ U = {keys[i] : i \in 1..n}
      /\ \A i \in 1..n : Child(node, keys[i]) = node.ch[i]
  BY LinearIs
<1>3. U \subseteq Nat /\ IsFiniteSet(U)
  BY SoundIs, BytesAre DEF Sound
<1>4. keys = Ascending(U)
  <2>1. ToSet(keys) = U
    BY <1>1, <1>2, ElementsOf
  <2>2. keys \in Seq(U)
    <3>1. \A i \in 1..n : keys[i] \in U
      BY <1>2
    <3>. QED
      BY <1>1, <1>2, <3>1
  <2>. HIDE DEF U, keys
  <2>. QED
    BY <1>1, <1>3, <2>1, <2>2, AscendingOnly
<1>5. DOMAIN node.ch = 1..n
  BY <1>1, <1>2, LenProperties
<1>6. DOMAIN f = U
  BY DEF OfChildren
<1>7. c2 = [i \in 1..n |-> f[keys[i]]]
  <2>1. \A i \in 1..n : g[node.ch[i]] = f[keys[i]]
    <3>. TAKE i \in 1..n
    <3>1. keys[i] \in U /\ Child(node, keys[i]) = node.ch[i]
      BY <1>2
    <3>. QED
      BY <3>1, Zenon DEF OfChildren
  <2>. HIDE DEF f
  <2>. QED
    BY <1>5, <2>1, Zenon
<1>8. TidiedNode(g, node) = [node EXCEPT !.ch = c2]
  <2>1. node.kind \notin {"Empty", "Leaf"} /\ node.kind # "N48"
    BY <1>1
  <2>. QED
    BY <2>1 DEF TidiedNode
<1>. HIDE DEF c2, f, U
<1>9. [node EXCEPT !.ch = c2] = Linear(node.kind, node.prefix, node.end, keys, c2)
  BY <1>1 DEF Linear
<1>10. Regular(node.prefix, node.end, f) = Linear(node.kind, node.prefix, node.end, keys, c2)
  <2>1. Lined(node.kind, node.prefix, node.end, DOMAIN f, f)
          = Linear(node.kind, node.prefix, node.end, keys, c2)
    BY <1>4, <1>6, <1>7, Zenon DEF Lined
  <2>2. Len(Ascending(DOMAIN f)) = n /\ n \in Nat
    BY <1>2, <1>4, <1>6
  <2>3. node.kind = Kind(n) /\ node.kind \in {"N4", "N16"}
    BY <1>1, <1>2 DEF Shapely
  <2>. HIDE DEF n, keys
  <2>4. Regular(node.prefix, node.end, f) = Lined(node.kind, node.prefix, node.end, DOMAIN f, f)
    <3>1. RegularAs(node.prefix, node.end, f, n)
      BY <2>2, RegularIs
    <3>. QED
      BY <2>3, <3>1 DEF RegularAs
  <2>. QED
    BY <2>1, <2>4
<1>. QED
  BY <1>8, <1>9, <1>10 DEF Tidies, f

\* A Node256 of the kind for its size is regular.
LEMMA Tidy256 ==
  ASSUME NEW X, Empty \notin X, NEW node, Sound256(node, X), Shapely(node), Size(node) # 0,
         NEW g, g[Empty] = Empty
  PROVE  Tidies(g, node)
<1>. DEFINE U == ChildBytes(node)
            f == OfChildren(g, node)
            n == node.n
            c2 == [b \in Bytes |-> g[node.ch[b]]]
<1>1. /\ node \in [kind : {"N256"}, prefix : Seq(Clean), end : BOOLEAN, n : Nat,
                   ch : [Bytes -> X \cup {Empty}]]
  BY DEF Sound256
<1>2. /\ Size(node) = n /\ U = {b \in Bytes : node.ch[b] # Empty}
      /\ \A b : Child(node, b) = node.ch[b]
  BY <1>1, Node256Is DEF Used256
<1>3. /\ U \subseteq Nat /\ IsFiniteSet(U) /\ Size(node) = Cardinality(U)
  BY SoundIs, BytesAre DEF Sound
<1>4. DOMAIN f = U
  BY DEF OfChildren
<1>5. c2 = [b \in Bytes |-> IF b \in DOMAIN f THEN f[b] ELSE Empty]
  <2>1. \A b \in Bytes : g[node.ch[b]] = IF b \in DOMAIN f THEN f[b] ELSE Empty
    <3>. TAKE b \in Bytes
    <3>1. CASE b \in U
      <4>1. f[b] = g[Child(node, b)]
        BY <3>1, Zenon DEF OfChildren
      <4>. QED
        BY <1>2, <1>4, <3>1, <4>1
    <3>2. CASE b \notin U
      <4>1. node.ch[b] = Empty
        BY <1>2, <3>2
      <4>. QED
        BY <1>4, <3>2, <4>1
    <3>. QED
      BY <3>1, <3>2
  <2>. HIDE DEF f
  <2>. QED
    BY <2>1, Zenon
<1>6. TidiedNode(g, node) = [node EXCEPT !.ch = c2]
  <2>1. node.kind \notin {"Empty", "Leaf"} /\ node.kind # "N48" /\ DOMAIN node.ch = Bytes
    BY <1>1
  <2>. QED
    BY <2>1 DEF TidiedNode
<1>. HIDE DEF c2, f, U
<1>7. [node EXCEPT !.ch = c2] = Node256(node.prefix, node.end, n, c2)
  BY <1>1 DEF Node256
<1>8. Regular(node.prefix, node.end, f) = Node256(node.prefix, node.end, n, c2)
  <2>1. Len(Ascending(DOMAIN f)) = n
    BY <1>2, <1>3, <1>4, AscendingIs
  <2>2. Kind(n) = "N256" /\ n \in Nat
    BY <1>1, <1>2 DEF Shapely
  <2>. HIDE DEF n
  <2>3. RegularAs(node.prefix, node.end, f, n)
    BY <2>1, <2>2, RegularIs
  <2>4. Regular(node.prefix, node.end, f)
          = Node256(node.prefix, node.end, n, [b \in Bytes |-> IF b \in DOMAIN f THEN f[b] ELSE Empty])
    BY <2>2, <2>3, Zenon DEF RegularAs
  <2>. QED
    BY <1>5, <2>4, Zenon
<1>. QED
  BY <1>6, <1>7, <1>8 DEF Tidies, f

\* A Node48 whose slots are in the order of their bytes.
RankOf(U) == [b \in Bytes |-> IF b \in U THEN Rank(U, b) ELSE Nil]
InOrder(U, f) == [s \in Slots |-> IF s < Len(Ascending(U)) THEN f[Ascending(U)[s + 1]] ELSE Empty]
Ordered48(p, e, U, f) == Node48(p, e, Len(Ascending(U)), RankOf(U), InOrder(U, f))

\* What n16_to_n48 makes of children in the order of their bytes.
LEMMA OrderedFrom16 ==
  ASSUME NEW p \in Seq(Clean), NEW e \in BOOLEAN, NEW U, U \subseteq Clean, IsFiniteSet(U),
         NEW f
  PROVE  N16ToN48(Lined("N16", p, e, U, f)) = Ordered48(p, e, U, f)
<1>. DEFINE a == Ascending(U)
            n == Len(a)
            c2 == [i \in 1..n |-> f[a[i]]]
            node == Lined("N16", p, e, U, f)
            Y == {f[b] : b \in U}
<1>0. U \subseteq Nat
  BY BytesAre
<1>1. /\ n \in Nat /\ a \in Seq(U) /\ Increasing(a) /\ ToSet(a) = U /\ n = Cardinality(U)
      /\ \A b \in U : Rank(U, b) + 1 \in 1..n /\ a[Rank(U, b) + 1] = b
      /\ \A i \in 1..n : a[i] \in U
  BY <1>0, AscendingIs
<1>2. node = Linear("N16", p, e, a, c2)
  BY Zenon DEF Lined
<1>. HIDE DEF a
<1>3. c2 \in Seq(Y) /\ Len(c2) = n /\ \A i \in 1..n : c2[i] = f[a[i]]
  <2>1. \A i \in 1..n : f[a[i]] \in Y
    BY <1>1
  <2>. HIDE DEF Y
  <2>. QED
    BY <1>1, <2>1
<1>. HIDE DEF c2, node, Y
<1>4. /\ node.kind = "N16" /\ node.prefix = p /\ node.end = e /\ node.keys = a /\ node.ch = c2
      /\ a \in Seq(Clean)
      /\ node \in [kind : {"N4", "N16"}, prefix : Seq(Clean), end : BOOLEAN,
                   keys : Seq(Clean), ch : Seq(Y)]
  <2>1. a \in Seq(Clean)
    BY <1>1, SeqMonotonic
  <2>. QED
    BY <1>2, <1>3, <2>1 DEF Linear
<1>5. SoundLinear(node, Y)
  BY <1>1, <1>3, <1>4 DEF SoundLinear
<1>6. \A b \in U : Place(node, b) - 1 = Rank(U, b)
  <2>. TAKE b \in U
  <2>1. Place(node, a[Rank(U, b) + 1]) = Rank(U, b) + 1
    BY <1>1, <1>4, <1>5, LinearIs
  <2>2. Rank(U, b) \in Nat
    BY <1>0, RankGrows
  <2>. QED
    BY <1>1, <2>1, <2>2
<1>7. [b \in Bytes |-> IF b \in ToSet(a) THEN Place(node, b) - 1 ELSE Nil] = RankOf(U)
  BY <1>1, <1>6 DEF RankOf
<1>8. [s \in Slots |-> IF s < Len(c2) THEN c2[s + 1] ELSE Empty] = InOrder(U, f)
  <2>1. \A s \in Slots : (IF s < Len(c2) THEN c2[s + 1] ELSE Empty)
                           = (IF s < n THEN f[a[s + 1]] ELSE Empty)
    <3>. TAKE s \in Slots
    <3>1. CASE s < n
      <4>1. s + 1 \in 1..n
        BY <1>1, <3>1, BytesAre
      <4>. QED
        BY <1>3, <3>1, <4>1
    <3>2. CASE ~(s < n)
      BY <1>3, <3>2
    <3>. QED
      BY <3>1, <3>2
  <2>. QED
    BY <2>1, Zenon DEF InOrder, a
<1>9. N16ToN48(node) = Node48(p, e, n, [b \in Bytes |-> IF b \in ToSet(a) THEN Place(node, b) - 1 ELSE Nil],
                              [s \in Slots |-> IF s < Len(c2) THEN c2[s + 1] ELSE Empty])
  BY <1>4, Zenon DEF N16ToN48
<1>10. N16ToN48(node) = Node48(p, e, n, RankOf(U), InOrder(U, f))
  BY <1>7, <1>8, <1>9, Zenon
<1>. QED
  BY <1>10, Zenon DEF Ordered48, a, node

\* A Node48 with other slots.
Slotted(node, idx, ch) == [node EXCEPT !.idx = idx, !.ch = ch]

\* A Node48 with other slots and children.
LEMMA Node48With ==
  ASSUME NEW p, NEW e, NEW n, NEW i0, NEW c0, NEW r, r = Node48(p, e, n, i0, c0), NEW idx, NEW ch
  PROVE  Slotted(r, idx, ch) = Node48(p, e, n, idx, ch)
<1>. DEFINE q == [r EXCEPT !.idx = idx, !.ch = ch]
<1>1. /\ r \in [kind : {"N48"}, prefix : {p}, end : {e}, n : {n}, idx : {i0}, ch : {c0}]
  BY DEF Node48
<1>2. q \in [kind : {"N48"}, prefix : {p}, end : {e}, n : {n}, idx : {idx}, ch : {ch}]
  BY <1>1
<1>. HIDE DEF q
<1>3. q = Node48(p, e, n, idx, ch)
  BY <1>2 DEF Node48
<1>. QED
  BY <1>3 DEF q, Slotted

\* A Node48 of the kind for its size is regular once its slots are in order.
LEMMA Tidy48 ==
  ASSUME NEW X, Empty \notin X, NEW node, Sound48(node, X), Shapely(node), NEW g
  PROVE  Size(node) # 0 => Tidies(g, node)
<1>. SUFFICES ASSUME Size(node) # 0 PROVE Tidies(g, node)
  OBVIOUS
<1>. DEFINE U == ChildBytes(node)
            f == OfChildren(g, node)
            a == Ascending(U)
            p == node.prefix
            e == node.end
            c2 == [i \in DOMAIN node.ch |-> g[node.ch[i]]]
            done == [node EXCEPT !.ch = c2]
<1>1. node \in [kind : {"N48"}, prefix : Seq(Clean), end : BOOLEAN, n : Nat,
                idx : [Bytes -> Slots \cup {Nil}], ch : [Slots -> X \cup {Empty}]]
  BY DEF Sound48
<1>2. /\ U = Used48(node.idx) /\ Size(node) = node.n /\ node.kind = "N48"
      /\ \A b : Child(node, b) = node.ch[node.idx[b]]
  BY <1>1, Node48Is
<1>3. U \subseteq Clean /\ U \subseteq Nat /\ IsFiniteSet(U) /\ Size(node) = Cardinality(U)
  BY SoundIs, BytesAre DEF Sound
<1>4. /\ a \in Seq(U) /\ Len(a) = node.n /\ node.n \in Nat
      /\ \A i \in 1..node.n : a[i] \in U
  BY <1>2, <1>3, AscendingIs
<1>5. \A b \in U : node.idx[b] \in Slots
  BY <1>1, <1>2 DEF Used48
<1>6. DOMAIN f = U /\ \A b \in U : f[b] = g[Child(node, b)]
  BY Zenon DEF OfChildren
<1>7. DOMAIN node.ch = Slots
  BY <1>1
<1>8. \A b \in U : c2[node.idx[b]] = f[b]
  <2>. TAKE b \in U
  <2>1. c2[node.idx[b]] = g[node.ch[node.idx[b]]]
    BY <1>5, <1>7, Zenon
  <2>. QED
    BY <1>2, <1>6, <2>1, Zenon
<1>9. TidiedNode(g, node) = InByteOrder(done)
  <2>1. node.kind \notin {"Empty", "Leaf"}
    BY <1>2
  <2>. HIDE DEF c2
  <2>2. done.kind = "N48" /\ done = [node EXCEPT !.ch = c2]
    BY <1>1
  <2>3. done = [node EXCEPT !.ch = [i \in DOMAIN node.ch |-> g[node.ch[i]]]]
    BY Zenon DEF c2
  <2>. HIDE DEF done
  <2>. QED
    BY <1>2, <2>1, <2>3, Zenon DEF TidiedNode
<1>. HIDE DEF c2, f
<1>10. /\ done.kind = "N48" /\ done.prefix = p /\ done.end = e /\ done.n = node.n
       /\ done.idx = node.idx /\ done.ch = c2
       /\ \A idx, ch : Slotted(done, idx, ch) = Node48(p, e, node.n, idx, ch)
  <2>1. done = Node48(p, e, node.n, node.idx, c2)
    BY <1>1 DEF Node48
  <2>. HIDE DEF done, p, e
  <2>2. /\ done.kind = "N48" /\ done.prefix = p /\ done.end = e /\ done.n = node.n
        /\ done.idx = node.idx /\ done.ch = c2
    BY <2>1 DEF Node48
  <2>3. ASSUME NEW idx, NEW ch
        PROVE  Slotted(done, idx, ch) = Node48(p, e, node.n, idx, ch)
    BY <2>1, Node48With
  <2>. QED
    BY <2>2, <2>3, Zenon
<1>. HIDE DEF done
<1>11. ChildBytes(done) = U /\ \A b \in U : Child(done, b) = f[b]
  <2>1. ChildBytes(done) = Used48(done.idx) /\ \A b : Child(done, b) = done.ch[done.idx[b]]
    BY <1>10, Node48Is
  <2>. HIDE DEF U
  <2>2. ChildBytes(done) = U
    BY <1>2, <1>10, <2>1, Zenon
  <2>3. \A b \in U : Child(done, b) = c2[node.idx[b]]
    BY <1>10, <2>1, Zenon
  <2>. QED
    BY <1>8, <2>2, <2>3, Zenon
<1>. HIDE DEF U, a
<1>12. [s \in Slots |-> IF s < Len(a) THEN Child(done, a[s + 1]) ELSE Empty] = InOrder(U, f)
  <2>1. \A s \in Slots : (IF s < Len(a) THEN Child(done, a[s + 1]) ELSE Empty)
                           = (IF s < Len(a) THEN f[a[s + 1]] ELSE Empty)
    <3>. TAKE s \in Slots
    <3>1. CASE s < Len(a)
      <4>1. s + 1 \in 1..node.n
        BY <1>4, <3>1, BytesAre
      <4>2. Child(done, a[s + 1]) = f[a[s + 1]]
        BY <1>4, <1>11, <4>1
      <4>. QED
        BY <3>1, <4>2
    <3>2. CASE ~(s < Len(a))
      BY <3>2
    <3>. QED
      BY <3>1, <3>2
  <2>. QED
    BY <2>1, Zenon DEF InOrder, a
<1>13. InByteOrder(done) = Slotted(done, RankOf(U),
         [s \in Slots |-> IF s < Len(a) THEN Child(done, a[s + 1]) ELSE Empty])
  BY <1>11, Zenon DEF InByteOrder, Slotted, RankOf, Rank, a
<1>14. InByteOrder(done) = Node48(p, e, node.n, RankOf(U), InOrder(U, f))
  BY <1>10, <1>12, <1>13, Zenon
<1>15. InByteOrder(done) = Ordered48(p, e, U, f)
  BY <1>4, <1>14, Zenon DEF Ordered48, a
<1>16. Regular(p, e, f) = N16ToN48(Lined("N16", p, e, U, f))
  <2>1. Kind(node.n) = "N48" /\ Len(Ascending(DOMAIN f)) = node.n /\ node.n \in Nat
    BY <1>2, <1>4, <1>6 DEF Shapely, a
  <2>2. RegularAs(p, e, f, node.n)
    BY <2>1, RegularIs
  <2>. QED
    BY <1>6, <2>1, <2>2, Zenon DEF RegularAs
<1>17. N16ToN48(Lined("N16", p, e, U, f)) = Ordered48(p, e, U, f)
  <2>1. p \in Seq(Clean) /\ e \in BOOLEAN
    BY <1>1
  <2>. HIDE DEF p, e
  <2>. QED
    BY <1>3, <2>1, OrderedFrom16, ZenonT(60)
<1>. QED
  BY <1>9, <1>15, <1>16, <1>17, Zenon DEF Tidies, f

\* With its slots in order, a node is Regular.
LEMMA NodeTidies ==
  ASSUME NEW X, Empty \notin X, NEW node, Sound(node, X), Shapely(node), Size(node) # 0,
         NEW g, g[Empty] = Empty
  PROVE  Tidies(g, node)
<1>1. CASE SoundLinear(node, X)
  BY <1>1, TidyLinear
<1>2. CASE Sound48(node, X)
  BY <1>2, Tidy48
<1>3. CASE Sound256(node, X)
  BY <1>3, Tidy256
<1>. QED
  BY <1>1, <1>2, <1>3 DEF Sound

-----------------------------------------------------------------------------
(* A tree that fits is the canonical tree of its words. *)

\* Words are short.
LEMMA WordsShort ==
  ASSUME NEW k \in 0..MaxLength
  PROVE  Words(k) \subseteq Short(MaxLength)
<1>1. k \in Nat /\ MaxLength \in Nat /\ k <= MaxLength
  BY BytesAre
<1>2. Seq(Clean) \subseteq Seq(Bytes) /\ \A w \in Seq(Clean) : Len(w) \in Nat
  BY BytesAre, SeqMonotonic, LenProperties
<1>. QED
  BY <1>1, <1>2 DEF Words, Short

\* Canonical, of no value, one, and the words of a node that tells them apart.
LEMMA CanonicalNone == Canonical[{}] = Empty
<1>1. {} \in SUBSET Short(MaxLength)
  OBVIOUS
<1>2. Canonical[{}] = CanonicalOver(Canonical, {})
  BY <1>1, CanonicalUnfolds
<1>. QED
  BY <1>2 DEF CanonicalOver

\* The canonical tree of one word is a leaf.
LEMMA CanonicalOne ==
  ASSUME NEW w \in Short(MaxLength)
  PROVE  Canonical[{w}] = Leaf(w)
<1>. DEFINE W == {w}
<1>1. W \in SUBSET Short(MaxLength) /\ W # {} /\ \E s \in W : W = {s}
  OBVIOUS
<1>2. (CHOOSE s \in W : TRUE) = w
  OBVIOUS
<1>. HIDE DEF W
<1>3. Canonical[W] = CanonicalOver(Canonical, W)
  BY <1>1, CanonicalUnfolds
<1>4. Canonical[W] = Leaf(CHOOSE s \in W : TRUE)
  BY <1>1, <1>3 DEF CanonicalOver
<1>. QED
  BY <1>2, <1>4 DEF W

\* The canonical tree of words that tell a node is regular, over the canonical
\* trees of the words beyond its bytes.
LEMMA CanonicalTold ==
  ASSUME NEW node, node.end \in BOOLEAN, Holds(node) \in SUBSET Short(MaxLength), TellsApart(node)
  PROVE  Canonical[Holds(node)]
           = Regular(node.prefix, node.end, [b \in ChildBytes(node) |-> Canonical[Beyond(node, b)]])
<1>. DEFINE W == Holds(node)
            U == ChildBytes(node)
<1>1. /\ W # {} /\ ~\E s \in W : W = {s}
      /\ LongestCommonPrefix(W) = node.prefix
      /\ <<>> \in Rests(W) <=> node.end
      /\ Heads(W) = U
      /\ \A b \in U : Past(W, b) = Beyond(node, b)
      /\ W \in SUBSET Short(MaxLength)
  BY Zenon DEF TellsApart
<1>. HIDE DEF W, U
<1>2. Canonical[W] = CanonicalOver(Canonical, W)
  BY <1>1, CanonicalUnfolds
<1>3. Canonical[W] = Regular(LongestCommonPrefix(W), <<>> \in Rests(W),
                             [b \in Heads(W) |-> Canonical[Past(W, b)]])
  BY <1>1, <1>2 DEF CanonicalOver
<1>4. [b \in Heads(W) |-> Canonical[Past(W, b)]] = [b \in U |-> Canonical[Beyond(node, b)]]
  BY <1>1, Zenon
<1>5. (<<>> \in Rests(W)) = node.end
  <2>1. CASE node.end
    <3>1. node.end = TRUE /\ (<<>> \in Rests(W)) = TRUE
      BY <1>1, <2>1
    <3>. QED
      BY <3>1
  <2>2. CASE ~node.end
    <3>1. node.end = FALSE /\ (<<>> \in Rests(W)) = FALSE
      BY <1>1, <2>2
    <3>. QED
      BY <3>1
  <2>. QED
    BY <2>1, <2>2
<1>6. Canonical[W] = Regular(node.prefix, node.end, [b \in U |-> Canonical[Beyond(node, b)]])
  BY <1>1, <1>3, <1>4, <1>5, Zenon
<1>. QED
  BY <1>6, Zenon DEF W, U

\* But for the two traces of its history a tree that fits is a function of
\* the words that it holds.
LEMMA TidiedIs ==
  ASSUME NEW packed
  PROVE  \A k \in 0..MaxLength : \A node \in Fit(packed)[k] : Tidied[node] = Canonical[WordsOf(node)]
<1>0. MaxLength \in Nat
  BY BytesAre
<1>. DEFINE Good(k) == \A node \in Fit(packed)[k] : Tidied[node] = Canonical[WordsOf(node)]
            Bad == {k \in 0..MaxLength : ~Good(k)}
<1>. SUFFICES ASSUME Bad # {} PROVE FALSE
  OBVIOUS
<1>1. PICK k \in Bad : k \in Nat /\ \A l \in Bad : k <= l
  <2>1. Bad \subseteq Nat
    BY <1>0
  <2>. HIDE DEF Bad
  <2>. QED
    BY <2>1, Smallest
<1>2. k \in 0..MaxLength /\ \A l \in 0..MaxLength : l < k => Good(l)
  BY <1>0, <1>1
<1>3. PICK node \in Fit(packed)[k] : Tidied[node] # Canonical[WordsOf(node)]
  BY <1>1
<1>. HIDE DEF Bad
<1>4. ReadsAs(node) /\ WordsOf(node) \subseteq Words(k)
  BY <1>2, WordsAre
<1>5. Tidied[node] = TidiedNode(Tidied, node)
  BY <1>2, FitCases, TidiedUnfolds
<1>6. WordsOf(node) \in SUBSET Short(MaxLength)
  BY <1>2, <1>4, WordsShort
<1>7. CASE node = Empty /\ node.kind = "Empty"
  <2>1. WordsOf(node) = {} /\ Tidied[node] = Empty
    BY <1>4, <1>5, <1>7 DEF ReadsAs, TidiedNode
  <2>. QED
    BY <1>3, <2>1, CanonicalNone
<1>8. CASE node.kind = "Leaf" /\ node = Leaf(node.suffix)
  <2>1. WordsOf(node) = {node.suffix} /\ Tidied[node] = node
    BY <1>4, <1>5, <1>8 DEF ReadsAs, TidiedNode
  <2>2. node.suffix \in Short(MaxLength)
    BY <1>6, <2>1
  <2>3. Canonical[WordsOf(node)] = Leaf(node.suffix)
    BY <2>1, <2>2, CanonicalOne
  <2>. QED
    BY <1>3, <1>8, <2>1, <2>3
<1>9. CASE /\ node # Empty /\ node.kind \notin {"Empty", "Leaf"}
           /\ node.prefix \in Words(k) /\ Len(node.prefix) \in 0..k
           /\ Sound(node, Under(packed, k, Len(node.prefix)))
           /\ Shapely(node)
  <2>. DEFINE n == Len(node.prefix)
              X == Under(packed, k, n)
  <2>0. n \in 0..k /\ Sound(node, X) /\ Shapely(node)
    BY <1>9
  <2>. HIDE DEF n
  <2>1. Empty \notin X /\ BeyondClean(node)
    BY <1>2, <2>0, UnderIs, UnderClean
  <2>2. \A c \in X : WordsOf(c) # {} /\ Tidied[c] = Canonical[WordsOf(c)]
    <3>1. /\ n < k => /\ k - 1 - n \in 0..MaxLength /\ k - 1 - n < k
                      /\ X = Fit(packed)[k - 1 - n] \ {Empty}
          /\ n = k => X = {}
      BY <1>2, <2>0, UnderIs
    <3>2. n < k \/ n = k
      BY <1>1, <2>0
    <3>. HIDE DEF X
    <3>3. CASE n < k
      <4>1. Good(k - 1 - n)
        BY <1>2, <3>1, <3>3
      <4>2. \A c \in X : WordsOf(c) # {}
        BY <3>1, <3>3, FitHolds
      <4>. QED
        BY <3>1, <3>3, <4>1, <4>2
    <3>. QED
      BY <3>1, <3>2, <3>3
  <2>. HIDE DEF X
  <2>3. /\ \A b \in ChildBytes(node) : Child(node, b) \in X
        /\ node.end \in BOOLEAN
    BY <2>0, <2>1, SoundIs
  <2>4. \A b \in ChildBytes(node) : Beyond(node, b) = WordsOf(Child(node, b))
    BY DEF Beyond, At, WordsOf
  <2>5. WordsOf(node) = Holds(node)
    BY <1>4, <1>9 DEF ReadsAs
  <2>6. CASE Size(node) = 0
    <3>1. Holds(node) = {node.prefix}
      BY <2>0, <2>1, <2>6, ChildlessHolds
    <3>2. node.prefix \in Short(MaxLength)
      BY <1>6, <2>5, <3>1
    <3>3. Canonical[WordsOf(node)] = Leaf(node.prefix)
      BY <2>5, <3>1, <3>2, CanonicalOne
    <3>4. Tidied[node] = Leaf(node.prefix)
      BY <1>5, <1>9, <2>6 DEF TidiedNode
    <3>. QED
      BY <1>3, <3>3, <3>4
  <2>7. CASE Size(node) # 0
    <3>1. TellsApart(node)
      BY <2>0, <2>1, <2>2, <2>3, <2>4, <2>7, NodeTells
    <3>2. Canonical[Holds(node)]
            = Regular(node.prefix, node.end, [b \in ChildBytes(node) |-> Canonical[Beyond(node, b)]])
      BY <1>6, <2>3, <2>5, <3>1, CanonicalTold
    <3>3. Tidied[Empty] = Empty
      <4>1. 0 \in 0..MaxLength
        BY <1>0
      <4>2. Empty \in Nodes
        BY <4>1, EmptyFits, FitCases
      <4>3. Empty.kind = "Empty"
        BY DEF Empty
      <4>. QED
        BY <4>2, <4>3, TidiedUnfolds DEF TidiedNode
    <3>4. Tidies(Tidied, node)
      BY <2>0, <2>1, <2>7, <3>3, NodeTidies
    <3>5. Tidied[node] = Regular(node.prefix, node.end, OfChildren(Tidied, node))
      BY <1>5, <3>4, Zenon DEF Tidies
    <3>6. \A b \in ChildBytes(node) : Tidied[Child(node, b)] = Canonical[Beyond(node, b)]
      BY <2>2, <2>3, <2>4
    <3>7. OfChildren(Tidied, node) = [b \in ChildBytes(node) |-> Canonical[Beyond(node, b)]]
      BY <3>6, Zenon DEF OfChildren
    <3>. QED
      BY <1>3, <2>5, <3>2, <3>5, <3>7, Zenon
  <2>. QED
    BY <2>6, <2>7
<1>. QED
  BY <1>2, <1>3, <1>7, <1>8, <1>9, FitCases

\* What the invariant says of the shape.
LEMMA KeptShape ==
  ASSUME NEW packed, Kept(packed)
  PROVE  ShapeIsCanonical
<1>1. MaxLength \in 0..MaxLength
  BY BytesAre
<1>2. Tidied[root] = Canonical[WordsOf(root)]
  BY <1>1, TidiedIs DEF Kept
<1>. QED
  BY <1>2 DEF Kept, ShapeIsCanonical

\* A tree that only grows, and one whose Node48 shrinks with the first child it
\* loses, has the shape of the values in use (ShapeIsCanonical).
THEOREM PackedTreeShape ==
  ASSUME NoMark, Removable = {} \/ Cap48 = Cap16 + 1
  PROVE  Spec => []ShapeIsCanonical
<1>0. Holding(TRUE)
  BY DEF Holding
<1>1. Init => Kept(TRUE)
  BY KeptInit
<1>2. Kept(TRUE) /\ [Next]_vars => Kept(TRUE)'
  BY <1>0, KeptNext
<1>3. Kept(TRUE) => ShapeIsCanonical
  BY KeptShape
<1>. QED
  BY <1>1, <1>2, <1>3, PTL DEF Spec, vars

-----------------------------------------------------------------------------
(* Narrow values: trees without a Node48. *)

\* The bytes that some words go on with after p.
Branches(set, p) == {b \in Clean : \E s \in Seq(Clean) : Path(p, b, s) \in set}
\* After no prefix are they more than a Node16 has room for.
Narrow(set) == \A p \in Seq(Clean) : Cardinality(Branches(set, p)) <= Cap16

\* Branches are bytes, so there are finitely many.
LEMMA BranchesAre ==
  ASSUME NEW set, NEW p, NEW T \in SUBSET Branches(set, p)
  PROVE  IsFiniteSet(T) /\ Cardinality(T) \in Nat /\ Cardinality(T) <= Cardinality(Branches(set, p))
         /\ Cardinality(Branches(set, p)) \in Nat
<1>. DEFINE B == Branches(set, p)
<1>1. B \in SUBSET Bytes
  BY BytesAre DEF Branches
<1>2. IsFiniteSet(B)
  <2>. HIDE DEF B
  <2>. QED
    BY <1>1, BytesAre, FS_Subset
<1>3. T \in SUBSET B
  OBVIOUS
<1>. HIDE DEF B
<1>4. IsFiniteSet(T) /\ Cardinality(T) <= Cardinality(B)
  BY <1>2, <1>3, FS_Subset
<1>. QED
  BY <1>2, <1>4, FS_CardinalityType DEF B

\* Fewer words are no wider.
LEMMA NarrowSubset ==
  ASSUME NEW set, Narrow(set), NEW some \in SUBSET set
  PROVE  Narrow(some)
<1>. SUFFICES ASSUME NEW p \in Seq(Clean) PROVE Cardinality(Branches(some, p)) <= Cap16
  BY DEF Narrow
<1>1. Branches(some, p) \in SUBSET Branches(set, p)
  BY DEF Branches
<1>2. /\ Cardinality(Branches(some, p)) \in Nat /\ Cardinality(Branches(set, p)) \in Nat
      /\ Cardinality(Branches(some, p)) <= Cardinality(Branches(set, p))
  BY <1>1, BranchesAre
<1>3. Cardinality(Branches(set, p)) <= Cap16 /\ Cap16 \in Nat
  BY BytesAre DEF Narrow
<1>. QED
  BY <1>2, <1>3

\* What lies beyond a byte is no wider than the whole.
LEMMA NarrowBeyond ==
  ASSUME NEW set, Narrow(set), NEW p \in Seq(Clean), NEW b \in Clean, NEW beyond,
         \A s \in beyond : s \in Seq(Clean) /\ Path(p, b, s) \in set
  PROVE  Narrow(beyond)
<1>. SUFFICES ASSUME NEW q \in Seq(Clean) PROVE Cardinality(Branches(beyond, q)) <= Cap16
  BY DEF Narrow
<1>. DEFINE pq == Path(p, b, q)
<1>0. pq \in Seq(Clean)
  BY PathIs
<1>1. \A c \in Clean : \A s \in Seq(Clean) : Path(q, c, s) \in beyond => Path(pq, c, s) \in set
  BY PathPath
<1>. HIDE DEF pq
<1>2. Branches(beyond, q) \in SUBSET Branches(set, pq)
  BY <1>1 DEF Branches
<1>3. /\ Cardinality(Branches(beyond, q)) \in Nat /\ Cardinality(Branches(set, pq)) \in Nat
      /\ Cardinality(Branches(beyond, q)) <= Cardinality(Branches(set, pq))
  BY <1>2, BranchesAre
<1>4. Cardinality(Branches(set, pq)) <= Cap16 /\ Cap16 \in Nat
  BY <1>0, BytesAre DEF Narrow
<1>. QED
  BY <1>3, <1>4

\* A Node4 or Node16 stays sound over any nodes that its children are among.
LEMMA LinearOver ==
  ASSUME NEW X, NEW Y, NEW node, SoundLinear(node, X),
         \A b \in ChildBytes(node) : Child(node, b) \in Y
  PROVE  SoundLinear(node, Y)
<1>1. /\ node \in [kind : {"N4", "N16"}, prefix : Seq(Clean), end : BOOLEAN,
                   keys : Seq(Clean), ch : Seq(X)]
      /\ Len(node.keys) = Len(node.ch) /\ Increasing(node.keys)
  BY DEF SoundLinear
<1>2. /\ ChildBytes(node) = {node.keys[i] : i \in 1..Len(node.keys)}
      /\ \A i \in 1..Len(node.keys) : Child(node, node.keys[i]) = node.ch[i]
  BY LinearIs
<1>3. \A i \in 1..Len(node.ch) : node.ch[i] \in Y
  BY <1>1, <1>2
<1>4. node.ch \in Seq(Y)
  <2>1. Len(node.ch) \in Nat /\ node.ch = [i \in 1..Len(node.ch) |-> node.ch[i]]
    BY <1>1, LenProperties
  <2>2. node.ch \in [1..Len(node.ch) -> Y]
    BY <1>3, <2>1
  <2>. QED
    BY <2>1, <2>2, SeqDef
<1>5. node \in [kind : {"N4", "N16"}, prefix : Seq(Clean), end : BOOLEAN,
                keys : Seq(Clean), ch : Seq(Y)]
  BY <1>1, <1>4
<1>. QED
  BY <1>1, <1>5 DEF SoundLinear

\* A tree of narrow words has no Node48, and with it no hole: its inner nodes
\* have a child for each byte that the words go on with.
LEMMA NarrowFits ==
  ASSUME NEW packed, NEW full
  PROVE  \A k \in 0..MaxLength : \A node \in Fit(packed)[k] :
           Narrow(WordsOf(node)) => node \in Fit(full)[k]
<1>0. MaxLength \in Nat
  BY BytesAre
<1>. DEFINE Good(k) == \A node \in Fit(packed)[k] : Narrow(WordsOf(node)) => node \in Fit(full)[k]
            Bad == {k \in 0..MaxLength : ~Good(k)}
<1>. SUFFICES ASSUME Bad # {} PROVE FALSE
  OBVIOUS
<1>1. PICK k \in Bad : k \in Nat /\ \A l \in Bad : k <= l
  <2>1. Bad \subseteq Nat
    BY <1>0
  <2>. HIDE DEF Bad
  <2>. QED
    BY <2>1, Smallest
<1>2. k \in 0..MaxLength /\ \A l \in 0..MaxLength : l < k => Good(l)
  BY <1>0, <1>1
<1>3. PICK node \in Fit(packed)[k] : Narrow(WordsOf(node)) /\ node \notin Fit(full)[k]
  BY <1>1
<1>. HIDE DEF Bad
<1>4. ReadsAs(node)
  BY <1>2, WordsAre
<1>5. CASE node = Empty
  BY <1>2, <1>3, <1>5, EmptyFits
<1>6. CASE node.kind = "Leaf" /\ node.suffix \in Words(k) /\ node = Leaf(node.suffix)
  BY <1>2, <1>3, <1>6, LeafFits
<1>7. CASE /\ node # Empty /\ node.kind \notin {"Empty", "Leaf"}
           /\ node.prefix \in Words(k) /\ Len(node.prefix) \in 0..k
           /\ Sound(node, Under(packed, k, Len(node.prefix)))
           /\ Shapely(node)
  <2>. DEFINE n == Len(node.prefix)
              p == node.prefix
              X == Under(packed, k, n)
              Y == Under(full, k, n)
  <2>0. n \in 0..k /\ Sound(node, X) /\ Shapely(node) /\ p \in Seq(Clean)
    BY <1>7 DEF Words
  <2>. HIDE DEF n
  <2>1. Empty \notin X /\ BeyondClean(node)
    BY <1>2, <2>0, UnderIs, UnderClean
  <2>2. /\ ChildBytes(node) \subseteq Clean /\ Size(node) = Cardinality(ChildBytes(node))
        /\ \A b \in ChildBytes(node) : Child(node, b) \in X
    BY <2>0, <2>1, SoundIs
  <2>3. \A b \in ChildBytes(node) : Beyond(node, b) = WordsOf(Child(node, b))
    BY DEF Beyond, At, WordsOf
  <2>4. WordsOf(node) = Holds(node)
    BY <1>4, <1>7 DEF ReadsAs
  <2>5. \A b \in ChildBytes(node) : \A s \in Beyond(node, b) :
          s \in Seq(Clean) /\ Path(p, b, s) \in WordsOf(node)
    <3>. TAKE b \in ChildBytes(node)
    <3>. TAKE s \in Beyond(node, b)
    <3>1. b \in Clean /\ s \in Seq(Clean)
      BY <2>1, <2>2 DEF BeyondClean
    <3>2. Path(p, b, s) \in Seq(Clean)
      BY <2>0, <3>1, PathIs
    <3>. QED
      BY <2>4, <3>1, <3>2, HoldsIs
  <2>6. /\ n < k => /\ k - 1 - n \in 0..MaxLength /\ k - 1 - n < k
                    /\ X = Fit(packed)[k - 1 - n] \ {Empty} /\ Y = Fit(full)[k - 1 - n] \ {Empty}
        /\ n = k => X = {}
    BY <1>2, <2>0, UnderIs
  <2>7. n < k \/ n = k
    BY <1>1, <2>0
  <2>. HIDE DEF p, X, Y
  <2>8. \A b \in ChildBytes(node) : Narrow(WordsOf(Child(node, b))) /\ WordsOf(Child(node, b)) # {}
    <3>. TAKE b \in ChildBytes(node)
    <3>1. Narrow(Beyond(node, b))
      BY <1>3, <2>0, <2>2, <2>5, NarrowBeyond
    <3>2. WordsOf(Child(node, b)) # {}
      BY <2>2, <2>6, <2>7, FitHolds
    <3>. QED
      BY <2>3, <3>1, <3>2
  <2>9. \A b \in ChildBytes(node) : Child(node, b) \in Y
    <3>. TAKE b \in ChildBytes(node)
    <3>1. n < k
      BY <2>2, <2>6, <2>7
    <3>2. Good(k - 1 - n)
      BY <1>2, <2>6, <3>1
    <3>. QED
      BY <2>2, <2>6, <2>8, <3>1, <3>2
  <2>10. Size(node) \in Nat /\ Size(node) <= Cap16
    <3>1. \A b \in ChildBytes(node) : b \in Branches(WordsOf(node), p)
      <4>. TAKE b \in ChildBytes(node)
      <4>1. PICK s : s \in Beyond(node, b)
        BY <2>3, <2>8
      <4>. QED
        BY <2>2, <2>5, <4>1 DEF Branches
    <3>2. ChildBytes(node) \in SUBSET Branches(WordsOf(node), p)
      BY <3>1
    <3>3. Cardinality(Branches(WordsOf(node), p)) <= Cap16 /\ Cap16 \in Nat
      BY <1>3, <2>0, BytesAre DEF Narrow
    <3>. QED
      BY <2>2, <3>2, <3>3, BranchesAre
  <2>11. node.kind \in {"N4", "N16"}
    BY <2>0, <2>10 DEF Shapely, Kind
  <2>12. SoundLinear(node, X)
    BY <2>0, <2>11 DEF Sound, Sound48, Sound256
  <2>13. Sound(node, Y) /\ Packed(node)
    BY <2>9, <2>11, <2>12, LinearOver DEF Sound, Packed
  <2>14. node \in Fit(full)[k]
    BY <1>2, <1>7, <2>0, <2>13, InnerFits DEF p, n, Y
  <2>. QED
    BY <1>3, <2>14
<1>. QED
  BY <1>2, <1>3, <1>5, <1>6, <1>7, FitCases

\* Of narrow values, whatever is inserted or removed, storing loses nothing.
LEMMA NarrowIntact ==
  ASSUME NEW packed, packed => Cap48 = Cap16 + 1, NEW full, Holding(full),
         NoMark, Narrow(Values), Kept(packed)
  PROVE  Intact
<1>. SUFFICES ASSUME NEW v \in Values
              PROVE  Stored(InsertNode[root][v]) /\ Stored(RemoveNode[root][v])
  BY DEF Intact
<1>1. v \in Words(MaxLength) /\ MaxLength \in 0..MaxLength
  BY ValuesAreWords
<1>2. /\ root \in Fit(packed)[MaxLength] /\ WordsOf(root) = values /\ values \subseteq Values
  BY DEF Kept
<1>3. /\ InsertNode[root][v] \in Fit(packed)[MaxLength]
      /\ WordsOf(InsertNode[root][v]) = values \cup {v}
  BY <1>1, <1>2, InsertIs DEF Inserted
<1>4. /\ RemoveNode[root][v] \in Fit(packed)[MaxLength]
      /\ WordsOf(RemoveNode[root][v]) = values \ {v}
  BY <1>1, <1>2, RemoveIs DEF Removed
<1>5. Narrow(values \cup {v}) /\ Narrow(values \ {v})
  <2>1. values \cup {v} \in SUBSET Values /\ values \ {v} \in SUBSET Values
    BY <1>2
  <2>. QED
    BY <2>1, NarrowSubset
<1>6. InsertNode[root][v] \in Fit(full)[MaxLength] /\ RemoveNode[root][v] \in Fit(full)[MaxLength]
  BY <1>1, <1>3, <1>4, <1>5, NarrowFits
<1>. QED
  BY <1>1, <1>6, ReloadIs

\* The invariant of a tree of narrow values.
LEMMA NarrowNext ==
  ASSUME NoMark, Narrow(Values), Kept(FALSE), [Next]_vars
  PROVE  Kept(FALSE)'
<1>1. Holding(TRUE)
  BY DEF Holding
<1>2. Intact
  BY <1>1, NarrowIntact
<1>. QED
  BY <1>2, KeptNext

\* Whatever the capacities and whatever is removed: iteration over narrow
\* values yields those in use, each once, in byte order (ValuesInOrder).
THEOREM NarrowTreeInOrder ==
  ASSUME NoMark, Narrow(Values)
  PROVE  Spec => []ValuesInOrder
<1>1. Init => Kept(FALSE)
  BY KeptInit
<1>2. Kept(FALSE) /\ [Next]_vars => Kept(FALSE)'
  BY NarrowNext
<1>3. Kept(FALSE) => ValuesInOrder
  BY KeptMeans
<1>. QED
  BY <1>1, <1>2, <1>3, PTL DEF Spec, vars

\* The length that decides on the tombstone is exact for narrow values
\* (CountExact).
THEOREM NarrowTreeCounts ==
  ASSUME NoMark, Narrow(Values)
  PROVE  Spec => []CountExact
<1>1. Init => Kept(FALSE)
  BY KeptInit
<1>2. Kept(FALSE) /\ [Next]_vars => Kept(FALSE)'
  BY NarrowNext
<1>3. Kept(FALSE) => CountExact
  BY KeptMeans
<1>. QED
  BY <1>1, <1>2, <1>3, PTL DEF Spec, vars

\* The shape of a tree of narrow values is that of the values in use, whatever
\* was inserted and removed before (ShapeIsCanonical).
THEOREM NarrowTreeShape ==
  ASSUME NoMark, Narrow(Values)
  PROVE  Spec => []ShapeIsCanonical
<1>1. Init => Kept(FALSE)
  BY KeptInit
<1>2. Kept(FALSE) /\ [Next]_vars => Kept(FALSE)'
  BY NarrowNext
<1>3. Kept(FALSE) => ShapeIsCanonical
  BY KeptShape
<1>. QED
  BY <1>1, <1>2, <1>3, PTL DEF Spec, vars
=============================================================================
