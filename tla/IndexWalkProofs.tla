-------------------------- MODULE IndexWalkProofs ---------------------------
(***************************************************************************)
(* The annotation-by-annotation walks of the handlers end in the indexes   *)
(* that EntityDb gives in one step, for lists of any length.               *)
(*                                                                         *)
(* The invariant says that the calls still to be made lead from the        *)
(* indexes of the walk to those of EntityDb. A step makes the first of     *)
(* them; what has to be shown is that it holds once a handler has listed   *)
(* its calls, and for that the indexes after any number of annotations of  *)
(* a list are given in closed form.                                        *)
(***************************************************************************)
EXTENDS IndexWalk, EntityDbProofs, FoldProofs, SequenceTheorems

(***************************************************************************)
(* Sequences of index calls                                                *)
(***************************************************************************)

At(b, t) == [bitmaps |-> b, trees |-> t]

\* What one call makes of bitmaps and trees.
AfterCall(s, c) ==
  LET p == c.annot.pair
      b == s.bitmaps
  IN IF c.what = "insert"
     THEN At([b EXCEPT ![p] = @ \cup {c.id}],
             IF c.annot.tier2 /\ b[p] = {} THEN s.trees \cup {p} ELSE s.trees)
     ELSE IF b[p] = {} THEN s
     ELSE At([b EXCEPT ![p] = @ \ {c.id}],
             IF c.annot.tier2 /\ b[p] \ {c.id} = {} THEN s.trees \ {p} ELSE s.trees)

\* One call after the other leads from one state of the indexes to another.
Runs(from, calls, to) ==
  \E f : /\ f[0] = from
         /\ f[Len(calls)] = to
         /\ \A k \in 1 .. Len(calls) : f[k] = AfterCall(f[k - 1], calls[k])

IndexCalls == [what : {"insert", "remove"}, id : Nat, annot : Annotations]

\* Without calls nothing changes.
LEMMA RunsNone ==
  ASSUME NEW from, NEW to
  PROVE  Runs(from, <<>>, to) <=> from = to
<1>1. ASSUME from = to
      PROVE  Runs(from, <<>>, to)
  <2> DEFINE f == [k \in 0 .. 0 |-> from]
  <2>1. f[0] = from /\ f[Len(<<>>)] = to /\ \A k \in 1 .. Len(<<>>) : FALSE
    BY <1>1
  <2> QED
    BY <2>1 DEF Runs
<1>2. ASSUME Runs(from, <<>>, to)
      PROVE  from = to
  BY <1>2 DEF Runs
<1> QED
  BY <1>1, <1>2

\* One call more.
LEMMA RunsFurther ==
  ASSUME NEW calls \in Seq(IndexCalls), NEW c \in IndexCalls, NEW from, NEW to,
         Runs(from, calls, to)
  PROVE  Runs(from, Append(calls, c), AfterCall(to, c))
<1> DEFINE n == Len(calls)
           more == Append(calls, c)
<1>1. /\ n \in Nat /\ Len(more) = n + 1 /\ more[n + 1] = c
      /\ \A k \in 1 .. n : more[k] = calls[k]
  BY AppendProperties
<1>2. PICK f : /\ f[0] = from /\ f[n] = to
               /\ \A k \in 1 .. n : f[k] = AfterCall(f[k - 1], calls[k])
  BY DEF Runs
<1> HIDE DEF n, more
<1> DEFINE g == [k \in 0 .. (n + 1) |-> IF k = n + 1 THEN AfterCall(to, c) ELSE f[k]]
<1>3. g[0] = from /\ g[n + 1] = AfterCall(to, c)
  BY <1>1, <1>2
<1>4. ASSUME NEW k \in 1 .. (n + 1)
      PROVE  g[k] = AfterCall(g[k - 1], more[k])
  <2>1. CASE k = n + 1
    <3>1. g[k - 1] = f[n]
      BY <1>1, <2>1
    <3> QED
      BY <1>1, <1>2, <1>3, <2>1, <3>1
  <2>2. CASE k # n + 1
    <3>1. k \in 1 .. n /\ g[k] = f[k] /\ g[k - 1] = f[k - 1]
      BY <1>1, <2>2
    <3> QED
      BY <1>1, <1>2, <3>1
  <2> QED
    BY <2>1, <2>2
<1> HIDE DEF g
<1>5. Runs(from, more, AfterCall(to, c))
  BY <1>1, <1>3, <1>4 DEF Runs
<1> QED
  BY <1>5 DEF more

\* One sequence of calls after another.
LEMMA RunsJoin ==
  ASSUME NEW first \in Seq(IndexCalls), NEW second \in Seq(IndexCalls),
         NEW from, NEW middle, NEW to,
         Runs(from, first, middle), Runs(middle, second, to)
  PROVE  Runs(from, first \o second, to)
<1> DEFINE m == Len(first)
           n == Len(second)
           both == first \o second
<1>1. /\ m \in Nat /\ n \in Nat /\ Len(both) = m + n
      /\ \A k \in 1 .. (m + n) : both[k] = IF k <= m THEN first[k] ELSE second[k - m]
  BY ConcatProperties
<1>2. PICK f : /\ f[0] = from /\ f[m] = middle
               /\ \A k \in 1 .. m : f[k] = AfterCall(f[k - 1], first[k])
  BY DEF Runs
<1>3. PICK g : /\ g[0] = middle /\ g[n] = to
               /\ \A k \in 1 .. n : g[k] = AfterCall(g[k - 1], second[k])
  BY DEF Runs
<1> HIDE DEF m, n, both
<1> DEFINE h == [k \in 0 .. (m + n) |-> IF k <= m THEN f[k] ELSE g[k - m]]
<1>4. h[0] = from /\ h[m + n] = to
  <2>1. CASE n = 0
    BY <1>1, <1>2, <1>3, <2>1
  <2>2. CASE n # 0
    BY <1>1, <1>2, <1>3, <2>2
  <2> QED
    BY <2>1, <2>2
<1>5. ASSUME NEW k \in 1 .. (m + n)
      PROVE  h[k] = AfterCall(h[k - 1], both[k])
  <2>1. CASE k <= m
    <3>1. k \in 1 .. m /\ h[k] = f[k] /\ h[k - 1] = f[k - 1] /\ both[k] = first[k]
      BY <1>1, <2>1
    <3> QED
      BY <1>2, <3>1
  <2>2. CASE k > m
    <3>1. k - m \in 1 .. n /\ h[k] = g[k - m] /\ both[k] = second[k - m]
      BY <1>1, <2>2
    <3>2. h[k - 1] = g[(k - m) - 1]
      <4>1. CASE k = m + 1
        <5>1. h[k - 1] = f[m] /\ (k - m) - 1 = 0
          BY <1>1, <4>1
        <5> QED
          BY <1>2, <1>3, <5>1
      <4>2. CASE k # m + 1
        BY <1>1, <2>2, <4>2
      <4> QED
        BY <4>1, <4>2
    <3> QED
      BY <1>3, <3>1, <3>2
  <2> QED
    BY <1>1, <2>1, <2>2
<1> HIDE DEF h
<1>6. Runs(from, both, to)
  BY <1>1, <1>4, <1>5 DEF Runs
<1> QED
  BY <1>6 DEF both

\* Making the first call leaves the others to be made.
LEMMA RunsOn ==
  ASSUME NEW calls \in Seq(IndexCalls), calls # <<>>, NEW from, NEW to,
         Runs(from, calls, to)
  PROVE  Runs(AfterCall(from, Head(calls)), Tail(calls), to)
<1> DEFINE n == Len(calls)
           rest == Tail(calls)
<1>1. /\ n \in Nat \ {0} /\ Len(rest) = n - 1 /\ Head(calls) = calls[1]
      /\ \A k \in 1 .. (n - 1) : rest[k] = calls[k + 1]
  BY HeadTailProperties
<1>2. PICK f : /\ f[0] = from /\ f[n] = to
               /\ \A k \in 1 .. n : f[k] = AfterCall(f[k - 1], calls[k])
  BY DEF Runs
<1> HIDE DEF n, rest
<1> DEFINE g == [k \in 0 .. (n - 1) |-> f[k + 1]]
<1>3. g[0] = AfterCall(from, calls[1])
  <2>1. g[0] = f[1] /\ 1 \in 1 .. n
    BY <1>1
  <2> QED
    BY <1>2, <2>1
<1>4. g[n - 1] = to
  BY <1>1, <1>2
<1>5. ASSUME NEW k \in 1 .. (n - 1)
      PROVE  g[k] = AfterCall(g[k - 1], rest[k])
  <2>1. k + 1 \in 1 .. n /\ g[k] = f[k + 1] /\ g[k - 1] = f[(k + 1) - 1]
    BY <1>1
  <2> QED
    BY <1>1, <1>2, <2>1
<1> HIDE DEF g
<1>6. Runs(AfterCall(from, calls[1]), rest, to)
  BY <1>1, <1>3, <1>4, <1>5 DEF Runs
<1> QED
  BY <1>1, <1>6 DEF rest

(***************************************************************************)
(* Lists of annotations                                                    *)
(***************************************************************************)

\* The calls for a list are its annotations, one call each.
LEMMA CallsAre ==
  ASSUME NEW what \in {"insert", "remove"}, NEW id \in Nat,
         NEW list \in Seq(Annotations)
  PROVE  /\ Calls(what, id, list) \in Seq(IndexCalls)
         /\ Calls(what, id, <<>>) = <<>>
         /\ \A a \in Annotations :
              /\ [what |-> what, id |-> id, annot |-> a] \in IndexCalls
              /\ Calls(what, id, Append(list, a))
                   = Append(Calls(what, id, list), [what |-> what, id |-> id, annot |-> a])
<1> DEFINE call(a) == [what |-> what, id |-> id, annot |-> a]
<1>1. \A a \in Annotations : call(a) \in IndexCalls
  BY DEF IndexCalls
<1>2. ASSUME NEW l \in Seq(Annotations)
      PROVE  /\ Calls(what, id, l) \in Seq(IndexCalls)
             /\ Len(Calls(what, id, l)) = Len(l)
             /\ \A k \in 1 .. Len(l) : Calls(what, id, l)[k] = call(l[k])
  <2>1. Calls(what, id, l) = [k \in 1 .. Len(l) |-> call(l[k])]
    BY DEF Calls
  <2>2. \A k \in 1 .. Len(l) : call(l[k]) \in IndexCalls
    BY <1>1
  <2> HIDE DEF call
  <2> QED
    BY <2>1, <2>2
<1> HIDE DEF call
<1>3. Calls(what, id, <<>>) = <<>>
  <2>1. <<>> \in Seq(Annotations) /\ Len(<<>>) = 0
    BY EmptySeq
  <2>2. Calls(what, id, <<>>) \in Seq(IndexCalls) /\ Len(Calls(what, id, <<>>)) = 0
    BY <1>2, <2>1
  <2> QED
    BY <2>2, EmptySeq
<1>4. ASSUME NEW a \in Annotations
      PROVE  Calls(what, id, Append(list, a)) = Append(Calls(what, id, list), call(a))
  <2> DEFINE s == Calls(what, id, Append(list, a))
             t == Append(Calls(what, id, list), call(a))
  <2>1. /\ Append(list, a) \in Seq(Annotations)
        /\ Len(Append(list, a)) = Len(list) + 1
        /\ \A k \in 1 .. Len(list) : Append(list, a)[k] = list[k]
        /\ Append(list, a)[Len(list) + 1] = a
    BY AppendProperties
  <2>2. /\ s \in Seq(IndexCalls) /\ Len(s) = Len(list) + 1
        /\ \A k \in 1 .. Len(list) : s[k] = call(list[k])
        /\ s[Len(list) + 1] = call(a)
    <3>1. /\ s \in Seq(IndexCalls) /\ Len(s) = Len(list) + 1
          /\ \A k \in 1 .. (Len(list) + 1) : s[k] = call(Append(list, a)[k])
      BY <1>2, <2>1
    <3>2. Len(list) \in Nat
      OBVIOUS
    <3> HIDE DEF s
    <3> QED
      BY <2>1, <3>1, <3>2
  <2>3. /\ t \in Seq(IndexCalls) /\ Len(t) = Len(list) + 1
        /\ \A k \in 1 .. Len(list) : t[k] = call(list[k])
        /\ t[Len(list) + 1] = call(a)
    BY <1>1, <1>2, AppendProperties
  <2> HIDE DEF s, t
  <2>4. \A k \in 1 .. Len(s) : s[k] = t[k]
    BY <2>2, <2>3
  <2>5. s = t
    BY <2>2, <2>3, <2>4, SeqEqual
  <2> QED
    BY <2>5 DEF s, t
<1> QED
  BY <1>1, <1>2, <1>3, <1>4 DEF call

\* The first n annotations of a list that are in annots, for every n.
Selects(sel, list, annots) ==
  /\ sel[0] = <<>>
  /\ \A n \in 1 .. Len(list) :
       sel[n] = IF list[n] \in annots THEN Append(sel[n - 1], list[n]) ELSE sel[n - 1]

\* What Filtered gives is the last of them.
LEMMA FilteredSelects ==
  ASSUME NEW list \in Seq(Annotations), NEW annots
  PROVE  \E sel \in [0 .. Len(list) -> Seq(Annotations)] :
           Selects(sel, list, annots) /\ Filtered(list, annots) = sel[Len(list)]
<1> DEFINE last == Len(list)
           Right(s) == s = [n \in 0 .. last |->
                              IF n = 0 THEN <<>>
                              ELSE IF list[n] \in annots THEN Append(s[n - 1], list[n])
                              ELSE s[n - 1]]
           upTo == CHOOSE s : Right(s)
           S == Seq(Annotations)
           g == [q \in (1 .. last) \X S |->
                   IF list[q[1]] \in annots THEN Append(q[2], list[q[1]]) ELSE q[2]]
<1>1. last \in Nat /\ <<>> \in S
  BY EmptySeq
<1>2. g \in [(1 .. last) \X S -> S]
  <2>1. ASSUME NEW q \in (1 .. last) \X S
        PROVE  g[q] \in S
    <3>1. q[1] \in 1 .. last /\ q[2] \in S
      OBVIOUS
    <3>2. list[q[1]] \in Annotations
      BY <3>1, ElementOfSeq
    <3>3. Append(q[2], list[q[1]]) \in S
      BY <3>1, <3>2, AppendProperties
    <3> QED
      BY <3>1, <3>3
  <2> QED
    BY <2>1
<1>3. PICK f \in [0 .. last -> S] : Iterates(f, last, <<>>, g)
  <2> HIDE DEF last, S, g
  <2> QED
    BY <1>1, <1>2, IterationExists
<1>4. ASSUME NEW n \in 1 .. last
      PROVE  f[n] = IF list[n] \in annots THEN Append(f[n - 1], list[n]) ELSE f[n - 1]
  <2>1. n - 1 \in 0 .. last /\ f[n - 1] \in S
    BY <1>1, <1>3
  <2>2. f[n] = g[<<n, f[n - 1]>>]
    BY <1>3 DEF Iterates
  <2> QED
    BY <2>1, <2>2
<1>5. f[0] = <<>>
  BY <1>3 DEF Iterates
<1>6. Right(f)
  <2>1. \A n \in 0 .. last : n # 0 => n \in 1 .. last
    BY <1>1
  <2> HIDE DEF last
  <2>2. f = [n \in 0 .. last |-> f[n]]
    BY <1>3
  <2> QED
    BY <1>4, <1>5, <2>1, <2>2
<1>7. Right(upTo)
  <2> HIDE DEF Right
  <2> QED
    BY <1>6
<1>8. /\ upTo[0] = <<>>
      /\ \A n \in 1 .. last :
           upTo[n] = IF list[n] \in annots THEN Append(upTo[n - 1], list[n])
                     ELSE upTo[n - 1]
  <2> HIDE DEF upTo
  <2>1. ASSUME NEW n \in 0 .. last
        PROVE  upTo[n] = IF n = 0 THEN <<>>
                         ELSE IF list[n] \in annots THEN Append(upTo[n - 1], list[n])
                         ELSE upTo[n - 1]
    BY <1>7
  <2> QED
    BY <1>1, <2>1
<1>9. Filtered(list, annots) = upTo[last]
  BY DEF Filtered
<1> HIDE DEF upTo, last
<1>10. \A n \in 0 .. last : upTo[n] = f[n]
  <2> DEFINE Differ == {n \in 0 .. last : upTo[n] # f[n]}
  <2> SUFFICES ASSUME Differ # {} PROVE FALSE
    OBVIOUS
  <2>1. PICK m \in Differ : m \in Nat /\ \A k \in Differ : m <= k
    <3>1. Differ \subseteq Nat
      OBVIOUS
    <3> HIDE DEF Differ
    <3> QED
      BY <3>1, Smallest
  <2>2. m # 0
    BY <1>5, <1>8
  <2>3. m \in 1 .. last /\ m - 1 \in 0 .. last /\ ~(m <= m - 1)
    BY <1>1, <2>2
  <2>4. upTo[m - 1] = f[m - 1]
    BY <2>1, <2>3
  <2> QED
    BY <1>4, <1>8, <2>3, <2>4
<1>11. Filtered(list, annots) = f[last]
  BY <1>1, <1>9, <1>10
<1> QED
  BY <1>3, <1>4, <1>5, <1>11 DEF Selects, last

\* A whole list is the last of its beginnings.
LEMMA WholeSelects ==
  ASSUME NEW list \in Seq(Annotations)
  PROVE  \E sel \in [0 .. Len(list) -> Seq(Annotations)] :
           Selects(sel, list, Annotations) /\ list = sel[Len(list)]
<1> DEFINE last == Len(list)
           sel == [n \in 0 .. last |-> SubSeq(list, 1, n)]
<1>1. last \in Nat
  OBVIOUS
<1>2. ASSUME NEW n \in 0 .. last
      PROVE  /\ sel[n] \in Seq(Annotations) /\ Len(sel[n]) = n
             /\ \A k \in 1 .. n : sel[n][k] = list[k]
  <2>1. \A k \in 1 .. n : list[k] \in Annotations
    BY <1>1, ElementOfSeq
  <2>2. /\ SubSeq(list, 1, n) \in Seq(Annotations)
        /\ Len(SubSeq(list, 1, n)) = n
        /\ \A k \in 1 .. n : SubSeq(list, 1, n)[k] = list[k]
    BY <1>1, <2>1, SubSeqProperties
  <2> QED
    BY <2>2
<1> HIDE DEF sel
<1>3. sel[0] = <<>>
  BY <1>1, <1>2, EmptySeq
<1>4. ASSUME NEW n \in 1 .. last
      PROVE  list[n] \in Annotations /\ sel[n] = Append(sel[n - 1], list[n])
  <2>1. n \in 0 .. last /\ n - 1 \in 0 .. last /\ list[n] \in Annotations
    BY <1>1, ElementOfSeq
  <2> DEFINE t == Append(sel[n - 1], list[n])
  <2>2. /\ t \in Seq(Annotations) /\ Len(t) = n
        /\ \A k \in 1 .. (n - 1) : t[k] = list[k]
        /\ t[n] = list[n]
    BY <1>2, <2>1, AppendProperties
  <2> HIDE DEF t
  <2>3. \A k \in 1 .. Len(sel[n]) : sel[n][k] = t[k]
    BY <1>2, <2>1, <2>2
  <2>4. sel[n] = t
    BY <1>2, <2>1, <2>2, <2>3, SeqEqual
  <2> QED
    BY <2>1, <2>4 DEF t
<1>5. list = sel[last]
  <2>1. last \in 0 .. last
    BY <1>1
  <2>2. /\ sel[last] \in Seq(Annotations) /\ Len(list) = Len(sel[last])
        /\ \A k \in 1 .. Len(list) : list[k] = sel[last][k]
    BY <1>2, <2>1
  <2> HIDE DEF last
  <2> QED
    BY <2>2, SeqEqual
<1>6. sel \in [0 .. last -> Seq(Annotations)]
  BY <1>2 DEF sel
<1> QED
  BY <1>3, <1>4, <1>5, <1>6 DEF Selects

(***************************************************************************)
(* A walk along a list, in closed form                                     *)
(***************************************************************************)

\* The pairs that the first n annotations touch, of those in annots.
Touched(list, annots, n) ==
  {p \in Pairs : \E i \in 1 .. n : list[i] \in annots /\ list[i].pair = p}

\* Those of them whose first annotation is ordered.
Reached(list, annots, n) ==
  {p \in Pairs : \E i \in 1 .. n :
     /\ list[i] \in annots /\ list[i].pair = p /\ list[i].tier2
     /\ \A j \in 1 .. (i - 1) : list[j] \in annots => list[j].pair # p}

Walked(what, id, from, list, annots, n) ==
  LET b == from.bitmaps
      touched == Touched(list, annots, n)
      reached == Reached(list, annots, n)
  IN IF what = "insert"
     THEN At([p \in Pairs |-> IF p \in touched THEN b[p] \cup {id} ELSE b[p]],
             from.trees \cup {p \in reached : b[p] = {}})
     ELSE At([p \in Pairs |-> IF p \in touched THEN b[p] \ {id} ELSE b[p]],
             from.trees \ {p \in reached : b[p] = {id}})

\* One more annotation: its pair is touched, and reached if it is ordered and
\* the first for the pair; one that is not in annots changes nothing.
LEMMA TouchedNext ==
  ASSUME NEW list \in Seq(Annotations), NEW annots, NEW n \in 1 .. Len(list)
  PROVE  LET a == list[n]
             p == a.pair
             touched == Touched(list, annots, n - 1)
             reached == Reached(list, annots, n - 1)
         IN /\ p \in Pairs /\ a \in Annotations /\ reached \subseteq touched
            /\ a \notin annots => /\ Touched(list, annots, n) = touched
                                  /\ Reached(list, annots, n) = reached
            /\ a \in annots => /\ Touched(list, annots, n) = touched \cup {p}
                               /\ Reached(list, annots, n)
                                    = reached \cup {q \in {p} : a.tier2 /\ p \notin touched}
<1> DEFINE a == list[n]
           p == a.pair
           touched == Touched(list, annots, n - 1)
           reached == Reached(list, annots, n - 1)
<1>1. a \in Annotations /\ p \in Pairs
  <2>1. a \in Annotations
    BY ElementOfSeq
  <2> HIDE DEF a
  <2> QED
    BY <2>1 DEF Annotations
<1>2. \A i : i \in 1 .. n <=> i \in 1 .. (n - 1) \/ i = n
  OBVIOUS
<1>3. reached \subseteq touched
  BY DEF Touched, Reached
<1>4. ASSUME NEW q \in Pairs
      PROVE  q \in Touched(list, annots, n)
               <=> q \in touched \/ (a \in annots /\ q = p)
  BY <1>2 DEF Touched
<1>5. ASSUME NEW q \in Pairs
      PROVE  q \in Reached(list, annots, n)
               <=> q \in reached \/ (a \in annots /\ q = p /\ a.tier2 /\ q \notin touched)
  BY <1>2 DEF Touched, Reached
<1>6. Touched(list, annots, n) \subseteq Pairs /\ touched \subseteq Pairs
  BY DEF Touched
<1>7. Reached(list, annots, n) \subseteq Pairs /\ reached \subseteq Pairs
  BY DEF Reached
<1> HIDE DEF a, p, touched, reached
<1>8. a \notin annots => /\ Touched(list, annots, n) = touched
                         /\ Reached(list, annots, n) = reached
  BY <1>4, <1>5, <1>6, <1>7
<1>9. a \in annots => /\ Touched(list, annots, n) = touched \cup {p}
                      /\ Reached(list, annots, n)
                           = reached \cup {q \in {p} : a.tier2 /\ p \notin touched}
  BY <1>1, <1>4, <1>5, <1>6, <1>7
<1> QED
  BY <1>1, <1>3, <1>8, <1>9 DEF a, p, touched, reached

\* The closed form moves by one call at a time.
LEMMA WalkedNext ==
  ASSUME NEW what \in {"insert", "remove"}, NEW id, NEW from,
         NEW list \in Seq(Annotations), NEW annots, NEW n \in 1 .. Len(list),
         list[n] \in annots
  PROVE  Walked(what, id, from, list, annots, n)
           = AfterCall(Walked(what, id, from, list, annots, n - 1),
                       [what |-> what, id |-> id, annot |-> list[n]])
<1> DEFINE a == list[n]
           p == a.pair
           c == [what |-> what, id |-> id, annot |-> a]
           b == from.bitmaps
           t == from.trees
           touched == Touched(list, annots, n - 1)
           reached == Reached(list, annots, n - 1)
           touched2 == Touched(list, annots, n)
           reached2 == Reached(list, annots, n)
<1>0. a \in annots
  OBVIOUS
<1>1. /\ p \in Pairs /\ reached \subseteq touched
      /\ touched2 = touched \cup {p}
      /\ reached2 = reached \cup {q \in {p} : a.tier2 /\ p \notin touched}
  BY <1>0, TouchedNext
<1>2. CASE what = "insert"
  <2> DEFINE b1 == [q \in Pairs |-> IF q \in touched THEN b[q] \cup {id} ELSE b[q]]
             b2 == [q \in Pairs |-> IF q \in touched2 THEN b[q] \cup {id} ELSE b[q]]
             t1 == t \cup {q \in reached : b[q] = {}}
             t2 == t \cup {q \in reached2 : b[q] = {}}
  <2>1. /\ Walked(what, id, from, list, annots, n - 1) = At(b1, t1)
        /\ Walked(what, id, from, list, annots, n) = At(b2, t2)
    BY <1>2 DEF Walked
  <2>2. AfterCall(At(b1, t1), c)
          = At([b1 EXCEPT ![p] = @ \cup {id}],
               IF a.tier2 /\ b1[p] = {} THEN t1 \cup {p} ELSE t1)
    BY <1>2 DEF AfterCall, At
  <2> HIDE DEF touched, touched2, reached, reached2, a, p, b, t
  <2>3. b2 = [b1 EXCEPT ![p] = @ \cup {id}]
    <3>1. ASSUME NEW q \in Pairs
          PROVE  b2[q] = IF q = p THEN b1[p] \cup {id} ELSE b1[q]
      BY <1>1
    <3> HIDE DEF b1
    <3> QED
      BY <1>1, <3>1 DEF b1
  <2>4. b1[p] = {} <=> p \notin touched /\ b[p] = {}
    BY <1>1
  <2>5. t2 = IF a.tier2 /\ b1[p] = {} THEN t1 \cup {p} ELSE t1
    <3> HIDE DEF b1, b2
    <3>1. CASE a.tier2 /\ b1[p] = {}
      BY <1>1, <2>4, <3>1
    <3>2. CASE ~(a.tier2 /\ b1[p] = {})
      BY <1>1, <2>4, <3>2
    <3> QED
      BY <3>1, <3>2
  <2> QED
    BY <1>0, <2>1, <2>2, <2>3, <2>5 DEF c, a
<1>3. CASE what = "remove"
  <2> DEFINE b1 == [q \in Pairs |-> IF q \in touched THEN b[q] \ {id} ELSE b[q]]
             b2 == [q \in Pairs |-> IF q \in touched2 THEN b[q] \ {id} ELSE b[q]]
             t1 == t \ {q \in reached : b[q] = {id}}
             t2 == t \ {q \in reached2 : b[q] = {id}}
  <2>1. /\ Walked(what, id, from, list, annots, n - 1) = At(b1, t1)
        /\ Walked(what, id, from, list, annots, n) = At(b2, t2)
    BY <1>3 DEF Walked
  <2>2. AfterCall(At(b1, t1), c)
          = IF b1[p] = {} THEN At(b1, t1)
            ELSE At([b1 EXCEPT ![p] = @ \ {id}],
                    IF a.tier2 /\ b1[p] \ {id} = {} THEN t1 \ {p} ELSE t1)
    BY <1>3 DEF AfterCall, At
  <2> HIDE DEF touched, touched2, reached, reached2, a, p, b, t
  <2>3. b1[p] = IF p \in touched THEN b[p] \ {id} ELSE b[p]
    BY <1>1
  <2>4. CASE b1[p] = {}
    <3>1. ASSUME NEW q \in Pairs
          PROVE  b2[q] = b1[q]
      BY <1>1, <2>4
    <3>2. t2 = t1
      <4> HIDE DEF b1, b2
      <4> QED
        BY <1>1, <2>3, <2>4
    <3>3. b2 = b1
      BY <3>1
    <3> QED
      BY <1>0, <2>1, <2>2, <2>4, <3>2, <3>3 DEF c, a
  <2>5. CASE b1[p] # {}
    <3>1. b2 = [b1 EXCEPT ![p] = @ \ {id}]
      <4>1. ASSUME NEW q \in Pairs
            PROVE  b2[q] = IF q = p THEN b1[p] \ {id} ELSE b1[q]
        BY <1>1
      <4> HIDE DEF b1
      <4> QED
        BY <1>1, <4>1 DEF b1
    <3>2. b1[p] \ {id} = {} <=> p \notin touched /\ b[p] = {id}
      <4> HIDE DEF b1
      <4> QED
        BY <2>3, <2>5
    <3>3. t2 = IF a.tier2 /\ b1[p] \ {id} = {} THEN t1 \ {p} ELSE t1
      <4> HIDE DEF b1, b2
      <4>1. CASE a.tier2 /\ b1[p] \ {id} = {}
        BY <1>1, <3>2, <4>1
      <4>2. CASE ~(a.tier2 /\ b1[p] \ {id} = {})
        BY <1>1, <3>2, <4>2
      <4> QED
        BY <4>1, <4>2
    <3> QED
      BY <1>0, <2>1, <2>2, <2>5, <3>1, <3>3 DEF c, a
  <2> QED
    BY <2>4, <2>5
<1> QED
  BY <1>2, <1>3

\* The calls for the selected annotations lead to the closed form.
LEMMA WalkRuns ==
  ASSUME NEW what \in {"insert", "remove"}, NEW id \in Nat, NEW b, NEW t,
         b = [p \in Pairs |-> b[p]],
         NEW list \in Seq(Annotations), NEW annots,
         NEW sel \in [0 .. Len(list) -> Seq(Annotations)], Selects(sel, list, annots)
  PROVE  Runs(At(b, t), Calls(what, id, sel[Len(list)]),
              Walked(what, id, At(b, t), list, annots, Len(list)))
<1> DEFINE last == Len(list)
           from == At(b, t)
           Right(n) == Runs(from, Calls(what, id, sel[n]),
                            Walked(what, id, from, list, annots, n))
           Wrong == {n \in 0 .. last : ~Right(n)}
<1>1. last \in Nat
  OBVIOUS
<1>2. SUFFICES ASSUME Wrong # {} PROVE FALSE
  BY <1>1
<1>3. PICK m \in Wrong : m \in Nat /\ \A k \in Wrong : m <= k
  <2>1. Wrong \subseteq Nat
    OBVIOUS
  <2> HIDE DEF Wrong
  <2> QED
    BY <1>2, <2>1, Smallest
<1>4. CASE m = 0
  <2>1. Touched(list, annots, 0) = {} /\ Reached(list, annots, 0) = {}
    BY DEF Touched, Reached
  <2>2. Walked(what, id, from, list, annots, 0) = from
    <3>1. from.bitmaps = b /\ from.trees = t
      BY DEF At
    <3>2. CASE what = "insert"
      BY <2>1, <3>1, <3>2 DEF Walked
    <3>3. CASE what = "remove"
      BY <2>1, <3>1, <3>3 DEF Walked
    <3> QED
      BY <3>2, <3>3
  <2>3. Calls(what, id, sel[0]) = <<>>
    BY CallsAre, EmptySeq DEF Selects
  <2>4. Right(0)
    BY <2>2, <2>3, RunsNone
  <2> QED
    BY <1>4, <2>4
<1>5. CASE m # 0
  <2>1. m \in 1 .. last /\ m - 1 \in 0 .. last /\ ~(m <= m - 1)
    BY <1>1, <1>5
  <2>2. Right(m - 1)
    BY <1>3, <2>1
  <2>3. /\ sel[m - 1] \in Seq(Annotations) /\ list[m] \in Annotations
        /\ sel[m] = IF list[m] \in annots THEN Append(sel[m - 1], list[m]) ELSE sel[m - 1]
    BY <2>1, ElementOfSeq DEF Selects
  <2> DEFINE c == [what |-> what, id |-> id, annot |-> list[m]]
             before == Walked(what, id, from, list, annots, m - 1)
  <2>5. CASE list[m] \in annots
    <3>1. /\ c \in IndexCalls /\ Calls(what, id, sel[m - 1]) \in Seq(IndexCalls)
          /\ Calls(what, id, sel[m]) = Append(Calls(what, id, sel[m - 1]), c)
      <4>1. sel[m] = Append(sel[m - 1], list[m])
        BY <2>3, <2>5
      <4> DEFINE prior == sel[m - 1]
      <4>2. prior \in Seq(Annotations) /\ list[m] \in Annotations
        BY <2>3
      <4> HIDE DEF Wrong, Right, from, prior
      <4>3. /\ c \in IndexCalls /\ Calls(what, id, prior) \in Seq(IndexCalls)
            /\ Calls(what, id, Append(prior, list[m])) = Append(Calls(what, id, prior), c)
        BY <4>2, CallsAre
      <4> QED
        BY <4>1, <4>3 DEF prior
    <3>2. Runs(from, Append(Calls(what, id, sel[m - 1]), c), AfterCall(before, c))
      <4>1. Runs(from, Calls(what, id, sel[m - 1]), before)
        BY <2>2
      <4> HIDE DEF c, before, from
      <4> QED
        BY <3>1, <4>1, RunsFurther
    <3>3. Walked(what, id, from, list, annots, m) = AfterCall(before, c)
      BY <2>1, <2>5, WalkedNext
    <3>4. Right(m)
      BY <3>1, <3>2, <3>3
    <3> QED
      BY <3>4
  <2>6. CASE list[m] \notin annots
    <3>1. /\ Touched(list, annots, m) = Touched(list, annots, m - 1)
          /\ Reached(list, annots, m) = Reached(list, annots, m - 1)
      BY <2>1, <2>6, TouchedNext
    <3>2. Walked(what, id, from, list, annots, m) = before
      BY <3>1 DEF Walked
    <3>3. Right(m)
      BY <2>2, <2>3, <2>6, <3>2
    <3> QED
      BY <3>3
  <2> QED
    BY <2>5, <2>6
<1> QED
  BY <1>4, <1>5

(***************************************************************************)
(* What a handler walks: built-in annotations, then attributes             *)
(***************************************************************************)

\* Built-in annotations of different names, as the handlers list them.
Named(built) ==
  /\ built \in Seq(Annotations)
  /\ \A i \in 1 .. Len(built) : built[i].pair[1] \in BuiltInNames
  /\ \A i, j \in 1 .. Len(built) : built[i].pair[1] = built[j].pair[1] => i = j

\* The annotations of such a list that are in annots, and those of them that
\* reach the trees, as EntityDb writes them.
Walks(built, attributes, annots) ==
  ({built[i] : i \in 1 .. Len(built)} \cup UserAnnots(attributes)) \cap annots

FirstWalks(built, attributes, annots) ==
  ({built[i] : i \in 1 .. Len(built)} \cap annots) \cup Firsts(attributes, annots)

\* The closed form of a walk is that of EntityDb.
LEMMA WalkIsHandler ==
  ASSUME NEW built, Named(built), NEW attributes \in AttrLists, NEW annots
  PROVE  LET list == built \o attributes
         IN /\ list \in Seq(Annotations)
            /\ Touched(list, annots, Len(list))
                 = PairsOf(Walks(built, attributes, annots))
            /\ Reached(list, annots, Len(list))
                 = PairsOf({a \in FirstWalks(built, attributes, annots) : a.tier2})
<1> DEFINE m == Len(built)
           n == Len(attributes)
           list == built \o attributes
           builtIns == {built[i] : i \in 1 .. m}
<1>1. /\ built \in Seq(Annotations) /\ attributes \in Seq(Annotations)
      /\ m \in Nat /\ n \in Nat /\ DOMAIN attributes = 1 .. n
  <2>1. attributes \in Seq(Attributes)
    BY UserAnnotsTyped
  <2>2. Attributes \subseteq Annotations
    BY DEF Attributes, Annotations, Pairs
  <2> QED
    BY <2>1, <2>2 DEF Named
<1>2. /\ list \in Seq(Annotations) /\ Len(list) = m + n
      /\ \A i \in 1 .. (m + n) :
           list[i] = IF i <= m THEN built[i] ELSE attributes[i - m]
  BY <1>1, ConcatProperties
<1>3. /\ \A i \in 1 .. m : /\ built[i] \in Annotations
                           /\ built[i].pair \in Pairs
                           /\ built[i].pair[1] \in BuiltInNames
      /\ \A i \in 1 .. n : /\ attributes[i] \in Annotations
                           /\ attributes[i].pair \in Pairs
                           /\ attributes[i].pair[1] \notin BuiltInNames
  <2>1. ASSUME NEW i \in 1 .. m
        PROVE  built[i] \in Annotations /\ built[i].pair[1] \in BuiltInNames
    BY <1>1, ElementOfSeq DEF Named
  <2>2. ASSUME NEW i \in 1 .. n
        PROVE  attributes[i] \in Attributes /\ attributes[i] \in Annotations
    <3>1. attributes[i] \in UserAnnots(attributes)
      BY <1>1 DEF UserAnnots
    <3> QED
      BY <3>1, UserAnnotsTyped
  <2>3. ASSUME NEW i \in 1 .. n
        PROVE  attributes[i].pair[1] \notin BuiltInNames
    <3>1. attributes[i].pair \in UserPairs
      BY <2>2 DEF Attributes
    <3> QED
      BY <3>1, UserPairsUnnamed
  <2>4. \A a \in Annotations : a.pair \in Pairs
    BY DEF Annotations
  <2> QED
    BY <2>1, <2>2, <2>3, <2>4
<1>4. \A i, j \in 1 .. m : built[i].pair = built[j].pair => i = j
  BY DEF Named
<1> HIDE DEF m, n, list
<1>5. ASSUME NEW i \in 1 .. m
      PROVE  i \in 1 .. (m + n) /\ list[i] = built[i]
  BY <1>1, <1>2
<1>6. ASSUME NEW i \in 1 .. n
      PROVE  m + i \in 1 .. (m + n) /\ list[m + i] = attributes[i]
  BY <1>1, <1>2
<1>7. ASSUME NEW k \in 1 .. (m + n)
      PROVE  k \in 1 .. m \/ (k - m \in 1 .. n /\ k = m + (k - m) /\ k > m)
  BY <1>1
<1>8. ASSUME NEW p \in Pairs
      PROVE  p \in Touched(list, annots, m + n)
               <=> p \in PairsOf(Walks(built, attributes, annots))
  <2>1. p \in PairsOf(Walks(built, attributes, annots))
          <=> \/ \E i \in 1 .. m : built[i] \in annots /\ built[i].pair = p
              \/ \E i \in 1 .. n : attributes[i] \in annots /\ attributes[i].pair = p
    BY <1>1 DEF PairsOf, Walks, UserAnnots, m
  <2>2. p \in Touched(list, annots, m + n)
          <=> \E i \in 1 .. (m + n) : list[i] \in annots /\ list[i].pair = p
    BY DEF Touched
  <2> QED
    BY <1>5, <1>6, <1>7, <2>1, <2>2
<1>9. ASSUME NEW p \in Pairs
      PROVE  p \in Reached(list, annots, m + n)
               <=> p \in PairsOf({a \in FirstWalks(built, attributes, annots) : a.tier2})
  <2> DEFINE Leads(k) == /\ list[k] \in annots /\ list[k].pair = p /\ list[k].tier2
                         /\ \A j \in 1 .. (k - 1) : list[j] \in annots => list[j].pair # p
             First(k) == /\ attributes[k] \in annots /\ attributes[k].pair = p
                         /\ attributes[k].tier2
                         /\ \A j \in 1 .. (k - 1) :
                              attributes[j] \in annots => attributes[j].pair # p
  <2>1. p \in PairsOf({a \in FirstWalks(built, attributes, annots) : a.tier2})
          <=> \/ \E i \in 1 .. m : built[i] \in annots /\ built[i].pair = p /\ built[i].tier2
              \/ \E i \in 1 .. n : First(i)
    BY <1>1 DEF PairsOf, FirstWalks, Firsts, m
  <2>2. p \in Reached(list, annots, m + n) <=> \E i \in 1 .. (m + n) : Leads(i)
    BY DEF Reached
  <2>3. ASSUME NEW i \in 1 .. m
        PROVE  Leads(i) <=> built[i] \in annots /\ built[i].pair = p /\ built[i].tier2
    <3>1. ASSUME NEW j \in 1 .. (i - 1)
          PROVE  j \in 1 .. m /\ j # i /\ list[j] = built[j]
      <4>1. j \in 1 .. m /\ j # i
        BY <1>1
      <4> QED
        BY <1>5, <4>1
    <3>2. \A j \in 1 .. (i - 1) : built[i].pair = p => list[j].pair # p
      BY <1>4, <3>1
    <3> QED
      BY <1>5, <3>2
  <2>4. ASSUME NEW i \in 1 .. n
        PROVE  Leads(m + i) <=> First(i)
    <3>1. ASSUME NEW j \in 1 .. ((m + i) - 1)
          PROVE  \/ j \in 1 .. m
                 \/ (j - m \in 1 .. (i - 1) /\ j - m \in 1 .. n /\ j = m + (j - m))
      BY <1>1
    <3>2. ASSUME NEW j \in 1 .. (i - 1)
          PROVE  m + j \in 1 .. ((m + i) - 1) /\ j \in 1 .. n
      BY <1>1
    <3>3. ASSUME NEW j \in 1 .. m, attributes[i].pair = p
          PROVE  list[j].pair # p
      BY <1>3, <1>5, <3>3
    <3>4. ASSUME attributes[i].pair = p
          PROVE  (\A j \in 1 .. ((m + i) - 1) : list[j] \in annots => list[j].pair # p)
                   <=> \A j \in 1 .. (i - 1) :
                         attributes[j] \in annots => attributes[j].pair # p
      BY <1>6, <3>1, <3>2, <3>3, <3>4
    <3> QED
      BY <1>6, <3>4
  <2> HIDE DEF Leads, First
  <2>5. (\E i \in 1 .. (m + n) : Leads(i))
          <=> \/ \E i \in 1 .. m : Leads(i)
              \/ \E i \in 1 .. n : Leads(m + i)
    BY <1>5, <1>6, <1>7
  <2> QED
    BY <2>1, <2>2, <2>3, <2>4, <2>5
<1>10. /\ PairsOf(Walks(built, attributes, annots)) \subseteq Pairs
       /\ PairsOf({a \in FirstWalks(built, attributes, annots) : a.tier2}) \subseteq Pairs
  <2>1. /\ Walks(built, attributes, annots) \subseteq Annotations
        /\ FirstWalks(built, attributes, annots) \subseteq Annotations
    BY <1>1, <1>3 DEF Walks, FirstWalks, Firsts, UserAnnots, m
  <2> QED
    BY <2>1 DEF PairsOf, Annotations
<1>11. /\ Touched(list, annots, m + n) \subseteq Pairs
       /\ Reached(list, annots, m + n) \subseteq Pairs
  BY DEF Touched, Reached
<1>12. /\ Touched(list, annots, m + n) = PairsOf(Walks(built, attributes, annots))
       /\ Reached(list, annots, m + n)
            = PairsOf({a \in FirstWalks(built, attributes, annots) : a.tier2})
  BY <1>8, <1>9, <1>10, <1>11
<1> QED
  BY <1>2, <1>12 DEF list

\* What EntityDb makes of bitmaps b and trees t.
Handled(what, id, b, t, annots, firsts) ==
  IF what = "insert"
  THEN At(InsertedBitmaps(b, annots, id), InsertedTrees(t, b, firsts))
  ELSE At(RemovedBitmaps(b, annots, id), RemovedTrees(t, b, firsts, id))

LEMMA WalkedIsHandled ==
  ASSUME NEW built, Named(built), NEW attributes \in AttrLists, NEW annots,
         NEW what \in {"insert", "remove"}, NEW id, NEW b, NEW t
  PROVE  LET list == built \o attributes
         IN Walked(what, id, At(b, t), list, annots, Len(list))
              = Handled(what, id, b, t, Walks(built, attributes, annots),
                        FirstWalks(built, attributes, annots))
<1> DEFINE list == built \o attributes
           w == Walks(built, attributes, annots)
           f == FirstWalks(built, attributes, annots)
<1>1. /\ Touched(list, annots, Len(list)) = PairsOf(w)
      /\ Reached(list, annots, Len(list)) = PairsOf({a \in f : a.tier2})
  BY WalkIsHandler
<1>2. At(b, t).bitmaps = b /\ At(b, t).trees = t
  BY DEF At
<1> DEFINE touched == Touched(list, annots, Len(list))
           reached == Reached(list, annots, Len(list))
           covered == PairsOf(w)
           ordered == PairsOf({a \in f : a.tier2})
<1> HIDE DEF list, w, f
<1>3. ASSUME what = "insert"
      PROVE  Walked(what, id, At(b, t), list, annots, Len(list))
               = Handled(what, id, b, t, w, f)
  <2> DEFINE b1 == [p \in Pairs |-> IF p \in touched THEN b[p] \cup {id} ELSE b[p]]
             t1 == t \cup {p \in reached : b[p] = {}}
             b2 == InsertedBitmaps(b, w, id)
             t2 == InsertedTrees(t, b, f)
  <2>1. Walked(what, id, At(b, t), list, annots, Len(list)) = At(b1, t1)
    BY <1>2, <1>3 DEF Walked
  <2>2. Handled(what, id, b, t, w, f) = At(b2, t2)
    BY <1>3 DEF Handled
  <2>3. b2 = [p \in Pairs |-> IF p \in covered THEN b[p] \cup {id} ELSE b[p]]
    BY DEF InsertedBitmaps
  <2>4. t2 = t \cup {p \in ordered : b[p] = {}}
    BY DEF InsertedTrees
  <2>5. touched = covered /\ reached = ordered
    BY <1>1
  <2> HIDE DEF touched, reached, covered, ordered
  <2>6. b1 = b2
    BY ONLY <2>3, <2>5
  <2>7. t1 = t2
    BY ONLY <2>4, <2>5
  <2> HIDE DEF b1, b2, t1, t2
  <2> QED
    BY ONLY <2>1, <2>2, <2>6, <2>7
<1>4. ASSUME what = "remove"
      PROVE  Walked(what, id, At(b, t), list, annots, Len(list))
               = Handled(what, id, b, t, w, f)
  <2> DEFINE b1 == [p \in Pairs |-> IF p \in touched THEN b[p] \ {id} ELSE b[p]]
             t1 == t \ {p \in reached : b[p] = {id}}
             b2 == RemovedBitmaps(b, w, id)
             t2 == RemovedTrees(t, b, f, id)
  <2>1. Walked(what, id, At(b, t), list, annots, Len(list)) = At(b1, t1)
    BY <1>2, <1>4 DEF Walked
  <2>2. Handled(what, id, b, t, w, f) = At(b2, t2)
    BY <1>4 DEF Handled
  <2>3. b2 = [p \in Pairs |-> IF p \in covered THEN b[p] \ {id} ELSE b[p]]
    BY DEF RemovedBitmaps
  <2>4. t2 = t \ {p \in ordered : b[p] = {id}}
    BY DEF RemovedTrees
  <2>5. touched = covered /\ reached = ordered
    BY <1>1
  <2> HIDE DEF touched, reached, covered, ordered
  <2>6. b1 = b2
    BY ONLY <2>3, <2>5
  <2>7. t1 = t2
    BY ONLY <2>4, <2>5
  <2> HIDE DEF b1, b2, t1, t2
  <2> QED
    BY ONLY <2>1, <2>2, <2>6, <2>7
<1> QED
  BY <1>3, <1>4 DEF list, w, f

\* The calls for the annotations of a list that are in annots.
LEMMA FilteredRuns ==
  ASSUME NEW built, Named(built), NEW attributes \in AttrLists, NEW annots,
         NEW what \in {"insert", "remove"}, NEW id \in Nat, NEW t,
         NEW b, b = [p \in Pairs |-> b[p]]
  PROVE  LET calls == Calls(what, id, Filtered(built \o attributes, annots))
         IN /\ calls \in Seq(IndexCalls)
            /\ Runs(At(b, t), calls,
                    Handled(what, id, b, t, Walks(built, attributes, annots),
                            FirstWalks(built, attributes, annots)))
<1> DEFINE list == built \o attributes
<1>1. list \in Seq(Annotations)
  BY WalkIsHandler
<1>2. Walked(what, id, At(b, t), list, annots, Len(list))
        = Handled(what, id, b, t, Walks(built, attributes, annots),
                  FirstWalks(built, attributes, annots))
  BY WalkedIsHandled
<1> HIDE DEF list
<1>3. PICK sel \in [0 .. Len(list) -> Seq(Annotations)] :
        Selects(sel, list, annots) /\ Filtered(list, annots) = sel[Len(list)]
  BY <1>1, FilteredSelects
<1>4. Len(list) \in 0 .. Len(list)
  BY <1>1
<1>5. Calls(what, id, sel[Len(list)]) \in Seq(IndexCalls)
  BY <1>3, <1>4, CallsAre
<1>6. Runs(At(b, t), Calls(what, id, sel[Len(list)]),
           Walked(what, id, At(b, t), list, annots, Len(list)))
  BY <1>1, <1>3, WalkRuns
<1> QED
  BY <1>2, <1>3, <1>5, <1>6 DEF list

\* The calls for a whole list.
LEMMA WholeRuns ==
  ASSUME NEW built, Named(built), NEW attributes \in AttrLists,
         NEW what \in {"insert", "remove"}, NEW id \in Nat, NEW t,
         NEW b, b = [p \in Pairs |-> b[p]]
  PROVE  LET calls == Calls(what, id, built \o attributes)
         IN /\ calls \in Seq(IndexCalls)
            /\ Runs(At(b, t), calls,
                    Handled(what, id, b, t, Walks(built, attributes, Annotations),
                            FirstWalks(built, attributes, Annotations)))
<1> DEFINE list == built \o attributes
<1>1. list \in Seq(Annotations)
  BY WalkIsHandler
<1>2. Walked(what, id, At(b, t), list, Annotations, Len(list))
        = Handled(what, id, b, t, Walks(built, attributes, Annotations),
                  FirstWalks(built, attributes, Annotations))
  BY WalkedIsHandled
<1> HIDE DEF list
<1>3. PICK sel \in [0 .. Len(list) -> Seq(Annotations)] :
        Selects(sel, list, Annotations) /\ list = sel[Len(list)]
  BY <1>1, WholeSelects
<1>4. Calls(what, id, list) \in Seq(IndexCalls)
  BY <1>1, CallsAre
<1>5. Runs(At(b, t), Calls(what, id, sel[Len(list)]),
           Walked(what, id, At(b, t), list, Annotations, Len(list)))
  BY <1>1, <1>3, WalkRuns
<1> QED
  BY <1>2, <1>3, <1>4, <1>5 DEF list

\* The one call that moves an entity into or out of one pair.
LEMMA SingleRuns ==
  ASSUME NEW a \in Annotations, NEW what \in {"insert", "remove"}, NEW id \in Nat,
         NEW t, NEW b, b = [p \in Pairs |-> b[p]]
  PROVE  LET calls == Calls(what, id, <<a>>)
         IN /\ calls \in Seq(IndexCalls)
            /\ Runs(At(b, t), calls, Handled(what, id, b, t, {a}, {a}))
<1> DEFINE c == [what |-> what, id |-> id, annot |-> a]
<1>1. <<>> \in Seq(Annotations) /\ <<>> \in Seq(IndexCalls)
  BY EmptySeq
<1>2. c \in IndexCalls
  BY DEF IndexCalls
<1>3. Calls(what, id, <<a>>) = Append(<<>>, c)
  <2>1. <<a>> = Append(<<>>, a)
    OBVIOUS
  <2>2. Calls(what, id, Append(<<>>, a)) = Append(Calls(what, id, <<>>), c)
    BY <1>1, CallsAre
  <2>3. Calls(what, id, <<>>) = <<>>
    BY <1>1, CallsAre
  <2> QED
    BY <2>1, <2>2, <2>3
<1>4. Runs(At(b, t), Append(<<>>, c), AfterCall(At(b, t), c))
  <2>1. Runs(At(b, t), <<>>, At(b, t))
    BY RunsNone
  <2> HIDE DEF c
  <2> QED
    BY <1>1, <1>2, <2>1, RunsFurther
<1>5. Append(<<>>, c) \in Seq(IndexCalls)
  BY <1>1, <1>2, AppendProperties
<1>6. AfterCall(At(b, t), c) = Handled(what, id, b, t, {a}, {a})
  <2> DEFINE p == a.pair
  <2>1. At(b, t).bitmaps = b /\ At(b, t).trees = t
    BY DEF At
  <2>2. p \in Pairs
    BY DEF Annotations
  <2>3. /\ \A q : q \in PairsOf({a}) <=> q = p
        /\ \A q : q \in PairsOf({x \in {a} : x.tier2}) <=> q = p /\ a.tier2
    BY DEF PairsOf
  <2>4. CASE what = "insert"
    <3>1. [b EXCEPT ![p] = @ \cup {id}] = InsertedBitmaps(b, {a}, id)
      BY <2>2, <2>3 DEF InsertedBitmaps
    <3>2. (IF a.tier2 /\ b[p] = {} THEN t \cup {p} ELSE t) = InsertedTrees(t, b, {a})
      BY <2>2, <2>3 DEF InsertedTrees
    <3> QED
      BY <2>1, <2>4, <3>1, <3>2 DEF AfterCall, Handled
  <2>5. CASE what = "remove" /\ b[p] = {}
    <3>1. b = RemovedBitmaps(b, {a}, id)
      <4>1. ASSUME NEW q \in Pairs
            PROVE  b[q] = IF q \in PairsOf({a}) THEN b[q] \ {id} ELSE b[q]
        BY <2>3, <2>5
      <4> QED
        BY <4>1 DEF RemovedBitmaps
    <3>2. t = RemovedTrees(t, b, {a}, id)
      BY <2>3, <2>5 DEF RemovedTrees
    <3> QED
      BY <2>1, <2>5, <3>1, <3>2 DEF AfterCall, Handled
  <2>6. CASE what = "remove" /\ b[p] # {}
    <3>1. [b EXCEPT ![p] = @ \ {id}] = RemovedBitmaps(b, {a}, id)
      BY <2>2, <2>3 DEF RemovedBitmaps
    <3>2. (IF a.tier2 /\ b[p] \ {id} = {} THEN t \ {p} ELSE t) = RemovedTrees(t, b, {a}, id)
      <4>1. b[p] \ {id} = {} <=> b[p] = {id}
        BY <2>6
      <4> QED
        BY <2>3, <4>1 DEF RemovedTrees
    <3> QED
      BY <2>1, <2>6, <3>1, <3>2 DEF AfterCall, Handled
  <2> QED
    BY <2>4, <2>5, <2>6
<1> HIDE DEF c
<1> QED
  BY <1>3, <1>4, <1>5, <1>6

(***************************************************************************)
(* The handlers                                                            *)
(***************************************************************************)

\* The set of a list is that of its parts.
LEMMA ListSet ==
  ASSUME NEW built, Named(built), NEW attributes \in AttrLists
  PROVE  LET list == built \o attributes
         IN {list[k] : k \in DOMAIN list}
              = {built[i] : i \in 1 .. Len(built)} \cup UserAnnots(attributes)
<1> DEFINE m == Len(built)
           n == Len(attributes)
           list == built \o attributes
<1>1. /\ built \in Seq(Annotations) /\ attributes \in Seq(Annotations)
      /\ m \in Nat /\ n \in Nat /\ DOMAIN attributes = 1 .. n
  <2>1. attributes \in Seq(Attributes)
    BY UserAnnotsTyped
  <2>2. Attributes \subseteq Annotations
    BY DEF Attributes, Annotations, Pairs
  <2> QED
    BY <2>1, <2>2 DEF Named
<1>2. /\ DOMAIN list = 1 .. (m + n)
      /\ \A i \in 1 .. (m + n) :
           list[i] = IF i <= m THEN built[i] ELSE attributes[i - m]
  BY <1>1, ConcatProperties
<1> HIDE DEF m, n, list
<1>3. ASSUME NEW a
      PROVE  (\E k \in DOMAIN list : list[k] = a)
               <=> \/ \E i \in 1 .. m : built[i] = a
                   \/ \E i \in 1 .. n : attributes[i] = a
  <2>1. ASSUME NEW i \in 1 .. m
        PROVE  i \in 1 .. (m + n) /\ list[i] = built[i]
    BY <1>1, <1>2
  <2>2. ASSUME NEW i \in 1 .. n
        PROVE  m + i \in 1 .. (m + n) /\ list[m + i] = attributes[i]
    BY <1>1, <1>2
  <2>3. ASSUME NEW k \in 1 .. (m + n)
        PROVE  \/ k \in 1 .. m /\ list[k] = built[k]
               \/ k - m \in 1 .. n /\ list[k] = attributes[k - m]
    BY <1>1, <1>2
  <2> QED
    BY <1>2, <2>1, <2>2, <2>3
<1>4. {list[k] : k \in DOMAIN list}
        = {built[i] : i \in 1 .. m} \cup {attributes[i] : i \in 1 .. n}
  BY <1>3
<1> QED
  BY <1>1, <1>4 DEF list, m, UserAnnots

\* The content type alone, as update lists it.
LEMMA ContentTypeNamed ==
  ASSUME NEW contentType \in ContentTypes
  PROVE  LET built == <<ContentTypeAnnot(contentType)>>
         IN /\ Named(built)
            /\ {built[i] : i \in 1 .. Len(built)} = {ContentTypeAnnot(contentType)}
<1> DEFINE c == ContentTypeAnnot(contentType)
           built == <<c>>
<1>1. c \in Annotations /\ c.pair[1] \in BuiltInNames
  BY DEF ContentTypeAnnot, Annot, Annotations, Pairs, BuiltInPairs, BuiltInNames
<1> HIDE DEF c
<1>2. built \in Seq(Annotations) /\ Len(built) = 1 /\ built[1] = c
  BY <1>1
<1> HIDE DEF built
<1>3. \A i : i \in 1 .. Len(built) <=> i = 1
  BY <1>2
<1>4. Named(built)
  BY <1>1, <1>2, <1>3 DEF Named
<1>5. {built[i] : i \in 1 .. Len(built)} = {c}
  BY <1>2, <1>3
<1> QED
  BY <1>4, <1>5 DEF built, c

\* The seven annotations that create and delete list.
LEMMA BuiltInListNamed ==
  ASSUME NEW creator \in Accounts, NEW owner \in Accounts, NEW key \in Keys,
         NEW createdAt \in Heights, NEW expiresAt \in Heights,
         NEW contentType \in ContentTypes
  PROVE  LET built == BuiltInList(creator, owner, key, createdAt, expiresAt, contentType)
         IN /\ Named(built)
            /\ {built[i] : i \in 1 .. Len(built)}
                 = BuiltInAnnots(creator, owner, key, createdAt, expiresAt, contentType)
<1> DEFINE built == BuiltInList(creator, owner, key, createdAt, expiresAt, contentType)
           a1 == Annot("$all", "", FALSE)
           a2 == Annot("$creator", creator, FALSE)
           a3 == Annot("$createdAtBlock", createdAt, TRUE)
           a4 == Annot("$owner", owner, FALSE)
           a5 == Annot("$key", key, FALSE)
           a6 == Annot("$expiration", expiresAt, TRUE)
           a7 == ContentTypeAnnot(contentType)
<1>1. /\ a1.pair[1] = "$all" /\ a2.pair[1] = "$creator"
      /\ a3.pair[1] = "$createdAtBlock" /\ a4.pair[1] = "$owner"
      /\ a5.pair[1] = "$key" /\ a6.pair[1] = "$expiration"
      /\ a7.pair[1] = "$contentType"
  BY DEF Annot, ContentTypeAnnot
<1>2. BuiltInAnnots(creator, owner, key, createdAt, expiresAt, contentType)
        = {a1, a2, a3, a4, a5, a6, a7}
  BY DEF BuiltInAnnots
<1>3. {a1, a2, a3, a4, a5, a6, a7} \subseteq Annotations
  BY <1>2, BuiltInAnnotsTyped DEF BuiltIn
<1>4. built = <<a1, a2, a3, a4, a5, a6, a7>>
  BY DEF BuiltInList
<1> HIDE DEF built, a1, a2, a3, a4, a5, a6, a7
<1>5. /\ built \in Seq(Annotations) /\ Len(built) = 7
      /\ built[1] = a1 /\ built[2] = a2 /\ built[3] = a3 /\ built[4] = a4
      /\ built[5] = a5 /\ built[6] = a6 /\ built[7] = a7
  BY <1>3, <1>4
<1>6. \A i : i \in 1 .. Len(built) <=> i \in {1, 2, 3, 4, 5, 6, 7}
  BY <1>5
<1>7. Named(built)
  <2>1. \A i \in 1 .. Len(built) : built[i].pair[1] \in BuiltInNames
    BY <1>1, <1>5, <1>6 DEF BuiltInNames
  <2>2. ASSUME NEW i \in 1 .. Len(built), NEW j \in 1 .. Len(built),
               built[i].pair[1] = built[j].pair[1]
        PROVE  i = j
    <3>1. i \in {1, 2, 3, 4, 5, 6, 7} /\ j \in {1, 2, 3, 4, 5, 6, 7}
      BY <1>6
    <3> QED
      BY <1>1, <1>5, <2>2, <3>1
  <2> QED
    BY <1>5, <2>1, <2>2 DEF Named
<1>8. {built[i] : i \in 1 .. Len(built)} = {a1, a2, a3, a4, a5, a6, a7}
  BY <1>5, <1>6
<1> QED
  BY <1>2, <1>7, <1>8 DEF built

\* Create and delete walk all annotations of an entity.
LEMMA WholeWalks ==
  ASSUME NEW built, Named(built), NEW attributes \in AttrLists
  PROVE  LET builtIns == {built[i] : i \in 1 .. Len(built)}
             users == UserAnnots(attributes)
         IN /\ Walks(built, attributes, Annotations) = builtIns \cup users
            /\ FirstWalks(built, attributes, Annotations)
                 = builtIns \cup Firsts(attributes, users)
<1> DEFINE builtIns == {built[i] : i \in 1 .. Len(built)}
           users == UserAnnots(attributes)
<1>1. builtIns \subseteq Annotations
  <2>1. \A i \in 1 .. Len(built) : built[i] \in Annotations
    BY ElementOfSeq DEF Named
  <2> QED
    BY <2>1
<1>2. users \subseteq Annotations /\ attributes \in Seq(Attributes)
  BY UserAnnotsTyped
<1>3. Firsts(attributes, Annotations) = Firsts(attributes, users)
  <2>1. \A n \in DOMAIN attributes : attributes[n] \in users /\ attributes[n] \in Annotations
    BY <1>2 DEF UserAnnots
  <2>2. \A n \in DOMAIN attributes : \A m \in 1 .. (n - 1) : m \in DOMAIN attributes
    BY <1>2
  <2> HIDE DEF users
  <2>3. ASSUME NEW a
        PROVE  a \in Firsts(attributes, Annotations) <=> a \in Firsts(attributes, users)
    BY <2>1, <2>2 DEF Firsts
  <2> QED
    BY <2>3
<1> QED
  BY <1>1, <1>2, <1>3 DEF Walks, FirstWalks

\* The calls listed by a handler lead from the indexes it finds to those it
\* leaves.
Leads ==
  /\ todo' \in Seq(IndexCalls)
  /\ Runs(At(pair, index), todo', At(pair', index'))

\* The bitmaps are a function of the pairs.
LEMMA BitmapsAre == DbInv => pair = [p \in Pairs |-> pair[p]]
BY DEF DbInv, DbTypeOK

LEMMA CreateLeads ==
  ASSUME DbInv, NEW sender \in Accounts, NEW key \in Keys,
         NEW expiresAt \in Heights, NEW contentType \in ContentTypes,
         NEW attributes \in AttrLists,
         Create(sender, key, expiresAt, contentType, attributes)
  PROVE  Leads
<1> DEFINE id == entityCount
           built == BuiltInList(sender, sender, key, 0, expiresAt, contentType)
           builtIns == BuiltInAnnots(sender, sender, key, 0, expiresAt, contentType)
           users == UserAnnots(attributes)
           firsts == builtIns \cup Firsts(attributes, users)
<1>1. /\ todo' = Calls("insert", id, built \o attributes)
      /\ pair' = InsertedBitmaps(pair, builtIns \cup users, id)
      /\ index' = InsertedTrees(index, pair, firsts)
  BY DEF Create, DbCreate
<1>2. 0 \in Heights /\ id \in Nat
  BY DbConstantsAssumption DEF Heights, DbInv, DbTypeOK
<1>3. Named(built) /\ {built[i] : i \in 1 .. Len(built)} = builtIns
  BY <1>2, BuiltInListNamed
<1> HIDE DEF built, builtIns, id
<1>4. /\ Walks(built, attributes, Annotations) = builtIns \cup users
      /\ FirstWalks(built, attributes, Annotations) = firsts
  BY <1>3, WholeWalks
<1>5. /\ todo' \in Seq(IndexCalls)
      /\ Runs(At(pair, index), todo',
              Handled("insert", id, pair, index, builtIns \cup users, firsts))
  BY <1>1, <1>2, <1>3, <1>4, BitmapsAre, WholeRuns
<1> HIDE DEF firsts, users
<1>6. Handled("insert", id, pair, index, builtIns \cup users, firsts) = At(pair', index')
  BY <1>1 DEF Handled
<1> QED
  BY <1>5, <1>6 DEF Leads

LEMMA DeleteLeads ==
  ASSUME DbInv, NEW key \in Keys, Delete(key)
  PROVE  Leads
<1> DEFINE addr == EntityAddress(key)
           id == addrToId[addr]
           e == entity[addr]
           built == BuiltInList(e.creator, e.owner, key, e.createdAt, e.expiresAt,
                                e.contentType)
           builtIns == BuiltInAnnots(e.creator, e.owner, key, e.createdAt, e.expiresAt,
                                     e.contentType)
           users == UserAnnots(e.attributes)
           all == builtIns \cup users
           firsts == builtIns \cup Firsts(e.attributes, users)
<1>1. /\ addr \in Addrs /\ e # NoEntity
      /\ todo' = Calls("remove", id, built \o e.attributes)
      /\ pair' = RemovedBitmaps(pair, all, id)
      /\ index' = RemovedTrees(index, pair, (all \ users) \cup Firsts(e.attributes, users), id)
  BY DEF Delete, DbDelete, AllAnnots, Keys, EntityAddress
<1>2. /\ e.creator \in Accounts /\ e.owner \in Accounts /\ e.createdAt \in Heights
      /\ e.expiresAt \in Heights /\ e.contentType \in ContentTypes
      /\ e.attributes \in AttrLists
  BY <1>1, EntityIsTyped DEF DbInv, Entities
<1>3. id \in Nat
  BY <1>1, LiveIds, DbConstantsAssumption DEF Ids
<1>4. Named(built) /\ {built[i] : i \in 1 .. Len(built)} = builtIns
  BY <1>2, BuiltInListNamed
<1>5. all \ users = builtIns
  <2>1. BuiltIn(builtIns)
    BY <1>2, BuiltInAnnotsTyped
  <2>2. \A a \in users : a.pair[1] \notin BuiltInNames
    BY <1>2, UserAnnotsTyped, UserPairsUnnamed DEF Attributes
  <2> HIDE DEF builtIns, users
  <2> QED
    BY <2>1, <2>2 DEF BuiltIn
<1> HIDE DEF built, builtIns, id
<1>6. /\ Walks(built, e.attributes, Annotations) = all
      /\ FirstWalks(built, e.attributes, Annotations) = firsts
  BY <1>2, <1>4, WholeWalks
<1>7. /\ todo' \in Seq(IndexCalls)
      /\ Runs(At(pair, index), todo', Handled("remove", id, pair, index, all, firsts))
  BY <1>1, <1>2, <1>3, <1>4, <1>6, BitmapsAre, WholeRuns
<1>8. index' = RemovedTrees(index, pair, firsts, id)
  BY <1>1, <1>5
<1> HIDE DEF firsts, all
<1>9. Handled("remove", id, pair, index, all, firsts) = At(pair', index')
  BY <1>1, <1>8 DEF Handled
<1> QED
  BY <1>7, <1>9 DEF Leads

\* Extend and transfer move an entity from one pair to another.
LEMMA MoveLeads ==
  ASSUME DbInv, NEW id \in Nat, NEW from \in Annotations, NEW to \in Annotations,
         MoveAnnot(id, from, to),
         todo' = Calls("remove", id, <<from>>) \o Calls("insert", id, <<to>>)
  PROVE  Leads
<1> DEFINE removed == RemovedBitmaps(pair, {from}, id)
           cut == RemovedTrees(index, pair, {from}, id)
           first == Calls("remove", id, <<from>>)
           second == Calls("insert", id, <<to>>)
<1>1. /\ pair' = InsertedBitmaps(removed, {to}, id)
      /\ index' = InsertedTrees(cut, removed, {to})
      /\ todo' = first \o second
  BY DEF MoveAnnot
<1>2. /\ first \in Seq(IndexCalls)
      /\ Runs(At(pair, index), first, At(removed, cut))
  <2>1. /\ first \in Seq(IndexCalls)
        /\ Runs(At(pair, index), first, Handled("remove", id, pair, index, {from}, {from}))
    BY BitmapsAre, SingleRuns
  <2> QED
    BY <2>1 DEF Handled
<1>3. removed = [p \in Pairs |-> removed[p]]
  BY DEF RemovedBitmaps
<1> HIDE DEF removed, cut
<1>4. /\ second \in Seq(IndexCalls)
      /\ Runs(At(removed, cut), second, At(pair', index'))
  <2>1. /\ second \in Seq(IndexCalls)
        /\ Runs(At(removed, cut), second, Handled("insert", id, removed, cut, {to}, {to}))
    BY <1>3, SingleRuns
  <2> QED
    BY <1>1, <2>1 DEF Handled
<1> HIDE DEF first, second
<1>5. first \o second \in Seq(IndexCalls)
  BY <1>2, <1>4, ConcatProperties
<1>6. Runs(At(pair, index), first \o second, At(pair', index'))
  BY <1>2, <1>4, RunsJoin
<1> QED
  BY <1>1, <1>5, <1>6 DEF Leads

LEMMA ExtendLeads ==
  ASSUME DbInv, NEW key \in Keys, NEW newExpiresAt \in Heights,
         Extend(key, newExpiresAt)
  PROVE  Leads
<1> DEFINE addr == EntityAddress(key)
           id == addrToId[addr]
           e == entity[addr]
           from == Annot("$expiration", e.expiresAt, TRUE)
           to == Annot("$expiration", newExpiresAt, TRUE)
<1>1. /\ addr \in Addrs /\ e # NoEntity
      /\ MoveAnnot(id, from, to)
      /\ todo' = Calls("remove", id, <<from>>) \o Calls("insert", id, <<to>>)
  BY DEF Extend, DbExtend, Keys, EntityAddress
<1>2. e.expiresAt \in Heights
  BY <1>1, EntityIsTyped DEF DbInv, Entities
<1>3. from \in Annotations /\ to \in Annotations
  BY <1>2 DEF Annot, Annotations, Pairs, BuiltInPairs
<1>4. id \in Nat
  BY <1>1, LiveIds, DbConstantsAssumption DEF Ids
<1> HIDE DEF from, to, id
<1> QED
  BY <1>1, <1>3, <1>4, MoveLeads

LEMMA TransferLeads ==
  ASSUME DbInv, NEW key \in Keys, NEW newOwner \in Accounts, Transfer(key, newOwner)
  PROVE  Leads
<1> DEFINE addr == EntityAddress(key)
           id == addrToId[addr]
           e == entity[addr]
           from == Annot("$owner", e.owner, FALSE)
           to == Annot("$owner", newOwner, FALSE)
<1>1. /\ addr \in Addrs /\ e # NoEntity
      /\ MoveAnnot(id, from, to)
      /\ todo' = Calls("remove", id, <<from>>) \o Calls("insert", id, <<to>>)
  BY DEF Transfer, DbTransfer, Keys, EntityAddress
<1>2. e.owner \in Accounts
  BY <1>1, EntityIsTyped DEF DbInv, Entities
<1>3. from \in Annotations /\ to \in Annotations
  BY <1>2 DEF Annot, Annotations, Pairs, BuiltInPairs
<1>4. id \in Nat
  BY <1>1, LiveIds, DbConstantsAssumption DEF Ids
<1> HIDE DEF from, to, id
<1> QED
  BY <1>1, <1>3, <1>4, MoveLeads

\* The part of an update's list that is in gone or fresh, as EntityDb has it.
LEMMA DiffWalks ==
  ASSUME NEW contentType \in ContentTypes, NEW attributes \in AttrLists,
         NEW annots, annots \subseteq UpdatableAnnots(contentType, attributes)
  PROVE  LET built == <<ContentTypeAnnot(contentType)>>
         IN /\ Walks(built, attributes, annots) = annots
            /\ FirstWalks(built, attributes, annots)
                 = Firsts(attributes, annots) \cup (annots \ UserAnnots(attributes))
<1> DEFINE c == ContentTypeAnnot(contentType)
           built == <<c>>
           users == UserAnnots(attributes)
<1>1. {built[i] : i \in 1 .. Len(built)} = {c}
  BY ContentTypeNamed
<1>2. c \notin users
  <2>1. c.pair[1] = "$contentType"
    BY DEF ContentTypeAnnot, Annot
  <2>2. \A a \in users : a.pair[1] \notin BuiltInNames
    BY UserAnnotsTyped, UserPairsUnnamed DEF Attributes
  <2> HIDE DEF c, users
  <2> QED
    BY <2>1, <2>2 DEF BuiltInNames
<1>3. annots \subseteq {c} \cup users
  BY DEF UpdatableAnnots
<1> HIDE DEF c, built, users
<1>4. /\ Walks(built, attributes, annots) = ({c} \cup users) \cap annots
      /\ FirstWalks(built, attributes, annots) = ({c} \cap annots) \cup Firsts(attributes, annots)
  BY <1>1 DEF Walks, FirstWalks, users
<1>5. {c} \cap annots = annots \ users
  BY <1>2, <1>3
<1> QED
  BY <1>3, <1>4, <1>5 DEF c, built, users

LEMMA UpdateLeads ==
  ASSUME DbInv, NEW key \in Keys, NEW contentType \in ContentTypes,
         NEW attributes \in AttrLists, Update(key, contentType, attributes)
  PROVE  Leads
<1> DEFINE addr == EntityAddress(key)
           id == addrToId[addr]
           e == entity[addr]
           oldList == UpdatableList(e.contentType, e.attributes)
           newList == UpdatableList(contentType, attributes)
           old == UpdatableAnnots(e.contentType, e.attributes)
           new == UpdatableAnnots(contentType, attributes)
           gone == old \ new
           fresh == new \ old
           goneFirsts == Firsts(e.attributes, gone) \cup (gone \ UserAnnots(e.attributes))
           freshFirsts == Firsts(attributes, fresh) \cup (fresh \ UserAnnots(attributes))
           removed == RemovedBitmaps(pair, gone, id)
           cut == RemovedTrees(index, pair, goneFirsts, id)
           first == Calls("remove", id, Filtered(oldList, gone))
           second == Calls("insert", id, Filtered(newList, fresh))
<1>1. /\ addr \in Addrs /\ e # NoEntity
      /\ todo' = DiffCalls(id, oldList, newList)
      /\ pair' = InsertedBitmaps(removed, fresh, id)
      /\ index' = InsertedTrees(cut, removed, freshFirsts)
  BY DEF Update, DbUpdate, Keys, EntityAddress
<1>2. e.contentType \in ContentTypes /\ e.attributes \in AttrLists
  BY <1>1, EntityIsTyped DEF DbInv, Entities
<1>3. id \in Nat
  BY <1>1, LiveIds, DbConstantsAssumption DEF Ids
<1>4. ASSUME NEW t \in ContentTypes, NEW l \in AttrLists
      PROVE  {UpdatableList(t, l)[n] : n \in DOMAIN UpdatableList(t, l)} = UpdatableAnnots(t, l)
  <2> DEFINE built == <<ContentTypeAnnot(t)>>
             list == built \o l
  <2>1. /\ Named(built)
        /\ {built[i] : i \in 1 .. Len(built)} = {ContentTypeAnnot(t)}
    BY ContentTypeNamed
  <2> HIDE DEF built
  <2>2. {list[n] : n \in DOMAIN list} = {ContentTypeAnnot(t)} \cup UserAnnots(l)
    <3> DEFINE parts == {built[i] : i \in 1 .. Len(built)}
    <3>1. {list[n] : n \in DOMAIN list} = parts \cup UserAnnots(l)
      BY <2>1, ListSet
    <3>2. parts = {ContentTypeAnnot(t)}
      BY <2>1
    <3> HIDE DEF parts, list
    <3> QED
      BY <3>1, <3>2
  <2>3. UpdatableList(t, l) = list
    BY DEF UpdatableList, built
  <2> HIDE DEF list
  <2> QED
    BY <2>2, <2>3 DEF UpdatableAnnots
<1>5. todo' = first \o second
  <2>1. /\ {oldList[n] : n \in DOMAIN oldList} = old
        /\ {newList[n] : n \in DOMAIN newList} = new
    BY <1>2, <1>4
  <2> HIDE DEF oldList, newList, old, new, id
  <2> QED
    BY <1>1, <2>1 DEF DiffCalls
<1> HIDE DEF id, old, new
<1>6. /\ first \in Seq(IndexCalls)
      /\ Runs(At(pair, index), first, At(removed, cut))
  <2> DEFINE built == <<ContentTypeAnnot(e.contentType)>>
  <2>1. Named(built)
    BY <1>2, ContentTypeNamed
  <2>2. /\ Walks(built, e.attributes, gone) = gone
        /\ FirstWalks(built, e.attributes, gone) = goneFirsts
    <3>1. gone \subseteq UpdatableAnnots(e.contentType, e.attributes)
      BY DEF old
    <3> HIDE DEF gone
    <3> QED
      BY <1>2, <3>1, DiffWalks
  <2>3. oldList = built \o e.attributes
    BY DEF UpdatableList
  <2> HIDE DEF built, oldList, gone, goneFirsts
  <2>4. /\ first \in Seq(IndexCalls)
        /\ Runs(At(pair, index), first, Handled("remove", id, pair, index, gone, goneFirsts))
    BY <1>2, <1>3, <2>1, <2>2, <2>3, BitmapsAre, FilteredRuns
  <2> QED
    BY <2>4 DEF Handled
<1>7. removed = [p \in Pairs |-> removed[p]]
  BY DEF RemovedBitmaps
<1> HIDE DEF removed, cut
<1>8. /\ second \in Seq(IndexCalls)
      /\ Runs(At(removed, cut), second, At(pair', index'))
  <2> DEFINE built == <<ContentTypeAnnot(contentType)>>
  <2>1. Named(built)
    BY ContentTypeNamed
  <2>2. /\ Walks(built, attributes, fresh) = fresh
        /\ FirstWalks(built, attributes, fresh) = freshFirsts
    <3>1. fresh \subseteq UpdatableAnnots(contentType, attributes)
      BY DEF new
    <3> HIDE DEF fresh
    <3> QED
      BY <3>1, DiffWalks
  <2>3. newList = built \o attributes
    BY DEF UpdatableList
  <2> HIDE DEF built, newList, fresh, freshFirsts
  <2>4. /\ second \in Seq(IndexCalls)
        /\ Runs(At(removed, cut), second,
                Handled("insert", id, removed, cut, fresh, freshFirsts))
    BY <1>3, <1>7, <2>1, <2>2, <2>3, FilteredRuns
  <2> QED
    BY <1>1, <2>4 DEF Handled
<1> HIDE DEF first, second
<1>9. first \o second \in Seq(IndexCalls)
  BY <1>6, <1>8, ConcatProperties
<1>10. Runs(At(pair, index), first \o second, At(pair', index'))
  BY <1>6, <1>8, RunsJoin
<1> QED
  BY <1>5, <1>9, <1>10 DEF Leads

(***************************************************************************)
(* The walk                                                                *)
(***************************************************************************)

WalkInv ==
  /\ DbInv
  /\ bitmaps = [p \in Pairs |-> bitmaps[p]]
  /\ todo \in Seq(IndexCalls)
  /\ Runs(At(bitmaps, trees), todo, At(pair, index))

\* No call is left where both copies agree, and only there.
LEMMA WalkDone ==
  ASSUME WalkInv, todo = <<>>
  PROVE  bitmaps = pair /\ trees = index
<1>1. At(bitmaps, trees) = At(pair, index)
  BY RunsNone DEF WalkInv
<1> QED
  BY <1>1 DEF At

LEMMA InitWalks == Init => WalkInv
<1> SUFFICES ASSUME Init PROVE WalkInv
  OBVIOUS
<1>1. DbInv
  BY DbInitHolds DEF Init
<1>2. bitmaps = pair /\ trees = index /\ todo = <<>>
  BY DEF Init
<1>3. bitmaps = [p \in Pairs |-> bitmaps[p]]
  BY <1>1, <1>2, BitmapsAre
<1>4. todo \in Seq(IndexCalls)
  BY <1>2, EmptySeq
<1>5. Runs(At(bitmaps, trees), todo, At(pair, index))
  BY <1>2, RunsNone
<1> QED
  BY <1>1, <1>3, <1>4, <1>5 DEF WalkInv

\* A handler keeps the database in order and lists the calls that follow it.
LEMMA HandlerWalks ==
  ASSUME WalkInv, Handler
  PROVE  WalkInv'
<1>1. /\ bitmaps = pair /\ trees = index /\ DbInv
      /\ bitmaps = [p \in Pairs |-> bitmaps[p]]
  BY WalkDone DEF Handler, WalkInv
<1>2. bitmaps' = bitmaps /\ trees' = trees
  BY DEF Handler
<1>3. 0 \in Heights /\ Expiries \subseteq Heights
  BY DbConstantsAssumption, WalkConstantsAssumption DEF Heights
<1>4. DbInv' /\ Leads
  <2>1. ASSUME NEW a \in Addrs, NEW expiresAt \in Expiries, NEW c \in ContentTypes,
               NEW attributes \in AttrLists,
               Create(a[1], [addr |-> a, tail |-> DerivedTail], expiresAt, c, attributes)
        PROVE  DbInv' /\ Leads
    <3> DEFINE key == [addr |-> a, tail |-> DerivedTail]
    <3>1. a[1] \in Accounts /\ key \in Keys /\ expiresAt \in Heights
      BY <1>3, DbConstantsAssumption DEF Addrs, Keys
    <3> HIDE DEF key
    <3>2. Create(a[1], key, expiresAt, c, attributes)
      BY <2>1 DEF key
    <3>3. entity[EntityAddress(key)] = NoEntity /\ DbCreate(a[1], key, expiresAt, 0, c, attributes)
      BY <3>2 DEF Create
    <3>4. DbInv'
      BY <1>1, <1>3, <3>1, <3>3, CreateKeeps
    <3> QED
      BY <1>1, <3>1, <3>2, <3>4, CreateLeads
  <2>2. ASSUME NEW key \in Keys, NEW c \in ContentTypes, NEW attributes \in AttrLists,
               Update(key, c, attributes)
        PROVE  DbInv' /\ Leads
    <3>1. DbUpdate(key, 0, c, attributes)
      BY <2>2 DEF Update
    <3> QED
      BY <1>1, <1>3, <2>2, <3>1, UpdateKeeps, UpdateLeads
  <2>3. ASSUME NEW key \in Keys, NEW h \in Expiries, Extend(key, h)
        PROVE  DbInv' /\ Leads
    <3>1. DbExtend(key, 0, h) /\ h \in Heights
      BY <1>3, <2>3 DEF Extend
    <3> QED
      BY <1>1, <1>3, <2>3, <3>1, ExtendKeeps, ExtendLeads
  <2>4. ASSUME NEW key \in Keys, NEW newOwner \in Accounts, Transfer(key, newOwner)
        PROVE  DbInv' /\ Leads
    <3>1. DbTransfer(key, 0, newOwner)
      BY <2>4 DEF Transfer
    <3> QED
      BY <1>1, <1>3, <2>4, <3>1, TransferKeeps, TransferLeads
  <2>5. ASSUME NEW key \in Keys, Delete(key)
        PROVE  DbInv' /\ Leads
    <3>1. DbDelete(key)
      BY <2>5 DEF Delete
    <3> QED
      BY <1>1, <2>5, <3>1, DeleteKeeps, DeleteLeads
  <2> QED
    BY <2>1, <2>2, <2>3, <2>4, <2>5 DEF Handler
<1>5. Runs(At(bitmaps', trees'), todo', At(pair', index'))
  <2>1. bitmaps' = pair /\ trees' = index
    BY <1>1, <1>2
  <2> QED
    BY <1>4, <2>1 DEF Leads
<1>6. bitmaps' = [p \in Pairs |-> bitmaps'[p]]
  BY <1>1, <1>2
<1>7. todo' \in Seq(IndexCalls)
  BY <1>4 DEF Leads
<1> QED
  BY <1>4, <1>5, <1>6, <1>7 DEF WalkInv

\* A step makes the first of the calls, as AfterCall has it.
LEMMA StepWalks ==
  ASSUME WalkInv, Step
  PROVE  WalkInv'
<1> DEFINE call == Head(todo)
           a == call.annot
<1>1. /\ todo \in Seq(IndexCalls) /\ todo # <<>> /\ todo' = Tail(todo)
      /\ UNCHANGED dbVars
      /\ DbInv /\ Runs(At(bitmaps, trees), todo, At(pair, index))
      /\ bitmaps = [p \in Pairs |-> bitmaps[p]]
  BY DEF WalkInv, Step
<1>2. call \in IndexCalls /\ Tail(todo) \in Seq(IndexCalls)
  BY <1>1, HeadTailProperties
<1>3. call.what \in {"insert", "remove"} /\ a \in Annotations /\ a.pair \in Pairs
  BY <1>2 DEF IndexCalls, Annotations
<1>4. DbInv' /\ pair' = pair /\ index' = index
  <2>1. /\ entity' = entity /\ pair' = pair /\ index' = index
        /\ idToAddr' = idToAddr /\ addrToId' = addrToId /\ entityCount' = entityCount
    BY <1>1 DEF dbVars
  <2> QED
    BY <1>1, <2>1 DEF DbInv, DbTypeOK, IdMapsInverse, BitmapsSound, BitmapsComplete,
                      TreesExact
<1>5. \/ call.what = "insert" /\ InsertIntoIndexes(call.id, a)
      \/ call.what = "remove" /\ RemoveFromIndexes(call.id, a)
  BY DEF Step
<1> HIDE DEF call
<1>6. /\ At(bitmaps', trees') = AfterCall(At(bitmaps, trees), call)
      /\ bitmaps' = [p \in Pairs |-> bitmaps'[p]]
  <2>1. At(bitmaps, trees).bitmaps = bitmaps /\ At(bitmaps, trees).trees = trees
    BY DEF At
  <2>2. CASE call.what = "insert"
    <3>1. /\ bitmaps' = [bitmaps EXCEPT ![a.pair] = @ \cup {call.id}]
          /\ trees' = IF a.tier2 /\ bitmaps[a.pair] = {} THEN trees \cup {a.pair} ELSE trees
      BY <1>5, <2>2 DEF InsertIntoIndexes
    <3>2. At(bitmaps', trees') = AfterCall(At(bitmaps, trees), call)
      BY <2>1, <2>2, <3>1 DEF AfterCall
    <3>3. bitmaps' = [p \in Pairs |-> bitmaps'[p]]
      BY <1>1, <1>3, <3>1
    <3> QED
      BY <3>2, <3>3
  <2>3. CASE call.what = "remove" /\ bitmaps[a.pair] = {}
    <3>1. bitmaps' = bitmaps /\ trees' = trees
      BY <1>5, <2>3 DEF RemoveFromIndexes
    <3>2. AfterCall(At(bitmaps, trees), call) = At(bitmaps, trees)
      BY <2>1, <2>3 DEF AfterCall
    <3> QED
      BY <1>1, <3>1, <3>2
  <2>4. CASE call.what = "remove" /\ bitmaps[a.pair] # {}
    <3>1. /\ bitmaps' = [bitmaps EXCEPT ![a.pair] = @ \ {call.id}]
          /\ trees' = IF a.tier2 /\ bitmaps[a.pair] \ {call.id} = {}
                      THEN trees \ {a.pair} ELSE trees
      BY <1>5, <2>4 DEF RemoveFromIndexes
    <3>2. At(bitmaps', trees') = AfterCall(At(bitmaps, trees), call)
      BY <2>1, <2>4, <3>1 DEF AfterCall
    <3>3. bitmaps' = [p \in Pairs |-> bitmaps'[p]]
      BY <1>1, <1>3, <3>1
    <3> QED
      BY <3>2, <3>3
  <2> QED
    BY <1>3, <2>2, <2>3, <2>4
<1>7. Runs(AfterCall(At(bitmaps, trees), call), Tail(todo), At(pair, index))
  BY <1>1, RunsOn DEF call
<1> QED
  BY <1>1, <1>2, <1>4, <1>6, <1>7 DEF WalkInv

\* Lists of any length, attributes that repeat a pair and both flavours of one
\* pair included: wherever a handler of the code has made its last index call,
\* the bitmaps and trees are those that EntityDb gives in one step.
THEOREM WalksEndInHandlers == Spec => []WalkMatchesHandler
<1>1. ASSUME WalkInv, [Next]_walkVars
      PROVE  WalkInv'
  <2>1. CASE UNCHANGED walkVars
    BY <1>1, <2>1 DEF WalkInv, walkVars, dbVars, DbInv, DbTypeOK, IdMapsInverse,
                      BitmapsSound, BitmapsComplete, TreesExact
  <2> QED
    BY <1>1, <2>1, HandlerWalks, StepWalks DEF Next
<1>2. WalkInv => WalkMatchesHandler
  BY WalkDone DEF WalkMatchesHandler
<1> QED
  BY <1>1, <1>2, InitWalks, PTL DEF Spec
=============================================================================
