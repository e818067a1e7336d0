----------------------------- MODULE QueryEval ------------------------------
(***************************************************************************)
(* The evaluation of a query tree and what it ought to yield: the live     *)
(* entities for which the query holds, whatever mixture of indexes, set    *)
(* operations and complements the evaluation takes to find them.           *)
(***************************************************************************)
EXTENDS Query, QueryTree

PairsIn(q) == {q.name} \X q.values

\* The scan of the tree of a name for the values that the operator admits.
ScanFor(q) ==
  LET name == q.pair[1]
  IN Scan(name, {p[2] : p \in {r \in index : r[1] = name /\ Admits(q.op, q.pair[2], r[2])}})

\* eval of a leaf.
LeafIds(q) ==
  CASE q.op = "All" -> AllEntities
    [] q.op = "Eq" -> ReadEq(q.pair)
    [] q.op = "Neq" -> AllEntities \ ReadEq(q.pair)
    [] q.op = "In" -> ReadIn(PairsIn(q))
    [] q.op = "NotIn" -> AllEntities \ ReadIn(PairsIn(q))
    [] q.op \in Ranges \cup {"Glob"} -> ScanFor(q)
    [] q.op = "NotGlob" -> AllEntities \ ScanFor(q)

\* eval of a tree, given what it makes of the subtrees. The right side of an
\* And is not read when the left is empty.
EvalBy(eval, q) ==
  CASE q.op \in LeafOps -> LeafIds(q)
    [] q.op = "And" -> LET l == eval[q.left] IN IF l = {} THEN {} ELSE l \cap eval[q.right]
    [] q.op = "Or" -> eval[q.left] \cup eval[q.right]
    [] q.op = "Not" -> AllEntities \ eval[q.inner]

Eval[q \in Trees] == EvalBy(Eval, q)
-----------------------------------------------------------------------------
(* The meaning of a query for an entity that carries a set of pairs. *)

\* A pair meets the comparison of a leaf.
Meets(p, q) ==
  LET v == p[2]
      bound == q.pair[2]
  IN /\ p[1] = q.pair[1]
     /\ CASE q.op \in {"Eq", "Neq"} -> v = bound
          [] q.op = "Gt" -> Less(bound, v)
          [] q.op = "Gte" -> v = bound \/ Less(bound, v)
          [] q.op = "Lt" -> Less(v, bound)
          [] q.op = "Lte" -> v = bound \/ Less(v, bound)
          [] q.op \in {"Glob", "NotGlob"} -> HasPrefix(v, bound)

\* What a leaf asks of an entity that carries some pairs.
LeafHolds(q, carried) ==
  CASE q.op = "All" -> TRUE
    [] q.op \in Ranges \cup {"Eq", "Glob"} -> \E p \in carried : Meets(p, q)
    [] q.op \in {"Neq", "NotGlob"} -> ~\E p \in carried : Meets(p, q)
    [] q.op = "In" -> PairsIn(q) \cap carried # {}
    [] q.op = "NotIn" -> PairsIn(q) \cap carried = {}

\* What a tree asks, given what its subtrees say.
HoldsBy(holds, q, carried) ==
  CASE q.op \in LeafOps -> LeafHolds(q, carried)
    [] q.op = "And" -> holds[q.left] /\ holds[q.right]
    [] q.op = "Or" -> holds[q.left] \/ holds[q.right]
    [] q.op = "Not" -> ~holds[q.inner]

Holds(root, carried) ==
  LET holds[q \in Trees] == HoldsBy(holds, q, carried)
  IN holds[root]

\* Leaves that the indexes can answer: they look at pairs that no attribute
\* list carries in both flavours, and a scan at values that everybody orders.
AnswerableLeaves ==
  {l \in Leaves :
     CASE l.op \in {"Eq", "Neq"} -> {l.pair} \cap Pairs \subseteq StablePairs
       [] l.op \in {"In", "NotIn"} -> PairsIn(l) \cap Pairs \subseteq StablePairs
       [] l.op \in Ranges \cup {"Glob", "NotGlob"} ->
            {p \in Pairs : Meets(p, l)} \subseteq OrderedPairs
       [] l.op = "All" -> TRUE}

\* Byte order is total: two values of a name differ exactly if one of them is
\* less than the other, and then the other is not less.
ASSUME LessAssumption ==
  \A l \in Leaves : l.op \in Ranges =>
    \A p \in Pairs : p[1] = l.pair[1] =>
      /\ l.pair[2] # p[2] <=> Less(l.pair[2], p[2]) \/ Less(p[2], l.pair[2])
      /\ ~(Less(l.pair[2], p[2]) /\ Less(p[2], l.pair[2]))

CONSTANT Asked   \* query trees to evaluate

Answerable == Asked \cap TreesOver(AnswerableLeaves)

\* Every query yields the live entities for which it holds. (The IDs that
\* aliased deletes leave in $key bitmaps never surface, negated or not.)
QueriesExact ==
  LET carried == [a \in {b \in Addrs : entity[b] # NoEntity} |-> CarriedPairs(entity[a])] IN
  \A q \in Answerable :
    ResolvedIds(Eval[q]) = {a \in DOMAIN carried : Holds(q, carried[a])}
=============================================================================
