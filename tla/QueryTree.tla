----------------------------- MODULE QueryTree ------------------------------
(***************************************************************************)
(* The query tree, enum Query of query/parser.rs: leaves compare an        *)
(* annotation pair <<name, value>> with what entities carry. The value of  *)
(* a glob is the prefix before its star.                                   *)
(***************************************************************************)
EXTENDS Naturals

CONSTANTS
  Less(_, _),       \* byte order of two encoded values of one name
  HasPrefix(_, _),  \* an encoded value starts with a prefix
  Leaves,           \* leaves of the trees considered
  Nesting           \* bound on the connectives from the root to a leaf

All == [op |-> "All"]
Leaf(op, name, value) == [op |-> op, pair |-> <<name, value>>]
In(name, values) == [op |-> "In", name |-> name, values |-> values]
NotIn(name, values) == [op |-> "NotIn", name |-> name, values |-> values]
And(l, r) == [op |-> "And", left |-> l, right |-> r]
Or(l, r) == [op |-> "Or", left |-> l, right |-> r]
Not(q) == [op |-> "Not", inner |-> q]

Ranges == {"Gt", "Gte", "Lt", "Lte"}
LeafOps == {"All", "Eq", "Neq", "In", "NotIn", "Glob", "NotGlob"} \cup Ranges

ASSUME LeavesAssumption ==
  /\ Nesting \in Nat
  /\ \A l \in Leaves : l.op \in LeafOps
  /\ \A l \in Leaves : l.op \notin {"All", "In", "NotIn"} =>
       l.pair = <<l.pair[1], l.pair[2]>>

\* The trees over some leaves.
TreesOver(leaves) ==
  LET trees[n \in 0 .. Nesting] ==
        IF n = 0 THEN leaves
        ELSE leaves
               \cup [op : {"And", "Or"}, left : trees[n - 1], right : trees[n - 1]]
               \cup [op : {"Not"}, inner : trees[n - 1]]
  IN trees[Nesting]

Trees == TreesOver(Leaves)

\* Faulty variant: the bound itself is left out of >= and <=.
AdmitsInside(op, bound, v) ==
  CASE op \in {"Gt", "Gte"} -> Less(bound, v)
    [] op \in {"Lt", "Lte"} -> Less(v, bound)
    [] op \in {"Glob", "NotGlob"} -> HasPrefix(v, bound)

\* iter_gt, iter_gte, iter_lt, iter_lte and iter_prefix of the index tree.
Admits(op, bound, v) ==
  CASE op = "Gt" -> Less(bound, v)
    [] op = "Gte" -> ~Less(v, bound)
    [] op = "Lt" -> Less(v, bound)
    [] op = "Lte" -> ~Less(bound, v)
    [] op \in {"Glob", "NotGlob"} -> HasPrefix(v, bound)
=============================================================================
