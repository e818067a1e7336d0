--------------------------- MODULE IndexTreeProps ---------------------------
(***************************************************************************)
(* What the index tree promises: it is an ordered set.                     *)
(***************************************************************************)
EXTENDS IndexTree

\* Unsigned lexicographic order of byte strings.
Precedes(s, t) ==
  \E m \in 0 .. Len(s) :
    /\ m < Len(t) /\ \A i \in 1 .. m : s[i] = t[i]
    /\ m = Len(s) \/ s[m + 1] < t[m + 1]

\* docs/2_state-model.md: the ART "is an ordered set of annotVal". Iteration
\* yields each value in use once, in byte order, and no other, whatever
\* splits, merges and changes of kind the tree has gone through.
ValuesInOrder ==
  LET found == Below[root]
  IN /\ ToSet(found) = values
     /\ \A i \in 1 .. Len(found) - 1 : Precedes(found[i], found[i + 1])

\* The length decides whether the index account is tombstoned, so it has to
\* be the number of values whatever insert and remove reported.
CountExact == count = Cardinality(values)
=============================================================================
