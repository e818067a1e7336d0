------------------------------- MODULE Query --------------------------------
(***************************************************************************)
(* How the interpreter reads the indexes of the entity database:           *)
(* crates/arkiv-entitydb/src/query/interpreter.rs, with the query as the   *)
(* parser of query/parser.rs hands it over: annotation values are encoded, *)
(* and a range or a prefix is the set of values that it admits.            *)
(***************************************************************************)
EXTENDS EntityDbProps

\* all_entities: the bitmap of $all.
AllEntities == pair[<<"$all", "">>]

\* read_eq. The account of a pair that nothing has been indexed under is
\* empty.
ReadEq(p) == IF p \in Pairs THEN pair[p] ELSE {}

\* read_in: the union over the values of the list.
ReadIn(ps) == UNION {ReadEq(p) : p \in ps}

\* Gt, Gte, Lt, Lte and Glob: the values of the tree that are admitted, and
\* the union of their bitmaps.
Scan(name, admitted) == UNION {pair[p] : p \in index \cap ({name} \X admitted)}

\* resolve_id: an ID leads to an entity, or its slot has been cleared.
ResolvedIds(ids) == {idToAddr[i] : i \in {j \in ids : idToAddr[j] # NoAddr}}

\* The values that every carrier orders, and the bitmaps of which are exact.
ScannedNames == {p[1] : p \in OrderedPairs \cap StablePairs}
OrderedValues(name) ==
  {p[2] : p \in {q \in OrderedPairs \cap StablePairs : q[1] = name}}

Carriers(p) == {a \in Addrs : entity[a] # NoEntity /\ p \in CarriedPairs(entity[a])}
-----------------------------------------------------------------------------
\* `$all` yields every live entity and no other.
AllExact == ResolvedIds(AllEntities) = {a \in Addrs : entity[a] # NoEntity}

\* An equality yields the entities that carry the pair, and `!=` all the
\* others, for the pairs that no attribute list carries in both flavours.
EqExact ==
  \A p \in StablePairs :
    /\ ResolvedIds(ReadEq(p)) = Carriers(p)
    /\ ResolvedIds(AllEntities \ ReadEq(p)) = {a \in Addrs : entity[a] # NoEntity} \ Carriers(p)

\* A range or prefix scan that admits indexed values finds the entities that
\* carry one of them: no value in use is missing from the tree, and no value
\* out of use adds anything.
ScanExact ==
  \A name \in ScannedNames : \A values \in SUBSET OrderedValues(name) :
    ResolvedIds(Scan(name, values)) = UNION {Carriers(<<name, v>>) : v \in values}
=============================================================================
