----------------------------- MODULE DocClaims -----------------------------
(***************************************************************************)
(* What the repository's documents and comments say of the entity database *)
(* and the code does not do. Each property states the words of the         *)
(* document; TLC refutes each in a run of its own, and its counterexample  *)
(* is the sequence of operations that shows the difference.                *)
(***************************************************************************)
EXTENDS ExecuteProps

Live(a) == entity[a] # NoEntity

\* docs/2_state-model.md, Authorization: EXPIRE "only requires block.number >
\* expiresAt". The code also lets an entity go at block = expiresAt.
ExpireOnlyAfterExpiry ==
  \A n \in DOMAIN log : log[n].op = "EXPIRE" => block > log[n].expiresAt

\* docs/2_state-model.md: "A value v is present in the ART for key k iff the
\* Tier-1 pair bitmap for (k, v) is non-empty", built-in keys "are not
\* excluded". The code gives $all, $creator, $owner and $key no tree.
TreeMirrorsBitmaps ==
  \A p \in Pairs : p \in index <=> pair[p] # {}

\* user_annotations: "Tier-2 is maintained for ATTR_UINT / ATTR_STRING". The
\* tree is only written when the pair bitmap was empty, so a value that an
\* ATTR_ENTITY_KEY attribute of the same bytes used first stays out.
OrderedValuesFound ==
  \A a \in Addrs : Live(a) =>
    \A u \in UserAnnots(entity[a].attributes) : u.tier2 => u.pair \in index

\* update: "only annotations that changed get touched". Two annotations of
\* one list that differ in value_type alone share a bitmap entry; an UPDATE
\* that drops one of them clears the entry of the one it keeps.
CarriedPairsFound ==
  \A a \in Addrs : Live(a) =>
    \A p \in CarriedPairs(entity[a]) : addrToId[a] \in pair[p]

\* delete: "Clears every bitmap entry (built-in + user)". The $key entry is
\* looked up under the key that the operation names, of which only the first
\* 20 bytes are compared; under an alias the entry of the stored key stays.
DeleteClearsEveryBitmap ==
  \A p \in Pairs : \A i \in pair[p] : idToAddr[i] # NoAddr
=============================================================================
