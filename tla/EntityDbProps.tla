---------------------------- MODULE EntityDbProps ---------------------------
(***************************************************************************)
(* What the entity database promises of its own state: the ID maps, the    *)
(* equality bitmaps and the ordered trees agree with the entities. The     *)
(* handlers of EntityDb keep these promises for any caller that creates at *)
(* empty addresses only.                                                   *)
(***************************************************************************)
EXTENDS EntityDb

\* The pairs an entity carries, rebuilt from its stored record.
CarriedPairs(e) == PairsOf(AllAnnots(e, e.key))

\* Both ways of flagging one pair, in one attribute list.
MixedIn(attributes, p) ==
  {[pair |-> p, tier2 |-> TRUE], [pair |-> p, tier2 |-> FALSE]}
    \subseteq UserAnnots(attributes)

\* Pairs that no single attribute list carries in both flavours: the ones on
\* which the bitmap of an UPDATE's diff is exact.
StablePairs == {p \in Pairs : \A l \in AttrLists : ~MixedIn(l, p)}

UsedAs(p, tier2) ==
  \E l \in AttrLists : [pair |-> p, tier2 |-> tier2] \in UserAnnots(l)

\* Pairs indexed in tier 2 whoever carries them.
OrderedPairs ==
  {p \in Pairs : p[1] \in {"$createdAtBlock", "$expiration", "$contentType"}}
    \cup {p \in UserPairs : ~UsedAs(p, FALSE)}
-----------------------------------------------------------------------------
DbTypeOK ==
  /\ entity \in [Addrs -> Entities \cup {NoEntity}]
  /\ pair \in [Pairs -> SUBSET Ids]
  /\ index \subseteq Pairs
  /\ idToAddr \in [Ids -> Addrs \cup {NoAddr}]
  /\ addrToId \in [Addrs -> Nat]
  /\ entityCount \in 0 .. MaxEntities

\* The two ID maps of the system account stay inverse to each other and to
\* the live entities: every live entity has an ID that leads back to it, and
\* an ID that leads anywhere leads to a live entity (create writes both
\* slots, delete clears both; ID 0 is also what an unset slot reads as).
IdMapsInverse ==
  /\ \A a \in Addrs : entity[a] # NoEntity =>
       /\ addrToId[a] < entityCount
       /\ idToAddr[addrToId[a]] = a
  /\ \A i \in Ids : idToAddr[i] # NoAddr =>
       /\ i < entityCount
       /\ entity[idToAddr[i]] # NoEntity
       /\ addrToId[idToAddr[i]] = i

\* No false hits: whatever ID an equality bitmap holds, if it resolves, it
\* resolves to an entity that carries the pair; and outside the bitmaps of
\* $key it always resolves. (A delete named by an alias key leaves its ID in
\* a $key bitmap: IDs must never be reused for that to stay harmless.)
BitmapsSound ==
  \A p \in Pairs : \A i \in pair[p] :
    /\ i < entityCount
    /\ p[1] # "$key" => idToAddr[i] # NoAddr
    /\ idToAddr[i] # NoAddr => p \in CarriedPairs(entity[idToAddr[i]])

\* No missed hits: every live entity is in the bitmap of each pair it
\* carries, for the pairs no attribute list mixes flavours of.
BitmapsComplete ==
  \A a \in Addrs : entity[a] # NoEntity =>
    \A p \in CarriedPairs(entity[a]) \cap StablePairs : addrToId[a] \in pair[p]

\* The tier-2 tree of a name enumerates exactly the values whose bitmap is
\* non-empty, for the pairs every carrier indexes in tier 2; it never holds
\* a value that no carrier has ever indexed there.
TreesExact ==
  /\ \A p \in OrderedPairs : p \in index <=> pair[p] # {}
  /\ \A p \in index : p \in OrderedPairs \/ UsedAs(p, TRUE)
=============================================================================
