------------------------------ MODULE EntityDb ------------------------------
(***************************************************************************)
(* The state model of crates/arkiv-entitydb/src/lib.rs: entity accounts,   *)
(* tier-1 pair bitmaps, tier-2 index trees, the ID maps of the system      *)
(* account, and the six operation handlers that keep them in step.         *)
(*                                                                         *)
(* Simplifications of the data:                                            *)
(*   - a 32-byte entity key is a record of its first 20 bytes (addr), which *)
(*     are all that entity_address looks at, and the other 12 (tail);      *)
(*   - an attribute is the (name, value) pair it indexes and the tier2 flag *)
(*     that its value_type is folded into before any index sees it;        *)
(*   - payload bytes are left out: no handler reads them;                  *)
(*   - the tier-2 tree of a name is the set of its values; all trees       *)
(*     together are the set `index` of (name, value) pairs. A tombstoned   *)
(*     account and an empty one read the same, so an empty bitmap stands   *)
(*     for an absent pair account.                                         *)
(***************************************************************************)
EXTENDS Naturals, Sequences

CONSTANTS
  Accounts,     \* callers: every address that can own an entity
  MaxNonce,     \* u32::MAX in the code: the nonce no CREATE can use
  MaxEntities,  \* bound on the entity IDs ever allocated
  Tails,        \* the last 12 bytes of entity keys
  DerivedTail,  \* the tail that derive_entity_key produces
  ContentTypes, \* content types a payload reference can name
  UserPairs,    \* (name, value) pairs of user attributes
  AttrLists,    \* attribute lists that operations carry
  MaxHeight,    \* u64::MAX in the code: where block + btl saturates
  NoEntity,     \* empty code
  NoAddr        \* a zero id_to_addr slot

VARIABLES
  entity,       \* entity account code, decoded, by entity address
  pair,         \* tier-1 bitmap by (name, value) pair
  index,        \* the pairs whose value is in the tier-2 tree of its name
  idToAddr,     \* system account: entity ID -> entity address
  addrToId,     \* system account: entity address -> entity ID, 0 when unset
  entityCount   \* system account: next entity ID

dbVars == <<entity, pair, index, idToAddr, addrToId, entityCount>>
-----------------------------------------------------------------------------
Heights == 0 .. MaxHeight
Ids == 0 .. (MaxEntities - 1)

\* The first 20 bytes of keccak256(chain, caller, nonce): one address per
\* caller and nonce, distinct by collision resistance.
Addrs == Accounts \X (0 .. (MaxNonce - 1))
Keys == [addr : Addrs, tail : Tails]

EntityAddress(key) == key.addr

BuiltInNames == {"$all", "$creator", "$createdAtBlock", "$owner", "$key",
                 "$expiration", "$contentType"}

BuiltInPairs ==
  {<<"$all", "">>}
    \cup {<<"$creator", a>> : a \in Accounts}
    \cup {<<"$createdAtBlock", h>> : h \in Heights}
    \cup {<<"$owner", a>> : a \in Accounts}
    \cup {<<"$key", k>> : k \in Keys}
    \cup {<<"$expiration", h>> : h \in Heights}
    \cup {<<"$contentType", t>> : t \in ContentTypes}

Pairs == BuiltInPairs \cup UserPairs

Attributes == [pair : UserPairs, tier2 : BOOLEAN]
Annotations == [pair : Pairs, tier2 : BOOLEAN]

\* EntityRlp without its payload.
Entities ==
  [creator : Accounts, createdAt : Heights, owner : Accounts,
   expiresAt : Heights, contentType : ContentTypes, key : Keys,
   attributes : AttrLists, modifiedAt : Heights]

\* validate_ident32 admits names that start with a-z only, so no user
\* attribute shares a pair with a built-in annotation (ExecuteProofs
\* proves it of every accepted name: NamesAreNeverBuiltIn).
ASSUME UserPairsAssumption ==
  \A p \in UserPairs : p = <<p[1], p[2]>> /\ p[1] \notin BuiltInNames

ASSUME DbConstantsAssumption ==
  /\ MaxNonce \in Nat /\ MaxEntities \in Nat /\ MaxHeight \in Nat
  /\ DerivedTail \in Tails
  /\ AttrLists \subseteq Seq(Attributes)
  /\ NoEntity \notin Entities
  /\ NoAddr \notin Addrs
-----------------------------------------------------------------------------
(* Annotations                                                             *)

Annot(name, value, tier2) == [pair |-> <<name, value>>, tier2 |-> tier2]

ContentTypeAnnot(t) == Annot("$contentType", t, TRUE)

BuiltInAnnots(creator, owner, key, createdAt, expiresAt, contentType) ==
  {Annot("$all", "", FALSE), Annot("$creator", creator, FALSE),
   Annot("$createdAtBlock", createdAt, TRUE), Annot("$owner", owner, FALSE),
   Annot("$key", key, FALSE), Annot("$expiration", expiresAt, TRUE),
   ContentTypeAnnot(contentType)}

UserAnnots(attributes) == {attributes[i] : i \in DOMAIN attributes}

\* The annotations of a stored entity under the key an operation names.
AllAnnots(e, key) ==
  BuiltInAnnots(e.creator, e.owner, key, e.createdAt, e.expiresAt, e.contentType)
    \cup UserAnnots(e.attributes)

UpdatableAnnots(contentType, attributes) ==
  {ContentTypeAnnot(contentType)} \cup UserAnnots(attributes)

PairsOf(annots) == {a.pair : a \in annots}

\* The user annotations of `annots` that come first for their pair in the
\* list. A handler walks the list in order; once it has touched a pair, the
\* bitmap of that pair is non-empty (insertion) or free of the ID (removal),
\* so no later annotation of the same pair reaches the tree.
Firsts(attributes, annots) ==
  {attributes[i] : i \in
     {n \in DOMAIN attributes :
        /\ attributes[n] \in annots
        /\ \A m \in 1 .. (n - 1) :
             attributes[m] \in annots => attributes[m].pair # attributes[n].pair}}

\* insert_into_indexes for every annotation of `annots`; `firsts` are those
\* of them that come first for their pair.
InsertedBitmaps(bitmaps, annots, id) ==
  [p \in Pairs |->
     IF p \in PairsOf(annots) THEN bitmaps[p] \cup {id} ELSE bitmaps[p]]

InsertedTrees(trees, bitmaps, firsts) ==
  trees \cup {p \in PairsOf({a \in firsts : a.tier2}) : bitmaps[p] = {}}

\* remove_from_indexes, likewise. It returns early on an empty bitmap and
\* takes the value out of the tree when it has removed the last ID.
RemovedBitmaps(bitmaps, annots, id) ==
  [p \in Pairs |->
     IF p \in PairsOf(annots) THEN bitmaps[p] \ {id} ELSE bitmaps[p]]

\* Faulty variant: drops the value although other entities still use it.
RemovedTreesEagerly(trees, bitmaps, firsts, id) ==
  trees \ {p \in PairsOf({a \in firsts : a.tier2}) : bitmaps[p] # {}}

RemovedTrees(trees, bitmaps, firsts, id) ==
  trees \ {p \in PairsOf({a \in firsts : a.tier2}) : bitmaps[p] = {id}}
-----------------------------------------------------------------------------
(* The operation handlers. Each trusts its caller to have validated the    *)
(* operation and fails only where read_entity does: on empty code.         *)

DbInit ==
  /\ entity = [a \in Addrs |-> NoEntity]
  /\ pair = [p \in Pairs |-> {}]
  /\ index = {}
  /\ idToAddr = [i \in Ids |-> NoAddr]
  /\ addrToId = [a \in Addrs |-> 0]
  /\ entityCount = 0

DbCreate(sender, key, expiresAt, block, contentType, attributes) ==
  LET id == entityCount
      addr == EntityAddress(key)
      builtIns == BuiltInAnnots(sender, sender, key, block, expiresAt, contentType)
      users == UserAnnots(attributes)
  IN /\ entityCount < MaxEntities
     /\ entityCount' = id + 1
     /\ idToAddr' = [idToAddr EXCEPT ![id] = addr]
     /\ addrToId' = [addrToId EXCEPT ![addr] = id]
     /\ pair' = InsertedBitmaps(pair, builtIns \cup users, id)
     /\ index' = InsertedTrees(index, pair, builtIns \cup Firsts(attributes, users))
     /\ entity' = [entity EXCEPT ![addr] =
          [creator |-> sender, createdAt |-> block, owner |-> sender,
           expiresAt |-> expiresAt, contentType |-> contentType, key |-> key,
           attributes |-> attributes, modifiedAt |-> block]]

\* Faulty variant: inserts before it removes, so an annotation that only
\* changes its tier2 flag loses the bitmap entry it has just renewed.
DbUpdateInsertsFirst(key, block, contentType, attributes) ==
  LET addr == EntityAddress(key)
      id == addrToId[addr]
      e == entity[addr]
      old == UpdatableAnnots(e.contentType, e.attributes)
      new == UpdatableAnnots(contentType, attributes)
      inserted == InsertedBitmaps(pair, new \ old, id)
  IN /\ e # NoEntity
     /\ pair' = RemovedBitmaps(inserted, old \ new, id)
     /\ index' = RemovedTrees(InsertedTrees(index, pair, new \ old),
                              inserted, old \ new, id)
     /\ entity' = [entity EXCEPT
          ![addr] = [e EXCEPT !.contentType = contentType,
                              !.attributes = attributes, !.modifiedAt = block]]
     /\ UNCHANGED <<idToAddr, addrToId, entityCount>>

\* Removals first, then insertions, each set taken as (pair, tier2) values.
DbUpdate(key, block, contentType, attributes) ==
  LET addr == EntityAddress(key)
      id == addrToId[addr]
      e == entity[addr]
      old == UpdatableAnnots(e.contentType, e.attributes)
      new == UpdatableAnnots(contentType, attributes)
      gone == old \ new
      fresh == new \ old
      goneFirsts == Firsts(e.attributes, gone) \cup (gone \ UserAnnots(e.attributes))
      freshFirsts == Firsts(attributes, fresh) \cup (fresh \ UserAnnots(attributes))
      removed == RemovedBitmaps(pair, gone, id)
  IN /\ e # NoEntity
     /\ pair' = InsertedBitmaps(removed, fresh, id)
     /\ index' = InsertedTrees(RemovedTrees(index, pair, goneFirsts, id),
                               removed, freshFirsts)
     /\ entity' = [entity EXCEPT
          ![addr] = [e EXCEPT !.contentType = contentType,
                              !.attributes = attributes, !.modifiedAt = block]]
     /\ UNCHANGED <<idToAddr, addrToId, entityCount>>

\* Moves one built-in annotation of an entity: the body that extend and
\* transfer share.
MoveAnnot(id, from, to) ==
  LET removed == RemovedBitmaps(pair, {from}, id)
  IN /\ pair' = InsertedBitmaps(removed, {to}, id)
     /\ index' = InsertedTrees(RemovedTrees(index, pair, {from}, id), removed, {to})

\* Faulty variant: leaves the entity in the bitmap of its old expiry.
DbExtendKeepsOld(key, block, newExpiresAt) ==
  LET addr == EntityAddress(key)
      e == entity[addr]
      new == {Annot("$expiration", newExpiresAt, TRUE)}
  IN /\ e # NoEntity
     /\ pair' = InsertedBitmaps(pair, new, addrToId[addr])
     /\ index' = InsertedTrees(index, pair, new)
     /\ entity' = [entity EXCEPT
          ![addr] = [e EXCEPT !.expiresAt = newExpiresAt, !.modifiedAt = block]]
     /\ UNCHANGED <<idToAddr, addrToId, entityCount>>

DbExtend(key, block, newExpiresAt) ==
  LET addr == EntityAddress(key)
      e == entity[addr]
  IN /\ e # NoEntity
     /\ MoveAnnot(addrToId[addr], Annot("$expiration", e.expiresAt, TRUE),
                  Annot("$expiration", newExpiresAt, TRUE))
     /\ entity' = [entity EXCEPT
          ![addr] = [e EXCEPT !.expiresAt = newExpiresAt, !.modifiedAt = block]]
     /\ UNCHANGED <<idToAddr, addrToId, entityCount>>

DbTransfer(key, block, newOwner) ==
  LET addr == EntityAddress(key)
      e == entity[addr]
  IN /\ e # NoEntity
     /\ MoveAnnot(addrToId[addr], Annot("$owner", e.owner, FALSE),
                  Annot("$owner", newOwner, FALSE))
     /\ entity' = [entity EXCEPT
          ![addr] = [e EXCEPT !.owner = newOwner, !.modifiedAt = block]]
     /\ UNCHANGED <<idToAddr, addrToId, entityCount>>

\* Faulty variant: clears the wrong half of the ID maps.
DbDeleteKeepsSlot(key) ==
  LET addr == EntityAddress(key)
      id == addrToId[addr]
      e == entity[addr]
      gone == AllAnnots(e, key)
  IN /\ e # NoEntity
     /\ pair' = RemovedBitmaps(pair, gone, id)
     /\ index' = RemovedTrees(index, pair, gone, id)
     /\ addrToId' = [addrToId EXCEPT ![addr] = 0]
     /\ entity' = [entity EXCEPT ![addr] = NoEntity]
     /\ UNCHANGED <<idToAddr, entityCount>>

\* Faulty variant: gives the last ID back.
DbDeleteReclaimsId(key) ==
  LET addr == EntityAddress(key)
      id == addrToId[addr]
      e == entity[addr]
      gone == AllAnnots(e, key)
  IN /\ e # NoEntity
     /\ pair' = RemovedBitmaps(pair, gone, id)
     /\ index' = RemovedTrees(index, pair, gone, id)
     /\ idToAddr' = [idToAddr EXCEPT ![id] = NoAddr]
     /\ addrToId' = [addrToId EXCEPT ![addr] = 0]
     /\ entity' = [entity EXCEPT ![addr] = NoEntity]
     /\ entityCount' = IF id + 1 = entityCount THEN id ELSE entityCount

\* Rebuilds the $key annotation from the operation's key, not from the key
\* stored in the entity.
DbDelete(key) ==
  LET addr == EntityAddress(key)
      id == addrToId[addr]
      e == entity[addr]
      all == AllAnnots(e, key)
      users == UserAnnots(e.attributes)
      firsts == (all \ users) \cup Firsts(e.attributes, users)
  IN /\ e # NoEntity
     /\ pair' = RemovedBitmaps(pair, all, id)
     /\ index' = RemovedTrees(index, pair, firsts, id)
     /\ idToAddr' = [idToAddr EXCEPT ![id] = NoAddr]
     /\ addrToId' = [addrToId EXCEPT ![addr] = 0]
     /\ entity' = [entity EXCEPT ![addr] = NoEntity]
     /\ UNCHANGED entityCount

DbExpire(key) == DbDelete(key)
=============================================================================
