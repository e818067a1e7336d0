--------------------------- MODULE EntityDbProofs ---------------------------
(***************************************************************************)
(* The handlers of EntityDb keep the database invariants of EntityDbProps. *)
(***************************************************************************)
EXTENDS EntityDbProps, TLAPS, WellFoundedInduction

(***************************************************************************)
(* Annotations                                                             *)
(***************************************************************************)

\* A non-empty set of naturals has a least element.
LEMMA LeastNat ==
  ASSUME NEW S, S \subseteq Nat, S # {}
  PROVE  \E m \in S : \A n \in S : m <= n
<1>1. IsWellFoundedOn(OpToRel(<, Nat), Nat)
  BY NatLessThanWellFounded
<1>2. PICK m \in S : \A n \in S : <<n, m>> \notin OpToRel(<, Nat)
  BY <1>1, WFMin
<1>3. \A n \in S : ~(n < m)
  BY <1>2 DEF OpToRel
<1> QED
  BY <1>3

\* Attribute lists carry annotations of user pairs.
LEMMA UserAnnotsTyped ==
  ASSUME NEW l \in AttrLists
  PROVE  /\ l \in Seq(Attributes)
         /\ UserAnnots(l) \subseteq Attributes
         /\ UserAnnots(l) \subseteq Annotations
         /\ PairsOf(UserAnnots(l)) \subseteq UserPairs
<1>1. l \in Seq(Attributes)
  BY DbConstantsAssumption
<1>2. UserAnnots(l) \subseteq Attributes
  BY <1>1 DEF UserAnnots
<1>3. Attributes \subseteq Annotations
  BY DEF Attributes, Annotations, Pairs
<1> QED
  BY <1>1, <1>2, <1>3 DEF PairsOf, Attributes

\* The first annotations of a walk cover every pair the walk touches.
LEMMA FirstsCover ==
  ASSUME NEW l \in AttrLists, NEW annots
  PROVE  /\ Firsts(l, annots) \subseteq annots \cap UserAnnots(l)
         /\ PairsOf(Firsts(l, annots)) = PairsOf(annots \cap UserAnnots(l))
<1>1. Firsts(l, annots) \subseteq annots \cap UserAnnots(l)
  BY DEF Firsts, UserAnnots
<1>2. ASSUME NEW a \in annots \cap UserAnnots(l)
      PROVE  a.pair \in PairsOf(Firsts(l, annots))
  <2> DEFINE S == {n \in DOMAIN l : l[n] \in annots /\ l[n].pair = a.pair}
  <2>1. DOMAIN l \subseteq Nat
    BY UserAnnotsTyped
  <2>2. S # {}
    BY DEF UserAnnots
  <2>3. PICK m \in S : \A n \in S : m <= n
    <3> HIDE DEF S
    <3> QED BY <2>1, <2>2, LeastNat DEF S
  <2>4. \A k \in 1 .. (m - 1) : l[k] \in annots => l[k].pair # l[m].pair
    BY <2>1, <2>3, UserAnnotsTyped
  <2> QED
    BY <2>3, <2>4 DEF Firsts, PairsOf
<1> QED
  BY <1>1, <1>2 DEF PairsOf

\* Names whose built-in annotations have a tier-2 tree.
OrderedNames == {"$createdAtBlock", "$expiration", "$contentType"}

\* Sets of annotations with a built-in name, flagged as the code flags them.
BuiltIn(annots) ==
  /\ annots \subseteq Annotations
  /\ \A a \in annots :
       a.pair[1] \in BuiltInNames /\ (a.tier2 <=> a.pair[1] \in OrderedNames)

\* The annotations that reach the trees suffice for the ordered pairs, and
\* no unordered pair gets into a tree.
Covers(annots, firsts) ==
  /\ \A p \in OrderedPairs :
       p \in PairsOf(annots) => p \in PairsOf({a \in firsts : a.tier2})
  /\ firsts \subseteq annots
  /\ annots \subseteq Annotations
  /\ \A a \in annots : a.tier2 => a.pair \in OrderedPairs \/ UsedAs(a.pair, TRUE)

\* User pairs and built-in pairs are apart, by their names.
LEMMA UserPairsUnnamed ==
  ASSUME NEW p \in UserPairs
  PROVE  p[1] \notin BuiltInNames
BY UserPairsAssumption

\* The annotations that create and delete build are annotations.
LEMMA BuiltInAnnotsTyped ==
  ASSUME NEW creator \in Accounts, NEW owner \in Accounts, NEW key \in Keys,
         NEW createdAt \in Heights, NEW expiresAt \in Heights,
         NEW contentType \in ContentTypes
  PROVE  BuiltIn(BuiltInAnnots(creator, owner, key, createdAt, expiresAt, contentType))
BY DEF BuiltIn, BuiltInAnnots, Annot, ContentTypeAnnot, Annotations, Pairs,
       BuiltInPairs, BuiltInNames, OrderedNames

\* Every part of such a set is one.
LEMMA BuiltInSubset ==
  ASSUME NEW annots, BuiltIn(annots), NEW some, some \subseteq annots
  PROVE  BuiltIn(some)
BY DEF BuiltIn

\* A walk over built-in annotations and then an attribute list covers.
LEMMA WalkCovers ==
  ASSUME NEW l \in AttrLists, NEW walked, NEW builtIns, BuiltIn(builtIns)
  PROVE  Covers(builtIns \cup (walked \cap UserAnnots(l)),
                builtIns \cup Firsts(l, walked))
<1> DEFINE users == walked \cap UserAnnots(l)
           annots == builtIns \cup users
<1>1. users \subseteq Annotations /\ PairsOf(users) \subseteq UserPairs
  BY UserAnnotsTyped DEF PairsOf
<1>2. Firsts(l, walked) \subseteq users /\ PairsOf(Firsts(l, walked)) = PairsOf(users)
  BY FirstsCover
<1>3. ASSUME NEW p \in OrderedPairs, p \in PairsOf(annots)
      PROVE  p \in PairsOf({a \in builtIns \cup Firsts(l, walked) : a.tier2})
  <2>1. CASE p \in UserPairs
    <3>1. ~UsedAs(p, FALSE)
      <4>1. p[1] \notin OrderedNames
        BY <2>1, UserPairsUnnamed DEF BuiltInNames, OrderedNames
      <4> QED BY <4>1 DEF OrderedPairs, OrderedNames
    <3>2. p \in PairsOf(users)
      <4>1. p \notin PairsOf(builtIns)
        BY <2>1, UserPairsUnnamed DEF PairsOf, BuiltIn
      <4> QED BY <4>1, <1>3 DEF PairsOf
    <3>3. PICK a \in Firsts(l, walked) : a.pair = p
      BY <3>2, <1>2 DEF PairsOf
    <3>4. a \in UserAnnots(l) /\ a \in [pair : UserPairs, tier2 : BOOLEAN]
      BY <1>2, UserAnnotsTyped DEF Attributes
    <3>5. a.tier2
      <4>1. CASE a.tier2 = FALSE
        <5>1. a = [pair |-> p, tier2 |-> FALSE]
          BY <4>1, <3>3, <3>4
        <5> QED BY <5>1, <3>1, <3>4 DEF UsedAs
      <4> QED BY <4>1, <3>4
    <3> QED BY <3>3, <3>5 DEF PairsOf
  <2>2. CASE p \notin UserPairs
    <3>1. p[1] \in OrderedNames
      BY <2>2 DEF OrderedPairs, OrderedNames
    <3>2. PICK a \in builtIns : a.pair = p
      BY <2>2, <1>1, <1>3 DEF PairsOf
    <3> QED BY <3>1, <3>2 DEF BuiltIn, PairsOf
  <2> QED BY <2>1, <2>2
<1>4. ASSUME NEW a \in annots, a.tier2
      PROVE  a.pair \in OrderedPairs \/ UsedAs(a.pair, TRUE)
  <2>1. CASE a \in builtIns
    BY <2>1, <1>4 DEF BuiltIn, OrderedPairs, OrderedNames, Annotations
  <2>2. CASE a \in UserAnnots(l)
    <3>1. a \in [pair : UserPairs, tier2 : BOOLEAN]
      BY <2>2, UserAnnotsTyped DEF Attributes
    <3>2. a = [pair |-> a.pair, tier2 |-> TRUE]
      BY <3>1, <1>4
    <3> QED BY <3>2, <2>2 DEF UsedAs
  <2> QED BY <2>1, <2>2
<1> QED
  BY <1>1, <1>2, <1>3, <1>4 DEF Covers, BuiltIn

(***************************************************************************)
(* The indexes                                                             *)
(***************************************************************************)

\* TreesExact of any bitmaps and trees.
Exact(trees, bitmaps) ==
  /\ trees \subseteq Pairs
  /\ \A p \in OrderedPairs : p \in trees <=> bitmaps[p] # {}
  /\ \A p \in trees : p \in OrderedPairs \/ UsedAs(p, TRUE)

\* Ordered pairs are pairs.
LEMMA OrderedPairsArePairs == OrderedPairs \subseteq Pairs
BY DEF OrderedPairs, Pairs

\* insert_into_indexes keeps trees exact: a first insertion into an empty
\* bitmap is what puts an ordered value into its tree.
LEMMA InsertKeepsExact ==
  ASSUME NEW trees, NEW bitmaps, Exact(trees, bitmaps),
         NEW annots, NEW firsts, Covers(annots, firsts), NEW id
  PROVE  Exact(InsertedTrees(trees, bitmaps, firsts),
               InsertedBitmaps(bitmaps, annots, id))
<1> DEFINE reached == PairsOf({a \in firsts : a.tier2})
<1>1. /\ reached \subseteq PairsOf(annots)
      /\ \A p \in OrderedPairs : p \in PairsOf(annots) => p \in reached
      /\ \A p \in reached : p \in Pairs /\ (p \in OrderedPairs \/ UsedAs(p, TRUE))
  BY DEF Covers, PairsOf, Annotations
<1> HIDE DEF reached
<1> QED
  BY <1>1, OrderedPairsArePairs
     DEF Exact, InsertedTrees, InsertedBitmaps, reached

\* remove_from_indexes keeps trees exact: taking the last ID out of a bitmap
\* is what takes an ordered value out of its tree.
LEMMA RemoveKeepsExact ==
  ASSUME NEW trees, NEW bitmaps, Exact(trees, bitmaps),
         NEW annots, NEW firsts, Covers(annots, firsts), NEW id
  PROVE  Exact(RemovedTrees(trees, bitmaps, firsts, id),
               RemovedBitmaps(bitmaps, annots, id))
<1> DEFINE reached == PairsOf({a \in firsts : a.tier2})
<1>1. /\ reached \subseteq PairsOf(annots)
      /\ \A p \in OrderedPairs : p \in PairsOf(annots) => p \in reached
  BY DEF Covers, PairsOf
<1> HIDE DEF reached
<1> QED
  BY <1>1, OrderedPairsArePairs
     DEF Exact, RemovedTrees, RemovedBitmaps, reached

(***************************************************************************)
(* The handlers                                                            *)
(***************************************************************************)

DbInv ==
  /\ DbTypeOK
  /\ IdMapsInverse
  /\ BitmapsSound
  /\ BitmapsComplete
  /\ TreesExact

\* Stored code decodes to an entity.
LEMMA EntityIsTyped ==
  ASSUME DbTypeOK, NEW a \in Addrs, entity[a] # NoEntity
  PROVE  entity[a] \in Entities
BY DEF DbTypeOK

\* The pairs of an entity by name: the built-in ones and its attributes'.
LEMMA CarriedPairsAre ==
  ASSUME NEW e, NEW key, NEW p
  PROVE  p \in PairsOf(AllAnnots(e, key)) <=>
           \/ p = <<"$all", "">>
           \/ p = <<"$creator", e.creator>>
           \/ p = <<"$createdAtBlock", e.createdAt>>
           \/ p = <<"$owner", e.owner>>
           \/ p = <<"$key", key>>
           \/ p = <<"$expiration", e.expiresAt>>
           \/ p = <<"$contentType", e.contentType>>
           \/ p \in PairsOf(UserAnnots(e.attributes))
<1>1. /\ Annot("$all", "", FALSE).pair = <<"$all", "">>
      /\ Annot("$creator", e.creator, FALSE).pair = <<"$creator", e.creator>>
      /\ Annot("$createdAtBlock", e.createdAt, TRUE).pair
           = <<"$createdAtBlock", e.createdAt>>
      /\ Annot("$owner", e.owner, FALSE).pair = <<"$owner", e.owner>>
      /\ Annot("$key", key, FALSE).pair = <<"$key", key>>
      /\ Annot("$expiration", e.expiresAt, TRUE).pair = <<"$expiration", e.expiresAt>>
      /\ Annot("$contentType", e.contentType, TRUE).pair
           = <<"$contentType", e.contentType>>
  BY DEF Annot
<1> QED
  BY <1>1 DEF PairsOf, AllAnnots, BuiltInAnnots, ContentTypeAnnot

\* The same, read by the name of the pair.
LEMMA CarriedByName ==
  ASSUME NEW e, e.attributes \in AttrLists, NEW key, NEW p
  PROVE  /\ p[1] = "$all" => (p \in PairsOf(AllAnnots(e, key)) <=> p = <<"$all", "">>)
         /\ p[1] = "$creator" =>
              (p \in PairsOf(AllAnnots(e, key)) <=> p = <<"$creator", e.creator>>)
         /\ p[1] = "$createdAtBlock" =>
              (p \in PairsOf(AllAnnots(e, key)) <=> p = <<"$createdAtBlock", e.createdAt>>)
         /\ p[1] = "$owner" =>
              (p \in PairsOf(AllAnnots(e, key)) <=> p = <<"$owner", e.owner>>)
         /\ p[1] = "$key" =>
              (p \in PairsOf(AllAnnots(e, key)) <=> p = <<"$key", key>>)
         /\ p[1] = "$expiration" =>
              (p \in PairsOf(AllAnnots(e, key)) <=> p = <<"$expiration", e.expiresAt>>)
         /\ p[1] = "$contentType" =>
              (p \in PairsOf(AllAnnots(e, key)) <=> p = <<"$contentType", e.contentType>>)
         /\ p[1] \notin BuiltInNames =>
              (p \in PairsOf(AllAnnots(e, key)) <=> p \in PairsOf(UserAnnots(e.attributes)))
<1>1. p \in PairsOf(UserAnnots(e.attributes)) => p[1] \notin BuiltInNames
  BY UserAnnotsTyped, UserPairsUnnamed
<1>2. \A n, v : p = <<n, v>> => p[1] = n
  OBVIOUS
<1>3. p \in PairsOf(AllAnnots(e, key)) <=>
           \/ p = <<"$all", "">>
           \/ p = <<"$creator", e.creator>>
           \/ p = <<"$createdAtBlock", e.createdAt>>
           \/ p = <<"$owner", e.owner>>
           \/ p = <<"$key", key>>
           \/ p = <<"$expiration", e.expiresAt>>
           \/ p = <<"$contentType", e.contentType>>
           \/ p \in PairsOf(UserAnnots(e.attributes))
  BY CarriedPairsAre
<1> HIDE DEF PairsOf, AllAnnots, UserAnnots
<1> QED
  BY <1>1, <1>2, <1>3 DEF BuiltInNames

\* The ID leaves one bitmap for another.
BitmapsMove(id, from, to) ==
  \A p \in Pairs :
    pair'[p] = IF p = to THEN pair[p] \cup {id}
               ELSE IF p = from THEN pair[p] \ {id}
               ELSE pair[p]

\* The entity exchanges one pair for another.
CarriedMove(e, new, from, to) ==
  \A p : p \in CarriedPairs(new) <=>
           p = to \/ (p \in CarriedPairs(e) /\ p # from)

\* Changing expiresAt alone moves the $expiration pair alone.
LEMMA ExpirationMoves ==
  ASSUME NEW e, e.attributes \in AttrLists, NEW new,
         new.creator = e.creator,
         new.createdAt = e.createdAt,
         new.owner = e.owner,
         new.key = e.key,
         new.contentType = e.contentType,
         new.attributes = e.attributes
  PROVE  CarriedMove(e, new, <<"$expiration", e.expiresAt>>, <<"$expiration", new.expiresAt>>)
<1> SUFFICES ASSUME NEW p
             PROVE  p \in CarriedPairs(new) <=>
                      \/ p = <<"$expiration", new.expiresAt>>
                      \/ p \in CarriedPairs(e) /\ p # <<"$expiration", e.expiresAt>>
  BY DEF CarriedMove
<1>1. \A n, v : <<n, v>>[1] = n
  OBVIOUS
<1>2. CASE p[1] = "$expiration"
  <2>1. p \in CarriedPairs(new) <=> p = <<"$expiration", new.expiresAt>>
    BY <1>2, CarriedByName DEF CarriedPairs
  <2>2. p \in CarriedPairs(e) <=> p = <<"$expiration", e.expiresAt>>
    BY <1>2, CarriedByName DEF CarriedPairs
  <2> QED
    BY <2>1, <2>2
<1>3. CASE p[1] # "$expiration"
  <2>1. \A v : p # <<"$expiration", v>>
    BY <1>1, <1>3
  <2> DEFINE Elsewhere(x) ==
           \/ p = <<"$all", "">>
           \/ p = <<"$creator", x.creator>>
           \/ p = <<"$createdAtBlock", x.createdAt>>
           \/ p = <<"$owner", x.owner>>
           \/ p = <<"$key", x.key>>
           \/ p = <<"$contentType", x.contentType>>
           \/ p \in PairsOf(UserAnnots(x.attributes))
  <2>2. p \in CarriedPairs(new) <=> Elsewhere(new)
    BY <2>1, CarriedPairsAre DEF CarriedPairs
  <2>3. p \in CarriedPairs(e) <=> Elsewhere(e)
    BY <2>1, CarriedPairsAre DEF CarriedPairs
  <2>4. Elsewhere(new) <=> Elsewhere(e)
    OBVIOUS
  <2> QED
    BY <2>1, <2>2, <2>3, <2>4
<1> QED
  BY <1>2, <1>3

\* Changing owner alone moves the $owner pair alone.
LEMMA OwnerMoves ==
  ASSUME NEW e, e.attributes \in AttrLists, NEW new,
         new.creator = e.creator,
         new.createdAt = e.createdAt,
         new.key = e.key,
         new.expiresAt = e.expiresAt,
         new.contentType = e.contentType,
         new.attributes = e.attributes
  PROVE  CarriedMove(e, new, <<"$owner", e.owner>>, <<"$owner", new.owner>>)
<1> SUFFICES ASSUME NEW p
             PROVE  p \in CarriedPairs(new) <=>
                      \/ p = <<"$owner", new.owner>>
                      \/ p \in CarriedPairs(e) /\ p # <<"$owner", e.owner>>
  BY DEF CarriedMove
<1>1. \A n, v : <<n, v>>[1] = n
  OBVIOUS
<1>2. CASE p[1] = "$owner"
  <2>1. p \in CarriedPairs(new) <=> p = <<"$owner", new.owner>>
    BY <1>2, CarriedByName DEF CarriedPairs
  <2>2. p \in CarriedPairs(e) <=> p = <<"$owner", e.owner>>
    BY <1>2, CarriedByName DEF CarriedPairs
  <2> QED
    BY <2>1, <2>2
<1>3. CASE p[1] # "$owner"
  <2>1. \A v : p # <<"$owner", v>>
    BY <1>1, <1>3
  <2> DEFINE Elsewhere(x) ==
           \/ p = <<"$all", "">>
           \/ p = <<"$creator", x.creator>>
           \/ p = <<"$createdAtBlock", x.createdAt>>
           \/ p = <<"$key", x.key>>
           \/ p = <<"$expiration", x.expiresAt>>
           \/ p = <<"$contentType", x.contentType>>
           \/ p \in PairsOf(UserAnnots(x.attributes))
  <2>2. p \in CarriedPairs(new) <=> Elsewhere(new)
    BY <2>1, CarriedPairsAre DEF CarriedPairs
  <2>3. p \in CarriedPairs(e) <=> Elsewhere(e)
    BY <2>1, CarriedPairsAre DEF CarriedPairs
  <2>4. Elsewhere(new) <=> Elsewhere(e)
    OBVIOUS
  <2> QED
    BY <2>1, <2>2, <2>3, <2>4
<1> QED
  BY <1>2, <1>3

\* The pairs that an UPDATE can touch.
LEMMA UpdatablePairsAre ==
  ASSUME NEW contentType, NEW attributes, NEW p
  PROVE  p \in PairsOf(UpdatableAnnots(contentType, attributes)) <=>
           \/ p = <<"$contentType", contentType>>
           \/ p \in PairsOf(UserAnnots(attributes))
<1>1. Annot("$contentType", contentType, TRUE).pair = <<"$contentType", contentType>>
  BY DEF Annot
<1> QED
  BY <1>1 DEF PairsOf, UpdatableAnnots, ContentTypeAnnot

\* The invariant of the database holds at genesis.
LEMMA DbInitHolds == DbInit => DbInv
<1> SUFFICES ASSUME DbInit PROVE DbInv
  OBVIOUS
<1>1. DbTypeOK
  BY DbConstantsAssumption DEF DbInit, DbTypeOK
<1>2. IdMapsInverse
  BY DEF DbInit, IdMapsInverse
<1>3. BitmapsSound /\ BitmapsComplete
  BY DEF DbInit, BitmapsSound, BitmapsComplete
<1>4. TreesExact
  BY OrderedPairsArePairs DEF DbInit, TreesExact
<1> QED
  BY <1>1, <1>2, <1>3, <1>4 DEF DbInv

\* create keeps the invariant, at an address that holds nothing.
LEMMA CreateKeeps ==
  ASSUME DbInv,
         NEW sender \in Accounts, NEW key \in Keys, NEW expiresAt \in Heights,
         NEW block \in Heights, NEW contentType \in ContentTypes,
         NEW attributes \in AttrLists,
         entity[EntityAddress(key)] = NoEntity,
         DbCreate(sender, key, expiresAt, block, contentType, attributes)
  PROVE  DbInv'
<1> DEFINE id == entityCount
           addr == EntityAddress(key)
           builtIns == BuiltInAnnots(sender, sender, key, block, expiresAt, contentType)
           annots == builtIns \cup UserAnnots(attributes)
           new == [creator |-> sender, createdAt |-> block, owner |-> sender,
                   expiresAt |-> expiresAt, contentType |-> contentType,
                   key |-> key, attributes |-> attributes, modifiedAt |-> block]
<1>1. /\ id \in Ids /\ addr \in Addrs /\ new \in Entities
      /\ id < MaxEntities /\ id \in Nat
  BY DbConstantsAssumption
     DEF DbInv, DbTypeOK, DbCreate, Ids, Keys, EntityAddress, Entities
<1>2. /\ entityCount' = id + 1
      /\ idToAddr' = [idToAddr EXCEPT ![id] = addr]
      /\ addrToId' = [addrToId EXCEPT ![addr] = id]
      /\ pair' = InsertedBitmaps(pair, annots, id)
      /\ index' = InsertedTrees(index, pair,
                                builtIns \cup Firsts(attributes, UserAnnots(attributes)))
      /\ entity' = [entity EXCEPT ![addr] = new]
  BY DEF DbCreate
<1>3. new # NoEntity /\ addr # NoAddr /\ CarriedPairs(new) = PairsOf(annots)
  BY <1>1, DbConstantsAssumption DEF CarriedPairs, AllAnnots
<1>4. Exact(index', pair')
  <2>1. BuiltIn(builtIns)
    BY BuiltInAnnotsTyped
  <2>2. Covers(annots, builtIns \cup Firsts(attributes, UserAnnots(attributes)))
    <3>1. annots = builtIns \cup (UserAnnots(attributes) \cap UserAnnots(attributes))
      OBVIOUS
    <3> QED
      BY ONLY <2>1, <3>1, WalkCovers, attributes \in AttrLists
  <2>3. Exact(index, pair)
    BY DEF DbInv, DbTypeOK, TreesExact, Exact
  <2> QED
    BY <1>2, <2>2, <2>3, InsertKeepsExact
<1>5. DbTypeOK'
  <2>1. entity' \in [Addrs -> Entities \cup {NoEntity}]
    BY <1>1, <1>2 DEF DbInv, DbTypeOK
  <2>2. pair' \in [Pairs -> SUBSET Ids]
    BY <1>1, <1>2 DEF DbInv, DbTypeOK, InsertedBitmaps
  <2>3. /\ idToAddr' \in [Ids -> Addrs \cup {NoAddr}]
        /\ addrToId' \in [Addrs -> Nat]
        /\ entityCount' \in 0 .. MaxEntities
    BY <1>1, <1>2, DbConstantsAssumption DEF DbInv, DbTypeOK, Ids
  <2> QED
    BY <1>4, <2>1, <2>2, <2>3 DEF DbTypeOK, Exact
<1>6. IdMapsInverse'
  BY <1>1, <1>2, <1>3 DEF DbInv, DbTypeOK, IdMapsInverse, Ids
<1>7. BitmapsSound'
  BY <1>1, <1>2, <1>3 DEF DbInv, DbTypeOK, IdMapsInverse, BitmapsSound, InsertedBitmaps, Ids
<1>8. BitmapsComplete'
  BY <1>1, <1>2, <1>3 DEF DbInv, DbTypeOK, BitmapsComplete, InsertedBitmaps, StablePairs
<1> QED
  BY <1>4, <1>5, <1>6, <1>7, <1>8 DEF DbInv, TreesExact, Exact

\* EXTEND and TRANSFER: one built-in annotation of a live entity moves.
LEMMA MoveKeepsTrees ==
  ASSUME DbInv, NEW id \in Ids,
         NEW from \in Annotations, NEW to \in Annotations,
         BuiltIn({from}), BuiltIn({to}), MoveAnnot(id, from, to)
  PROVE  /\ Exact(index', pair')
         /\ pair' \in [Pairs -> SUBSET Ids]
         /\ BitmapsMove(id, from.pair, to.pair)
<1>1. ASSUME NEW a, BuiltIn({a})
      PROVE  Covers({a}, {a}) /\ PairsOf({a}) = {a.pair}
  <2>1. a \in Annotations /\ a.pair \in Pairs /\ a.pair[1] \in BuiltInNames
        /\ (a.tier2 <=> a.pair[1] \in OrderedNames)
    BY <1>1 DEF BuiltIn, Annotations
  <2>2. PairsOf({a}) = {a.pair}
    BY DEF PairsOf
  <2>3. a.pair \in OrderedPairs <=> a.tier2
    BY <2>1, UserPairsUnnamed DEF OrderedPairs, OrderedNames
  <2>4. a.tier2 => PairsOf({b \in {a} : b.tier2}) = {a.pair}
    BY DEF PairsOf
  <2> QED
    BY <2>1, <2>2, <2>3, <2>4 DEF Covers
<1>2. Exact(index, pair)
  BY DEF DbInv, DbTypeOK, TreesExact, Exact
<1>3. Exact(RemovedTrees(index, pair, {from}, id), RemovedBitmaps(pair, {from}, id))
  BY <1>1, <1>2, RemoveKeepsExact
<1>4. Exact(index', pair')
  BY <1>1, <1>3, InsertKeepsExact DEF MoveAnnot
<1>5. pair \in [Pairs -> SUBSET Ids]
  BY DEF DbInv, DbTypeOK
<1> QED
  BY <1>1, <1>4, <1>5 DEF MoveAnnot, RemovedBitmaps, InsertedBitmaps, BitmapsMove

\* The ID of a live entity is one of those allocated.
LEMMA LiveIds ==
  ASSUME DbInv, NEW a \in Addrs, entity[a] # NoEntity
  PROVE  /\ addrToId[a] \in Ids
         /\ addrToId[a] < entityCount
         /\ idToAddr[addrToId[a]] = a
         /\ \A i \in Ids : idToAddr[i] = a => i = addrToId[a]
BY DbConstantsAssumption DEF DbInv, DbTypeOK, IdMapsInverse, Ids

\* Moving an entity from the bitmap of one built-in pair to that of another
\* keeps bitmaps sound and complete.
LEMMA MoveKeepsBitmaps ==
  ASSUME DbInv, NEW addr \in Addrs, entity[addr] # NoEntity,
         NEW new, new # NoEntity, NEW from \in Pairs, NEW to \in Pairs,
         entity' = [entity EXCEPT ![addr] = new],
         UNCHANGED <<idToAddr, addrToId, entityCount>>,
         BitmapsMove(addrToId[addr], from, to),
         CarriedMove(entity[addr], new, from, to)
  PROVE  BitmapsSound' /\ BitmapsComplete'
<1> DEFINE id == addrToId[addr]
<1>1. /\ id \in Ids /\ id < entityCount /\ idToAddr[id] = addr
      /\ \A i \in Ids : idToAddr[i] = addr => i = id
  BY LiveIds
<1>2. /\ \A p \in Pairs : pair[p] \subseteq Ids
      /\ entity \in [Addrs -> Entities \cup {NoEntity}]
      /\ addr # NoAddr
      /\ idToAddr \in [Ids -> Addrs \cup {NoAddr}]
  BY DbConstantsAssumption DEF DbInv, DbTypeOK
<1> USE DEF BitmapsMove, CarriedMove
<1>3. BitmapsSound'
  <2> SUFFICES ASSUME NEW p \in Pairs, NEW i \in pair'[p]
               PROVE  /\ i < entityCount
                      /\ p[1] # "$key" => idToAddr[i] # NoAddr
                      /\ idToAddr[i] # NoAddr => p \in CarriedPairs(entity'[idToAddr[i]])
    BY DEF BitmapsSound
  <2>1. CASE i = id
    <3>1. p \in CarriedPairs(new)
      BY <2>1, <1>1, <1>2 DEF DbInv, BitmapsSound
    <3> QED
      BY <2>1, <3>1, <1>1, <1>2
  <2>2. CASE i # id
    <3>1. i \in pair[p] /\ i \in Ids
      BY <2>2, <1>2
    <3>2. idToAddr[i] # addr
      BY <2>2, <3>1, <1>1
    <3> QED
      BY <3>1, <3>2, <1>2 DEF DbInv, BitmapsSound
  <2> QED
    BY <2>1, <2>2
<1>4. BitmapsComplete'
  <2> SUFFICES ASSUME NEW a \in Addrs, entity'[a] # NoEntity,
                      NEW p \in CarriedPairs(entity'[a]), p \in StablePairs
               PROVE  addrToId[a] \in pair'[p]
    BY DEF BitmapsComplete
  <2>1. p \in Pairs
    BY DEF StablePairs
  <2>2. CASE a = addr
    BY <2>1, <2>2, <1>2 DEF DbInv, BitmapsComplete
  <2>3. CASE a # addr
    <3>1. entity'[a] = entity[a] /\ addrToId[a] # id
      BY <2>3, <1>1, <1>2, LiveIds
    <3> QED
      BY <2>1, <3>1 DEF DbInv, BitmapsComplete
  <2> QED
    BY <2>2, <2>3
<1> QED
  BY <1>3, <1>4

\* extend keeps the invariant.
LEMMA ExtendKeeps ==
  ASSUME DbInv,
         NEW key \in Keys, NEW block \in Heights, NEW newExpiresAt \in Heights,
         DbExtend(key, block, newExpiresAt)
  PROVE  DbInv'
<1> DEFINE addr == EntityAddress(key)
           id == addrToId[addr]
           e == entity[addr]
           from == Annot("$expiration", e.expiresAt, TRUE)
           to == Annot("$expiration", newExpiresAt, TRUE)
           new == [e EXCEPT !.expiresAt = newExpiresAt, !.modifiedAt = block]
<1>1. /\ addr \in Addrs /\ e # NoEntity
      /\ entity' = [entity EXCEPT ![addr] = new]
      /\ MoveAnnot(id, from, to)
      /\ UNCHANGED <<idToAddr, addrToId, entityCount>>
  BY DEF DbExtend, Keys, EntityAddress
<1>2. e \in Entities /\ new \in Entities /\ new # NoEntity
  BY <1>1, EntityIsTyped, DbConstantsAssumption DEF DbInv, Entities
<1>3. id \in Ids
  BY <1>1, LiveIds
<1>4. /\ from \in Annotations /\ to \in Annotations
      /\ BuiltIn({from}) /\ BuiltIn({to})
      /\ from.pair = <<"$expiration", e.expiresAt>>
      /\ to.pair = <<"$expiration", newExpiresAt>>
  BY <1>2 DEF Entities, Annot, Annotations, Pairs, BuiltInPairs, BuiltIn,
              BuiltInNames, OrderedNames
<1>5. /\ Exact(index', pair')
      /\ pair' \in [Pairs -> SUBSET Ids]
      /\ BitmapsMove(id, from.pair, to.pair)
  BY <1>1, <1>3, <1>4, MoveKeepsTrees
<1>6. CarriedMove(e, new, from.pair, to.pair)
  <2>1. /\ new.creator = e.creator /\ new.createdAt = e.createdAt
        /\ new.owner = e.owner /\ new.key = e.key
        /\ new.contentType = e.contentType /\ new.attributes = e.attributes
        /\ new.expiresAt = newExpiresAt /\ e.attributes \in AttrLists
    BY <1>2 DEF Entities
  <2> HIDE DEF new, e
  <2> QED
    BY <1>4, <2>1, ExpirationMoves
<1>7. DbTypeOK'
  BY <1>1, <1>2, <1>5 DEF DbInv, DbTypeOK, Exact
<1>8. IdMapsInverse'
  BY <1>1, <1>2 DEF DbInv, DbTypeOK, IdMapsInverse
<1>9. from.pair \in Pairs /\ to.pair \in Pairs
  BY <1>4 DEF Annotations
<1>10. BitmapsSound' /\ BitmapsComplete'
  BY <1>1, <1>2, <1>5, <1>6, <1>9, MoveKeepsBitmaps
<1> QED
  BY <1>5, <1>7, <1>8, <1>10 DEF DbInv, TreesExact, Exact

\* transfer keeps the invariant.
LEMMA TransferKeeps ==
  ASSUME DbInv,
         NEW key \in Keys, NEW block \in Heights, NEW newOwner \in Accounts,
         DbTransfer(key, block, newOwner)
  PROVE  DbInv'
<1> DEFINE addr == EntityAddress(key)
           id == addrToId[addr]
           e == entity[addr]
           from == Annot("$owner", e.owner, FALSE)
           to == Annot("$owner", newOwner, FALSE)
           new == [e EXCEPT !.owner = newOwner, !.modifiedAt = block]
<1>1. /\ addr \in Addrs /\ e # NoEntity
      /\ entity' = [entity EXCEPT ![addr] = new]
      /\ MoveAnnot(id, from, to)
      /\ UNCHANGED <<idToAddr, addrToId, entityCount>>
  BY DEF DbTransfer, Keys, EntityAddress
<1>2. e \in Entities /\ new \in Entities /\ new # NoEntity
  BY <1>1, EntityIsTyped, DbConstantsAssumption DEF DbInv, Entities
<1>3. id \in Ids
  BY <1>1, LiveIds
<1>4. /\ from \in Annotations /\ to \in Annotations
      /\ BuiltIn({from}) /\ BuiltIn({to})
      /\ from.pair = <<"$owner", e.owner>>
      /\ to.pair = <<"$owner", newOwner>>
  BY <1>2 DEF Entities, Annot, Annotations, Pairs, BuiltInPairs, BuiltIn,
              BuiltInNames, OrderedNames
<1>5. /\ Exact(index', pair')
      /\ pair' \in [Pairs -> SUBSET Ids]
      /\ BitmapsMove(id, from.pair, to.pair)
  BY <1>1, <1>3, <1>4, MoveKeepsTrees
<1>6. CarriedMove(e, new, from.pair, to.pair)
  <2>1. /\ new.creator = e.creator /\ new.createdAt = e.createdAt
        /\ new.expiresAt = e.expiresAt /\ new.key = e.key
        /\ new.contentType = e.contentType /\ new.attributes = e.attributes
        /\ new.owner = newOwner /\ e.attributes \in AttrLists
    BY <1>2 DEF Entities
  <2> HIDE DEF new, e
  <2> QED
    BY <1>4, <2>1, OwnerMoves
<1>7. DbTypeOK'
  BY <1>1, <1>2, <1>5 DEF DbInv, DbTypeOK, Exact
<1>8. IdMapsInverse'
  BY <1>1, <1>2 DEF DbInv, DbTypeOK, IdMapsInverse
<1>9. from.pair \in Pairs /\ to.pair \in Pairs
  BY <1>4 DEF Annotations
<1>10. BitmapsSound' /\ BitmapsComplete'
  BY <1>1, <1>2, <1>5, <1>6, <1>9, MoveKeepsBitmaps
<1> QED
  BY <1>5, <1>7, <1>8, <1>10 DEF DbInv, TreesExact, Exact

\* delete, and with it expire, keeps the invariant, whichever alias of the
\* stored key it is given.
LEMMA DeleteKeeps ==
  ASSUME DbInv, NEW key \in Keys, DbDelete(key)
  PROVE  DbInv'
<1> DEFINE addr == EntityAddress(key)
           id == addrToId[addr]
           e == entity[addr]
           all == AllAnnots(e, key)
           users == UserAnnots(e.attributes)
           builtIns == all \ users
<1>1. /\ addr \in Addrs /\ e # NoEntity
      /\ pair' = RemovedBitmaps(pair, all, id)
      /\ index' = RemovedTrees(index, pair,
                               builtIns \cup Firsts(e.attributes, users), id)
      /\ idToAddr' = [idToAddr EXCEPT ![id] = NoAddr]
      /\ addrToId' = [addrToId EXCEPT ![addr] = 0]
      /\ entity' = [entity EXCEPT ![addr] = NoEntity]
      /\ entityCount' = entityCount
  BY DEF DbDelete, Keys, EntityAddress
<1>2. /\ e \in Entities /\ e.attributes \in AttrLists
  BY <1>1, EntityIsTyped DEF DbInv, Entities
<1>3. /\ id \in Ids /\ id < entityCount /\ idToAddr[id] = addr
      /\ \A i \in Ids : idToAddr[i] = addr => i = id
      /\ \A a \in Addrs : entity[a] # NoEntity /\ a # addr => addrToId[a] # id
  BY <1>1, LiveIds
<1>4. Exact(index', pair')
  <2>1. BuiltIn(builtIns)
    <3>1. builtIns \subseteq
            BuiltInAnnots(e.creator, e.owner, key, e.createdAt, e.expiresAt, e.contentType)
      BY DEF AllAnnots
    <3> QED
      BY <1>2, <3>1, BuiltInAnnotsTyped, BuiltInSubset DEF Entities
  <2>2. all = builtIns \cup (users \cap users)
    BY DEF AllAnnots
  <2>3. Covers(all, builtIns \cup Firsts(e.attributes, users))
    <3> HIDE DEF builtIns, all
    <3> QED BY <1>2, <2>1, <2>2, WalkCovers
  <2>4. Exact(index, pair)
    BY DEF DbInv, DbTypeOK, TreesExact, Exact
  <2> QED
    BY <1>1, <2>3, <2>4, RemoveKeepsExact
<1>5. /\ \A p \in Pairs : pair'[p] = IF p \in PairsOf(all) THEN pair[p] \ {id} ELSE pair[p]
      /\ pair' \in [Pairs -> SUBSET Ids]
  BY <1>1 DEF RemovedBitmaps, DbInv, DbTypeOK
<1>6. /\ entity \in [Addrs -> Entities \cup {NoEntity}]
      /\ idToAddr \in [Ids -> Addrs \cup {NoAddr}]
      /\ addrToId \in [Addrs -> Nat]
      /\ \A p \in Pairs : pair[p] \subseteq Ids
      /\ addr # NoAddr
  BY <1>1, DbConstantsAssumption DEF DbInv, DbTypeOK
<1>7. DbTypeOK'
  BY <1>1, <1>4, <1>5, <1>6 DEF DbInv, DbTypeOK, Exact
<1>8. IdMapsInverse'
  BY <1>1, <1>3, <1>6 DEF DbInv, IdMapsInverse
<1>9. BitmapsSound'
  <2> SUFFICES ASSUME NEW p \in Pairs, NEW i \in pair'[p]
               PROVE  /\ i < entityCount
                      /\ p[1] # "$key" => idToAddr'[i] # NoAddr
                      /\ idToAddr'[i] # NoAddr =>
                           p \in CarriedPairs(entity'[idToAddr'[i]])
    BY <1>1 DEF BitmapsSound
  <2>1. i \in pair[p] /\ i \in Ids
    BY <1>5, <1>6
  <2>2. CASE i = id
    <3>1. p \notin PairsOf(all)
      BY <2>2, <1>5
    <3>2. p \in CarriedPairs(e)
      BY <2>1, <2>2, <1>3, <1>6 DEF DbInv, BitmapsSound
    <3>3. p[1] = "$key"
      <4>1. \A v : p = <<"$key", v>> => p[1] = "$key"
        OBVIOUS
      <4> HIDE DEF all, e
      <4> QED BY <3>1, <3>2, <4>1, CarriedPairsAre DEF all, CarriedPairs
    <3> QED
      BY <2>2, <3>3, <1>1, <1>3, <1>6
  <2>3. CASE i # id
    <3>1. idToAddr'[i] = idToAddr[i] /\ idToAddr[i] # addr
      BY <2>1, <2>3, <1>1, <1>3, <1>6
    <3>2. idToAddr[i] # NoAddr => entity'[idToAddr[i]] = entity[idToAddr[i]]
      BY <2>1, <3>1, <1>1, <1>6
    <3> QED
      BY <2>1, <3>1, <3>2 DEF DbInv, BitmapsSound
  <2> QED
    BY <2>2, <2>3
<1>10. BitmapsComplete'
  <2> SUFFICES ASSUME NEW a \in Addrs, entity'[a] # NoEntity,
                      NEW p \in CarriedPairs(entity'[a]), p \in StablePairs
               PROVE  addrToId'[a] \in pair'[p]
    BY DEF BitmapsComplete
  <2>1. p \in Pairs
    BY DEF StablePairs
  <2>2. a # addr /\ entity'[a] = entity[a] /\ addrToId'[a] = addrToId[a]
    BY <1>1, <1>6
  <2>3. addrToId[a] # id /\ addrToId[a] \in pair[p]
    BY <2>1, <2>2, <1>3 DEF DbInv, BitmapsComplete
  <2> QED
    BY <2>1, <2>2, <2>3, <1>5
<1> QED
  BY <1>4, <1>7, <1>8, <1>9, <1>10 DEF DbInv, TreesExact, Exact

\* The pairs of an entity that an UPDATE leaves alone.
FixedPair(e, p) ==
  \/ p = <<"$all", "">>
  \/ p = <<"$creator", e.creator>>
  \/ p = <<"$createdAtBlock", e.createdAt>>
  \/ p = <<"$owner", e.owner>>
  \/ p = <<"$key", e.key>>
  \/ p = <<"$expiration", e.expiresAt>>

\* An annotation of an entity is fixed for an update or part of its diff.
LEMMA FixedOrUpdatable ==
  ASSUME NEW e, e.attributes \in AttrLists, NEW p
  PROVE  /\ p \in CarriedPairs(e) <=>
              FixedPair(e, p) \/ p \in PairsOf(UpdatableAnnots(e.contentType, e.attributes))
         /\ \A t : \A l \in AttrLists :
              p \in PairsOf(UpdatableAnnots(t, l)) => ~FixedPair(e, p)
<1>1. p \in CarriedPairs(e) <=>
        FixedPair(e, p) \/ p \in PairsOf(UpdatableAnnots(e.contentType, e.attributes))
  BY CarriedPairsAre, UpdatablePairsAre DEF CarriedPairs, FixedPair
<1>2. ASSUME NEW t, NEW l \in AttrLists, p \in PairsOf(UpdatableAnnots(t, l))
      PROVE  ~FixedPair(e, p)
  <2>1. \A n, v : p = <<n, v>> => p[1] = n
    OBVIOUS
  <2>2. p[1] = "$contentType" \/ p[1] \notin BuiltInNames
    BY <1>2, <2>1, UpdatablePairsAre, UserAnnotsTyped, UserPairsUnnamed
  <2> QED
    BY <2>1, <2>2 DEF FixedPair, BuiltInNames
<1> QED
  BY <1>1, <1>2

\* The annotations an update compares are annotations.
LEMMA UpdatableAnnotsTyped ==
  ASSUME NEW contentType \in ContentTypes, NEW l \in AttrLists
  PROVE  /\ UpdatableAnnots(contentType, l) \subseteq Annotations
         /\ BuiltIn(UpdatableAnnots(contentType, l) \ UserAnnots(l))
<1> DEFINE c == ContentTypeAnnot(contentType)
<1>1. c \in Annotations /\ BuiltIn({c})
  BY DEF ContentTypeAnnot, Annot, Annotations, Pairs, BuiltInPairs, BuiltIn,
         BuiltInNames, OrderedNames
<1>2. UpdatableAnnots(contentType, l) = {c} \cup UserAnnots(l)
  BY DEF UpdatableAnnots
<1> HIDE DEF c
<1>3. UpdatableAnnots(contentType, l) \ UserAnnots(l) \subseteq {c}
  BY <1>2
<1> QED
  BY <1>1, <1>2, <1>3, UserAnnotsTyped, BuiltInSubset

\* Two different annotations of one entity share a pair only where its list
\* mixes the flavours of that pair.
LEMMA OneFlavour ==
  ASSUME NEW contentType, NEW l \in AttrLists, NEW p \in StablePairs,
         NEW a \in UpdatableAnnots(contentType, l),
         NEW b \in UpdatableAnnots(contentType, l),
         a.pair = p, b.pair = p
  PROVE  a = b
<1>1. ASSUME NEW c \in UserAnnots(l)
      PROVE  c \in [pair : UserPairs, tier2 : BOOLEAN] /\ c.pair[1] \notin BuiltInNames
  BY UserAnnotsTyped, UserPairsUnnamed DEF Attributes
<1>2. ContentTypeAnnot(contentType).pair[1] \in BuiltInNames
  <2>1. ContentTypeAnnot(contentType).pair = <<"$contentType", contentType>>
    BY DEF ContentTypeAnnot, Annot
  <2> QED
    BY <2>1 DEF BuiltInNames
<1>3. CASE a \in UserAnnots(l) /\ b \in UserAnnots(l) /\ a # b
  <2>1. a = [pair |-> p, tier2 |-> a.tier2] /\ b = [pair |-> p, tier2 |-> b.tier2]
    BY <1>1, <1>3
  <2>2. a.tier2 \in BOOLEAN /\ b.tier2 \in BOOLEAN /\ a.tier2 # b.tier2
    BY <1>1, <1>3, <2>1
  <2>3. {[pair |-> p, tier2 |-> TRUE], [pair |-> p, tier2 |-> FALSE]} \subseteq UserAnnots(l)
    BY <1>3, <2>1, <2>2
  <2> QED
    BY <2>3 DEF StablePairs, MixedIn
<1> QED
  BY <1>1, <1>2, <1>3 DEF UpdatableAnnots

\* update keeps the invariant: the diff moves the entity between bitmaps,
\* exactly on the stable pairs.
LEMMA UpdateKeeps ==
  ASSUME DbInv,
         NEW key \in Keys, NEW block \in Heights, NEW contentType \in ContentTypes,
         NEW attributes \in AttrLists, DbUpdate(key, block, contentType, attributes)
  PROVE  DbInv'
<1> DEFINE addr == EntityAddress(key)
           id == addrToId[addr]
           e == entity[addr]
           new == [e EXCEPT !.contentType = contentType,
                            !.attributes = attributes, !.modifiedAt = block]
           before == UpdatableAnnots(e.contentType, e.attributes)
           after == UpdatableAnnots(contentType, attributes)
           gone == before \ after
           fresh == after \ before
           goneFirsts == Firsts(e.attributes, gone) \cup (gone \ UserAnnots(e.attributes))
           freshFirsts == Firsts(attributes, fresh) \cup (fresh \ UserAnnots(attributes))
           removed == RemovedBitmaps(pair, gone, id)
<1>1. /\ addr \in Addrs /\ e # NoEntity
      /\ pair' = InsertedBitmaps(removed, fresh, id)
      /\ index' = InsertedTrees(RemovedTrees(index, pair, goneFirsts, id),
                                removed, freshFirsts)
      /\ entity' = [entity EXCEPT ![addr] = new]
      /\ UNCHANGED <<idToAddr, addrToId, entityCount>>
  BY DEF DbUpdate, Keys, EntityAddress
<1>2. /\ e \in Entities /\ new \in Entities /\ new # NoEntity
      /\ e.attributes \in AttrLists /\ e.contentType \in ContentTypes
      /\ new.attributes = attributes /\ new.contentType = contentType
      /\ \A p : FixedPair(new, p) <=> FixedPair(e, p)
  BY <1>1, EntityIsTyped, DbConstantsAssumption DEF DbInv, Entities, FixedPair
<1>3. /\ id \in Ids /\ id < entityCount /\ idToAddr[id] = addr
      /\ \A i \in Ids : idToAddr[i] = addr => i = id
      /\ \A a \in Addrs : entity[a] # NoEntity /\ a # addr => addrToId[a] # id
  BY <1>1, LiveIds
<1>4. Exact(index', pair')
  <2>1. ASSUME NEW t \in ContentTypes, NEW l \in AttrLists,
               NEW annots, annots \subseteq UpdatableAnnots(t, l)
        PROVE  Covers(annots, Firsts(l, annots) \cup (annots \ UserAnnots(l)))
    <3>1. BuiltIn(annots \ UserAnnots(l))
      <4>1. annots \ UserAnnots(l) \subseteq UpdatableAnnots(t, l) \ UserAnnots(l)
        BY <2>1
      <4> QED
        BY <4>1, UpdatableAnnotsTyped, BuiltInSubset
    <3>2. annots = (annots \ UserAnnots(l)) \cup (annots \cap UserAnnots(l))
      OBVIOUS
    <3>3. Firsts(l, annots) \cup (annots \ UserAnnots(l))
            = (annots \ UserAnnots(l)) \cup Firsts(l, annots)
      OBVIOUS
    <3> QED
      BY <3>1, <3>2, <3>3, WalkCovers
  <2>2. Exact(index, pair)
    BY DEF DbInv, DbTypeOK, TreesExact, Exact
  <2>3. Covers(gone, goneFirsts) /\ Covers(fresh, freshFirsts)
    BY <1>2, <2>1
  <2>4. Exact(RemovedTrees(index, pair, goneFirsts, id), removed)
    BY <2>2, <2>3, RemoveKeepsExact
  <2> QED
    BY <1>1, <2>3, <2>4, InsertKeepsExact
<1>5. /\ \A p \in Pairs :
           pair'[p] = IF p \in PairsOf(fresh) THEN pair[p] \cup {id}
                      ELSE IF p \in PairsOf(gone) THEN pair[p] \ {id}
                      ELSE pair[p]
      /\ pair' \in [Pairs -> SUBSET Ids]
  BY <1>1, <1>3 DEF InsertedBitmaps, RemovedBitmaps, DbInv, DbTypeOK
<1>6. /\ entity \in [Addrs -> Entities \cup {NoEntity}]
      /\ idToAddr \in [Ids -> Addrs \cup {NoAddr}]
      /\ \A p \in Pairs : pair[p] \subseteq Ids
      /\ addr # NoAddr
  BY <1>1, DbConstantsAssumption DEF DbInv, DbTypeOK
<1>7. DbTypeOK'
  BY <1>1, <1>2, <1>4, <1>5 DEF DbInv, DbTypeOK, Exact
<1>8. IdMapsInverse'
  BY <1>1, <1>2 DEF DbInv, DbTypeOK, IdMapsInverse
<1>9. /\ \A p : p \in CarriedPairs(e) <=> FixedPair(e, p) \/ p \in PairsOf(before)
      /\ \A p : p \in CarriedPairs(new) <=> FixedPair(e, p) \/ p \in PairsOf(after)
      /\ \A p : FixedPair(e, p) => p \notin PairsOf(before) /\ p \notin PairsOf(after)
  <2>1. \A p : /\ p \in CarriedPairs(e) <=> FixedPair(e, p) \/ p \in PairsOf(before)
               /\ \A t : \A l \in AttrLists :
                    p \in PairsOf(UpdatableAnnots(t, l)) => ~FixedPair(e, p)
    <3> HIDE DEF e
    <3> QED BY <1>2, FixedOrUpdatable
  <2>2. \A p : p \in CarriedPairs(new) <=>
                 \/ FixedPair(new, p)
                 \/ p \in PairsOf(UpdatableAnnots(new.contentType, new.attributes))
    <3> HIDE DEF new
    <3> QED BY <1>2, FixedOrUpdatable
  <2> HIDE DEF e, new
  <2> QED
    BY <1>2, <2>1, <2>2
<1>10. PairsOf(gone) \subseteq PairsOf(before) /\ PairsOf(fresh) \subseteq PairsOf(after)
  BY DEF PairsOf
<1> HIDE DEF new, before, after
<1>11. BitmapsSound'
  <2> SUFFICES ASSUME NEW p \in Pairs, NEW i \in pair'[p]
               PROVE  /\ i < entityCount
                      /\ p[1] # "$key" => idToAddr[i] # NoAddr
                      /\ idToAddr[i] # NoAddr => p \in CarriedPairs(entity'[idToAddr[i]])
    BY <1>1 DEF BitmapsSound
  <2>1. CASE i = id
    <3>1. p \in CarriedPairs(new)
      <4>1. CASE p \in PairsOf(fresh)
        BY <4>1, <1>9, <1>10
      <4>2. CASE p \notin PairsOf(fresh)
        <5>1. p \notin PairsOf(gone) /\ id \in pair[p]
          BY <2>1, <4>2, <1>5
        <5>2. p \in CarriedPairs(e)
          BY <5>1, <1>3, <1>6 DEF DbInv, BitmapsSound
        <5>3. p \in PairsOf(before) => p \in PairsOf(after)
          BY <5>1 DEF PairsOf
        <5> QED
          BY <5>2, <5>3, <1>9
      <4> QED
        BY <4>1, <4>2
    <3> QED
      BY <2>1, <3>1, <1>1, <1>3, <1>6
  <2>2. CASE i # id
    <3>1. i \in pair[p] /\ i \in Ids
      BY <2>2, <1>5, <1>6
    <3>2. idToAddr[i] # addr
      BY <2>2, <3>1, <1>3
    <3>3. idToAddr[i] # NoAddr => entity'[idToAddr[i]] = entity[idToAddr[i]]
      BY <3>1, <3>2, <1>1, <1>6
    <3> QED
      BY <3>1, <3>3 DEF DbInv, BitmapsSound
  <2> QED
    BY <2>1, <2>2
<1>12. BitmapsComplete'
  <2> SUFFICES ASSUME NEW a \in Addrs, entity'[a] # NoEntity,
                      NEW p \in CarriedPairs(entity'[a]), p \in StablePairs
               PROVE  addrToId[a] \in pair'[p]
    BY <1>1 DEF BitmapsComplete
  <2>1. p \in Pairs
    BY DEF StablePairs
  <2>2. CASE a = addr
    <3>1. p \in CarriedPairs(new)
      BY <2>2, <1>1, <1>6
    <3>2. CASE p \in PairsOf(fresh)
      BY <2>1, <2>2, <3>2, <1>5
    <3>3. CASE p \notin PairsOf(fresh)
      <4>1. p \in PairsOf(after) => p \in PairsOf(before)
        BY <3>3 DEF PairsOf
      <4>2. id \in pair[p]
        BY <3>1, <4>1, <1>1, <1>9 DEF DbInv, BitmapsComplete
      <4>3. p \notin PairsOf(gone)
        <5>1. SUFFICES ASSUME NEW g \in gone, g.pair = p
                       PROVE  FALSE
          BY DEF PairsOf
        <5>2. p \in PairsOf(before)
          BY <5>1 DEF PairsOf
        <5>3. p \in PairsOf(after)
          BY <3>1, <5>2, <1>9
        <5>4. PICK u \in after : u.pair = p
          BY <5>3 DEF PairsOf
        <5>5. u \in before
          BY <3>3, <5>4 DEF PairsOf
        <5>6. u = g
          BY <5>1, <5>4, <5>5, <1>2, OneFlavour DEF before
        <5> QED
          BY <5>1, <5>4, <5>6
      <4> QED
        BY <2>1, <2>2, <3>3, <4>2, <4>3, <1>5
    <3> QED
      BY <3>2, <3>3
  <2>3. CASE a # addr
    <3>1. entity'[a] = entity[a] /\ addrToId[a] # id
      BY <2>3, <1>1, <1>3, <1>6
    <3>2. addrToId[a] \in pair[p]
      BY <2>1, <3>1 DEF DbInv, BitmapsComplete
    <3> QED
      BY <2>1, <3>1, <3>2, <1>5
  <2> QED
    BY <2>2, <2>3
<1> QED
  BY <1>4, <1>7, <1>8, <1>11, <1>12 DEF DbInv, TreesExact, Exact
=============================================================================
