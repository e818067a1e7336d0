----------------------------- MODULE IndexWalk ------------------------------
(***************************************************************************)
(* The handlers of crates/arkiv-entitydb/src/lib.rs touch the indexes one  *)
(* annotation at a time, reading each bitmap and tree back before it       *)
(* writes it. EntityDb gives the outcome of such a walk in one step. This  *)
(* module runs both: a handler of EntityDb takes its step and hands the    *)
(* walk of the code to Step, which performs it on a second copy of the     *)
(* indexes, one insert_into_indexes or remove_from_indexes call at a time. *)
(***************************************************************************)
EXTENDS EntityDb

CONSTANTS Expiries  \* expiries that operations set; all run in block 0

VARIABLES
  bitmaps,  \* the tier-1 bitmaps as the walk leaves them
  trees,    \* the tier-2 trees as the walk leaves them
  todo      \* the index calls that the running handler has still to make

walkVars == <<dbVars, bitmaps, trees, todo>>

ASSUME WalkConstantsAssumption == Expiries \subseteq Heights \ {0}
-----------------------------------------------------------------------------
\* Faulty variant: asks whether the bitmap is empty after it has inserted.
InsertIntoIndexesLate(id, a) ==
  /\ bitmaps' = [bitmaps EXCEPT ![a.pair] = @ \cup {id}]
  /\ trees' = IF a.tier2 /\ bitmaps'[a.pair] = {} THEN trees \cup {a.pair} ELSE trees

InsertIntoIndexes(id, a) ==
  /\ bitmaps' = [bitmaps EXCEPT ![a.pair] = @ \cup {id}]
  /\ trees' = IF a.tier2 /\ bitmaps[a.pair] = {} THEN trees \cup {a.pair} ELSE trees

RemoveFromIndexes(id, a) ==
  IF bitmaps[a.pair] = {}
  THEN UNCHANGED <<bitmaps, trees>>
  ELSE /\ bitmaps' = [bitmaps EXCEPT ![a.pair] = @ \ {id}]
       /\ trees' = IF a.tier2 /\ bitmaps[a.pair] \ {id} = {}
                   THEN trees \ {a.pair} ELSE trees

BuiltInList(creator, owner, key, createdAt, expiresAt, contentType) ==
  <<Annot("$all", "", FALSE), Annot("$creator", creator, FALSE),
    Annot("$createdAtBlock", createdAt, TRUE), Annot("$owner", owner, FALSE),
    Annot("$key", key, FALSE), Annot("$expiration", expiresAt, TRUE),
    ContentTypeAnnot(contentType)>>

Calls(what, id, annots) ==
  [n \in DOMAIN annots |-> [what |-> what, id |-> id, annot |-> annots[n]]]

\* The elements of a list that are in a set, in the order of the list.
Filtered(list, annots) ==
  LET upTo[n \in 0 .. Len(list)] ==
        IF n = 0 THEN <<>>
        ELSE IF list[n] \in annots THEN Append(upTo[n - 1], list[n])
        ELSE upTo[n - 1]
  IN upTo[Len(list)]

\* apply_annotation_diff
DiffCalls(id, old, new) ==
  LET oldSet == {old[n] : n \in DOMAIN old}
      newSet == {new[n] : n \in DOMAIN new}
  IN Calls("remove", id, Filtered(old, oldSet \ newSet))
       \o Calls("insert", id, Filtered(new, newSet \ oldSet))

UpdatableList(contentType, attributes) ==
  <<ContentTypeAnnot(contentType)>> \o attributes
-----------------------------------------------------------------------------
Init ==
  /\ DbInit
  /\ bitmaps = pair
  /\ trees = index
  /\ todo = <<>>

Create(sender, key, expiresAt, contentType, attributes) ==
  /\ entity[EntityAddress(key)] = NoEntity
  /\ DbCreate(sender, key, expiresAt, 0, contentType, attributes)
  /\ todo' = Calls("insert", entityCount,
       BuiltInList(sender, sender, key, 0, expiresAt, contentType) \o attributes)

Update(key, contentType, attributes) ==
  LET e == entity[EntityAddress(key)]
  IN /\ DbUpdate(key, 0, contentType, attributes)
     /\ todo' = DiffCalls(addrToId[EntityAddress(key)],
                          UpdatableList(e.contentType, e.attributes),
                          UpdatableList(contentType, attributes))

Extend(key, newExpiresAt) ==
  LET e == entity[EntityAddress(key)]
      id == addrToId[EntityAddress(key)]
  IN /\ DbExtend(key, 0, newExpiresAt)
     /\ newExpiresAt > e.expiresAt
     /\ todo' = Calls("remove", id, <<Annot("$expiration", e.expiresAt, TRUE)>>)
                  \o Calls("insert", id, <<Annot("$expiration", newExpiresAt, TRUE)>>)

Transfer(key, newOwner) ==
  LET e == entity[EntityAddress(key)]
      id == addrToId[EntityAddress(key)]
  IN /\ DbTransfer(key, 0, newOwner)
     /\ newOwner # e.owner
     /\ todo' = Calls("remove", id, <<Annot("$owner", e.owner, FALSE)>>)
                  \o Calls("insert", id, <<Annot("$owner", newOwner, FALSE)>>)

Delete(key) ==
  LET e == entity[EntityAddress(key)]
  IN /\ DbDelete(key)
     /\ todo' = Calls("remove", addrToId[EntityAddress(key)],
          BuiltInList(e.creator, e.owner, key, e.createdAt, e.expiresAt,
                      e.contentType) \o e.attributes)

\* The next index call of the running handler.
Step ==
  LET call == Head(todo)
  IN /\ todo # <<>>
     /\ \/ call.what = "insert" /\ InsertIntoIndexes(call.id, call.annot)
        \/ call.what = "remove" /\ RemoveFromIndexes(call.id, call.annot)
     /\ todo' = Tail(todo)
     /\ UNCHANGED dbVars

Handler ==
  /\ todo = <<>>
  /\ \/ \E a \in Addrs, expiresAt \in Expiries, c \in ContentTypes,
           attributes \in AttrLists :
          Create(a[1], [addr |-> a, tail |-> DerivedTail], expiresAt, c, attributes)
     \/ \E key \in Keys :
          \/ \E c \in ContentTypes, attributes \in AttrLists :
               Update(key, c, attributes)
          \/ \E h \in Expiries : Extend(key, h)
          \/ \E newOwner \in Accounts : Transfer(key, newOwner)
          \/ Delete(key)
  /\ UNCHANGED <<bitmaps, trees>>

Next == Handler \/ Step

Spec == Init /\ [][Next]_walkVars
-----------------------------------------------------------------------------
\* Whatever lists an entity has carried, with repetitions and with one pair
\* in both flavours, the annotation-by-annotation walk of every handler ends
\* in the bitmaps and trees that EntityDb gives for it in one step.
WalkMatchesHandler ==
  todo = <<>> => bitmaps = pair /\ trees = index
=============================================================================
