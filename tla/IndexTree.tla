------------------------------ MODULE IndexTree ------------------------------
(***************************************************************************)
(* The adaptive radix tree of crates/arkiv-entitydb/src/index_tree.rs as   *)
(* the entity database uses it: every mutation decodes the tree from the   *)
(* code of its index account, inserts or removes one value, and encodes it *)
(* again. The capacities of the four kinds of inner nodes, 4, 16, 48 and   *)
(* 256 in the code, are constants; bytes are 0 .. MaxByte, and the last    *)
(* byte is also the mark of an unused byte of a Node48 (N48_NIL, 0xFF).    *)
(***************************************************************************)
EXTENDS Integers, SequencesExt, FiniteSetsExt

CONSTANTS
  MaxByte,        \* 255 in the code
  MaxLength,      \* bound on the length of a value
  Cap4, Cap16, Cap48, \* 4, 16 and 48 in the code
  Values,         \* values that may be inserted, sequences of bytes
  Removable       \* those of them that may be removed again

Bytes == 0 .. MaxByte
Nil == MaxByte
Slots == 0 .. Cap48 - 1

ASSUME TreeAssumption ==
  /\ MaxByte \in Nat /\ MaxLength \in Nat /\ {Cap4, Cap16, Cap48} \subseteq Nat
  /\ 2 <= Cap4 /\ Cap4 < Cap16 /\ Cap16 < Cap48 /\ Cap48 <= MaxByte
  /\ Values \subseteq Seq(Bytes) /\ \A v \in Values : Len(v) <= MaxLength
  /\ Removable \subseteq Values

VARIABLES
  root,     \* the tree that the index account's code decodes to
  count,    \* its COUNT field
  values    \* the values whose pair bitmap is not empty
-----------------------------------------------------------------------------
\* Nodes. A Leaf holds the rest of its value; an inner node a prefix, the
\* flag of a value that ends there, and its children.
Empty == [kind |-> "Empty"]
Leaf(suffix) == [kind |-> "Leaf", suffix |-> suffix]

\* Node4 and Node16: parallel arrays of key bytes and children.
Linear(kind, prefix, end, keys, ch) ==
  [kind |-> kind, prefix |-> prefix, end |-> end, keys |-> keys, ch |-> ch]

\* Node48: idx leads from bytes to slots. Node256: one child per byte. Both
\* count their children in n.
Node48(prefix, end, n, idx, ch) ==
  [kind |-> "N48", prefix |-> prefix, end |-> end, n |-> n, idx |-> idx, ch |-> ch]
Node256(prefix, end, n, ch) ==
  [kind |-> "N256", prefix |-> prefix, end |-> end, n |-> n, ch |-> ch]

\* Nodes by the number of inner nodes from the node to a leaf. An inner node
\* takes a byte of the values below it, so that MaxLength bounds it.
Inner(below) ==
  {node \in [kind : {"N4", "N16"}, prefix : Seq(Bytes), end : BOOLEAN,
             keys : Seq(Bytes), ch : Seq(below)] : Len(node.keys) = Len(node.ch)}
  \cup [kind : {"N48"}, prefix : Seq(Bytes), end : BOOLEAN, n : Nat,
        idx : [Bytes -> Slots \cup {Nil}], ch : [Slots -> below]]
  \cup [kind : {"N256"}, prefix : Seq(Bytes), end : BOOLEAN, n : Nat, ch : [Bytes -> below]]

Outer == {Empty} \cup [kind : {"Leaf"}, suffix : Seq(Bytes)]
LevelOver(level, h) == Outer \cup (IF h = 0 THEN {} ELSE Inner(level[h - 1]))
Level[h \in 0 .. MaxLength + 1] == LevelOver(Level, h)

Nodes == Level[MaxLength + 1]

IsLinear(node) == node.kind \in {"N4", "N16"}

\* node_n_children
Size(node) == IF IsLinear(node) THEN Len(node.keys) ELSE node.n

\* The bytes for which node_has_child holds.
ChildBytes(node) ==
  CASE IsLinear(node) -> ToSet(node.keys)
    [] node.kind = "N48" -> {b \in Bytes : node.idx[b] # Nil}
    [] node.kind = "N256" -> {b \in Bytes : node.ch[b] # Empty}

\* Where the child of byte b is kept: the first match of a linear scan, the
\* slot of a Node48, the byte itself.
Place(node, b) ==
  CASE IsLinear(node) -> Min({i \in DOMAIN node.keys : node.keys[i] = b})
    [] node.kind = "N48" -> node.idx[b]
    [] node.kind = "N256" -> b

Child(node, b) == node.ch[Place(node, b)]
WithChild(node, b, child) == [node EXCEPT !.ch[Place(node, b)] = child]

\* add_ch: in key order, or in the first empty slot.
AddChild(node, b, child) ==
  CASE IsLinear(node) ->
         LET at == 1 + Cardinality({i \in DOMAIN node.keys : \A j \in 1 .. i : node.keys[j] < b})
         IN [node EXCEPT !.keys = InsertAt(@, at, b), !.ch = InsertAt(@, at, child)]
    [] node.kind = "N48" ->
         LET slot == Min({i \in Slots : node.ch[i] = Empty})
         IN [node EXCEPT !.idx[b] = slot, !.ch[slot] = child, !.n = @ + 1]
    [] node.kind = "N256" -> [node EXCEPT !.ch[b] = child, !.n = @ + 1]

\* del_ch. A Node48 leaves a hole in its slots.
DelChild(node, b) ==
  LET at == Place(node, b)
  IN CASE IsLinear(node) ->
            [node EXCEPT !.keys = RemoveAt(@, at), !.ch = RemoveAt(@, at)]
       [] node.kind = "N48" ->
            [node EXCEPT !.idx[b] = Nil, !.ch[at] = Empty, !.n = @ - 1]
       [] node.kind = "N256" ->
            IF node.ch[b] = Empty THEN node
            ELSE [node EXCEPT !.ch[b] = Empty, !.n = @ - 1]
-----------------------------------------------------------------------------
(* Changes of kind. *)

Ascending(bytes) ==
  [i \in 1 .. Cardinality(bytes) |->
     CHOOSE b \in bytes : Cardinality({c \in bytes : c < b}) = i - 1]

\* n16_to_n48: slots in key order.
N16ToN48(node) ==
  Node48(node.prefix, node.end, Len(node.keys),
    [b \in Bytes |-> IF b \in ToSet(node.keys) THEN Place(node, b) - 1 ELSE Nil],
    [s \in Slots |-> IF s < Len(node.ch) THEN node.ch[s + 1] ELSE Empty])

\* n48_to_n256: each slot is given the byte that leads to it, Nil at first.
N48ToN256(node) ==
  LET slotByte(s) ==
        LET bytes == {b \in Bytes : node.idx[b] # Nil /\ node.idx[b] = s}
        IN IF bytes = {} THEN Nil ELSE Max(bytes)
      filled(b) == {s \in Slots : slotByte(s) = b /\ b # Nil}
  IN Node256(node.prefix, node.end, node.n,
       [b \in Bytes |-> IF filled(b) = {} THEN Empty ELSE node.ch[Max(filled(b))]])

\* Faulty variant: the children in the order of their slots.
N48ToN16Unsorted(node) ==
  LET used == Ascending({node.idx[b] : b \in ChildBytes(node)})
  IN Linear("N16", node.prefix, node.end,
       [i \in DOMAIN used |-> CHOOSE b \in Bytes : node.idx[b] = used[i]],
       [i \in DOMAIN used |-> node.ch[used[i]]])

\* n48_to_n16: in byte order. A slot's child can be taken once; n is copied,
\* so a count above the bytes in use pads the arrays with byte 0.
N48ToN16(node) ==
  LET used == Ascending(ChildBytes(node))
      taken(i) == \E j \in 1 .. i - 1 : node.idx[used[j]] = node.idx[used[i]]
      size == Max({node.n, Len(used)})
  IN Linear("N16", node.prefix, node.end,
       [i \in 1 .. size |-> IF i <= Len(used) THEN used[i] ELSE 0],
       [i \in 1 .. size |-> IF i <= Len(used) /\ ~taken(i)
                            THEN node.ch[node.idx[used[i]]] ELSE Empty])

\* n256_to_n48: slots in byte order.
N256ToN48(node) ==
  LET used == Ascending(ChildBytes(node))
      slotOf(b) == Cardinality({c \in ChildBytes(node) : c < b})
  IN Node48(node.prefix, node.end, node.n,
       [b \in Bytes |-> IF b \in ChildBytes(node) THEN slotOf(b) ELSE Nil],
       [s \in Slots |-> IF s < Len(used) THEN node.ch[used[s + 1]] ELSE Empty])

\* node_maybe_grow
Grown(node) ==
  CASE node.kind = "N4" /\ Size(node) = Cap4 -> [node EXCEPT !.kind = "N16"]
    [] node.kind = "N16" /\ Size(node) = Cap16 -> N16ToN48(node)
    [] node.kind = "N48" /\ Size(node) = Cap48 -> N48ToN256(node)
    [] OTHER -> node

\* prepend_into: an only child takes over its parent's path.
Merged(node) ==
  LET path == Append(node.prefix, node.keys[1])
      child == node.ch[1]
  IN CASE child.kind = "Empty" -> Empty
       [] child.kind = "Leaf" -> Leaf(path \o child.suffix)
       [] OTHER -> [child EXCEPT !.prefix = path \o @]

\* Faulty variant: a Node16 shrinks one child too late.
ShrunkLate(node) ==
  IF Size(node) = 0 /\ ~node.end THEN Empty
  ELSE CASE node.kind = "N4" /\ Size(node) = 1 /\ ~node.end -> Merged(node)
         [] node.kind = "N16" /\ Size(node) < Cap4 -> [node EXCEPT !.kind = "N4"]
         [] node.kind = "N48" /\ Size(node) <= Cap16 -> N48ToN16(node)
         [] node.kind = "N256" /\ Size(node) <= Cap48 -> N256ToN48(node)
         [] OTHER -> node

\* node_maybe_shrink
Shrunk(node) ==
  IF Size(node) = 0 /\ ~node.end THEN Empty
  ELSE CASE node.kind = "N4" /\ Size(node) = 1 /\ ~node.end -> Merged(node)
         [] node.kind = "N16" /\ Size(node) <= Cap4 -> [node EXCEPT !.kind = "N4"]
         [] node.kind = "N48" /\ Size(node) <= Cap16 -> N48ToN16(node)
         [] node.kind = "N256" /\ Size(node) <= Cap48 -> N256ToN48(node)
         [] OTHER -> node
-----------------------------------------------------------------------------
\* common_prefix
Common(s, t) == Max({m \in 0 .. Min({Len(s), Len(t)}) : \A i \in 1 .. m : s[i] = t[i]})
From(s, i) == SubSeq(s, i, Len(s))

\* A new Node4 above what was there. end, or keys and ch, are how the values
\* that are there go on after the common prefix; rest is what the new value
\* still has.
Split(prefix, end, keys, ch, rest) ==
  LET node == Linear("N4", prefix, end, keys, ch)
  IN IF rest = <<>> THEN [node EXCEPT !.end = TRUE]
     ELSE AddChild(node, Head(rest), Leaf(Tail(rest)))

\* insert_node at a leaf, which is split if the values differ.
InsertAtLeaf(node, rest) ==
  LET m == Common(node.suffix, rest)
      common == SubSeq(rest, 1, m)
      below == From(rest, m + 1)
  IN IF node.suffix = rest THEN node
     ELSE IF m = Len(node.suffix) THEN Split(common, TRUE, <<>>, <<>>, below)
     ELSE Split(common, FALSE, <<node.suffix[m + 1]>>, <<Leaf(From(node.suffix, m + 2))>>, below)

\* insert_node at an inner node, given what it does at its children.
InsertAtInner(insert, node, rest) ==
  LET m == Common(node.prefix, rest)
      below == From(rest, m + 1)
      b == Head(below)
  IN IF m < Len(node.prefix)
     THEN Split(SubSeq(rest, 1, m), FALSE, <<node.prefix[m + 1]>>,
                <<[node EXCEPT !.prefix = From(@, m + 2)]>>, below)
     ELSE IF below = <<>> THEN [node EXCEPT !.end = TRUE]
     ELSE IF b \in ChildBytes(node)
     THEN WithChild(node, b, insert[Child(node, b)][Tail(below)])
     ELSE AddChild(Grown(node), b, Leaf(Tail(below)))

\* insert_node: what becomes of a node when the value's remaining bytes are
\* inserted below it. (A value that is there leaves it as it is.)
InsertAtNode(insert, node) ==
  [rest \in Seq(Bytes) |->
     IF node = Empty THEN Leaf(rest)
     ELSE IF node.kind = "Leaf" THEN InsertAtLeaf(node, rest)
     ELSE InsertAtInner(insert, node, rest)]
InsertNode[node \in Nodes] == InsertAtNode(InsertNode, node)

\* collect_all at an inner node, given what it yields below the children: the
\* value that ends here and the values below, child by child.
BelowInner(found, node) ==
  LET bytes == IF IsLinear(node) THEN node.keys ELSE Ascending(ChildBytes(node))
      child(i) == IF IsLinear(node) THEN node.ch[i] ELSE Child(node, bytes[i])
      under(i) ==
        LET rests == found[child(i)]
        IN [j \in DOMAIN rests |-> node.prefix \o <<bytes[i]>> \o rests[j]]
  IN (IF node.end THEN <<node.prefix>> ELSE <<>>)
       \o FlattenSeq([i \in DOMAIN bytes |-> under(i)])

\* The values below a node, from the node on, in the order of iteration.
BelowNode(found, node) ==
  IF node = Empty THEN <<>>
  ELSE IF node.kind = "Leaf" THEN <<node.suffix>>
  ELSE BelowInner(found, node)
Below[node \in Nodes] == BelowNode(Below, node)

\* remove_node at an inner node, given what it does at the children: a removal
\* shrinks on its way up wherever a child has become empty.
RemoveAtInner(remove, node, rest) ==
  LET m == Common(node.prefix, rest)
      below == From(rest, m + 1)
      b == Head(below)
      left == remove[Child(node, b)][Tail(below)]
  IN IF m < Len(node.prefix) THEN node
     ELSE IF below = <<>>
     THEN IF node.end THEN Shrunk([node EXCEPT !.end = FALSE]) ELSE node
     ELSE IF b \notin ChildBytes(node) THEN node
     ELSE IF left = Child(node, b) THEN node
     ELSE IF left = Empty THEN Shrunk(DelChild(node, b))
     ELSE WithChild(node, b, left)

\* remove_node: the node that is left.
RemoveAtNode(remove, node) ==
  [rest \in Seq(Bytes) |->
     IF node = Empty THEN node
     ELSE IF node.kind = "Leaf" THEN IF node.suffix = rest THEN Empty ELSE node
     ELSE RemoveAtInner(remove, node, rest)]
RemoveNode[node \in Nodes] == RemoveAtNode(RemoveNode, node)

\* ser_node and de_node of an inner node, given what they make of the children.
\* A Node48 is written with its whole idx and its first n slots, and a Node256
\* is counted again.
ReloadInner(reload, node) ==
  CASE IsLinear(node) -> [node EXCEPT !.ch = [i \in DOMAIN node.ch |-> reload[node.ch[i]]]]
    [] node.kind = "N48" ->
         [node EXCEPT !.ch = [s \in Slots |-> IF s < node.n THEN reload[node.ch[s]] ELSE Empty]]
    [] node.kind = "N256" ->
         [node EXCEPT !.ch = [b \in Bytes |-> reload[node.ch[b]]],
                      !.n = Cardinality(ChildBytes(node))]

\* from_bytes of to_bytes.
ReloadNode(reload, node) ==
  IF node.kind \in {"Empty", "Leaf"} THEN node ELSE ReloadInner(reload, node)
Reloaded[node \in Nodes] == ReloadNode(Reloaded, node)
-----------------------------------------------------------------------------
Init == root = Empty /\ count = 0 /\ values = {}

\* insert_into_indexes: the first entity to use value v.
InsertValue(v) ==
  /\ v \notin values
  /\ LET node == InsertNode[root][v]
     IN /\ root' = Reloaded[node]
        /\ count' = IF node = root THEN count ELSE count + 1
  /\ values' = values \cup {v}

\* Faulty variant: the length is left as it was.
RemoveValueUncounted(v) ==
  /\ v \in values
  /\ root' = Reloaded[RemoveNode[root][v]]
  /\ UNCHANGED count
  /\ values' = values \ {v}

\* remove_from_indexes: the last entity that used value v. A tree of length
\* 0 is tombstoned.
RemoveValue(v) ==
  /\ v \in values
  /\ LET node == RemoveNode[root][v]
     IN /\ count' = IF node = root THEN count ELSE count - 1
        /\ root' = IF count' = 0 THEN Empty ELSE Reloaded[node]
  /\ values' = values \ {v}

Next == (\E v \in Values : InsertValue(v)) \/ (\E v \in Removable : RemoveValue(v))

Spec == Init /\ [][Next]_<<root, count, values>>
=============================================================================
