--------------------------- MODULE IndexTreeShape ---------------------------
(***************************************************************************)
(* What the shape of the index tree, and with it the encoding, tells about *)
(* how it came about.                                                      *)
(***************************************************************************)
EXTENDS IndexTreeProps

\* The inner node with a child at each byte of a set, of the kind for their
\* number and in the order of the bytes.
Regular(prefix, end, child) ==
  LET keys == Ascending(DOMAIN child)
      n == Len(keys)
      node16 == Linear("N16", prefix, end, keys, [i \in 1 .. n |-> child[keys[i]]])
  IN CASE n <= Cap4 -> [node16 EXCEPT !.kind = "N4"]
       [] n \in Cap4 + 1 .. Cap16 -> node16
       [] n \in Cap16 + 1 .. Cap48 -> N16ToN48(node16)
       [] n > Cap48 -> Node256(prefix, end, n,
            [b \in Bytes |-> IF b \in DOMAIN child THEN child[b] ELSE Empty])

\* What is left of some values after their longest common prefix, the bytes
\* that it goes on with, and what is left past one of these.
Rests(set) == {From(s, Len(LongestCommonPrefix(set)) + 1) : s \in set}
Heads(set) == {Head(r) : r \in Rests(set) \ {<<>>}}
Past(set, b) == {Tail(r) : r \in {s \in Rests(set) \ {<<>>} : Head(s) = b}}

\* The tree that a set of values has if they come in byte order, given what
\* that is for the values past each byte.
CanonicalOver(below, set) ==
  IF set = {} THEN Empty
  ELSE IF \E s \in set : set = {s} THEN Leaf(CHOOSE s \in set : TRUE)
  ELSE Regular(LongestCommonPrefix(set), <<>> \in Rests(set),
               [b \in Heads(set) |-> below[Past(set, b)]])

Short(length) == {s \in Seq(Bytes) : Len(s) <= length}
Canonical[set \in SUBSET Short(MaxLength)] == CanonicalOver(Canonical, set)

\* A Node48 with its slots in the order of their bytes.
InByteOrder(node) ==
  LET keys == Ascending(ChildBytes(node))
      slot(b) == Cardinality({c \in ChildBytes(node) : c < b})
  IN [node EXCEPT
        !.idx = [b \in Bytes |-> IF b \in ChildBytes(node) THEN slot(b) ELSE Nil],
        !.ch = [s \in Slots |-> IF s < Len(keys) THEN Child(node, keys[s + 1]) ELSE Empty]]

\* The tree with the two traces of its history taken out: the order of a
\* Node48's slots, and inner nodes that have no child left, only a value
\* that ends at them, and could be leaves.
TidiedNode(tidied, node) ==
  IF node.kind \in {"Empty", "Leaf"} THEN node
  ELSE IF Size(node) = 0 THEN Leaf(node.prefix)
  ELSE LET done == [node EXCEPT !.ch = [i \in DOMAIN node.ch |-> tidied[node.ch[i]]]]
       IN IF node.kind = "N48" THEN InByteOrder(done) ELSE done
Tidied[node \in Nodes] == TidiedNode(Tidied, node)

\* But for these two traces the tree is a function of the set it stands for:
\* growing and shrinking meet at the same sizes, and a removal undoes every
\* split and every change of kind that it makes needless.
ShapeIsCanonical == Tidied[root] = Canonical[values]

\* index_tree.rs: "Encoding is fully deterministic for any given key set."
\* The tree, and with it the code hash that the block commits to, does not
\* depend on the order of insertions and removals.
EncodingIsCanonical == root = Canonical[values]
=============================================================================
