---------------------------- MODULE QueryProofs -----------------------------
(***************************************************************************)
(* What a client may rely on when it walks through pages, for chains of    *)
(* any length, any number of entities and any page size; and that the      *)
(* parser builds the trees of its grammar, for any sequence of tokens.     *)
(*                                                                         *)
(* The grammar gives trees to spans of tokens, the parser finds trees and  *)
(* where they end. What it finds from a position on are trees of the       *)
(* grammar (OnlyTrees); and it finds all those that it can end behind      *)
(* (AllTrees), which are the ones that no connective of the same loop      *)
(* follows. Both are shown for the last positions first, since brackets    *)
(* are read ahead of what is behind them.                                  *)
(***************************************************************************)
EXTENDS QueryPagesProps, QueryReader, FoldProofs, SequenceTheorems

(***************************************************************************)
(* Pages                                                                   *)
(***************************************************************************)

\* The members of ids above i, and how many they are.
Above(ids, i) == {j \in ids : j > i}
Rank(ids, i) == Cardinality(Above(ids, i))

\* A non-empty set of IDs has a largest member.
LEMMA LargestExists ==
  ASSUME NEW ids \in SUBSET Ids, ids # {}
  PROVE  \E i \in ids : \A j \in ids : j <= i
<1>. DEFINE below == {MaxIds - i : i \in ids}
<1>1. MaxIds \in Nat /\ \A i \in ids : i \in Nat /\ i <= MaxIds
  BY PagesAssumption DEF Ids
<1>2. below \subseteq Nat /\ below # {}
  BY <1>1
<1>3. PICK x \in below : \A y \in below : ~(<<y, x>> \in OpToRel(<, Nat))
  BY <1>2, NatLessThanWellFounded, WFMin
<1>4. \A y \in below : ~(y < x)
  BY <1>2, <1>3 DEF OpToRel
<1>5. PICK i \in ids : x = MaxIds - i
  OBVIOUS
<1>6. \A j \in ids : j <= i
  BY <1>1, <1>4, <1>5
<1>. QED
  BY <1>6

LEMMA IdsFinite ==
  ASSUME NEW ids \in SUBSET Ids
  PROVE  /\ IsFiniteSet(ids) /\ Cardinality(ids) \in Nat
         /\ \A i \in ids : i \in Nat
         /\ \A i : Above(ids, i) \in SUBSET Ids
<1>1. IsFiniteSet(Ids)
  BY FS_Interval, PagesAssumption DEF Ids
<1>2. IsFiniteSet(ids)
  BY <1>1, FS_Subset
<1>3. Cardinality(ids) \in Nat
  BY <1>2, FS_CardinalityType
<1>4. \A i \in ids : i \in Nat
  BY PagesAssumption DEF Ids
<1>5. \A i : Above(ids, i) \in SUBSET Ids
  BY DEF Above
<1>. QED
  BY <1>2, <1>3, <1>4, <1>5

\* A larger ID has fewer IDs above it.
LEMMA RankDescends ==
  ASSUME NEW ids \in SUBSET Ids, NEW i \in ids, NEW j \in ids, j < i
  PROVE  /\ Rank(ids, i) \in Nat /\ Rank(ids, j) \in Nat
         /\ Rank(ids, i) < Rank(ids, j)
<1>1. /\ i \in Nat /\ j \in Nat /\ \A k \in ids : k \in Nat
      /\ Above(ids, i) \in SUBSET Ids /\ Above(ids, j) \in SUBSET Ids
  BY IdsFinite
<1>2. i \notin Above(ids, i)
  BY <1>1 DEF Above
<1>3. \A k \in Above(ids, i) \cup {i} : k \in Above(ids, j)
  BY <1>1 DEF Above
<1>4. Cardinality(Above(ids, i) \cup {i}) = Rank(ids, i) + 1
  BY <1>1, <1>2, IdsFinite, FS_AddElement DEF Rank
<1>5. Cardinality(Above(ids, i) \cup {i}) <= Rank(ids, j)
  BY <1>1, <1>3, IdsFinite, FS_Subset DEF Rank
<1>. QED
  BY <1>1, <1>4, <1>5, IdsFinite DEF Rank

\* IDs that are not above an ID of a set have no smaller rank.
LEMMA RankOrders ==
  ASSUME NEW ids \in SUBSET Ids, NEW i \in ids, NEW j \in ids
  PROVE  /\ Rank(ids, i) \in Nat
         /\ Rank(ids, i) = Rank(ids, j) => i = j
         /\ Rank(ids, i) < Rank(ids, j) => i > j
         /\ i >= j => Rank(ids, i) <= Rank(ids, j)
<1>1. i \in Nat /\ j \in Nat /\ Rank(ids, i) \in Nat /\ Rank(ids, j) \in Nat
  BY IdsFinite DEF Rank
<1>2. j < i => Rank(ids, i) < Rank(ids, j)
  BY RankDescends
<1>3. i < j => Rank(ids, j) < Rank(ids, i)
  BY RankDescends
<1>. QED
  BY <1>1, <1>2, <1>3

\* Every rank below the number of IDs is taken.
LEMMA RankExists ==
  ASSUME NEW ids \in SUBSET Ids, NEW n \in 1 .. Cardinality(ids)
  PROVE  \E i \in ids : Rank(ids, i) = n - 1
<1>. DEFINE free == {k \in 1 .. Cardinality(ids) : \A i \in ids : Rank(ids, i) # k - 1}
<1>1. Cardinality(ids) \in Nat /\ IsFiniteSet(ids) /\ \A i \in ids : i \in Nat
  BY IdsFinite
<1>2. free \subseteq Nat
  BY <1>1
<1>3. SUFFICES ASSUME free # {} PROVE FALSE
  BY <1>1
<1>4. PICK k \in free : \A l \in free : ~(<<l, k>> \in OpToRel(<, Nat))
  BY <1>2, <1>3, NatLessThanWellFounded, WFMin
<1>5. k \in 1 .. Cardinality(ids) /\ \A i \in ids : Rank(ids, i) # k - 1
  OBVIOUS
<1>6. \A l \in free : ~(l < k)
  BY <1>2, <1>4 DEF OpToRel
<1>. HIDE DEF free
<1>7. CASE k = 1
  <2>1. ids # {}
    BY <1>1, <1>5, FS_EmptySet
  <2>2. PICK i \in ids : \A j \in ids : j <= i
    BY <2>1, LargestExists
  <2>3. Above(ids, i) = {}
    BY <1>1, <2>2 DEF Above
  <2>. QED
    BY <1>5, <1>7, <2>3, FS_EmptySet DEF Rank
<1>8. CASE k # 1
  <2>1. k - 1 \in 1 .. Cardinality(ids) /\ k - 1 \notin free
    BY <1>1, <1>5, <1>6, <1>8
  <2>2. PICK i \in ids : Rank(ids, i) = k - 2
    BY <2>1, <1>1, <1>5 DEF free
  <2>3. /\ IsFiniteSet(Above(ids, i)) /\ i \notin Above(ids, i)
        /\ Above(ids, i) \in SUBSET Ids
    BY <1>1, IdsFinite DEF Above
  <2>4. Cardinality(Above(ids, i) \cup {i}) = k - 1
    <3>1. Cardinality(Above(ids, i) \cup {i}) = Cardinality(Above(ids, i)) + 1
      BY <2>3, FS_AddElement
    <3>. QED
      BY <2>2, <3>1, <1>1, <1>5 DEF Rank
  <2>. DEFINE below == {j \in ids : j < i}
  <2>5. below # {}
    <3>1. SUFFICES ASSUME below = {} PROVE FALSE
      OBVIOUS
    <3>2. ids = Above(ids, i) \cup {i}
      BY <1>1, <3>1 DEF Above
    <3>3. Cardinality(ids) = k - 1
      BY <2>4, <3>2
    <3>. QED
      BY <1>1, <1>5, <3>3
  <2>6. PICK j \in below : \A l \in below : l <= j
    BY <2>5, LargestExists
  <2>7. Above(ids, j) = Above(ids, i) \cup {i}
    BY <1>1, <2>6 DEF Above
  <2>. QED
    BY <1>1, <1>5, <2>4, <2>6, <2>7 DEF Rank
<1>. QED
  BY <1>7, <1>8
-----------------------------------------------------------------------------
\* Largest lists IDs by rank.
LEMMA LargestRanks ==
  ASSUME NEW n \in Nat, NEW ids \in SUBSET Ids
  PROVE  /\ Largest(n, ids) \in Seq(Ids)
         /\ Len(Largest(n, ids)) <= n
         /\ Len(Largest(n, ids)) = n \/ Len(Largest(n, ids)) = Cardinality(ids)
         /\ Len(Largest(n, ids)) <= Cardinality(ids)
         /\ \A k \in 1 .. Len(Largest(n, ids)) :
              Largest(n, ids)[k] \in ids /\ Rank(ids, Largest(n, ids)[k]) = k - 1
<1>. DEFINE size == IF Cardinality(ids) < n THEN Cardinality(ids) ELSE n
            list == [k \in 1 .. size |-> CHOOSE i \in ids : Rank(ids, i) = k - 1]
<1>1. Cardinality(ids) \in Nat
  BY IdsFinite
<1>2. /\ size \in Nat /\ size <= n /\ size <= Cardinality(ids)
      /\ size = n \/ size = Cardinality(ids)
  BY <1>1
<1>3. Largest(n, ids) = list
  BY DEF Largest, Rank, Above
<1>. HIDE DEF size
<1>4. ASSUME NEW k \in 1 .. size
      PROVE  list[k] \in ids /\ Rank(ids, list[k]) = k - 1
  <2>1. k \in 1 .. Cardinality(ids)
    BY <1>1, <1>2
  <2>2. \E i \in ids : Rank(ids, i) = k - 1
    BY <2>1, RankExists
  <2>. QED
    BY <2>2
<1>5. list \in Seq(Ids) /\ Len(list) = size
  <2>1. \A k \in 1 .. size : list[k] \in Ids
    BY <1>4
  <2>2. list \in [1 .. size -> Ids]
    BY <2>1
  <2>. QED
    BY <1>2, <2>2, IsASeq, LenProperties
<1>. HIDE DEF list
<1>. QED
  BY <1>2, <1>3, <1>4, <1>5

Cursors == Ids \cup {NoCursor}

\* What is left of ids for a page that begins at a cursor.
Left(cursor, i) == cursor = NoCursor \/ i < cursor

\* What is done with once a page has named the next cursor.
Behind(next, i) == next = NoCursor \/ i >= next

\* A page descends, holds matching entities only, and holds all of them
\* between the cursor that it was given and the one that it returns, which
\* is its last entry.
LEMMA PageFacts ==
  ASSUME NEW s \in States, NEW cursor \in Cursors
  PROVE  LET p == PageOf(s, cursor)
         IN /\ p = [entries |-> p.entries, next |-> p.next]
            /\ p.entries \in Seq(Ids)
            /\ p.next \in Cursors
            /\ \A k \in 1 .. Len(p.entries) - 1 : p.entries[k] > p.entries[k + 1]
            /\ \A k \in 1 .. Len(p.entries) :
                 p.entries[k] \in s.hits \cap s.live /\ Left(cursor, p.entries[k])
            /\ p.next # NoCursor =>
                 Len(p.entries) > 0 /\ p.next = p.entries[Len(p.entries)]
            /\ \A i \in s.hits \cap s.live :
                 (Left(cursor, i) /\ Behind(p.next, i)) =>
                   \E k \in 1 .. Len(p.entries) : p.entries[k] = i
<1>. DEFINE found == Within(cursor, s.hits)
            ids == found \cap s.live
            list == Largest(PageSize, ids)
            last == list[Len(list)]
            more == Len(list) = PageSize /\ \E i \in found : i < last
            p == PageOf(s, cursor)
<1>1. /\ s.hits \in SUBSET Ids /\ s.live \in SUBSET Ids
      /\ PageSize \in Nat \ {0} /\ NoCursor \notin Nat /\ MaxIds \in Nat
  <2>1. s.next \in 0 .. MaxIds /\ s.hits \in SUBSET Ids /\ s.live \in SUBSET Ids
    BY DEF States
  <2>. QED
    BY <2>1, PagesAssumption
<1>2. ids \in SUBSET Ids /\ \A i : i \in ids <=> i \in s.hits \cap s.live /\ Left(cursor, i)
  BY <1>1 DEF Within, Left
<1>3. p = [entries |-> list, next |-> IF more THEN last ELSE NoCursor]
  BY DEF PageOf
<1>. HIDE DEF p, found
<1>4. p.entries = list /\ p.next = IF more THEN last ELSE NoCursor
  BY <1>3
<1>. HIDE DEF ids
<1>5. /\ list \in Seq(Ids) /\ Len(list) \in Nat
      /\ Len(list) = PageSize \/ Len(list) = Cardinality(ids)
      /\ \A k \in 1 .. Len(list) : list[k] \in ids /\ Rank(ids, list[k]) = k - 1
  BY <1>1, <1>2, LargestRanks, LenProperties
<1>6. \A i \in ids : i \in Nat
  BY <1>2, IdsFinite
<1>. HIDE DEF list
<1>7. ASSUME NEW k \in 1 .. Len(list) - 1
      PROVE  list[k] > list[k + 1]
  <2>1. k \in 1 .. Len(list) /\ k + 1 \in 1 .. Len(list) /\ k \in Nat
    BY <1>5
  <2>2. list[k] \in ids /\ list[k + 1] \in ids
        /\ Rank(ids, list[k]) = k - 1 /\ Rank(ids, list[k + 1]) = k
    BY <1>5, <2>1
  <2>. QED
    BY <1>2, <2>1, <2>2, RankOrders
<1>8. more => Len(list) > 0 /\ last \in ids
  BY <1>1, <1>5
<1>9. p.next \in Cursors
  BY <1>2, <1>4, <1>8 DEF Cursors
<1>10. p.next # NoCursor => Len(list) > 0 /\ p.next = last
  BY <1>4, <1>8
<1>11. ASSUME NEW i \in ids, Behind(p.next, i)
       PROVE  \E k \in 1 .. Len(list) : list[k] = i
  <2>1. Rank(ids, i) \in Nat /\ Rank(ids, i) < Cardinality(ids)
    <3>1. IsFiniteSet(ids) /\ Above(ids, i) \in SUBSET ids /\ Cardinality(ids) \in Nat
      BY <1>2, IdsFinite DEF Above
    <3>2. i \notin Above(ids, i)
      BY <1>6 DEF Above
    <3>3. Cardinality(Above(ids, i)) <= Cardinality(ids)
          /\ Cardinality(Above(ids, i)) # Cardinality(ids)
      BY <3>1, <3>2, FS_Subset
    <3>4. Rank(ids, i) \in Nat
      BY <1>2, RankOrders
    <3>. QED
      BY <3>1, <3>3, <3>4 DEF Rank
  <2>2. Rank(ids, i) < Len(list)
    <3>1. CASE Len(list) = Cardinality(ids)
      BY <2>1, <3>1
    <3>2. CASE Len(list) = PageSize
      <4>1. Len(list) \in 1 .. Len(list) /\ last \in ids
            /\ Rank(ids, last) = Len(list) - 1
        BY <1>1, <1>5, <3>2
      <4>2. i >= last
        <5>1. CASE more
          BY <1>4, <1>6, <1>8, <1>11, <5>1, <1>1 DEF Behind
        <5>2. CASE ~more
          <6>1. i \in found
            BY DEF ids
          <6>. QED
            BY <1>6, <3>2, <4>1, <5>2, <6>1
        <5>. QED
          BY <5>1, <5>2
      <4>3. Rank(ids, i) <= Rank(ids, last)
        BY <1>2, <4>1, <4>2, RankOrders
      <4>. QED
        BY <1>5, <2>1, <4>1, <4>3
    <3>. QED
      BY <1>5, <3>1, <3>2
  <2>. DEFINE k == Rank(ids, i) + 1
  <2>3. k \in 1 .. Len(list) /\ k \in Nat
    BY <1>5, <2>1, <2>2
  <2>4. list[k] \in ids /\ Rank(ids, list[k]) = Rank(ids, i)
    BY <1>5, <2>1, <2>3
  <2>5. list[k] = i
    BY <1>2, <2>4, RankOrders
  <2>. QED
    BY <2>3, <2>5
<1>12. p = [entries |-> p.entries, next |-> p.next]
  BY <1>3, <1>4
<1>13. \A i \in s.hits \cap s.live : (Left(cursor, i) /\ Behind(p.next, i)) =>
         \E k \in 1 .. Len(list) : list[k] = i
  BY <1>2, <1>11
<1>14. \A k \in 1 .. Len(list) : list[k] \in s.hits \cap s.live /\ Left(cursor, list[k])
  BY <1>2, <1>5
<1>. QED
  BY <1>4, <1>5, <1>7, <1>9, <1>10, <1>12, <1>13, <1>14 DEF p
-----------------------------------------------------------------------------
Idle == [phase |-> "idle"]
Walks == [phase : {"walking", "done"}, at : Nat \cup {Latest}, cursor : Cursors,
          got : Seq(Ids), from : Nat, to : Nat]
Pages == [entries : Seq(Ids), next : Cursors]
Waiting == [phase : {"none", "asked"}]
Numbered == [phase : {"numbered"}, number : Nat]
Answers == [phase : {"answered"}, number : Nat, block : Nat, page : Pages]

TypeInv ==
  /\ chain \in Seq(States) /\ Len(chain) >= 1
  /\ walk \in {Idle} \cup Walks
  /\ request \in Waiting \cup Numbered \cup Answers

\* The committed states that a walk has to do with.
Blocks == IF walk.at = Latest THEN Seen ELSE {walk.at}

\* IDs that the walk will not come to any more.
Passed(i) == walk.phase = "done" \/ (walk.cursor # NoCursor /\ i >= walk.cursor)

\* The cursor is the last entry received; of the IDs that are passed, those
\* that matched all the time were received.
WalkInv ==
  /\ walk.from <= head /\ walk.to <= head
  /\ walk.at # Latest => walk.at <= head
  /\ walk.at = Latest => walk.from <= walk.to
  /\ walk.phase = "walking" /\ walk.cursor = NoCursor => walk.got = <<>>
  /\ walk.phase = "walking" /\ walk.cursor # NoCursor =>
       Len(walk.got) > 0 /\ walk.cursor = walk.got[Len(walk.got)]
  /\ \A k \in 1 .. Len(walk.got) - 1 : walk.got[k] > walk.got[k + 1]
  /\ \A i \in Ids : (Passed(i) /\ \A n \in Blocks : i \in Matching(n)) => i \in Received
  /\ \A i \in Received : \E n \in Blocks : i \in Matching(n)

\* A request is for the page that the walk stands at, and its answer that
\* page of one block, not older than those before.
RequestInv ==
  /\ request.phase # "none" => walk.phase = "walking"
  /\ request.phase = "numbered" =>
       request.number <= head /\ (walk.at # Latest => request.number = walk.at)
  /\ request.phase = "answered" =>
       /\ request.block <= head
       /\ walk.at # Latest => request.block = walk.at
       /\ walk.at = Latest => walk.to <= request.block
       /\ request.page = PageOf(State(request.block), walk.cursor)

IInv ==
  /\ TypeInv
  /\ walk.phase # "idle" => WalkInv
  /\ RequestInv

LEMMA HeadFacts ==
  ASSUME TypeInv
  PROVE  /\ head \in Nat /\ Len(chain) \in Nat /\ Latest \notin Nat /\ NoCursor \notin Nat
         /\ \A n \in Nat : n <= head => n + 1 \in 1 .. Len(chain) /\ State(n) \in States
<1>1. Len(chain) \in Nat /\ \A n \in 1 .. Len(chain) : chain[n] \in States
  BY LenProperties, ElementOfSeq DEF TypeInv
<1>. QED
  BY <1>1, PagesAssumption DEF TypeInv, head, State

LEMMA InitInv == Init => IInv
<1>. SUFFICES ASSUME Init PROVE IInv
  OBVIOUS
<1>1. PICK s \in States : chain = <<s>>
  BY DEF Init
<1>2. chain \in Seq(States) /\ Len(chain) = 1
  BY <1>1
<1>3. walk = Idle /\ request \in Waiting /\ request.phase = "none"
  BY DEF Init, Idle, NoRequest, Waiting
<1>. QED
  BY <1>2, <1>3 DEF IInv, TypeInv, RequestInv, Idle

\* A new block changes none of those before it.
LEMMA CommitInv ==
  ASSUME IInv, Commit
  PROVE  IInv'
<1>1. PICK s \in States : chain' = Append(chain, s)
  BY DEF Commit, After
<1>2. /\ chain' \in Seq(States) /\ Len(chain') = Len(chain) + 1
      /\ \A n \in 1 .. Len(chain) : chain'[n] = chain[n]
  BY <1>1, AppendProperties DEF IInv, TypeInv
<1>3. head' = head + 1 /\ head \in Nat
  BY <1>2, HeadFacts DEF head, IInv
<1>4. \A n \in Nat : n <= head => State(n)' = State(n) /\ Matching(n)' = Matching(n)
  BY <1>2, HeadFacts DEF IInv, State, Matching
<1>5. walk' = walk /\ request' = request
  BY DEF Commit
<1>6. TypeInv'
  BY <1>2, <1>5, HeadFacts DEF IInv, TypeInv
<1>7. ASSUME walk.phase # "idle"
      PROVE  WalkInv'
  <2>1. WalkInv /\ walk \in Walks
    BY <1>7 DEF IInv, TypeInv, Idle
  <2>2. walk.from \in Nat /\ walk.to \in Nat /\ walk.at \in Nat \cup {Latest}
    BY <2>1 DEF Walks
  <2>3. Blocks' = Blocks /\ Received' = Received /\ \A i : Passed(i)' = Passed(i)
    BY <1>5 DEF Blocks, Seen, Received, Passed
  <2>4. \A n \in Blocks : n \in Nat /\ n <= head
    BY <2>1, <2>2, <1>3 DEF Blocks, Seen, WalkInv
  <2>5. \A n \in Blocks : Matching(n)' = Matching(n)
    BY <1>4, <2>4
  <2>6. /\ walk'.from <= head' /\ walk'.to <= head'
        /\ walk'.at # Latest => walk'.at <= head'
    BY <1>3, <1>5, <2>1, <2>2 DEF WalkInv
  <2>7. /\ \A i \in Ids : (Passed(i)' /\ \A n \in Blocks' : i \in Matching(n)') => i \in Received'
        /\ \A i \in Received' : \E n \in Blocks' : i \in Matching(n)'
    BY <2>1, <2>3, <2>5 DEF WalkInv
  <2>. QED
    BY <1>5, <2>1, <2>6, <2>7 DEF WalkInv
<1>8. RequestInv'
  <2>1. RequestInv /\ request \in Waiting \cup Numbered \cup Answers
    BY DEF IInv, TypeInv
  <2>2. request.phase = "numbered" => request.number \in Nat
    BY <2>1 DEF Waiting, Numbered, Answers
  <2>3. request.phase = "answered" => request.block \in Nat
    BY <2>1 DEF Waiting, Numbered, Answers
  <2>. QED
    BY <1>3, <1>4, <1>5, <2>1, <2>2, <2>3 DEF RequestInv
<1>. QED
  BY <1>5, <1>6, <1>7, <1>8 DEF IInv

\* A walk begins with nothing received and nothing passed.
LEMMA BeginInv ==
  ASSUME IInv, NEW at \in (0 .. head) \cup {Latest}, Begin(at)
  PROVE  IInv'
<1>. DEFINE new == [phase |-> "walking", at |-> at, cursor |-> NoCursor, got |-> <<>>,
                    from |-> head, to |-> head]
<1>1. /\ walk.phase # "walking" /\ walk' = new /\ chain' = chain /\ request' = request
      /\ head' = head
  BY DEF Begin, head
<1>2. head \in Nat /\ at \in Nat \cup {Latest} /\ (at # Latest => at <= head)
  BY HeadFacts DEF IInv
<1>3. new \in Walks
  BY <1>2 DEF Walks, Cursors
<1>4. TypeInv'
  BY <1>1, <1>3 DEF IInv, TypeInv
<1>5. Received' = {} /\ \A i : ~Passed(i)'
  BY <1>1 DEF Received, Passed
<1>6. WalkInv'
  BY <1>1, <1>2, <1>5 DEF WalkInv
<1>7. RequestInv'
  <2>1. request.phase = "none"
    BY <1>1 DEF IInv, RequestInv
  <2>. QED
    BY <1>1, <2>1 DEF RequestInv
<1>. QED
  BY <1>4, <1>6, <1>7 DEF IInv

\* Steps that leave the chain and the walk alone keep what is known of them.
LEMMA WalkStays ==
  ASSUME IInv, UNCHANGED <<chain, walk>>
  PROVE  (walk.phase # "idle" => WalkInv)' /\ head' = head
         /\ \A n : State(n)' = State(n)
<1>1. head' = head /\ \A n : State(n)' = State(n) /\ Matching(n)' = Matching(n)
  BY DEF head, State, Matching
<1>2. Blocks' = Blocks /\ Received' = Received /\ \A i : Passed(i)' = Passed(i)
  BY DEF Blocks, Seen, Received, Passed
<1>. QED
  BY <1>1, <1>2 DEF IInv, WalkInv

LEMMA AskLoseInv ==
  ASSUME IInv, Ask \/ Lose
  PROVE  IInv'
<1>1. UNCHANGED <<chain, walk>> /\ request' \in Waiting
  BY DEF Ask, Lose, NoRequest, Waiting
<1>2. request'.phase # "none" => walk.phase = "walking"
  BY DEF Ask, Lose, NoRequest
<1>3. request'.phase \notin {"numbered", "answered"}
  BY DEF Ask, Lose, NoRequest
<1>4. TypeInv'
  BY <1>1 DEF IInv, TypeInv
<1>5. RequestInv'
  BY <1>1, <1>2, <1>3 DEF RequestInv
<1>. QED
  BY <1>1, <1>4, <1>5, WalkStays DEF IInv

LEMMA NumberInv ==
  ASSUME IInv, Number
  PROVE  IInv'
<1>1. /\ UNCHANGED <<chain, walk>> /\ walk.phase = "walking" /\ WalkInv /\ walk \in Walks
  BY DEF Number, IInv, RequestInv, TypeInv, Idle
<1>2. head \in Nat /\ walk.at \in Nat \cup {Latest} /\ (walk.at # Latest => walk.at <= head)
  BY <1>1, HeadFacts DEF IInv, WalkInv, Walks
<1>. DEFINE number == IF walk.at = Latest THEN head ELSE walk.at
<1>3. number \in Nat /\ number <= head /\ (walk.at # Latest => number = walk.at)
  BY <1>2
<1>4. request' = [phase |-> "numbered", number |-> number]
  BY DEF Number
<1>. HIDE DEF number
<1>5. TypeInv'
  BY <1>1, <1>3, <1>4 DEF IInv, TypeInv, Numbered
<1>6. RequestInv'
  BY <1>1, <1>3, <1>4, WalkStays DEF RequestInv
<1>. QED
  BY <1>1, <1>5, <1>6, WalkStays DEF IInv

LEMMA EvaluateInv ==
  ASSUME IInv, Evaluate
  PROVE  IInv'
<1>1. /\ UNCHANGED <<chain, walk>> /\ walk.phase = "walking" /\ WalkInv /\ walk \in Walks
      /\ request.phase = "numbered" /\ RequestInv
  BY DEF Evaluate, IInv, RequestInv, TypeInv, Idle
<1>2. /\ head \in Nat /\ walk.at \in Nat \cup {Latest} /\ walk.to <= head
      /\ walk.cursor \in Cursors
  BY <1>1, HeadFacts DEF IInv, WalkInv, Walks
<1>3. request.number \in Nat /\ request.number <= head
  BY <1>1 DEF IInv, TypeInv, RequestInv, Waiting, Numbered, Answers
<1>. DEFINE block == IF walk.at = Latest THEN head ELSE request.number
            page == PageOf(State(block), walk.cursor)
<1>4. /\ block \in Nat /\ block <= head
      /\ walk.at # Latest => block = walk.at
      /\ walk.at = Latest => walk.to <= block
  BY <1>1, <1>2, <1>3 DEF RequestInv
<1>5. request' = [phase |-> "answered", number |-> request.number, block |-> block,
                  page |-> page]
  BY DEF Evaluate
<1>. HIDE DEF block
<1>6. State(block) \in States
  BY <1>4, HeadFacts DEF IInv
<1>7. page \in Pages
  BY <1>2, <1>6, PageFacts DEF Pages
<1>. HIDE DEF page
<1>8. TypeInv'
  BY <1>1, <1>3, <1>4, <1>5, <1>7 DEF IInv, TypeInv, Answers
<1>9. RequestInv'
  BY <1>1, <1>4, <1>5, WalkStays DEF RequestInv, page
<1>. QED
  BY <1>1, <1>8, <1>9, WalkStays DEF IInv

Descends(s) == \A k \in 1 .. Len(s) - 1 : s[k] > s[k + 1]
Member(s, i) == \E k \in 1 .. Len(s) : s[k] = i
Join(s, t) == s \o t

\* Where the entries of two joined sequences are.
LEMMA JoinedAt ==
  ASSUME NEW s \in Seq(Ids), NEW t \in Seq(Ids)
  PROVE  /\ Join(s, t) \in Seq(Ids) /\ Len(Join(s, t)) = Len(s) + Len(t)
         /\ Len(s) \in Nat /\ Len(t) \in Nat
         /\ \A k \in 1 .. Len(s) : k \in 1 .. Len(Join(s, t)) /\ Join(s, t)[k] = s[k]
         /\ \A k \in 1 .. Len(t) :
              k + Len(s) \in 1 .. Len(Join(s, t)) /\ Join(s, t)[k + Len(s)] = t[k]
<1>. DEFINE j == s \o t
<1>1. j \in Seq(Ids) /\ Len(j) = Len(s) + Len(t)
  BY ConcatProperties
<1>2. Len(s) \in Nat /\ Len(t) \in Nat
  BY LenProperties
<1>3. \A k \in 1 .. Len(s) + Len(t) : j[k] = IF k <= Len(s) THEN s[k] ELSE t[k - Len(s)]
  BY ConcatProperties
<1>. HIDE DEF j
<1>4. ASSUME NEW k \in 1 .. Len(s)
      PROVE  k \in 1 .. Len(j) /\ j[k] = s[k]
  <2>1. k \in 1 .. Len(s) + Len(t) /\ k <= Len(s)
    BY <1>2
  <2>. QED
    BY <1>1, <1>3, <2>1
<1>5. ASSUME NEW k \in 1 .. Len(t)
      PROVE  k + Len(s) \in 1 .. Len(j) /\ j[k + Len(s)] = t[k]
  <2>1. /\ k + Len(s) \in 1 .. Len(s) + Len(t) /\ ~(k + Len(s) <= Len(s))
        /\ (k + Len(s)) - Len(s) = k
    BY <1>2
  <2>2. j[k + Len(s)] = t[(k + Len(s)) - Len(s)]
    BY <1>3, <2>1
  <2>. QED
    BY <1>1, <2>1, <2>2
<1>. QED
  BY <1>1, <1>2, <1>4, <1>5 DEF Join, j

\* A place in two joined sequences is a place in one of them.
LEMMA JoinedFrom ==
  ASSUME NEW a \in Nat, NEW b \in Nat, NEW k \in 1 .. a + b
  PROVE  k \in 1 .. a \/ \E l \in 1 .. b : k = l + a
<1>1. k > a => k - a \in 1 .. b /\ k = (k - a) + a
  OBVIOUS
<1>. QED
  BY <1>1

LEMMA JoinedMembers ==
  ASSUME NEW s \in Seq(Ids), NEW t \in Seq(Ids), NEW i
  PROVE  Member(Join(s, t), i) <=> Member(s, i) \/ Member(t, i)
<1>. DEFINE j == Join(s, t)
<1>1. /\ Len(s) \in Nat /\ Len(t) \in Nat /\ Len(j) = Len(s) + Len(t)
      /\ \A k \in 1 .. Len(s) : k \in 1 .. Len(j) /\ j[k] = s[k]
      /\ \A k \in 1 .. Len(t) : k + Len(s) \in 1 .. Len(j) /\ j[k + Len(s)] = t[k]
  BY JoinedAt
<1>. HIDE DEF j
<1>2. ASSUME NEW k \in 1 .. Len(j), j[k] = i
      PROVE  Member(s, i) \/ Member(t, i)
  <2>1. k \in 1 .. Len(s) + Len(t)
    BY <1>1
  <2>2. k \in 1 .. Len(s) \/ \E l \in 1 .. Len(t) : k = l + Len(s)
    BY <1>1, <2>1, JoinedFrom
  <2>. QED
    BY <1>1, <1>2, <2>2 DEF Member
<1>3. Member(s, i) \/ Member(t, i) => Member(j, i)
  BY <1>1 DEF Member
<1>. QED
  BY <1>2, <1>3 DEF Member, j

\* A descending sequence goes on with one that begins below its last entry.
LEMMA JoinedDescends ==
  ASSUME NEW s \in Seq(Ids), NEW t \in Seq(Ids),
         Descends(s), Descends(t),
         s = <<>> \/ \A k \in 1 .. Len(t) : t[k] < s[Len(s)]
  PROVE  Descends(Join(s, t))
<1>. DEFINE j == Join(s, t)
            a == Len(s)
            b == Len(t)
<1>1. /\ a \in Nat /\ b \in Nat /\ Len(j) = a + b
      /\ \A k \in 1 .. a : j[k] = s[k]
      /\ \A k \in 1 .. b : j[k + a] = t[k]
  BY JoinedAt
<1>. HIDE DEF j
<1>. SUFFICES ASSUME NEW k \in 1 .. Len(j) - 1 PROVE j[k] > j[k + 1]
  BY DEF Descends, j
<1>2. \A n \in 1 .. a : s[n] \in Nat
  <2>1. \A n \in 1 .. a : s[n] \in Ids
    BY ElementOfSeq
  <2>. QED
    BY <2>1, PagesAssumption DEF Ids
<1>3. \A n \in 1 .. b : t[n] \in Nat
  <2>1. \A n \in 1 .. b : t[n] \in Ids
    BY ElementOfSeq
  <2>. QED
    BY <2>1, PagesAssumption DEF Ids
<1>4. a = 0 \/ \A n \in 1 .. b : t[n] < s[a]
  BY EmptySeq
<1>5. /\ \A n \in 1 .. a - 1 : s[n] > s[n + 1]
      /\ \A n \in 1 .. b - 1 : t[n] > t[n + 1]
  BY DEF Descends
<1>. HIDE DEF a, b
<1>6. k \in Nat /\ k >= 1 /\ k < a + b
  BY <1>1
<1>7. CASE k < a
  <2>1. k \in 1 .. a /\ k + 1 \in 1 .. a /\ k \in 1 .. a - 1
    BY <1>1, <1>6, <1>7
  <2>. QED
    BY <1>1, <1>5, <2>1
<1>8. CASE k = a
  <2>1. k \in 1 .. a /\ 1 \in 1 .. b /\ a # 0
    BY <1>1, <1>6, <1>8
  <2>2. j[k] = s[a] /\ j[1 + a] = t[1] /\ t[1] < s[a] /\ 1 + a = k + 1
    BY <1>1, <1>4, <1>8, <2>1
  <2>3. s[a] \in Nat /\ t[1] \in Nat
    BY <1>2, <1>3, <1>8, <2>1
  <2>. QED
    BY <2>2, <2>3
<1>9. CASE k > a
  <2>1. PICK l \in 1 .. b - 1 : k = l + a
    <3>1. k - a \in 1 .. b - 1 /\ k = (k - a) + a
      BY <1>1, <1>6, <1>9
    <3>. QED
      BY <3>1
  <2>2. l \in 1 .. b /\ l + 1 \in 1 .. b /\ k + 1 = (l + 1) + a
    BY <1>1, <2>1
  <2>. QED
    BY <1>1, <1>5, <2>1, <2>2
<1>. QED
  BY <1>1, <1>6, <1>7, <1>8, <1>9

\* The last entry of a joined sequence.
LEMMA JoinedEnd ==
  ASSUME NEW s \in Seq(Ids), NEW t \in Seq(Ids), Len(t) > 0
  PROVE  /\ Len(Join(s, t)) > 0
         /\ Join(s, t)[Len(Join(s, t))] = t[Len(t)]
<1>1. /\ Len(Join(s, t)) = Len(s) + Len(t) /\ Len(s) \in Nat /\ Len(t) \in Nat
      /\ \A k \in 1 .. Len(t) : Join(s, t)[k + Len(s)] = t[k]
  BY JoinedAt
<1>2. Len(t) \in 1 .. Len(t) /\ Len(t) + Len(s) = Len(Join(s, t))
  BY <1>1
<1>. QED
  BY <1>1, <1>2

\* The page that arrives joins on to what was received.
LEMMA ReceiveInv ==
  ASSUME IInv, Receive
  PROVE  IInv'
<1>. DEFINE block == request.block
            page == request.page
            got == walk.got
            next == page.next
            entries == page.entries
            joined == Join(got, entries)
<1>1. /\ chain' = chain /\ head' = head /\ request' = NoRequest
      /\ \A n : State(n)' = State(n) /\ Matching(n)' = Matching(n)
  BY DEF Receive, head, State, Matching
<1>2. /\ walk.phase = "walking" /\ WalkInv /\ walk \in Walks
      /\ request.phase = "answered" /\ request \in Answers /\ RequestInv
  BY DEF Receive, IInv, RequestInv, TypeInv, Idle, Waiting, Numbered, Answers
<1>3. /\ got \in Seq(Ids) /\ walk.cursor \in Cursors /\ walk.from \in Nat /\ walk.to \in Nat
      /\ walk.at \in Nat \cup {Latest}
      /\ block \in Nat /\ page = PageOf(State(block), walk.cursor)
      /\ block <= head
  BY <1>2 DEF Walks, Answers, RequestInv
<1>4. State(block) \in States
  BY <1>3, HeadFacts DEF IInv
<1>5. /\ entries \in Seq(Ids) /\ next \in Cursors
      /\ \A k \in 1 .. Len(entries) - 1 : entries[k] > entries[k + 1]
      /\ \A k \in 1 .. Len(entries) :
           entries[k] \in Matching(block) /\ Left(walk.cursor, entries[k])
      /\ next # NoCursor => Len(entries) > 0 /\ next = entries[Len(entries)]
      /\ \A i \in Matching(block) : (Left(walk.cursor, i) /\ Behind(next, i)) =>
           \E k \in 1 .. Len(entries) : entries[k] = i
  BY <1>3, <1>4, PageFacts DEF Matching
<1>6. walk' = [walk EXCEPT !.got = joined, !.cursor = next, !.to = block,
                           !.phase = IF next = NoCursor THEN "done" ELSE @]
  BY DEF Receive, Join
<1>7. /\ walk'.got = joined /\ walk'.cursor = next /\ walk'.to = block
      /\ walk'.at = walk.at /\ walk'.from = walk.from
      /\ walk'.phase = (IF next = NoCursor THEN "done" ELSE "walking")
  BY <1>2, <1>6 DEF Walks
<1>8. /\ joined \in Seq(Ids)
      /\ next # NoCursor => Len(joined) > 0 /\ next = joined[Len(joined)]
  BY <1>3, <1>5, JoinedAt, JoinedEnd
<1>22. \A i : Member(joined, i) <=> Member(got, i) \/ Member(entries, i)
  BY <1>3, <1>5, JoinedMembers
<1>21. Descends(joined)
  <2>1. Descends(got) /\ Descends(entries)
    BY <1>2, <1>5 DEF WalkInv, Descends
  <2>2. got = <<>> \/ \A k \in 1 .. Len(entries) : entries[k] < got[Len(got)]
    BY <1>2, <1>5 DEF WalkInv, Left
  <2>. QED
    BY <1>3, <1>5, <2>1, <2>2, JoinedDescends
<1>. HIDE DEF joined
<1>9. walk' \in Walks
  BY <1>2, <1>3, <1>5, <1>6, <1>8 DEF Walks
<1>10. TypeInv'
  BY <1>1, <1>9 DEF IInv, TypeInv, NoRequest, Waiting
<1>11. RequestInv'
  BY <1>1 DEF RequestInv, NoRequest
<1>12. /\ walk'.from <= head' /\ walk'.to <= head'
       /\ walk'.at # Latest => walk'.at <= head'
       /\ walk'.at = Latest => walk'.from <= walk'.to
  <2>1. walk.at = Latest => walk.from <= walk.to /\ walk.to <= block
    BY <1>2 DEF WalkInv, RequestInv
  <2>. QED
    BY <1>1, <1>2, <1>3, <1>7, <2>1 DEF WalkInv
<1>13. walk'.phase = "walking" =>
         walk'.cursor # NoCursor /\ Len(walk'.got) > 0 /\ walk'.cursor = walk'.got[Len(walk'.got)]
  BY <1>7, <1>8
<1>14. Descends(walk'.got)
  BY <1>7, <1>21
<1>15. \A i : i \in Received' <=> i \in Received \/ Member(entries, i)
  <2>1. \A i : i \in Received' <=> Member(joined, i)
    BY <1>7, <1>8, LenProperties DEF Received, Member
  <2>2. \A i : i \in Received <=> Member(got, i)
    BY <1>3, LenProperties DEF Received, Member
  <2>. QED
    BY <2>1, <2>2, <1>22
<1>16. Blocks \subseteq Blocks' /\ block \in Blocks'
  BY <1>2, <1>3, <1>7 DEF Blocks, Seen, WalkInv, RequestInv
<1>17. ASSUME NEW i \in Received'
       PROVE  \E n \in Blocks' : i \in Matching(n)'
  <2>1. CASE i \in Received
    BY <1>1, <1>2, <1>16, <2>1 DEF WalkInv
  <2>2. CASE Member(entries, i)
    BY <1>1, <1>5, <1>16, <2>2 DEF Member
  <2>. QED
    BY <1>15, <2>1, <2>2
<1>18. ASSUME NEW i \in Ids, Passed(i)', \A n \in Blocks' : i \in Matching(n)'
       PROVE  i \in Received'
  <2>1. i \in Matching(block) /\ \A n \in Blocks : i \in Matching(n)
    BY <1>1, <1>16, <1>18
  <2>2. Behind(next, i)
    BY <1>7, <1>18 DEF Passed, Behind
  <2>3. CASE Left(walk.cursor, i)
    BY <1>5, <1>15, <2>1, <2>2, <2>3 DEF Member
  <2>4. CASE ~Left(walk.cursor, i)
    <3>1. walk.cursor # NoCursor /\ walk.cursor \in Nat /\ i \in Nat
      BY <1>3, <2>4, PagesAssumption DEF Left, Cursors, Ids
    <3>2. Passed(i)
      BY <2>4, <3>1 DEF Left, Passed
    <3>. QED
      BY <1>2, <1>15, <2>1, <3>2 DEF WalkInv
  <2>. QED
    BY <2>3, <2>4
<1>19. WalkInv'
  BY <1>12, <1>13, <1>14, <1>17, <1>18 DEF WalkInv, Descends
<1>. QED
  BY <1>10, <1>11, <1>19 DEF IInv

THEOREM Invariance == Spec => []IInv
<1>1. IInv /\ UNCHANGED vars => IInv'
  <2>. SUFFICES ASSUME IInv, UNCHANGED vars PROVE IInv'
    OBVIOUS
  <2>1. UNCHANGED <<chain, walk>> /\ request' = request
    BY DEF vars
  <2>. QED
    BY <2>1, WalkStays DEF IInv, TypeInv, RequestInv
<1>2. IInv /\ [Next]_vars => IInv'
  BY <1>1, CommitInv, BeginInv, AskLoseInv, NumberInv, EvaluateInv, ReceiveInv DEF Next
<1>. QED
  BY <1>2, InitInv, PTL DEF Spec

\* "Newest first": the IDs of a whole walk descend, so none comes twice.
THEOREM WalksDescend == Spec => []NewestFirst
<1>1. IInv => NewestFirst
  BY DEF IInv, WalkInv, NewestFirst
<1>. QED
  BY <1>1, Invariance, PTL

\* A walk at the head returns all that matches throughout, and nothing that
\* never does.
THEOREM StableEntitiesAreFound == Spec => []StableEntitiesFound
<1>1. ASSUME IInv, walk.phase = "done", walk.at = Latest
      PROVE  /\ \A i \in Ids : (\A n \in Seen : i \in Matching(n)) => i \in Received
             /\ \A i \in Received : \E n \in Seen : i \in Matching(n)
  BY <1>1 DEF IInv, WalkInv, Blocks, Passed
<1>. QED
  BY <1>1, Invariance, PTL DEF StableEntitiesFound

\* A walk pinned to a block returns exactly what matches there.
THEOREM PinnedWalksAreExact == Spec => []PinnedWalkIsExact
<1>1. ASSUME IInv, walk.phase = "done", walk.at # Latest
      PROVE  Received = Matching(walk.at)
  <2>1. WalkInv /\ walk \in Walks /\ TypeInv
    BY <1>1 DEF IInv, TypeInv, Idle
  <2>2. walk.at \in Nat /\ walk.at <= head
    BY <1>1, <2>1 DEF Walks, WalkInv
  <2>3. State(walk.at) \in States
    BY <2>1, <2>2, HeadFacts
  <2>4. \A i \in Matching(walk.at) : i \in Ids
    BY <2>3, PagesAssumption DEF Matching, States, Ids
  <2>5. Blocks = {walk.at} /\ \A i : Passed(i)
    BY <1>1 DEF Blocks, Passed
  <2>. QED
    BY <2>1, <2>4, <2>5 DEF WalkInv
<1>. QED
  BY <1>1, Invariance, PTL DEF PinnedWalkIsExact

(***************************************************************************)
(* The parser and its grammar: values, patterns and lists                  *)
(***************************************************************************)

\* The kinds are those of the tokens, and the end behind them.
LEMMA KindIs ==
  ASSUME NEW ts, Legible(ts), NEW i
  PROVE  /\ Kind(ts, i) \in TokenKinds \cup {"End"}
         /\ Kind(ts, i) # "End" <=> i \in 1..Len(ts)
         /\ i \in 1..Len(ts) => Kind(ts, i) = ts[i][1] /\ IsToken(ts[i])
BY DEF Kind, Legible, IsToken, TokenKinds

\* The x of a prefix is no digit.
LEMMA NotADigit == "x" \notin HexDigits
BY DEF HexDigits, Digits

\* decode_entity_key_string takes the texts that spell keys.
LEMMA DecodeIs ==
  ASSUME NEW s
  PROVE  DecodeEntityKeyString(s) = IF SpellsKey(s) THEN {KeySpelled(s)} ELSE {}
<1>1. CASE Len(s) = 2 + KeyDigits
  <2>1. Len(s) > 1 /\ Len(s) \in Nat
    BY <1>1, DigitsAssumption
  <2>2. CASE At(s, 3) = "0" /\ At(s, 4) = "x"
    <3>1. 4 \in 3..Len(s)
      BY <2>1, <2>2 DEF At
    <3>2. ~IsHex(s)
      BY <2>2, <3>1, NotADigit DEF IsHex, IsRun
    <3>. QED
      BY <1>1, <2>1, <2>2, <3>2 DEF DecodeEntityKeyString, SpellsKey, SpellsShortKey, KeySpelled, IsRun
  <2>3. CASE ~(At(s, 3) = "0" /\ At(s, 4) = "x")
    BY <1>1, <2>1, <2>3 DEF DecodeEntityKeyString, SpellsKey, SpellsShortKey, KeySpelled, IsHex, IsRun
  <2>. QED
    BY <2>2, <2>3
<1>2. CASE Len(s) # 2 + KeyDigits
  BY <1>2 DEF DecodeEntityKeyString, SpellsKey
<1>. QED
  BY <1>1, <1>2

\* What a comparison takes as a value.
Value(name, op, lit) == IF Typed(name, op, lit) THEN {Bytes(name, op, lit)} ELSE {}

\* encode_for_key takes the literals that suit the name.
LEMMA EncodeIs ==
  ASSUME NEW name, NEW lit, NEW op, op \notin Ranges, op \notin Globs
  PROVE  EncodeForKey(name, lit) = Value(name, op, lit)
<1>1. lit[1] = "StringLit" => DecodeEntityKeyString(lit[2])
                                 = IF SpellsKey(lit[2]) THEN {KeySpelled(lit[2])} ELSE {}
  BY DecodeIs
<1>2. CASE name \in {"$owner", "$creator"}
  BY <1>2 DEF EncodeForKey, Value, Typed, Bytes, BuiltIns
<1>3. CASE name = "$key"
  BY <1>1, <1>3 DEF EncodeForKey, Value, Typed, Bytes, BuiltIns
<1>4. CASE name \in {"$expiration", "$createdAtBlock"}
  BY <1>4 DEF EncodeForKey, Value, Typed, Bytes, BuiltIns
<1>5. CASE name = "$contentType"
  BY <1>5 DEF EncodeForKey, Value, Typed, Bytes, BuiltIns
<1>6. CASE name \notin BuiltIns
  BY <1>6 DEF EncodeForKey, Value, Typed, Bytes, BuiltIns
<1>. QED
  BY <1>2, <1>3, <1>4, <1>5, <1>6 DEF BuiltIns

\* parse_glob_pattern takes the patterns.
LEMMA PatternIs ==
  ASSUME NEW ts, Legible(ts), NEW i \in 1..Len(ts), NEW name, NEW op \in Globs
  PROVE  ParseGlobPattern(ts, i, name) = Value(name, op, ts[i])
<1>. DEFINE lit == ts[i]
            s == lit[2]
<1>1. Kind(ts, i) = lit[1] /\ IsToken(lit)
  BY KindIs
<1>2. CASE lit[1] # "StringLit" \/ name \in BuiltIns \ {"$contentType"}
  <2>1. ParseGlobPattern(ts, i, name) = {}
    BY <1>1, <1>2 DEF ParseGlobPattern
  <2>2. ~Typed(name, op, lit)
    BY <1>2 DEF Typed, BuiltIns
  <2>. QED
    BY <2>1, <2>2 DEF Value
<1>3. CASE lit[1] = "StringLit" /\ name \notin BuiltIns \ {"$contentType"}
  <2>1. Len(s) \in Nat
    BY <1>1, <1>3 DEF IsToken
  <2>. HIDE DEF lit
  <2>2. {k \in 1..Len(s) : At(s, k) = "*"} = {Len(s)} <=> IsPattern(s)
    <3>1. CASE Len(s) = 0
      <4>1. At(s, Len(s)) = "" /\ Len(s) \notin {k \in 1..Len(s) : At(s, k) = "*"}
        BY <3>1 DEF At
      <4>. QED
        BY <4>1 DEF IsPattern
    <3>2. CASE Len(s) # 0
      <4>1. Len(s) \in 1..Len(s) /\ \A k \in 1..Len(s) : k = Len(s) \/ k \in 1..Len(s) - 1
        BY <2>1, <3>2
      <4>2. ASSUME {k \in 1..Len(s) : At(s, k) = "*"} = {Len(s)} PROVE IsPattern(s)
        <5>1. At(s, Len(s)) = "*"
          BY <4>2
        <5>2. ASSUME NEW k \in 1..Len(s) - 1 PROVE At(s, k) # "*"
          <6>1. k \in 1..Len(s) /\ k # Len(s)
            BY <2>1
          <6>. QED
            BY <4>2, <6>1
        <5>. QED
          BY <5>1, <5>2 DEF IsPattern
      <4>3. ASSUME IsPattern(s) PROVE {k \in 1..Len(s) : At(s, k) = "*"} = {Len(s)}
        BY <4>1, <4>3 DEF IsPattern
      <4>. QED
        BY <4>2, <4>3
    <3>. QED
      BY <3>1, <3>2
  <2>3. ParseGlobPattern(ts, i, name)
          = {BytesOf(SubSeq(t, 1, Len(t) - 1)) :
               t \in {r \in {s} : {k \in 1..Len(r) : At(r, k) = "*"} = {Len(r)}}}
    BY <1>1, <1>3 DEF ParseGlobPattern, lit
  <2>4. Typed(name, op, lit) <=> IsPattern(s)
    <3>1. op \notin Ranges
      BY DEF Ranges, Globs
    <3>2. CASE name = "$contentType"
      BY <1>3, <3>1, <3>2 DEF Typed
    <3>3. CASE name \notin BuiltIns
      <4>1. name \notin {"$owner", "$creator", "$key", "$expiration", "$createdAtBlock", "$contentType"}
        BY <3>3 DEF BuiltIns
      <4>. QED
        BY <1>3, <3>1, <4>1 DEF Typed
    <3>. QED
      BY <1>3, <3>2, <3>3
  <2>5. Bytes(name, op, lit) = BytesOf(SubSeq(s, 1, Len(s) - 1))
    BY DEF Bytes
  <2>6. ParseGlobPattern(ts, i, name) = Value(name, op, lit)
    <3>1. CASE IsPattern(s)
      <4>1. {r \in {s} : {k \in 1..Len(r) : At(r, k) = "*"} = {Len(r)}} = {s}
        BY <2>2, <3>1
      <4>2. ParseGlobPattern(ts, i, name) = {BytesOf(SubSeq(s, 1, Len(s) - 1))}
        BY <2>3, <4>1
      <4>. QED
        BY <2>4, <2>5, <3>1, <4>2 DEF Value
    <3>2. CASE ~IsPattern(s)
      <4>1. {r \in {s} : {k \in 1..Len(r) : At(r, k) = "*"} = {Len(r)}} = {}
        BY <2>2, <3>2
      <4>2. ParseGlobPattern(ts, i, name) = {}
        BY <2>3, <4>1
      <4>. QED
        BY <2>4, <3>2, <4>2 DEF Value
    <3>. QED
      BY <3>1, <3>2
  <2>. QED
    BY <2>6 DEF lit
<1>. QED
  BY <1>2, <1>3

\* parse_value takes one token.
LEMMA ValueIs ==
  ASSUME NEW ts, Legible(ts), NEW i, NEW name, NEW op, op \notin Ranges, op \notin Globs
  PROVE  /\ i \in 1..Len(ts) => ParseValue(ts, i, name) = Value(name, op, ts[i])
         /\ i \notin 1..Len(ts) => ParseValue(ts, i, name) = {}
BY KindIs, EncodeIs DEF ParseValue

\* Only a literal is a value.
LEMMA ValueLiteral ==
  ASSUME NEW name, NEW op, NEW lit, Typed(name, op, lit)
  PROVE  lit[1] \in {"StringLit", "Address", "EntityKey", "Number"}
BY DEF Typed

\* What the grammar makes of the list between the brackets at i and j.
ListOf(ts, i, j, name) == {Bytes(name, "In", ts[k]) : k \in i + 1..j - 1}
IsList(ts, i, j, name) ==
  Bracketed(ts, i, j) /\ \A k \in i + 1..j - 1 : Typed(name, "In", ts[k])

\* parse_value_list reads a list up to its closing bracket.
LEMMA ListIs ==
  ASSUME NEW ts, Legible(ts), NEW i \in Nat, NEW name
  PROVE  /\ \A j \in 0..Len(ts) : IsList(ts, i, j, name) =>
              [values |-> ListOf(ts, i, j, name), next |-> j + 1] \in ParseValueList(ts, i, name)
         /\ \A r \in ParseValueList(ts, i, name) : \E j \in 0..Len(ts) :
              /\ IsList(ts, i, j, name) /\ i < j
              /\ r = [values |-> ListOf(ts, i, j, name), next |-> j + 1]
<1>. DEFINE n == Len(ts)
            Ends == {j \in i + 1..n + i + 1 : Kind(ts, j) \in {"RParen", "End"}}
            end == Min(Ends)
            between == i + 1..end - 1
            vals == UNION {ParseValue(ts, j, name) : j \in between}
<1>0. n \in Nat /\ i \in Nat
  BY DEF Legible
<1>1. ParseValueList(ts, i, name)
        = When(/\ Kind(ts, i) = "LParen" /\ Kind(ts, end) = "RParen" /\ between # {}
               /\ \A j \in between : ParseValue(ts, j, name) # {},
               [values |-> vals, next |-> end + 1])
  BY Zenon DEF ParseValueList
<1>2. Ends \subseteq Nat /\ n + i + 1 \in Ends
  <2>1. n + i + 1 \notin 1..n /\ n + i + 1 \in i + 1..n + i + 1
    BY <1>0
  <2>2. Kind(ts, n + i + 1) = "End"
    BY <2>1, KindIs
  <2>. QED
    BY <1>0, <2>1, <2>2
<1>3. end \in Ends /\ \A j \in Ends : end <= j
  <2>. HIDE DEF Ends
  <2>1. PICK m \in Ends : m \in Nat /\ \A k \in Ends : m <= k
    BY <1>2, Smallest
  <2>2. end = (CHOOSE x \in Ends : \A y \in Ends : x <= y)
    BY DEF Min
  <2>. QED
    BY <2>1, <2>2
<1>. HIDE DEF end
<1>4. end \in Nat /\ i < end
  BY <1>0, <1>3
<1>5. \A j \in between : Kind(ts, j) \notin {"RParen", "End"} /\ j \in 1..n
  <2>. SUFFICES ASSUME NEW j \in between PROVE Kind(ts, j) \notin {"RParen", "End"} /\ j \in 1..n
    OBVIOUS
  <2>1. j \in i + 1..n + i + 1 /\ ~(end <= j)
    BY <1>0, <1>3, <1>4
  <2>2. Kind(ts, j) \notin {"RParen", "End"}
    BY <1>3, <2>1
  <2>. QED
    BY <2>2, KindIs
<1>6. \A j \in 1..n : ParseValue(ts, j, name) = Value(name, "In", ts[j])
  BY ValueIs DEF Ranges, Globs
<1>7. ASSUME NEW j \in 0..n, IsList(ts, i, j, name)
      PROVE  [values |-> ListOf(ts, i, j, name), next |-> j + 1] \in ParseValueList(ts, i, name)
  <2>1. i + 1 < j /\ Kind(ts, i) = "LParen" /\ Kind(ts, j) = "RParen"
    BY <1>7 DEF IsList, Bracketed
  <2>2. j \in Ends
    BY <1>0, <2>1
  <2>3. \A k \in i + 1..j - 1 : k \in 1..n /\ Kind(ts, k) \notin {"RParen", "End"}
    <3>. SUFFICES ASSUME NEW k \in i + 1..j - 1 PROVE k \in 1..n /\ Kind(ts, k) \notin {"RParen", "End"}
      OBVIOUS
    <3>1. k \in 1..n
      BY <1>0
    <3>2. Typed(name, "In", ts[k])
      BY <1>7 DEF IsList
    <3>. QED
      BY <3>1, <3>2, KindIs, ValueLiteral
  <2>4. end = j
    <3>1. end <= j
      BY <1>3, <2>2
    <3>2. end \in i + 1..j - 1 => FALSE
      BY <1>3, <2>3
    <3>. QED
      BY <1>0, <1>4, <3>1, <3>2
  <2>5. between = i + 1..j - 1 /\ between # {} /\ \A k \in between : k \in 1..n /\ Typed(name, "In", ts[k])
    <3>1. between = i + 1..j - 1
      BY <2>4
    <3>2. i + 1 \in i + 1..j - 1
      BY <1>0, <2>1
    <3>. QED
      BY <1>7, <2>3, <3>1, <3>2 DEF IsList
  <2>. HIDE DEF between
  <2>6. \A k \in between : ParseValue(ts, k, name) = {Bytes(name, "In", ts[k])}
    BY <1>6, <2>5 DEF Value
  <2>7. vals = ListOf(ts, i, j, name)
    <3>1. ListOf(ts, i, j, name) = {Bytes(name, "In", ts[k]) : k \in between}
      BY <2>5 DEF ListOf
    <3>. QED
      BY <2>6, <3>1
  <2>. QED
    BY <1>1, <2>1, <2>4, <2>5, <2>6, <2>7 DEF When
<1>8. ASSUME NEW r \in ParseValueList(ts, i, name)
      PROVE  \E j \in 0..n : /\ IsList(ts, i, j, name) /\ i < j
                             /\ r = [values |-> ListOf(ts, i, j, name), next |-> j + 1]
  <2>. HIDE DEF between, vals
  <2>1. /\ Kind(ts, i) = "LParen" /\ Kind(ts, end) = "RParen" /\ between # {}
        /\ \A j \in between : ParseValue(ts, j, name) # {}
        /\ r = [values |-> vals, next |-> end + 1]
    BY <1>1, <1>8 DEF When
  <2>2. end \in 1..n
    BY <2>1, KindIs
  <2>3. \A k \in between : Typed(name, "In", ts[k]) /\ ParseValue(ts, k, name) = {Bytes(name, "In", ts[k])}
    BY <1>5, <1>6, <2>1 DEF Value
  <2>4. vals = {Bytes(name, "In", ts[k]) : k \in between}
    BY <2>3 DEF vals
  <2>5. i + 1 < end
    BY <1>0, <1>4, <2>1 DEF between
  <2>6. IsList(ts, i, end, name) /\ vals = ListOf(ts, i, end, name)
    BY <2>1, <2>3, <2>4, <2>5 DEF IsList, Bracketed, ListOf, between
  <2>. QED
    BY <1>4, <2>1, <2>2, <2>6
<1>. QED
  BY <1>7, <1>8

(***************************************************************************)
(* Predicates                                                              *)
(***************************************************************************)

\* A tree found, with its last token at j.
Result(q, j) == [q |-> q, next |-> j + 1]

\* The results agree with the trees that the grammar gives the tokens from i on.
Agrees(ts, results, i, trees) ==
  /\ \A j \in 0..Len(ts) : \A q \in trees[j] : Result(q, j) \in results
  /\ \A r \in results : \E j \in 0..Len(ts) : i <= j /\ \E q \in trees[j] : r = Result(q, j)

\* parse_predicate, with a value behind the operator.
LEMMA ComparisonAgrees ==
  ASSUME NEW ts, Legible(ts), NEW i \in 1..Len(ts) + 1, NEW name, NEW op, NEW parse, NEW trees,
         \A k \in 1..Len(ts) : k = i + 2 =>
           parse = {[q |-> Leaf(op, name, v), next |-> k + 1] : v \in Value(name, op, ts[k])},
         i + 2 \notin 1..Len(ts) => parse = {},
         \A j \in 0..Len(ts) :
           trees[j] = IF j = i + 2 /\ Typed(name, op, ts[j])
                      THEN {Leaf(op, name, Bytes(name, op, ts[j]))} ELSE {}
  PROVE  Agrees(ts, parse, i, trees)
<1>0. Len(ts) \in Nat /\ i \in Nat
  BY DEF Legible
<1>1. ASSUME NEW j \in 0..Len(ts), NEW q \in trees[j] PROVE Result(q, j) \in parse
  <2>0. trees[j] = IF j = i + 2 /\ Typed(name, op, ts[j])
                   THEN {Leaf(op, name, Bytes(name, op, ts[j]))} ELSE {}
    OBVIOUS
  <2>1. j = i + 2 /\ Typed(name, op, ts[j]) /\ q = Leaf(op, name, Bytes(name, op, ts[j]))
    BY <2>0
  <2>2. j \in 1..Len(ts)
    BY <1>0, <2>1
  <2>3. Bytes(name, op, ts[j]) \in Value(name, op, ts[j])
    BY <2>1 DEF Value
  <2>4. parse = {[q |-> Leaf(op, name, v), next |-> j + 1] : v \in Value(name, op, ts[j])}
    BY <2>1, <2>2
  <2>5. Result(q, j) = [q |-> Leaf(op, name, Bytes(name, op, ts[j])), next |-> j + 1]
    BY <2>1 DEF Result
  <2>. QED
    BY <2>3, <2>4, <2>5
<1>2. ASSUME NEW r \in parse
      PROVE  \E j \in 0..Len(ts) : i <= j /\ \E q \in trees[j] : r = Result(q, j)
  <2>. DEFINE k == i + 2
  <2>1. k \in 1..Len(ts) /\ k \in 0..Len(ts) /\ i <= k
    BY <1>0, <1>2
  <2>. HIDE DEF k
  <2>2. PICK v \in Value(name, op, ts[k]) : r = [q |-> Leaf(op, name, v), next |-> k + 1]
    BY <1>2, <2>1 DEF k
  <2>3. Typed(name, op, ts[k]) /\ v = Bytes(name, op, ts[k])
    BY <2>2 DEF Value
  <2>4. trees[k] = {Leaf(op, name, Bytes(name, op, ts[k]))}
    BY <2>1, <2>3 DEF k
  <2>5. r = Result(Leaf(op, name, Bytes(name, op, ts[k])), k)
    BY <2>2, <2>3 DEF Result
  <2>. QED
    BY <2>1, <2>4, <2>5
<1>. QED
  BY <1>1, <1>2 DEF Agrees

\* parse_predicate, with a list behind the operator.
LEMMA ListAgrees ==
  ASSUME NEW ts, Legible(ts), NEW i \in 1..Len(ts) + 1, NEW k \in {i + 2, i + 3}, NEW name,
         NEW parse, NEW trees, NEW op,
         parse = {[q |-> [op |-> op, name |-> name, values |-> r.values], next |-> r.next] :
                    r \in ParseValueList(ts, k, name)},
         \A j \in 0..Len(ts) :
           trees[j] = IF IsList(ts, k, j, name)
                      THEN {[op |-> op, name |-> name, values |-> ListOf(ts, k, j, name)]} ELSE {}
  PROVE  Agrees(ts, parse, i, trees)
<1>0. Len(ts) \in Nat /\ i \in Nat /\ k \in Nat /\ i <= k
  BY DEF Legible
<1>1. /\ \A j \in 0..Len(ts) : IsList(ts, k, j, name) =>
              [values |-> ListOf(ts, k, j, name), next |-> j + 1] \in ParseValueList(ts, k, name)
      /\ \A r \in ParseValueList(ts, k, name) : \E j \in 0..Len(ts) :
              /\ IsList(ts, k, j, name) /\ k < j
              /\ r = [values |-> ListOf(ts, k, j, name), next |-> j + 1]
  BY <1>0, ListIs
<1>2. ASSUME NEW j \in 0..Len(ts), NEW q \in trees[j] PROVE Result(q, j) \in parse
  <2>0. trees[j] = IF IsList(ts, k, j, name)
                   THEN {[op |-> op, name |-> name, values |-> ListOf(ts, k, j, name)]} ELSE {}
    OBVIOUS
  <2>1. IsList(ts, k, j, name) /\ q = [op |-> op, name |-> name, values |-> ListOf(ts, k, j, name)]
    BY <2>0
  <2>. DEFINE r == [values |-> ListOf(ts, k, j, name), next |-> j + 1]
  <2>2. r \in ParseValueList(ts, k, name)
    BY <1>1, <2>1
  <2>3. r.values = ListOf(ts, k, j, name) /\ r.next = j + 1
    OBVIOUS
  <2>. HIDE DEF r
  <2>4. Result(q, j) = [q |-> [op |-> op, name |-> name, values |-> r.values], next |-> r.next]
    BY <2>1, <2>3 DEF Result
  <2>. QED
    BY <2>2, <2>4
<1>3. ASSUME NEW r \in parse
      PROVE  \E j \in 0..Len(ts) : i <= j /\ \E q \in trees[j] : r = Result(q, j)
  <2>1. PICK l \in ParseValueList(ts, k, name) :
          r = [q |-> [op |-> op, name |-> name, values |-> l.values], next |-> l.next]
    BY <1>3
  <2>2. PICK j \in 0..Len(ts) : /\ IsList(ts, k, j, name) /\ k < j
                                /\ l = [values |-> ListOf(ts, k, j, name), next |-> j + 1]
    BY <1>1, <2>1
  <2>. DEFINE q == [op |-> op, name |-> name, values |-> ListOf(ts, k, j, name)]
  <2>3. l.values = ListOf(ts, k, j, name) /\ l.next = j + 1
    BY <2>2
  <2>4. q \in trees[j] /\ r = Result(q, j)
    BY <2>1, <2>2, <2>3 DEF Result
  <2>5. i <= j
    BY <1>0, <2>2
  <2>. QED
    BY <2>4, <2>5
<1>. QED
  BY <1>2, <1>3 DEF Agrees

\* The trees of the predicates from i on.
PredicatesFrom(ts, i) == [j \in 0..Len(ts) |-> Predicates(ts, i, j)]

LEMMA NoneAgree ==
  ASSUME NEW ts, NEW i, NEW trees, \A j \in 0..Len(ts) : trees[j] = {}
  PROVE  Agrees(ts, {}, i, trees)
BY DEF Agrees

\* A list, by its literals or by their positions.
LEMMA ListsAre ==
  ASSUME NEW ts, NEW i, NEW j, NEW name
  PROVE  LET lits == {ts[k] : k \in i + 1..j - 1} IN
         /\ (\A lit \in lits : Typed(name, "In", lit)) <=> \A k \in i + 1..j - 1 : Typed(name, "In", ts[k])
         /\ {Bytes(name, "In", lit) : lit \in lits} = ListOf(ts, i, j, name)
BY DEF ListOf

\* parse_predicate follows the grammar.
LEMMA PredicateAgrees ==
  ASSUME NEW ts, Legible(ts), NEW i \in 1..Len(ts) + 1
  PROVE  Agrees(ts, ParsePredicate(ts, i), i, PredicatesFrom(ts, i))
<1>. DEFINE n == Len(ts)
            name == ts[i][2]
            kind == Kind(ts, i + 1)
            trees == PredicatesFrom(ts, i)
<1>0. n \in Nat /\ i \in Nat
  BY DEF Legible
<1>1. /\ kind \in TokenKinds \cup {"End"} /\ Kind(ts, i + 2) \in TokenKinds \cup {"End"}
      /\ Kind(ts, i + 2) # "End" <=> i + 2 \in 1..n
      /\ i + 2 \in 1..n => Kind(ts, i + 2) = ts[i + 2][1] /\ IsToken(ts[i + 2])
  BY KindIs
<1>2. \A j \in 0..n : trees[j] = Predicates(ts, i, j)
  BY DEF PredicatesFrom
<1>. HIDE DEF trees
<1>3. CASE Kind(ts, i) # "Var"
  <2>1. ParsePredicate(ts, i) = {}
    BY <1>3 DEF ParsePredicate
  <2>2. \A j \in 0..n : trees[j] = {}
    BY <1>2, <1>3 DEF Predicates
  <2>. QED
    BY <2>1, <2>2, NoneAgree DEF trees
<1>4. CASE Kind(ts, i) = "Var" /\ kind = "In"
  <2>1. ParsePredicate(ts, i)
          = {[q |-> [op |-> "In", name |-> name, values |-> r.values], next |-> r.next] :
               r \in ParseValueList(ts, i + 2, name)}
    BY <1>4 DEF ParsePredicate, Ranges, In
  <2>2. ASSUME NEW j \in 0..n
        PROVE  trees[j] = IF IsList(ts, i + 2, j, name)
                          THEN {[op |-> "In", name |-> name, values |-> ListOf(ts, i + 2, j, name)]} ELSE {}
    <3>. DEFINE lits == {ts[l] : l \in i + 2 + 1..j - 1}
    <3>1. Predicates(ts, i, j) = {In(name, vs) : vs \in Lists(ts, i + 2, j, name)}
      <4>1. Operator(kind) \notin Ranges \cup Globs \cup {"Eq", "Neq"}
        BY <1>4 DEF Operator, Ranges, Globs
      <4>. QED
        BY <1>4, <4>1 DEF Predicates
    <3>3. Lists(ts, i + 2, j, name)
            = IF Bracketed(ts, i + 2, j) /\ \A lit \in lits : Typed(name, "In", lit)
              THEN {{Bytes(name, "In", lit) : lit \in lits}} ELSE {}
      BY Zenon DEF Lists
    <3>2. /\ (\A lit \in lits : Typed(name, "In", lit))
               <=> \A l \in i + 2 + 1..j - 1 : Typed(name, "In", ts[l])
          /\ {Bytes(name, "In", lit) : lit \in lits} = ListOf(ts, i + 2, j, name)
      BY ListsAre
    <3>. HIDE DEF lits
    <3>. QED
      BY <1>2, <3>1, <3>2, <3>3, ZenonT(60) DEF IsList, In
  <2>. QED
    BY <2>1, <2>2, ListAgrees DEF trees
<1>5. CASE Kind(ts, i) = "Var" /\ kind = "Not" /\ Kind(ts, i + 2) = "In"
  <2>1. ParsePredicate(ts, i)
          = {[q |-> [op |-> "NotIn", name |-> name, values |-> r.values], next |-> r.next] :
               r \in ParseValueList(ts, i + 3, name)}
    BY <1>5 DEF ParsePredicate, Ranges, NotIn
  <2>2. ASSUME NEW j \in 0..n
        PROVE  trees[j] = IF IsList(ts, i + 3, j, name)
                          THEN {[op |-> "NotIn", name |-> name, values |-> ListOf(ts, i + 3, j, name)]} ELSE {}
    <3>. DEFINE lits == {ts[l] : l \in i + 3 + 1..j - 1}
    <3>1. Predicates(ts, i, j) = {NotIn(name, vs) : vs \in Lists(ts, i + 3, j, name)}
      <4>1. Operator(kind) \notin Ranges \cup Globs \cup {"Eq", "Neq"}
        BY <1>5 DEF Operator, Ranges, Globs
      <4>. QED
        BY <1>5, <4>1 DEF Predicates
    <3>3. Lists(ts, i + 3, j, name)
            = IF Bracketed(ts, i + 3, j) /\ \A lit \in lits : Typed(name, "In", lit)
              THEN {{Bytes(name, "In", lit) : lit \in lits}} ELSE {}
      BY Zenon DEF Lists
    <3>2. /\ (\A lit \in lits : Typed(name, "In", lit))
               <=> \A l \in i + 3 + 1..j - 1 : Typed(name, "In", ts[l])
          /\ {Bytes(name, "In", lit) : lit \in lits} = ListOf(ts, i + 3, j, name)
      BY ListsAre
    <3>. HIDE DEF lits
    <3>. QED
      BY <1>2, <3>1, <3>2, <3>3, ZenonT(60) DEF IsList, NotIn
  <2>. QED
    BY <2>1, <2>2, ListAgrees DEF trees
<1>. DEFINE Compares(op) ==
       \A j \in 0..n : trees[j] = IF j = i + 2 /\ Typed(name, op, ts[j])
                                 THEN {Leaf(op, name, Bytes(name, op, ts[j]))} ELSE {}
<1>6. ASSUME Kind(ts, i) = "Var", kind \notin {"In", "Not"},
             NEW op, op = Operator(kind), op \in Ranges \cup Globs \cup {"Eq", "Neq"}
      PROVE  Compares(op)
  BY <1>2, <1>6 DEF Predicates
<1>. DEFINE LeavesOver(op, values) == {[q |-> Leaf(op, name, v), next |-> i + 2 + 1] : v \in values}
<1>. HIDE DEF Compares, LeavesOver
<1>7. ASSUME NEW op, Compares(op),
             i + 2 \in 1..n => ParsePredicate(ts, i) = LeavesOver(op, Value(name, op, ts[i + 2])),
             i + 2 \notin 1..n => ParsePredicate(ts, i) = {}
      PROVE  Agrees(ts, ParsePredicate(ts, i), i, trees)
  <2>. DEFINE parse == ParsePredicate(ts, i)
  <2>1. \A k \in 1..n : k = i + 2 =>
          parse = {[q |-> Leaf(op, name, v), next |-> k + 1] : v \in Value(name, op, ts[k])}
    BY <1>7 DEF LeavesOver
  <2>2. i + 2 \notin 1..n => parse = {}
    BY <1>7
  <2>3. \A j \in 0..n : trees[j] = IF j = i + 2 /\ Typed(name, op, ts[j])
                                   THEN {Leaf(op, name, Bytes(name, op, ts[j]))} ELSE {}
    BY <1>7 DEF Compares
  <2>. HIDE DEF parse
  <2>4. Agrees(ts, parse, i, trees)
    BY <2>1, <2>2, <2>3, ComparisonAgrees
  <2>. QED
    BY <2>4 DEF parse
<1>8. CASE Kind(ts, i) = "Var" /\ kind \in {"Eq", "Neq"}
  <2>1. Operator(kind) = kind /\ kind \notin Ranges /\ kind \notin Globs
    BY <1>8 DEF Operator, Ranges, Globs
  <2>2. Compares(kind)
    <3>1. kind \notin {"In", "Not"} /\ kind \in Ranges \cup Globs \cup {"Eq", "Neq"}
      BY <1>8
    <3>. QED
      BY <1>6, <1>8, <2>1, <3>1
  <2>3. ParsePredicate(ts, i) = LeavesOver(kind, ParseValue(ts, i + 2, name))
    <3>1. ParsePredicate(ts, i) = Comparison(kind, ts, i + 2, name)
      BY <1>8, <2>1 DEF ParsePredicate
    <3>. QED
      BY <1>0, <3>1 DEF Comparison, LeavesOver
  <2>4. /\ i + 2 \in 1..n => ParseValue(ts, i + 2, name) = Value(name, kind, ts[i + 2])
        /\ i + 2 \notin 1..n => ParseValue(ts, i + 2, name) = {}
    BY <2>1, ValueIs
  <2>5. LeavesOver(kind, {}) = {}
    BY DEF LeavesOver
  <2>. QED
    BY <1>7, <2>2, <2>3, <2>4, <2>5 DEF trees
<1>9. CASE Kind(ts, i) = "Var" /\ kind \in Ranges
  <2>1. Operator(kind) = kind /\ kind \notin Globs /\ kind \notin {"In", "Not"} /\ kind \notin {"Eq", "Neq"}
    <3>1. kind \notin {"Tilde", "NotTilde", "Glob", "NotGlob", "In", "Not", "Eq", "Neq"}
      BY <1>9 DEF Ranges
    <3>. QED
      BY <3>1 DEF Operator, Globs
  <2>2. Compares(kind)
    BY <1>6, <1>9, <2>1
  <2>3. ParsePredicate(ts, i) = IF Kind(ts, i + 2) \in {"Address", "EntityKey"} THEN {}
                                ELSE LeavesOver(kind, ParseValue(ts, i + 2, name))
    <3>1. ParsePredicate(ts, i) = IF Kind(ts, i + 2) \in {"Address", "EntityKey"} THEN {}
                                  ELSE Comparison(kind, ts, i + 2, name)
      <4>1. kind \notin {"Tilde", "NotTilde"}
        BY <1>9 DEF Ranges
      <4>. QED
        BY <1>9, <2>1, <4>1 DEF ParsePredicate
    <3>. QED
      BY <1>0, <3>1 DEF Comparison, LeavesOver
  <2>4. ParseValue(ts, i + 2, name) = IF i + 2 \in 1..n THEN Value(name, "Eq", ts[i + 2]) ELSE {}
    <3>1. "Eq" \notin Ranges /\ "Eq" \notin Globs
      BY DEF Ranges, Globs
    <3>. QED
      BY <3>1, ValueIs
  <2>5. LeavesOver(kind, {}) = {}
    BY DEF LeavesOver
  <2>6. ASSUME i + 2 \in 1..n
        PROVE  Value(name, kind, ts[i + 2])
                 = IF Kind(ts, i + 2) \in {"Address", "EntityKey"} THEN {} ELSE Value(name, "Eq", ts[i + 2])
    <3>. DEFINE lit == ts[i + 2]
    <3>1. lit[1] = Kind(ts, i + 2)
      BY <1>1, <2>6
    <3>. HIDE DEF lit
    <3>2. Typed(name, kind, lit) <=> Typed(name, "Eq", lit) /\ lit[1] \notin {"Address", "EntityKey"}
      BY <1>9, <2>1 DEF Typed, Ranges, Globs
    <3>3. Bytes(name, kind, lit) = Bytes(name, "Eq", lit)
      BY <2>1 DEF Bytes, Globs
    <3>. QED
      BY <3>1, <3>2, <3>3 DEF Value, lit
  <2>. QED
    BY <1>7, <2>2, <2>3, <2>4, <2>5, <2>6 DEF trees
<1>10. ASSUME Kind(ts, i) = "Var", NEW op \in Globs, op = Operator(kind), kind \in {"Tilde", "NotTilde"},
              ParsePredicate(ts, i) = LeavesOver(op, ParseGlobPattern(ts, i + 2, name))
       PROVE  Agrees(ts, ParsePredicate(ts, i), i, trees)
  <2>1. Compares(op)
    BY <1>6, <1>10
  <2>2. i + 2 \in 1..n => ParseGlobPattern(ts, i + 2, name) = Value(name, op, ts[i + 2])
    BY <1>10, PatternIs
  <2>3. i + 2 \notin 1..n => ParseGlobPattern(ts, i + 2, name) = {}
    BY <1>1 DEF ParseGlobPattern
  <2>4. LeavesOver(op, {}) = {}
    BY DEF LeavesOver
  <2>. QED
    BY <1>7, <1>10, <2>1, <2>2, <2>3, <2>4
<1>11. CASE Kind(ts, i) = "Var" /\ kind = "Tilde"
  <2>1. ParsePredicate(ts, i) = LeavesOver("Glob", ParseGlobPattern(ts, i + 2, name))
    BY <1>11 DEF ParsePredicate, Globbing, LeavesOver, Ranges
  <2>2. Operator(kind) = "Glob" /\ "Glob" \in Globs
    BY <1>11 DEF Operator, Globs
  <2>. QED
    BY <1>10, <1>11, <2>1, <2>2 DEF trees
<1>12. CASE Kind(ts, i) = "Var" /\ kind = "NotTilde"
  <2>1. ParsePredicate(ts, i) = LeavesOver("NotGlob", ParseGlobPattern(ts, i + 2, name))
    BY <1>12 DEF ParsePredicate, Globbing, LeavesOver, Ranges
  <2>2. Operator(kind) = "NotGlob" /\ "NotGlob" \in Globs
    BY <1>12 DEF Operator, Globs
  <2>. QED
    BY <1>10, <1>12, <2>1, <2>2 DEF trees
<1>13. CASE /\ Kind(ts, i) = "Var" /\ kind \notin {"In", "Eq", "Neq", "Tilde", "NotTilde"} \cup Ranges
            /\ ~(kind = "Not" /\ Kind(ts, i + 2) = "In")
  <2>1. ParsePredicate(ts, i) = {}
    BY <1>13 DEF ParsePredicate
  <2>2. Operator(kind) \notin Ranges \cup Globs \cup {"Eq", "Neq"}
    BY <1>1, <1>13 DEF Operator, Globs, Ranges, TokenKinds
  <2>3. \A j \in 0..n : trees[j] = {}
    BY <1>2, <1>13, <2>2 DEF Predicates
  <2>. QED
    BY <2>1, <2>3, NoneAgree DEF trees
<1>. QED
  BY <1>3, <1>4, <1>5, <1>8, <1>9, <1>11, <1>12, <1>13

(***************************************************************************)
(* The loops of the connectives                                            *)
(***************************************************************************)

\* A result behind a connective and what is left of it.
Joined(s, kind, l) == [s EXCEPT !.q = [op |-> kind, left |-> l, right |-> @]]

\* A round of the loops.
Round(ts, kind, operand, r) ==
  IF Kind(ts, r.next) # kind THEN {r} ELSE {Joined(s, kind, r.q) : s \in operand[r.next + 1]}

\* f holds what the rounds up to m find.
IsRounds(f, m, ts, kind, operand, i) ==
  f = [n \in 0..m |-> IF n = 0 THEN operand[i] ELSE UNION {Round(ts, kind, operand, r) : r \in f[n - 1]}]

\* Every number of rounds can be made.
LEMMA RoundsExist ==
  ASSUME NEW ts, NEW kind, NEW operand, NEW i, NEW n \in Nat
  PROVE  \E f : IsRounds(f, n, ts, kind, operand, i)
<1>. DEFINE Is(m, f) == IsRounds(f, m, ts, kind, operand, i)
            Missing == {m \in 0..n : ~\E f : Is(m, f)}
<1>. SUFFICES ASSUME Missing # {} PROVE FALSE
  <2>1. n \in 0..n
    OBVIOUS
  <2>. QED
    BY <2>1
<1>1. PICK m \in Missing : m \in Nat /\ \A k \in Missing : m <= k
  <2>1. Missing \subseteq Nat
    OBVIOUS
  <2>. HIDE DEF Missing
  <2>. QED
    BY <2>1, Smallest
<1>2. m \in 0..n /\ ~\E f : Is(m, f)
  BY <1>1
<1>3. CASE m = 0
  <2>. DEFINE g == [k \in 0..0 |-> operand[i]]
  <2>1. \A k \in 0..0 : k = 0
    OBVIOUS
  <2>2. g = [k \in 0..0 |-> IF k = 0 THEN operand[i]
                            ELSE UNION {Round(ts, kind, operand, r) : r \in g[k - 1]}]
    BY <2>1, Zenon
  <2>3. Is(0, g)
    BY <2>2, Zenon DEF IsRounds
  <2>. QED
    BY <1>2, <1>3, <2>3
<1>4. CASE m # 0
  <2>1. m - 1 \in 0..n /\ ~(m <= m - 1)
    BY <1>2, <1>4
  <2>2. PICK f : Is(m - 1, f)
    BY <1>1, <2>1
  <2>. DEFINE step(h, k) == IF k = 0 THEN operand[i] ELSE UNION {Round(ts, kind, operand, r) : r \in h[k - 1]}
              g == [k \in 0..m |-> step(f, k)]
  <2>3. \A k \in 0..(m - 1) : f[k] = step(f, k)
    BY <2>2, Zenon DEF IsRounds
  <2>4. \A k \in 0..m : k # 0 => k - 1 \in 0..(m - 1) /\ k - 1 \in 0..m
    BY <1>1
  <2>5. \A k \in 0..(m - 1) : k \in 0..m
    BY <1>1
  <2>6. \A k \in 0..(m - 1) : g[k] = f[k]
    <3>. TAKE k \in 0..(m - 1)
    <3>1. g[k] = step(f, k)
      BY <2>5, Zenon
    <3>. QED
      BY <2>3, <3>1
  <2>7. \A k \in 0..m : step(g, k) = step(f, k)
    <3>. TAKE k \in 0..m
    <3>1. k # 0 => g[k - 1] = f[k - 1]
      BY <2>4, <2>6
    <3>. HIDE DEF g
    <3>. QED
      BY <3>1, Zenon
  <2>8. g = [k \in 0..m |-> step(g, k)]
    BY <2>7, Zenon
  <2>9. Is(m, g)
    <3>. HIDE DEF g
    <3>. QED
      BY <2>8, Zenon DEF IsRounds
  <2>. QED
    BY <1>2, <2>9
<1>. QED
  BY <1>3, <1>4

\* f makes the rounds of a loop.
Loops(f, ts, kind, operand, i) ==
  /\ f[0] = operand[i]
  /\ \A n \in 1..Len(ts) : f[n] = UNION {Round(ts, kind, operand, r) : r \in f[n - 1]}

\* What the loops find is what their last round finds.
LEMMA LoopUnfolds ==
  ASSUME NEW ts, Len(ts) \in Nat, NEW kind, NEW operand, NEW i
  PROVE  \E f : Loops(f, ts, kind, operand, i) /\ Loop(ts, kind, operand, i) = f[Len(ts)]
<1>. DEFINE step(f, n) == IF n = 0 THEN operand[i] ELSE UNION {Round(ts, kind, operand, r) : r \in f[n - 1]}
            f == CHOOSE g : IsRounds(g, Len(ts), ts, kind, operand, i)
<1>1. Loop(ts, kind, operand, i) = f[Len(ts)]
  BY Zenon DEF Loop, IsRounds, Round, Joined
<1>2. \E g : IsRounds(g, Len(ts), ts, kind, operand, i)
  BY RoundsExist
<1>3. IsRounds(f, Len(ts), ts, kind, operand, i)
  BY <1>2, Zenon
<1>. HIDE DEF f
<1>4. f = [n \in 0..Len(ts) |-> step(f, n)]
  BY <1>3, Zenon DEF IsRounds
<1>5. \A n \in 0..Len(ts) : f[n] = step(f, n)
  <2>. HIDE DEF step
  <2>. QED
    BY <1>4, Zenon
<1>6. 0 \in 0..Len(ts)
  OBVIOUS
<1>7. f[0] = operand[i]
  BY <1>5, <1>6, Zenon
<1>8. ASSUME NEW n \in 1..Len(ts) PROVE f[n] = UNION {Round(ts, kind, operand, r) : r \in f[n - 1]}
  <2>1. n \in 0..Len(ts) /\ n # 0
    OBVIOUS
  <2>. QED
    BY <1>5, <2>1, Zenon
<1>. QED
  BY <1>1, <1>7, <1>8, Zenon DEF Loops

\* The trees follow the rules of the grammar.
FollowsRules(ts, trees) ==
  \A rule \in {"Or", "And", "Term"}, i \in 1..Len(ts) + 1, j \in 0..Len(ts) :
    trees[<<rule, i, j>>] = DerivedBy(ts, trees, rule, i, j)

\* The results from i on are trees of a rule, and those that end within E are
\* all there.
OnlyTrees(ts, results, i, rule, trees) ==
  \A r \in results : \E j \in 0..Len(ts) : i <= j /\ \E q \in trees[<<rule, i, j>>] : r = Result(q, j)
AllTrees(ts, results, i, rule, trees, E) ==
  \A j \in E : \A q \in trees[<<rule, i, j>>] : Result(q, j) \in results

\* A split is at a connective.
SplitAt(trees, rule, i, j, k) ==
  [op : {rule}, left : trees[<<rule, i, k - 1>>], right : trees[<<Joins(rule), k + 1, j>>]]

LEMMA RuleIs ==
  ASSUME NEW ts, NEW trees, FollowsRules(ts, trees), NEW rule \in {"Or", "And"},
         NEW i \in 1..Len(ts) + 1, NEW j \in 0..Len(ts)
  PROVE  trees[<<rule, i, j>>] = trees[<<Joins(rule), i, j>>] \cup Splits(ts, trees, rule, i, j)
<1>1. trees[<<rule, i, j>>] = DerivedBy(ts, trees, rule, i, j)
  BY DEF FollowsRules
<1>2. rule # "Term"
  OBVIOUS
<1>. QED
  BY <1>1, <1>2, Zenon DEF DerivedBy

\* A round that goes on extends a tree by a connective and an operand.
LEMMA RoundIs ==
  ASSUME NEW kind, NEW l, NEW j, NEW r, NEW e
  PROVE  /\ Result(l, j).next = j + 1 /\ Result(l, j).q = l
         /\ Joined(Result(r, e), kind, l) = Result([op |-> kind, left |-> l, right |-> r], e)
BY DEF Result, Joined

\* What a loop finds are trees of its rule.
LEMMA LoopFindsTrees ==
  ASSUME NEW ts, Len(ts) \in Nat, DOMAIN ts = 1..Len(ts), NEW kind \in {"Or", "And"},
         NEW i \in 1..Len(ts) + 1, NEW trees, FollowsRules(ts, trees), NEW operand,
         \A p \in Ahead(ts, i) : OnlyTrees(ts, operand[p], p, Joins(kind), trees)
  PROVE  /\ OnlyTrees(ts, Loop(ts, kind, operand, i), i, kind, trees)
         /\ Loop(ts, kind, operand, i) # {} => operand[i] # {}
<1>. DEFINE L == Len(ts)
            Right(results) == /\ OnlyTrees(ts, results, i, kind, trees)
                              /\ results # {} => operand[i] # {}
<1>9. PICK f : Loops(f, ts, kind, operand, i) /\ Loop(ts, kind, operand, i) = f[L]
  BY LoopUnfolds, ZenonT(60)
<1>0. /\ f[0] = operand[i]
      /\ \A n \in 1..L : f[n] = UNION {Round(ts, kind, operand, r) : r \in f[n - 1]}
      /\ Loop(ts, kind, operand, i) = f[L]
  BY <1>9, Zenon DEF Loops
<1>. DEFINE Wrong == {n \in 0..L : ~Right(f[n])}
<1>1. Wrong = {}
  <2>. SUFFICES ASSUME Wrong # {} PROVE FALSE
    OBVIOUS
  <2>1. PICK m \in Wrong : m \in Nat /\ \A k \in Wrong : m <= k
    <3>1. Wrong \subseteq Nat
      OBVIOUS
    <3>. HIDE DEF Wrong
    <3>. QED
      BY <3>1, Smallest
  <2>2. m \in 0..L /\ ~Right(f[m])
    BY <2>1
  <2>3. CASE m = 0
    <3>1. i \in Ahead(ts, i) /\ i \in Nat
      BY DEF Ahead
    <3>2. \A j \in 0..L : trees[<<Joins(kind), i, j>>] \subseteq trees[<<kind, i, j>>]
      BY RuleIs
    <3>3. OnlyTrees(ts, f[0], i, Joins(kind), trees)
      BY <1>0, <3>1
    <3>4. OnlyTrees(ts, f[0], i, kind, trees)
      BY <3>2, <3>3 DEF OnlyTrees
    <3>. QED
      BY <1>0, <2>2, <2>3, <3>4
  <2>4. CASE m # 0
    <3>1. m \in 1..L /\ m - 1 \in 0..L /\ ~(m <= m - 1)
      BY <2>2, <2>4
    <3>2. Right(f[m - 1])
      BY <2>1, <3>1
    <3>3. f[m] = UNION {Round(ts, kind, operand, r) : r \in f[m - 1]}
      BY <1>0, <3>1
    <3>4. ASSUME NEW s \in f[m]
          PROVE  \E j \in 0..L : i <= j /\ \E q \in trees[<<kind, i, j>>] : s = Result(q, j)
      <4>1. PICK r \in f[m - 1] : s \in Round(ts, kind, operand, r)
        BY <3>3
      <4>2. PICK j \in 0..L : i <= j /\ \E q \in trees[<<kind, i, j>>] : r = Result(q, j)
        BY <3>2, <4>1 DEF OnlyTrees
      <4>3. PICK l \in trees[<<kind, i, j>>] : r = Result(l, j)
        BY <4>2
      <4>4. r.next = j + 1 /\ r.q = l
        BY <4>3, RoundIs
      <4>5. CASE Kind(ts, j + 1) # kind
        <5>1. s = r
          BY <4>1, <4>4, <4>5 DEF Round
        <5>. QED
          BY <4>2, <5>1
      <4>6. CASE Kind(ts, j + 1) = kind
        <5>1. j + 1 \in 1..L
          BY <4>6 DEF Kind
        <5>2. j + 2 \in Ahead(ts, i) /\ j + 1 + 1 = j + 2
          BY <4>2, <5>1 DEF Ahead
        <5>3. PICK t \in operand[j + 2] : s = Joined(t, kind, l)
          BY <4>1, <4>4, <4>6, <5>2 DEF Round
        <5>4. PICK e \in 0..L : j + 2 <= e /\ \E q \in trees[<<Joins(kind), j + 2, e>>] : t = Result(q, e)
          BY <5>2, <5>3 DEF OnlyTrees
        <5>5. PICK x \in trees[<<Joins(kind), j + 2, e>>] : t = Result(x, e)
          BY <5>4
        <5>. DEFINE q == [op |-> kind, left |-> l, right |-> x]
        <5>6. s = Result(q, e)
          <6>1. Joined(Result(x, e), kind, l) = Result(q, e)
            BY DEF Result, Joined
          <6>. QED
            BY <5>3, <5>5, <6>1
        <5>7. q \in trees[<<kind, i, e>>]
          <6>1. j + 1 \in {k \in i + 1..e - 1 : Kind(ts, k) = kind}
            BY <4>2, <4>6, <5>4
          <6>2. j = j + 1 - 1 /\ j + 2 = j + 1 + 1
            OBVIOUS
          <6>3. l \in trees[<<kind, i, j + 1 - 1>>] /\ x \in trees[<<Joins(kind), j + 1 + 1, e>>]
            BY <4>3, <5>5, <6>2
          <6>4. q \in SplitAt(trees, kind, i, e, j + 1)
            BY <6>3 DEF SplitAt
          <6>. HIDE DEF q
          <6>5. q \in Splits(ts, trees, kind, i, e)
            BY <6>1, <6>4 DEF Splits, SplitAt
          <6>6. trees[<<kind, i, e>>] = trees[<<Joins(kind), i, e>>] \cup Splits(ts, trees, kind, i, e)
            BY RuleIs
          <6>. QED
            BY <6>5, <6>6
        <5>8. i <= e
          BY <4>2, <5>4
        <5>. HIDE DEF q
        <5>. QED
          BY <5>6, <5>7, <5>8
      <4>. QED
        BY <4>5, <4>6
    <3>5. f[m] # {} => operand[i] # {}
      BY <3>2, <3>3
    <3>. QED
      BY <2>2, <3>4, <3>5 DEF OnlyTrees
  <2>. QED
    BY <2>3, <2>4
<1>2. L \in 0..L
  OBVIOUS
<1>3. Right(f[L])
  BY <1>1, <1>2
<1>. QED
  BY <1>0, <1>3

\* A loop finds every tree of its rule that it can end behind.
LEMMA LoopFindsAll ==
  ASSUME NEW ts, Len(ts) \in Nat, DOMAIN ts = 1..Len(ts), NEW kind \in {"Or", "And"},
         NEW i \in 1..Len(ts) + 1, NEW trees, FollowsRules(ts, trees), NEW operand,
         NEW E, E \subseteq 0..Len(ts), \A j \in 0..Len(ts) : Kind(ts, j + 1) = kind => j \in E,
         \A p \in Ahead(ts, i) : AllTrees(ts, operand[p], p, Joins(kind), trees, E)
  PROVE  AllTrees(ts, Loop(ts, kind, operand, i), i, kind, trees, {j \in E : Kind(ts, j + 1) # kind})
<1>. DEFINE L == Len(ts)
<1>9. PICK f : Loops(f, ts, kind, operand, i) /\ Loop(ts, kind, operand, i) = f[L]
  BY LoopUnfolds, Zenon
<1>0. /\ f[0] = operand[i]
      /\ \A n \in 1..L : f[n] = UNION {Round(ts, kind, operand, r) : r \in f[n - 1]}
      /\ Loop(ts, kind, operand, i) = f[L]
  BY <1>9, Zenon DEF Loops
<1>. DEFINE Reached(j) == \A q \in trees[<<kind, i, j>>] : \E n \in 0..j : Result(q, j) \in f[n]
            Wrong == {j \in E : ~Reached(j)}
<1>1. Wrong = {}
  <2>. SUFFICES ASSUME Wrong # {} PROVE FALSE
    OBVIOUS
  <2>1. PICK j \in Wrong : j \in Nat /\ \A k \in Wrong : j <= k
    <3>1. Wrong \subseteq Nat
      <4>1. \A e \in E : e \in Nat
        OBVIOUS
      <4>. HIDE DEF Reached
      <4>. QED
        BY <4>1
    <3>. HIDE DEF Wrong
    <3>. QED
      BY <3>1, Smallest
  <2>2. j \in E /\ j \in 0..L /\ j \in Nat /\ L \in Nat /\ i \in Nat
    BY <2>1
  <2>3. PICK q \in trees[<<kind, i, j>>] : ~\E n \in 0..j : Result(q, j) \in f[n]
    BY <2>1
  <2>4. q \notin trees[<<Joins(kind), i, j>>]
    <3>1. i \in Ahead(ts, i) /\ 0 \in 0..j
      BY <2>2 DEF Ahead
    <3>. QED
      BY <1>0, <2>2, <2>3, <3>1 DEF AllTrees
  <2>5. q \in Splits(ts, trees, kind, i, j)
    BY <2>2, <2>3, <2>4, RuleIs
  <2>6. PICK k \in {m \in i + 1..j - 1 : Kind(ts, m) = kind} : q \in SplitAt(trees, kind, i, j, k)
    BY <2>5 DEF Splits, SplitAt
  <2>7. PICK l \in trees[<<kind, i, k - 1>>], r \in trees[<<Joins(kind), k + 1, j>>] :
          q = [op |-> kind, left |-> l, right |-> r]
    BY <2>6 DEF SplitAt
  <2>8. /\ k \in Nat /\ i < k /\ k < j /\ Kind(ts, k) = kind
        /\ k - 1 \in 0..L /\ k - 1 + 1 = k /\ k + 1 \in Ahead(ts, i)
    BY <2>2, <2>6 DEF Ahead
  <2>9. k - 1 \in E
    BY <2>8
  <2>10. Reached(k - 1)
    BY <2>1, <2>2, <2>8, <2>9
  <2>11. PICK n \in 0..(k - 1) : Result(l, k - 1) \in f[n]
    BY <2>7, <2>10
  <2>12. n + 1 \in 1..L /\ n + 1 \in 0..j /\ n + 1 - 1 = n
    BY <2>2, <2>8
  <2>13. Result(r, j) \in operand[k + 1]
    BY <2>2, <2>7, <2>8 DEF AllTrees
  <2>14. Result(q, j) \in Round(ts, kind, operand, Result(l, k - 1))
    <3>. DEFINE a == Result(l, k - 1)
    <3>1. a.next = k /\ a.q = l
      BY <2>8, RoundIs
    <3>. HIDE DEF a
    <3>2. Round(ts, kind, operand, a) = {Joined(s, kind, l) : s \in operand[k + 1]}
      BY <2>8, <3>1 DEF Round
    <3>3. Result(q, j) = Joined(Result(r, j), kind, l)
      BY <2>7 DEF Result, Joined
    <3>. QED
      BY <2>13, <3>2, <3>3 DEF a
  <2>15. Result(q, j) \in f[n + 1]
    BY <1>0, <2>11, <2>12, <2>14
  <2>. QED
    BY <2>3, <2>12, <2>15
<1>2. ASSUME NEW j \in E, Kind(ts, j + 1) # kind, NEW q \in trees[<<kind, i, j>>]
      PROVE  Result(q, j) \in f[L]
  <2>0. j \in 0..L
    OBVIOUS
  <2>1. PICK n \in 0..j : Result(q, j) \in f[n]
    BY <1>1, <1>2
  <2>. DEFINE Lost == {m \in n..L : Result(q, j) \notin f[m]}
  <2>2. Lost = {}
    <3>. SUFFICES ASSUME Lost # {} PROVE FALSE
      OBVIOUS
    <3>1. PICK m \in Lost : m \in Nat /\ \A k \in Lost : m <= k
      <4>1. Lost \subseteq Nat
        OBVIOUS
      <4>. HIDE DEF Lost
      <4>. QED
        BY <4>1, Smallest
    <3>2. m # n /\ m \in n..L
      BY <2>1, <3>1
    <3>3. m \in 1..L /\ m - 1 \in n..L /\ ~(m <= m - 1)
      BY <2>0, <3>2
    <3>4. Result(q, j) \in f[m - 1]
      BY <3>1, <3>3
    <3>5. Result(q, j) \in Round(ts, kind, operand, Result(q, j))
      <4>1. Result(q, j).next = j + 1
        BY RoundIs
      <4>. QED
        BY <1>2, <4>1 DEF Round
    <3>6. Result(q, j) \in f[m]
      BY <1>0, <3>3, <3>4, <3>5
    <3>. QED
      BY <3>1, <3>6
  <2>3. L \in n..L
    BY <2>0
  <2>. QED
    BY <2>2, <2>3
<1>. QED
  BY <1>0, <1>2 DEF AllTrees

(***************************************************************************)
(* The recursion over positions, and the one over spans                    *)
(***************************************************************************)

\* f and g are the same from i on.
SameFrom(ts, f, g, i) == \A j \in Ahead(ts, i) : f[j] = g[j]

\* A term reads the groups behind its first token only.
LEMMA TermLocal ==
  ASSUME NEW ts, Len(ts) \in Nat, DOMAIN ts = 1..Len(ts), NEW f, NEW g, NEW i \in 1..Len(ts) + 1,
         SameFrom(ts, f, g, i + 1)
  PROVE  ParseTerm(ts, f, i) = ParseTerm(ts, g, i)
<1>1. CASE Kind(ts, i) = "LParen"
  <2>1. i \in 1..Len(ts)
    BY <1>1 DEF Kind
  <2>2. i + 1 \in Ahead(ts, i + 1)
    BY <2>1 DEF Ahead
  <2>3. f[i + 1] = g[i + 1]
    BY <2>2 DEF SameFrom
  <2>. QED
    BY <1>1, <2>3, Zenon DEF ParseTerm
<1>2. CASE Kind(ts, i) = "Not"
  <2>1. Kind(ts, i + 1) = "LParen" => f[i + 2] = g[i + 2]
    <3>. SUFFICES ASSUME Kind(ts, i + 1) = "LParen" PROVE f[i + 2] = g[i + 2]
      OBVIOUS
    <3>1. i + 1 \in 1..Len(ts)
      BY DEF Kind
    <3>2. i + 2 \in Ahead(ts, i + 1)
      BY <3>1 DEF Ahead
    <3>. QED
      BY <3>2 DEF SameFrom
  <2>2. (IF Kind(ts, i + 1) = "LParen" THEN Closed(ts, f[i + 2]) ELSE {})
          = IF Kind(ts, i + 1) = "LParen" THEN Closed(ts, g[i + 2]) ELSE {}
    BY <2>1, Zenon
  <2>3. Kind(ts, i) # "LParen"
    BY <1>2
  <2>4. ASSUME NEW h
        PROVE  ParseTerm(ts, h, i) = {[r EXCEPT !.q = Not(@)] :
                 r \in IF Kind(ts, i + 1) = "LParen" THEN Closed(ts, h[i + 2]) ELSE {}}
    BY <1>2, <2>3, Zenon DEF ParseTerm
  <2>. QED
    BY <2>2, <2>4, Zenon
<1>3. CASE Kind(ts, i) \notin {"LParen", "Not"}
  BY <1>3, Zenon DEF ParseTerm
<1>. QED
  BY <1>1, <1>2, <1>3

\* So do the conjunctions and alternations.
LEMMA OrLocal ==
  ASSUME NEW ts, Len(ts) \in Nat, DOMAIN ts = 1..Len(ts), NEW f, NEW g, NEW i \in 1..Len(ts) + 1,
         SameFrom(ts, f, g, i + 1)
  PROVE  ParseOr(ts, f, i) = ParseOr(ts, g, i)
<1>1. \A j \in Ahead(ts, i) : j \in 1..Len(ts) + 1 /\ Ahead(ts, j) \subseteq Ahead(ts, i)
        /\ SameFrom(ts, f, g, j + 1)
  <2>. TAKE j \in Ahead(ts, i)
  <2>1. j \in 1..Len(ts) + 1 /\ i <= j /\ Ahead(ts, j) \subseteq Ahead(ts, i)
    BY DEF Ahead
  <2>2. Ahead(ts, j + 1) \subseteq Ahead(ts, i + 1)
    BY <2>1 DEF Ahead
  <2>. QED
    BY <2>1, <2>2 DEF SameFrom
<1>2. \A j \in Ahead(ts, i) : ParseTerm(ts, f, j) = ParseTerm(ts, g, j)
  BY <1>1, TermLocal
<1>3. \A j \in Ahead(ts, i) : ParseAnd(ts, f, j) = ParseAnd(ts, g, j)
  <2>. TAKE j \in Ahead(ts, i)
  <2>1. \A k \in Ahead(ts, j) : ParseTerm(ts, f, k) = ParseTerm(ts, g, k)
    BY <1>1, <1>2
  <2>2. [k \in Ahead(ts, j) |-> ParseTerm(ts, f, k)] = [k \in Ahead(ts, j) |-> ParseTerm(ts, g, k)]
    BY <2>1, Zenon
  <2>. QED
    BY <2>2, Zenon DEF ParseAnd
<1>4. [j \in Ahead(ts, i) |-> ParseAnd(ts, f, j)] = [j \in Ahead(ts, i) |-> ParseAnd(ts, g, j)]
  BY <1>3, Zenon
<1>. QED
  BY <1>4, Zenon DEF ParseOr

\* f holds the groups of the positions from i on.
IsGroups(ts, f, i) == f = [j \in Ahead(ts, i) |-> ParseOr(ts, f, j)]

\* Groups is what its recursive definition says.
LEMMA GroupsUnfold ==
  ASSUME NEW ts, Len(ts) \in Nat, DOMAIN ts = 1..Len(ts)
  PROVE  \A i \in 1..Len(ts) + 1 : Groups(ts)[i] = ParseOr(ts, Groups(ts), i)
<1>. DEFINE L == Len(ts)
            Missing == {m \in 0..L : ~\E f : IsGroups(ts, f, L + 1 - m)}
<1>1. Missing = {}
  <2>. SUFFICES ASSUME Missing # {} PROVE FALSE
    OBVIOUS
  <2>1. PICK m \in Missing : m \in Nat /\ \A k \in Missing : m <= k
    <3>1. Missing \subseteq Nat
      OBVIOUS
    <3>. HIDE DEF Missing
    <3>. QED
      BY <3>1, Smallest
  <2>. DEFINE i == L + 1 - m
  <2>2. m \in 0..L /\ ~\E f : IsGroups(ts, f, i)
    BY <2>1
  <2>3. PICK f : m # 0 => IsGroups(ts, f, i + 1)
    <3>1. CASE m = 0
      BY <3>1
    <3>2. CASE m # 0
      <4>1. m - 1 \in 0..L /\ ~(m <= m - 1) /\ L + 1 - (m - 1) = i + 1
        BY <2>2, <3>2
      <4>2. m - 1 \notin Missing
        BY <2>1, <4>1
      <4>3. \E f : IsGroups(ts, f, L + 1 - (m - 1))
        BY <4>1, <4>2
      <4>. HIDE DEF i
      <4>. QED
        BY <4>1, <4>3
    <3>. QED
      BY <3>1, <3>2
  <2>4. i \in 1..L + 1 /\ Ahead(ts, i + 1) \subseteq Ahead(ts, i) /\ (m = 0 => Ahead(ts, i + 1) = {})
    BY <2>2 DEF Ahead
  <2>5. \A j \in Ahead(ts, i) : j \in 1..L + 1 /\ Ahead(ts, j + 1) \subseteq Ahead(ts, i + 1)
    BY <2>4 DEF Ahead
  <2>. HIDE DEF i
  <2>. DEFINE g == [j \in Ahead(ts, i) |-> ParseOr(ts, f, j)]
  <2>6. SameFrom(ts, g, f, i + 1)
    <3>1. CASE m = 0
      BY <2>4, <3>1 DEF SameFrom
    <3>2. CASE m # 0
      <4>1. f = [j \in Ahead(ts, i + 1) |-> ParseOr(ts, f, j)]
        BY <2>3, <3>2, Zenon DEF IsGroups
      <4>2. ASSUME NEW j \in Ahead(ts, i + 1) PROVE g[j] = f[j]
        <5>1. f[j] = ParseOr(ts, f, j)
          BY <4>1, Zenon
        <5>2. j \in Ahead(ts, i)
          BY <2>4
        <5>. QED
          BY <5>1, <5>2, Zenon
      <4>. QED
        BY <4>2 DEF SameFrom
    <3>. QED
      BY <3>1, <3>2
  <2>7. \A j \in Ahead(ts, i) : ParseOr(ts, g, j) = ParseOr(ts, f, j)
    <3>. HIDE DEF g
    <3>. TAKE j \in Ahead(ts, i)
    <3>1. SameFrom(ts, g, f, j + 1)
      BY <2>5, <2>6 DEF SameFrom
    <3>. QED
      BY <2>5, <3>1, OrLocal
  <2>8. g = [j \in Ahead(ts, i) |-> ParseOr(ts, g, j)]
    BY <2>7, Zenon
  <2>9. IsGroups(ts, g, i)
    <3>. HIDE DEF g
    <3>. QED
      BY <2>8, Zenon DEF IsGroups
  <2>. QED
    BY <2>2, <2>9
<1>2. \E f : IsGroups(ts, f, 1)
  <2>1. L \in 0..L /\ L + 1 - L = 1
    OBVIOUS
  <2>. HIDE DEF L
  <2>2. \E f : IsGroups(ts, f, L + 1 - L)
    BY <1>1, <2>1
  <2>. QED
    BY <2>1, <2>2
<1>3. Groups(ts) = CHOOSE f : IsGroups(ts, f, 1)
  BY Zenon DEF Groups, IsGroups
<1>4. IsGroups(ts, Groups(ts), 1)
  BY <1>2, <1>3, Zenon
<1>5. Ahead(ts, 1) = 1..L + 1
  BY DEF Ahead
<1>. QED
  BY <1>4, <1>5, Zenon DEF IsGroups

\* How far the rules go from a span.
Precedence(rule) == IF rule = "Or" THEN 2 ELSE IF rule = "And" THEN 1 ELSE 0
Size(ts, rule, i, j) == 3 * (j + Len(ts) + 1 - i) + Precedence(rule)
Small(ts, m) == {s \in Spans(ts) : Size(ts, s[1], s[2], s[3]) < m}

LEMMA SpanIs ==
  ASSUME NEW ts, Len(ts) \in Nat, NEW rule \in {"Or", "And", "Term"},
         NEW i \in 1..Len(ts) + 1, NEW j \in 0..Len(ts)
  PROVE  /\ <<rule, i, j>> \in Spans(ts) /\ Size(ts, rule, i, j) \in Nat
         /\ Size(ts, rule, i, j) < 6 * Len(ts) + 4
         /\ \A m : <<rule, i, j>> \in Small(ts, m) <=> Size(ts, rule, i, j) < m
<1>1. <<rule, i, j>> \in Spans(ts)
  BY DEF Spans, Ahead
<1>2. Precedence(rule) \in 0..2
  BY DEF Precedence
<1>3. j + Len(ts) + 1 - i \in 0..2 * Len(ts)
  OBVIOUS
<1>4. Size(ts, rule, i, j) \in Nat /\ Size(ts, rule, i, j) < 6 * Len(ts) + 4
  <2>. DEFINE d == j + Len(ts) + 1 - i
  <2>. HIDE DEF d
  <2>. QED
    BY <1>2, <1>3 DEF Size, d
<1>. QED
  BY <1>1, <1>4 DEF Small

LEMMA SpansAre ==
  ASSUME NEW ts, NEW s \in Spans(ts)
  PROVE  \E rule \in {"Or", "And", "Term"}, i \in 1..Len(ts) + 1, j \in 0..Len(ts) : s = <<rule, i, j>>
BY DEF Spans, Ahead

\* The rules read smaller spans only.
LEMMA DerivedLocal ==
  ASSUME NEW ts, Len(ts) \in Nat, DOMAIN ts = 1..Len(ts), NEW f, NEW g,
         NEW rule \in {"Or", "And", "Term"}, NEW i \in 1..Len(ts) + 1, NEW j \in 0..Len(ts),
         \A s \in Small(ts, Size(ts, rule, i, j)) : f[s] = g[s]
  PROVE  DerivedBy(ts, f, rule, i, j) = DerivedBy(ts, g, rule, i, j)
<1>1. CASE rule = "Term"
  <2>1. Bracketed(ts, i, j) => f[<<"Or", i + 1, j - 1>>] = g[<<"Or", i + 1, j - 1>>]
    <3>. SUFFICES ASSUME Bracketed(ts, i, j) PROVE f[<<"Or", i + 1, j - 1>>] = g[<<"Or", i + 1, j - 1>>]
      OBVIOUS
    <3>1. i + 1 < j
      BY DEF Bracketed
    <3>2. i + 1 \in 1..Len(ts) + 1 /\ j - 1 \in 0..Len(ts)
      BY <3>1
    <3>3. Size(ts, "Or", i + 1, j - 1) < Size(ts, rule, i, j)
      BY <1>1, <3>2 DEF Size, Precedence
    <3>. QED
      BY <3>2, <3>3, SpanIs
  <2>2. Bracketed(ts, i + 1, j) => f[<<"Or", i + 2, j - 1>>] = g[<<"Or", i + 2, j - 1>>]
    <3>. SUFFICES ASSUME Bracketed(ts, i + 1, j) PROVE f[<<"Or", i + 2, j - 1>>] = g[<<"Or", i + 2, j - 1>>]
      OBVIOUS
    <3>1. i + 2 < j
      BY DEF Bracketed
    <3>2. i + 2 \in 1..Len(ts) + 1 /\ j - 1 \in 0..Len(ts)
      BY <3>1
    <3>3. Size(ts, "Or", i + 2, j - 1) < Size(ts, rule, i, j)
      BY <1>1, <3>2 DEF Size, Precedence
    <3>. QED
      BY <3>2, <3>3, SpanIs
  <2>3. (IF Bracketed(ts, i, j) THEN f[<<"Or", i + 1, j - 1>>] ELSE {})
          = IF Bracketed(ts, i, j) THEN g[<<"Or", i + 1, j - 1>>] ELSE {}
    BY <2>1, Zenon
  <2>4. (IF Kind(ts, i) = "Not" /\ Bracketed(ts, i + 1, j)
         THEN {Not(q) : q \in f[<<"Or", i + 2, j - 1>>]} ELSE {})
          = IF Kind(ts, i) = "Not" /\ Bracketed(ts, i + 1, j)
            THEN {Not(q) : q \in g[<<"Or", i + 2, j - 1>>]} ELSE {}
    BY <2>2, Zenon
  <2>. QED
    BY <1>1, <2>3, <2>4, Zenon DEF DerivedBy
<1>2. CASE rule # "Term"
  <2>1. /\ Joins(rule) \in {"And", "Term"} /\ Precedence(Joins(rule)) < Precedence(rule)
        /\ Precedence(rule) \in 1..2 /\ Precedence(Joins(rule)) \in 0..2
    BY <1>2 DEF Joins, Precedence
  <2>2. f[<<Joins(rule), i, j>>] = g[<<Joins(rule), i, j>>]
    <3>1. Size(ts, Joins(rule), i, j) < Size(ts, rule, i, j)
      BY <2>1 DEF Size
    <3>. QED
      BY <2>1, <3>1, SpanIs
  <2>3. ASSUME NEW k \in {m \in i + 1..j - 1 : Kind(ts, m) = rule}
        PROVE  /\ f[<<rule, i, k - 1>>] = g[<<rule, i, k - 1>>]
               /\ f[<<Joins(rule), k + 1, j>>] = g[<<Joins(rule), k + 1, j>>]
    <3>1. k \in Nat /\ i < k /\ k < j
      OBVIOUS
    <3>2. k - 1 \in 0..Len(ts) /\ k + 1 \in 1..Len(ts) + 1
      BY <3>1
    <3>3. /\ Size(ts, rule, i, k - 1) < Size(ts, rule, i, j)
          /\ Size(ts, Joins(rule), k + 1, j) < Size(ts, rule, i, j)
      BY <2>1, <3>1 DEF Size
    <3>4. rule \in {"Or", "And", "Term"} /\ Joins(rule) \in {"Or", "And", "Term"}
      BY <2>1
    <3>5. /\ <<rule, i, k - 1>> \in Small(ts, Size(ts, rule, i, j))
          /\ <<Joins(rule), k + 1, j>> \in Small(ts, Size(ts, rule, i, j))
      BY <3>2, <3>3, <3>4, SpanIs
    <3>. QED
      BY <3>5
  <2>4. Splits(ts, f, rule, i, j) = Splits(ts, g, rule, i, j)
    BY <2>3 DEF Splits
  <2>. QED
    BY <1>2, <2>2, <2>4, Zenon DEF DerivedBy
<1>. QED
  BY <1>1, <1>2

\* f holds the trees of the spans below a size.
IsDerived(ts, f, m) == f = [s \in Small(ts, m) |-> DerivedBy(ts, f, s[1], s[2], s[3])]

\* Derived is what its recursive definition says.
LEMMA DerivedUnfold ==
  ASSUME NEW ts, Len(ts) \in Nat, DOMAIN ts = 1..Len(ts)
  PROVE  FollowsRules(ts, Derived(ts))
<1>. DEFINE M == 6 * Len(ts) + 4
            Missing == {m \in 0..M : ~\E f : IsDerived(ts, f, m)}
<1>0. M \in Nat
  OBVIOUS
<1>1. Missing = {}
  <2>. SUFFICES ASSUME Missing # {} PROVE FALSE
    OBVIOUS
  <2>1. PICK m \in Missing : m \in Nat /\ \A k \in Missing : m <= k
    <3>1. Missing \subseteq Nat
      OBVIOUS
    <3>. HIDE DEF Missing
    <3>. QED
      BY <3>1, Smallest
  <2>2. m \in 0..M /\ ~\E f : IsDerived(ts, f, m)
    BY <2>1
  <2>3. PICK f : m # 0 => IsDerived(ts, f, m - 1)
    <3>1. CASE m = 0
      BY <3>1
    <3>2. CASE m # 0
      <4>1. m - 1 \in 0..M /\ ~(m <= m - 1)
        BY <1>0, <2>2, <3>2
      <4>2. m - 1 \notin Missing
        BY <2>1, <4>1
      <4>. QED
        BY <4>1, <4>2
    <3>. QED
      BY <3>1, <3>2
  <2>. DEFINE by(h, s) == DerivedBy(ts, h, s[1], s[2], s[3])
              g == [s \in Small(ts, m) |-> by(f, s)]
  <2>4. \A s \in Small(ts, m) : DerivedBy(ts, g, s[1], s[2], s[3]) = DerivedBy(ts, f, s[1], s[2], s[3])
    <3>. SUFFICES ASSUME NEW s \in Small(ts, m)
                  PROVE  DerivedBy(ts, g, s[1], s[2], s[3]) = DerivedBy(ts, f, s[1], s[2], s[3])
      BY Zenon
    <3>1. PICK rule \in {"Or", "And", "Term"}, i \in 1..Len(ts) + 1, j \in 0..Len(ts) : s = <<rule, i, j>>
      BY SpansAre DEF Small
    <3>2. Size(ts, rule, i, j) \in Nat /\ Size(ts, rule, i, j) < m
      BY <3>1, SpanIs
    <3>3. m # 0 /\ m - 1 \in Nat /\ Size(ts, rule, i, j) <= m - 1
      BY <2>1, <3>2
    <3>4. \A t \in Small(ts, Size(ts, rule, i, j)) : t \in Small(ts, m - 1) /\ t \in Small(ts, m)
      <4>. SUFFICES ASSUME NEW t \in Small(ts, Size(ts, rule, i, j))
                    PROVE  t \in Small(ts, m - 1) /\ t \in Small(ts, m)
        OBVIOUS
      <4>1. PICK r2 \in {"Or", "And", "Term"}, i2 \in 1..Len(ts) + 1, j2 \in 0..Len(ts) : t = <<r2, i2, j2>>
        BY SpansAre DEF Small
      <4>2. Size(ts, r2, i2, j2) \in Nat /\ Size(ts, r2, i2, j2) < Size(ts, rule, i, j)
        BY <4>1, SpanIs
      <4>3. Size(ts, r2, i2, j2) < m - 1 /\ Size(ts, r2, i2, j2) < m
        BY <2>1, <3>2, <3>3, <4>2
      <4>. QED
        BY <4>1, <4>3, SpanIs
    <3>5. f = [t \in Small(ts, m - 1) |-> by(f, t)]
      BY <2>3, <3>3, Zenon DEF IsDerived
    <3>6. \A t \in Small(ts, Size(ts, rule, i, j)) : g[t] = f[t]
      <4>. TAKE t \in Small(ts, Size(ts, rule, i, j))
      <4>. HIDE DEF by
      <4>1. f[t] = by(f, t)
        BY <3>4, <3>5, Zenon
      <4>2. g[t] = by(f, t)
        BY <3>4, Zenon
      <4>. QED
        BY <4>1, <4>2
    <3>. HIDE DEF g
    <3>7. DerivedBy(ts, g, rule, i, j) = DerivedBy(ts, f, rule, i, j)
      BY <3>6, DerivedLocal
    <3>8. s[1] = rule /\ s[2] = i /\ s[3] = j
      BY <3>1
    <3>. QED
      BY <3>7, <3>8
  <2>5. g = [s \in Small(ts, m) |-> DerivedBy(ts, g, s[1], s[2], s[3])]
    BY <2>4, Zenon
  <2>6. IsDerived(ts, g, m)
    <3>. HIDE DEF g
    <3>. QED
      BY <2>5, Zenon DEF IsDerived
  <2>. QED
    BY <2>2, <2>6
<1>2. Small(ts, M) = Spans(ts)
  <2>. HIDE DEF Missing
  <2>1. ASSUME NEW s \in Spans(ts) PROVE s \in Small(ts, M)
    <3>1. PICK rule \in {"Or", "And", "Term"}, i \in 1..Len(ts) + 1, j \in 0..Len(ts) : s = <<rule, i, j>>
      BY SpansAre
    <3>. QED
      BY <3>1, SpanIs
  <2>. QED
    BY <2>1 DEF Small
<1>3. \E f : IsDerived(ts, f, M)
  <2>1. M \in 0..M
    BY <1>0
  <2>. HIDE DEF M
  <2>. QED
    BY <1>1, <2>1
<1>. HIDE DEF M
<1>4. Derived(ts) = CHOOSE f : IsDerived(ts, f, M)
  BY <1>2, Zenon DEF Derived, IsDerived
<1>5. IsDerived(ts, Derived(ts), M)
  BY <1>3, <1>4, Zenon
<1>6. \A s \in Spans(ts) : Derived(ts)[s] = DerivedBy(ts, Derived(ts), s[1], s[2], s[3])
  BY <1>2, <1>5, Zenon DEF IsDerived
<1>7. ASSUME NEW rule \in {"Or", "And", "Term"}, NEW i \in 1..Len(ts) + 1, NEW j \in 0..Len(ts)
      PROVE  Derived(ts)[<<rule, i, j>>] = DerivedBy(ts, Derived(ts), rule, i, j)
  <2>. DEFINE s == <<rule, i, j>>
  <2>1. s \in Spans(ts) /\ s[1] = rule /\ s[2] = i /\ s[3] = j
    BY SpanIs
  <2>. HIDE DEF s
  <2>2. Derived(ts)[s] = DerivedBy(ts, Derived(ts), rule, i, j)
    BY <1>6, <2>1
  <2>. QED
    BY <2>2 DEF s
<1>. QED
  BY <1>7 DEF FollowsRules

(***************************************************************************)
(* Terms, groups and the whole                                             *)
(***************************************************************************)

\* Where an alternation can end: no connective follows.
Ends(ts) == {j \in 0..Len(ts) : Kind(ts, j + 1) \notin {"And", "Or"}}

\* parse_or finds the alternations from p on.
FindsGroups(ts, group, trees, p) ==
  /\ OnlyTrees(ts, group[p], p, "Or", trees)
  /\ AllTrees(ts, group[p], p, "Or", trees, Ends(ts))

\* What expect finds.
LEMMA ClosedIs ==
  ASSUME NEW ts, Len(ts) \in Nat, DOMAIN ts = 1..Len(ts), NEW results, NEW trees, NEW p \in 1..Len(ts) + 1,
         OnlyTrees(ts, results, p, "Or", trees), AllTrees(ts, results, p, "Or", trees, Ends(ts))
  PROVE  /\ \A r \in Closed(ts, results) : \E j \in 0..Len(ts) :
              /\ p < j /\ Kind(ts, j) = "RParen"
              /\ \E q \in trees[<<"Or", p, j - 1>>] : r = Result(q, j)
         /\ \A j \in 0..Len(ts) : p < j /\ Kind(ts, j) = "RParen" =>
              \A q \in trees[<<"Or", p, j - 1>>] : Result(q, j) \in Closed(ts, results)
<1>1. \A q, j : Result(q, j).next = j + 1 /\ [Result(q, j) EXCEPT !.next = @ + 1] = Result(q, j + 1)
  BY DEF Result
<1>2. Closed(ts, results) = {[r EXCEPT !.next = @ + 1] : r \in {s \in results : Kind(ts, s.next) = "RParen"}}
  BY Zenon DEF Closed
<1>3. ASSUME NEW r \in Closed(ts, results)
      PROVE  \E j \in 0..Len(ts) : /\ p < j /\ Kind(ts, j) = "RParen"
                                   /\ \E q \in trees[<<"Or", p, j - 1>>] : r = Result(q, j)
  <2>1. PICK s \in results : Kind(ts, s.next) = "RParen" /\ r = [s EXCEPT !.next = @ + 1]
    BY <1>2, <1>3
  <2>2. PICK e \in 0..Len(ts) : p <= e /\ \E q \in trees[<<"Or", p, e>>] : s = Result(q, e)
    BY DEF OnlyTrees
  <2>3. PICK q \in trees[<<"Or", p, e>>] : s = Result(q, e)
    BY <2>2
  <2>4. r = Result(q, e + 1) /\ Kind(ts, e + 1) = "RParen"
    BY <1>1, <2>1, <2>3
  <2>. DEFINE j == e + 1
  <2>5. j \in 0..Len(ts) /\ p < j /\ j - 1 = e
    BY <2>2, <2>4 DEF Kind
  <2>6. q \in trees[<<"Or", p, j - 1>>]
    BY <2>5
  <2>. HIDE DEF j
  <2>. QED
    BY <2>4, <2>5, <2>6 DEF j
<1>4. ASSUME NEW j \in 0..Len(ts), p < j, Kind(ts, j) = "RParen", NEW q \in trees[<<"Or", p, j - 1>>]
      PROVE  Result(q, j) \in Closed(ts, results)
  <2>1. j - 1 \in 0..Len(ts) /\ j - 1 + 1 = j
    BY <1>4
  <2>2. j - 1 \in Ends(ts)
    BY <1>4, <2>1 DEF Ends
  <2>3. Result(q, j - 1) \in results
    BY <2>2 DEF AllTrees
  <2>4. Result(q, j - 1).next = j /\ [Result(q, j - 1) EXCEPT !.next = @ + 1] = Result(q, j)
    BY <1>1, <2>1
  <2>. QED
    BY <1>2, <1>4, <2>3, <2>4
<1>. QED
  BY <1>3, <1>4

\* parse_term finds the terms.
LEMMA TermFinds ==
  ASSUME NEW ts, Legible(ts), NEW trees, FollowsRules(ts, trees), NEW group,
         NEW p \in 1..Len(ts) + 1, \A k \in Ahead(ts, p + 1) : FindsGroups(ts, group, trees, k)
  PROVE  /\ OnlyTrees(ts, ParseTerm(ts, group, p), p, "Term", trees)
         /\ AllTrees(ts, ParseTerm(ts, group, p), p, "Term", trees, 0..Len(ts))
<1>. DEFINE L == Len(ts)
            parse == ParseTerm(ts, group, p)
            term(j) == trees[<<"Term", p, j>>]
<1>0. L \in Nat /\ p \in Nat /\ DOMAIN ts = 1..L
  BY DEF Legible
<1>1. \A j \in 0..L : term(j) = Predicates(ts, p, j)
         \cup (IF Bracketed(ts, p, j) THEN trees[<<"Or", p + 1, j - 1>>] ELSE {})
         \cup (IF Kind(ts, p) = "Not" /\ Bracketed(ts, p + 1, j)
               THEN {Not(q) : q \in trees[<<"Or", p + 2, j - 1>>]} ELSE {})
  <2>. TAKE j \in 0..L
  <2>1. term(j) = DerivedBy(ts, trees, "Term", p, j)
    BY DEF FollowsRules
  <2>. QED
    BY <2>1, Zenon DEF DerivedBy
<1>2. SUFFICES /\ \A r \in parse : \E j \in 0..L : p <= j /\ \E q \in term(j) : r = Result(q, j)
               /\ \A j \in 0..L : \A q \in term(j) : Result(q, j) \in parse
  BY DEF OnlyTrees, AllTrees
<1>3. CASE Kind(ts, p) = "LParen"
  <2>1. p + 1 \in Ahead(ts, p + 1) /\ p + 1 \in 1..L + 1
    BY <1>0, <1>3 DEF Kind, Ahead
  <2>2. parse = Closed(ts, group[p + 1])
    BY <1>3, Zenon DEF ParseTerm
  <2>3. \A j \in 0..L : term(j) = IF p + 1 < j /\ Kind(ts, j) = "RParen"
                                  THEN trees[<<"Or", p + 1, j - 1>>] ELSE {}
    <3>. TAKE j \in 0..L
    <3>1. Predicates(ts, p, j) = {}
      BY <1>3 DEF Predicates
    <3>2. Kind(ts, p) # "Not" /\ (Bracketed(ts, p, j) <=> p + 1 < j /\ Kind(ts, j) = "RParen")
      BY <1>3 DEF Bracketed
    <3>3. term(j) = Predicates(ts, p, j)
            \cup (IF Bracketed(ts, p, j) THEN trees[<<"Or", p + 1, j - 1>>] ELSE {})
            \cup (IF Kind(ts, p) = "Not" /\ Bracketed(ts, p + 1, j)
                  THEN {Not(q) : q \in trees[<<"Or", p + 2, j - 1>>]} ELSE {})
      BY <1>1
    <3>. HIDE DEF term
    <3>. QED
      BY <3>1, <3>2, <3>3
  <2>4. /\ \A r \in Closed(ts, group[p + 1]) : \E j \in 0..L :
              /\ p + 1 < j /\ Kind(ts, j) = "RParen"
              /\ \E q \in trees[<<"Or", p + 1, j - 1>>] : r = Result(q, j)
        /\ \A j \in 0..L : p + 1 < j /\ Kind(ts, j) = "RParen" =>
              \A q \in trees[<<"Or", p + 1, j - 1>>] : Result(q, j) \in Closed(ts, group[p + 1])
    <3>1. FindsGroups(ts, group, trees, p + 1)
      BY <2>1
    <3>2. /\ OnlyTrees(ts, group[p + 1], p + 1, "Or", trees)
          /\ AllTrees(ts, group[p + 1], p + 1, "Or", trees, Ends(ts))
      BY <3>1 DEF FindsGroups
    <3>. QED
      BY <1>0, <2>1, <3>2, ClosedIs
  <2>5. \A j \in 0..L : p + 1 < j => p <= j
    BY <1>0
  <2>. HIDE DEF parse, term, L
  <2>. QED
    BY <2>2, <2>3, <2>4, <2>5
<1>4. CASE Kind(ts, p) = "Not"
  <2>. DEFINE closed == IF Kind(ts, p + 1) = "LParen" THEN Closed(ts, group[p + 2]) ELSE {}
              inner(j) == IF p + 2 < j /\ Kind(ts, p + 1) = "LParen" /\ Kind(ts, j) = "RParen"
                          THEN trees[<<"Or", p + 2, j - 1>>] ELSE {}
  <2>1. parse = {[r EXCEPT !.q = Not(@)] : r \in closed}
    <3>1. Kind(ts, p) # "LParen"
      BY <1>4
    <3>. QED
      BY <1>4, <3>1, Zenon DEF ParseTerm
  <2>2. \A j \in 0..L : term(j) = {Not(q) : q \in inner(j)}
    <3>. TAKE j \in 0..L
    <3>1. Predicates(ts, p, j) = {}
      BY <1>4 DEF Predicates
    <3>2. ~Bracketed(ts, p, j)
      BY <1>4 DEF Bracketed
    <3>3. Bracketed(ts, p + 1, j) <=> p + 2 < j /\ Kind(ts, p + 1) = "LParen" /\ Kind(ts, j) = "RParen"
      BY <1>0 DEF Bracketed
    <3>4. term(j) = Predicates(ts, p, j)
            \cup (IF Bracketed(ts, p, j) THEN trees[<<"Or", p + 1, j - 1>>] ELSE {})
            \cup (IF Kind(ts, p) = "Not" /\ Bracketed(ts, p + 1, j)
                  THEN {Not(q) : q \in trees[<<"Or", p + 2, j - 1>>]} ELSE {})
      BY <1>1
    <3>. HIDE DEF term
    <3>. QED
      BY <1>4, <3>1, <3>2, <3>3, <3>4
  <2>3. /\ \A r \in closed : \E j \in 0..L : p + 2 < j /\ \E q \in inner(j) : r = Result(q, j)
        /\ \A j \in 0..L : \A q \in inner(j) : Result(q, j) \in closed
    <3>1. CASE Kind(ts, p + 1) = "LParen"
      <4>1. p + 2 \in Ahead(ts, p + 1) /\ p + 2 \in 1..L + 1
        BY <1>0, <3>1 DEF Kind, Ahead
      <4>2. FindsGroups(ts, group, trees, p + 2)
        BY <4>1
      <4>3. /\ OnlyTrees(ts, group[p + 2], p + 2, "Or", trees)
            /\ AllTrees(ts, group[p + 2], p + 2, "Or", trees, Ends(ts))
        BY <4>2 DEF FindsGroups
      <4>4. /\ \A r \in Closed(ts, group[p + 2]) : \E j \in 0..L :
                  /\ p + 2 < j /\ Kind(ts, j) = "RParen"
                  /\ \E q \in trees[<<"Or", p + 2, j - 1>>] : r = Result(q, j)
            /\ \A j \in 0..L : p + 2 < j /\ Kind(ts, j) = "RParen" =>
                  \A q \in trees[<<"Or", p + 2, j - 1>>] : Result(q, j) \in Closed(ts, group[p + 2])
        BY <1>0, <4>1, <4>3, ClosedIs
      <4>. QED
        BY <3>1, <4>4
    <3>2. CASE Kind(ts, p + 1) # "LParen"
      BY <3>2
    <3>. QED
      BY <3>1, <3>2
  <2>4. \A q, j : [Result(q, j) EXCEPT !.q = Not(@)] = Result(Not(q), j)
    BY DEF Result
  <2>5. \A j \in 0..L : p + 2 < j => p <= j
    BY <1>0
  <2>. DEFINE negated(r) == [r EXCEPT !.q = Not(@)]
  <2>6. parse = {negated(r) : r \in closed} /\ \A q, j : negated(Result(q, j)) = Result(Not(q), j)
    BY <2>1, <2>4
  <2>. HIDE DEF parse, term, L, closed, inner, negated
  <2>7. ASSUME NEW r \in parse PROVE \E j \in 0..L : p <= j /\ \E q \in term(j) : r = Result(q, j)
    <3>1. PICK s \in closed : r = negated(s)
      BY <2>6
    <3>2. PICK j \in 0..L : p + 2 < j /\ \E q \in inner(j) : s = Result(q, j)
      BY <2>3
    <3>3. PICK q \in inner(j) : s = Result(q, j)
      BY <3>2
    <3>4. r = Result(Not(q), j) /\ Not(q) \in term(j)
      BY <2>2, <2>6, <3>1, <3>3
    <3>. QED
      BY <2>5, <3>2, <3>4
  <2>8. ASSUME NEW j \in 0..L, NEW q \in term(j) PROVE Result(q, j) \in parse
    <3>1. PICK x \in inner(j) : q = Not(x)
      BY <2>2
    <3>2. Result(x, j) \in closed
      BY <2>3
    <3>3. Result(q, j) = negated(Result(x, j))
      BY <2>6, <3>1
    <3>. QED
      BY <2>6, <3>2, <3>3
  <2>. QED
    BY <2>7, <2>8
<1>5. CASE Kind(ts, p) \notin {"LParen", "Not"}
  <2>1. parse = ParsePredicate(ts, p)
    BY <1>5, Zenon DEF ParseTerm
  <2>2. \A j \in 0..L : term(j) = PredicatesFrom(ts, p)[j]
    <3>. TAKE j \in 0..L
    <3>1. ~Bracketed(ts, p, j) /\ Kind(ts, p) # "Not"
      BY <1>5 DEF Bracketed
    <3>2. term(j) = Predicates(ts, p, j)
      BY <1>1, <3>1
    <3>. HIDE DEF term
    <3>. QED
      BY <3>2 DEF PredicatesFrom
  <2>3. Agrees(ts, ParsePredicate(ts, p), p, PredicatesFrom(ts, p))
    BY PredicateAgrees
  <2>. HIDE DEF term, parse
  <2>. QED
    BY <2>1, <2>2, <2>3 DEF Agrees
<1>. QED
  BY <1>3, <1>4, <1>5

\* parse_and and parse_or find the conjunctions and alternations of the terms.
LEMMA OrFinds ==
  ASSUME NEW ts, Legible(ts), NEW trees, FollowsRules(ts, trees), NEW group,
         NEW i \in 1..Len(ts) + 1, \A k \in Ahead(ts, i + 1) : FindsGroups(ts, group, trees, k)
  PROVE  /\ OnlyTrees(ts, ParseOr(ts, group, i), i, "Or", trees)
         /\ AllTrees(ts, ParseOr(ts, group, i), i, "Or", trees, Ends(ts))
         /\ ParseOr(ts, group, i) # {} => ParseTerm(ts, group, i) # {}
<1>. DEFINE L == Len(ts)
            terms(p) == [k \in Ahead(ts, p) |-> ParseTerm(ts, group, k)]
            ands == [p \in Ahead(ts, i) |-> ParseAnd(ts, group, p)]
            ToAnd == {j \in 0..L : Kind(ts, j + 1) # "And"}
<1>0. L \in Nat /\ DOMAIN ts = 1..L /\ i \in Ahead(ts, i)
  BY DEF Legible, Ahead
<1>1. \A p \in Ahead(ts, i) : p \in 1..L + 1 /\ p \in Ahead(ts, p) /\ Ahead(ts, p) \subseteq Ahead(ts, i)
        /\ Ahead(ts, p + 1) \subseteq Ahead(ts, i + 1)
  BY DEF Ahead
<1>2. \A k \in Ahead(ts, i) : /\ OnlyTrees(ts, ParseTerm(ts, group, k), k, "Term", trees)
                              /\ AllTrees(ts, ParseTerm(ts, group, k), k, "Term", trees, 0..L)
  <2>. TAKE k \in Ahead(ts, i)
  <2>1. \A m \in Ahead(ts, k + 1) : FindsGroups(ts, group, trees, m)
    BY <1>1
  <2>. QED
    BY <1>1, <2>1, TermFinds
<1>3. Joins("And") = "Term" /\ Joins("Or") = "And"
  BY DEF Joins
<1>4. ASSUME NEW p \in Ahead(ts, i)
      PROVE  /\ OnlyTrees(ts, ParseAnd(ts, group, p), p, "And", trees)
             /\ AllTrees(ts, ParseAnd(ts, group, p), p, "And", trees, ToAnd)
             /\ ParseAnd(ts, group, p) # {} => ParseTerm(ts, group, p) # {}
  <2>. DEFINE operand == terms(p)
  <2>1. ParseAnd(ts, group, p) = Loop(ts, "And", operand, p)
    BY Zenon DEF ParseAnd
  <2>2. \A k \in Ahead(ts, p) : /\ operand[k] = ParseTerm(ts, group, k)
                                /\ OnlyTrees(ts, operand[k], k, Joins("And"), trees)
                                /\ AllTrees(ts, operand[k], k, Joins("And"), trees, 0..L)
    BY <1>1, <1>2, <1>3
  <2>3. p \in 1..L + 1 /\ operand[p] = ParseTerm(ts, group, p)
    BY <1>1, <2>2
  <2>. HIDE DEF operand
  <2>4. /\ OnlyTrees(ts, Loop(ts, "And", operand, p), p, "And", trees)
        /\ Loop(ts, "And", operand, p) # {} => operand[p] # {}
    BY <1>0, <2>2, <2>3, LoopFindsTrees
  <2>5. AllTrees(ts, Loop(ts, "And", operand, p), p, "And", trees, {j \in 0..L : Kind(ts, j + 1) # "And"})
    BY <1>0, <2>2, <2>3, LoopFindsAll
  <2>. QED
    BY <2>1, <2>3, <2>4, <2>5
<1>5. ParseOr(ts, group, i) = Loop(ts, "Or", ands, i)
  BY Zenon DEF ParseOr
<1>6. \A p \in Ahead(ts, i) : /\ ands[p] = ParseAnd(ts, group, p)
                              /\ OnlyTrees(ts, ands[p], p, Joins("Or"), trees)
                              /\ AllTrees(ts, ands[p], p, Joins("Or"), trees, ToAnd)
  BY <1>3, <1>4
<1>. HIDE DEF ands
<1>7. /\ OnlyTrees(ts, Loop(ts, "Or", ands, i), i, "Or", trees)
      /\ Loop(ts, "Or", ands, i) # {} => ands[i] # {}
  BY <1>0, <1>6, LoopFindsTrees
<1>8. AllTrees(ts, Loop(ts, "Or", ands, i), i, "Or", trees, {j \in ToAnd : Kind(ts, j + 1) # "Or"})
  <2>1. ToAnd \subseteq 0..L /\ \A j \in 0..L : Kind(ts, j + 1) = "Or" => j \in ToAnd
    OBVIOUS
  <2>. HIDE DEF ToAnd
  <2>. QED
    BY <1>0, <1>6, <2>1, LoopFindsAll
<1>9. {j \in ToAnd : Kind(ts, j + 1) # "Or"} = Ends(ts)
  BY DEF Ends
<1>. QED
  BY <1>0, <1>4, <1>5, <1>6, <1>7, <1>8, <1>9

\* Every group is what the grammar makes of the tokens from its position on.
LEMMA GroupsFind ==
  ASSUME NEW ts, Legible(ts), NEW i \in 1..Len(ts) + 1
  PROVE  FindsGroups(ts, Groups(ts), Derived(ts), i)
<1>. DEFINE L == Len(ts)
            Finds(p) == FindsGroups(ts, Groups(ts), Derived(ts), p)
            Wrong == {m \in 0..L : ~Finds(L + 1 - m)}
<1>0. L \in Nat /\ DOMAIN ts = 1..L
  BY DEF Legible
<1>1. FollowsRules(ts, Derived(ts)) /\ \A p \in 1..L + 1 : Groups(ts)[p] = ParseOr(ts, Groups(ts), p)
  BY <1>0, DerivedUnfold, GroupsUnfold
<1>2. Wrong = {}
  <2>. SUFFICES ASSUME Wrong # {} PROVE FALSE
    OBVIOUS
  <2>1. PICK m \in Wrong : m \in Nat /\ \A k \in Wrong : m <= k
    <3>1. Wrong \subseteq Nat
      OBVIOUS
    <3>. HIDE DEF Wrong
    <3>. QED
      BY <3>1, Smallest
  <2>. DEFINE p == L + 1 - m
  <2>2. m \in 0..L /\ p \in 1..L + 1 /\ ~Finds(p)
    BY <1>0, <2>1
  <2>3. \A k \in Ahead(ts, p + 1) : Finds(k)
    <3>. TAKE k \in Ahead(ts, p + 1)
    <3>1. L + 1 - k \in 0..L /\ ~(m <= L + 1 - k) /\ L + 1 - (L + 1 - k) = k
      BY <1>0, <2>2 DEF Ahead
    <3>. HIDE DEF Finds
    <3>2. L + 1 - k \notin Wrong
      BY <2>1, <3>1
    <3>3. Finds(L + 1 - (L + 1 - k))
      BY <3>1, <3>2
    <3>. QED
      BY <3>1, <3>3
  <2>. HIDE DEF p
  <2>4. /\ OnlyTrees(ts, ParseOr(ts, Groups(ts), p), p, "Or", Derived(ts))
        /\ AllTrees(ts, ParseOr(ts, Groups(ts), p), p, "Or", Derived(ts), Ends(ts))
    BY <1>1, <2>2, <2>3, OrFinds
  <2>. QED
    BY <1>1, <2>2, <2>4 DEF FindsGroups
<1>3. L + 1 - i \in 0..L /\ L + 1 - (L + 1 - i) = i
  BY <1>0
<1>. HIDE DEF Finds
<1>4. Finds(L + 1 - (L + 1 - i))
  BY <1>2, <1>3
<1>. QED
  BY <1>3, <1>4 DEF Finds

\* parse_top_level takes the trees that the grammar gives the tokens.
THEOREM ParserIsGrammar ==
  ASSUME NEW ts, Legible(ts)
  PROVE  ParseTopLevel(ts) = Derivations(ts)
<1>. DEFINE L == Len(ts)
            group == Groups(ts)
            trees == Derived(ts)
<1>0. L \in Nat /\ 1 \in 1..L + 1 /\ DOMAIN ts = 1..L /\ L \in 0..L
  BY DEF Legible
<1>1. FollowsRules(ts, trees) /\ group[1] = ParseOr(ts, group, 1)
  BY <1>0, DerivedUnfold, GroupsUnfold
<1>2. \A k \in 1..L + 1 : FindsGroups(ts, group, trees, k)
  BY GroupsFind
<1>3. /\ OnlyTrees(ts, group[1], 1, "Or", trees)
      /\ AllTrees(ts, group[1], 1, "Or", trees, Ends(ts))
  BY <1>0, <1>2 DEF FindsGroups
<1>4. group[1] # {} => ParseTerm(ts, group, 1) # {}
  <2>1. \A k \in Ahead(ts, 1 + 1) : FindsGroups(ts, group, trees, k)
    <3>1. Ahead(ts, 1 + 1) \subseteq 1..L + 1
      BY <1>0 DEF Ahead
    <3>. HIDE DEF L, group, trees
    <3>. QED
      BY <1>2, <3>1
  <2>. QED
    BY <1>0, <1>1, <2>1, OrFinds
<1>5. Kind(ts, L + 1) = "End" /\ L \in Ends(ts) /\ \A j \in 0..L : Kind(ts, j + 1) = "End" => j = L
  <2>1. Kind(ts, L + 1) = "End"
    BY <1>0 DEF Kind
  <2>2. L \in Ends(ts)
    BY <1>0, <2>1 DEF Ends
  <2>3. ASSUME NEW j \in 0..L, Kind(ts, j + 1) = "End" PROVE j = L
    <3>1. j + 1 \notin 1..L /\ L \in Nat
      BY <1>0, <2>3, KindIs
    <3>. QED
      BY <3>1
  <2>. QED
    BY <2>1, <2>2, <2>3
<1>6. {r.q : r \in {s \in group[1] : Kind(ts, s.next) = "End"}} = trees[<<"Or", 1, L>>]
  <2>. DEFINE found == {r.q : r \in {s \in group[1] : Kind(ts, s.next) = "End"}}
  <2>1. \A q, j : Result(q, j).next = j + 1 /\ Result(q, j).q = q
    BY DEF Result
  <2>. HIDE DEF group, trees
  <2>2. ASSUME NEW q \in trees[<<"Or", 1, L>>] PROVE q \in found
    <3>1. Result(q, L) \in group[1]
      BY <1>3, <1>5 DEF AllTrees
    <3>. QED
      BY <1>5, <2>1, <3>1
  <2>3. ASSUME NEW r \in group[1], Kind(ts, r.next) = "End" PROVE r.q \in trees[<<"Or", 1, L>>]
    <3>1. PICK j \in 0..L : \E q \in trees[<<"Or", 1, j>>] : r = Result(q, j)
      BY <1>3 DEF OnlyTrees
    <3>2. PICK q \in trees[<<"Or", 1, j>>] : r = Result(q, j)
      BY <3>1
    <3>3. r.q = q /\ j = L
      BY <1>5, <2>1, <2>3, <3>2
    <3>. QED
      BY <3>3
  <2>. QED
    BY <2>2, <2>3
<1>7. Derivations(ts) = (IF L = 1 /\ Kind(ts, 1) \in {"Star", "DollarAll"} THEN {All} ELSE {})
                          \cup trees[<<"Or", 1, L>>]
  BY Zenon DEF Derivations
<1>8. CASE Kind(ts, 1) \in {"Star", "DollarAll"}
  <2>1. ParseTerm(ts, group, 1) = {}
    <3>1. Kind(ts, 1) \notin {"LParen", "Not", "Var"}
      BY <1>8
    <3>2. ParseTerm(ts, group, 1) = ParsePredicate(ts, 1)
      BY <3>1, Zenon DEF ParseTerm
    <3>. QED
      BY <3>1, <3>2 DEF ParsePredicate
  <2>2. trees[<<"Or", 1, L>>] = {}
    <3>1. group[1] = {}
      BY <1>4, <2>1
    <3>. HIDE DEF group
    <3>. QED
      BY <1>6, <3>1
  <2>3. ParseTopLevel(ts) = IF L = 1 THEN {All} ELSE {}
    BY <1>8, Zenon DEF ParseTopLevel
  <2>. HIDE DEF trees
  <2>. QED
    BY <1>7, <1>8, <2>2, <2>3
<1>9. CASE Kind(ts, 1) \notin {"Star", "DollarAll"}
  <2>1. ParseTopLevel(ts) = {r.q : r \in {s \in group[1] : Kind(ts, s.next) = "End"}}
    BY <1>9, Zenon DEF ParseTopLevel
  <2>. HIDE DEF trees, group
  <2>. QED
    BY <1>6, <1>7, <1>9, <2>1
<1>. QED
  BY <1>8, <1>9

(***************************************************************************)
(* No sequence of tokens has two trees. The grammar splits at any          *)
(* connective, so that this is seen from the parser, which chooses nothing.*)
(***************************************************************************)

AtMostOne(S) == \A r \in S : \A s \in S : r = s

\* Results from i on.
GoesOn(ts, S, i) == \A r \in S : \E q : \E next \in Ahead(ts, i) : r = [q |-> q, next |-> next]

\* A value is read in one way.
LEMMA ValueOnce ==
  ASSUME NEW ts, Legible(ts), NEW i, NEW name
  PROVE  AtMostOne(ParseValue(ts, i, name)) /\ AtMostOne(ParseGlobPattern(ts, i, name))
<1>1. "Eq" \notin Ranges /\ "Eq" \notin Globs /\ "Glob" \in Globs
  BY DEF Ranges, Globs
<1>2. CASE i \in 1..Len(ts)
  <2>1. ParseValue(ts, i, name) = Value(name, "Eq", ts[i])
    BY <1>1, <1>2, ValueIs
  <2>2. ParseGlobPattern(ts, i, name) = Value(name, "Glob", ts[i])
    BY <1>1, <1>2, PatternIs
  <2>. QED
    BY <2>1, <2>2, Zenon DEF Value, AtMostOne
<1>3. CASE i \notin 1..Len(ts)
  <2>1. ParseValue(ts, i, name) = {}
    BY <1>1, <1>3, ValueIs
  <2>2. ParseGlobPattern(ts, i, name) = {}
    BY <1>3, KindIs DEF ParseGlobPattern
  <2>. QED
    BY <2>1, <2>2 DEF AtMostOne
<1>. QED
  BY <1>2, <1>3

\* So is a predicate.
LEMMA PredicateOnce ==
  ASSUME NEW ts, Legible(ts), NEW i
  PROVE  AtMostOne(ParsePredicate(ts, i))
<1>. DEFINE name == ts[i][2]
            op == Kind(ts, i + 1)
<1>1. ASSUME NEW o, NEW k PROVE AtMostOne(Comparison(o, ts, k, name)) /\ AtMostOne(Globbing(o, ts, k, name))
  <2>1. AtMostOne(ParseValue(ts, k, name)) /\ AtMostOne(ParseGlobPattern(ts, k, name))
    BY ValueOnce
  <2>2. AtMostOne(Comparison(o, ts, k, name))
    BY <2>1, Zenon DEF Comparison, AtMostOne
  <2>3. AtMostOne(Globbing(o, ts, k, name))
    BY <2>1, Zenon DEF Globbing, AtMostOne
  <2>. QED
    BY <2>2, <2>3
<1>2. ASSUME NEW k PROVE AtMostOne(ParseValueList(ts, k, name))
  BY Zenon DEF ParseValueList, When, AtMostOne
<1>. DEFINE some(k) == {[q |-> In(name, r.values), next |-> r.next] : r \in ParseValueList(ts, k, name)}
            none(k) == {[q |-> NotIn(name, r.values), next |-> r.next] : r \in ParseValueList(ts, k, name)}
<1>3. ASSUME NEW k PROVE AtMostOne(some(k)) /\ AtMostOne(none(k))
  <2>1. AtMostOne(ParseValueList(ts, k, name))
    BY <1>2
  <2>. QED
    BY <2>1, Zenon DEF AtMostOne
<1>4. AtMostOne({})
  BY DEF AtMostOne
<1>5. CASE Kind(ts, i) # "Var"
  BY <1>4, <1>5, Zenon DEF ParsePredicate
<1>6. CASE Kind(ts, i) = "Var"
  <2>1. CASE op \in {"Eq", "Neq"}
    <3>1. ParsePredicate(ts, i) = Comparison(op, ts, i + 2, name)
      BY <1>6, <2>1 DEF ParsePredicate, Ranges
    <3>. QED
      BY <1>1, <3>1
  <2>2. CASE op \in Ranges
    <3>1. ParsePredicate(ts, i) \in {{}, Comparison(op, ts, i + 2, name)}
      BY <1>6, <2>2 DEF ParsePredicate, Ranges
    <3>. QED
      BY <1>1, <1>4, <3>1
  <2>3. CASE op \in {"Tilde", "NotTilde"}
    <3>1. ParsePredicate(ts, i) \in {Globbing("Glob", ts, i + 2, name), Globbing("NotGlob", ts, i + 2, name)}
      BY <1>6, <2>3 DEF ParsePredicate, Ranges
    <3>. QED
      BY <1>1, <3>1
  <2>4. CASE op \in {"In", "Not"}
    <3>1. ParsePredicate(ts, i) \in {{}, some(i + 2), none(i + 3)}
      BY <1>6, <2>4 DEF ParsePredicate, Ranges
    <3>. QED
      BY <1>3, <1>4, <3>1
  <2>5. CASE op \notin {"Eq", "Neq", "Tilde", "NotTilde", "In", "Not"} \cup Ranges
    <3>1. ParsePredicate(ts, i) = {}
      BY <1>6, <2>5 DEF ParsePredicate
    <3>. QED
      BY <1>4, <3>1
  <2>. QED
    BY <2>1, <2>2, <2>3, <2>4, <2>5
<1>. QED
  BY <1>5, <1>6

\* And a term, when there is one way to read what is in its brackets.
LEMMA TermOnce ==
  ASSUME NEW ts, Legible(ts), NEW group, NEW p \in 1..Len(ts) + 1,
         \A k \in Ahead(ts, p + 1) : AtMostOne(group[k])
  PROVE  AtMostOne(ParseTerm(ts, group, p))
<1>. DEFINE L == Len(ts)
<1>0. L \in Nat /\ DOMAIN ts = 1..L
  BY DEF Legible
<1>1. \A k : Kind(ts, k) = "LParen" => k \in 1..L
  BY KindIs
<1>2. ASSUME NEW k, k + 1 \in Ahead(ts, p + 1) PROVE AtMostOne(Closed(ts, group[k + 1]))
  <2>1. AtMostOne(group[k + 1])
    BY <1>2
  <2>. QED
    BY <2>1, Zenon DEF Closed, AtMostOne
<1>3. CASE Kind(ts, p) = "LParen"
  <2>1. p + 1 \in Ahead(ts, p + 1)
    BY <1>0, <1>1, <1>3 DEF Ahead
  <2>2. ParseTerm(ts, group, p) = Closed(ts, group[p + 1])
    BY <1>3, Zenon DEF ParseTerm
  <2>. QED
    BY <1>2, <2>1, <2>2
<1>4. CASE Kind(ts, p) = "Not"
  <2>. DEFINE inner == IF Kind(ts, p + 1) = "LParen" THEN Closed(ts, group[p + 2]) ELSE {}
  <2>1. AtMostOne(inner)
    <3>1. CASE Kind(ts, p + 1) = "LParen"
      <4>1. p + 1 + 1 = p + 2 /\ p + 2 \in Ahead(ts, p + 1)
        BY <1>0, <1>1, <3>1 DEF Ahead
      <4>2. AtMostOne(Closed(ts, group[p + 1 + 1]))
        BY <1>2, <4>1
      <4>. QED
        BY <3>1, <4>1, <4>2
    <3>2. CASE Kind(ts, p + 1) # "LParen"
      BY <3>2 DEF AtMostOne
    <3>. QED
      BY <3>1, <3>2
  <2>2. Kind(ts, p) # "LParen"
    BY <1>4
  <2>3. ParseTerm(ts, group, p) = {[r EXCEPT !.q = Not(@)] : r \in inner}
    BY <1>4, <2>2, Zenon DEF ParseTerm
  <2>. HIDE DEF inner
  <2>. QED
    BY <2>1, <2>3, Zenon DEF AtMostOne
<1>5. CASE Kind(ts, p) \notin {"LParen", "Not"}
  <2>1. ParseTerm(ts, group, p) = ParsePredicate(ts, p)
    BY <1>5, Zenon DEF ParseTerm
  <2>. QED
    BY <2>1, PredicateOnce
<1>. QED
  BY <1>3, <1>4, <1>5

\* And what a loop joins, when its operands are.
LEMMA LoopOnce ==
  ASSUME NEW ts, Legible(ts), NEW kind, kind # "End", NEW operand, NEW i \in 1..Len(ts) + 1,
         \A p \in Ahead(ts, i) : AtMostOne(operand[p]) /\ GoesOn(ts, operand[p], p)
  PROVE  AtMostOne(Loop(ts, kind, operand, i)) /\ GoesOn(ts, Loop(ts, kind, operand, i), i)
<1>. DEFINE L == Len(ts)
            Right(S) == AtMostOne(S) /\ GoesOn(ts, S, i)
<1>0. L \in Nat /\ DOMAIN ts = 1..L /\ i \in Ahead(ts, i)
  BY DEF Legible, Ahead
<1>9. PICK f : Loops(f, ts, kind, operand, i) /\ Loop(ts, kind, operand, i) = f[L]
  BY <1>0, LoopUnfolds, Zenon
<1>1. /\ f[0] = operand[i]
      /\ \A n \in 1..L : f[n] = UNION {Round(ts, kind, operand, r) : r \in f[n - 1]}
  BY <1>9, Zenon DEF Loops
<1>2. ASSUME NEW q, NEW next \in Ahead(ts, i) PROVE Right(Round(ts, kind, operand, [q |-> q, next |-> next]))
  <2>. DEFINE r == [q |-> q, next |-> next]
  <2>0. r.q = q /\ r.next = next
    OBVIOUS
  <2>1. CASE Kind(ts, next) # kind
    <3>1. Round(ts, kind, operand, r) = {r}
      BY <2>0, <2>1, Zenon DEF Round
    <3>2. GoesOn(ts, {r}, i)
      BY DEF GoesOn
    <3>. QED
      BY <3>1, <3>2 DEF AtMostOne
  <2>2. CASE Kind(ts, next) = kind
    <3>1. next \in 1..L
      BY <2>2, KindIs
    <3>2. next + 1 \in Ahead(ts, i) /\ Ahead(ts, next + 1) \subseteq Ahead(ts, i)
      BY <1>0, <1>2, <3>1 DEF Ahead
    <3>3. AtMostOne(operand[next + 1]) /\ GoesOn(ts, operand[next + 1], next + 1)
      BY <3>2
    <3>4. Round(ts, kind, operand, r) = {Joined(s, kind, q) : s \in operand[next + 1]}
      BY <2>0, <2>2, Zenon DEF Round
    <3>5. AtMostOne({Joined(s, kind, q) : s \in operand[next + 1]})
      BY <3>3, Zenon DEF AtMostOne
    <3>6. GoesOn(ts, {Joined(s, kind, q) : s \in operand[next + 1]}, i)
      <4>1. ASSUME NEW s \in operand[next + 1]
            PROVE  \E t : \E n \in Ahead(ts, i) : Joined(s, kind, q) = [q |-> t, next |-> n]
        <5>1. PICK t : \E n \in Ahead(ts, next + 1) : s = [q |-> t, next |-> n]
          BY <3>3, Zenon DEF GoesOn
        <5>2. PICK n \in Ahead(ts, next + 1) : s = [q |-> t, next |-> n]
          BY <5>1
        <5>3. Joined(s, kind, q) = [q |-> [op |-> kind, left |-> q, right |-> t], next |-> n]
          BY <5>2 DEF Joined
        <5>. QED
          BY <3>2, <5>3
      <4>2. ASSUME NEW a \in {Joined(s, kind, q) : s \in operand[next + 1]}
            PROVE  \E t : \E n \in Ahead(ts, i) : a = [q |-> t, next |-> n]
        <5>1. PICK s \in operand[next + 1] : a = Joined(s, kind, q)
          BY <4>2
        <5>. QED
          BY <4>1, <5>1, Zenon
      <4>. QED
        BY <4>2, Zenon DEF GoesOn
    <3>. QED
      BY <3>3, <3>4, <3>5, <3>6, Zenon
  <2>. QED
    BY <2>1, <2>2
<1>. DEFINE Wrong == {n \in 0..L : ~Right(f[n])}
<1>3. Wrong = {}
  <2>. SUFFICES ASSUME Wrong # {} PROVE FALSE
    OBVIOUS
  <2>1. PICK m \in Wrong : m \in Nat /\ \A k \in Wrong : m <= k
    <3>1. Wrong \subseteq Nat
      OBVIOUS
    <3>. HIDE DEF Wrong
    <3>. QED
      BY <3>1, Smallest
  <2>2. m \in 0..L /\ ~Right(f[m])
    BY <2>1
  <2>3. CASE m = 0
    BY <1>0, <1>1, <2>2, <2>3
  <2>4. CASE m # 0
    <3>1. m \in 1..L /\ m - 1 \in 0..L /\ ~(m <= m - 1)
      BY <1>0, <2>2, <2>4
    <3>2. Right(f[m - 1])
      BY <2>1, <3>1
    <3>3. f[m] = UNION {Round(ts, kind, operand, r) : r \in f[m - 1]}
      BY <1>1, <3>1
    <3>4. \A r \in f[m - 1] : Right(Round(ts, kind, operand, r))
      <4>. TAKE r \in f[m - 1]
      <4>1. PICK q : \E next \in Ahead(ts, i) : r = [q |-> q, next |-> next]
        BY <3>2, Zenon DEF GoesOn
      <4>. HIDE DEF Right
      <4>. QED
        BY <1>2, <4>1
    <3>5. Right(f[m])
      <4>1. ASSUME NEW r \in f[m], NEW s \in f[m] PROVE r = s
        <5>1. PICK a \in f[m - 1] : r \in Round(ts, kind, operand, a)
          BY <3>3
        <5>2. PICK b \in f[m - 1] : s \in Round(ts, kind, operand, b)
          BY <3>3
        <5>3. a = b
          BY <3>2 DEF AtMostOne
        <5>. QED
          BY <3>4, <5>1, <5>2, <5>3 DEF AtMostOne
      <4>2. GoesOn(ts, f[m], i)
        <5>1. ASSUME NEW s \in f[m]
              PROVE  \E q : \E next \in Ahead(ts, i) : s = [q |-> q, next |-> next]
          <6>1. PICK a \in f[m - 1] : s \in Round(ts, kind, operand, a)
            BY <3>3
          <6>2. GoesOn(ts, Round(ts, kind, operand, a), i)
            BY <3>4, <6>1
          <6>. QED
            BY <6>1, <6>2, Zenon DEF GoesOn
        <5>. QED
          BY <5>1, Zenon DEF GoesOn
      <4>. QED
        BY <4>1, <4>2, Zenon DEF AtMostOne
    <3>. QED
      BY <2>2, <3>5
  <2>. QED
    BY <2>3, <2>4
<1>4. L \in 0..L
  BY <1>0
<1>5. Right(f[L])
  BY <1>3, <1>4
<1>. QED
  BY <1>5, <1>9

\* So the groups are, the last ones first.
LEMMA GroupsOnce ==
  ASSUME NEW ts, Legible(ts), NEW i \in 1..Len(ts) + 1
  PROVE  AtMostOne(Groups(ts)[i])
<1>. DEFINE L == Len(ts)
            group == Groups(ts)
            trees == Derived(ts)
            Once(p) == AtMostOne(group[p])
            Wrong == {m \in 0..L : ~Once(L + 1 - m)}
<1>0. L \in Nat /\ DOMAIN ts = 1..L
  BY DEF Legible
<1>1. /\ FollowsRules(ts, trees)
      /\ \A p \in 1..L + 1 : group[p] = ParseOr(ts, group, p)
      /\ \A p \in 1..L + 1 : FindsGroups(ts, group, trees, p)
  BY <1>0, DerivedUnfold, GroupsUnfold, GroupsFind
<1>. HIDE DEF group, trees
<1>2. ASSUME NEW p \in 1..L + 1, \A k \in Ahead(ts, p + 1) : Once(k) PROVE Once(p)
  <2>. DEFINE ands == [k \in Ahead(ts, p) |-> ParseAnd(ts, group, k)]
  <2>1. p \in Ahead(ts, p)
    BY <1>0 DEF Ahead
  <2>2. ASSUME NEW k \in Ahead(ts, p)
        PROVE  AtMostOne(ParseAnd(ts, group, k)) /\ GoesOn(ts, ParseAnd(ts, group, k), k)
    <3>. DEFINE terms == [n \in Ahead(ts, k) |-> ParseTerm(ts, group, n)]
    <3>1. ASSUME NEW n \in Ahead(ts, k)
          PROVE  AtMostOne(ParseTerm(ts, group, n)) /\ GoesOn(ts, ParseTerm(ts, group, n), n)
      <4>1. n \in 1..L + 1 /\ Ahead(ts, n + 1) \subseteq Ahead(ts, p + 1) /\ Ahead(ts, n + 1) \subseteq 1..L + 1
        BY <1>0 DEF Ahead
      <4>2. AtMostOne(ParseTerm(ts, group, n))
        BY <1>2, <4>1, TermOnce
      <4>3. OnlyTrees(ts, ParseTerm(ts, group, n), n, "Term", trees)
        BY <1>1, <4>1, TermFinds
      <4>4. GoesOn(ts, ParseTerm(ts, group, n), n)
        <5>1. ASSUME NEW r \in ParseTerm(ts, group, n)
              PROVE  \E q : \E next \in Ahead(ts, n) : r = [q |-> q, next |-> next]
          <6>1. PICK j \in 0..L : n <= j /\ \E q \in trees[<<"Term", n, j>>] : r = Result(q, j)
            BY <4>3, Zenon DEF OnlyTrees
          <6>2. PICK q \in trees[<<"Term", n, j>>] : r = Result(q, j)
            BY <6>1
          <6>3. j + 1 \in Ahead(ts, n)
            BY <1>0, <4>1, <6>1 DEF Ahead
          <6>. QED
            BY <6>2, <6>3, Zenon DEF Result
        <5>. QED
          BY <5>1, Zenon DEF GoesOn
      <4>. QED
        BY <4>2, <4>4
    <3>2. ParseAnd(ts, group, k) = Loop(ts, "And", terms, k)
      BY Zenon DEF ParseAnd
    <3>3. \A n \in Ahead(ts, k) : AtMostOne(terms[n]) /\ GoesOn(ts, terms[n], n)
      BY <3>1
    <3>4. k \in 1..L + 1
      BY <1>0 DEF Ahead
    <3>. HIDE DEF terms
    <3>5. AtMostOne(Loop(ts, "And", terms, k)) /\ GoesOn(ts, Loop(ts, "And", terms, k), k)
      BY <3>3, <3>4, LoopOnce
    <3>. QED
      BY <3>2, <3>5
  <2>3. ParseOr(ts, group, p) = Loop(ts, "Or", ands, p)
    BY Zenon DEF ParseOr
  <2>4. \A k \in Ahead(ts, p) : AtMostOne(ands[k]) /\ GoesOn(ts, ands[k], k)
    BY <2>2
  <2>. HIDE DEF ands
  <2>5. AtMostOne(Loop(ts, "Or", ands, p))
    BY <2>4, LoopOnce
  <2>. QED
    BY <1>1, <2>3, <2>5
<1>3. Wrong = {}
  <2>. SUFFICES ASSUME Wrong # {} PROVE FALSE
    OBVIOUS
  <2>1. PICK m \in Wrong : m \in Nat /\ \A k \in Wrong : m <= k
    <3>1. Wrong \subseteq Nat
      OBVIOUS
    <3>. HIDE DEF Wrong
    <3>. QED
      BY <3>1, Smallest
  <2>. DEFINE p == L + 1 - m
  <2>2. m \in 0..L /\ p \in 1..L + 1 /\ ~Once(p)
    BY <1>0, <2>1
  <2>3. \A k \in Ahead(ts, p + 1) : Once(k)
    <3>. TAKE k \in Ahead(ts, p + 1)
    <3>1. L + 1 - k \in 0..L /\ ~(m <= L + 1 - k) /\ L + 1 - (L + 1 - k) = k
      BY <1>0, <2>2 DEF Ahead
    <3>. HIDE DEF Once
    <3>2. L + 1 - k \notin Wrong
      BY <2>1, <3>1
    <3>3. Once(L + 1 - (L + 1 - k))
      BY <3>1, <3>2
    <3>. QED
      BY <3>1, <3>3
  <2>. HIDE DEF p, Once
  <2>. QED
    BY <1>2, <2>2, <2>3
<1>4. L + 1 - i \in 0..L /\ L + 1 - (L + 1 - i) = i
  BY <1>0
<1>. HIDE DEF Once
<1>5. Once(L + 1 - (L + 1 - i))
  BY <1>3, <1>4
<1>. QED
  BY <1>4, <1>5 DEF Once, group

\* The grammar at the head of query/parser.rs is unambiguous: a query means
\* one thing.
THEOREM GrammarIsUnambiguous ==
  ASSUME NEW ts, Legible(ts), NEW q \in Derivations(ts), NEW r \in Derivations(ts)
  PROVE  q = r
<1>1. AtMostOne(Groups(ts)[1])
  <2>1. 1 \in 1..Len(ts) + 1
    BY DEF Legible
  <2>. QED
    BY <2>1, GroupsOnce
<1>2. q \in ParseTopLevel(ts) /\ r \in ParseTopLevel(ts)
  BY ParserIsGrammar
<1>3. CASE Kind(ts, 1) \in {"Star", "DollarAll"}
  <2>1. ParseTopLevel(ts) \in {{All}, {}}
    BY <1>3, Zenon DEF ParseTopLevel
  <2>. QED
    BY <1>2, <2>1
<1>4. CASE Kind(ts, 1) \notin {"Star", "DollarAll"}
  <2>1. ParseTopLevel(ts) = {s.q : s \in {t \in Groups(ts)[1] : Kind(ts, t.next) = "End"}}
    BY <1>4, Zenon DEF ParseTopLevel
  <2>2. PICK s \in Groups(ts)[1] : q = s.q
    BY <1>2, <2>1
  <2>3. PICK t \in Groups(ts)[1] : r = t.q
    BY <1>2, <2>1
  <2>. QED
    BY <1>1, <2>2, <2>3 DEF AtMostOne
<1>. QED
  BY <1>3, <1>4

(***************************************************************************)
(* Reading                                                                 *)
(***************************************************************************)

\* A text that has been read got the trees that the grammar gives its tokens.
ReaderInv ==
  /\ reading \in {"idle", "text", "tokens"} => parsed = {}
  /\ reading \in {"idle", "text"} => lexed = {}
  /\ reading = "returned" => parsed = UNION {ParseTopLevel(ts) : ts \in lexed}

LEMMA ReaderSteps == Reading => []ReaderInv
<1>1. ReadInit => ReaderInv
  BY DEF ReadInit, ReaderInv
<1>2. ReaderInv /\ [ReadNext]_readVars => ReaderInv'
  <2>. SUFFICES ASSUME ReaderInv, [ReadNext]_readVars PROVE ReaderInv'
    OBVIOUS
  <2>1. CASE Take
    BY <2>1 DEF Take, ReaderInv
  <2>2. CASE Lex
    <3>1. CASE lexed' = {}
      BY <2>2, <3>1 DEF Lex, ReaderInv
    <3>2. CASE lexed' # {}
      BY <2>2, <3>2 DEF Lex, ReaderInv
    <3>. QED
      BY <3>1, <3>2
  <2>3. CASE Build
    BY <2>3 DEF Build, ReaderInv
  <2>4. CASE Return
    BY <2>4 DEF Return, ReaderInv
  <2>5. CASE UNCHANGED readVars
    BY <2>5 DEF readVars, ReaderInv
  <2>. QED
    BY <2>1, <2>2, <2>3, <2>4, <2>5 DEF ReadNext
<1>. QED
  BY <1>1, <1>2, PTL DEF Reading

\* Texts are read as the grammar reads them, if they are cut into the tokens
\* of their words: parse of query/parser.rs adds nothing wrong to these.
THEOREM ParsingFollowsGrammar == Reading /\ []TokensAreWords => []ParserFollowsGrammar
<1>1. ReaderInv /\ TokensAreWords => ParserFollowsGrammar
  <2>. SUFFICES ASSUME ReaderInv, TokensAreWords, reading = "returned"
                PROVE  parsed = UNION {Derivations(ts) : ts \in Spoken(input)}
    BY Zenon DEF ParserFollowsGrammar
  <2>1. lexed = Spoken(input) /\ \A ts \in lexed : Legible(ts)
    BY Zenon DEF TokensAreWords
  <2>2. \A ts \in lexed : ParseTopLevel(ts) = Derivations(ts)
    BY <2>1, ParserIsGrammar
  <2>3. parsed = UNION {ParseTopLevel(ts) : ts \in lexed}
    BY Zenon DEF ReaderInv
  <2>. QED
    BY <2>1, <2>2, <2>3, Zenon
<1>. QED
  BY <1>1, ReaderSteps, PTL
=============================================================================
