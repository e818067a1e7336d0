-------------------------- MODULE QueryPagesProps ---------------------------
(***************************************************************************)
(* What a client may rely on when it walks through pages.                  *)
(***************************************************************************)
EXTENDS QueryPages

Received == {walk.got[k] : k \in DOMAIN walk.got}

\* Blocks between the first and the last page that the walk has seen.
Seen == walk.from .. walk.to

\* "Newest first": over all pages of one walk the IDs descend, so nothing is
\* returned twice, although the pages come from different blocks, answers
\* are lost and asked for again, and entities are created in between.
NewestFirst ==
  walk.phase # "idle" =>
    \A k \in 1 .. Len(walk.got) - 1 : walk.got[k] > walk.got[k + 1]

\* A walk at the head misses no entity that matches all the time, and
\* returns none that never does.
StableEntitiesFound ==
  (walk.phase = "done" /\ walk.at = Latest) =>
    /\ \A i \in Ids : (\A n \in Seen : i \in Matching(n)) => i \in Received
    /\ \A i \in Received : \E n \in Seen : i \in Matching(n)

\* A walk that names its block returns exactly what matches there, whatever
\* is committed while it goes on.
PinnedWalkIsExact ==
  (walk.phase = "done" /\ walk.at # Latest) => Received = Matching(walk.at)

\* Every walk comes to its last page, although blocks are committed and
\* answers are lost.
WalksEnd == walk.phase = "walking" ~> walk.phase = "done"

\* rpc.rs: `block_number` is the "Block number at which the query was
\* evaluated." It is read before the state is.
AnswersNameTheirBlock == request.phase = "answered" => request.number = request.block
=============================================================================
