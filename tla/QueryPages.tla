----------------------------- MODULE QueryPages -----------------------------
(***************************************************************************)
(* A client that walks through the pages of arkiv_query while blocks are   *)
(* committed: run_query and snapshot_for of crates/arkiv-node/src/rpc.rs,  *)
(* and the paging of execute in                                            *)
(* crates/arkiv-entitydb/src/query/interpreter.rs.                         *)
(*                                                                         *)
(* The query is fixed. What it evaluates to in a committed state is `hits`; *)
(* an ID resolves there if it is in `live`. How the two may change from    *)
(* block to block is what EntityDb shows of the ID counter and the         *)
(* bitmaps: IDs are given out in ascending order and never again, and a    *)
(* deleted ID may stay in a bitmap of $key.                                *)
(***************************************************************************)
EXTENDS Naturals, Sequences, FiniteSets

CONSTANTS
  MaxHead,   \* bound on the blocks committed after the first state
  MaxIds,    \* bound on the entity IDs ever given out
  PageSize,  \* results_per_page, clamped
  Latest,    \* the at_block option that is not a number
  NoCursor   \* None

ASSUME PagesAssumption ==
  /\ MaxHead \in Nat /\ MaxIds \in Nat /\ PageSize \in Nat \ {0}
  /\ Latest \notin Nat /\ NoCursor \notin Nat

VARIABLES
  chain,    \* the committed states, block n at n + 1
  walk,     \* what the client asks for and has received
  request   \* the request that the node is working on

vars == <<chain, walk, request>>
-----------------------------------------------------------------------------
Ids == 0 .. MaxIds - 1
head == Len(chain) - 1
State(n) == chain[n + 1]

\* IDs that the query finds and that resolve to an entity.
Matching(n) == State(n).hits \cap State(n).live

\* The committed states of MaxIds IDs or fewer.
States ==
  {s \in [next : 0 .. MaxIds, live : SUBSET Ids, hits : SUBSET Ids] :
     s.live \cup s.hits \subseteq 0 .. s.next - 1}

\* The states in which a block may end, whatever operations it carries: create
\* gives out the next IDs, delete and expire take IDs from the live ones and
\* may leave them in a bitmap, and no handler touches an ID that is gone.
After(s) ==
  LET gone == (0 .. s.next - 1) \ s.live IN
  {t \in States : /\ t.next >= s.next
                  /\ t.live \cap gone = {}
                  /\ t.hits \cap gone = s.hits \cap gone}
-----------------------------------------------------------------------------
(* The node. *)

\* Faulty variant: the cursor itself is on the page again.
WithinInclusive(cursor, ids) ==
  {i \in ids : cursor = NoCursor \/ i <= cursor}

\* IDs are popped off the tail until they are below the cursor.
Within(cursor, ids) == {i \in ids : cursor = NoCursor \/ i < cursor}

\* The n largest members of ids, in descending order.
Largest(n, ids) ==
  LET above(i) == Cardinality({j \in ids : j > i})
      size == IF Cardinality(ids) < n THEN Cardinality(ids) ELSE n
  IN [k \in 1 .. size |-> CHOOSE i \in ids : above(i) = k - 1]

\* Faulty variant: an ID that does not resolve takes a place on the page, and
\* a page on which none resolves returns the cursor that it was given.
PageOfUnresolved(state, cursor) ==
  LET ids == Within(cursor, state.hits)
      looked == Largest(PageSize, ids)
      entries == SelectSeq(looked, LAMBDA i : i \in state.live)
      last == IF entries = <<>> THEN cursor ELSE entries[Len(entries)]
      more == Cardinality(ids) > PageSize
  IN [entries |-> entries, next |-> IF more THEN last ELSE NoCursor]

\* Faulty variant: the next page is to begin behind the ID that ended this one,
\* which is on neither.
PageOfPeeked(state, cursor) ==
  LET ids == Within(cursor, state.hits)
      entries == Largest(PageSize, ids \cap state.live)
      rest == {i \in ids : Len(entries) = PageSize /\ i < entries[Len(entries)]}
  IN [entries |-> entries, next |-> IF rest = {} THEN NoCursor ELSE Largest(1, rest)[1]]

\* execute: IDs that do not resolve are skipped and take no place. There is
\* more when the page is full and an ID is left, whether or not it resolves.
PageOf(state, cursor) ==
  LET ids == Within(cursor, state.hits)
      entries == Largest(PageSize, ids \cap state.live)
      last == entries[Len(entries)]
      more == Len(entries) = PageSize /\ \E i \in ids : i < last
  IN [entries |-> entries, next |-> IF more THEN last ELSE NoCursor]

NoRequest == [phase |-> "none"]

\* snapshot_for, first half: best_block_number is read, or the number is
\* the one that was asked for.
Number ==
  /\ request.phase = "asked"
  /\ request' = [phase |-> "numbered",
                 number |-> IF walk.at = Latest THEN head ELSE walk.at]
  /\ UNCHANGED <<chain, walk>>

\* Faulty variant: the state of the head, whatever was asked for.
EvaluateHead ==
  /\ request.phase = "numbered"
  /\ request' = [phase |-> "answered", number |-> request.number,
                 block |-> head, page |-> PageOf(State(head), walk.cursor)]
  /\ UNCHANGED <<chain, walk>>

\* snapshot_for, second half, and the evaluation: the state of the head as
\* it is now, or of the block with that number.
Evaluate ==
  /\ request.phase = "numbered"
  /\ LET block == IF walk.at = Latest THEN head ELSE request.number
     IN request' = [phase |-> "answered", number |-> request.number,
                    block |-> block, page |-> PageOf(State(block), walk.cursor)]
  /\ UNCHANGED <<chain, walk>>
-----------------------------------------------------------------------------
(* Its environment: blocks are committed and a client walks. *)

Commit ==
  /\ head < MaxHead
  /\ \E s \in After(State(head)) : chain' = Append(chain, s)
  /\ UNCHANGED <<walk, request>>

\* A new walk, from the first page.
Begin(at) ==
  /\ walk.phase # "walking"
  /\ walk' = [phase |-> "walking", at |-> at, cursor |-> NoCursor, got |-> <<>>,
              from |-> head, to |-> head]
  /\ UNCHANGED <<chain, request>>

Ask ==
  /\ walk.phase = "walking" /\ request.phase = "none"
  /\ request' = [phase |-> "asked"]
  /\ UNCHANGED <<chain, walk>>

\* The answer arrives: the client asks for the next page or is done.
Receive ==
  /\ request.phase = "answered"
  /\ walk' = [walk EXCEPT !.got = @ \o request.page.entries,
                          !.cursor = request.page.next,
                          !.to = request.block,
                          !.phase = IF request.page.next = NoCursor THEN "done" ELSE @]
  /\ request' = NoRequest
  /\ UNCHANGED chain

\* The answer is lost, and the client will ask again.
Lose ==
  /\ request.phase = "answered"
  /\ request' = NoRequest
  /\ UNCHANGED <<chain, walk>>

Init ==
  /\ \E s \in States : chain = <<s>>
  /\ walk = [phase |-> "idle"]
  /\ request = NoRequest

Next ==
  \/ Commit
  \/ \E at \in (0 .. head) \cup {Latest} : Begin(at)
  \/ Ask
  \/ Number
  \/ Evaluate
  \/ Receive
  \/ Lose

Spec == Init /\ [][Next]_vars

\* The node answers each request it has begun, and the client goes on until
\* the walk is over; not every answer is lost.
FairSpec ==
  /\ Spec
  /\ WF_vars(Ask) /\ WF_vars(Number) /\ WF_vars(Evaluate)
  /\ SF_vars(Receive)
=============================================================================
