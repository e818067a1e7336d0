----------------------------- MODULE Simulator ------------------------------
(***************************************************************************)
(* The load generator of crates/arkiv-cli/src/simulate.rs: a pool that     *)
(* mirrors the entities on the chain, a driver that builds batches from it *)
(* for idle signers, and one task per signer that submits its batch, waits *)
(* for the receipt and writes the outcome back into the pool.              *)
(*                                                                         *)
(* The chain is reduced to what a batch can notice: owner and expiry of    *)
(* every entity, and the rules under which a batch executes or reverts     *)
(* (Precompile). The receipt of a batch that ran may be lost, and the task *)
(* then treats it as failed; that such a batch may also run only later,    *)
(* behind the signer's next one, is left out.                              *)
(***************************************************************************)
EXTENDS Integers, FiniteSets, SequencesExt

CONSTANTS
  Signers,      \* the accounts of --signer-count, one slot each
  MaxOps,       \* --max-ops-per-tx
  MaxAlive,     \* --max-alive
  Kinds,        \* operations of positive weight
  Lifespans,    \* blocks to live of a CREATE
  Bumps,        \* blocks that an EXTEND adds
  MaxKeys,      \* bound on the entities created
  MaxHeight,    \* bound on the blocks built
  MaxExpiry,    \* bound on the expiry an EXTEND asks for
  MaxLost,      \* bound on the receipts lost
  NoKey, NoEntry, NoPlan

VARIABLES
  alive,     \* State.alive, by key
  expired,   \* State.expired: candidates for EXPIRE, taken from the end
  reserved,  \* State.expired_pending
  plan,      \* by signer: the batch in flight, its slot being busy; or NoPlan
  ledger,    \* the entities on the chain, by key
  minted,    \* the keys given out by the chain
  height,    \* the block that the chain is building; the head is one below
  lost,      \* receipts lost so far
  dropped,   \* history: candidates for EXPIRE that plans given up had taken
  inline     \* the node takes payloads inline (this repository's does not)

poolVars == <<alive, expired, reserved>>
chainVars == <<ledger, minted, height, inline>>
countVars == <<lost, dropped>>
vars == <<poolVars, plan, chainVars, countVars>>
-----------------------------------------------------------------------------
Keys == 1 .. MaxKeys

\* Entities as the pool remembers them.
Entries == [owner : Signers, expiresAt : Nat, pending : BOOLEAN]

Ops == [kind : {"CREATE", "UPDATE", "EXTEND", "TRANSFER", "DELETE", "EXPIRE"},
        key : Keys \cup {NoKey}, btl : Nat, expiresAt : Nat,
        newOwner : Signers \cup {NoKey}]

\* Entities on the chain.
ChainEntries == [owner : Signers \cup {NoKey}, expiresAt : Nat]

\* Batches in flight, with the keys of their CREATE events once they have run.
Plans == [ops : Seq(Ops), status : {"sent", "executed", "reverted"}, keys : Seq(Nat)]

ASSUME SimulatorAssumption ==
  /\ Signers # {} /\ IsFiniteSet(Signers) /\ MaxOps \in Nat \ {0} /\ MaxAlive \in Nat
  /\ Kinds # {} /\ Kinds \subseteq {"CREATE", "UPDATE", "EXTEND", "TRANSFER", "DELETE"}
  /\ Lifespans \subseteq Nat \ {0} /\ Bumps \subseteq Nat \ {0}
  /\ MaxKeys \in Nat /\ NoKey \notin Keys /\ NoPlan \notin Plans
  /\ NoEntry \notin Entries /\ NoEntry \notin ChainEntries

Larger(m, n) == IF m >= n THEN m ELSE n

\* Keys of the pool that a batch of this signer may name.
Available(s) ==
  {k \in Keys : alive[k] # NoEntry /\ alive[k].owner = s /\ ~alive[k].pending}

AliveCount == Cardinality({k \in Keys : alive[k] # NoEntry})

CountOf(kind, ops) == Cardinality({i \in DOMAIN ops : ops[i].kind = kind})

Op(kind, key, btl, expiresAt, newOwner) ==
  [kind |-> kind, key |-> key, btl |-> btl, expiresAt |-> expiresAt,
   newOwner |-> newOwner]
-----------------------------------------------------------------------------
(* The chain: how a batch executes there.                                  *)

\* load_entity_for_owner: the entity is there, has not expired and is the
\* sender's.
Managed(c, s, key) ==
  /\ c.ledger[key] # NoEntry
  /\ c.ledger[key].expiresAt > height
  /\ c.ledger[key].owner = s

\* The guards of the handlers, as far as a planned operation can fail them: a
\* TRANSFER names a signer, no attribute is malformed, and a payload needs a
\* reference where inline ones are not taken.
Accepted(c, s, op) ==
  CASE op.kind = "CREATE" -> inline /\ op.btl # 0
    [] op.kind = "UPDATE" -> inline /\ Managed(c, s, op.key)
    [] op.kind = "EXTEND" -> /\ op.btl # 0
                             /\ Managed(c, s, op.key)
                             /\ height + op.btl > c.ledger[op.key].expiresAt
    [] op.kind = "TRANSFER" -> Managed(c, s, op.key) /\ op.newOwner # s
    [] op.kind = "DELETE" -> Managed(c, s, op.key)
    [] op.kind = "EXPIRE" -> /\ c.ledger[op.key] # NoEntry
                             /\ c.ledger[op.key].expiresAt <= height

Effect(c, s, op) ==
  CASE op.kind = "CREATE" ->
         [c EXCEPT !.ledger[c.minted + 1] =
                     [owner |-> s, expiresAt |-> height + op.btl],
                   !.minted = @ + 1]
    [] op.kind = "UPDATE" -> c
    [] op.kind = "EXTEND" -> [c EXCEPT !.ledger[op.key].expiresAt = height + op.btl]
    [] op.kind = "TRANSFER" -> [c EXCEPT !.ledger[op.key].owner = op.newOwner]
    [] op.kind \in {"DELETE", "EXPIRE"} -> [c EXCEPT !.ledger[op.key] = NoEntry]

Performed(c, s, op) ==
  IF c.ok /\ Accepted(c, s, op) THEN Effect(c, s, op) ELSE [c EXCEPT !.ok = FALSE]

Executed(s, ops) ==
  LET after[n \in 0 .. Len(ops)] ==
        IF n = 0 THEN [ledger |-> ledger, minted |-> minted, ok |-> TRUE]
        ELSE Performed(after[n - 1], s, ops[n])
  IN after[Len(ops)]

\* All or nothing: a batch of which one operation fails changes nothing.
RunBatch(s, ops) ==
  LET c == Executed(s, ops)
  IN /\ ledger' = IF c.ok THEN c.ledger ELSE ledger
     /\ minted' = IF c.ok THEN c.minted ELSE minted
     /\ UNCHANGED <<height, inline>>
-----------------------------------------------------------------------------
(* Building a batch, under the lock of the pool.                           *)

\* Faulty variant: takes entities that a batch in flight names.
PromotableAnyway(block) ==
  {k \in Keys : alive[k] # NoEntry /\ alive[k].expiresAt <= block}

Promotable(block) ==
  {k \in Keys : /\ alive[k] # NoEntry
                /\ ~alive[k].pending
                /\ alive[k].expiresAt <= block}

Creates(block) ==
  {Op("CREATE", NoKey, l, block + l, NoKey) : l \in Lifespans}

\* The new expiry is computed from the pool's, which the batch itself does
\* not change while it is built.
Extension(block, key, bump) ==
  LET expiresAt == Larger(block + bump, alive[key].expiresAt + 1)
  IN Op("EXTEND", key, expiresAt - block, expiresAt, NoKey)

OwnedOps(s, keys, block) ==
  UNION {{Op("UPDATE", k, 0, 0, NoKey), Op("DELETE", k, 0, 0, NoKey)}
           \cup {Extension(block, k, b) : b \in Bumps}
           \cup {Op("TRANSFER", k, 0, 0, t) : t \in Signers \ {s}} : k \in keys}

\* Operations that is_feasible admits after `creates` CREATEs of the batch,
\* once no candidate for EXPIRE is left.
FeasibleIgnoringBatch(s, keys, block, room, creates) ==
  {op \in OwnedOps(s, keys, block) \cup (IF room > 0 THEN Creates(block) ELSE {}) :
     op.kind \in Kinds}

Feasible(s, keys, block, room, creates) ==
  {op \in OwnedOps(s, keys, block) \cup (IF room > creates THEN Creates(block) ELSE {}) :
     op.kind \in Kinds}

\* Sequences of up to n operations, each feasible where it stands.
Drawn(s, keys, block, room, n) ==
  {ops \in SeqOf(Feasible(s, keys, block, room, 0), n) :
     \A i \in DOMAIN ops :
       ops[i] \in Feasible(s, keys, block, room, CountOf("CREATE", SubSeq(ops, 1, i - 1)))}

Expires(taken) == [i \in DOMAIN taken |-> Op("EXPIRE", taken[i], 0, 0, NoKey)]

\* Bounds on what the chain may have to hold.
WithinBounds(ops) ==
  /\ \A i \in DOMAIN ops : ops[i].expiresAt <= MaxExpiry
  /\ minted + CountOf("CREATE", ops) + Cardinality(
       {q \in Signers \X (1 .. MaxOps) :
          /\ plan[q[1]] # NoPlan /\ plan[q[1]].status = "sent"
          /\ q[2] \in DOMAIN plan[q[1]].ops
          /\ plan[q[1]].ops[q[2]].kind = "CREATE"}) <= MaxKeys

Marked(entries, named) ==
  [k \in Keys |-> IF k \in named /\ entries[k] # NoEntry
                  THEN [entries[k] EXCEPT !.pending = TRUE] ELSE entries[k]]

\* The driver picks the idle slot and reads the block number before it takes
\* the lock, and uses 0 if the node does not answer: by now a lower slot may be
\* idle too, and the number may be that of any earlier block.
\*
\* Under the lock: promote_expired, then build_batch, candidates for EXPIRE first, the rest
\* by weight. When nothing is feasible before the batch has its size, the
\* whole plan is dropped, and the candidates it has taken stay reserved.
Build(s, block) ==
  /\ plan[s] = NoPlan
  /\ LET promoted == Promotable(block)
         left == [k \in Keys |-> IF k \in promoted THEN NoEntry ELSE alive[k]]
         keys == Available(s) \ promoted
         room == MaxAlive - (AliveCount - Cardinality(promoted))
     IN \E order \in SetToSeqs(promoted), size \in 1 .. MaxOps :
          LET queue == expired \o order
              n == IF size <= Len(queue) THEN size ELSE Len(queue)
              taken == Reverse(SubSeq(queue, Len(queue) - n + 1, Len(queue)))
          IN /\ expired' = SubSeq(queue, 1, Len(queue) - n)
             /\ reserved' = reserved \cup ToSet(taken)
             /\ \E ops \in Drawn(s, keys, block, room, size - n) :
                  \/ /\ Len(ops) = size - n
                     /\ WithinBounds(ops)
                     /\ alive' = Marked(left, {ops[i].key : i \in DOMAIN ops})
                     /\ plan' = [plan EXCEPT ![s] = [ops |-> Expires(taken) \o ops,
                                                     status |-> "sent", keys |-> <<>>]]
                     /\ UNCHANGED dropped
                  \/ /\ Len(ops) < size - n
                     /\ Feasible(s, keys, block, room, CountOf("CREATE", ops)) = {}
                     /\ alive' = left
                     /\ dropped' = dropped \cup ToSet(taken)
                     /\ UNCHANGED plan
  /\ UNCHANGED <<chainVars, lost>>
-----------------------------------------------------------------------------
(* The task of a signer: what the receipt does to the pool.                *)

\* Faulty variant: a TRANSFER is not recorded.
FreedKeepsOwner(p, op) ==
  IF p.alive[op.key] = NoEntry THEN p
  ELSE [p EXCEPT !.alive[op.key].pending = FALSE,
                 !.alive[op.key].expiresAt = IF op.kind = "EXTEND" THEN op.expiresAt ELSE @]

\* UPDATE, EXTEND and TRANSFER free their entity and record what they did.
Freed(p, op) ==
  IF p.alive[op.key] = NoEntry THEN p
  ELSE [p EXCEPT !.alive[op.key] =
          [owner |-> IF op.kind = "TRANSFER" THEN op.newOwner ELSE @.owner,
           expiresAt |-> IF op.kind = "EXTEND" THEN op.expiresAt ELSE @.expiresAt,
           pending |-> FALSE]]

\* The keys of the CREATE events are used up in their order.
AfterSuccess(s, p, op) ==
  CASE op.kind = "CREATE" ->
         IF p.keys = <<>> THEN p
         ELSE [p EXCEPT !.alive[Head(p.keys)] = [owner |-> s, expiresAt |-> op.expiresAt,
                                                 pending |-> FALSE],
                        !.keys = Tail(@)]
    [] op.kind = "EXPIRE" -> [p EXCEPT !.reserved = @ \ {op.key}]
    [] op.kind = "DELETE" -> [p EXCEPT !.alive[op.key] = NoEntry]
    [] OTHER -> Freed(p, op)

\* What is left of p when the operations of a batch have been recorded.
Mirrored(s, p, ops) ==
  LET after[n \in 0 .. Len(ops)] ==
        IF n = 0 THEN p ELSE AfterSuccess(s, after[n - 1], ops[n])
  IN after[Len(ops)]

\* The pool once the receipt of a batch that ran is in.
Outcome(s) ==
  Mirrored(s, [alive |-> alive, reserved |-> reserved, keys |-> plan[s].keys], plan[s].ops)

ApplySuccess(s) ==
  /\ alive' = Outcome(s).alive
  /\ reserved' = Outcome(s).reserved
  /\ UNCHANGED expired

\* The candidates for EXPIRE among the operations, in their order.
Candidates(ops) ==
  LET upTo[n \in 0 .. Len(ops)] ==
        IF n = 0 THEN <<>>
        ELSE IF ops[n].kind = "EXPIRE" /\ ops[n].key \in reserved
        THEN Append(upTo[n - 1], ops[n].key)
        ELSE upTo[n - 1]
  IN upTo[Len(ops)]

Unmarked(entries, named) ==
  [k \in Keys |-> IF k \in named /\ entries[k] # NoEntry
                  THEN [entries[k] EXCEPT !.pending = FALSE] ELSE entries[k]]

\* Faulty variant: candidates for EXPIRE are dropped.
ApplyFailureDropsCandidates(s) ==
  LET ops == plan[s].ops
  IN /\ alive' = Unmarked(alive, {ops[i].key : i \in DOMAIN ops})
     /\ reserved' = reserved \ ToSet(Candidates(ops))
     /\ UNCHANGED expired

\* Targets are free again; candidates for EXPIRE go back to the queue.
ApplyFailure(s) ==
  LET ops == plan[s].ops
  IN /\ alive' = Unmarked(alive, {ops[i].key : i \in DOMAIN ops})
     /\ expired' = expired \o Candidates(ops)
     /\ reserved' = reserved \ ToSet(Candidates(ops))

Release(s) == plan' = [plan EXCEPT ![s] = NoPlan]

\* The node refuses the transaction; it never runs.
SendFails(s) ==
  /\ plan[s] # NoPlan /\ plan[s].status = "sent"
  /\ ApplyFailure(s) /\ Release(s)
  /\ UNCHANGED <<chainVars, countVars>>

ReceiptArrives(s) ==
  /\ plan[s] # NoPlan
  /\ \/ plan[s].status = "executed" /\ ApplySuccess(s)
     \/ plan[s].status = "reverted" /\ ApplyFailure(s)
  /\ Release(s)
  /\ UNCHANGED <<chainVars, countVars>>

\* The answer is an error although the batch has run.
ReceiptLost(s) ==
  /\ plan[s] # NoPlan /\ plan[s].status = "executed"
  /\ lost < MaxLost
  /\ lost' = lost + 1
  /\ ApplyFailure(s) /\ Release(s)
  /\ UNCHANGED <<chainVars, dropped>>
-----------------------------------------------------------------------------
(* The chain.                                                              *)

Mine(s) ==
  /\ plan[s] # NoPlan /\ plan[s].status = "sent"
  /\ RunBatch(s, plan[s].ops)
  /\ plan' = [plan EXCEPT
       ![s].status = IF Executed(s, plan[s].ops).ok THEN "executed" ELSE "reverted",
       ![s].keys = [i \in 1 .. minted' - minted |-> minted + i]]
  /\ UNCHANGED <<poolVars, countVars>>

NewBlock ==
  /\ height < MaxHeight
  /\ height' = height + 1
  /\ UNCHANGED <<poolVars, plan, ledger, minted, inline, countVars>>
-----------------------------------------------------------------------------
Init ==
  /\ alive = [k \in Keys |-> NoEntry]
  /\ expired = <<>>
  /\ reserved = {}
  /\ plan = [s \in Signers |-> NoPlan]
  /\ ledger = [k \in Keys |-> NoEntry]
  /\ minted = 0
  /\ height = 1
  /\ lost = 0
  /\ dropped = {}
  /\ inline \in BOOLEAN

Next ==
  \/ NewBlock
  \/ \E s \in Signers :
       \/ \E block \in 0 .. height - 1 : Build(s, block)
       \/ SendFails(s) \/ ReceiptArrives(s) \/ ReceiptLost(s)
       \/ Mine(s)

Spec == Init /\ [][Next]_vars
=============================================================================
