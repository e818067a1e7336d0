--------------------------- MODULE SimulatorProps ---------------------------
(***************************************************************************)
(* What the reservations and the mirror of the load generator are for,     *)
(* over the behaviours of module Simulator.                                *)
(***************************************************************************)
EXTENDS Simulator, FiniteSetsExt

InFlight == {s \in Signers : plan[s] # NoPlan}

\* Keys that the batch in flight of a signer names.
Named(s) == {plan[s].ops[i].key : i \in DOMAIN plan[s].ops} \ {NoKey}

\* No two batches in flight name the same entity, neither as the target of an
\* operation nor as a candidate for EXPIRE (pending, expired_pending and the
\* exception for pending entities in promote_expired).
ReservationsExclusive ==
  \A s, t \in InFlight : s # t => Named(s) \cap Named(t) = {}

\* As long as no receipt was lost, an entity of the pool that no batch holds
\* is on the chain with the pool's owner and an expiry not before the pool's,
\* so a batch fails because of time or of itself and never of a wrong mirror.
PoolMirrorsChain ==
  lost = 0 =>
    \A k \in Keys :
      alive[k] # NoEntry /\ ~alive[k].pending =>
        /\ ledger[k] # NoEntry
        /\ ledger[k].owner = alive[k].owner
        /\ ledger[k].expiresAt >= alive[k].expiresAt

\* The places from which the generator can still come back to an entity: the
\* pool, the queue of EXPIRE candidates, a reservation that a batch in flight
\* will give back or use up, and receipts that have not come in.
Places(k) ==
  {<<"alive", i>> : i \in {j \in {k} : alive[j] # NoEntry}}
    \cup {<<"expired", i>> : i \in {j \in DOMAIN expired : expired[j] = k}}
    \cup {<<"batch", s>> : s \in {t \in InFlight : k \in reserved \cap Named(t)}}
    \cup {<<"receipt", s>> : s \in {t \in InFlight : k \in ToSet(plan[t].keys)}}

\* As long as no receipt was lost, an entity on the chain is remembered in
\* exactly one place: it can still be expired, and is never queued twice.
\* The exceptions are the candidates for EXPIRE of a plan that build_batch gave
\* up: they stay reserved without a batch, and nothing takes them up again.
OnlyDroppedPlansForget ==
  lost = 0 =>
    \A k \in Keys : ledger[k] # NoEntry =>
      Cardinality(Places(k)) = IF k \in dropped THEN 0 ELSE 1

\* Entities that the pool will hold once the receipts are in, by signer.
CreatesInFlight ==
  [s \in Signers |-> IF plan[s] = NoPlan \/ plan[s].status = "reverted" THEN 0
                     ELSE CountOf("CREATE", plan[s].ops)]

\* Parallel batches do not see each other's CREATEs, so the pool may outgrow
\* --max-alive, but only by what the other signers can have in flight.
OvershootBounded ==
  AliveCount + SumFunctionOnSet(CreatesInFlight, Signers)
    <= MaxAlive + (Cardinality(Signers) - 1) * Min({MaxOps, MaxAlive})
=============================================================================
