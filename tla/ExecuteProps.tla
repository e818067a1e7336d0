---------------------------- MODULE ExecuteProps ----------------------------
(***************************************************************************)
(* What the precompile and the entity database promise, stated over the    *)
(* behaviours of module Execute. Every state invariant is about the state  *)
(* inside a running call as well as between calls.                         *)
(***************************************************************************)
EXTENDS Execute, EntityDbProps

\* One type invariant for the whole state; the journal checkpoint is typed
\* by the state it was taken from.
TypeOK ==
  /\ DbTypeOK
  /\ nonces \in [Accounts -> 0 .. MaxNonce]
  /\ usedRefs \subseteq Accounts \X RefNonces
  /\ balance \in [Payers -> Nat]
  /\ block \in 0 .. MaxBlock
  /\ log \in Seq(Events)
  /\ call \in {NoCall} \cup [caller : Accounts, done : 0 .. MaxBatch]

\* The address that the caller's next CREATE derives is unused, so a CREATE
\* never overwrites an entity, and the stored key is the minted one.
MintedOnce ==
  \A a \in Addrs : entity[a] # NoEntity =>
    /\ a[2] < nonces[a[1]]
    /\ entity[a].key = DeriveEntityKey(a[1], a[2])
    /\ entity[a].creator = a[1]

\* A call cannot touch what belongs to somebody else and has not expired,
\* however its operations are combined.
OthersUntouched ==
  call # NoCall =>
    \A a \in Addrs :
      LET before == saved.entity[a]
      IN (/\ before # NoEntity
          /\ before.expiresAt > block
          /\ before.owner # call.caller) => entity[a] = before

\* An expired entity can be removed and nothing else: no operation of any
\* call revives or rewrites it.
ExpiredIsFinal ==
  call # NoCall =>
    \A a \in Addrs :
      LET before == saved.entity[a]
      IN (before # NoEntity /\ before.expiresAt <= block)
           => entity[a] \in {before, NoEntity}

\* Whenever the balance check of a payment passes, so does the checked
\* subtraction of the burn that follows the transfer: that error path of
\* apply_payload_provider_payment is dead, also when caller and provider are
\* the same account.
BurnNeverFails ==
  PaymentParams[block].shareBps <= BpsDenominator =>
    \A c \in Accounts, r \in References :
      balance[c] >= Price(r) => AfterTransfer(c, r)[c] >= BurnAmount(r)

\* The account of an entity that its events give.
EventView(e) ==
  IF e = NoEntity THEN NoEntity
  ELSE [owner |-> e.owner, expiresAt |-> ClipU32(e.expiresAt)]

AfterEvent(view, ev) ==
  [view EXCEPT ![EntityAddress(ev.key)] =
     IF ev.op \in {"DELETE", "EXPIRE"} THEN NoEntity
     ELSE [owner |-> ev.owner, expiresAt |-> ev.expiresAt]]

\* A reader who knows the entities before a call and replays the call's
\* EntityOperation events in order, by entity address, knows the existence,
\* owner and (clipped) expiry of every entity after it.
EventsTellTheCall ==
  call # NoCall =>
    LET view[n \in 0 .. Len(log)] ==
          IF n = 0 THEN [a \in Addrs |-> EventView(saved.entity[a])]
          ELSE AfterEvent(view[n - 1], log[n])
    IN view[Len(log)] = [a \in Addrs |-> EventView(entity[a])]
-----------------------------------------------------------------------------
\* Between calls: an entity address that was minted and is empty stays
\* empty; a deleted or expired entity never comes back.
DeletedForever ==
  [][\A a \in Addrs :
       (Committed.entity[a] = NoEntity /\ a[2] < Committed.nonces[a[1]])
         => Committed'.entity[a] = NoEntity]_vars

\* Between calls: an entity ID, once given out, leads to the entity it was
\* given to or to nothing, so a stale ID never resolves to another entity.
\* (Which IDs have been given out is what the counter says; it never falls.)
IdsNeverReused ==
  [][/\ Committed'.entityCount >= Committed.entityCount
     /\ \A i \in Ids :
          i < Committed.entityCount
            => Committed'.idToAddr[i] \in {Committed.idToAddr[i], NoAddr}]_vars
-----------------------------------------------------------------------------
(* Execute implements Registry: what is committed, seen through the query  *)
(* path (bitmap, then resolve_id), is the abstract registry.               *)

\* The mark of empty code is no view of an entity either.
ASSUME NoEntityAssumption ==
  NoEntity \notin [origin : Accounts \X Heights, owner : Accounts,
                   expiresAt : Heights, terms : SUBSET Pairs]

LiveView(e) ==
  IF e = NoEntity THEN NoEntity
  ELSE [origin |-> <<e.creator, e.createdAt>>, owner |-> e.owner,
        expiresAt |-> e.expiresAt, terms |-> CarriedPairs(e) \cap StablePairs]

\* resolve_id of every ID of a bitmap, unset slots left out.
Resolved(ids) == {Committed.idToAddr[i] : i \in ids} \ {NoAddr}

AbstractRegistry ==
  INSTANCE Registry WITH
    Callers <- Accounts, Addresses <- Addrs, Terms <- StablePairs,
    OrderedTerms <- OrderedPairs, None <- NoEntity,
    live <- [a \in Addrs |-> LiveView(Committed.entity[a])],
    minted <- Committed.nonces, height <- block,
    answer <- [p \in StablePairs |-> Resolved(Committed.pair[p])],
    values <- Committed.index \cap OrderedPairs

\* Every call, however its operations are combined, is one step that its
\* caller is entitled to, and query answers stay a function of the live
\* entities.
ImplementsRegistry == AbstractRegistry!Spec
=============================================================================
