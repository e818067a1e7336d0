------------------------------ MODULE Registry ------------------------------
(***************************************************************************)
(* What Arkiv promises its users, without IDs, bitmaps, trees, journal or  *)
(* order of operations: a registry of live entities whose query answers    *)
(* are a function of the entities, and whose calls are atomic and can do   *)
(* only what their caller may.                                             *)
(***************************************************************************)
EXTENDS Naturals

CONSTANTS
  Callers,       \* accounts that mint and own entities
  Addresses,     \* entity addresses, <<minter, serial number>>
  Terms,         \* (name, value) pairs an equality query can ask for
  OrderedTerms,  \* those of them that range and prefix queries enumerate
  None           \* no entity

VARIABLES
  live,          \* entities by address
  minted,        \* addresses minted so far, by caller
  height,        \* block number
  answer,        \* the addresses that an equality query returns, by term
  values         \* the terms that ordered enumeration yields

rvars == <<live, minted, height, answer, values>>
-----------------------------------------------------------------------------
\* Queries see exactly the live entities. (The quantifier over one set of
\* terms by address stands for a LET that TLC evaluates once.)
Indexed ==
  \E carried \in {{<<a, live[a].terms>> : a \in {b \in Addresses : live[b] # None}}} :
    /\ answer = [t \in Terms |-> {p[1] : p \in {q \in carried : t \in q[2]}}]
    /\ values = {t \in OrderedTerms : \E p \in carried : t \in p[2]}

Init ==
  /\ live = [a \in Addresses |-> None]
  /\ minted = [c \in Callers |-> 0]
  /\ height = 0
  /\ Indexed

\* The caller's own entity, while it has not expired: it may be rewritten,
\* handed over, given more time or removed. Where it came from stays.
Managed(a, c) ==
  /\ live[a] # None
  /\ live[a].owner = c
  /\ live[a].expiresAt > height
  /\ live'[a] # None =>
       /\ live'[a].origin = live[a].origin
       /\ live'[a].expiresAt >= live[a].expiresAt

\* Anybody may clear away an entity that has expired.
Cleared(a) ==
  /\ live[a] # None
  /\ live[a].expiresAt <= height
  /\ live'[a] = None

\* An address minted by this very call.
Minted(a, c) ==
  /\ a[1] = c
  /\ minted[c] <= a[2]
  /\ a[2] < minted'[c]
  /\ live'[a] # None => live'[a].origin = <<c, height>>

Call(c) ==
  /\ minted'[c] >= minted[c]
  /\ \A d \in Callers \ {c} : minted'[d] = minted[d]
  /\ \A a \in Addresses :
       live'[a] = live[a] \/ Managed(a, c) \/ Cleared(a) \/ Minted(a, c)
  /\ Indexed'
  /\ UNCHANGED height

Tick ==
  /\ height' = height + 1
  /\ UNCHANGED <<live, minted, answer, values>>

Next == Tick \/ \E c \in Callers : Call(c)

Spec == Init /\ [][Next]_rvars
=============================================================================
