----------------------------- MODULE Precompile -----------------------------
(***************************************************************************)
(* The six operations of the Arkiv precompile (crates/arkiv-node/src/      *)
(* precompile.rs, apply_op and below): validation against the caller, the  *)
(* block and the stored entity, the payload reference and its payment, the *)
(* dispatch into EntityDb, and the EntityOperation event.                  *)
(*                                                                         *)
(* An operation that fails validation has no step here: what its failure   *)
(* does to the call it belongs to is module Execute.                       *)
(*                                                                         *)
(* A payload reference is what module PayloadReference makes of one that   *)
(* validate_payload_reference accepts, and attributes are what module      *)
(* OperationInput makes of decoded ones.                                   *)
(***************************************************************************)
EXTENDS EntityDb

CONSTANTS
  ZeroAddress,   \* Address::ZERO, a newOwner that TRANSFER rejects
  Providers,     \* addresses of trusted payload providers
  References,    \* what valid payload references authorise
  Btls,          \* values of Operation.btl
  MaxU32,        \* u32::MAX, where event fields are clipped
  PaymentParams, \* payload-provider payment parameters by block
  BaseFee        \* base fee per gas by block

VARIABLES
  nonces,        \* system account: next CREATE nonce by caller
  usedRefs,      \* system account: consumed <<caller, reference nonce>>
  balance,       \* balances, in wei
  block,         \* number of the block under execution
  log            \* EntityOperation events of the call under execution

systemVars == <<nonces, usedRefs, balance>>
-----------------------------------------------------------------------------
Payers == Accounts \cup Providers

RefNonces == {r.nonce : r \in References}

BpsDenominator == 10000

Opcodes == {"CREATE", "UPDATE", "EXTEND", "TRANSFER", "DELETE", "EXPIRE"}

Events == [key : Keys, op : Opcodes, owner : Accounts, expiresAt : 0 .. MaxU32]

ASSUME PrecompileConstantsAssumption ==
  /\ ZeroAddress \notin Accounts
  /\ \A r \in References :
       /\ r.contentType \in ContentTypes
       /\ r.payment \in Nat
       /\ r.provider \in Providers
  /\ Btls \subseteq Nat
  /\ MaxU32 \in Nat
  /\ PaymentParams \in
       [Heights -> [enabled : BOOLEAN, shareBps : Nat, minimum : Nat]]
  /\ BaseFee \in [Heights -> Nat]
-----------------------------------------------------------------------------
(* Helpers                                                                 *)

Smaller(m, n) == IF m <= n THEN m ELSE n

\* u64 saturating_add of the block number and btl.
ExpiryAfter(btl) == Smaller(block + btl, MaxHeight)

ClipU32(n) == Smaller(n, MaxU32)

\* Faulty variant: one key per caller.
DeriveEntityKeyWithoutNonce(caller, nonce) ==
  [addr |-> <<caller, 0>>, tail |-> DerivedTail]

DeriveEntityKey(caller, nonce) ==
  [addr |-> <<caller, nonce>>, tail |-> DerivedTail]

Emit(key, op, owner, expiresAt) ==
  log' = Append(log, [key |-> key, op |-> op, owner |-> owner,
                      expiresAt |-> ClipU32(expiresAt)])

\* Faulty variant: authorises the creator, who may have given the entity away.
LoadedForCreator(caller, key) ==
  LET e == entity[EntityAddress(key)]
  IN /\ e # NoEntity
     /\ e.expiresAt > block
     /\ e.creator = caller

\* Faulty variant: allow_expired = true.
LoadedAlsoExpired(caller, key) ==
  LET e == entity[EntityAddress(key)]
  IN e # NoEntity /\ e.owner = caller

\* load_entity_for_owner with allow_expired = false.
LoadedForOwner(caller, key) ==
  LET e == entity[EntityAddress(key)]
  IN /\ e # NoEntity
     /\ e.expiresAt > block
     /\ e.owner = caller

\* The one-time use of a reference, part of validating it.
ConsumeReference(caller, ref) ==
  /\ <<caller, ref.nonce>> \notin usedRefs
  /\ usedRefs' = usedRefs \cup {<<caller, ref.nonce>>}
-----------------------------------------------------------------------------
(* Payment: the signed gas units at the block's base fee, a share of it to *)
(* the provider and the rest burned.                                       *)

Price(ref) == ref.payment * BaseFee[block]

ProviderAmount(ref) ==
  (Price(ref) * PaymentParams[block].shareBps) \div BpsDenominator

\* Faulty variant: burns the whole price on top of the provider's share.
BurnWholePrice(ref) == Price(ref)

BurnAmount(ref) == Price(ref) - ProviderAmount(ref)

\* Moving value to oneself changes nothing.
Transferred(bal, from, to, amount) ==
  IF from = to THEN bal
  ELSE [bal EXCEPT ![from] = @ - amount, ![to] = @ + amount]

\* The balances after the provider's share has been moved; the burn reads
\* the caller's balance again from here.
AfterTransfer(caller, ref) ==
  Transferred(balance, caller, ref.provider, ProviderAmount(ref))

ApplyPayment(caller, ref) ==
  IF ~PaymentParams[block].enabled
  THEN UNCHANGED balance
  ELSE /\ PaymentParams[block].shareBps <= BpsDenominator
       /\ ref.payment >= PaymentParams[block].minimum
       /\ balance[caller] >= Price(ref)
       /\ AfterTransfer(caller, ref)[caller] >= BurnAmount(ref)
       /\ balance' = [AfterTransfer(caller, ref)
                        EXCEPT ![caller] = @ - BurnAmount(ref)]
-----------------------------------------------------------------------------
(* The operations. The content type stored is the reference's own, not the *)
(* reserved one that the operation carries.                                *)

\* Faulty variant: derives the key but does not store the bumped nonce.
ApplyCreateForgetsNonce(caller, btl, attributes, ref) ==
  LET key == DeriveEntityKey(caller, nonces[caller])
  IN /\ btl # 0
     /\ ConsumeReference(caller, ref)
     /\ ApplyPayment(caller, ref)
     /\ nonces[caller] < MaxNonce
     /\ DbCreate(caller, key, ExpiryAfter(btl), block, ref.contentType, attributes)
     /\ Emit(key, "CREATE", caller, ExpiryAfter(btl))
     /\ UNCHANGED nonces

ApplyCreate(caller, btl, attributes, ref) ==
  LET key == DeriveEntityKey(caller, nonces[caller])
  IN /\ btl # 0
     /\ ConsumeReference(caller, ref)
     /\ ApplyPayment(caller, ref)
     /\ nonces[caller] < MaxNonce
     /\ nonces' = [nonces EXCEPT ![caller] = @ + 1]
     /\ DbCreate(caller, key, ExpiryAfter(btl), block, ref.contentType, attributes)
     /\ Emit(key, "CREATE", caller, ExpiryAfter(btl))

ApplyUpdate(caller, key, attributes, ref) ==
  LET e == entity[EntityAddress(key)]
  IN /\ LoadedForOwner(caller, key)
     /\ ConsumeReference(caller, ref)
     /\ ApplyPayment(caller, ref)
     /\ DbUpdate(key, block, ref.contentType, attributes)
     /\ Emit(key, "UPDATE", e.owner, e.expiresAt)
     /\ UNCHANGED nonces

\* Faulty variant: lets an extension shorten the life of an entity.
ApplyExtendAnyhow(caller, key, btl) ==
  LET e == entity[EntityAddress(key)]
  IN /\ btl # 0
     /\ LoadedForOwner(caller, key)
     /\ ExpiryAfter(btl) # e.expiresAt
     /\ DbExtend(key, block, ExpiryAfter(btl))
     /\ Emit(key, "EXTEND", e.owner, ExpiryAfter(btl))
     /\ UNCHANGED systemVars

ApplyExtend(caller, key, btl) ==
  LET e == entity[EntityAddress(key)]
  IN /\ btl # 0
     /\ LoadedForOwner(caller, key)
     /\ ExpiryAfter(btl) > e.expiresAt
     /\ DbExtend(key, block, ExpiryAfter(btl))
     /\ Emit(key, "EXTEND", e.owner, ExpiryAfter(btl))
     /\ UNCHANGED systemVars

\* Faulty variant: accepts the zero address.
ApplyTransferToAnyone(caller, key, newOwner) ==
  LET e == entity[EntityAddress(key)]
  IN /\ LoadedForOwner(caller, key)
     /\ newOwner # e.owner
     /\ DbTransfer(key, block, newOwner)
     /\ Emit(key, "TRANSFER", newOwner, e.expiresAt)
     /\ UNCHANGED systemVars

\* Faulty variant: the event names the previous owner.
ApplyTransferAnnouncesOld(caller, key, newOwner) ==
  LET e == entity[EntityAddress(key)]
  IN /\ LoadedForOwner(caller, key)
     /\ newOwner # ZeroAddress
     /\ newOwner # e.owner
     /\ DbTransfer(key, block, newOwner)
     /\ Emit(key, "TRANSFER", e.owner, e.expiresAt)
     /\ UNCHANGED systemVars

ApplyTransfer(caller, key, newOwner) ==
  LET e == entity[EntityAddress(key)]
  IN /\ LoadedForOwner(caller, key)
     /\ newOwner # ZeroAddress
     /\ newOwner # e.owner
     /\ DbTransfer(key, block, newOwner)
     /\ Emit(key, "TRANSFER", newOwner, e.expiresAt)
     /\ UNCHANGED systemVars

ApplyDelete(caller, key) ==
  LET e == entity[EntityAddress(key)]
  IN /\ LoadedForOwner(caller, key)
     /\ DbDelete(key)
     /\ Emit(key, "DELETE", e.owner, e.expiresAt)
     /\ UNCHANGED systemVars

\* Open to every caller, as soon as the block reaches the expiry.
ApplyExpire(key) ==
  LET e == entity[EntityAddress(key)]
  IN /\ e # NoEntity
     /\ e.expiresAt <= block
     /\ DbExpire(key)
     /\ Emit(key, "EXPIRE", e.owner, e.expiresAt)
     /\ UNCHANGED systemVars

ApplyOp(caller) ==
  \/ \E btl \in Btls, attributes \in AttrLists, ref \in References :
       ApplyCreate(caller, btl, attributes, ref)
  \/ \E key \in Keys :
       \/ \E attributes \in AttrLists, ref \in References :
            ApplyUpdate(caller, key, attributes, ref)
       \/ \E btl \in Btls : ApplyExtend(caller, key, btl)
       \/ \E newOwner \in Accounts \cup {ZeroAddress} :
            ApplyTransfer(caller, key, newOwner)
       \/ ApplyDelete(caller, key)
       \/ ApplyExpire(key)
=============================================================================
