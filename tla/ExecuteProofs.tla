--------------------------- MODULE ExecuteProofs ----------------------------
(***************************************************************************)
(* The invariants and action properties of ExecuteProps and PaymentProps,  *)
(* for every value of the constants.                                       *)
(*                                                                         *)
(* None of them is inductive alone. A revert puts back whatever the        *)
(* journal checkpoint holds, so the checkpoint must satisfy StateInv too;  *)
(* what a call may not do to the state it started from is carried through  *)
(* the call, from the checkpoint to the present, by CallProgress; and what *)
(* it has told and paid since is what AccountInv adds to that.             *)
(*                                                                         *)
(* Then the refinement of Registry: the initial states map to initial      *)
(* states, a commit maps to a step of its caller, a block to a tick, and   *)
(* every other step to a stutter. And what the query interpreter reads     *)
(* from the indexes is what the entities carry, for a scan and, by         *)
(* induction over the levels of connectives, for every query tree.         *)
(*                                                                         *)
(* First, every operation of the precompile keeps the invariants of the    *)
(* state it works on, and what it reaches, tells and pays.                 *)
(***************************************************************************)
EXTENDS EntityDbProofs, PaymentProps, OperationInput, SequenceTheorems, FoldProofs, QueryEval

-----------------------------------------------------------------------------
(* The operations of the precompile. *)

SystemTypeOK ==
  /\ nonces \in [Accounts -> 0 .. MaxNonce]
  /\ usedRefs \subseteq Accounts \X RefNonces
  /\ balance \in [Payers -> Nat]

StateInv ==
  /\ DbInv
  /\ SystemTypeOK
  /\ MintedOnce

(***************************************************************************)
(* Helpers                                                                 *)
(***************************************************************************)

\* The saturating sum of block and btl is a height.
LEMMA ExpiryIsHeight ==
  ASSUME block \in Heights, NEW btl \in Btls
  PROVE  ExpiryAfter(btl) \in Heights
BY DbConstantsAssumption, PrecompileConstantsAssumption
   DEF ExpiryAfter, Smaller, Heights

\* An emitted event is well formed, its expiry clipped to 32 bits.
LEMMA EmitKeepsLog ==
  ASSUME log \in Seq(Events), NEW key \in Keys, NEW op \in Opcodes,
         NEW owner \in Accounts, NEW expiresAt \in Heights,
         Emit(key, op, owner, expiresAt)
  PROVE  log' \in Seq(Events)
<1>1. ClipU32(expiresAt) \in 0 .. MaxU32
  BY PrecompileConstantsAssumption, DbConstantsAssumption DEF ClipU32, Smaller, Heights
<1>2. [key |-> key, op |-> op, owner |-> owner, expiresAt |-> ClipU32(expiresAt)] \in Events
  BY <1>1 DEF Events
<1> QED
  BY <1>2 DEF Emit

\* A share of at most all basis points is at most the price.
LEMMA ShareOfPrice ==
  ASSUME NEW price \in Nat, NEW bps \in 0 .. BpsDenominator
  PROVE  (price * bps) \div BpsDenominator \in 0 .. price
<1>1. price * bps \in Nat /\ price * bps <= price * 10000
  BY DEF BpsDenominator
<1> DEFINE total == price * bps
<1>2. total \in Nat /\ total <= 10000 * price
  BY <1>1
<1> HIDE DEF total
<1>3. total \div 10000 \in 0 .. price
  BY <1>2
<1> QED
  BY <1>3 DEF total, BpsDenominator

\* The provider's share and the burned rest make up the price.
LEMMA PriceSplits ==
  ASSUME block \in Heights, NEW ref \in References,
         PaymentParams[block].shareBps <= BpsDenominator
  PROVE  /\ Price(ref) \in Nat
         /\ ProviderAmount(ref) \in 0 .. Price(ref)
         /\ BurnAmount(ref) = Price(ref) - ProviderAmount(ref)
         /\ BurnAmount(ref) \in Nat
<1>1. /\ ref.payment \in Nat /\ BaseFee[block] \in Nat
      /\ PaymentParams[block].shareBps \in 0 .. BpsDenominator
  <2>1. PaymentParams[block] \in [enabled : BOOLEAN, shareBps : Nat, minimum : Nat]
    BY PrecompileConstantsAssumption
  <2>2. PaymentParams[block].shareBps \in Nat
    BY <2>1
  <2>3. PaymentParams[block].shareBps \in 0 .. BpsDenominator
    <3>1. \A n \in Nat : n <= BpsDenominator => n \in 0 .. BpsDenominator
      BY DEF BpsDenominator
    <3> QED
      BY <2>2, <3>1
  <2>4. ref.payment \in Nat
    BY PrecompileConstantsAssumption
  <2>5. BaseFee[block] \in Nat
    BY PrecompileConstantsAssumption
  <2> QED
    BY <2>3, <2>4, <2>5
<1>2. Price(ref) \in Nat
  BY <1>1 DEF Price
<1>3. ProviderAmount(ref) \in 0 .. Price(ref)
  BY <1>1, <1>2, ShareOfPrice DEF ProviderAmount
<1> QED
  BY <1>2, <1>3 DEF BurnAmount

\* After the transfer the caller still has what is to be burned, also when
\* it pays itself.
LEMMA TransferLeaves ==
  ASSUME SystemTypeOK, block \in Heights, NEW caller \in Accounts,
         NEW ref \in References, PaymentParams[block].shareBps <= BpsDenominator,
         balance[caller] >= Price(ref)
  PROVE  /\ AfterTransfer(caller, ref) \in [Payers -> Nat]
         /\ AfterTransfer(caller, ref)[caller] >= BurnAmount(ref)
<1>1. caller \in Payers /\ ref.provider \in Payers
  BY PrecompileConstantsAssumption DEF Payers
<1>2. balance \in [Payers -> Nat]
  BY DEF SystemTypeOK
<1>3. /\ Price(ref) \in Nat /\ ProviderAmount(ref) \in 0 .. Price(ref)
      /\ BurnAmount(ref) = Price(ref) - ProviderAmount(ref)
  BY PriceSplits
<1>4. CASE caller = ref.provider
  BY <1>1, <1>2, <1>3, <1>4 DEF AfterTransfer, Transferred
<1>5. CASE caller # ref.provider
  <2>1. AfterTransfer(caller, ref) =
          [balance EXCEPT ![caller] = @ - ProviderAmount(ref),
                          ![ref.provider] = @ + ProviderAmount(ref)]
    BY <1>5 DEF AfterTransfer, Transferred
  <2>2. /\ balance[caller] \in Nat /\ balance[ref.provider] \in Nat
        /\ balance[caller] - ProviderAmount(ref) \in Nat
    BY <1>1, <1>2, <1>3
  <2> QED
    BY <1>1, <1>2, <1>3, <1>5, <2>1, <2>2
<1> QED
  BY <1>4, <1>5

\* A payment leaves no negative balance.
LEMMA PaymentKeepsBalances ==
  ASSUME SystemTypeOK, block \in Heights, NEW caller \in Accounts,
         NEW ref \in References, ApplyPayment(caller, ref)
  PROVE  balance' \in [Payers -> Nat]
<1>1. CASE ~PaymentParams[block].enabled
  BY <1>1 DEF ApplyPayment, SystemTypeOK
<1>2. CASE PaymentParams[block].enabled
  <2>1. /\ PaymentParams[block].shareBps <= BpsDenominator
        /\ balance[caller] >= Price(ref)
        /\ balance' = [AfterTransfer(caller, ref)
                         EXCEPT ![caller] = @ - BurnAmount(ref)]
    BY <1>2 DEF ApplyPayment
  <2>2. /\ AfterTransfer(caller, ref) \in [Payers -> Nat]
        /\ AfterTransfer(caller, ref)[caller] >= BurnAmount(ref)
        /\ BurnAmount(ref) \in Nat
    BY <2>1, TransferLeaves, PriceSplits
  <2>3. AfterTransfer(caller, ref)[caller] - BurnAmount(ref) \in Nat
    BY <2>2 DEF Payers
  <2> QED
    BY <2>1, <2>2, <2>3
<1> QED
  BY <1>1, <1>2

(***************************************************************************)
(* Operations                                                              *)
(***************************************************************************)

\* Consuming a reference keeps the set of used ones well typed.
LEMMA ReferenceKeepsUsed ==
  ASSUME SystemTypeOK, NEW caller \in Accounts, NEW ref \in References,
         ConsumeReference(caller, ref)
  PROVE  usedRefs' \subseteq Accounts \X RefNonces
BY DEF SystemTypeOK, ConsumeReference, RefNonces

\* What every operation keeps.
OpKeeps == StateInv' /\ log' \in Seq(Events)

\* CREATE keeps the invariants: the nonce it takes makes its address new.
LEMMA CreateOpKeeps ==
  ASSUME StateInv, log \in Seq(Events), block \in Heights,
         NEW caller \in Accounts, NEW btl \in Btls, NEW attributes \in AttrLists,
         NEW ref \in References, ApplyCreate(caller, btl, attributes, ref)
  PROVE  OpKeeps
<1> DEFINE n == nonces[caller]
           key == DeriveEntityKey(caller, n)
           addr == EntityAddress(key)
<1>1. /\ nonces' = [nonces EXCEPT ![caller] = n + 1]
      /\ ConsumeReference(caller, ref)
      /\ ApplyPayment(caller, ref)
      /\ n < MaxNonce
      /\ DbCreate(caller, key, ExpiryAfter(btl), block, ref.contentType, attributes)
      /\ Emit(key, "CREATE", caller, ExpiryAfter(btl))
  BY DEF ApplyCreate
<1>2. /\ n \in 0 .. (MaxNonce - 1)
      /\ n + 1 \in 0 .. MaxNonce
      /\ nonces \in [Accounts -> 0 .. MaxNonce]
  BY <1>1, DbConstantsAssumption DEF StateInv, SystemTypeOK
<1>3. key \in Keys /\ addr = <<caller, n>> /\ addr \in Addrs
  BY <1>2, DbConstantsAssumption DEF DeriveEntityKey, Keys, Addrs, EntityAddress
<1>4. entity[addr] = NoEntity
  BY <1>2, <1>3 DEF StateInv, MintedOnce
<1>5. ExpiryAfter(btl) \in Heights /\ ref.contentType \in ContentTypes
  BY ExpiryIsHeight, PrecompileConstantsAssumption
<1>6. DbInv'
  BY <1>1, <1>3, <1>4, <1>5, CreateKeeps DEF StateInv
<1>7. SystemTypeOK'
  BY <1>1, <1>2, ReferenceKeepsUsed, PaymentKeepsBalances DEF StateInv, SystemTypeOK
<1>8. MintedOnce'
  <2> SUFFICES ASSUME NEW a \in Addrs, entity'[a] # NoEntity
               PROVE  /\ a[2] < nonces'[a[1]]
                      /\ entity'[a].key = DeriveEntityKey(a[1], a[2])
                      /\ entity'[a].creator = a[1]
    BY DEF MintedOnce
  <2>1. a[1] \in Accounts /\ a[2] \in 0 .. (MaxNonce - 1)
    BY DEF Addrs
  <2>2. entity \in [Addrs -> Entities \cup {NoEntity}]
    BY DEF StateInv, DbInv, DbTypeOK
  <2>3. CASE a = addr
    <3>1. entity'[addr].key = key /\ entity'[addr].creator = caller
      BY <1>1, <1>3, <2>2 DEF DbCreate
    <3> QED
      BY <2>3, <3>1, <1>1, <1>2, <1>3
  <2>4. CASE a # addr
    <3>1. entity'[a] = entity[a]
      BY <1>1, <2>2, <2>4 DEF DbCreate
    <3>2. a[2] < nonces[a[1]]
      BY <3>1 DEF StateInv, MintedOnce
    <3>3. nonces'[a[1]] >= nonces[a[1]] /\ nonces[a[1]] \in Nat /\ nonces'[a[1]] \in Nat
      BY <1>1, <1>2, <2>1
    <3> QED
      BY <2>1, <3>1, <3>2, <3>3 DEF StateInv, MintedOnce
  <2> QED
    BY <2>3, <2>4
<1>9. log' \in Seq(Events)
  BY <1>1, <1>3, <1>5, EmitKeepsLog DEF Opcodes
<1> QED
  BY <1>6, <1>7, <1>8, <1>9 DEF OpKeeps, StateInv

\* An operation on a stored entity keeps its origin, so it keeps MintedOnce.
LEMMA KeepsMinted ==
  ASSUME StateInv, NEW addr \in Addrs, NEW new,
         entity[addr] # NoEntity,
         new # NoEntity => new.key = entity[addr].key /\ new.creator = entity[addr].creator,
         entity' = [entity EXCEPT ![addr] = new],
         nonces' = nonces
  PROVE  MintedOnce'
<1>1. entity \in [Addrs -> Entities \cup {NoEntity}]
  BY DEF StateInv, DbInv, DbTypeOK
<1> QED
  BY <1>1 DEF StateInv, MintedOnce

\* What is stored at the address of a key is an entity.
LEMMA Stored ==
  ASSUME StateInv, NEW key \in Keys, entity[EntityAddress(key)] # NoEntity
  PROVE  /\ EntityAddress(key) \in Addrs
         /\ entity[EntityAddress(key)] \in Entities
         /\ entity[EntityAddress(key)].owner \in Accounts
         /\ entity[EntityAddress(key)].expiresAt \in Heights
BY EntityIsTyped DEF StateInv, DbInv, Keys, EntityAddress, Entities

\* UPDATE keeps the invariants.
LEMMA UpdateOpKeeps ==
  ASSUME StateInv, log \in Seq(Events), block \in Heights,
         NEW caller \in Accounts, NEW key \in Keys, NEW attributes \in AttrLists,
         NEW ref \in References, ApplyUpdate(caller, key, attributes, ref)
  PROVE  OpKeeps
<1> DEFINE addr == EntityAddress(key)
           e == entity[addr]
<1>1. /\ e # NoEntity
      /\ ConsumeReference(caller, ref)
      /\ ApplyPayment(caller, ref)
      /\ DbUpdate(key, block, ref.contentType, attributes)
      /\ Emit(key, "UPDATE", e.owner, e.expiresAt)
      /\ nonces' = nonces
  BY DEF ApplyUpdate, LoadedForOwner
<1>2. addr \in Addrs /\ e \in Entities /\ e.owner \in Accounts /\ e.expiresAt \in Heights
  BY <1>1, Stored
<1>3. DbInv'
  BY <1>1, UpdateKeeps, PrecompileConstantsAssumption DEF StateInv
<1>4. SystemTypeOK'
  BY <1>1, ReferenceKeepsUsed, PaymentKeepsBalances DEF StateInv, SystemTypeOK
<1>5. MintedOnce'
  BY <1>1, <1>2, KeepsMinted DEF DbUpdate, Entities
<1>6. log' \in Seq(Events)
  BY <1>1, <1>2, EmitKeepsLog DEF Opcodes
<1> QED
  BY <1>3, <1>4, <1>5, <1>6 DEF OpKeeps, StateInv

\* EXTEND keeps the invariants.
LEMMA ExtendOpKeeps ==
  ASSUME StateInv, log \in Seq(Events), block \in Heights,
         NEW caller \in Accounts, NEW key \in Keys, NEW btl \in Btls,
         ApplyExtend(caller, key, btl)
  PROVE  OpKeeps
<1> DEFINE addr == EntityAddress(key)
           e == entity[addr]
<1>1. /\ e # NoEntity
      /\ DbExtend(key, block, ExpiryAfter(btl))
      /\ Emit(key, "EXTEND", e.owner, ExpiryAfter(btl))
      /\ nonces' = nonces /\ usedRefs' = usedRefs /\ balance' = balance
  BY DEF ApplyExtend, LoadedForOwner, systemVars
<1>2. addr \in Addrs /\ e \in Entities /\ e.owner \in Accounts
  BY <1>1, Stored
<1>3. ExpiryAfter(btl) \in Heights
  BY ExpiryIsHeight
<1>4. DbInv'
  BY <1>1, <1>3, ExtendKeeps DEF StateInv
<1>5. MintedOnce'
  BY <1>1, <1>2, KeepsMinted DEF DbExtend, Entities
<1>6. log' \in Seq(Events)
  BY <1>1, <1>2, <1>3, EmitKeepsLog DEF Opcodes
<1> QED
  BY <1>1, <1>4, <1>5, <1>6 DEF OpKeeps, StateInv, SystemTypeOK

\* TRANSFER keeps the invariants; the zero address never becomes an owner.
LEMMA TransferOpKeeps ==
  ASSUME StateInv, log \in Seq(Events), block \in Heights,
         NEW caller \in Accounts, NEW key \in Keys,
         NEW newOwner \in Accounts \cup {ZeroAddress},
         ApplyTransfer(caller, key, newOwner)
  PROVE  OpKeeps
<1> DEFINE addr == EntityAddress(key)
           e == entity[addr]
<1>1. /\ e # NoEntity /\ newOwner \in Accounts
      /\ DbTransfer(key, block, newOwner)
      /\ Emit(key, "TRANSFER", newOwner, e.expiresAt)
      /\ nonces' = nonces /\ usedRefs' = usedRefs /\ balance' = balance
  BY DEF ApplyTransfer, LoadedForOwner, systemVars
<1>2. addr \in Addrs /\ e \in Entities /\ e.expiresAt \in Heights
  BY <1>1, Stored
<1>3. DbInv'
  BY <1>1, TransferKeeps DEF StateInv
<1>4. MintedOnce'
  BY <1>1, <1>2, KeepsMinted DEF DbTransfer, Entities
<1>5. log' \in Seq(Events)
  BY <1>1, <1>2, EmitKeepsLog DEF Opcodes
<1> QED
  BY <1>1, <1>3, <1>4, <1>5 DEF OpKeeps, StateInv, SystemTypeOK

\* DELETE and EXPIRE, which share their state path.
LEMMA DeleteOpKeeps ==
  ASSUME StateInv, log \in Seq(Events), block \in Heights,
         NEW caller \in Accounts, NEW key \in Keys,
         ApplyDelete(caller, key) \/ ApplyExpire(key)
  PROVE  OpKeeps
<1> DEFINE addr == EntityAddress(key)
           e == entity[addr]
<1>1. /\ e # NoEntity
      /\ DbDelete(key)
      /\ \E op \in Opcodes : Emit(key, op, e.owner, e.expiresAt)
      /\ nonces' = nonces /\ usedRefs' = usedRefs /\ balance' = balance
  BY DEF ApplyDelete, ApplyExpire, LoadedForOwner, DbExpire, systemVars, Opcodes
<1>2. addr \in Addrs /\ e.owner \in Accounts /\ e.expiresAt \in Heights
  BY <1>1, Stored
<1>3. DbInv'
  BY <1>1, DeleteKeeps DEF StateInv
<1>4. MintedOnce'
  BY <1>1, <1>2, KeepsMinted DEF DbDelete
<1>5. log' \in Seq(Events)
  BY <1>1, <1>2, EmitKeepsLog
<1> QED
  BY <1>1, <1>3, <1>4, <1>5 DEF OpKeeps, StateInv, SystemTypeOK

\* Every operation keeps the invariants.
LEMMA OpsKeep ==
  ASSUME StateInv, log \in Seq(Events), block \in Heights,
         NEW caller \in Accounts, ApplyOp(caller)
  PROVE  OpKeeps
BY CreateOpKeeps, UpdateOpKeeps, ExtendOpKeeps, TransferOpKeeps, DeleteOpKeeps
   DEF ApplyOp

(***************************************************************************)
(* The reach of an operation                                               *)
(***************************************************************************)

\* What an operation of a caller can do to the entity at a.
Reach(a, caller) ==
  \/ entity'[a] = entity[a]
  \/ /\ entity[a] # NoEntity
     /\ entity[a].owner = caller
     /\ entity[a].expiresAt > block
     /\ entity'[a] # NoEntity =>
          /\ entity'[a].creator = entity[a].creator
          /\ entity'[a].createdAt = entity[a].createdAt
          /\ entity'[a].expiresAt >= entity[a].expiresAt
  \/ /\ entity[a] # NoEntity
     /\ entity[a].expiresAt <= block
     /\ entity'[a] = NoEntity
  \/ /\ entity[a] = NoEntity
     /\ a[1] = caller
     /\ nonces[caller] <= a[2]
     /\ a[2] < nonces'[caller]
     /\ entity'[a] # NoEntity
     /\ entity'[a].creator = caller
     /\ entity'[a].createdAt = block

OpReach(caller) ==
  /\ \A a \in Addrs : Reach(a, caller)
  /\ \A d \in Accounts : nonces[d] <= nonces'[d]
  /\ \A d \in Accounts \ {caller} : nonces'[d] = nonces[d]
  /\ entityCount <= entityCount'
  /\ \A i \in Ids : i < entityCount => idToAddr'[i] \in {idToAddr[i], NoAddr}

\* An operation that allocates no ID and bumps no nonce.
LEMMA StoredReach ==
  ASSUME StateInv, NEW caller \in Accounts, NEW addr \in Addrs, NEW new,
         entity' = [entity EXCEPT ![addr] = new], Reach(addr, caller),
         nonces' = nonces, entityCount' = entityCount,
         \/ idToAddr' = idToAddr
         \/ \E i \in Ids : idToAddr' = [idToAddr EXCEPT ![i] = NoAddr]
  PROVE  OpReach(caller)
<1>1. /\ entity \in [Addrs -> Entities \cup {NoEntity}]
      /\ idToAddr \in [Ids -> Addrs \cup {NoAddr}]
      /\ nonces \in [Accounts -> 0 .. MaxNonce]
      /\ entityCount \in Nat
  BY DEF StateInv, DbInv, DbTypeOK, SystemTypeOK
<1>2. \A a \in Addrs : Reach(a, caller)
  <2> TAKE a \in Addrs
  <2>1. CASE a # addr
    BY <1>1, <2>1 DEF Reach
  <2> QED
    BY <2>1
<1>3. \A d \in Accounts : nonces[d] <= nonces'[d] /\ nonces'[d] = nonces[d]
  BY <1>1, DbConstantsAssumption
<1>4. \A i \in Ids : idToAddr'[i] \in {idToAddr[i], NoAddr}
  BY <1>1
<1> QED
  BY <1>1, <1>2, <1>3, <1>4 DEF OpReach

\* CREATE reaches the address it mints and no other.
LEMMA CreateReach ==
  ASSUME StateInv, block \in Heights, NEW caller \in Accounts, NEW btl \in Btls,
         NEW attributes \in AttrLists, NEW ref \in References,
         ApplyCreate(caller, btl, attributes, ref)
  PROVE  OpReach(caller)
<1> DEFINE n == nonces[caller]
           key == DeriveEntityKey(caller, n)
           addr == EntityAddress(key)
           new == [creator |-> caller, createdAt |-> block, owner |-> caller,
                   expiresAt |-> ExpiryAfter(btl), contentType |-> ref.contentType,
                   key |-> key, attributes |-> attributes, modifiedAt |-> block]
<1>1. /\ nonces' = [nonces EXCEPT ![caller] = n + 1]
      /\ n < MaxNonce
      /\ DbCreate(caller, key, ExpiryAfter(btl), block, ref.contentType, attributes)
  BY DEF ApplyCreate
<1>2. /\ n \in 0 .. (MaxNonce - 1)
      /\ nonces \in [Accounts -> 0 .. MaxNonce]
      /\ entity \in [Addrs -> Entities \cup {NoEntity}]
      /\ idToAddr \in [Ids -> Addrs \cup {NoAddr}]
      /\ entityCount \in Nat
  BY <1>1, DbConstantsAssumption DEF StateInv, SystemTypeOK, DbInv, DbTypeOK
<1>3. addr = <<caller, n>> /\ addr \in Addrs
  BY <1>2 DEF DeriveEntityKey, Addrs, EntityAddress
<1>4. entity[addr] = NoEntity
  BY <1>2, <1>3 DEF StateInv, MintedOnce
<1>5. /\ new \in Entities
      /\ entity' = [entity EXCEPT ![addr] = new]
      /\ new.creator = caller /\ new.createdAt = block
  <2>1. key \in Keys
    BY <1>2, DbConstantsAssumption DEF DeriveEntityKey, Keys, Addrs
  <2>2. ref.contentType \in ContentTypes
    BY PrecompileConstantsAssumption
  <2>3. new \in Entities
    BY <2>1, <2>2, ExpiryIsHeight DEF Entities
  <2> QED
    BY <1>1, <2>3 DEF DbCreate
<1>6. \A a \in Addrs : Reach(a, caller)
  <2> TAKE a \in Addrs
  <2> HIDE DEF new
  <2>1. CASE a = addr
    <3>1. entity'[a] = new /\ new # NoEntity
      BY <2>1, <1>2, <1>3, <1>5, DbConstantsAssumption
    <3>2. a[1] = caller /\ a[2] = n /\ nonces'[caller] = n + 1
      BY <2>1, <1>1, <1>2, <1>3
    <3> QED
      BY <2>1, <3>1, <3>2, <1>2, <1>4, <1>5 DEF Reach
  <2>2. CASE a # addr
    BY <2>2, <1>2, <1>5 DEF Reach
  <2> QED
    BY <2>1, <2>2
<1>7. /\ entityCount' = entityCount + 1
      /\ idToAddr' = [idToAddr EXCEPT ![entityCount] = addr]
  BY <1>1 DEF DbCreate
<1>8. \A d \in Accounts : nonces[d] <= nonces'[d]
  BY <1>1, <1>2, DbConstantsAssumption
<1> QED
  BY <1>1, <1>2, <1>6, <1>7, <1>8 DEF OpReach

\* Every operation reaches no more than Reach says.
LEMMA OpsReach ==
  ASSUME StateInv, block \in Heights, NEW caller \in Accounts, ApplyOp(caller)
  PROVE  OpReach(caller)
<1>1. ASSUME NEW btl \in Btls, NEW attributes \in AttrLists, NEW ref \in References,
             ApplyCreate(caller, btl, attributes, ref)
      PROVE  OpReach(caller)
  BY <1>1, CreateReach
<1>2. ASSUME NEW key \in Keys, entity[EntityAddress(key)] # NoEntity,
             NEW new, entity' = [entity EXCEPT ![EntityAddress(key)] = new]
      PROVE  /\ EntityAddress(key) \in Addrs
             /\ entity'[EntityAddress(key)] = new
             /\ entity[EntityAddress(key)] \in Entities
  BY <1>2, Stored DEF StateInv, DbInv, DbTypeOK
<1>3. ASSUME NEW key \in Keys, NEW attributes \in AttrLists, NEW ref \in References,
             ApplyUpdate(caller, key, attributes, ref)
      PROVE  OpReach(caller)
  <2> DEFINE e == entity[EntityAddress(key)]
             new == [e EXCEPT !.contentType = ref.contentType,
                              !.attributes = attributes, !.modifiedAt = block]
  <2>1. /\ e # NoEntity /\ e.owner = caller /\ e.expiresAt > block
        /\ entity' = [entity EXCEPT ![EntityAddress(key)] = new]
        /\ nonces' = nonces /\ entityCount' = entityCount /\ idToAddr' = idToAddr
    BY <1>3 DEF ApplyUpdate, LoadedForOwner, DbUpdate
  <2>2. e \in Entities /\ EntityAddress(key) \in Addrs
    BY <2>1, <1>2
  <2>3. /\ new.creator = e.creator /\ new.createdAt = e.createdAt
        /\ new.expiresAt = e.expiresAt /\ e.expiresAt \in Nat
    BY <2>2 DEF Entities, Heights
  <2>4. entity'[EntityAddress(key)] = new
    BY <2>1, <1>2
  <2>5. Reach(EntityAddress(key), caller)
    <3> HIDE DEF new
    <3> QED BY <2>1, <2>3, <2>4 DEF Reach
  <2> QED
    BY <2>1, <2>2, <2>5, StoredReach
<1>4. ASSUME NEW key \in Keys, NEW btl \in Btls, ApplyExtend(caller, key, btl)
      PROVE  OpReach(caller)
  <2> DEFINE e == entity[EntityAddress(key)]
             new == [e EXCEPT !.expiresAt = ExpiryAfter(btl), !.modifiedAt = block]
  <2>1. /\ e # NoEntity /\ e.owner = caller /\ e.expiresAt > block
        /\ ExpiryAfter(btl) > e.expiresAt
        /\ entity' = [entity EXCEPT ![EntityAddress(key)] = new]
        /\ nonces' = nonces /\ entityCount' = entityCount /\ idToAddr' = idToAddr
    BY <1>4 DEF ApplyExtend, LoadedForOwner, DbExtend, systemVars
  <2>2. e \in Entities /\ EntityAddress(key) \in Addrs
    BY <2>1, <1>2
  <2>3. /\ new.creator = e.creator /\ new.createdAt = e.createdAt
        /\ new.expiresAt = ExpiryAfter(btl) /\ e.expiresAt \in Nat
    BY <2>2 DEF Entities, Heights
  <2>4. ExpiryAfter(btl) \in Nat
    BY ExpiryIsHeight DEF Heights
  <2>5. entity'[EntityAddress(key)] = new
    BY <2>1, <1>2
  <2>6. Reach(EntityAddress(key), caller)
    <3> HIDE DEF new
    <3> QED BY <2>1, <2>3, <2>4, <2>5 DEF Reach
  <2> QED
    BY <2>1, <2>2, <2>6, StoredReach
<1>5. ASSUME NEW key \in Keys, NEW newOwner \in Accounts \cup {ZeroAddress},
             ApplyTransfer(caller, key, newOwner)
      PROVE  OpReach(caller)
  <2> DEFINE e == entity[EntityAddress(key)]
             new == [e EXCEPT !.owner = newOwner, !.modifiedAt = block]
  <2>1. /\ e # NoEntity /\ e.owner = caller /\ e.expiresAt > block
        /\ entity' = [entity EXCEPT ![EntityAddress(key)] = new]
        /\ nonces' = nonces /\ entityCount' = entityCount /\ idToAddr' = idToAddr
    BY <1>5 DEF ApplyTransfer, LoadedForOwner, DbTransfer, systemVars
  <2>2. e \in Entities /\ EntityAddress(key) \in Addrs
    BY <2>1, <1>2
  <2>3. /\ new.creator = e.creator /\ new.createdAt = e.createdAt
        /\ new.expiresAt = e.expiresAt /\ e.expiresAt \in Nat
    BY <2>2 DEF Entities, Heights
  <2>4. entity'[EntityAddress(key)] = new
    BY <2>1, <1>2
  <2>5. Reach(EntityAddress(key), caller)
    <3> HIDE DEF new
    <3> QED BY <2>1, <2>3, <2>4 DEF Reach
  <2> QED
    BY <2>1, <2>2, <2>5, StoredReach
<1>6. ASSUME NEW key \in Keys, ApplyDelete(caller, key) \/ ApplyExpire(key)
      PROVE  OpReach(caller)
  <2> DEFINE e == entity[EntityAddress(key)]
             id == addrToId[EntityAddress(key)]
  <2>1. /\ e # NoEntity
        /\ e.expiresAt <= block \/ (e.owner = caller /\ e.expiresAt > block)
        /\ entity' = [entity EXCEPT ![EntityAddress(key)] = NoEntity]
        /\ nonces' = nonces /\ entityCount' = entityCount
        /\ idToAddr' = [idToAddr EXCEPT ![id] = NoAddr]
    BY <1>6 DEF ApplyDelete, ApplyExpire, LoadedForOwner, DbExpire, DbDelete, systemVars
  <2>2. id \in Ids
    BY <2>1, <1>2, LiveIds DEF StateInv
  <2>3. Reach(EntityAddress(key), caller)
    BY <2>1, <1>2 DEF Reach
  <2> QED
    BY <2>1, <2>2, <2>3, <1>2, StoredReach
<1> QED
  BY <1>1, <1>3, <1>4, <1>5, <1>6 DEF ApplyOp
-----------------------------------------------------------------------------
(***************************************************************************)
(* What the input of an operation means                                    *)
(***************************************************************************)

\* Trailing zeros begin somewhere.
LEMMA TextLengthExists ==
  ASSUME NEW n \in Nat, NEW bytes \in [1..n -> Byte]
  PROVE  /\ Len(bytes) = n /\ bytes \in Seq(Byte)
         /\ TextLength(bytes) \in 0..n
         /\ TextLength(bytes) = 0 \/ bytes[TextLength(bytes)] # 0
         /\ \A i \in TextLength(bytes) + 1..n : bytes[i] = 0
<1>. DEFINE Ends == {k \in 0..n : \A i \in k + 1..n : bytes[i] = 0}
<1>1. bytes \in Seq(Byte) /\ Len(bytes) = n
  OBVIOUS
<1>2. Ends \subseteq Nat /\ n \in Ends
  OBVIOUS
<1>3. PICK e \in Ends : \A k \in Ends : ~(<<k, e>> \in OpToRel(<, Nat))
  BY <1>2, NatLessThanWellFounded, WFMin
<1>4. \A k \in Ends : ~(k < e)
  BY <1>2, <1>3 DEF OpToRel
<1>5. e = 0 \/ bytes[e] # 0
  <2>. SUFFICES ASSUME e # 0, bytes[e] = 0 PROVE FALSE
    OBVIOUS
  <2>1. e - 1 \in 0..n /\ \A i \in (e - 1) + 1..n : i = e \/ i \in e + 1..n
    BY <1>2
  <2>2. e - 1 \in Ends
    BY <2>1
  <2>. QED
    BY <1>2, <1>4, <2>2
<1>6. \E k \in 0..Len(bytes) :
         /\ k = 0 \/ bytes[k] # 0
         /\ \A i \in k + 1..Len(bytes) : bytes[i] = 0
  BY <1>1, <1>5
<1>. QED
  BY <1>1, <1>6 DEF TextLength

\* A stripped text is the beginning of what it was stripped from.
LEMMA StrippedFacts ==
  ASSUME NEW n \in Nat, NEW bytes \in [1..n -> Byte]
  PROVE  /\ Stripped(bytes) \in Seq(Byte)
         /\ Len(Stripped(bytes)) = TextLength(bytes)
         /\ \A i \in 1..TextLength(bytes) : Stripped(bytes)[i] = bytes[i]
BY TextLengthExists DEF Stripped

\* Stripping loses nothing of a text of known width.
LEMMA StrippingIsInjective ==
  ASSUME NEW n \in Nat, NEW s \in [1..n -> Byte], NEW t \in [1..n -> Byte],
         Stripped(s) = Stripped(t)
  PROVE  s = t
<1>1. TextLength(s) = TextLength(t) /\ TextLength(s) \in 0..n
  BY StrippedFacts, TextLengthExists
<1>2. ASSUME NEW i \in 1..n PROVE s[i] = t[i]
  <2>1. CASE i <= TextLength(s)
    BY <1>1, <2>1, StrippedFacts
  <2>2. CASE ~(i <= TextLength(s))
    <3>1. i \in TextLength(s) + 1..n /\ i \in TextLength(t) + 1..n
      BY <1>1, <2>2
    <3>. QED
      BY <3>1, TextLengthExists
  <2>. QED
    BY <2>1, <2>2
<1>. QED
  BY <1>2

\* The name of an attribute starts with a letter and holds no zero.
LEMMA NamesAreWords ==
  ASSUME NEW n \in Nat \ {0}, NEW name \in [1..n -> Byte], ValidIdent32(name)
  PROVE  /\ Len(Stripped(name)) >= 1
         /\ Stripped(name)[1] \in IdentLeading
         /\ \A i \in 1..Len(Stripped(name)) : Stripped(name)[i] # 0
<1>. DEFINE len == TextLength(name)
<1>1. name[1] \in IdentLeading /\ ZeroPadded(name) /\ name[1] # 0
  <2>1. name[1] \in IdentLeading /\ ZeroPadded(name)
    BY Zenon DEF ValidIdent32
  <2>2. \A b \in IdentLeading : b # 0
    BY DEF IdentLeading
  <2>. QED
    BY <2>1, <2>2, Zenon
<1>2. len \in 0..n /\ (len = 0 \/ name[len] # 0) /\ \A i \in len + 1..n : name[i] = 0
  BY TextLengthExists
<1>3. len # 0
  BY <1>1, <1>2
<1>4. ASSUME NEW i \in 1..len PROVE name[i] # 0
  BY <1>1, <1>2, <1>3 DEF ZeroPadded
<1>. QED
  BY <1>1, <1>2, <1>3, <1>4, StrippedFacts

\* validate_ident32 keeps the built-in names, which start with a dollar, out
\* of reach: what EntityDb assumes of user pairs holds of every operation.
THEOREM NamesAreNeverBuiltIn ==
  ASSUME NEW a \in RawAttributes, ValidAttribute(a)
  PROVE  Converted(a).pair[1] # <<>> /\ Converted(a).pair[1][1] # Dollar
<1>1. a.name \in [1..NameBytes -> Byte] /\ ValidIdent32(a.name) /\ NameBytes \in Nat \ {0}
  BY WidthsAssumption DEF RawAttributes, ValidAttribute
<1>2. Len(Stripped(a.name)) >= 1 /\ Stripped(a.name)[1] \in IdentLeading
  BY <1>1, NamesAreWords
<1>3. Converted(a).pair[1] = Stripped(a.name)
  BY DEF Converted
<1>4. Stripped(a.name) # <<>>
  BY <1>2
<1>5. \A b \in IdentLeading : b # Dollar
  BY DEF IdentLeading, Dollar
<1>. QED
  BY <1>2, <1>3, <1>4, <1>5, Zenon

\* What is stored tells what was sent: two accepted attributes of one type
\* with the same name and value in the database are the same attribute, so
\* nothing is cut off or run together on the way.
THEOREM ConversionLosesNothing ==
  ASSUME NEW a \in RawAttributes, NEW b \in RawAttributes,
         ValidAttribute(a), ValidAttribute(b), a.type = b.type,
         Converted(a).pair = Converted(b).pair
  PROVE  a = b
<1>. USE WidthsAssumption
<1>1. /\ a = [name |-> a.name, type |-> a.type, value |-> a.value]
      /\ b = [name |-> b.name, type |-> b.type, value |-> b.value]
      /\ a.name \in [1..NameBytes -> Byte] /\ b.name \in [1..NameBytes -> Byte]
      /\ a.value \in [1..ValueBytes -> Byte] /\ b.value \in [1..ValueBytes -> Byte]
  BY DEF RawAttributes
<1>2. /\ Stripped(a.name) = Stripped(b.name)
      /\ StoredValue(a.type, a.value) = StoredValue(b.type, b.value)
  BY DEF Converted
<1>3. a.name = b.name
  BY <1>1, <1>2, StrippingIsInjective
<1>4. a.value = b.value
  <2>1. CASE a.type = "STRING"
    BY <1>1, <1>2, <2>1, StrippingIsInjective DEF StoredValue
  <2>2. CASE a.type # "STRING"
    <3>1. SubSeq(a.value, 1, WordBytes) = SubSeq(b.value, 1, WordBytes)
      BY <1>2, <2>2 DEF StoredValue
    <3>2. \A i \in WordBytes + 1..ValueBytes : a.value[i] = 0 /\ b.value[i] = 0
      BY <2>2 DEF ValidAttribute, ValidValue
    <3>3. a.value \in Seq(Byte) /\ b.value \in Seq(Byte)
          /\ Len(a.value) = ValueBytes /\ Len(b.value) = ValueBytes
      BY <1>1, TextLengthExists
    <3>4. ASSUME NEW i \in 1..ValueBytes PROVE a.value[i] = b.value[i]
      <4>1. CASE i <= WordBytes
        <5>1. SubSeq(a.value, 1, WordBytes)[i] = a.value[i]
              /\ SubSeq(b.value, 1, WordBytes)[i] = b.value[i]
          BY <3>3, <4>1, SubSeqProperties
        <5>. QED
          BY <3>1, <5>1
      <4>2. CASE ~(i <= WordBytes)
        BY <3>2, <4>2
      <4>. QED
        BY <4>1, <4>2
    <3>. QED
      BY <1>1, <3>4
  <2>. QED
    BY <2>1, <2>2
<1>. QED
  BY <1>1, <1>3, <1>4

\* The bytes that are hashed for a pair: the name, a zero, the value.
LEMMA PreimageBytes ==
  ASSUME NEW name \in Seq(Byte), NEW val \in Seq(Byte)
  PROVE  LET bytes == PairPreimage(<<name, val>>) IN
         /\ bytes \in Seq(Byte) /\ Len(bytes) = Len(name) + 1 + Len(val)
         /\ \A i \in 1..Len(name) : bytes[i] = name[i]
         /\ bytes[Len(name) + 1] = 0
         /\ \A i \in 1..Len(val) : bytes[Len(name) + 1 + i] = val[i]
<1>1. <<0>> \in Seq(Byte) /\ Len(<<0>>) = 1
  BY DEF Byte
<1>2. /\ name \o <<0>> \in Seq(Byte) /\ Len(name \o <<0>>) = Len(name) + 1
      /\ \A i \in 1..Len(name) : (name \o <<0>>)[i] = name[i]
      /\ (name \o <<0>>)[Len(name) + 1] = 0
  BY <1>1
<1>. QED
  BY <1>2 DEF PairPreimage

\* The separator of pair_address separates, although values may hold zeros
\* (numbers and keys do): two pairs hash the same bytes only if they are the
\* same, because names hold none.
THEOREM PairsHaveAccountsOfTheirOwn ==
  \A name1, val1, name2, val2 \in Seq(Byte) :
    /\ \A i \in 1..Len(name1) : name1[i] # 0
    /\ \A i \in 1..Len(name2) : name2[i] # 0
    /\ PairPreimage(<<name1, val1>>) = PairPreimage(<<name2, val2>>)
    => name1 = name2 /\ val1 = val2
<1>. SUFFICES ASSUME NEW name1 \in Seq(Byte), NEW val1 \in Seq(Byte),
                     NEW name2 \in Seq(Byte), NEW val2 \in Seq(Byte),
                     \A i \in 1..Len(name1) : name1[i] # 0,
                     \A i \in 1..Len(name2) : name2[i] # 0
     PROVE  PairPreimage(<<name1, val1>>) = PairPreimage(<<name2, val2>>)
              => name1 = name2 /\ val1 = val2
  OBVIOUS
<1>. DEFINE bytes1 == PairPreimage(<<name1, val1>>)
           bytes2 == PairPreimage(<<name2, val2>>)
<1>1. /\ Len(bytes1) = Len(name1) + 1 + Len(val1)
      /\ \A i \in 1..Len(name1) : bytes1[i] = name1[i]
      /\ bytes1[Len(name1) + 1] = 0
      /\ \A i \in 1..Len(val1) : bytes1[Len(name1) + 1 + i] = val1[i]
  BY PreimageBytes
<1>2. /\ Len(bytes2) = Len(name2) + 1 + Len(val2)
      /\ \A i \in 1..Len(name2) : bytes2[i] = name2[i]
      /\ bytes2[Len(name2) + 1] = 0
      /\ \A i \in 1..Len(val2) : bytes2[Len(name2) + 1 + i] = val2[i]
  BY PreimageBytes
<1>. HIDE DEF bytes1, bytes2
<1>3. ASSUME bytes1 = bytes2 PROVE name1 = name2 /\ val1 = val2
  <2>1. /\ Len(name1) \in Nat /\ Len(name2) \in Nat /\ Len(val1) \in Nat /\ Len(val2) \in Nat
    OBVIOUS
  <2>2. ~(Len(name1) < Len(name2))
    <3>. SUFFICES ASSUME Len(name1) + 1 \in 1..Len(name2) PROVE FALSE
      BY <2>1
    <3>1. bytes2[Len(name1) + 1] # 0
      BY <1>2
    <3>. QED
      BY <1>1, <1>3, <3>1
  <2>3. ~(Len(name2) < Len(name1))
    <3>. SUFFICES ASSUME Len(name2) + 1 \in 1..Len(name1) PROVE FALSE
      BY <2>1
    <3>1. bytes1[Len(name2) + 1] # 0
      BY <1>1
    <3>. QED
      BY <1>2, <1>3, <3>1
  <2>4. Len(name1) = Len(name2)
    BY <2>1, <2>2, <2>3
  <2>5. Len(val1) = Len(val2)
    BY <1>1, <1>2, <1>3, <2>1, <2>4
  <2>6. \A i \in 1..Len(name1) : name1[i] = name2[i]
    BY <1>1, <1>2, <1>3, <2>4
  <2>7. \A i \in 1..Len(val1) : val1[i] = val2[i]
    BY <1>1, <1>2, <1>3, <2>4, <2>5
  <2>. QED
    BY <2>4, <2>5, <2>6, <2>7, SeqEqual
<1>. QED
  BY <1>3 DEF bytes1, bytes2

\* A reference that is accepted has a receipt that a trusted provider has
\* signed, and is worth what that receipt says: its nonce, its payment and
\* its signer. Two references with one signature differ in nothing that is
\* authorised but the content type, so a receipt is spent once per caller.
THEOREM ReceiptsAuthorise ==
  ASSUME NEW r, NEW s, ValidReference(r), ValidReference(s)
  PROVE  /\ TrustedSigner(Authorisation(r).provider)
         /\ Authorisation(r).provider = r.signature.scalars.by
         /\ Authorisation(r).nonce = DecodedNonce(r.signature.scalars.receipt.nonce)
         /\ Authorisation(r).payment = r.signature.scalars.receipt.payment
         /\ Authorisation(r).payment > 0
         /\ r.signature.scalars = s.signature.scalars =>
              [Authorisation(r) EXCEPT !.contentType = s.contentType] = Authorisation(s)
<1>1. ASSUME NEW t, ValidReference(t)
      PROVE  /\ TrustedSigner(t.signature.signer) /\ t.payment > 0
             /\ t.signature.scalars.receipt = ExpectedReceipt(t)
             /\ t.signature.scalars.by = t.signature.signer
  BY <1>1 DEF ValidReference, SignatureHolds, Recovered
<1>2. ASSUME NEW t
      PROVE  ExpectedReceipt(t).nonce = t.nonce /\ ExpectedReceipt(t).payment = t.payment
  BY DEF ExpectedReceipt
<1>. QED
  BY <1>1, <1>2 DEF Authorisation

(***************************************************************************)
(* What an operation tells                                                 *)
(***************************************************************************)

\* The account of every entity that its events give.
Views == [a \in Addrs |-> EventView(entity[a])]

\* The last event of the log tells how an operation has changed the views.
Told ==
  \E ev \in Events : log' = Append(log, ev) /\ Views' = AfterEvent(Views, ev)

\* An event about one entity that says what has become of it.
LEMMA EventTells ==
  ASSUME entity \in [Addrs -> Entities \cup {NoEntity}], NEW key \in Keys,
         NEW op \in Opcodes, NEW owner \in Accounts, NEW expiresAt \in Heights,
         NEW new, entity' = [entity EXCEPT ![EntityAddress(key)] = new],
         Emit(key, op, owner, expiresAt),
         EventView(new) = IF op \in {"DELETE", "EXPIRE"} THEN NoEntity
                          ELSE [owner |-> owner, expiresAt |-> ClipU32(expiresAt)]
  PROVE  Told
<1> DEFINE addr == EntityAddress(key)
           ev == [key |-> key, op |-> op, owner |-> owner,
                  expiresAt |-> ClipU32(expiresAt)]
<1>1. ClipU32(expiresAt) \in 0 .. MaxU32
  BY PrecompileConstantsAssumption, DbConstantsAssumption DEF ClipU32, Smaller, Heights
<1>2. ev \in Events /\ log' = Append(log, ev)
  BY <1>1 DEF Events, Emit
<1>3. addr \in Addrs
  BY DEF Keys, EntityAddress
<1>4. Views' = [Views EXCEPT ![addr] = EventView(new)]
  <2>1. ASSUME NEW a \in Addrs
        PROVE  entity'[a] = IF a = addr THEN new ELSE entity[a]
    BY <1>3
  <2> HIDE DEF addr
  <2> QED
    BY <1>3, <2>1 DEF Views
<1>5. AfterEvent(Views, ev) = [Views EXCEPT ![addr] = EventView(new)]
  BY DEF AfterEvent
<1> HIDE DEF ev
<1> QED
  BY <1>2, <1>4, <1>5 DEF Told

\* What is stored is never the mark of an absent entity.
LEMMA StoredView ==
  ASSUME NEW e \in Entities
  PROVE  EventView(e) = [owner |-> e.owner, expiresAt |-> ClipU32(e.expiresAt)]
BY DbConstantsAssumption DEF EventView

\* CREATE tells of the new entity.
LEMMA CreateTells ==
  ASSUME StateInv, block \in Heights, NEW caller \in Accounts, NEW btl \in Btls,
         NEW attributes \in AttrLists, NEW ref \in References,
         ApplyCreate(caller, btl, attributes, ref)
  PROVE  Told
<1> DEFINE n == nonces[caller]
           key == DeriveEntityKey(caller, n)
           new == [creator |-> caller, createdAt |-> block, owner |-> caller,
                   expiresAt |-> ExpiryAfter(btl), contentType |-> ref.contentType,
                   key |-> key, attributes |-> attributes, modifiedAt |-> block]
<1>1. /\ n < MaxNonce
      /\ entity' = [entity EXCEPT ![EntityAddress(key)] = new]
      /\ Emit(key, "CREATE", caller, ExpiryAfter(btl))
  BY DEF ApplyCreate, DbCreate
<1>2. /\ n \in 0 .. (MaxNonce - 1)
      /\ entity \in [Addrs -> Entities \cup {NoEntity}]
  BY <1>1, DbConstantsAssumption DEF StateInv, SystemTypeOK, DbInv, DbTypeOK
<1>3. key \in Keys
  BY <1>2, DbConstantsAssumption DEF DeriveEntityKey, Keys, Addrs
<1>4. ExpiryAfter(btl) \in Heights /\ ref.contentType \in ContentTypes
  BY ExpiryIsHeight, PrecompileConstantsAssumption
<1>5. new \in Entities
  BY <1>3, <1>4 DEF Entities
<1>6. EventView(new) = [owner |-> caller, expiresAt |-> ClipU32(ExpiryAfter(btl))]
  <2>1. new.owner = caller /\ new.expiresAt = ExpiryAfter(btl)
    OBVIOUS
  <2> HIDE DEF new
  <2> QED
    BY <1>5, <2>1, StoredView
<1> HIDE DEF new, key
<1> QED
  BY <1>1, <1>2, <1>3, <1>4, <1>6, EventTells DEF Opcodes

\* UPDATE, EXTEND and TRANSFER tell of the owner and the expiry they leave.
LEMMA ChangeTells ==
  ASSUME StateInv, block \in Heights, NEW caller \in Accounts, NEW key \in Keys,
         \/ \E attributes \in AttrLists, ref \in References :
              ApplyUpdate(caller, key, attributes, ref)
         \/ \E btl \in Btls : ApplyExtend(caller, key, btl)
         \/ \E newOwner \in Accounts \cup {ZeroAddress} :
              ApplyTransfer(caller, key, newOwner)
  PROVE  Told
<1> DEFINE addr == EntityAddress(key)
           e == entity[addr]
<1>1. e # NoEntity
  BY DEF ApplyUpdate, ApplyExtend, ApplyTransfer, LoadedForOwner
<1>2. /\ addr \in Addrs /\ e \in Entities /\ e.owner \in Accounts /\ e.expiresAt \in Heights
      /\ entity \in [Addrs -> Entities \cup {NoEntity}]
  BY <1>1, Stored DEF StateInv, DbInv, DbTypeOK
<1>3. ASSUME NEW op \in {"UPDATE", "EXTEND", "TRANSFER"}, NEW owner \in Accounts,
             NEW expiresAt \in Heights, NEW new \in Entities,
             new.owner = owner, new.expiresAt = expiresAt,
             entity' = [entity EXCEPT ![addr] = new], Emit(key, op, owner, expiresAt)
      PROVE  Told
  <2>1. op \in Opcodes /\ op \notin {"DELETE", "EXPIRE"}
    BY DEF Opcodes
  <2>2. EventView(new) = [owner |-> owner, expiresAt |-> ClipU32(expiresAt)]
    BY <1>3, StoredView
  <2> QED
    BY <1>2, <1>3, <2>1, <2>2, EventTells
<1>4. ASSUME NEW attributes \in AttrLists, NEW ref \in References,
             ApplyUpdate(caller, key, attributes, ref)
      PROVE  Told
  <2> DEFINE new == [e EXCEPT !.contentType = ref.contentType,
                              !.attributes = attributes, !.modifiedAt = block]
  <2>1. /\ entity' = [entity EXCEPT ![addr] = new]
        /\ Emit(key, "UPDATE", e.owner, e.expiresAt)
    BY <1>4 DEF ApplyUpdate, DbUpdate
  <2>2. new \in Entities /\ new.owner = e.owner /\ new.expiresAt = e.expiresAt
    BY <1>2, PrecompileConstantsAssumption DEF Entities
  <2> HIDE DEF new
  <2> QED
    BY <1>2, <1>3, <2>1, <2>2
<1>5. ASSUME NEW btl \in Btls, ApplyExtend(caller, key, btl)
      PROVE  Told
  <2> DEFINE new == [e EXCEPT !.expiresAt = ExpiryAfter(btl), !.modifiedAt = block]
  <2>1. /\ entity' = [entity EXCEPT ![addr] = new]
        /\ Emit(key, "EXTEND", e.owner, ExpiryAfter(btl))
    BY <1>5 DEF ApplyExtend, DbExtend
  <2>2. ExpiryAfter(btl) \in Heights
    BY ExpiryIsHeight
  <2>3. new \in Entities /\ new.owner = e.owner /\ new.expiresAt = ExpiryAfter(btl)
    BY <1>2, <2>2 DEF Entities
  <2> HIDE DEF new
  <2> QED
    BY <1>2, <1>3, <2>1, <2>2, <2>3
<1>6. ASSUME NEW newOwner \in Accounts \cup {ZeroAddress},
             ApplyTransfer(caller, key, newOwner)
      PROVE  Told
  <2> DEFINE new == [e EXCEPT !.owner = newOwner, !.modifiedAt = block]
  <2>1. /\ newOwner \in Accounts
        /\ entity' = [entity EXCEPT ![addr] = new]
        /\ Emit(key, "TRANSFER", newOwner, e.expiresAt)
    BY <1>6 DEF ApplyTransfer, DbTransfer
  <2>2. new \in Entities /\ new.owner = newOwner /\ new.expiresAt = e.expiresAt
    BY <1>2, <2>1 DEF Entities
  <2> HIDE DEF new
  <2> QED
    BY <1>2, <1>3, <2>1, <2>2
<1> QED
  BY <1>4, <1>5, <1>6

\* DELETE and EXPIRE tell that the entity is gone.
LEMMA RemovalTells ==
  ASSUME StateInv, block \in Heights, NEW caller \in Accounts, NEW key \in Keys,
         ApplyDelete(caller, key) \/ ApplyExpire(key)
  PROVE  Told
<1> DEFINE addr == EntityAddress(key)
           e == entity[addr]
<1>1. PICK op \in {"DELETE", "EXPIRE"} :
        /\ e # NoEntity /\ Emit(key, op, e.owner, e.expiresAt)
        /\ entity' = [entity EXCEPT ![addr] = NoEntity]
  BY DEF ApplyDelete, ApplyExpire, LoadedForOwner, DbExpire, DbDelete
<1>2. e.owner \in Accounts /\ e.expiresAt \in Heights
      /\ entity \in [Addrs -> Entities \cup {NoEntity}]
  BY <1>1, Stored DEF StateInv, DbInv, DbTypeOK
<1>3. EventView(NoEntity) = NoEntity /\ op \in Opcodes
  BY DEF EventView, Opcodes
<1> QED
  BY <1>1, <1>2, <1>3, EventTells

\* Every operation tells what it has done.
LEMMA OpsTell ==
  ASSUME StateInv, block \in Heights, NEW caller \in Accounts, ApplyOp(caller)
  PROVE  Told
BY CreateTells, ChangeTells, RemovalTells DEF ApplyOp

(***************************************************************************)
(* What an operation pays                                                  *)
(***************************************************************************)

\* A reference comes from a receipt that a trusted provider has signed.
LEMMA ReferencesAreSigned ==
  ASSUME NEW r \in References
  PROVE  \E s \in Signed :
           /\ TrustedSigner(s.by)
           /\ r.provider = s.by
           /\ r.nonce = DecodedNonce(s.receipt.nonce)
           /\ r.payment = s.receipt.payment
<1>1. PICK t \in Submitted : ValidReference(t.payload) /\ r = Authorisation(t.payload)
  BY ReferencesAssumption DEF Authorisations
<1> DEFINE scalars == t.payload.signature.scalars
           s == [by |-> scalars.by, receipt |-> scalars.receipt]
<1>2. /\ TrustedSigner(r.provider) /\ r.provider = scalars.by
      /\ r.nonce = DecodedNonce(scalars.receipt.nonce)
      /\ r.payment = scalars.receipt.payment
  BY <1>1, ReceiptsAuthorise
<1>3. s \in Signed
  BY ReferencesAssumption
<1>4. s.by = scalars.by /\ s.receipt = scalars.receipt
  OBVIOUS
<1> HIDE DEF s, scalars
<1> QED
  BY <1>2, <1>3, <1>4

\* A nonce says what is paid and to whom.
LEMMA NoncesFixPayments ==
  ASSUME NEW r \in References, NEW s \in References, r.nonce = s.nonce
  PROVE  r.payment = s.payment /\ r.provider = s.provider
<1>1. PICK u \in Signed : /\ TrustedSigner(u.by) /\ r.provider = u.by
                          /\ r.nonce = DecodedNonce(u.receipt.nonce)
                          /\ r.payment = u.receipt.payment
  BY ReferencesAreSigned
<1>2. PICK v \in Signed : /\ TrustedSigner(v.by) /\ s.provider = v.by
                          /\ s.nonce = DecodedNonce(v.receipt.nonce)
                          /\ s.payment = v.receipt.payment
  BY ReferencesAreSigned
<1>3. u = v
  BY <1>1, <1>2, SignedAssumption
<1> QED
  BY <1>1, <1>2, <1>3

\* The reference of a spending is one that costs the same.
LEMMA SpentReference ==
  ASSUME NEW c \in Accounts, NEW ref \in References
  PROVE  LET s == <<c, ref.nonce>>
         IN /\ s \in Spendings /\ s[1] = c /\ s[2] = ref.nonce
            /\ ReferenceOf(s) \in References
            /\ ReferenceOf(s).payment = ref.payment
            /\ ReferenceOf(s).provider = ref.provider
<1> DEFINE s == <<c, ref.nonce>>
<1>1. s \in Spendings /\ s[1] = c /\ s[2] = ref.nonce
  BY DEF Spendings, RefNonces
<1> HIDE DEF s
<1>2. ReferenceOf(s) \in References /\ ReferenceOf(s).nonce = ref.nonce
  BY <1>1 DEF ReferenceOf
<1>3. ReferenceOf(s).payment = ref.payment /\ ReferenceOf(s).provider = ref.provider
  BY <1>2, NoncesFixPayments
<1> QED
  BY <1>1, <1>2, <1>3 DEF s

\* Every spending has a cost, of which the provider gets at most all.
LEMMA CostsAreNumbers ==
  ASSUME block \in Heights, NEW s \in Spendings
  PROVE  Cost[s] \in Nat /\ Share[s] \in Int
<1>1. ReferenceOf(s) \in References
  BY DEF Spendings, RefNonces, ReferenceOf
<1>2. /\ PaymentParams[block].shareBps \in Nat
      /\ BaseFee[block] \in Nat /\ ReferenceOf(s).payment \in Nat
  BY <1>1, PrecompileConstantsAssumption
<1>3. Price(ReferenceOf(s)) \in Nat
  BY <1>2 DEF Price
<1>4. ProviderAmount(ReferenceOf(s)) \in Int
  <2> DEFINE total == Price(ReferenceOf(s)) * PaymentParams[block].shareBps
  <2>1. total \in Nat
    BY <1>2, <1>3
  <2> HIDE DEF total
  <2>2. total \div 10000 \in Int
    BY <2>1
  <2> QED
    BY <2>2 DEF total, ProviderAmount, BpsDenominator
<1> QED
  BY <1>3, <1>4 DEF Cost, Share

\* A payment takes the cost from its caller and gives the share to the
\* provider, who may be the caller.
LEMMA PaymentMoves ==
  ASSUME SystemTypeOK, block \in Heights, NEW caller \in Accounts,
         NEW ref \in References, ApplyPayment(caller, ref), NEW a \in Payers
  PROVE  LET s == <<caller, ref.nonce>>
         IN balance'[a] + (IF a = caller THEN Cost[s] ELSE 0)
              = balance[a] + (IF a = ref.provider THEN Share[s] ELSE 0)
<1> DEFINE s == <<caller, ref.nonce>>
           cost == IF PaymentParams[block].enabled THEN Price(ref) ELSE 0
           share == IF PaymentParams[block].enabled THEN ProviderAmount(ref) ELSE 0
<1>1. Cost[s] = cost /\ Share[s] = share
  <2>1. /\ s \in Spendings /\ ReferenceOf(s).payment = ref.payment
    BY SpentReference
  <2>2. Price(ReferenceOf(s)) = Price(ref)
    BY <2>1 DEF Price
  <2>3. ProviderAmount(ReferenceOf(s)) = ProviderAmount(ref)
    BY <2>2 DEF ProviderAmount
  <2> HIDE DEF s
  <2> QED
    BY <2>1, <2>2, <2>3 DEF Cost, Share
<1>2. /\ caller \in Payers /\ ref.provider \in Payers
      /\ balance \in [Payers -> Nat]
  BY PrecompileConstantsAssumption DEF Payers, SystemTypeOK
<1> SUFFICES balance'[a] + (IF a = caller THEN cost ELSE 0)
               = balance[a] + (IF a = ref.provider THEN share ELSE 0)
  BY <1>1
<1>3. CASE ~PaymentParams[block].enabled
  BY <1>2, <1>3 DEF ApplyPayment
<1>4. CASE PaymentParams[block].enabled
  <2>1. /\ PaymentParams[block].shareBps <= BpsDenominator
        /\ balance[caller] >= Price(ref)
        /\ balance' = [AfterTransfer(caller, ref)
                         EXCEPT ![caller] = @ - BurnAmount(ref)]
    BY <1>4 DEF ApplyPayment
  <2>2. /\ Price(ref) \in Nat /\ ProviderAmount(ref) \in 0 .. Price(ref)
        /\ BurnAmount(ref) = Price(ref) - ProviderAmount(ref)
        /\ AfterTransfer(caller, ref) \in [Payers -> Nat]
    BY <2>1, PriceSplits, TransferLeaves
  <2>3. balance'[a] = IF a = caller THEN AfterTransfer(caller, ref)[a] - BurnAmount(ref)
                      ELSE AfterTransfer(caller, ref)[a]
    BY <1>2, <2>1, <2>2
  <2>4. AfterTransfer(caller, ref)[a]
          = IF caller = ref.provider THEN balance[a]
            ELSE IF a = caller THEN balance[a] - ProviderAmount(ref)
            ELSE IF a = ref.provider THEN balance[a] + ProviderAmount(ref)
            ELSE balance[a]
    BY <1>2 DEF AfterTransfer, Transferred
  <2>5. cost = Price(ref) /\ share = ProviderAmount(ref) /\ balance[a] \in Nat
    BY <1>2, <1>4
  <2> HIDE DEF cost, share
  <2> QED
    BY <2>2, <2>3, <2>4, <2>5
<1> QED
  BY <1>3, <1>4

\* What an operation does to nonces, references and balances.
Pays(caller) ==
  \/ nonces' = nonces /\ usedRefs' = usedRefs /\ balance' = balance
  \/ \E ref \in References :
       /\ <<caller, ref.nonce>> \notin usedRefs
       /\ usedRefs' = usedRefs \cup {<<caller, ref.nonce>>}
       /\ ApplyPayment(caller, ref)
       /\ nonces' = nonces \/ nonces' = [nonces EXCEPT ![caller] = @ + 1]

\* Only CREATE and UPDATE spend, and only CREATE takes a nonce.
LEMMA OpsPay ==
  ASSUME NEW caller \in Accounts, ApplyOp(caller)
  PROVE  Pays(caller)
<1>1. ASSUME NEW btl \in Btls, NEW attributes \in AttrLists, NEW ref \in References,
             ApplyCreate(caller, btl, attributes, ref)
      PROVE  Pays(caller)
  BY <1>1 DEF ApplyCreate, ConsumeReference, Pays
<1>2. ASSUME NEW key \in Keys, NEW attributes \in AttrLists, NEW ref \in References,
             ApplyUpdate(caller, key, attributes, ref)
      PROVE  Pays(caller)
  BY <1>2 DEF ApplyUpdate, ConsumeReference, Pays
<1>3. ASSUME NEW key \in Keys,
             \/ \E btl \in Btls : ApplyExtend(caller, key, btl)
             \/ \E newOwner \in Accounts \cup {ZeroAddress} :
                  ApplyTransfer(caller, key, newOwner)
             \/ ApplyDelete(caller, key)
             \/ ApplyExpire(key)
      PROVE  Pays(caller)
  BY <1>3 DEF ApplyExtend, ApplyTransfer, ApplyDelete, ApplyExpire, systemVars, Pays
<1> QED
  BY <1>1, <1>2, <1>3 DEF ApplyOp
-----------------------------------------------------------------------------
(* Calls. *)

\* StateInv of the state that a checkpoint s holds.
CheckpointInv(s) ==
  /\ s.entity \in [Addrs -> Entities \cup {NoEntity}]
  /\ s.pair \in [Pairs -> SUBSET Ids]
  /\ s.index \subseteq Pairs
  /\ s.idToAddr \in [Ids -> Addrs \cup {NoAddr}]
  /\ s.addrToId \in [Addrs -> Nat]
  /\ s.entityCount \in 0 .. MaxEntities
  /\ \A a \in Addrs : s.entity[a] # NoEntity =>
       /\ s.addrToId[a] < s.entityCount
       /\ s.idToAddr[s.addrToId[a]] = a
  /\ \A i \in Ids : s.idToAddr[i] # NoAddr =>
       /\ i < s.entityCount
       /\ s.entity[s.idToAddr[i]] # NoEntity
       /\ s.addrToId[s.idToAddr[i]] = i
  /\ \A p \in Pairs : \A i \in s.pair[p] :
       /\ i < s.entityCount
       /\ p[1] # "$key" => s.idToAddr[i] # NoAddr
       /\ s.idToAddr[i] # NoAddr => p \in CarriedPairs(s.entity[s.idToAddr[i]])
  /\ \A a \in Addrs : s.entity[a] # NoEntity =>
       \A p \in CarriedPairs(s.entity[a]) \cap StablePairs : s.addrToId[a] \in s.pair[p]
  /\ \A p \in OrderedPairs : p \in s.index <=> s.pair[p] # {}
  /\ \A p \in s.index : p \in OrderedPairs \/ UsedAs(p, TRUE)
  /\ s.nonces \in [Accounts -> 0 .. MaxNonce]
  /\ s.usedRefs \subseteq Accounts \X RefNonces
  /\ s.balance \in [Payers -> Nat]
  /\ \A a \in Addrs : s.entity[a] # NoEntity =>
       /\ a[2] < s.nonces[a[1]]
       /\ s.entity[a].key = DeriveEntityKey(a[1], a[2])
       /\ s.entity[a].creator = a[1]

\* A checkpoint of a state that satisfies StateInv satisfies it too.
LEMMA SavedInv == StateInv => CheckpointInv(State)
<1> SUFFICES ASSUME StateInv PROVE CheckpointInv(State)
  OBVIOUS
<1> DEFINE s == State
<1>1. DbInv /\ SystemTypeOK /\ MintedOnce
  BY DEF StateInv
<1>2. /\ s.entity = entity /\ s.pair = pair /\ s.index = index
      /\ s.idToAddr = idToAddr /\ s.addrToId = addrToId
      /\ s.entityCount = entityCount /\ s.nonces = nonces
      /\ s.usedRefs = usedRefs /\ s.balance = balance
  BY DEF State
<1> HIDE DEF s
<1>3. /\ s.entity \in [Addrs -> Entities \cup {NoEntity}]
      /\ s.pair \in [Pairs -> SUBSET Ids]
      /\ s.index \subseteq Pairs
      /\ s.idToAddr \in [Ids -> Addrs \cup {NoAddr}]
      /\ s.addrToId \in [Addrs -> Nat]
      /\ s.entityCount \in 0 .. MaxEntities
  BY <1>1, <1>2 DEF DbInv, DbTypeOK
<1>4. /\ \A a \in Addrs : s.entity[a] # NoEntity =>
           /\ s.addrToId[a] < s.entityCount
           /\ s.idToAddr[s.addrToId[a]] = a
      /\ \A i \in Ids : s.idToAddr[i] # NoAddr =>
           /\ i < s.entityCount
           /\ s.entity[s.idToAddr[i]] # NoEntity
           /\ s.addrToId[s.idToAddr[i]] = i
  BY <1>1, <1>2 DEF DbInv, IdMapsInverse
<1>5. \A p \in Pairs : \A i \in s.pair[p] :
        /\ i < s.entityCount
        /\ p[1] # "$key" => s.idToAddr[i] # NoAddr
        /\ s.idToAddr[i] # NoAddr => p \in CarriedPairs(s.entity[s.idToAddr[i]])
  BY <1>1, <1>2 DEF DbInv, BitmapsSound
<1>6. \A a \in Addrs : s.entity[a] # NoEntity =>
        \A p \in CarriedPairs(s.entity[a]) \cap StablePairs : s.addrToId[a] \in s.pair[p]
  BY <1>1, <1>2 DEF DbInv, BitmapsComplete
<1>7. /\ \A p \in OrderedPairs : p \in s.index <=> s.pair[p] # {}
      /\ \A p \in s.index : p \in OrderedPairs \/ UsedAs(p, TRUE)
  BY <1>1, <1>2 DEF DbInv, TreesExact
<1>8. /\ s.nonces \in [Accounts -> 0 .. MaxNonce]
      /\ s.usedRefs \subseteq Accounts \X RefNonces
      /\ s.balance \in [Payers -> Nat]
  BY <1>1, <1>2 DEF SystemTypeOK
<1>9. \A a \in Addrs : s.entity[a] # NoEntity =>
        /\ a[2] < s.nonces[a[1]]
        /\ s.entity[a].key = DeriveEntityKey(a[1], a[2])
        /\ s.entity[a].creator = a[1]
  BY <1>1, <1>2 DEF MintedOnce
<1>10. CheckpointInv(s)
  BY <1>3, <1>4, <1>5, <1>6, <1>7, <1>8, <1>9 DEF CheckpointInv
<1> QED
  BY <1>10 DEF s

\* The current state becomes the one that s holds.
Restores(s) ==
  /\ entity' = s.entity
  /\ pair' = s.pair
  /\ index' = s.index
  /\ idToAddr' = s.idToAddr
  /\ addrToId' = s.addrToId
  /\ entityCount' = s.entityCount
  /\ nonces' = s.nonces
  /\ usedRefs' = s.usedRefs
  /\ balance' = s.balance

\* Restoring such a checkpoint restores StateInv.
LEMMA RestoredInv ==
  ASSUME NEW s, CheckpointInv(s), Restores(s)
  PROVE  StateInv'
BY DEF StateInv, DbInv, DbTypeOK, IdMapsInverse, BitmapsSound, BitmapsComplete,
       TreesExact, SystemTypeOK, MintedOnce, CheckpointInv, Restores

(***************************************************************************)
(* The inductive invariant                                                 *)
(***************************************************************************)

\* What the running call has made of the entity that the checkpoint holds at
\* a: nothing, a change by its owner before the expiry, the removal of an
\* expired entity, or (at an address minted since) a new entity.
CallSpan(a) ==
  LET before == saved.entity[a]
  IN \/ entity[a] = before
     \/ /\ before # NoEntity
        /\ before.owner = call.caller
        /\ before.expiresAt > block
        /\ entity[a] # NoEntity =>
             /\ entity[a].creator = before.creator
             /\ entity[a].createdAt = before.createdAt
             /\ entity[a].expiresAt >= before.expiresAt
     \/ /\ before # NoEntity
        /\ before.expiresAt <= block
        /\ entity[a] = NoEntity
     \/ /\ before = NoEntity
        /\ a[1] = call.caller
        /\ saved.nonces[call.caller] <= a[2]
        /\ a[2] < nonces[call.caller]
        /\ entity[a] # NoEntity =>
             entity[a].creator = call.caller /\ entity[a].createdAt = block

CallProgress ==
  /\ \A a \in Addrs : CallSpan(a)
  /\ \A d \in Accounts : saved.nonces[d] <= nonces[d]
  /\ \A d \in Accounts \ {call.caller} : nonces[d] = saved.nonces[d]
  /\ saved.entityCount <= entityCount
  /\ \A i \in Ids : i < saved.entityCount =>
       idToAddr[i] \in {saved.idToAddr[i], NoAddr}

Calls == [caller : Accounts, done : 0 .. MaxBatch]

IInv ==
  /\ StateInv
  /\ block \in 0 .. MaxBlock
  /\ log \in Seq(Events)
  /\ call \in {NoCall} \cup Calls
  /\ call # NoCall => CheckpointInv(saved) /\ CallProgress

\* Every block number is a height.
LEMMA BlockIsHeight == block \in 0 .. MaxBlock => block \in Heights
BY ExecuteConstantsAssumption, DbConstantsAssumption DEF Heights

\* The genesis state satisfies the strengthened invariant.
LEMMA InitHolds == Init => IInv
<1> SUFFICES ASSUME Init PROVE IInv
  OBVIOUS
<1>1. DbInv
  BY DbInitHolds DEF Init
<1>2. SystemTypeOK
  <2>1. 0 \in 0 .. MaxNonce
    BY DbConstantsAssumption
  <2>2. balance \in [Payers -> Nat]
    BY ExecuteConstantsAssumption DEF Init
  <2> QED
    BY <2>1, <2>2 DEF Init, SystemTypeOK
<1>3. MintedOnce
  BY DEF Init, DbInit, MintedOnce
<1>4. block \in 0 .. MaxBlock /\ log \in Seq(Events) /\ call = NoCall
  BY ExecuteConstantsAssumption DEF Init
<1> QED
  BY <1>1, <1>2, <1>3, <1>4 DEF IInv, StateInv

\* The call that is running while its operations go through.
LEMMA CallIsTyped ==
  ASSUME call \in {NoCall} \cup Calls, call # NoCall
  PROVE  call \in Calls /\ call.caller \in Accounts /\ call.done \in 0 .. MaxBatch
BY DEF Calls

\* One more operation of a call stays within what the call may do.
LEMMA SpanStep ==
  ASSUME IInv, call # NoCall, NEW a \in Addrs, Reach(a, call.caller),
         nonces' \in [Accounts -> 0 .. MaxNonce],
         \A d \in Accounts : nonces[d] <= nonces'[d],
         entity' \in [Addrs -> Entities \cup {NoEntity}],
         call'.caller = call.caller, saved' = saved, block' = block
  PROVE  CallSpan(a)'
<1> DEFINE before == saved.entity[a]
           c == call.caller
<1>1. c \in Accounts /\ a[1] \in Accounts /\ a[2] \in Nat
  BY CallIsTyped, DbConstantsAssumption DEF IInv, Addrs
<1>2. /\ nonces[c] \in Nat /\ nonces'[c] \in Nat /\ saved.nonces[c] \in Nat
      /\ saved.nonces[c] <= nonces[c] /\ nonces[c] <= nonces'[c]
  <2>1. /\ nonces \in [Accounts -> 0 .. MaxNonce]
        /\ saved.nonces \in [Accounts -> 0 .. MaxNonce]
    BY DEF IInv, StateInv, SystemTypeOK, CheckpointInv
  <2>2. saved.nonces[c] <= nonces[c] /\ nonces[c] <= nonces'[c]
    BY <1>1 DEF IInv, CallProgress
  <2> QED
    BY <1>1, <2>1, <2>2, DbConstantsAssumption
<1>3. before # NoEntity => a[1] # c \/ a[2] < saved.nonces[c]
  BY DEF IInv, CheckpointInv
<1>4. /\ before # NoEntity => before.expiresAt \in Nat
      /\ entity[a] # NoEntity => entity[a].expiresAt \in Nat
      /\ entity'[a] # NoEntity => entity'[a].expiresAt \in Nat
  <2>1. /\ entity \in [Addrs -> Entities \cup {NoEntity}]
        /\ saved.entity \in [Addrs -> Entities \cup {NoEntity}]
    BY DEF IInv, StateInv, DbInv, DbTypeOK, CheckpointInv
  <2> QED
    BY <2>1 DEF Entities, Heights
<1>5. block \in Nat
  BY DEF IInv
<1>6. CallSpan(a)
  BY DEF IInv, CallProgress
<1>7. SUFFICES
        \/ entity'[a] = before
        \/ /\ before # NoEntity /\ before.owner = c /\ before.expiresAt > block
           /\ entity'[a] # NoEntity =>
                /\ entity'[a].creator = before.creator
                /\ entity'[a].createdAt = before.createdAt
                /\ entity'[a].expiresAt >= before.expiresAt
        \/ before # NoEntity /\ before.expiresAt <= block /\ entity'[a] = NoEntity
        \/ /\ before = NoEntity /\ a[1] = c
           /\ saved.nonces[c] <= a[2] /\ a[2] < nonces'[c]
           /\ entity'[a] # NoEntity =>
                entity'[a].creator = c /\ entity'[a].createdAt = block
  BY DEF CallSpan
<1>8. CASE entity[a] = before
  BY <1>8, <1>2, <1>1, <1>4, <1>5 DEF Reach
<1>9. CASE before # NoEntity /\ entity[a] # before
  <2>1. entity[a] = NoEntity => entity'[a] = NoEntity
    BY <1>9, <1>1, <1>2, <1>3 DEF Reach
  <2> QED
    BY <1>9, <1>6, <2>1, <1>1, <1>2, <1>4, <1>5 DEF Reach, CallSpan
<1>10. CASE before = NoEntity /\ entity[a] # before
  BY <1>10, <1>6, <1>1, <1>2, <1>4, <1>5 DEF Reach, CallSpan
<1> QED
  BY <1>8, <1>9, <1>10

\* Opening a call keeps the invariant: the checkpoint is the state.
LEMMA BeginKeeps ==
  ASSUME IInv, NEW caller \in Accounts, Begin(caller)
  PROVE  IInv'
<1>1. /\ call' = [caller |-> caller, done |-> 0] /\ saved' = State
      /\ UNCHANGED <<dbVars, systemVars, block, log>>
  BY DEF Begin
<1>2. StateInv' /\ block' \in 0 .. MaxBlock /\ log' \in Seq(Events)
  BY <1>1 DEF IInv, StateInv, DbInv, DbTypeOK, IdMapsInverse, BitmapsSound,
    BitmapsComplete, TreesExact, SystemTypeOK, MintedOnce, dbVars, systemVars
<1>3. call' \in Calls /\ call'.caller = caller
  BY <1>1, ExecuteConstantsAssumption DEF Calls
<1>4. CheckpointInv(saved)'
  <2>1. CheckpointInv(State)
    BY SavedInv DEF IInv
  <2> QED
    BY <1>1, <2>1 DEF CheckpointInv
<1>5. CallProgress'
  <2>1. /\ saved'.entity = entity' /\ saved'.nonces = nonces'
        /\ saved'.entityCount = entityCount' /\ saved'.idToAddr = idToAddr'
    BY <1>1 DEF State, dbVars, systemVars
  <2>2. /\ \A d \in Accounts : nonces'[d] \in Nat
        /\ entityCount' \in Nat
    BY <1>2, DbConstantsAssumption DEF StateInv, SystemTypeOK, DbInv, DbTypeOK
  <2> QED
    BY <2>1, <2>2 DEF CallProgress, CallSpan
<1> QED
  BY <1>2, <1>3, <1>4, <1>5 DEF IInv

\* An operation keeps the invariant.
LEMMA ApplyKeeps ==
  ASSUME IInv, Apply
  PROVE  IInv'
<1>1. /\ call # NoCall /\ call.done < MaxBatch
      /\ ApplyOp(call.caller)
      /\ call' = [call EXCEPT !.done = @ + 1]
      /\ block' = block /\ saved' = saved
  BY DEF Apply
<1>2. call \in Calls /\ call.caller \in Accounts /\ call.done \in 0 .. MaxBatch
  BY <1>1, CallIsTyped DEF IInv
<1>3. call' \in Calls /\ call'.caller = call.caller
  <2>1. call.done + 1 \in 0 .. MaxBatch
    BY <1>1, <1>2, ExecuteConstantsAssumption
  <2> QED
    BY <1>1, <1>2, <2>1 DEF Calls
<1>4. block \in Heights /\ block' \in 0 .. MaxBlock
  BY <1>1, BlockIsHeight DEF IInv
<1>5. OpKeeps
  BY <1>1, <1>2, <1>4, OpsKeep DEF IInv
<1>6. OpReach(call.caller)
  BY <1>1, <1>2, <1>4, OpsReach DEF IInv
<1>7. CheckpointInv(saved)'
  BY <1>1 DEF IInv, CheckpointInv
<1>8. CallProgress'
  <2>1. nonces' \in [Accounts -> 0 .. MaxNonce]
        /\ entity' \in [Addrs -> Entities \cup {NoEntity}]
    BY <1>5 DEF OpKeeps, StateInv, SystemTypeOK, DbInv, DbTypeOK
  <2>2. ASSUME NEW a \in Addrs
        PROVE  CallSpan(a)'
    BY <1>1, <1>3, <1>6, <2>1, SpanStep DEF OpReach
  <2>3. ASSUME NEW d \in Accounts
        PROVE  saved'.nonces[d] <= nonces'[d]
    <3>1. saved.nonces[d] <= nonces[d] /\ nonces[d] <= nonces'[d]
      BY <1>1, <1>6 DEF IInv, CallProgress, OpReach
    <3>2. /\ saved.nonces[d] \in Nat /\ nonces[d] \in Nat /\ nonces'[d] \in Nat
      BY <1>1, <2>1, DbConstantsAssumption
         DEF IInv, CheckpointInv, StateInv, SystemTypeOK
    <3> QED
      BY <3>1, <3>2, <1>1
  <2>4. \A d \in Accounts \ {call'.caller} : nonces'[d] = saved'.nonces[d]
    BY <1>1, <1>3, <1>6 DEF IInv, CallProgress, OpReach
  <2>5. saved.entityCount <= entityCount /\ entityCount <= entityCount'
        /\ saved.entityCount \in Nat /\ entityCount \in Nat /\ entityCount' \in Nat
    BY <1>1, <1>5, <1>6, DbConstantsAssumption DEF IInv, CallProgress, OpReach,
       OpKeeps, StateInv, DbInv, DbTypeOK, CheckpointInv
  <2>6. ASSUME NEW i \in Ids, i < saved'.entityCount
        PROVE  idToAddr'[i] \in {saved'.idToAddr[i], NoAddr}
    <3>1. i < entityCount
      BY <1>1, <2>5, <2>6, DbConstantsAssumption DEF Ids
    <3> QED
      BY <1>1, <1>6, <2>6, <3>1 DEF IInv, CallProgress, OpReach
  <2> QED
    BY <1>1, <2>2, <2>3, <2>4, <2>5, <2>6 DEF CallProgress
<1> QED
  BY <1>3, <1>4, <1>5, <1>7, <1>8 DEF IInv, OpKeeps

\* A commit keeps the state and a revert restores the checkpoint.
LEMMA EndKeeps ==
  ASSUME IInv, Commit \/ Revert
  PROVE  IInv'
<1>1. call # NoCall /\ call' = NoCall /\ log' = <<>> /\ block' = block
  BY DEF Commit, Revert
<1>2. CASE Commit
  <2>1. StateInv'
    BY <1>2 DEF Commit, IInv, StateInv, DbInv, DbTypeOK, IdMapsInverse,
      BitmapsSound, BitmapsComplete, TreesExact, SystemTypeOK, MintedOnce,
      dbVars, systemVars
  <2> QED
    BY <1>1, <2>1 DEF IInv
<1>3. CASE Revert
  <2>1. Restores(saved)
    BY <1>3 DEF Revert, Restores
  <2>2. StateInv'
    BY <1>1, <2>1, RestoredInv DEF IInv
  <2> QED
    BY <1>1, <2>2 DEF IInv
<1> QED
  BY <1>2, <1>3

\* The steps that leave the state alone.
LEMMA IdleKeeps ==
  ASSUME IInv, NewBlock \/ UNCHANGED vars
  PROVE  IInv'
<1>1. /\ UNCHANGED <<dbVars, systemVars, log, call, saved>>
      /\ block' \in 0 .. MaxBlock
      /\ call # NoCall => block' = block
  <2>1. CASE NewBlock
    BY <2>1, ExecuteConstantsAssumption DEF NewBlock, IInv
  <2>2. CASE UNCHANGED vars
    BY <2>2 DEF vars, IInv
  <2> QED
    BY <2>1, <2>2
<1>2. StateInv'
  BY <1>1 DEF IInv, StateInv, DbInv, DbTypeOK, IdMapsInverse, BitmapsSound,
    BitmapsComplete, TreesExact, SystemTypeOK, MintedOnce, dbVars, systemVars
<1>3. ASSUME call' # NoCall
      PROVE  CheckpointInv(saved)' /\ CallProgress'
  <2>1. UNCHANGED <<entity, idToAddr, entityCount, nonces, block, call, saved>>
    BY <1>1, <1>3 DEF dbVars, systemVars
  <2>2. CheckpointInv(saved) /\ CallProgress
    BY <1>3, <2>1 DEF IInv
  <2>3. CheckpointInv(saved')
    BY <2>1, <2>2
  <2>4. \A a \in Addrs : CallSpan(a)'
    BY <2>1, <2>2 DEF CallProgress, CallSpan
  <2> QED
    BY <2>1, <2>2, <2>3, <2>4 DEF CallProgress
<1> QED
  BY <1>1, <1>2, <1>3 DEF IInv

\* The strengthened invariant is inductive.
THEOREM Invariance == Spec => []IInv
<1>1. Init => IInv
  BY InitHolds
<1>2. IInv /\ [Next]_vars => IInv'
  BY BeginKeeps, ApplyKeeps, EndKeeps, IdleKeeps DEF Next
<1> QED
  BY <1>1, <1>2, PTL DEF Spec

(***************************************************************************)
(* The invariants of ExecuteProps                                          *)
(***************************************************************************)

\* Every variable keeps its type: in particular no operation stores an entity
\* owned by nobody, or an ID, nonce or balance outside its range.
THEOREM TypeCorrect == Spec => []TypeOK
<1>1. IInv => TypeOK
  BY DEF IInv, Calls, StateInv, DbInv, SystemTypeOK, TypeOK
<1> QED
  BY <1>1, Invariance, PTL

\* Live entities and IDs stay in one-to-one correspondence.
THEOREM IdMapsStayInverse == Spec => []IdMapsInverse
<1>1. IInv => IdMapsInverse
  BY DEF IInv, StateInv, DbInv
<1> QED
  BY <1>1, Invariance, PTL

\* An ID in an equality bitmap never leads to an entity without the pair.
THEOREM BitmapsStaySound == Spec => []BitmapsSound
<1>1. IInv => BitmapsSound
  BY DEF IInv, StateInv, DbInv
<1> QED
  BY <1>1, Invariance, PTL

\* A live entity is in the bitmap of every stable pair it carries.
THEOREM BitmapsStayComplete == Spec => []BitmapsComplete
<1>1. IInv => BitmapsComplete
  BY DEF IInv, StateInv, DbInv
<1> QED
  BY <1>1, Invariance, PTL

\* The tier-2 trees enumerate the values with a non-empty bitmap.
THEOREM TreesStayExact == Spec => []TreesExact
<1>1. IInv => TreesExact
  BY DEF IInv, StateInv, DbInv
<1> QED
  BY <1>1, Invariance, PTL

\* No CREATE ever meets an address in use.
THEOREM KeysMintedOnce == Spec => []MintedOnce
<1>1. IInv => MintedOnce
  BY DEF IInv, StateInv
<1> QED
  BY <1>1, Invariance, PTL

\* No sequence of operations in a call touches a live entity of another owner.
THEOREM OthersStayUntouched == Spec => []OthersUntouched
<1>1. IInv => OthersUntouched
  <2> SUFFICES ASSUME IInv, call # NoCall, NEW a \in Addrs,
                      saved.entity[a] # NoEntity,
                      saved.entity[a].expiresAt > block,
                      saved.entity[a].owner # call.caller
               PROVE  entity[a] = saved.entity[a]
    BY DEF OthersUntouched
  <2>1. CallSpan(a)
    BY DEF IInv, CallProgress
  <2>2. saved.entity[a].expiresAt \in Nat /\ block \in Nat
    BY DEF IInv, CheckpointInv, Entities, Heights
  <2> QED
    BY <2>1, <2>2 DEF CallSpan
<1> QED
  BY <1>1, Invariance, PTL

\* No sequence of operations in a call revives or rewrites an expired entity.
THEOREM ExpiryIsFinal == Spec => []ExpiredIsFinal
<1>1. IInv => ExpiredIsFinal
  <2> SUFFICES ASSUME IInv, call # NoCall, NEW a \in Addrs,
                      saved.entity[a] # NoEntity,
                      saved.entity[a].expiresAt <= block
               PROVE  entity[a] \in {saved.entity[a], NoEntity}
    BY DEF ExpiredIsFinal
  <2>1. CallSpan(a)
    BY DEF IInv, CallProgress
  <2>2. saved.entity[a].expiresAt \in Nat /\ block \in Nat
    BY DEF IInv, CheckpointInv, Entities, Heights
  <2> QED
    BY <2>1, <2>2 DEF CallSpan
<1> QED
  BY <1>1, Invariance, PTL

\* The burn after a provider payment never runs into an empty account.
THEOREM BurnsNeverFail == Spec => []BurnNeverFails
<1>1. IInv => BurnNeverFails
  BY TransferLeaves, BlockIsHeight DEF IInv, StateInv, BurnNeverFails
<1> QED
  BY <1>1, Invariance, PTL

(***************************************************************************)
(* The action properties of ExecuteProps                                   *)
(***************************************************************************)

\* The committed state becomes the one that s holds.
Commits(s) ==
  /\ Committed'.entity = s.entity
  /\ Committed'.pair = s.pair
  /\ Committed'.index = s.index
  /\ Committed'.idToAddr = s.idToAddr
  /\ Committed'.entityCount = s.entityCount
  /\ Committed'.nonces = s.nonces
  /\ Committed'.usedRefs = s.usedRefs
  /\ Committed'.balance = s.balance

\* What a step may do to the committed state: only Commit changes it.
LEMMA CommittedSteps ==
  ASSUME IInv, [Next]_vars
  PROVE  \/ Commits(Committed) /\ (block' = block \/ NewBlock)
         \/ /\ Commit
            /\ call # NoCall
            /\ Committed = saved
            /\ Commits(State)
            /\ block' = block
<1>1. CASE \E caller \in Accounts : Begin(caller)
  <2> PICK caller \in Accounts : Begin(caller)
    BY <1>1
  <2>1. /\ call = NoCall /\ call' = [caller |-> caller, done |-> 0] /\ saved' = State
        /\ block' = block
    BY DEF Begin
  <2>2. call' # NoCall
    BY <2>1, ExecuteConstantsAssumption
  <2> QED
    BY <2>1, <2>2 DEF Committed, Commits
<1>2. CASE Apply
  <2>1. /\ call # NoCall /\ call.done < MaxBatch /\ saved' = saved /\ block' = block
        /\ call' = [call EXCEPT !.done = @ + 1]
    BY <1>2 DEF Apply
  <2>2. call' # NoCall
    <3>1. call \in Calls
      BY <2>1 DEF IInv
    <3>2. call.done + 1 \in 0 .. MaxBatch
      BY <2>1, <3>1, ExecuteConstantsAssumption DEF Calls
    <3> QED
      BY <2>1, <3>1, <3>2, ExecuteConstantsAssumption DEF Calls
  <2> QED
    BY <2>1, <2>2 DEF Committed, Commits
<1>3. CASE Commit
  BY <1>3 DEF Commit, Committed, State, Commits, dbVars, systemVars
<1>4. CASE Revert
  BY <1>4 DEF Revert, Committed, State, Commits
<1>5. CASE NewBlock
  BY <1>5 DEF NewBlock, Committed, State, Commits, dbVars, systemVars
<1>6. CASE UNCHANGED vars
  BY <1>6 DEF vars, Committed, State, Commits, dbVars, systemVars
<1> QED
  BY <1>1, <1>2, <1>3, <1>4, <1>5, <1>6 DEF Next

\* An address that was minted and has been emptied stays empty.
THEOREM DeletionIsForever == Spec => DeletedForever
<1> DEFINE Gone(a) == (Committed.entity[a] = NoEntity /\ a[2] < Committed.nonces[a[1]])
                        => Committed'.entity[a] = NoEntity
<1>1. IInv /\ [Next]_vars => [\A a \in Addrs : Gone(a)]_vars
  <2> SUFFICES ASSUME IInv, [Next]_vars, NEW a \in Addrs,
                      Committed.entity[a] = NoEntity,
                      a[2] < Committed.nonces[a[1]]
               PROVE  Committed'.entity[a] = NoEntity
    OBVIOUS
  <2>1. CASE Commits(Committed)
    BY <2>1 DEF Commits
  <2>2. CASE call # NoCall /\ Committed = saved /\ Commits(State)
    <3>1. CallSpan(a) /\ saved.entity[a] = NoEntity /\ a[2] < saved.nonces[a[1]]
      BY <2>2 DEF IInv, CallProgress
    <3>2. a[1] \in Accounts /\ a[2] \in Nat
      BY DbConstantsAssumption DEF Addrs
    <3>3. saved.nonces[a[1]] \in Nat
      BY <2>2, <3>2, DbConstantsAssumption DEF IInv, CheckpointInv
    <3> QED
      BY <2>2, <3>1, <3>2, <3>3 DEF CallSpan, Commits, State
  <2> QED
    BY <2>1, <2>2, CommittedSteps
<1> QED
  BY <1>1, Invariance, PTL DEF Spec, DeletedForever

\* An entity ID that was given out never leads to another entity.
THEOREM IdsStayUsedUp == Spec => IdsNeverReused
<1> DEFINE Kept(i) == i < Committed.entityCount
                        => Committed'.idToAddr[i] \in {Committed.idToAddr[i], NoAddr}
           Grown == Committed'.entityCount >= Committed.entityCount
<1>1. ASSUME IInv
      PROVE  Committed.entityCount \in Nat
  <2>1. StateInv /\ (call # NoCall => CheckpointInv(saved))
    BY <1>1 DEF IInv
  <2>2. entityCount \in Nat
    BY <2>1, DbConstantsAssumption DEF StateInv, DbInv, DbTypeOK
  <2>3. call # NoCall => saved.entityCount \in Nat
    BY <2>1, DbConstantsAssumption DEF CheckpointInv
  <2> QED
    BY <2>2, <2>3 DEF Committed, State
<1>2. ASSUME IInv, [Next]_vars
      PROVE  Grown /\ \A i \in Ids : Kept(i)
  <2>1. CASE Commits(Committed)
    BY <1>1, <1>2, <2>1 DEF Commits
  <2>2. CASE call # NoCall /\ Committed = saved /\ Commits(State)
    BY <1>1, <1>2, <2>2 DEF IInv, CallProgress, Commits, State
  <2> QED
    BY <1>2, <2>1, <2>2, CommittedSteps
<1> HIDE DEF Kept, Grown
<1>3. IInv /\ [Next]_vars => [Grown /\ \A i \in Ids : Kept(i)]_vars
  BY <1>2
<1> USE DEF Kept, Grown
<1> QED
  BY <1>3, Invariance, PTL DEF Spec, IdsNeverReused

(***************************************************************************)
(* Events, references and money                                            *)
(*                                                                         *)
(* What a call has told, minted and paid so far is accounted for against   *)
(* its checkpoint, operation by operation; that the checkpoint's own mints *)
(* are covered is kept for the sake of a revert.                           *)
(***************************************************************************)

\* Replaying the events of the call from its checkpoint leads to the present.
CallTold ==
  \E f : /\ DOMAIN f = 0 .. Len(log)
         /\ f[0] = [a \in Addrs |-> EventView(saved.entity[a])]
         /\ \A k \in 1 .. Len(log) : f[k] = AfterEvent(f[k - 1], log[k])
         /\ f[Len(log)] = Views

\* Every nonce that is taken goes with a signed one that is used.
MintsCovered(used, minted) ==
  \A c \in Accounts :
    LET spent == {n \in SignedNonces : <<c, n>> \in used}
    IN IsFiniteSet(spent) /\ minted[c] <= Cardinality(spent)

\* The balances differ from the checkpoint's by what the call has spent.
CallLedger ==
  LET spent == usedRefs \ saved.usedRefs
  IN /\ saved.usedRefs \subseteq usedRefs
     /\ IsFiniteSet(spent)
     /\ \A a \in Payers :
          balance[a] + SumFunctionOnSet(Cost, {s \in spent : s[1] = a})
            = saved.balance[a]
                + SumFunctionOnSet(Share, {s \in spent : ReferenceOf(s).provider = a})

AccountInv ==
  /\ MintsCovered(usedRefs, nonces)
  /\ call = NoCall => log = <<>>
  /\ call # NoCall => /\ MintsCovered(saved.usedRefs, saved.nonces)
                      /\ CallLedger
                      /\ CallTold

\* One more event continues the replay.
LEMMA ToldFurther ==
  ASSUME CallTold, log \in Seq(Events), Told, saved' = saved
  PROVE  CallTold'
<1>1. PICK ev \in Events : log' = Append(log, ev) /\ Views' = AfterEvent(Views, ev)
  BY DEF Told
<1>2. PICK f : /\ DOMAIN f = 0 .. Len(log)
               /\ f[0] = [a \in Addrs |-> EventView(saved.entity[a])]
               /\ \A k \in 1 .. Len(log) : f[k] = AfterEvent(f[k - 1], log[k])
               /\ f[Len(log)] = Views
  BY DEF CallTold
<1> DEFINE n == Len(log)
           g == [k \in 0 .. (n + 1) |-> IF k = n + 1 THEN Views' ELSE f[k]]
<1>3. /\ n \in Nat /\ Len(log') = n + 1
      /\ log'[n + 1] = ev /\ \A k \in 1 .. n : log'[k] = log[k]
  BY <1>1
<1> HIDE DEF n
<1>4. ASSUME NEW k \in 1 .. (n + 1)
      PROVE  g[k] = AfterEvent(g[k - 1], log'[k])
  <2>1. CASE k = n + 1
    <3>1. g[k] = Views' /\ g[k - 1] = f[n]
      BY <1>3, <2>1
    <3>2. f[n] = Views
      BY <1>2 DEF n
    <3> QED
      BY <1>1, <1>3, <2>1, <3>1, <3>2
  <2>2. CASE k # n + 1
    <3>1. k \in 1 .. n /\ g[k] = f[k] /\ g[k - 1] = f[k - 1]
      BY <1>3, <2>2
    <3>2. f[k] = AfterEvent(f[k - 1], log[k])
      BY <1>2, <3>1 DEF n
    <3> QED
      BY <1>3, <3>1, <3>2
  <2> QED
    BY <2>1, <2>2
<1>5. /\ DOMAIN g = 0 .. (n + 1) /\ g[n + 1] = Views' /\ g[0] = f[0]
  BY <1>3
<1>6. g[0] = [a \in Addrs |-> EventView(saved'.entity[a])]
  BY <1>2, <1>5
<1> HIDE DEF g
<1> QED
  BY <1>3, <1>4, <1>5, <1>6 DEF CallTold

\* A spending covers one more mint.
LEMMA CoveredFurther ==
  ASSUME MintsCovered(usedRefs, nonces), SystemTypeOK,
         NEW caller \in Accounts, Pays(caller)
  PROVE  MintsCovered(usedRefs, nonces)'
<1> DEFINE Spent(c) == {n \in SignedNonces : <<c, n>> \in usedRefs}
<1>1. \A c \in Accounts : IsFiniteSet(Spent(c)) /\ nonces[c] <= Cardinality(Spent(c))
  BY DEF MintsCovered
<1>2. CASE nonces' = nonces /\ usedRefs' = usedRefs
  <2>1. SignedNonces' = SignedNonces
    BY DEF SignedNonces
  <2> QED
    BY <1>2, <2>1 DEF MintsCovered
<1>3. ASSUME NEW ref \in References,
             <<caller, ref.nonce>> \notin usedRefs,
             usedRefs' = usedRefs \cup {<<caller, ref.nonce>>},
             nonces' = nonces \/ nonces' = [nonces EXCEPT ![caller] = @ + 1]
      PROVE  MintsCovered(usedRefs, nonces)'
  <2>1. ref.nonce \in SignedNonces
    BY ReferencesAreSigned DEF SignedNonces
  <2>2. ASSUME NEW c \in Accounts
        PROVE  IsFiniteSet(Spent(c)') /\ nonces'[c] <= Cardinality(Spent(c)')
    <3>1. nonces[c] \in Nat /\ Cardinality(Spent(c)) \in Nat
      BY <1>1, FS_CardinalityType, DbConstantsAssumption DEF SystemTypeOK
    <3>2. CASE c = caller
      <4>1. Spent(c)' = Spent(c) \cup {ref.nonce} /\ ref.nonce \notin Spent(c)
        <5>1. SignedNonces' = SignedNonces
          BY DEF SignedNonces
        <5>2. \A n : <<c, n>> \in usedRefs' <=> <<c, n>> \in usedRefs \/ n = ref.nonce
          BY <1>3, <3>2
        <5>. HIDE DEF SignedNonces
        <5> QED
          BY <2>1, <5>1, <5>2, <1>3, <3>2
      <4>2. /\ IsFiniteSet(Spent(c)')
            /\ Cardinality(Spent(c)') = Cardinality(Spent(c)) + 1
        <5> HIDE DEF Spent
        <5> QED
          BY <1>1, <4>1, FS_AddElement
      <4>3. nonces'[c] <= nonces[c] + 1
        BY <1>3, <3>1, <3>2 DEF SystemTypeOK
      <4>4. nonces'[c] \in Nat
        BY <1>3, <3>1, <3>2 DEF SystemTypeOK
      <4> QED
        BY <1>1, <3>1, <4>2, <4>3, <4>4
    <3>3. CASE c # caller
      <4>1. Spent(c)' = Spent(c) /\ nonces'[c] = nonces[c]
        BY <1>3, <3>3 DEF SystemTypeOK
      <4> QED
        BY <1>1, <4>1
    <3> QED
      BY <3>2, <3>3
  <2> QED
    BY <2>2 DEF MintsCovered
<1> QED
  BY <1>2, <1>3 DEF Pays

\* A spending moves what it costs.
LEMMA LedgerFurther ==
  ASSUME CallLedger, SystemTypeOK, saved.balance \in [Payers -> Nat],
         block \in Heights, block' = block, saved' = saved,
         NEW caller \in Accounts, Pays(caller)
  PROVE  CallLedger'
<1> DEFINE spent == usedRefs \ saved.usedRefs
           Own(a) == {s \in spent : s[1] = a}
           Earned(a) == {s \in spent : ReferenceOf(s).provider = a}
<1>1. Cost' = Cost /\ Share' = Share
  BY DEF Cost, Share, Price, ProviderAmount
<1>2. /\ saved.usedRefs \subseteq usedRefs /\ IsFiniteSet(spent)
      /\ \A a \in Payers : balance[a] + SumFunctionOnSet(Cost, Own(a))
                             = saved.balance[a] + SumFunctionOnSet(Share, Earned(a))
  BY DEF CallLedger
<1>3. spent \subseteq Spendings
  BY DEF SystemTypeOK, Spendings
<1>4. CASE usedRefs' = usedRefs /\ balance' = balance
  <2>1. \A s : ReferenceOf(s)' = ReferenceOf(s)
    BY DEF ReferenceOf
  <2> QED
    BY <1>1, <1>2, <1>4, <2>1 DEF CallLedger
<1>5. ASSUME NEW ref \in References,
             <<caller, ref.nonce>> \notin usedRefs,
             usedRefs' = usedRefs \cup {<<caller, ref.nonce>>},
             ApplyPayment(caller, ref)
      PROVE  CallLedger'
  <2> DEFINE new == <<caller, ref.nonce>>
  <2>1. /\ spent' = spent \cup {new} /\ new \notin spent
        /\ saved.usedRefs \subseteq usedRefs'
    BY <1>2, <1>5
  <2>2. /\ new \in Spendings /\ new[1] = caller
        /\ ReferenceOf(new).provider = ref.provider
    BY SpentReference
  <2> HIDE DEF new
  <2>3. IsFiniteSet(spent')
    BY <1>2, <2>1, FS_AddElement
  <2>4. ASSUME NEW a \in Payers
        PROVE  balance'[a] + SumFunctionOnSet(Cost, {s \in spent' : s[1] = a})
                 = saved.balance[a]
                     + SumFunctionOnSet(Share, {s \in spent' : ReferenceOf(s).provider = a})
    <3> DEFINE Owns == {s \in spent' : s[1] = a}
               Earns == {s \in spent' : ReferenceOf(s).provider = a}
    <3>1. balance'[a] + (IF a = caller THEN Cost[new] ELSE 0)
            = balance[a] + (IF a = ref.provider THEN Share[new] ELSE 0)
      BY <1>5, PaymentMoves DEF new
    <3>2. /\ IsFiniteSet(Own(a)) /\ IsFiniteSet(Earned(a))
          /\ Own(a) \subseteq Spendings /\ Earned(a) \subseteq Spendings
          /\ new \notin Own(a) /\ new \notin Earned(a)
      BY <1>2, <1>3, <2>1, FS_Subset
    <3>3. \A s \in Spendings : Cost[s] \in Int /\ Share[s] \in Int
      BY CostsAreNumbers
    <3>4. /\ SumFunctionOnSet(Cost, Own(a)) \in Int
          /\ SumFunctionOnSet(Share, Earned(a)) \in Int
      BY <3>2, <3>3, SumTakesSome
    <3>5. SumFunctionOnSet(Cost, Owns)
            = SumFunctionOnSet(Cost, Own(a)) + (IF a = caller THEN Cost[new] ELSE 0)
      <4>1. CASE a = caller
        <5>1. Owns = Own(a) \cup {new}
          BY <2>1, <2>2, <4>1
        <5> HIDE DEF Owns, Own, Earned
        <5>2. SumFunctionOnSet(Cost, Own(a) \cup {new})
                = Cost[new] + SumFunctionOnSet(Cost, Own(a))
          BY <2>2, <3>2, <3>3, SumAdds
        <5>3. Cost[new] \in Int
          BY <2>2, <3>3
        <5> QED
          BY <3>4, <4>1, <5>1, <5>2, <5>3
      <4>2. CASE a # caller
        <5>1. Owns = Own(a)
          BY <2>1, <2>2, <4>2
        <5> HIDE DEF Owns, Own, Earned
        <5> QED
          BY <3>4, <4>2, <5>1
      <4> QED
        BY <4>1, <4>2
    <3>6. SumFunctionOnSet(Share, Earns)
            = SumFunctionOnSet(Share, Earned(a)) + (IF a = ref.provider THEN Share[new] ELSE 0)
      <4>1. CASE a = ref.provider
        <5>1. Earns = Earned(a) \cup {new}
          BY <2>1, <2>2, <4>1
        <5> HIDE DEF Earns, Own, Earned
        <5>2. SumFunctionOnSet(Share, Earned(a) \cup {new})
                = Share[new] + SumFunctionOnSet(Share, Earned(a))
          BY <2>2, <3>2, <3>3, SumAdds
        <5>3. Share[new] \in Int
          BY <2>2, <3>3
        <5> QED
          BY <3>4, <4>1, <5>1, <5>2, <5>3
      <4>2. CASE a # ref.provider
        <5>1. Earns = Earned(a)
          BY <2>1, <2>2, <4>2
        <5> HIDE DEF Earns, Own, Earned
        <5> QED
          BY <3>4, <4>2, <5>1
      <4> QED
        BY <4>1, <4>2
    <3>7. /\ balance[a] \in Int /\ balance'[a] \in Int /\ saved.balance[a] \in Int
          /\ Cost[new] \in Int /\ Share[new] \in Int
      <4>1. balance \in [Payers -> Nat] /\ balance' \in [Payers -> Nat]
        BY <1>5, PaymentKeepsBalances DEF SystemTypeOK
      <4>2. Cost[new] \in Int /\ Share[new] \in Int
        BY <2>2, <3>3
      <4> QED
        BY <4>1, <4>2
    <3>8. balance[a] + SumFunctionOnSet(Cost, Own(a))
            = saved.balance[a] + SumFunctionOnSet(Share, Earned(a))
      BY <1>2
    <3>9. balance'[a] + SumFunctionOnSet(Cost, Owns)
            = saved.balance[a] + SumFunctionOnSet(Share, Earns)
      <4> HIDE DEF Own, Earned, Owns, Earns
      <4> QED
        BY <3>1, <3>4, <3>5, <3>6, <3>7, <3>8
    <3> QED
      BY <3>9
  <2>5. \A s : ReferenceOf(s)' = ReferenceOf(s)
    BY DEF ReferenceOf
  <2> QED
    BY <1>1, <2>1, <2>3, <2>4, <2>5 DEF CallLedger
<1> QED
  BY <1>4, <1>5 DEF Pays

\* What is there at genesis is accounted for.
LEMMA InitAccounts == Init => AccountInv
<1> SUFFICES ASSUME Init PROVE AccountInv
  OBVIOUS
<1>1. call = NoCall /\ log = <<>> /\ usedRefs = {} /\ nonces = [c \in Accounts |-> 0]
  BY DEF Init
<1>2. IsFiniteSet({}) /\ Cardinality({}) = 0
  BY FS_EmptySet
<1>3. ASSUME NEW c \in Accounts
      PROVE  LET spent == {n \in SignedNonces : <<c, n>> \in usedRefs}
             IN IsFiniteSet(spent) /\ nonces[c] <= Cardinality(spent)
  <2> DEFINE spent == {n \in SignedNonces : <<c, n>> \in usedRefs}
  <2>1. spent = {} /\ nonces[c] = 0
    BY <1>1
  <2> HIDE DEF spent
  <2>2. IsFiniteSet(spent) /\ nonces[c] <= Cardinality(spent)
    BY <1>2, <2>1
  <2> QED
    BY <2>2 DEF spent
<1>4. MintsCovered(usedRefs, nonces)
  BY <1>3 DEF MintsCovered
<1> QED
  BY <1>1, <1>4 DEF AccountInv

\* A call that begins has told and paid nothing.
LEMMA BeginAccounts ==
  ASSUME IInv, AccountInv, NEW caller \in Accounts, Begin(caller)
  PROVE  AccountInv'
<1>1. /\ call = NoCall /\ call' = [caller |-> caller, done |-> 0] /\ saved' = State
      /\ UNCHANGED <<entity, nonces, usedRefs, balance, log>>
  BY DEF Begin, dbVars, systemVars
<1>2. /\ saved'.entity = entity' /\ saved'.usedRefs = usedRefs'
      /\ saved'.nonces = nonces' /\ saved'.balance = balance'
  BY <1>1 DEF State
<1>3. log' = <<>>
  BY <1>1 DEF AccountInv
<1>4. MintsCovered(usedRefs', nonces')
  BY <1>1 DEF AccountInv
<1>5. CallLedger'
  <2> DEFINE spent == usedRefs' \ saved'.usedRefs
  <2>1. spent = {}
    BY <1>2
  <2>2. ASSUME NEW a \in Payers
        PROVE  balance'[a] + SumFunctionOnSet(Cost', {s \in spent : s[1] = a})
                 = saved'.balance[a]
                     + SumFunctionOnSet(Share', {s \in spent : ReferenceOf(s)'.provider = a})
    <3>1. /\ {s \in spent : s[1] = a} = {}
          /\ {s \in spent : ReferenceOf(s)'.provider = a} = {}
      BY <2>1
    <3>2. /\ SumFunctionOnSet(Cost', {}) = 0
          /\ SumFunctionOnSet(Share', {}) = 0
      BY SumOfNone
    <3> QED
      BY <1>2, <3>1, <3>2
  <2>3. IsFiniteSet(spent) /\ saved'.usedRefs \subseteq usedRefs'
    BY <1>2, <2>1, FS_EmptySet
  <2> QED
    BY <2>2, <2>3 DEF CallLedger
<1>6. CallTold'
  <2> DEFINE f == [k \in 0 .. 0 |-> Views']
  <2>1. f[0] = [a \in Addrs |-> EventView(saved'.entity[a])]
    BY <1>2 DEF Views
  <2>2. Len(log') = 0 /\ DOMAIN f = 0 .. 0 /\ f[0] = Views'
    BY <1>3
  <2>3. \A k \in 1 .. 0 : f[k] = AfterEvent(f[k - 1], log'[k])
    OBVIOUS
  <2> HIDE DEF f
  <2> QED
    BY <2>1, <2>2, <2>3 DEF CallTold
<1>7. call' # NoCall
  BY <1>1, ExecuteConstantsAssumption
<1> QED
  BY <1>2, <1>4, <1>5, <1>6, <1>7 DEF AccountInv

\* An operation adds what it tells and pays.
LEMMA ApplyAccounts ==
  ASSUME IInv, AccountInv, Apply
  PROVE  AccountInv'
<1>1. /\ call # NoCall /\ ApplyOp(call.caller)
      /\ block' = block /\ saved' = saved
  BY DEF Apply
<1>2. call.caller \in Accounts
  BY <1>1, CallIsTyped DEF IInv
<1>3. StateInv /\ block \in Heights /\ log \in Seq(Events) /\ SystemTypeOK
  BY BlockIsHeight DEF IInv, StateInv
<1>4. Told
  BY <1>1, <1>2, <1>3, OpsTell
<1>5. Pays(call.caller)
  BY <1>1, <1>2, OpsPay
<1>6. CallTold'
  BY <1>1, <1>3, <1>4, ToldFurther DEF AccountInv
<1>7. MintsCovered(usedRefs, nonces)'
  BY <1>2, <1>3, <1>5, CoveredFurther DEF AccountInv
<1>8. CallLedger'
  <2>1. saved.balance \in [Payers -> Nat]
    BY <1>1 DEF IInv, CheckpointInv
  <2> QED
    BY <1>1, <1>2, <1>3, <1>5, <2>1, LedgerFurther DEF AccountInv
<1>9. MintsCovered(saved.usedRefs, saved.nonces)'
  BY <1>1 DEF AccountInv
<1>10. call' # NoCall
  <2>1. IInv'
    BY ApplyKeeps
  <2>2. call' = [call EXCEPT !.done = @ + 1] /\ call \in Calls /\ call.done < MaxBatch
    BY <1>1 DEF Apply, IInv
  <2>3. call.done + 1 \in 0 .. MaxBatch
    BY <2>2, ExecuteConstantsAssumption DEF Calls
  <2> QED
    BY <2>2, <2>3, ExecuteConstantsAssumption DEF Calls
<1> QED
  BY <1>6, <1>7, <1>8, <1>9, <1>10 DEF AccountInv

\* A commit keeps what is covered, a revert what was.
LEMMA EndAccounts ==
  ASSUME IInv, AccountInv, Commit \/ Revert
  PROVE  AccountInv'
<1>1. call # NoCall /\ call' = NoCall /\ log' = <<>>
  BY DEF Commit, Revert
<1>2. \/ usedRefs' = usedRefs /\ nonces' = nonces
      \/ usedRefs' = saved.usedRefs /\ nonces' = saved.nonces
  BY DEF Commit, Revert, systemVars
<1>3. MintsCovered(usedRefs', nonces')
  BY <1>1, <1>2 DEF AccountInv
<1> QED
  BY <1>1, <1>3 DEF AccountInv

\* The steps that leave the state alone leave its accounts alone.
LEMMA IdleAccounts ==
  ASSUME IInv, AccountInv, NewBlock \/ UNCHANGED vars
  PROVE  AccountInv'
<1>1. /\ UNCHANGED <<entity, nonces, usedRefs, balance, log, call, saved>>
      /\ call # NoCall => block' = block
  BY DEF NewBlock, vars, dbVars, systemVars
<1>2. MintsCovered(usedRefs', nonces')
  BY <1>1 DEF AccountInv
<1>3. ASSUME call' # NoCall
      PROVE  /\ MintsCovered(saved'.usedRefs, saved'.nonces)
             /\ CallLedger'
             /\ CallTold'
  <2>1. /\ UNCHANGED <<entity, usedRefs, balance, log, saved, block>>
        /\ CallLedger /\ CallTold /\ MintsCovered(saved.usedRefs, saved.nonces)
    BY <1>1, <1>3 DEF AccountInv
  <2>2. Cost' = Cost /\ Share' = Share /\ \A s : ReferenceOf(s)' = ReferenceOf(s)
    BY <2>1 DEF Cost, Share, Price, ProviderAmount, ReferenceOf
  <2>3. Views' = Views
    BY <2>1 DEF Views
  <2>4. CallLedger'
    BY <2>1, <2>2 DEF CallLedger
  <2>5. CallTold'
    BY <2>1, <2>3 DEF CallTold
  <2> QED
    BY <2>1, <2>4, <2>5
<1> QED
  BY <1>1, <1>2, <1>3 DEF AccountInv

\* Every event, reference and payment is accounted for.
THEOREM AccountInvariance == Spec => []AccountInv
<1>1. Init => AccountInv
  BY InitAccounts
<1>2. IInv /\ AccountInv /\ [Next]_vars => AccountInv'
  BY BeginAccounts, ApplyAccounts, EndAccounts, IdleAccounts DEF Next
<1> QED
  BY <1>1, <1>2, Invariance, PTL DEF Spec

(***************************************************************************)
(* What they come to                                                       *)
(***************************************************************************)

\* However a caller's CREATEs are interleaved with reverted calls and however
\* references are altered, each has used up a nonce that a provider signed.
THEOREM MintsAreCovered == Spec => []MintsSpendReferences
<1>1. AccountInv => MintsSpendReferences
  BY DEF AccountInv, MintsCovered, MintsSpendReferences
<1> QED
  BY <1>1, AccountInvariance, PTL

\* The events of a call say what has become of every entity.
THEOREM EventsStayTrue == Spec => []EventsTellTheCall
<1>1. ASSUME IInv, AccountInv PROVE EventsTellTheCall
  <2> SUFFICES ASSUME call # NoCall PROVE EventsTellTheCall
    BY DEF EventsTellTheCall
  <2> DEFINE last == Len(log)
             before == [a \in Addrs |-> EventView(saved.entity[a])]
             Replay(v) == v = [n \in 0 .. last |-> IF n = 0 THEN before
                                                   ELSE AfterEvent(v[n - 1], log[n])]
             view == CHOOSE v : Replay(v)
  <2>1. last \in Nat
    BY <1>1 DEF IInv
  <2>2. PICK f : /\ f[0] = before
                 /\ \A k \in 1 .. last : f[k] = AfterEvent(f[k - 1], log[k])
                 /\ f[last] = Views
    BY <1>1 DEF AccountInv, CallTold
  <2> HIDE DEF last, before
  <2> DEFINE g == [k \in 0 .. last |-> f[k]]
  <2>3. Replay(g)
    <3>1. ASSUME NEW n \in 0 .. last
          PROVE  g[n] = IF n = 0 THEN before ELSE AfterEvent(g[n - 1], log[n])
      <4>1. CASE n = 0
        BY <2>1, <2>2, <4>1
      <4>2. CASE n # 0
        <5>1. n \in 1 .. last /\ n - 1 \in 0 .. last
          BY <2>1, <4>2
        <5> QED
          BY <2>2, <4>2, <5>1
      <4> QED
        BY <4>1, <4>2
    <3> QED
      BY <3>1
  <2>4. Replay(view)
    <3> HIDE DEF Replay, g
    <3> QED
      BY <2>3
  <2>5. /\ view[0] = before
        /\ \A n \in 1 .. last : view[n] = AfterEvent(view[n - 1], log[n])
    <3> HIDE DEF view
    <3>1. ASSUME NEW n \in 0 .. last
          PROVE  view[n] = IF n = 0 THEN before ELSE AfterEvent(view[n - 1], log[n])
      BY <2>4
    <3> QED
      BY <2>1, <3>1
  <2> HIDE DEF view
  <2>6. view[last] = f[last]
    <3> DEFINE Differ == {k \in 0 .. last : view[k] # f[k]}
    <3> SUFFICES ASSUME Differ # {} PROVE FALSE
      BY <2>1
    <3>1. PICK m \in Differ : m \in Nat /\ \A k \in Differ : m <= k
      <4>1. Differ \subseteq Nat
        OBVIOUS
      <4> HIDE DEF Differ
      <4> QED
        BY <4>1, Smallest
    <3>2. m # 0
      BY <2>2, <2>5
    <3>3. m \in 1 .. last /\ m - 1 \in 0 .. last /\ ~(m <= m - 1)
      BY <2>1, <3>2
    <3>4. view[m - 1] = f[m - 1]
      BY <3>1, <3>3
    <3>5. /\ view[m] = AfterEvent(view[m - 1], log[m])
          /\ f[m] = AfterEvent(f[m - 1], log[m])
      BY <2>2, <2>5, <3>3
    <3> QED
      BY <3>4, <3>5
  <2>7. view[last] = [a \in Addrs |-> EventView(entity[a])]
    BY <2>2, <2>6 DEF Views
  <2> QED
    BY <2>7 DEF EventsTellTheCall, view, last, before
<1> QED
  BY <1>1, Invariance, AccountInvariance, PTL

\* What is committed is paid for, once, at the prices of its block.
THEOREM LedgersBalance == Spec => LedgerBalances
<1> DEFINE spent == Committed'.usedRefs \ Committed.usedRefs
           Balanced(a) ==
             Committed'.balance[a] + SumFunctionOnSet(Cost, {s \in spent : s[1] = a})
               = Committed.balance[a]
                   + SumFunctionOnSet(Share, {s \in spent : ReferenceOf(s).provider = a})
           Kept == Committed.usedRefs \subseteq Committed'.usedRefs
<1>1. ASSUME IInv, AccountInv, [Next]_vars
      PROVE  Kept /\ \A a \in Payers : Balanced(a)
  <2>1. CASE Commits(Committed)
    <3>1. /\ Committed'.usedRefs = Committed.usedRefs
          /\ Committed'.balance = Committed.balance
      BY <2>1 DEF Commits
    <3>2. ASSUME NEW a \in Payers
          PROVE  Balanced(a)
      <4>1. Committed.balance[a] \in Nat
        <5>1. balance[a] \in Nat /\ (call # NoCall => saved.balance[a] \in Nat)
          BY <1>1 DEF IInv, StateInv, SystemTypeOK, CheckpointInv
        <5> QED
          BY <5>1 DEF Committed, State
      <4>2. /\ {s \in spent : s[1] = a} = {}
            /\ {s \in spent : ReferenceOf(s).provider = a} = {}
        BY <3>1
      <4>3. /\ SumFunctionOnSet(Cost, {}) = 0
            /\ SumFunctionOnSet(Share, {}) = 0
        BY SumOfNone
      <4> QED
        BY <3>1, <4>1, <4>2, <4>3
    <3> QED
      BY <3>1, <3>2
  <2>2. CASE call # NoCall /\ Committed = saved /\ Commits(State)
    <3>1. /\ Committed'.usedRefs = usedRefs /\ Committed'.balance = balance
          /\ Committed.usedRefs = saved.usedRefs /\ Committed.balance = saved.balance
      BY <2>2 DEF Commits, State
    <3>2. CallLedger
      BY <1>1, <2>2 DEF AccountInv
    <3> QED
      BY <3>1, <3>2 DEF CallLedger
  <2> QED
    BY <1>1, <2>1, <2>2, CommittedSteps
<1> HIDE DEF Kept, Balanced
<1>2. IInv /\ AccountInv /\ [Next]_vars => [Kept /\ \A a \in Payers : Balanced(a)]_vars
  BY <1>1
<1> USE DEF Kept, Balanced
<1> QED
  BY <1>2, Invariance, AccountInvariance, PTL DEF Spec, LedgerBalances

(***************************************************************************)
(* Query answers are a function of the live entities                       *)
(***************************************************************************)

\* No attribute list carries an ordered pair in both flavours.
LEMMA OrderedAreStable == OrderedPairs \subseteq StablePairs
<1> SUFFICES ASSUME NEW p \in OrderedPairs, NEW l \in AttrLists, MixedIn(l, p)
             PROVE  FALSE
  BY OrderedPairsArePairs DEF StablePairs
<1>1. /\ [pair |-> p, tier2 |-> FALSE] \in UserAnnots(l)
      /\ [pair |-> p, tier2 |-> TRUE] \in UserAnnots(l)
  BY DEF MixedIn
<1>2. UsedAs(p, FALSE)
  BY <1>1 DEF UsedAs
<1>3. p \in UserPairs
  <2>1. UserAnnots(l) \subseteq Attributes
    BY UserAnnotsTyped
  <2>2. [pair |-> p, tier2 |-> FALSE] \in Attributes
    BY <1>1, <2>1
  <2> QED
    BY <2>2 DEF Attributes
<1>4. p[1] \notin BuiltInNames
  BY <1>3, UserPairsAssumption
<1> QED
  BY <1>2, <1>4 DEF OrderedPairs, BuiltInNames

\* The bitmap of a $key pair is the only one that may hold ghosts, and
\* neither $key pairs nor the others lose a live entity: what resolves from
\* the bitmap of a stable pair is exactly the entities that carry it.
LEMMA AnswersAreLive ==
  ASSUME NEW s, CheckpointInv(s), NEW p \in StablePairs
  PROVE  {s.idToAddr[i] : i \in s.pair[p]} \ {NoAddr}
           = {a \in Addrs : s.entity[a] # NoEntity /\ p \in CarriedPairs(s.entity[a])}
<1>1. p \in Pairs
  BY DEF StablePairs
<1>2. s.pair[p] \subseteq Ids
  BY <1>1 DEF CheckpointInv
<1>3. ASSUME NEW i \in s.pair[p], s.idToAddr[i] # NoAddr
      PROVE  /\ s.idToAddr[i] \in Addrs
             /\ s.entity[s.idToAddr[i]] # NoEntity
             /\ p \in CarriedPairs(s.entity[s.idToAddr[i]])
  BY <1>1, <1>2, <1>3 DEF CheckpointInv
<1>4. ASSUME NEW a \in Addrs, s.entity[a] # NoEntity, p \in CarriedPairs(s.entity[a])
      PROVE  s.addrToId[a] \in s.pair[p] /\ s.idToAddr[s.addrToId[a]] = a
  BY <1>4 DEF CheckpointInv
<1> QED
  BY <1>3, <1>4, DbConstantsAssumption

\* An ordered value is enumerated exactly while a live entity carries it.
LEMMA ValuesAreLive ==
  ASSUME NEW s, CheckpointInv(s), NEW p \in OrderedPairs
  PROVE  p \in s.index
           <=> \E a \in Addrs : s.entity[a] # NoEntity /\ p \in CarriedPairs(s.entity[a])
<1>1. p \in StablePairs /\ p \in Pairs
  BY OrderedAreStable, OrderedPairsArePairs
<1>2. p[1] # "$key"
  BY UserPairsAssumption DEF OrderedPairs, BuiltInNames
<1>3. p \in s.index <=> s.pair[p] # {}
  BY DEF CheckpointInv
<1>4. ASSUME NEW i \in s.pair[p]
      PROVE  s.idToAddr[i] # NoAddr
  BY <1>1, <1>2, <1>4 DEF CheckpointInv
<1>5. s.pair[p] # {} => {s.idToAddr[i] : i \in s.pair[p]} \ {NoAddr} # {}
  BY <1>4
<1>6. {s.idToAddr[i] : i \in s.pair[p]} \ {NoAddr} # {} => s.pair[p] # {}
  OBVIOUS
<1> QED
  BY <1>1, <1>3, <1>5, <1>6, AnswersAreLive

(***************************************************************************)
(* The refinement mapping                                                  *)
(***************************************************************************)

\* The committed state satisfies the state invariants.
LEMMA CommittedInv == IInv => CheckpointInv(Committed)
BY SavedInv DEF IInv, Committed

\* The view of an entity is never the mark of an absent one.
LEMMA ViewOfEntity ==
  ASSUME NEW e \in Entities \cup {NoEntity}
  PROVE  /\ LiveView(e) = NoEntity <=> e = NoEntity
         /\ e # NoEntity => /\ LiveView(e).owner = e.owner
                            /\ LiveView(e).expiresAt = e.expiresAt
                            /\ LiveView(e).origin = <<e.creator, e.createdAt>>
                            /\ LiveView(e).terms = CarriedPairs(e) \cap StablePairs
<1>1. CASE e = NoEntity
  BY <1>1 DEF LiveView
<1>2. CASE e # NoEntity
  <2>1. LiveView(e) = [origin |-> <<e.creator, e.createdAt>>, owner |-> e.owner,
                       expiresAt |-> e.expiresAt,
                       terms |-> CarriedPairs(e) \cap StablePairs]
    BY <1>2 DEF LiveView
  <2>2. /\ e.creator \in Accounts /\ e.createdAt \in Heights
        /\ e.owner \in Accounts /\ e.expiresAt \in Heights
    BY <1>2 DEF Entities
  <2>3. CarriedPairs(e) \cap StablePairs \in SUBSET Pairs
    BY DEF StablePairs
  <2>4. LiveView(e) # NoEntity
    BY <2>1, <2>2, <2>3, NoEntityAssumption
  <2> QED
    BY <1>2, <2>1, <2>4
<1> QED
  BY <1>1, <1>2

\* The three abstract variables that are functions of the committed state,
\* for any state s.
LiveOf(s) == [a \in Addrs |-> LiveView(s.entity[a])]

AnswersOf(s) == [p \in StablePairs |-> {s.idToAddr[i] : i \in s.pair[p]} \ {NoAddr}]

ValuesOf(s) == s.index \cap OrderedPairs

\* Query answers and ordered values of a sound state are those of Registry.
LEMMA MappedIndexed ==
  ASSUME NEW s, CheckpointInv(s)
  PROVE  /\ AnswersOf(s) = [p \in StablePairs |->
              {a \in Addrs : LiveOf(s)[a] # NoEntity /\ p \in LiveOf(s)[a].terms}]
         /\ ValuesOf(s) = {p \in OrderedPairs :
              \E a \in Addrs : LiveOf(s)[a] # NoEntity /\ p \in LiveOf(s)[a].terms}
<1>1. ASSUME NEW a \in Addrs, NEW p \in StablePairs
      PROVE  (LiveOf(s)[a] # NoEntity /\ p \in LiveOf(s)[a].terms)
               <=> (s.entity[a] # NoEntity /\ p \in CarriedPairs(s.entity[a]))
  <2>1. s.entity[a] \in Entities \cup {NoEntity}
    BY DEF CheckpointInv
  <2>2. LiveOf(s)[a] = LiveView(s.entity[a])
    BY DEF LiveOf
  <2> QED
    BY <2>1, <2>2, ViewOfEntity
<1>2. AnswersOf(s) = [p \in StablePairs |->
        {a \in Addrs : LiveOf(s)[a] # NoEntity /\ p \in LiveOf(s)[a].terms}]
  BY <1>1, AnswersAreLive DEF AnswersOf
<1>3. ValuesOf(s) = {p \in OrderedPairs :
        \E a \in Addrs : LiveOf(s)[a] # NoEntity /\ p \in LiveOf(s)[a].terms}
  <2>1. ASSUME NEW p \in OrderedPairs
        PROVE  p \in s.index <=>
                 \E a \in Addrs : LiveOf(s)[a] # NoEntity /\ p \in LiveOf(s)[a].terms
    BY <1>1, <2>1, ValuesAreLive, OrderedAreStable
  <2> QED
    BY <2>1 DEF ValuesOf
<1> QED
  BY <1>2, <1>3

\* The expressions that AbstractRegistry substitutes are these functions.
LEMMA MappedVariables ==
  /\ LiveOf(Committed) = [a \in Addrs |-> LiveView(Committed.entity[a])]
  /\ AnswersOf(Committed) = [p \in StablePairs |-> Resolved(Committed.pair[p])]
  /\ ValuesOf(Committed) = Committed.index \cap OrderedPairs
BY DEF LiveOf, AnswersOf, ValuesOf, Resolved

\* The committed state answers queries as Registry does.
LEMMA CommittedIndexed == IInv => AbstractRegistry!Indexed
<1> SUFFICES ASSUME IInv PROVE AbstractRegistry!Indexed
  OBVIOUS
<1> DEFINE live == LiveOf(Committed)
           carried == {<<a, live[a].terms>> : a \in {b \in Addrs : live[b] # NoEntity}}
           Hits(p) == {a \in Addrs : live[a] # NoEntity /\ p \in live[a].terms}
           Answered(p) == {q[1] : q \in {r \in carried : p \in r[2]}}
           Held(p) == \E q \in carried : p \in q[2]
<1>1. /\ AnswersOf(Committed) = [p \in StablePairs |-> Hits(p)]
      /\ ValuesOf(Committed) = {p \in OrderedPairs : Hits(p) # {}}
  <2>1. \A p : Hits(p) # {} <=> \E a \in Addrs : live[a] # NoEntity /\ p \in live[a].terms
    OBVIOUS
  <2> QED
    BY <2>1, CommittedInv, MappedIndexed
<1> HIDE DEF live
<1>2. \A a \in Addrs : live[a] # NoEntity => <<a, live[a].terms>> \in carried
  OBVIOUS
<1>3. \A q \in carried : \E a \in Addrs :
        live[a] # NoEntity /\ q[1] = a /\ q[2] = live[a].terms
  OBVIOUS
<1> HIDE DEF carried
<1>4. ASSUME NEW p
      PROVE  Hits(p) = Answered(p) /\ (Hits(p) # {} <=> Held(p))
  <2>1. ASSUME NEW a \in Addrs, live[a] # NoEntity, p \in live[a].terms
        PROVE  \E q \in carried : p \in q[2] /\ q[1] = a
    <3>1. /\ <<a, live[a].terms>>[1] = a
          /\ <<a, live[a].terms>>[2] = live[a].terms
      OBVIOUS
    <3> QED
      BY <1>2, <2>1, <3>1, Zenon
  <2>2. ASSUME NEW q \in carried, p \in q[2]
        PROVE  q[1] \in Addrs /\ live[q[1]] # NoEntity /\ p \in live[q[1]].terms
    BY <1>3, <2>2
  <2> QED
    BY <2>1, <2>2
<1> HIDE DEF Hits, Answered, Held
<1>5. /\ AnswersOf(Committed) = [p \in StablePairs |-> Answered(p)]
      /\ ValuesOf(Committed) = {p \in OrderedPairs : Held(p)}
  BY <1>1, <1>4
<1>6. \E c \in {{<<a, live[a].terms>> : a \in {b \in Addrs : live[b] # NoEntity}}} :
        /\ AnswersOf(Committed)
             = [p \in StablePairs |-> {q[1] : q \in {r \in c : p \in r[2]}}]
        /\ ValuesOf(Committed) = {p \in OrderedPairs : \E q \in c : p \in q[2]}
  BY <1>5 DEF carried, Answered, Held
<1> QED
  BY <1>6, MappedVariables DEF AbstractRegistry!Indexed, live

\* Initial states map to initial states.
LEMMA InitMaps == Init => AbstractRegistry!Init
<1> SUFFICES ASSUME Init PROVE AbstractRegistry!Init
  OBVIOUS
<1>1. AbstractRegistry!Indexed
  BY InitHolds, CommittedIndexed
<1>2. Committed.entity = [a \in Addrs |-> NoEntity] /\ Committed.nonces = [c \in Accounts |-> 0]
  BY DEF Init, DbInit, Committed, State
<1>3. [a \in Addrs |-> LiveView(Committed.entity[a])] = [a \in Addrs |-> NoEntity]
  BY <1>2 DEF LiveView
<1> QED
  BY <1>1, <1>2, <1>3 DEF AbstractRegistry!Init, Init

\* A commit is a step of the call's own caller.
LEMMA CommitMaps ==
  ASSUME IInv, AbstractRegistry!Indexed', call # NoCall, Committed = saved,
         Commits(State), block' = block
  PROVE  AbstractRegistry!Next
<1> DEFINE c == call.caller
           was(a) == LiveView(saved.entity[a])
           is(a) == LiveView(entity[a])
<1>1. /\ c \in Accounts
      /\ CheckpointInv(saved) /\ CallProgress /\ block \in Nat
  BY CallIsTyped DEF IInv
<1>2. /\ Committed.entity = saved.entity /\ Committed'.entity = entity
      /\ Committed.nonces = saved.nonces /\ Committed'.nonces = nonces
  BY DEF Commits, State
<1>3. ASSUME NEW a \in Addrs
      PROVE  \/ is(a) = was(a)
             \/ /\ was(a) # NoEntity /\ was(a).owner = c /\ was(a).expiresAt > block
                /\ is(a) # NoEntity =>
                     is(a).origin = was(a).origin /\ is(a).expiresAt >= was(a).expiresAt
             \/ was(a) # NoEntity /\ was(a).expiresAt <= block /\ is(a) = NoEntity
             \/ /\ a[1] = c /\ saved.nonces[c] <= a[2] /\ a[2] < nonces[c]
                /\ is(a) # NoEntity => is(a).origin = <<c, block>>
  <2>1. /\ saved.entity[a] \in Entities \cup {NoEntity}
        /\ entity[a] \in Entities \cup {NoEntity}
    BY <1>1 DEF CheckpointInv, IInv, StateInv, DbInv, DbTypeOK
  <2>2. CallSpan(a)
    BY <1>1 DEF CallProgress
  <2> QED
    BY <2>1, <2>2, ViewOfEntity DEF CallSpan
<1>4. /\ nonces[c] >= saved.nonces[c]
      /\ \A d \in Accounts \ {c} : nonces[d] = saved.nonces[d]
  <2>1. nonces[c] \in Nat /\ saved.nonces[c] \in Nat
    BY <1>1, DbConstantsAssumption DEF CheckpointInv, IInv, StateInv, SystemTypeOK
  <2> QED
    BY <1>1, <2>1 DEF CallProgress
<1>5. AbstractRegistry!Call(c)
  <2>1. ASSUME NEW a \in Addrs
        PROVE  \/ [b \in Addrs |-> LiveView(Committed'.entity[b])][a]
                    = [b \in Addrs |-> LiveView(Committed.entity[b])][a]
               \/ AbstractRegistry!Managed(a, c)
               \/ AbstractRegistry!Cleared(a)
               \/ AbstractRegistry!Minted(a, c)
    BY <1>2, <1>3 DEF AbstractRegistry!Managed, AbstractRegistry!Cleared,
      AbstractRegistry!Minted
  <2> QED
    BY <1>2, <1>4, <2>1 DEF AbstractRegistry!Call
<1> QED
  BY <1>1, <1>5 DEF AbstractRegistry!Next

\* A step that leaves the committed state alone is a tick or a stutter.
LEMMA IdleMaps ==
  ASSUME Commits(Committed), block' = block \/ NewBlock
  PROVE  [AbstractRegistry!Next]_(AbstractRegistry!rvars)
<1>1. block' = block \/ block' = block + 1
  BY DEF NewBlock
<1>2. UNCHANGED <<[a \in Addrs |-> LiveView(Committed.entity[a])], Committed.nonces,
                  [p \in StablePairs |-> Resolved(Committed.pair[p])],
                  Committed.index \cap OrderedPairs>>
  BY DEF Commits, Resolved
<1> QED
  BY <1>1, <1>2 DEF AbstractRegistry!Next, AbstractRegistry!Tick, AbstractRegistry!rvars

\* Every call of the precompile is one atomic step that its caller is
\* entitled to, and query answers stay a function of the live entities.
THEOREM Refinement == Spec => ImplementsRegistry
<1>1. IInv' => AbstractRegistry!Indexed'
  BY CommittedIndexed, PTL
<1>2. IInv /\ IInv' /\ [Next]_vars => [AbstractRegistry!Next]_(AbstractRegistry!rvars)
  BY <1>1, CommittedSteps, CommitMaps, IdleMaps
<1> QED
  BY <1>2, InitMaps, Invariance, PTL DEF Spec, ImplementsRegistry, AbstractRegistry!Spec
-----------------------------------------------------------------------------
(***************************************************************************)
(* The scans of the query interpreter. Each result follows from DbInv, the *)
(* invariant that the operation handlers keep: soundness of the bitmaps    *)
(* for the hits, completeness for the entities that must be among them,    *)
(* and the inverse ID maps for getting from one to the other.              *)
(***************************************************************************)

LiveAddrs == {a \in Addrs : entity[a] # NoEntity}

\* Every pair is the tuple of its name and its value.
LEMMA PairsAreTuples == \A p \in Pairs : p = <<p[1], p[2]>>
<1> SUFFICES ASSUME NEW p \in Pairs PROVE p = <<p[1], p[2]>>
  OBVIOUS
<1>1. CASE p \in UserPairs
  BY <1>1, UserPairsAssumption
<1>2. CASE p \in BuiltInPairs
  <2>1. \E name, v : p = <<name, v>>
    BY <1>2 DEF BuiltInPairs
  <2> QED
    BY <2>1
<1> QED
  BY <1>1, <1>2 DEF Pairs

\* No attribute list mentions the pair of $all, and every entity carries it.
LEMMA AllIsCarried ==
  /\ <<"$all", "">> \in StablePairs
  /\ \A e : <<"$all", "">> \in CarriedPairs(e)
<1>1. <<"$all", "">> \in Pairs
  BY DEF Pairs, BuiltInPairs
<1>2. \A l \in AttrLists : ~MixedIn(l, <<"$all", "">>)
  <2> SUFFICES ASSUME NEW l \in AttrLists, MixedIn(l, <<"$all", "">>)
               PROVE  FALSE
    OBVIOUS
  <2>1. [pair |-> <<"$all", "">>, tier2 |-> TRUE] \in Attributes
    BY UserAnnotsTyped DEF MixedIn
  <2>2. [pair |-> <<"$all", "">>, tier2 |-> TRUE].pair \in UserPairs
    BY <2>1 DEF Attributes
  <2>3. <<"$all", "">> \in UserPairs
    BY <2>2
  <2> QED
    BY <2>3, UserPairsAssumption DEF BuiltInNames
<1>3. ASSUME NEW e PROVE <<"$all", "">> \in CarriedPairs(e)
  <2>1. Annot("$all", "", FALSE) \in AllAnnots(e, e.key)
    BY DEF AllAnnots, BuiltInAnnots
  <2>2. Annot("$all", "", FALSE).pair = <<"$all", "">>
    BY DEF Annot
  <2> QED
    BY <2>1, <2>2 DEF CarriedPairs, PairsOf
<1> QED
  BY <1>1, <1>2, <1>3 DEF StablePairs

\* A live entity and its ID lead to each other.
LEMMA LiveHasId ==
  ASSUME DbInv, NEW a \in Addrs, entity[a] # NoEntity
  PROVE  addrToId[a] \in Ids /\ idToAddr[addrToId[a]] = a /\ a # NoAddr
<1>1. addrToId[a] \in Nat /\ addrToId[a] < entityCount /\ entityCount \in 0 .. MaxEntities
  BY DEF DbInv, DbTypeOK, IdMapsInverse
<1>2. addrToId[a] \in Ids
  BY <1>1, DbConstantsAssumption DEF Ids
<1> QED
  BY <1>2, DbConstantsAssumption DEF DbInv, IdMapsInverse

\* An ID that resolves leads to a live entity, and that entity has the ID.
LEMMA IdIsOfLive ==
  ASSUME DbInv, NEW i \in Ids, idToAddr[i] # NoAddr
  PROVE  idToAddr[i] \in LiveAddrs /\ addrToId[idToAddr[i]] = i
BY DEF DbInv, DbTypeOK, IdMapsInverse, LiveAddrs

\* The bitmap of a stable pair resolves to the entities that carry it, and
\* an entity's own ID is in the bitmap exactly if it does.
LEMMA BitmapHits ==
  ASSUME DbInv, NEW p \in StablePairs
  PROVE  /\ ResolvedIds(pair[p]) = Carriers(p)
         /\ \A a \in LiveAddrs : addrToId[a] \in pair[p] <=> a \in Carriers(p)
<1>1. p \in Pairs /\ pair[p] \subseteq Ids
  BY DEF StablePairs, DbInv, DbTypeOK
<1>2. ASSUME NEW i \in pair[p], idToAddr[i] # NoAddr
      PROVE  idToAddr[i] \in Carriers(p)
  BY <1>1, <1>2, IdIsOfLive DEF DbInv, BitmapsSound, Carriers, LiveAddrs
<1>3. ASSUME NEW a \in Carriers(p)
      PROVE  addrToId[a] \in pair[p] /\ idToAddr[addrToId[a]] = a /\ a # NoAddr
  BY LiveHasId DEF DbInv, BitmapsComplete, Carriers
<1>4. ASSUME NEW a \in LiveAddrs, addrToId[a] \in pair[p]
      PROVE  a \in Carriers(p)
  BY <1>2, <1>4, LiveHasId DEF LiveAddrs
<1>5. ResolvedIds(pair[p]) \subseteq Carriers(p)
  BY <1>2 DEF ResolvedIds
<1>6. Carriers(p) \subseteq ResolvedIds(pair[p])
  BY <1>3 DEF ResolvedIds
<1> QED
  BY <1>3, <1>4, <1>5, <1>6

\* $all resolves to the live entities.
LEMMA AllHits == DbInv => AllExact
<1> SUFFICES ASSUME DbInv PROVE ResolvedIds(AllEntities) = LiveAddrs
  BY DEF AllExact, LiveAddrs
<1>1. Carriers(<<"$all", "">>) = LiveAddrs
  BY AllIsCarried DEF Carriers, LiveAddrs
<1> QED
  BY <1>1, AllIsCarried, BitmapHits DEF AllEntities

\* The complement of an equality is taken over IDs, and resolving it gives
\* the complement over entities.
LEMMA EqHits == DbInv => EqExact
<1> SUFFICES ASSUME DbInv, NEW p \in StablePairs
             PROVE  /\ ResolvedIds(ReadEq(p)) = Carriers(p)
                    /\ ResolvedIds(AllEntities \ ReadEq(p)) = LiveAddrs \ Carriers(p)
  BY DEF EqExact, LiveAddrs
<1>. DEFINE hits == ReadEq(p)
<1>0. hits = pair[p]
  BY DEF ReadEq, StablePairs
<1>. HIDE DEF hits
<1>1. AllEntities \subseteq Ids
  BY DEF AllEntities, DbInv, DbTypeOK, Pairs, BuiltInPairs
<1>2. \A a \in LiveAddrs : addrToId[a] \in AllEntities
  BY AllIsCarried, BitmapHits DEF AllEntities, Carriers, LiveAddrs
<1>3. ResolvedIds(AllEntities \ hits) \subseteq LiveAddrs \ Carriers(p)
  <2> SUFFICES ASSUME NEW i \in AllEntities \ hits, idToAddr[i] # NoAddr
               PROVE  idToAddr[i] \in LiveAddrs \ Carriers(p)
    BY DEF ResolvedIds
  <2>1. idToAddr[i] \in LiveAddrs /\ addrToId[idToAddr[i]] = i
    BY <1>1, IdIsOfLive
  <2> QED
    BY <2>1, BitmapHits, <1>0
<1>4. LiveAddrs \ Carriers(p) \subseteq ResolvedIds(AllEntities \ hits)
  <2> SUFFICES ASSUME NEW a \in LiveAddrs, a \notin Carriers(p)
               PROVE  a \in ResolvedIds(AllEntities \ hits)
    OBVIOUS
  <2>1. addrToId[a] \in AllEntities \ hits
    BY <1>2, BitmapHits, <1>0
  <2> QED
    BY <2>1, LiveHasId DEF ResolvedIds, LiveAddrs
<1> QED
  BY <1>3, <1>4, BitmapHits, <1>0 DEF hits

\* A scan resolves to the entities that carry an admitted value.
LEMMA ScanHits == DbInv => ScanExact
<1> SUFFICES ASSUME DbInv, NEW name \in ScannedNames,
                    NEW values \in SUBSET OrderedValues(name)
             PROVE  ResolvedIds(Scan(name, values))
                      = UNION {Carriers(<<name, v>>) : v \in values}
  BY DEF ScanExact
<1>1. \A v \in values : <<name, v>> \in OrderedPairs \cap StablePairs
  BY PairsAreTuples DEF OrderedValues, StablePairs
<1>2. ASSUME NEW i \in Scan(name, values), idToAddr[i] # NoAddr
      PROVE  \E v \in values : idToAddr[i] \in Carriers(<<name, v>>)
  <2>1. PICK v \in values : i \in pair[<<name, v>>]
    BY DEF Scan
  <2>2. idToAddr[i] \in ResolvedIds(pair[<<name, v>>])
    BY <1>2, <2>1 DEF ResolvedIds
  <2> QED
    BY <1>1, <2>2, BitmapHits
<1>3. ASSUME NEW v \in values, NEW a \in Carriers(<<name, v>>)
      PROVE  a \in ResolvedIds(Scan(name, values))
  <2>1. a \in ResolvedIds(pair[<<name, v>>])
    BY <1>1, BitmapHits
  <2>2. PICK i \in pair[<<name, v>>] : idToAddr[i] # NoAddr /\ a = idToAddr[i]
    BY <2>1 DEF ResolvedIds
  <2>3. <<name, v>> \in index
    BY <1>1, <2>2 DEF DbInv, TreesExact, StablePairs
  <2>4. i \in Scan(name, values)
    BY <2>2, <2>3 DEF Scan
  <2> QED
    BY <2>2, <2>4 DEF ResolvedIds
<1>4. ResolvedIds(Scan(name, values)) \subseteq UNION {Carriers(<<name, v>>) : v \in values}
  BY <1>2 DEF ResolvedIds
<1>5. UNION {Carriers(<<name, v>>) : v \in values} \subseteq ResolvedIds(Scan(name, values))
  BY <1>3
<1> QED
  BY <1>4, <1>5
(***************************************************************************)
(* Query trees                                                             *)
(***************************************************************************)

\* What the connectives make of trees.
Connected(trees) ==
  [op : {"And", "Or"}, left : trees, right : trees] \cup [op : {"Not"}, inner : trees]

\* f holds, at each number up to n, the trees of at most so many levels of
\* connectives.
Levels(f, n, leaves) ==
  f = [k \in 0 .. n |-> IF k = 0 THEN leaves ELSE leaves \cup Connected(f[k - 1])]

\* Trees can be built up to every number of levels.
LEMMA LevelsExist ==
  ASSUME NEW leaves, NEW n \in Nat
  PROVE  \E f : Levels(f, n, leaves)
<1>. DEFINE Missing == {m \in 0 .. n : ~\E f : Levels(f, m, leaves)}
<1>. SUFFICES ASSUME Missing # {} PROVE FALSE
  OBVIOUS
<1>1. PICK m \in Missing : m \in Nat /\ \A k \in Missing : m <= k
  <2>1. Missing \subseteq Nat
    OBVIOUS
  <2>. HIDE DEF Missing
  <2>. QED
    BY <2>1, Smallest
<1>2. CASE m = 0
  <2>. DEFINE f == [k \in 0 .. 0 |-> leaves]
  <2>1. Levels(f, 0, leaves)
    BY DEF Levels
  <2>. QED
    BY <1>2, <2>1
<1>3. CASE m # 0
  <2>1. m - 1 \in 0 .. n /\ m \in 1 .. n /\ ~(m <= m - 1)
    BY <1>3
  <2>2. PICK h : Levels(h, m - 1, leaves)
    BY <1>1, <2>1
  <2>. DEFINE f == [k \in 0 .. m |-> IF k = 0 THEN leaves ELSE leaves \cup Connected(h[k - 1])]
  <2>3. ASSUME NEW k \in 0 .. (m - 1) PROVE f[k] = h[k]
    <3>1. h[k] = IF k = 0 THEN leaves ELSE leaves \cup Connected(h[k - 1])
      BY <2>2, Zenon DEF Levels
    <3>2. k \in 0 .. m
      BY <2>1
    <3>. QED
      BY <3>1, <3>2, Zenon
  <2>4. \A k \in 0 .. m : k # 0 => k - 1 \in 0 .. (m - 1)
    BY <2>1
  <2>5. f = [k \in 0 .. m |-> IF k = 0 THEN leaves ELSE leaves \cup Connected(f[k - 1])]
    BY <2>3, <2>4, Zenon
  <2>. QED
    BY <2>5 DEF Levels
<1>. QED
  BY <1>2, <1>3

\* The levels of the trees over some leaves.
LevelsOf(leaves) == CHOOSE f : Levels(f, Nesting, leaves)

\* The trees over some leaves are the last level, each level made of the one
\* below.
LEMMA TreesAreLevels ==
  ASSUME NEW leaves
  PROVE  /\ TreesOver(leaves) = LevelsOf(leaves)[Nesting]
         /\ LevelsOf(leaves)[0] = leaves
         /\ \A k \in 1 .. Nesting :
              LevelsOf(leaves)[k] = leaves \cup Connected(LevelsOf(leaves)[k - 1])
<1>1. TreesOver(leaves) = LevelsOf(leaves)[Nesting]
  BY DEF TreesOver, LevelsOf, Levels, Connected
<1>2. Levels(LevelsOf(leaves), Nesting, leaves)
  BY LeavesAssumption, LevelsExist DEF LevelsOf
<1>. DEFINE f == LevelsOf(leaves)
<1>3. \A k \in 0 .. Nesting : f[k] = IF k = 0 THEN leaves ELSE leaves \cup Connected(f[k - 1])
  BY <1>2, Zenon DEF Levels
<1>4. 0 \in 0 .. Nesting /\ \A k \in 1 .. Nesting : k \in 0 .. Nesting /\ k # 0
  BY LeavesAssumption
<1>. QED
  BY <1>1, <1>3, <1>4, Zenon

\* Every level is part of the next one, and of the trees.
LEMMA LevelsGrow ==
  ASSUME NEW leaves
  PROVE  /\ \A k \in 1 .. Nesting : LevelsOf(leaves)[k - 1] \subseteq LevelsOf(leaves)[k]
         /\ \A k \in 0 .. Nesting : LevelsOf(leaves)[k] \subseteq TreesOver(leaves)
<1>. DEFINE f == LevelsOf(leaves)
            Falls == {k \in 1 .. Nesting : ~(f[k - 1] \subseteq f[k])}
            Out == {j \in 0 .. Nesting : ~(f[Nesting - j] \subseteq f[Nesting])}
<1>1. \A k \in 1 .. Nesting : f[k] = leaves \cup Connected(f[k - 1])
  BY TreesAreLevels
<1>2. f[0] = leaves /\ f[Nesting] = TreesOver(leaves) /\ Nesting \in Nat
  BY TreesAreLevels, LeavesAssumption
<1>. HIDE DEF f
<1>3. Falls = {}
  <2>. SUFFICES ASSUME Falls # {} PROVE FALSE
    OBVIOUS
  <2>1. PICK m \in Falls : m \in Nat /\ \A k \in Falls : m <= k
    <3>1. Falls \subseteq Nat
      OBVIOUS
    <3>. HIDE DEF Falls
    <3>. QED
      BY <3>1, Smallest
  <2>2. m # 1
    BY <1>1, <1>2
  <2>3. m \in 1 .. Nesting /\ m - 1 \in 1 .. Nesting /\ ~(m <= m - 1)
    BY <1>2, <2>2
  <2>4. f[m - 1 - 1] \subseteq f[m - 1]
    BY <2>1, <2>3
  <2>5. Connected(f[m - 1 - 1]) \subseteq Connected(f[m - 1])
    BY <2>4 DEF Connected
  <2>6. f[m - 1] \subseteq f[m]
    BY <1>1, <2>3, <2>5
  <2>. QED
    BY <2>6
<1>4. Out = {}
  <2>. SUFFICES ASSUME Out # {} PROVE FALSE
    OBVIOUS
  <2>1. PICK m \in Out : m \in Nat /\ \A k \in Out : m <= k
    <3>1. Out \subseteq Nat
      OBVIOUS
    <3>. HIDE DEF Out
    <3>. QED
      BY <3>1, Smallest
  <2>2. m # 0
    BY <1>2
  <2>3. m - 1 \in 0 .. Nesting /\ ~(m <= m - 1)
    BY <1>2, <2>2
  <2>4. f[Nesting - (m - 1)] \subseteq f[Nesting]
    BY <2>1, <2>3
  <2>5. Nesting - (m - 1) \in 1 .. Nesting /\ (Nesting - (m - 1)) - 1 = Nesting - m
    BY <1>2, <2>2
  <2>6. f[Nesting - m] \subseteq f[Nesting - (m - 1)]
    BY <1>3, <2>5
  <2>. QED
    BY <2>4, <2>6
<1>5. ASSUME NEW k \in 0 .. Nesting PROVE f[k] \subseteq f[Nesting]
  <2>1. Nesting - k \in 0 .. Nesting /\ Nesting - (Nesting - k) = k
    BY <1>2
  <2>. QED
    BY <1>4, <2>1
<1>. QED
  BY <1>2, <1>3, <1>5 DEF f

\* What is true of the leaves and of every tree of the subtrees of which it is
\* true is true of every tree.
LEMMA TreeInduction ==
  ASSUME NEW leaves, NEW S, leaves \subseteq S,
         \A q \in TreesOver(leaves) :
           q \in Connected(S \cap TreesOver(leaves)) => q \in S
  PROVE  TreesOver(leaves) \subseteq S
<1>. DEFINE f == LevelsOf(leaves)
            Wrong == {k \in 0 .. Nesting : ~(f[k] \subseteq S)}
<1>1. \A k \in 1 .. Nesting : f[k] = leaves \cup Connected(f[k - 1])
  BY TreesAreLevels
<1>2. f[0] = leaves /\ f[Nesting] = TreesOver(leaves) /\ Nesting \in Nat
  BY TreesAreLevels, LeavesAssumption
<1>3. \A k \in 0 .. Nesting : f[k] \subseteq TreesOver(leaves)
  BY LevelsGrow
<1>. HIDE DEF f
<1>4. Wrong = {}
  <2>. SUFFICES ASSUME Wrong # {} PROVE FALSE
    OBVIOUS
  <2>1. PICK m \in Wrong : m \in Nat /\ \A k \in Wrong : m <= k
    <3>1. Wrong \subseteq Nat
      OBVIOUS
    <3>. HIDE DEF Wrong
    <3>. QED
      BY <3>1, Smallest
  <2>2. m # 0
    BY <1>2
  <2>3. m \in 1 .. Nesting /\ m - 1 \in 0 .. Nesting /\ ~(m <= m - 1)
    BY <1>2, <2>2
  <2>4. f[m - 1] \subseteq S \cap TreesOver(leaves)
    <3>1. m - 1 \notin Wrong
      BY <2>1, <2>3
    <3>2. f[m - 1] \subseteq S
      BY <2>3, <3>1
    <3>. QED
      BY <1>2, <1>3, <2>3, <3>2
  <2>5. Connected(f[m - 1]) \subseteq Connected(S \cap TreesOver(leaves))
    BY <2>4 DEF Connected
  <2>6. f[m] \subseteq S
    <3>1. f[m] = leaves \cup Connected(f[m - 1])
      BY <1>1, <2>3
    <3>2. f[m] \subseteq TreesOver(leaves)
      BY <1>2, <1>3
    <3>. QED
      BY <2>4, <2>5, <3>1, <3>2
  <2>. QED
    BY <2>6
<1>. QED
  <2>1. Nesting \in 0 .. Nesting
    BY <1>2
  <2>. QED
    BY <1>2, <1>4, <2>1

\* What a function f on a set of trees makes of a tree follows from what it
\* makes of the subtrees.
Follows(f, trees, leaf, two, one) ==
  \A q \in trees :
    /\ q \in Leaves => f[q] = leaf[q]
    /\ q.op \in {"And", "Or"} => f[q] = two[<<q.op, f[q.left], f[q.right]>>]
    /\ q.op = "Not" => f[q] = one[f[q.inner]]

\* Recursion over trees.
LEMMA TreeRecursion ==
  ASSUME NEW V, NEW leaf \in [Leaves -> V], NEW one \in [V -> V],
         NEW two \in [{"And", "Or"} \X V \X V -> V]
  PROVE  \E f \in [Trees -> V] : Follows(f, Trees, leaf, two, one)
<1>. DEFINE L == LevelsOf(Leaves)
            Right(k) == \E f \in [L[k] -> V] : Follows(f, L[k], leaf, two, one)
            Wrong == {k \in 0 .. Nesting : ~Right(k)}
<1>1. \A k \in 1 .. Nesting : L[k] = Leaves \cup Connected(L[k - 1])
  BY TreesAreLevels
<1>2. L[0] = Leaves /\ L[Nesting] = Trees /\ Nesting \in Nat
  BY TreesAreLevels, LeavesAssumption DEF Trees
<1>3. \A k \in 1 .. Nesting : L[k - 1] \subseteq L[k]
  BY LevelsGrow
<1>4. \A q \in Leaves : q.op \notin {"And", "Or", "Not"}
  BY LeavesAssumption DEF LeafOps, Ranges
<1>. HIDE DEF L
<1>5. Wrong = {}
  <2>. SUFFICES ASSUME Wrong # {} PROVE FALSE
    OBVIOUS
  <2>1. PICK m \in Wrong : m \in Nat /\ \A k \in Wrong : m <= k
    <3>1. Wrong \subseteq Nat
      OBVIOUS
    <3>. HIDE DEF Wrong
    <3>. QED
      BY <3>1, Smallest
  <2>2. CASE m = 0
    <3>1. leaf \in [L[0] -> V] /\ Follows(leaf, L[0], leaf, two, one)
      BY <1>2, <1>4 DEF Follows
    <3>. QED
      BY <2>2, <3>1
  <2>3. CASE m # 0
    <3>1. m \in 1 .. Nesting /\ m - 1 \in 0 .. Nesting /\ ~(m <= m - 1)
      BY <1>2, <2>3
    <3>2. Right(m - 1)
      BY <2>1, <3>1
    <3>3. PICK h \in [L[m - 1] -> V] : Follows(h, L[m - 1], leaf, two, one)
      BY <3>2
    <3>. DEFINE f == [q \in L[m] |->
                        IF q \in Leaves THEN leaf[q]
                        ELSE IF q.op \in {"And", "Or"} THEN two[<<q.op, h[q.left], h[q.right]>>]
                        ELSE one[h[q.inner]]]
    <3>4. ASSUME NEW q \in L[m], q \notin Leaves
          PROVE  \/ q.op \in {"And", "Or"} /\ q.left \in L[m - 1] /\ q.right \in L[m - 1]
                 \/ q.op = "Not" /\ q.inner \in L[m - 1]
      BY <1>1, <3>1, <3>4 DEF Connected
    <3>5. ASSUME NEW q \in L[m] PROVE f[q] \in V
      BY <3>4
    <3>6. ASSUME NEW q \in L[m - 1] PROVE q \in L[m] /\ f[q] = h[q]
      <4>1. q \in L[m]
        BY <1>3, <3>1
      <4>. QED
        BY <3>3, <3>4, <4>1 DEF Follows
    <3>7. ASSUME NEW q \in L[m]
          PROVE  /\ q \in Leaves => f[q] = leaf[q]
                 /\ q.op \in {"And", "Or"} => f[q] = two[<<q.op, f[q.left], f[q.right]>>]
                 /\ q.op = "Not" => f[q] = one[f[q.inner]]
      BY <1>4, <3>4, <3>6
    <3>8. f \in [L[m] -> V]
      BY <3>5
    <3>9. Follows(f, L[m], leaf, two, one)
      BY <3>7 DEF Follows
    <3>. QED
      BY <3>8, <3>9
  <2>. QED
    BY <2>2, <2>3
<1>. QED
  <2>1. Nesting \in 0 .. Nesting
    BY <1>2
  <2>. QED
    BY <1>2, <1>5, <2>1

\* A tree is a leaf or a connective over trees.
LEMMA TreeCases == Trees \subseteq Leaves \cup Connected(Trees)
<1>. DEFINE f == LevelsOf(Leaves)
<1>1. CASE Nesting = 0
  BY <1>1, TreesAreLevels DEF Trees
<1>2. CASE Nesting # 0
  <2>1. Nesting \in 1 .. Nesting /\ Nesting - 1 \in 0 .. Nesting
    BY <1>2, LeavesAssumption
  <2>2. Trees = Leaves \cup Connected(f[Nesting - 1])
    BY <2>1, TreesAreLevels DEF Trees
  <2>3. f[Nesting - 1] \subseteq Trees
    BY <2>1, LevelsGrow DEF Trees
  <2>. HIDE DEF f
  <2>4. Connected(f[Nesting - 1]) \subseteq Connected(Trees)
    BY <2>3 DEF Connected
  <2>. QED
    BY <2>2, <2>4
<1>. QED
  BY <1>1, <1>2

\* More leaves, more trees.
LEMMA FewerLeaves ==
  ASSUME NEW leaves, leaves \subseteq Leaves
  PROVE  TreesOver(leaves) \subseteq Trees
<1>. DEFINE f == LevelsOf(leaves)
            g == LevelsOf(Leaves)
            Wrong == {k \in 0 .. Nesting : ~(f[k] \subseteq g[k])}
<1>1. \A k \in 1 .. Nesting : /\ f[k] = leaves \cup Connected(f[k - 1])
                              /\ g[k] = Leaves \cup Connected(g[k - 1])
  BY TreesAreLevels
<1>2. /\ f[0] = leaves /\ f[Nesting] = TreesOver(leaves)
      /\ g[0] = Leaves /\ g[Nesting] = Trees /\ Nesting \in 0 .. Nesting
  BY TreesAreLevels, LeavesAssumption DEF Trees
<1>. HIDE DEF f, g
<1>3. Wrong = {}
  <2>. SUFFICES ASSUME Wrong # {} PROVE FALSE
    OBVIOUS
  <2>1. PICK m \in Wrong : m \in Nat /\ \A k \in Wrong : m <= k
    <3>1. Wrong \subseteq Nat
      OBVIOUS
    <3>. HIDE DEF Wrong
    <3>. QED
      BY <3>1, Smallest
  <2>2. m # 0
    BY <1>2
  <2>3. m \in 1 .. Nesting /\ m - 1 \in 0 .. Nesting /\ ~(m <= m - 1)
    BY <2>2, LeavesAssumption
  <2>4. f[m - 1] \subseteq g[m - 1]
    BY <2>1, <2>3
  <2>5. Connected(f[m - 1]) \subseteq Connected(g[m - 1])
    BY <2>4 DEF Connected
  <2>6. f[m] = leaves \cup Connected(f[m - 1]) /\ g[m] = Leaves \cup Connected(g[m - 1])
    BY <1>1, <2>3
  <2>. QED
    BY <2>5, <2>6
<1>. QED
  BY <1>2, <1>3

(***************************************************************************)
(* The evaluation of a tree and its meaning                                *)
(***************************************************************************)

\* Bitmaps hold IDs.
LEMMA ReadsYieldIds ==
  ASSUME DbInv
  PROVE  /\ AllEntities \subseteq Ids
         /\ \A p : ReadEq(p) \subseteq Ids
         /\ \A ps : ReadIn(ps) \subseteq Ids
         /\ \A q : ScanFor(q) \subseteq Ids
<1>1. \A p \in Pairs : pair[p] \subseteq Ids
  BY DEF DbInv, DbTypeOK
<1>2. AllEntities \subseteq Ids
  BY <1>1 DEF AllEntities, Pairs, BuiltInPairs
<1>3. \A p : ReadEq(p) \subseteq Ids
  BY <1>1 DEF ReadEq
<1>4. \A ps : ReadIn(ps) \subseteq Ids
  BY <1>3 DEF ReadIn
<1>5. index \subseteq Pairs
  BY DEF DbInv, DbTypeOK
<1>6. \A name, values : Scan(name, values) \subseteq Ids
  BY <1>1, <1>5 DEF Scan
<1>. QED
  BY <1>2, <1>3, <1>4, <1>6 DEF ScanFor

\* A leaf yields IDs.
LEMMA LeavesYieldIds ==
  ASSUME DbInv, NEW l \in Leaves
  PROVE  LeafIds(l) \in SUBSET Ids
BY ReadsYieldIds, LeavesAssumption DEF LeafIds, LeafOps

\* eval follows the tree.
LEMMA EvalUnfolds ==
  ASSUME DbInv
  PROVE  \A q \in Trees : Eval[q] = EvalBy(Eval, q)
<1>. DEFINE V == SUBSET Ids
            leaf == [l \in Leaves |-> LeafIds(l)]
            two == [x \in {"And", "Or"} \X V \X V |->
                      IF x[1] = "Or" THEN x[2] \cup x[3]
                      ELSE IF x[2] = {} THEN {} ELSE x[2] \cap x[3]]
            one == [s \in V |-> AllEntities \ s]
<1>1. leaf \in [Leaves -> V]
  BY LeavesYieldIds
<1>2. two \in [{"And", "Or"} \X V \X V -> V]
  OBVIOUS
<1>3. one \in [V -> V]
  BY ReadsYieldIds
<1>4. PICK f \in [Trees -> V] : Follows(f, Trees, leaf, two, one)
  <2>. HIDE DEF V, leaf, two, one
  <2>. QED
    BY <1>1, <1>2, <1>3, TreeRecursion
<1>5. ASSUME NEW q \in Trees PROVE f[q] = EvalBy(f, q)
  <2>1. CASE q \in Leaves
    <3>1. f[q] = LeafIds(q)
      BY <1>4, <2>1 DEF Follows
    <3>2. q.op \in LeafOps
      BY <2>1, LeavesAssumption
    <3>3. EvalBy(f, q) = LeafIds(q)
      BY <3>2 DEF EvalBy, LeafOps, Ranges
    <3>. QED
      BY <3>1, <3>3
  <2>2. CASE q.op \in {"And", "Or"} /\ q.left \in Trees /\ q.right \in Trees
    <3>1. f[q] = two[<<q.op, f[q.left], f[q.right]>>]
      BY <1>4, <2>2 DEF Follows
    <3>2. f[q.left] \in V /\ f[q.right] \in V
      BY <1>4, <2>2
    <3>3. f[q] = IF q.op = "Or" THEN f[q.left] \cup f[q.right]
                 ELSE IF f[q.left] = {} THEN {} ELSE f[q.left] \cap f[q.right]
      BY <2>2, <3>1, <3>2
    <3>. QED
      BY <2>2, <3>3 DEF EvalBy, LeafOps, Ranges
  <2>3. CASE q.op = "Not" /\ q.inner \in Trees
    <3>1. f[q] = one[f[q.inner]]
      BY <1>4, <2>3 DEF Follows
    <3>2. f[q.inner] \in V
      BY <1>4, <2>3
    <3>3. f[q] = AllEntities \ f[q.inner]
      BY <3>1, <3>2
    <3>. QED
      BY <2>3, <3>3 DEF EvalBy, LeafOps, Ranges
  <2>. QED
    BY <2>1, <2>2, <2>3, TreeCases DEF Connected
<1>6. f = [q \in Trees |-> EvalBy(f, q)]
  BY <1>4, <1>5
<1>7. Eval = CHOOSE g : g = [q \in Trees |-> EvalBy(g, q)]
  BY Zenon DEF Eval
<1>8. Eval = [q \in Trees |-> EvalBy(Eval, q)]
  <2>. HIDE DEF V, leaf, two, one
  <2>. QED
    BY <1>6, <1>7, Zenon
<1>9. ASSUME NEW e, e = [q \in Trees |-> EvalBy(e, q)]
      PROVE  \A q \in Trees : e[q] = EvalBy(e, q)
  <2>. SUFFICES ASSUME NEW q \in Trees PROVE e[q] = EvalBy(e, q)
    OBVIOUS
  <2>1. [t \in Trees |-> EvalBy(e, t)][q] = EvalBy(e, q)
    OBVIOUS
  <2>. QED
    BY <1>9, <2>1, Zenon
<1>. HIDE DEF V, leaf, two, one
<1>. QED
  BY <1>8, <1>9, Zenon

\* The meaning of the trees for an entity that carries some pairs.
Meaning(carried) == CHOOSE g : g = [q \in Trees |-> HoldsBy(g, q, carried)]

\* The meaning of a tree is that of its subtrees, connected.
LEMMA HoldsUnfolds ==
  ASSUME NEW carried
  PROVE  /\ \A q \in Trees : Holds(q, carried) = HoldsBy(Meaning(carried), q, carried)
         /\ \A q : Holds(q, carried) = Meaning(carried)[q]
<1>. DEFINE leaf == [l \in Leaves |-> LeafHolds(l, carried)]
            two == [x \in {"And", "Or"} \X BOOLEAN \X BOOLEAN |->
                      IF x[1] = "Or" THEN x[2] \/ x[3] ELSE x[2] /\ x[3]]
            one == [b \in BOOLEAN |-> ~b]
<1>1. leaf \in [Leaves -> BOOLEAN]
  <2>. SUFFICES ASSUME NEW l \in Leaves PROVE LeafHolds(l, carried) \in BOOLEAN
    OBVIOUS
  <2>1. l.op \in LeafOps
    BY LeavesAssumption
  <2>. QED
    BY <2>1 DEF LeafHolds, LeafOps
<1>2. two \in [{"And", "Or"} \X BOOLEAN \X BOOLEAN -> BOOLEAN]
  OBVIOUS
<1>3. one \in [BOOLEAN -> BOOLEAN]
  OBVIOUS
<1>4. PICK f \in [Trees -> BOOLEAN] : Follows(f, Trees, leaf, two, one)
  <2>. HIDE DEF leaf, two, one
  <2>. QED
    BY <1>1, <1>2, <1>3, TreeRecursion
<1>5. ASSUME NEW q \in Trees PROVE f[q] = HoldsBy(f, q, carried)
  <2>1. CASE q \in Leaves
    <3>1. f[q] = LeafHolds(q, carried)
      BY <1>4, <2>1 DEF Follows
    <3>2. q.op \in LeafOps
      BY <2>1, LeavesAssumption
    <3>3. HoldsBy(f, q, carried) = LeafHolds(q, carried)
      BY <3>2 DEF HoldsBy, LeafOps, Ranges
    <3>. QED
      BY <3>1, <3>3
  <2>2. CASE q.op \in {"And", "Or"} /\ q.left \in Trees /\ q.right \in Trees
    <3>1. f[q] = two[<<q.op, f[q.left], f[q.right]>>]
      BY <1>4, <2>2 DEF Follows
    <3>2. f[q.left] \in BOOLEAN /\ f[q.right] \in BOOLEAN
      BY <1>4, <2>2
    <3>3. f[q] = IF q.op = "Or" THEN f[q.left] \/ f[q.right] ELSE f[q.left] /\ f[q.right]
      BY <2>2, <3>1, <3>2
    <3>. QED
      BY <2>2, <3>3 DEF HoldsBy, LeafOps, Ranges
  <2>3. CASE q.op = "Not" /\ q.inner \in Trees
    <3>1. f[q] = one[f[q.inner]]
      BY <1>4, <2>3 DEF Follows
    <3>2. f[q.inner] \in BOOLEAN
      BY <1>4, <2>3
    <3>3. f[q] = ~f[q.inner]
      BY <3>1, <3>2
    <3>. QED
      BY <2>3, <3>3 DEF HoldsBy, LeafOps, Ranges
  <2>. QED
    BY <2>1, <2>2, <2>3, TreeCases DEF Connected
<1>6. f = [q \in Trees |-> HoldsBy(f, q, carried)]
  BY <1>4, <1>5
<1>. HIDE DEF leaf, two, one
<1>7. Meaning(carried) = [q \in Trees |-> HoldsBy(Meaning(carried), q, carried)]
  BY <1>6, Zenon DEF Meaning
<1>8. \A q : Holds(q, carried) = Meaning(carried)[q]
  BY Zenon DEF Holds, Meaning
<1>9. ASSUME NEW e, e = [q \in Trees |-> HoldsBy(e, q, carried)]
      PROVE  \A q \in Trees : e[q] = HoldsBy(e, q, carried)
  <2>. SUFFICES ASSUME NEW q \in Trees PROVE e[q] = HoldsBy(e, q, carried)
    OBVIOUS
  <2>1. [t \in Trees |-> HoldsBy(e, t, carried)][q] = HoldsBy(e, q, carried)
    OBVIOUS
  <2>. QED
    BY <1>9, <2>1, Zenon
<1>. QED
  BY <1>7, <1>8, <1>9, Zenon

\* A live entity carries pairs that have a bitmap, and for the stable ones
\* its ID says whether it carries them. Its ID is in the bitmap of $all.
LEMMA IdTells ==
  ASSUME DbInv, NEW a \in LiveAddrs
  PROVE  /\ CarriedPairs(entity[a]) \subseteq Pairs
         /\ \A p \in StablePairs : addrToId[a] \in pair[p] <=> p \in CarriedPairs(entity[a])
         /\ addrToId[a] \in AllEntities
         /\ addrToId[a] \in Ids
<1>1. a \in Addrs /\ entity[a] # NoEntity
  BY DEF LiveAddrs
<1>2. entity[a] \in Entities
  BY <1>1 DEF DbInv, DbTypeOK
<1>3. PairsOf(UserAnnots(entity[a].attributes)) \subseteq UserPairs
  BY <1>2, UserAnnotsTyped DEF Entities
<1>4. CarriedPairs(entity[a]) \subseteq Pairs
  <2>. SUFFICES ASSUME NEW p \in CarriedPairs(entity[a]) PROVE p \in Pairs
    OBVIOUS
  <2>. QED
    BY <1>2, <1>3, CarriedPairsAre DEF CarriedPairs, Entities, Pairs, BuiltInPairs
<1>5. \A p \in StablePairs : addrToId[a] \in pair[p] <=> p \in CarriedPairs(entity[a])
  BY <1>1, BitmapHits DEF Carriers
<1>6. addrToId[a] \in AllEntities
  BY <1>5, AllIsCarried DEF AllEntities
<1>. QED
  BY <1>1, <1>4, <1>5, <1>6, LiveHasId

\* The scan of a leaf goes by the values that the leaf compares with.
LEMMA AdmitsMeets ==
  ASSUME NEW l \in Leaves, l.op \in Ranges \cup {"Glob", "NotGlob"},
         NEW p \in Pairs, p[1] = l.pair[1]
  PROVE  Admits(l.op, l.pair[2], p[2]) <=> Meets(p, l)
<1>1. CASE l.op = "Gt"
  BY <1>1 DEF Admits, Meets
<1>2. CASE l.op = "Lt"
  BY <1>2 DEF Admits, Meets
<1>3. CASE l.op = "Gte"
  BY <1>3, LessAssumption DEF Admits, Meets, Ranges
<1>4. CASE l.op = "Lte"
  BY <1>4, LessAssumption DEF Admits, Meets, Ranges
<1>5. CASE l.op \in {"Glob", "NotGlob"}
  BY <1>5 DEF Admits, Meets
<1>. QED
  BY <1>1, <1>2, <1>3, <1>4, <1>5 DEF Ranges

\* The ID of a live entity is in a scan exactly if the entity carries a pair
\* that meets the comparison.
LEMMA ScanTells ==
  ASSUME DbInv, NEW l \in AnswerableLeaves, l.op \in Ranges \cup {"Glob", "NotGlob"},
         NEW a \in LiveAddrs
  PROVE  addrToId[a] \in ScanFor(l) <=> \E p \in CarriedPairs(entity[a]) : Meets(p, l)
<1>. DEFINE name == l.pair[1]
            admitted == {p[2] : p \in {r \in index : r[1] = name /\ Admits(l.op, l.pair[2], r[2])}}
            carried == CarriedPairs(entity[a])
            id == addrToId[a]
<1>1. l \in Leaves /\ {p \in Pairs : Meets(p, l)} \subseteq OrderedPairs
  BY DEF AnswerableLeaves, Ranges
<1>2. ScanFor(l) = UNION {pair[p] : p \in index \cap ({name} \X admitted)}
  BY DEF ScanFor, Scan
<1>3. index \subseteq Pairs /\ \A p \in OrderedPairs : p \in index <=> pair[p] # {}
  BY DEF DbInv, DbTypeOK, TreesExact
<1>4. carried \subseteq Pairs /\ \A p \in OrderedPairs : id \in pair[p] <=> p \in carried
  BY IdTells, OrderedAreStable
<1>5. \A p \in Pairs : Meets(p, l) => p[1] = name
  BY DEF Meets
<1>6. \A p \in Pairs : p[1] = name => (Admits(l.op, l.pair[2], p[2]) <=> Meets(p, l))
  BY <1>1, AdmitsMeets
<1>7. ASSUME id \in ScanFor(l) PROVE \E p \in carried : Meets(p, l)
  <2>1. PICK p \in index \cap ({name} \X admitted) : id \in pair[p]
    BY <1>2, <1>7
  <2>2. p \in Pairs /\ p[1] = name /\ p[2] \in admitted
    BY <1>3, <2>1
  <2>3. PICK r \in index : r[1] = name /\ Admits(l.op, l.pair[2], r[2]) /\ p[2] = r[2]
    BY <2>2
  <2>4. Meets(p, l)
    BY <1>6, <2>2, <2>3
  <2>. QED
    BY <1>1, <1>4, <2>1, <2>2, <2>4
<1>8. ASSUME NEW p \in carried, Meets(p, l) PROVE id \in ScanFor(l)
  <2>1. p \in Pairs /\ p \in OrderedPairs /\ p[1] = name
    BY <1>1, <1>4, <1>5, <1>8
  <2>2. id \in pair[p] /\ p \in index
    BY <1>3, <1>4, <2>1
  <2>3. p[2] \in admitted
    BY <1>6, <1>8, <2>1, <2>2
  <2>4. p \in {name} \X admitted
    BY <2>1, <2>3, PairsAreTuples
  <2>. QED
    BY <1>2, <2>2, <2>4
<1>. QED
  BY <1>7, <1>8

\* The ID of a live entity is in the bitmap of a leaf exactly if the leaf
\* holds for the entity.
LEMMA LeafTells ==
  ASSUME DbInv, NEW l \in AnswerableLeaves, NEW a \in LiveAddrs
  PROVE  addrToId[a] \in LeafIds(l) <=> LeafHolds(l, CarriedPairs(entity[a]))
<1>. DEFINE carried == CarriedPairs(entity[a])
            id == addrToId[a]
<1>1. l \in Leaves /\ l.op \in LeafOps
  BY LeavesAssumption DEF AnswerableLeaves
<1>2. /\ carried \subseteq Pairs
      /\ \A p \in StablePairs : id \in pair[p] <=> p \in carried
      /\ id \in AllEntities
  BY IdTells
<1>3. ASSUME NEW p, {p} \cap Pairs \subseteq StablePairs
      PROVE  id \in ReadEq(p) <=> p \in carried
  <2>1. CASE p \in Pairs
    <3>1. p \in StablePairs /\ ReadEq(p) = pair[p]
      BY <1>3, <2>1 DEF ReadEq
    <3>. QED
      BY <1>2, <3>1
  <2>2. CASE p \notin Pairs
    <3>1. ReadEq(p) = {}
      BY <2>2 DEF ReadEq
    <3>. QED
      BY <1>2, <2>2, <3>1
  <2>. QED
    BY <2>1, <2>2
<1>. HIDE DEF carried, id
<1>4. ASSUME l.op = "All" PROVE id \in LeafIds(l) <=> LeafHolds(l, carried)
  BY <1>2, <1>4 DEF LeafIds, LeafHolds, Ranges
<1>5. ASSUME l.op \in {"Eq", "Neq"} PROVE id \in LeafIds(l) <=> LeafHolds(l, carried)
  <2>1. {l.pair} \cap Pairs \subseteq StablePairs
    BY <1>5 DEF AnswerableLeaves, Ranges
  <2>2. id \in ReadEq(l.pair) <=> l.pair \in carried
    BY <1>3, <2>1
  <2>3. l.pair \in carried <=> \E p \in carried : Meets(p, l)
    <3>1. \A p \in carried : Meets(p, l) <=> p[1] = l.pair[1] /\ p[2] = l.pair[2]
      BY <1>5 DEF Meets
    <3>2. \A p \in carried : p = <<p[1], p[2]>>
      BY <1>2, PairsAreTuples
    <3>3. l.pair = <<l.pair[1], l.pair[2]>>
      BY <1>1, <1>5, LeavesAssumption
    <3>. QED
      BY <3>1, <3>2, <3>3
  <2>4. CASE l.op = "Eq"
    BY <2>2, <2>3, <2>4 DEF LeafIds, LeafHolds, Ranges
  <2>5. CASE l.op = "Neq"
    BY <1>2, <2>2, <2>3, <2>5 DEF LeafIds, LeafHolds, Ranges
  <2>. QED
    BY <1>5, <2>4, <2>5
<1>6. ASSUME l.op \in {"In", "NotIn"} PROVE id \in LeafIds(l) <=> LeafHolds(l, carried)
  <2>1. PairsIn(l) \cap Pairs \subseteq StablePairs
    BY <1>6 DEF AnswerableLeaves, Ranges
  <2>2. \A p \in PairsIn(l) : id \in ReadEq(p) <=> p \in carried
    BY <1>3, <2>1
  <2>3. id \in ReadIn(PairsIn(l)) <=> PairsIn(l) \cap carried # {}
    BY <2>2 DEF ReadIn
  <2>4. CASE l.op = "In"
    BY <2>3, <2>4 DEF LeafIds, LeafHolds, Ranges
  <2>5. CASE l.op = "NotIn"
    BY <1>2, <2>3, <2>5 DEF LeafIds, LeafHolds, Ranges
  <2>. QED
    BY <1>6, <2>4, <2>5
<1>7. ASSUME l.op \in Ranges \cup {"Glob", "NotGlob"}
      PROVE  id \in LeafIds(l) <=> LeafHolds(l, carried)
  <2>1. id \in ScanFor(l) <=> \E p \in carried : Meets(p, l)
    BY <1>7, ScanTells DEF id, carried
  <2>2. CASE l.op \in Ranges \cup {"Glob"}
    BY <2>1, <2>2 DEF LeafIds, LeafHolds, Ranges
  <2>3. CASE l.op = "NotGlob"
    BY <1>2, <2>1, <2>3 DEF LeafIds, LeafHolds, Ranges
  <2>. QED
    BY <1>7, <2>2, <2>3
<1>8. id \in LeafIds(l) <=> LeafHolds(l, carried)
  BY <1>1, <1>4, <1>5, <1>6, <1>7 DEF LeafOps
<1>. QED
  BY <1>8 DEF id, carried

\* The same for a tree, and its bitmap holds IDs.
Right(q) ==
  /\ Eval[q] \subseteq Ids
  /\ \A a \in LiveAddrs : addrToId[a] \in Eval[q] <=> Holds(q, CarriedPairs(entity[a]))

\* The bitmap of a tree tells of every live entity whether the tree holds.
LEMMA TreesTell ==
  ASSUME DbInv
  PROVE  \A q \in TreesOver(AnswerableLeaves) : Right(q)
<1>. DEFINE T == TreesOver(AnswerableLeaves)
            S == {q \in T : Right(q)}
<1>1. AnswerableLeaves \subseteq Leaves /\ AnswerableLeaves \subseteq T /\ T \subseteq Trees
  <2>1. AnswerableLeaves \subseteq Leaves
    BY DEF AnswerableLeaves
  <2>2. AnswerableLeaves \subseteq T
    BY TreesAreLevels, LevelsGrow, LeavesAssumption
  <2>. QED
    BY <2>1, <2>2, FewerLeaves
<1>2. \A q \in T : Eval[q] = EvalBy(Eval, q)
  BY <1>1, EvalUnfolds
<1>3. \A q \in T : \A carried : Holds(q, carried) = HoldsBy(Meaning(carried), q, carried)
  BY <1>1, HoldsUnfolds
<1>4. \A q, carried : Holds(q, carried) = Meaning(carried)[q]
  BY HoldsUnfolds
<1>5. ASSUME NEW q \in AnswerableLeaves PROVE q \in S
  <2>1. q.op \in LeafOps
    BY <1>1, LeavesAssumption
  <2>2. Eval[q] = LeafIds(q)
    BY <1>1, <1>2, <2>1 DEF EvalBy, LeafOps, Ranges
  <2>3. \A carried : Holds(q, carried) = LeafHolds(q, carried)
    BY <1>1, <1>3, <2>1 DEF HoldsBy, LeafOps, Ranges
  <2>4. LeafIds(q) \subseteq Ids
    BY <1>1, LeavesYieldIds
  <2>. QED
    BY <1>1, <2>2, <2>3, <2>4, LeafTells DEF Right
<1>6. ASSUME NEW q \in T, q \in Connected(S) PROVE Right(q)
  <2>1. CASE q.op = "And" /\ q.left \in S /\ q.right \in S
    <3>1. Eval[q] = Eval[q.left] \cap Eval[q.right]
      BY <1>2, <2>1 DEF EvalBy, LeafOps, Ranges
    <3>2. \A carried : Holds(q, carried) = (Holds(q.left, carried) /\ Holds(q.right, carried))
      BY <1>3, <1>4, <2>1 DEF HoldsBy, LeafOps, Ranges
    <3>. QED
      BY <2>1, <3>1, <3>2 DEF Right
  <2>2. CASE q.op = "Or" /\ q.left \in S /\ q.right \in S
    <3>1. Eval[q] = Eval[q.left] \cup Eval[q.right]
      BY <1>2, <2>2 DEF EvalBy, LeafOps, Ranges
    <3>2. \A carried : Holds(q, carried) = (Holds(q.left, carried) \/ Holds(q.right, carried))
      BY <1>3, <1>4, <2>2 DEF HoldsBy, LeafOps, Ranges
    <3>. QED
      BY <2>2, <3>1, <3>2 DEF Right
  <2>3. CASE q.op = "Not" /\ q.inner \in S
    <3>1. Eval[q] = AllEntities \ Eval[q.inner]
      BY <1>2, <2>3 DEF EvalBy, LeafOps, Ranges
    <3>2. \A carried : Holds(q, carried) = ~Holds(q.inner, carried)
      BY <1>3, <1>4, <2>3 DEF HoldsBy, LeafOps, Ranges
    <3>3. AllEntities \subseteq Ids
      BY ReadsYieldIds
    <3>4. \A a \in LiveAddrs : addrToId[a] \in AllEntities
      BY IdTells
    <3>. QED
      BY <2>3, <3>1, <3>2, <3>3, <3>4 DEF Right
  <2>. QED
    BY <1>6, <2>1, <2>2, <2>3 DEF Connected
<1>7. S \cap T = S
  OBVIOUS
<1>. HIDE DEF S
<1>8. T \subseteq S
  <2>1. AnswerableLeaves \subseteq S
    BY <1>5
  <2>2. \A q \in T : q \in Connected(S \cap T) => q \in S
    BY <1>6, <1>7 DEF S
  <2>. QED
    BY <2>1, <2>2, TreeInduction
<1>. QED
  BY <1>8 DEF S

\* Every query resolves to the live entities for which it holds.
LEMMA QueryHits == DbInv => QueriesExact
<1>. DEFINE carried == [a \in {b \in Addrs : entity[b] # NoEntity} |-> CarriedPairs(entity[a])]
<1>. SUFFICES ASSUME DbInv, NEW q \in Answerable
              PROVE  ResolvedIds(Eval[q]) = {a \in DOMAIN carried : Holds(q, carried[a])}
  BY DEF QueriesExact
<1>1. Right(q)
  BY TreesTell DEF Answerable
<1>2. {a \in DOMAIN carried : Holds(q, carried[a])}
        = {a \in LiveAddrs : Holds(q, CarriedPairs(entity[a]))}
  BY DEF LiveAddrs
<1>3. ASSUME NEW i \in Eval[q], idToAddr[i] # NoAddr
      PROVE  idToAddr[i] \in LiveAddrs /\ Holds(q, CarriedPairs(entity[idToAddr[i]]))
  <2>1. idToAddr[i] \in LiveAddrs /\ addrToId[idToAddr[i]] = i
    BY <1>1, <1>3, IdIsOfLive DEF Right
  <2>. QED
    BY <1>1, <2>1 DEF Right
<1>4. ASSUME NEW a \in LiveAddrs, Holds(q, CarriedPairs(entity[a]))
      PROVE  a \in ResolvedIds(Eval[q])
  <2>1. addrToId[a] \in Eval[q]
    BY <1>1, <1>4 DEF Right
  <2>2. idToAddr[addrToId[a]] = a /\ a # NoAddr
    BY LiveHasId DEF LiveAddrs
  <2>. QED
    BY <2>1, <2>2 DEF ResolvedIds
<1>5. ResolvedIds(Eval[q]) \subseteq {a \in LiveAddrs : Holds(q, CarriedPairs(entity[a]))}
  BY <1>3 DEF ResolvedIds
<1>. QED
  BY <1>2, <1>4, <1>5
-----------------------------------------------------------------------------
\* `$all` yields the live entities in every state that calls lead to.
THEOREM AllStaysExact == Spec => []AllExact
<1>1. IInv => AllExact
  BY AllHits DEF IInv, StateInv
<1> QED
  BY <1>1, Invariance, PTL

\* Equalities and their complements yield what the entities carry.
THEOREM EqStaysExact == Spec => []EqExact
<1>1. IInv => EqExact
  BY EqHits DEF IInv, StateInv
<1> QED
  BY <1>1, Invariance, PTL

\* Range and prefix scans yield what the entities carry.
THEOREM ScansStayExact == Spec => []ScanExact
<1>1. IInv => ScanExact
  BY ScanHits DEF IInv, StateInv
<1> QED
  BY <1>1, Invariance, PTL

\* Every query yields the live entities for which it holds, in every state
\* that calls lead to.
THEOREM QueriesStayExact == Spec => []QueriesExact
<1>1. IInv => QueriesExact
  BY QueryHits DEF IInv, StateInv
<1> QED
  BY <1>1, Invariance, PTL
=============================================================================
