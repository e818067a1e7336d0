------------------------------ MODULE Execute -------------------------------
(***************************************************************************)
(* execute(Operation[]) of crates/arkiv-node/src/precompile.rs             *)
(* (dispatch_execute) and the chain around it. A call applies its          *)
(* operations one at a time to the journaled state; the first one that     *)
(* fails reverts everything the call has done, and a call whose operations *)
(* have all succeeded commits. Calls are sequential: the EVM runs one at a *)
(* time and the precompile calls nothing back.                             *)
(***************************************************************************)
EXTENDS Precompile, FiniteSets

CONSTANTS
  InitialBalance, \* balance of every payer at genesis
  MaxBlock,       \* bound on the block number
  MaxBatch,       \* bound on the operations of one call
  NoCall          \* no call is being executed

VARIABLES
  call,           \* the call under execution: its caller and operations done
  saved           \* the journal checkpoint the call reverts to

vars == <<dbVars, systemVars, block, log, call, saved>>

ASSUME ExecuteConstantsAssumption ==
  /\ InitialBalance \in Nat /\ MaxBatch \in Nat
  /\ NoCall \notin [caller : Accounts, done : 0 .. MaxBatch]
  /\ MaxBlock \in Nat /\ MaxBlock <= MaxHeight
-----------------------------------------------------------------------------
State == [entity |-> entity, pair |-> pair, index |-> index,
          idToAddr |-> idToAddr, addrToId |-> addrToId,
          entityCount |-> entityCount, nonces |-> nonces,
          usedRefs |-> usedRefs, balance |-> balance]

\* What the state trie holds outside of the running call.
Committed == IF call = NoCall THEN State ELSE saved

Init ==
  /\ DbInit
  /\ nonces = [c \in Accounts |-> 0]
  /\ usedRefs = {}
  /\ balance = [a \in Payers |-> InitialBalance]
  /\ block = 0
  /\ log = <<>>
  /\ call = NoCall
  /\ saved = NoCall

Begin(caller) ==
  /\ call = NoCall
  /\ call' = [caller |-> caller, done |-> 0]
  /\ saved' = State
  /\ UNCHANGED <<dbVars, systemVars, block, log>>

Apply ==
  /\ call # NoCall
  /\ call.done < MaxBatch
  /\ ApplyOp(call.caller)
  /\ call' = [call EXCEPT !.done = @ + 1]
  /\ UNCHANGED <<block, saved>>

\* An empty batch is rejected, so a call that commits has done something.
Commit ==
  /\ call # NoCall
  /\ call.done > 0
  /\ call' = NoCall
  /\ saved' = NoCall
  /\ log' = <<>>
  /\ UNCHANGED <<dbVars, systemVars, block>>

\* Faulty variant: payments are not rolled back.
RevertKeepsPayments ==
  /\ call # NoCall
  /\ entity' = saved.entity
  /\ pair' = saved.pair
  /\ index' = saved.index
  /\ idToAddr' = saved.idToAddr
  /\ addrToId' = saved.addrToId
  /\ entityCount' = saved.entityCount
  /\ nonces' = saved.nonces
  /\ usedRefs' = saved.usedRefs
  /\ log' = <<>>
  /\ call' = NoCall
  /\ saved' = NoCall
  /\ UNCHANGED <<balance, block>>

\* The next operation fails validation (or the batch is empty): the journal
\* returns to its checkpoint and the events of the call are dropped.
Revert ==
  /\ call # NoCall
  /\ entity' = saved.entity
  /\ pair' = saved.pair
  /\ index' = saved.index
  /\ idToAddr' = saved.idToAddr
  /\ addrToId' = saved.addrToId
  /\ entityCount' = saved.entityCount
  /\ nonces' = saved.nonces
  /\ usedRefs' = saved.usedRefs
  /\ balance' = saved.balance
  /\ log' = <<>>
  /\ call' = NoCall
  /\ saved' = NoCall
  /\ UNCHANGED block

NewBlock ==
  /\ call = NoCall
  /\ block < MaxBlock
  /\ block' = block + 1
  /\ UNCHANGED <<dbVars, systemVars, log, call, saved>>

Next ==
  \/ \E caller \in Accounts : Begin(caller)
  \/ Apply
  \/ Commit
  \/ Revert
  \/ NewBlock

Spec == Init /\ [][Next]_vars
=============================================================================
