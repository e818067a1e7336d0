---------------------------- MODULE PaymentProps ----------------------------
(***************************************************************************)
(* Payload references that are spent and the money that they move, over    *)
(* the behaviours of module Execute.                                       *)
(***************************************************************************)
EXTENDS ExecuteProps, PayloadReference, Functions

CONSTANTS
  Submitted,  \* the payloads of CREATE and UPDATE that callers may send
  Signed      \* the receipts that exist: who has signed what

\* A trusted provider puts a nonce of its own on every receipt.
ASSUME SignedAssumption ==
  \A s, t \in {r \in Signed : TrustedSigner(r.by)} :
    DecodedNonce(s.receipt.nonce) = DecodedNonce(t.receipt.nonce) => s = t

\* References are what validation makes of payloads, and a signature is in
\* circulation only if its signer has made it.
ASSUME ReferencesAssumption ==
  /\ References \subseteq Authorisations(Submitted)
  /\ \A s \in Submitted :
       LET scalars == s.payload.signature.scalars
       IN [by |-> scalars.by, receipt |-> scalars.receipt] \in Signed

SignedNonces ==
  {DecodedNonce(s.receipt.nonce) : s \in {t \in Signed : TrustedSigner(t.by)}}

\* A reference nonce is spent once per caller and never without a provider's
\* receipt: every entity that a caller has minted has used up a nonce of its
\* own that a trusted provider has signed, however references are altered.
MintsSpendReferences ==
  \A c \in Accounts :
    nonces[c] <= Cardinality({n \in SignedNonces : <<c, n>> \in usedRefs})
-----------------------------------------------------------------------------
(* The money. All references with one nonce come from one receipt; they    *)
(* differ in the content type only, which moves none.                      *)

Spendings == Accounts \X RefNonces

ReferenceOf(spending) == CHOOSE r \in References : r.nonce = spending[2]

\* What a spending costs at the present block, and the provider's share.
Cost == [s \in Spendings |->
           IF PaymentParams[block].enabled THEN Price(ReferenceOf(s)) ELSE 0]
Share == [s \in Spendings |->
            IF PaymentParams[block].enabled THEN ProviderAmount(ReferenceOf(s)) ELSE 0]

\* Moving from one committed state to the next, every balance loses what its
\* holder's new spendings cost at that block and gains the provider's share
\* of the new spendings on it by anyone (itself included), and a nonce that
\* is spent stays spent: nothing is charged twice, a reverted call takes no
\* money, and what is not shared out is burned.
LedgerBalances ==
  [][LET spent == Committed'.usedRefs \ Committed.usedRefs
     IN /\ Committed.usedRefs \subseteq Committed'.usedRefs
        /\ \A a \in Payers :
             Committed'.balance[a] + SumFunctionOnSet(Cost, {s \in spent : s[1] = a})
               = Committed.balance[a]
                   + SumFunctionOnSet(Share, {s \in spent : ReferenceOf(s).provider = a})]_vars
=============================================================================
