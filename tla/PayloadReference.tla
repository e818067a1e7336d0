-------------------------- MODULE PayloadReference --------------------------
(***************************************************************************)
(* Which payload references the precompile accepts, and what it takes from *)
(* them: validate_payload_reference of crates/arkiv-node/src/precompile.rs *)
(* and its helpers. A reference carries a receipt that a payload provider  *)
(* has signed; the content type that it names as well is not part of the   *)
(* receipt.                                                                *)
(*                                                                         *)
(* Cryptography is ideal: a hash is the receipt that it is taken of, and   *)
(* scalars (r, s) are made by one signer for one receipt and one parity.   *)
(* A text that has to have a form is in WellFormed when it has.            *)
(***************************************************************************)
EXTENDS Naturals

CONSTANTS
  WellFormed,      \* identifiers, namespaces, checksums, dates of the right form
  TrustedSigners,  \* TRUSTED_PAYLOAD_PROVIDER_SIGNERS
  DevSigners,      \* TRUSTED_DEV_PAYLOAD_PROVIDER_SIGNERS
  OnDevChain       \* whether the chain's ID is DEV_CHAIN_ID

ASSUME ChainAssumption == OnDevChain \in BOOLEAN
-----------------------------------------------------------------------------
\* A nonce is spelled in hexadecimal: its digits may be in either case.
DecodedNonce(nonce) == nonce.number

WellFormedNonce(nonce) == nonce.spelled \in {"lower", "upper"} /\ nonce.number # 0

\* The receipt that the fields of the reference call for.
ExpectedReceipt(ref) ==
  [service |-> "atlas-payload-provider", action |-> "payloadReceived",
   payloadId |-> ref.id, namespace |-> ref.namespace, checksum |-> ref.checksum,
   sizeBytes |-> ref.sizeBytes, submittedAt |-> ref.submittedAt,
   nonce |-> ref.nonce, payment |-> ref.payment]

\* recover_address_from_prehash. A signature of something else recovers to
\* an address that nobody has declared.
Recovered(receipt, scalars, v) ==
  IF scalars.receipt = receipt /\ scalars.v = v THEN {scalars.by} ELSE {}

\* is_trusted_payload_provider_signer
TrustedSigner(signer) == signer \in TrustedSigners \/ (OnDevChain /\ signer \in DevSigners)

\* Faulty variant: believes the signer that the signature declares.
SignatureHoldsDeclared(receipt, signature) ==
  /\ signature.scheme = "eip191"
  /\ signature.receipt = receipt
  /\ signature.v \in {27, 28}
  /\ signature.packed = <<signature.scalars, signature.v>>
  /\ signature.messageHash = receipt
  /\ TrustedSigner(signature.signer)

\* validate_payload_signature
SignatureHolds(receipt, signature) ==
  /\ signature.scheme = "eip191"
  /\ signature.receipt = receipt
  /\ signature.v \in {27, 28}
  /\ signature.packed = <<signature.scalars, signature.v>>
  /\ signature.messageHash = receipt
  /\ Recovered(receipt, signature.scalars, signature.v) = {signature.signer}
  /\ TrustedSigner(signature.signer)

\* A document with other fields than these does not parse. A content type
\* that is left out is stored as an empty one.
ValidReference(ref) ==
  /\ ref.kind = "atlas.payloadReference"
  /\ ref.version = 1
  /\ ref.provider = "atlas-payload-provider"
  /\ {ref.id, ref.namespace, ref.contentType, ref.checksum, ref.submittedAt} \subseteq WellFormed
  /\ ref.sizeBytes > 0
  /\ WellFormedNonce(ref.nonce)
  /\ ref.payment > 0
  /\ SignatureHolds(ExpectedReceipt(ref), ref.signature)

\* PayloadReferenceAuth, the result of validate_payload_reference.
Authorisation(ref) ==
  [nonce |-> DecodedNonce(ref.nonce), contentType |-> ref.contentType,
   payment |-> ref.payment, provider |-> ref.signature.signer]

\* The payloads of CREATE and UPDATE that pass: the operation has to name
\* the content type of references.
Authorisations(submitted) ==
  {Authorisation(s.payload) :
     s \in {t \in submitted : /\ t.contentType = "application/vnd.atlas.payload-reference+json"
                              /\ ValidReference(t.payload)}}
=============================================================================
