----------------------------- MODULE MCExecute ------------------------------
(***************************************************************************)
(* Values of the constants of Execute that a .cfg cannot write down.       *)
(***************************************************************************)
EXTENDS PaymentProps, OperationInput, DocClaims, TLC

CONSTANTS x, y, z   \* attribute values
CONSTANTS text, json                        \* content types
CONSTANTS alice, bob, dave, zero            \* accounts
CONSTANTS derived, other                    \* tails of entity keys
CONSTANTS mallory, dev                      \* signers

MCUserPairs == {<<"color", x>>, <<"color", y>>, <<"color", z>>}

NoLists == {<<>>}

\* The bytes for which a name and the values stand, by the order of which
\* x < z < y. A word has two bytes.
NameOf(bytes) == IF bytes = <<99>> THEN "color" ELSE "?"
ValueOf(bytes) ==
  CASE bytes = <<49, 50>> -> x [] bytes = <<50, 0>> -> y [] bytes = <<49, 51>> -> z

Standing(list) ==
  [i \in DOMAIN list |->
     [list[i] EXCEPT !.pair = <<NameOf(list[i].pair[1]), ValueOf(list[i].pair[2])>>]]

Raw(type, value) == [name |-> <<99, 0>>, type |-> type, value |-> value]
X(type) == Raw(type, <<49, 50, 0, 0>>)
Y == Raw("UINT", <<50, 0, 0, 0>>)
Z(type) == Raw(type, <<49, 51, 0, 0>>)

\* Names and values that are not what they have to be.
Misnamed(name) == [Y EXCEPT !.name = name]
BadAttributes ==
  {Misnamed(<<0, 99>>), Misnamed(<<49, 99>>), Misnamed(<<36, 99>>), Misnamed(<<99, 65>>),
   Raw("unknown", <<50, 0, 0, 0>>), Raw("ENTITY_KEY", <<49, 50, 51, 0>>), Raw("UINT", <<0, 0, 0, 1>>),
   Raw("STRING", <<49, 0, 50, 0>>), Raw("STRING", <<200, 50, 0, 0>>),
   Raw("STRING", <<237, 160, 128, 0>>), Raw("STRING", <<49, 130, 0, 0>>)}

\* y is always ordered; x is flagged one way or the other; z is carried in
\* both flavours by one list and in one of them by another.
SubmittedLists ==
  {<<Y, X("STRING")>>, <<X("ENTITY_KEY"), Z("UINT")>>, <<Z("STRING"), Y, Z("ENTITY_KEY")>>}
    \cup {<<Y, a>> : a \in BadAttributes}

AcceptedLists == {Standing(ConvertedList(l)) : l \in {k \in SubmittedLists : ValidList(k)}}
MixedLists == AcceptedLists

\* A payload reference, signed by `signer` over the receipt that it needs.
Fields(number, contentType, payment) ==
  [kind |-> "atlas.payloadReference", version |-> 1, provider |-> "atlas-payload-provider",
   id |-> "id", namespace |-> "space", contentType |-> contentType, checksum |-> "sum",
   sizeBytes |-> 1, submittedAt |-> "noon", payment |-> payment,
   nonce |-> [number |-> number, spelled |-> "lower"]]

SignedBy(signer, receipt) ==
  LET made == [by |-> signer, receipt |-> receipt, v |-> 27]
  IN [scheme |-> "eip191", signer |-> signer, receipt |-> receipt, messageHash |-> receipt,
      scalars |-> made, v |-> 27, packed |-> <<made, 27>>]

Carrying(fields, signature) ==
  [f \in DOMAIN fields \cup {"signature"} |->
     IF f = "signature" THEN signature ELSE fields[f]]

Ref(number, contentType, payment, signer) ==
  LET fields == Fields(number, contentType, payment)
  IN Carrying(fields, SignedBy(signer, ExpectedReceipt(fields)))

Submission(ref) ==
  [contentType |-> "application/vnd.atlas.payload-reference+json", payload |-> ref]

\* What is made of references without the provider: other fields, another
\* spelling of the nonce, another signer, another message. (The content type
\* is not signed: references that differ in it pass.)
Altered(ref) ==
  {[ref EXCEPT !.contentType = json], [ref EXCEPT !.payment = 9],
   [ref EXCEPT !.nonce.number = 9], [ref EXCEPT !.checksum = "?"],
   [ref EXCEPT !.nonce.spelled = "upper"], [ref EXCEPT !.version = 2], [ref EXCEPT !.kind = "?"],
   [ref EXCEPT !.provider = "?"], [ref EXCEPT !.sizeBytes = 2],
   [ref EXCEPT !.signature.scheme = "?"], [ref EXCEPT !.signature.v = 28],
   [ref EXCEPT !.signature.messageHash.nonce.number = 9], [ref EXCEPT !.signature.signer = mallory]}

\* Signed by somebody else, in dave's name.
Forged ==
  LET ref == Ref(7, text, 2, mallory) IN [ref EXCEPT !.signature.signer = dave]

Payloads(refs) ==
  {Submission(r) : r \in refs \cup UNION {Altered(r) : r \in refs}}
    \cup {Submission(Forged), Submission(Ref(8, text, 1, mallory)), Submission(Ref(8, text, 1, dev)),
          Submission(Ref(6, text, 0, dave)), Submission(Ref(0, text, 1, dave))}
    \cup {[Submission(Ref(5, text, 1, dave)) EXCEPT !.contentType = "text/plain"]}

\* Every signature that is in circulation was made by its signer.
ReceiptsOf(submitted) ==
  {[by |-> s.payload.signature.scalars.by, receipt |-> s.payload.signature.scalars.receipt] :
     s \in submitted}

Two == {Ref(1, text, 1, dave), Ref(2, json, 1, dave)}
TwoPayloads == Payloads(Two)
TwoSubmitted == TwoPayloads
TwoAuthorisations == Authorisations(TwoPayloads)
TwoReferences == TwoAuthorisations
TwoReceipts == ReceiptsOf(TwoPayloads)

\* Callers that no reference names are interchangeable.
CallerSymmetry == Permutations(Accounts)

NoPayment == [h \in Heights |-> [enabled |-> FALSE, shareBps |-> 0, minimum |-> 0]]
FreeBlocks == [h \in Heights |-> 0]

\* Payment on at every block: 35 percent to the provider, at least 2 units.
SplitPayment ==
  [h \in Heights |-> [enabled |-> TRUE, shareBps |-> 3500, minimum |-> 2]]
TwoWeiBlocks == [h \in Heights |-> 2]

\* One reference below the minimum, one that pays a provider outside the
\* callers, one whose provider is also a caller.
Paid == {Ref(1, text, 1, dave), Ref(2, text, 3, dave), Ref(3, text, 2, bob)}
PaidPayloads == Payloads(Paid)
PaidSubmitted == PaidPayloads
PaidAuthorisations == Authorisations(PaidPayloads)
PaidReferences == PaidAuthorisations
PaidReceipts == ReceiptsOf(PaidPayloads)
=============================================================================
