# Atlas / Arkiv node: TLA+ models, checks and proofs

Arkiv stores *entities* (a payload reference, attributes, an owner and an expiry
block) in the state of an Ethereum-style chain. An EVM precompile executes
batches of entity operations; the entity database keeps the entities and the
indexes over them as ordinary accounts; a JSON-RPC method answers queries from
those indexes; a poller lets an HTTP service change protocol parameters at block
heights; a traffic simulator drives all of it with batches of operations. This
directory models these parts, checks them with TLC on small instances and proves the
most important results with TLAPS for all instances.

## 1. Inventory

| Part | Source | State | Operations | Hard behaviour | Correct when |
|---|---|---|---|---|---|
| Entity database | `arkiv-entitydb/src/lib.rs` | entity accounts, pair bitmaps, ordered trees, ID maps and counter in a system account | create, update, extend, transfer, delete, expire | four structures changed annotation by annotation; stale IDs; attributes of equal bytes and different flavours | indexes, IDs and entities agree after any sequence of operations |
| Precompile | `arkiv-node/src/precompile.rs` | nonces, consumed references (system account), balances, events | the six operations with their checks, reference use and payment | batches that fail half-way, replay, boundary blocks, money moved in two steps | atomic calls; only the owner changes an entity; keys minted once; events tell the result |
| Operation input | `precompile.rs` | none | checks and conversion of attributes; validation of signed references | bytes that look alike; a signature that covers less than one thinks | what is indexed or authorised is what was sent and signed |
| EVM boundary | `evm.rs`, `state_adapter.rs` | the journal | call, revert | checkpoint and rollback | everything a call did is undone |
| Ordered index | `index_tree.rs` | an adaptive radix tree per attribute name, stored as account code | insert, remove, encode, decode, iterate | node kinds grow, shrink, split and merge | an ordered set, reload included |
| Schedule poller | `protocol_schedule.rs`, `vendor/.../arkiv_schedule.rs` | installed entries, last version, file | start, poll, install, write | crashes inside a write, stale answers, gating, version checks across restarts | nodes converge; nothing comes into force early; no rollback |
| Fee helpers | `vendor/.../helpers.rs` | none (read the installed entries) | next base fee, gas limit | which entry is read; truncation and widths | the fee keeps its floor and follows demand, the limit stays in its band |
| Query interpreter | `query/interpreter.rs` | none | evaluate, page | complements over stale bitmaps; pages across blocks | answers are the entities that satisfy the query |
| Lexer, parser | `query/lexer.rs`, `query/parser.rs` | none | tokens, tree, value encoding | precedence, encodings in lockstep with the writers | the tree is the grammar's; errors exactly where it has none |
| RPC | `rpc.rs` | none | query, count, timing | head moves during a request | answers describe one block |
| Simulator | `arkiv-cli/src/simulate.rs` | pool, EXPIRE candidates, reservations, slots of signers | build a batch, submit it, apply its receipt | parallel signers, blocks that pass, reverts, lost receipts, plans that are given up | no entity in two batches; the pool mirrors the chain; nothing forgotten but what a dropped plan had drawn; a bound on the overshoot |
| CLI | `arkiv-cli/src/main.rs` | none | one transaction per command | | |
| Genesis, wiring | `arkiv-genesis`, `main.rs`, `install.rs` | constants | | | |

Interactions: the precompile calls the entity database through a state adapter,
and both write to one journal; queries read the accounts of a committed block
without the precompile; the poller writes a process-wide schedule that the
precompile (per operation) and the fee helpers (per block) read. `PROJECT.json`
lists every component with its status, and under `hazards` the places where this
code is hard to test, with the properties aimed at each.

## 2. Modules

```
EntityDb <- Precompile <- Execute        EntityDbProps, ExecuteProps, PaymentProps, DocClaims
     |                      ^  \--implements--> Registry
     |    OperationInput, PayloadReference  (what Execute's constants stand for)
     |                      |
     |                  MCExecute
EntityDb <- IndexWalk <- MCIndexWalk   (the handlers, annotation by annotation)
Query, QueryTree <- QueryEval;   QueryTree, QueryLexer <- QueryParser
QueryParser <- QueryReader;   QueryEval, QueryReader <- MCQuery

EntityDbProofs <- ExecuteProofs -> QueryEval
EntityDbProofs, IndexWalk <- IndexWalkProofs
FoldProofs <- ExecuteProofs, IndexWalkProofs, SimulatorProofs, IndexTreeProofs, QueryProofs

QueryPages <- QueryPagesProps <- QueryProofs -> QueryReader
FeeMarket, ProtocolSchedule <- ScheduleProps <- MCSchedule
ScheduleProps <- ScheduleDocClaims;   MCSchedule, ScheduleDocClaims <- MCScheduleDocClaims
ScheduleProps, FeeMarket <- ScheduleProofs
IndexTree <- IndexTreeProps <- IndexTreeShape <- MCIndexTree
IndexTreeShape <- IndexTreeProofs
Simulator <- SimulatorProps <- MCSimulator, SimulatorProofs
```

An arrow points at the module that is extended.

**EntityDb** translates the six handlers of `lib.rs`. An account is an entry of a
function; the bitmap of a (name, value) pair is a set of IDs; the trees of all
names together are the set `index` of pairs. An attribute carries the `tier2` flag
that its type is folded into. A 32-byte key is its address part (what
`entity_address` looks at) and a tail, so that *aliases*, keys with the same
address and another tail, are in the model. Each handler is one step; **IndexWalk**
runs the same handlers annotation by annotation, as the loops of the code do: both end
in the same bitmaps and trees, which is checked for every list of up to three
attributes on one pair and proved for lists of any length.

**Precompile** adds the checks, nonces, references, payments and events of
`precompile.rs`, one operator per `apply_*` function. Attributes and references enter it
as what the input checks make of them: **OperationInput** has those checks and conversions
byte by byte (`validate_ident32`, zero-padded names, unused words, UTF-8, stripped
zeros, the bytes that are hashed for a pair), **PayloadReference** the
validation of a signed reference (form, receipt, signer), with ideal cryptography: a hash is what
it is taken of, a signature is made by one signer for one receipt. Both are functions; MCExecute
applies them to raw submissions, most of which are rejected, and Execute runs
on what is left. **Execute** is the batch:
`Begin` takes the journal checkpoint, `Apply` performs one operation, `Commit` and
`Revert` end the call. `Revert` is possible at any time, which covers an operation
that fails, a fatal error, an empty batch, and a revert of the frame that encloses
the call. Payment parameters and base fee are functions of the block. Calls are
sequential, as in the EVM.

**Registry** is the abstract specification: live entities and query answers that are
a function of them, calls that are one step and do only what their caller may.
`ImplementsRegistry` maps the committed state onto it, answers read through the
query path (bitmap, then ID map).

**ProtocolSchedule** has one poller per node, with the service, its caches and the
chain as environment. `fs::write` is two steps, truncation and content, and either
may be the last before a crash. A stale cache may answer with any document that was
ever published (`FetchStale`). `unsaved` is a history variable for one property.
The default file has version 1. The fallback of `selected_entries` to the first
entry is kept although no valid document needs it (its first entry is at block 0).
**FeeMarket** is the arithmetic of `helpers.rs` (next base fee, next gas limit) with its
truncations and the widths of its products; ScheduleProps applies it to the entry that each node
reads, which is always the latest one.

**IndexTree** is the radix tree with its four node kinds, their capacities as
constants, and `Reloaded`, what encoding and decoding make of a tree: the two
actions insert or remove a value and reload, as the handlers do on each access.
`insert_node`, `remove_node`, `collect_all` and the encoding recurse over nodes: recursive functions
over `Nodes`, the trees by their height, which `MaxLength`, the length of the longest value,
bounds. **IndexTreeProps** has the promises of an ordered set, **IndexTreeShape** what the
shape of a tree says of its history: `Canonical`, the tree of a set of values, and `Tidied`, a tree without the
two traces of its history, are recursive functions too.

**Query** and **QueryEval** are the interpreter over the indexes of `Execute`, with a range
or prefix scan as the set of values it admits, and the meaning of a query for an entity; `eval` recurses over
the trees of **QueryTree**, which are built from the constant `Leaves` with up to `Nesting` levels of
connectives. **QueryLexer** cuts a text into
tokens character by character, next to a reading of it as words, and **QueryParser** is
the recursive descent from tokens to trees, next to the grammar that heads `parser.rs`, written
as the set of trees that derive each span of a sequence of tokens. The calls of the descent
go to tokens further on, so what `parse_or` finds is a recursive function over positions (`Groups`). A value list
is the set of its values, as no answer depends on their order. **QueryReader** is `parse`, the two in turn,
text by text. Byte order and prefixes are parameters.
**QueryPages** is `arkiv_query` as seen by a client that walks through pages: the committed blocks are
abstract states (`hits` of the query and IDs that are `live`). A block carries any operations: what they can
make of a state (`After`) is that new IDs follow the old ones and that an ID which is gone stays gone and
stays in whatever bitmaps it was left in. The client asks, answers arrive or are lost, the walk is at the
head or pinned to a block. There are no reorganisations.

**Simulator** is the load generator: a driver that promotes what has expired, picks an idle
signer and builds a batch under the lock of the pool, and one task per signer that submits, waits
for the receipt and writes its outcome back. The chain under it is reduced to owners and
expiries and the rules by which a batch runs or reverts. The driver picks its slot and reads the
block number before it takes the lock, so `Build` may use any block up to the head; a receipt may be
lost although the batch ran. A plan that `build_batch` gives up leaves its EXPIRE candidates reserved;
`dropped` is the history variable that holds them. `inline` is FALSE for this repository's node, which
rejects every CREATE of the generator, and TRUE for one that takes payloads inline.

Definitions named *Faulty variant* in comments are plausible bugs. They are used by no
specification; each shows that the property named with it in `PROJECT.json` notices it.

## 3. Runs

| Run | What it asks | Size |
|---|---|---|
| `indexes` | IDs, bitmaps, trees, keys and their reuse over all histories of two accounts, aliases, attribute lists that mix flavours | 709 k states |
| `ownership` | batches of two operations with their payments: rights, expiry, events, references, balances, refinement of Registry | 562 k |
| `index_walk` | one-step handlers against the loops | 945 k |
| `query` | scans and nested queries, read from text, against the entities; lexer against words, parser against grammar | 320 k |
| `query_pages` | page walks against blocks of any operations and lost answers; walks end | 1.96 M |
| `schedule` | seven safety properties of polling, gating, files, crashes; fees under the schedule; convergence | 695 k |
| `tree` | all node kinds both ways, paths split, shared and merged; order, count, shape | 44 k |
| `simulate` | parallel batches against blocks, reverts, refusals and lost receipts | 1.66 M |

Why the bounds are enough. *Entities*: two accounts with one or two nonces give
another's entity, one's own, and one already deleted whose address has been minted;
the third value of every comparison is there. In `indexes` no reference or parameter tells the two
callers apart, so the run takes them as interchangeable (`CallerSymmetry`). *Attributes*: names and words of two bytes, values of
two words. `x` is flagged either way
by different lists, `y` always ordered, `z` carried in both flavours by one list: the
three cases of `StablePairs` and `OrderedPairs`. Eleven more lists have a name or value that
must not pass: a zero or a capital inside, a digit or dollar in front, an unknown type, bytes in unused words,
a zero inside a string, three kinds of broken UTF-8. *Blocks*: expiries before, at and
after the current block, and one that saturates (`MaxHeight`) and one that the event
clips (`MaxU32`). *Batches* of two: something done, then anything. *Payment*: one
reference below the minimum, one with an outside provider, one with a caller as
provider, eleven wei against prices of four and six, so that a second payment may be one too many.
Around each reference that passes, twelve that are altered in one field or in their signature;
others are signed by somebody else in the provider's name, by an untrusted signer, by the development
signer on another chain, or have a nonce or payment of zero. *Schedule*: two nodes, two further releases,
two blocks, one crash: a node that lags, one that restarts, a document superseded
while it is being written. *Fees*: a word of 2^15 and the code's divisor 1024, with twelve headers:
usage at, next to and far from the target, fees for which a step truncates to nothing and
others, limits that cannot move, that can, and whose sum overflows. *Trees*: the capacities 4/16/48/256
become 2/3/5/7, which
keeps their order and lets a node pass through all four kinds; `tree` sets Node48's capacity to 4, one
above Node16's, so that a removal from a Node48 always leaves it, and does not use the
last byte: the two defects of Node48 (below) do not occur there and the rest is checked.
*Queries*: eleven texts that use every way of reading the indexes, with connectives nested up to three
deep (`Nesting`), and the leaves that occur in them (`Leaves`); for lexer and parser 1,556
texts: every name, operator and kind of literal, all groupings of two connectives, each
grouping with any word, and some with any character, left out or said twice, with blanks and
without, escapes and literals at their limits. Texts are read in the first state only (`ReadsAndCalls`), since
what is made of them does not depend on the state. An address has one hexadecimal digit, a key two, and the largest
number is 19. Globs have prefixes that are empty, proper or no prefix of any name (`MCHasPrefix`). *Pages*: pages of one,
three IDs, two blocks after the first, each with any operations: an ID that appears, one that vanishes and one that stays,
and a page boundary between any two of them. *Simulator*: two signers (which
are interchangeable, hence the symmetry), batches of up to two operations, three
entities, a cap of one, two blocks, one lost receipt: a candidate that expires while a batch
in flight names it, two CREATEs that do not see each other, a batch that reverts because its block
is later than the one it was built for. UPDATE, which changes nothing that the generator
keeps, is left out of the run's `Kinds`.

The state bounds `MaxEntities`, `MaxBlock`, `MaxBatch`, `MaxHead`, `MaxIds`,
`MaxReleases`, `MaxCrashes`, `MaxKeys`, `MaxExpiry`, `MaxLost` only cut behaviours short; `MaxNonce`, `MaxHeight` and
`MaxU32` stand for the integer limits of the code.

`CHECK_DEADLOCK FALSE` is set in `index_walk` (a handler ends), `doc_tree_last_byte`
(values run out) and `simulate` (the bounds on keys, blocks and expiries end it); everywhere else
something can always happen.

Fairness. The precompile and the simulator have none: nothing there must happen. `schedule` assumes
that operators restart a node that is down, that the poller's loop goes on (WF on what
follows a fetched document), and that fetches of the present document succeed again
and again (SF); it assumes neither blocks nor successful writes nor further
publications. `query_pages` assumes that the node answers requests and the client
asks again (WF) and that not every answer is lost (SF on Receive).

### Disagreements found

Runs with the expectation `violation` state what a comment or document says and show
the sequence of steps on which the code does something else. `PROJECT.json` quotes both.

* `doc_tree_slots`, `doc_tree_last_byte`: two defects of the ordered index. A Node48
  that has lost a child is written without its last slot, and growth from Node48 to
  Node256 drops the child of byte 0xFF. Values in use vanish from range queries.
* `doc_last_good`: a node has accepted a document and stored it; the next poll rewrites the file in place, the
  process ends inside that write, and the next one runs the compiled defaults (`LastGoodSurvives`,
  with the history variable `kept` of `HistorySpec`).
* `doc_tier2`: a value that an ATTR_ENTITY_KEY attribute of the same bytes used first is
  never ordered, and range queries miss its entity.

TLC refutes further statements of documents and comments, which no run repeats. They are
stated in the modules, and naming one in a configuration shows its counterexample:

* in **DocClaims**, with the constants of `DocTier2.cfg`: `ExpireOnlyAfterExpiry` (EXPIRE is
  allowed at the expiry block), `TreeMirrorsBitmaps` (built-in names have no tree),
  `CarriedPairsFound` (an UPDATE that drops one of two attributes of the same bytes clears
  the bitmap entry of the other), `DeleteClearsEveryBitmap` (a deletion under an alias leaves
  the ID in the `$key` bitmap of the stored key);
* in **ScheduleDocClaims**, with those of `DocLastGood.cfg`: `FeesFollowActivation` (fees of a
  lagging node use an entry that is not yet in force), `DefaultsAgree` (the default file and
  the compiled defaults differ); `Converges` fails with `FromZeroDocuments` (a service that
  numbers from 0 is rejected after a restart on the default file);
* `EncodingIsCanonical` of **IndexTreeShape**, with those of either tree run: the encoding depends
  on the history of a tree, in the slots of a Node48 and in nodes that could be leaves;
* `AnswersNameTheirBlock` of **QueryPagesProps**: an answer can name the block before the one
  whose state it shows.

Seen while reading:

* The simulator builds its CREATEs with plain content types, which this precompile
  rejects (`PayloadReferenceRequired`), so its pool never fills against this node (`inline` FALSE).
  `--max-alive` is described as a cap (`simulate.rs:79`), and parallel batches exceed it
  (`OvershootBounded` says by how much). When nothing more is feasible, the batch builder drops the whole plan
  and the EXPIRE candidates that it has drawn stay reserved for good (`simulate.rs:272-280`), where the comment on
  the reservations has them "reserved by an in-flight batch; returned to `expired` on failure" (`simulate.rs:177-179`): no
  batch will name such an entity again. `OnlyDroppedPlansForget` says that this is the only way to forget one.
  `build_op` says
  that it marks its entity as pending, but the marks are set once the batch is
  complete, so one batch may name an entity twice and revert of itself. After a lost receipt of an EXPIRE or
  DELETE a key stays behind that makes later batches revert.
* `decode_entity_key_string` promises "32 raw bytes" (`query/parser.rs:470-471`). It takes one `0x` off and counts 64
  characters; `hex::decode` takes another one off, so a key that begins with `0x0x` is read as 31 bytes, with
  which no entity is found, where other texts of a wrong length are errors (`DecodeEntityKeyString`).
* The lexer's documentation gives identifiers as letters and numbers of Unicode (`\p{L}`,
  `\p{N}`); the code uses `is_alphabetic` and `is_alphanumeric`, which admit more. The names that
  `validate_ident32` admits include ones with `.` or `-` and the words `and`, `or`, `not`,
  `in`, which the lexer does not read as one identifier: such attributes are indexed and
  cannot be named in a query.
* `entitydb/src/lib.rs:86` says that the precompile keeps zero bytes out of keys and values, because one
  separates them in the preimage of a pair's address. Numbers and entity keys do hold zeros and are not
  rejected. Pairs stay distinct all the same, since names hold none (`PairsHaveAccountsOfTheirOwn`).
* A signed receipt does not cover the content type that the reference names.
* A parent gas limit below 2,048 can no longer move, and a base fee below the denominator
  can no longer fall. A schedule may set a denominator near 2^64 and above (`validate` admits
  any u128), with which the product in the update term could wrap; `Fits` of FeeMarket excludes that.

## 4. Proofs

TLAPS checks all of them from the assumptions that the modules name (`ASSUME`): numbers
are naturals, user attributes do not share a pair with built-in ones, the sentinels are
no ordinary values. TLC evaluates the same assumptions in every run.

* **EntityDbProofs**: each handler, from any state in which the database invariants hold,
  leads to one in which they hold, provided that a CREATE finds its address empty.
  The diff of UPDATE needs the lemmas on first occurrences (`Firsts`) of a pair.
* **IndexWalkProofs**: the walks of the code, one index call at a time, end in the bitmaps and trees
  of EntityDb's single steps (`WalksEndInHandlers`). The invariant says that the calls still to
  be made lead from the one pair of indexes to the other; that it holds once a handler has listed its
  calls rests on a closed form of the indexes after the first n annotations of a list: which pairs are touched, and
  which of them were first touched by an ordered annotation. Diffs are filtered lists, so the form
  is relative to a set of annotations.
* **ExecuteProofs**, first the operations: what EntityDbProofs says of the handlers for each operation, with the nonce argument that gives
  a CREATE its empty address: every stored entity sits below its minter's nonce. And what the input
  checks are for, for names and values of any width: no accepted name is a built-in one (which
  EntityDb assumes of user pairs), conversion loses nothing, distinct pairs hash distinct
  bytes, and an accepted reference is worth what a trusted provider has signed. The last rests on
  ideal signatures.
  Then the calls: `Spec => []IInv`. The invariants are not inductive alone, because a
  revert puts back the checkpoint: `IInv` says of the checkpoint what it says of the
  state (`CheckpointInv`), and carries through the call what the call may not do to the
  state it started from (`CallProgress`). From it: `TypeOK`, `IdMapsInverse`, `BitmapsSound`,
  `BitmapsComplete`, `TreesExact`, `MintedOnce`, `OthersUntouched`, `ExpiredIsFinal`,
  `BurnNeverFails`, `DeletedForever`, `IdsNeverReused`.
  A second invariant, `AccountInv`, keeps account of what the call has told, minted and paid since its
  checkpoint: there is a sequence of views that leads from the checkpoint to the present, each by one
  event of the log (`CallTold`); every nonce taken goes with a used reference nonce that a trusted
  provider has signed, in the state and in the checkpoint (`MintsCovered`); and the
  balances differ from the checkpoint's by the sums of cost and shares over the references
  spent since (`CallLedger`). From it: `EventsTellTheCall`, `MintsSpendReferences`, `LedgerBalances`.
  The ledger needs that a nonce fixes payment and provider, which follows from
  `SignedAssumption` (a trusted provider puts a nonce of its own on every receipt) and
  `ReferencesAssumption` (references come out of the validation of submissions, and nobody
  submits a signature that its signer has not made) by `ReceiptsAuthorise`; no assumption on prices is made.
  Execute implements Registry. Steps inside a call stutter; `Commit`
  is a `Call`, which follows from `CallProgress`; answers are a function of the live entities by
  `BitmapsSound` and `BitmapsComplete`.
  Of the query path: in every reachable state `$all` yields the live entities, equalities and
  their complements the carriers of a pair, scans the carriers of the admitted values, and any nested
  query the live entities for which it holds (`QueriesStayExact`), for every set of leaves and every depth.
  The argument is that the bitmap of a tree holds a live entity's own ID exactly if the tree holds for the entity; the
  IDs that aliased deletes leave behind do not resolve, negated or not, so nothing is claimed of them.
  `eval` and the meaning are recursive functions over the trees: that each has a
  value at every tree, and induction over trees, come from the levels of connectives by smallest
  counterexamples (`TreeRecursion`, `TreeInduction`). `LessAssumption` says that byte
  order is total on the values of a name, `LeavesAssumption` what a leaf is. Leaves that look at a pair which
  attribute lists carry in both flavours are excluded (`AnswerableLeaves`), because of what `doc_tier2` shows.
* **FoldProofs**: what these need of recursion. A recursion over numbers has one solution, and
  the sums of the community modules take out any element first, grow with their terms and are
  bounded by them. The inductions are made of smallest counterexamples, which need no operator parameter.
* **ScheduleProofs**: `IInv` joins the types with what the service has ever published, what
  each step of the poller holds in hand, and what a file means for a restart. From it the
  seven safety properties of the schedule, and `FeesFollowDemand`. For the latter, a part on FeeMarket:
  for all headers and all parameters that a document can carry, as long as nothing overflows
  (`Fits`): the base fee keeps its floor, rises after a block above the target and falls by at most
  one part in the denominator; the gas limit goes towards its goal, by less than a 1024th. The
  steps are bounds on quotients of products, each a lemma over constants.
* **QueryProofs**, first the pages: pages descend, what stays is found, a pinned walk is exact, for chains of any
  length and pages of any size. The invariant relates the cursor to the IDs passed (each was on a page or did
  not match when its page was evaluated) and the answer under way to a block between two
  moments of the walk. A page is the top of a set by rank; that such a set exists comes from minimal counterexamples
  (well-founded order), not from induction.

  Then the parser: for every sequence of tokens it builds the trees that the grammar derives, and no others
  (`ParserIsGrammar`). The only hypothesis, `Legible`, says what a sequence of tokens is. Predicates are found where the
  grammar has them (`PredicateAgrees`). A connective is a loop in the code, whose rounds take the tree
  built so far as their left side, and a split at one of its occurrences in the grammar. What a loop finds is
  derived (`LoopFindsTrees`); what is derived from its tokens it finds, unless the same connective follows
  (`LoopFindsAll`); in between, an operand may end early, and the loop of the other connective goes on. Brackets are
  read ahead of what is behind them, so all this is shown for the last positions first (`GroupsFind`). Both sides
  recur over data, the code over positions and the grammar over spans: that each is the solution of its equations
  (`GroupsUnfold`, `DerivedUnfold`), and the inductions, come from smallest counterexamples again.
  That the grammar gives no sequence of tokens two trees (`GrammarIsUnambiguous`) is seen from the parser, which never has
  a choice; it does not show in the grammar, which splits at any connective.
  `ParsingFollowsGrammar` carries the result over to texts: those that the lexer cuts into the tokens of
  their words (`TokensAreWords`, which is checked) are read as the grammar reads them.

* **SimulatorProofs**: `PoolInv`: an entity is in one place of the pool at a time, what a batch names is
  marked or reserved as long as the batch is in flight, and the keys that receipts will bring are new. A batch
  recorded or given up is a recursion over its operations that stays in a set of pools
  (`PoolRecords`). From it: `ReservationsExclusive`. `MirrorInv` adds what a batch does
  on the chain. Between its run and its receipt the pool is behind, so neither
  `PoolMirrorsChain` nor `OnlyDroppedPlansForget` is inductive; the invariant speaks of the pool as the receipt will
  leave it (`Settled`: `Outcome` agrees with the chain on all that the batch touches). A batch run establishes
  it: chain and pool take the operations one by one and stay in step (`Synced`, `RunSyncs`),
  the pool using up the keys in the order the chain gave them out. The other batches preserve it, as they touch
  other entities (`TouchedApart`) and an outcome depends on nothing else (`OutcomeLocal`). From it:
  both properties. The second one is exact about the plans that are given up: what they had drawn (`dropped`) is in
  none of the places from which an entity can come back. `CapInv` is `OvershootBounded` with the limit of each batch: a batch that creates
  anything fits under the cap by itself, and each of the others adds at most `Min({MaxOps, MaxAlive})`. A batch
  recorded adds no more than its CREATEs (`OutcomeGrows`). TLC has checked these invariants on the constants of
  `simulate`.

* **IndexTreeProofs**: the index tree is an ordered set. The invariant (`Kept`) says that the tree fits: every
  inner node is sound (its bytes lead to children of their own, in order, its count is right, and no slot of a
  Node48 is taken without a byte) and shapely (its kind is that for its number of children, and it has fewer
  than two only if a value ends there); that the bytes along a path fit a value; and that the words below the
  root are the values in use, of which `count` is the number. Each change of a node (`add_ch`, `del_ch`, the
  four changes of kind, a new prefix) is a lemma on which bytes lead where; what a tree holds and what
  `insert_node`, `remove_node` and storing make of it follow by smallest counterexamples over the bytes that
  are left below a node. That no value contains the last byte (`NoMark`) is assumed throughout, as
  `doc_tree_last_byte` shows what happens otherwise; UTF-8 text contains none, a number may. Storing is the one
  place where a tree of such values goes wrong: a Node48 with a hole is written without its last children, which
  `doc_tree_slots` shows. So `ValuesInOrder`, `CountExact` and `ShapeIsCanonical` are proved where no tree gets a
  hole, by a condition on constants and never on what the steps do. They hold of trees that only grow, and of those
  whose Node48 has room for one child more than a Node16, as in the run `tree` (`PackedTreeInOrder`,
  `PackedTreeCounts`, `PackedTreeShape`). And, for any capacities, the code's included, and whatever is
  removed, they hold if the values are narrow, that is, go on with no more bytes than a Node16 holds after any prefix
  (`NarrowTreeInOrder`, `NarrowTreeCounts`, `NarrowTreeShape`): text in decimal or lower-case hexadecimal digits, say. A
  shapely tree of such words has no Node48 (`NarrowFits`). Of other values, once some are removed, nothing is
  proved, as it would be false.

  Shape: the words of a shapely node tell it. Two children, or one and a value that ends there, leave no
  longer common prefix (`LongestFound`), so the words determine the node's prefix, its bytes, whether a value ends
  there and what lies beyond each byte (`NodeTells`). Tidied, such a node is the regular one over its tidied
  children, whatever its kind (`NodeTidies`); `Canonical` builds the same one from the words
  (`CanonicalTold`). So a tree that fits and the canonical tree of its words agree once the former is tidied, by a
  smallest counterexample over the bytes left (`TidiedIs`). That nodes stay shapely rests on the order of the changes
  in the code: growth before the child that would not fit, shrinking right after the child that leaves, merging right
  after that, and a split that leaves two children, or one and a value.

Only model-checked: the lexer (`TokensAreWords`), as strings have no characters for the prover; liveness
(`Converges`, `WalksEnd`), which is out of its reach.


## 5. Not modelled

* *Gas metering*: running out of gas ends a call, which is `Revert` at any time; what operations cost is
  a formula without state.
* *ABI and JSON decoding*, the formatting of RPC answers, logs and error texts: conversions without
  decisions. What is decided on the decoded fields is in OperationInput and PayloadReference.
* *The EVM*: how the precompile is registered and how the journal keeps checkpoints is revm's; Execute
  assumes that a checkpoint restores everything.
* *Reorganisations*: the chain of QueryPages only grows. Which block a provider calls the head is reth's decision.
* *ProtocolSchedule and Execute together*: the precompile reads the payment parameters per operation
  from a schedule that the poller may replace in the middle of a block (`precompile.rs:943`). Execute
  takes parameters as a function of the block. `GateKeepsThePast` bounds which replacements can
  change the parameters of a block already begun; what follows for two nodes that execute one
  block is open.
* *A fatal error at the last nonce*: no CREATE is possible there in the model and the call reverts; that the code
  ends the block with an error instead is not told apart.
* *Simulator*: weights, counters, reports, arguments and the drain at the end; a batch that runs only
  after its receipt was given up.
* `getEntityCount`, `getBlockTiming`, the contract's `nonces()` view: they read one value each.
* *CLI commands, genesis, node wiring*: one-shot or constant; their effect is an action's parameter or
  part of `Init`. *Vendored code* apart from the two files of `eip1559` above, *tests, containers, scripts*: not
  part of the running system.
