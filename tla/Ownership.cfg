SPECIFICATION Spec
CONSTANTS
  alice = alice
  bob = bob
  dave = dave
  x = x
  y = y
  z = z
  text = text
  json = json
  zero = zero
  derived = derived
  other = other
  NoEntity = NoEntity
  NoAddr = NoAddr
  NoCall = NoCall
  ZeroAddress = zero
  DerivedTail = derived
  UserPairs <- MCUserPairs
  Accounts = {alice, bob}
  Providers = {dave, bob}
  MaxNonce = 2
  MaxEntities = 2
  Tails = {derived, other}
  ContentTypes = {text, json}
  AttrLists <- NoLists
  References <- PaidReferences
  Btls = {0, 1, 2}
  MaxHeight = 2
  MaxU32 = 1
  PaymentParams <- SplitPayment
  BaseFee <- TwoWeiBlocks
  mallory = mallory
  dev = dev
  NameBytes = 2
  WordBytes = 2
  ValueBytes = 4
  WellFormed = {"id", "space", "sum", "noon", text, json}
  TrustedSigners = {dave, bob}
  DevSigners = {dev}
  OnDevChain = FALSE
  Submitted <- PaidSubmitted
  Signed <- PaidReceipts
  InitialBalance = 11
  MaxBlock = 1
  MaxBatch = 2
INVARIANTS
  TypeOK
  OthersUntouched
  ExpiredIsFinal
  EventsTellTheCall
  BurnNeverFails
  MintsSpendReferences
PROPERTIES
  LedgerBalances
  ImplementsRegistry
