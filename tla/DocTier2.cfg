SPECIFICATION Spec
CONSTANTS
  alice = alice
  bob = bob
  dave = dave
  x = x
  y = y
  z = z
  text = text
  json = json
  zero = zero
  derived = derived
  other = other
  NoEntity = NoEntity
  NoAddr = NoAddr
  NoCall = NoCall
  ZeroAddress = zero
  DerivedTail = derived
  UserPairs <- MCUserPairs
  Accounts = {alice}
  Providers = {dave}
  MaxNonce = 2
  MaxEntities = 2
  Tails = {derived, other}
  ContentTypes = {text, json}
  AttrLists <- MixedLists
  References <- TwoReferences
  Btls = {0, 1, 2}
  MaxHeight = 2
  MaxU32 = 2
  PaymentParams <- NoPayment
  BaseFee <- FreeBlocks
  mallory = mallory
  dev = dev
  NameBytes = 2
  WordBytes = 2
  ValueBytes = 4
  WellFormed = {"id", "space", "sum", "noon", text, json}
  TrustedSigners = {dave}
  DevSigners = {dev}
  OnDevChain = FALSE
  Submitted <- TwoSubmitted
  Signed <- TwoReceipts
  InitialBalance = 0
  MaxBlock = 1
  MaxBatch = 2
INVARIANTS
  OrderedValuesFound
