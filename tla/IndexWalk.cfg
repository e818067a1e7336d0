SPECIFICATION Spec
CONSTANTS
  x = x
  NoEntity = NoEntity
  NoAddr = NoAddr
  DerivedTail = derived
  UserPairs <- MCUserPairs
  Accounts = {alice, bob}
  MaxNonce = 1
  MaxEntities = 2
  Tails = {derived}
  ContentTypes = {text}
  AttrLists <- MCAttrLists
  MaxHeight = 2
  Expiries = {1, 2}
INVARIANT WalkMatchesHandler
CHECK_DEADLOCK FALSE
