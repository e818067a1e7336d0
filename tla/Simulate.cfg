SPECIFICATION Spec
CONSTANTS
  Signers = {s1, s2}
  s1 = s1
  s2 = s2
  MaxOps = 2
  MaxAlive = 1
  Kinds = {"CREATE","EXTEND","TRANSFER","DELETE"}
  Lifespans = {1, 2}
  Bumps = {1}
  MaxKeys = 3
  MaxHeight = 2
  MaxExpiry = 3
  MaxLost = 1
  NoKey = NoKey
  NoEntry = NoEntry
  NoPlan = NoPlan
SYMMETRY SignerSymmetry
INVARIANTS
  ReservationsExclusive
  PoolMirrorsChain
  OnlyDroppedPlansForget
  OvershootBounded
CHECK_DEADLOCK FALSE
