SPECIFICATION FairSpec
CONSTANTS
  MaxHead = 2
  MaxIds = 3
  PageSize = 1
  Latest = Latest
  NoCursor = NoCursor
INVARIANTS
  NewestFirst
  StableEntitiesFound
  PinnedWalkIsExact
PROPERTIES
  WalksEnd
