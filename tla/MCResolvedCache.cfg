SPECIFICATION FairCacheSpec
CONSTANTS
  NoCaller = NoCaller
  c1 = c1
  c2 = c2
  p1 = p1
  p2 = p2
  Callers <- TwoCallers
  Projects <- TwoProjects
  TTL = 2
  FetchTime = 1
  MaxVersion = 2
  MaxTime = 4
INVARIANTS
  CacheTypeOK
  WriterExcludesAll
PROPERTIES
  OneRefreshPerTTL
  HitsAreRecent
  ImplementsKnownStates
  EveryCallReturns
