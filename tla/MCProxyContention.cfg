SPECIFICATION FairSpec
CONSTANTS
  NoConn = NoConn
  r1 = r1
  r2 = r2
  p1 = p1
  p2 = p2
  Conns <- TwoConns
  Requested <- GetAndCreate
  Projects <- OneProject
  MaxRepeats = 0
  MaxConcurrency = 1
  TTL = 1
  FetchTime = 1
  MaxVersion = 1
  MaxTime = 1
INVARIANTS
  LockBeforeSlot
  CreateAnswersAreHonest
  SlotsBoundRequests
PROPERTIES
  EveryRequestIsAnswered
