SPECIFICATION Spec
CONSTANTS
  NoConn = NoConn
  r1 = r1
  r2 = r2
  p1 = p1
  p2 = p2
  Conns <- OneConn
  Requested <- SearchOnly
  Projects <- OneProject
  MaxRepeats = 0
  MaxConcurrency = 1
  TTL = 1
  FetchTime = 1
  MaxVersion = 1
  MaxTime = 0
INVARIANTS
  MissingIsEmptyInSearch
