SPECIFICATION PagingSpec
CONSTANTS
  i1 = i1
  i2 = i2
  i3 = i3
  i4 = i4
  Items <- FourItems
  PageSize = 2
  Cap = 2
  MaxAsk = 3
SYMMETRY IssueSymmetry
INVARIANTS
  CountIsBetween
  NoGapsNoRepeats
  SyncIsComplete
