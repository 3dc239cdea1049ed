SPECIFICATION FairProjectsSpec
CONSTANTS
  p1 = p1
  p2 = p2
  p3 = p3
  p4 = p4
  Items <- FourItems
  PageSize = 2
  MaxShifts = 2
INVARIANTS
  EachProjectOnce
  EachLossExplained
PROPERTY LoopEnds
