SPECIFICATION Spec
CONSTANTS
  MaxPushes = 4
  MaxDays = 2
  MaxReruns = 1
  MaxTags = 1
  MaxDeletions = 1
INVARIANTS TagsMatchImages NumberedWithoutGaps
PROPERTIES LatestFollowsMain EveryRunEnds
CHECK_DEADLOCK FALSE
