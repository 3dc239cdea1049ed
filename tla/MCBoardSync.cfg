SPECIFICATION BoardSpec
CONSTANTS
  BaseTypes = 2
  BaseSeqs = 4
  ActTypes = 1
  ActSeqs = 2
  Cats = 2
  Events = 2
  MaxNames = 4
  MaxInt = 7
  ProjectIds <- MCProjects
  Asks <- MCAsks
INVARIANTS ListingIsComplete BoardLeadsToProject
