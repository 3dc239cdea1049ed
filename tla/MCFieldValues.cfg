SPECIFICATION Spec
CONSTANTS
  home = home
  other = other
  NoValue = NoValue
  BaseTypes = 2
  BaseSeqs = 2
  ActTypes = 1
  ActSeqs = 2
  Cats = 2
  Events = 1
  Projects <- MCProjects
  Home = home
  Values <- MCValues
  m = m
  n = n
  Names <- MCNames
SYMMETRY NameSymmetry
INVARIANTS
  IdsStandForOneValue
  IssueValueIsListed
