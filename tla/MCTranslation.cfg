SPECIFICATION Spec
CONSTANTS
  A = A
  B = B
  C = C
  Projects <- MCProjects
  Bundles = {"shared", "own"}
  BundleOf <- MCBundleOf
  StateNames = {"open", "fixed"}
  NewStates = {"open"}
  States = {"open", "waiting", "fixed", "verified"}
  Resolved = {"fixed", "verified"}
  Others = {"waiting"}
  Top = 4
  MaxChanges = 5
  Times = {1, 2}
  Logins = {"ann", "bob"}
  Asks = {1, 2, 3}
  MaxActivities = 5
  Fragments <- MCFragments
  MaxFragments = 5
  MaxWritten = 4
  YouTrackIssues <- MCIssues
SYMMETRY SharingSymmetry
INVARIANTS
  OthersOnlyAddDone
  DatesAreRight
  PageIsPartitioned
  NothingSkipped
  ParenthesesDecide
  QueriesAreAnswered
