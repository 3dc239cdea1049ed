--------------------------- MODULE MCSearchPaging ---------------------------
EXTENDS SearchPaging, TLC

CONSTANTS i1, i2, i3, i4

FourItems == {i1, i2, i3, i4}
IssueSymmetry == Permutations(Items)
=============================================================================
