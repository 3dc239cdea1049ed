-------------------------- MODULE MCResolvedCache ---------------------------
EXTENDS CacheRefinement

CONSTANTS c1, c2, p1, p2

TwoCallers == {c1, c2}
TwoProjects == {p1, p2}
=============================================================================
