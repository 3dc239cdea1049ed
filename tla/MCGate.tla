------------------------------- MODULE MCGate -------------------------------
EXTENDS GateRefinement

CONSTANTS c1, c2, c3, c4

FourCallers == {c1, c2, c3, c4}
=============================================================================
