--------------------------- MODULE MCProjectList ----------------------------
EXTENDS ProjectList

CONSTANTS p1, p2, p3, p4

FourItems == {p1, p2, p3, p4}
=============================================================================
