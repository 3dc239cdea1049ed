---------------------------- MODULE MCBoardSync ----------------------------
(* Fields of a few values, and projects at their ends: the first of all,   *)
(* two that differ in each field, and one whose ID does not fit.           *)
EXTENDS BoardSync

MCProjects == {BaseId(0, 0), BaseId(1, 0), BaseId(1, 3), BaseId(0, 4)}
MCAsks == {1, 2, MaxInt - 1, MaxInt}
=============================================================================
