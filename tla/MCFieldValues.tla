--------------------------- MODULE MCFieldValues ---------------------------
(* Two projects, and three values of which one fits no number. *)
EXTENDS FieldValues, TLC

CONSTANTS home, other, m, n

MCProjects == {home, other}
MCNames == {m, n}
NameSymmetry == Permutations(MCNames)
MCValues == {BaseId(0, 1), BaseId(1, 0), BaseId(0, 2)}
=============================================================================
