--------------------------- MODULE GateRefinement ---------------------------
(***************************************************************************)
(* The gate implements BoundedCalls: a caller is asking while it is inside *)
(* acquireSemaphore and calling while it holds the slot it was given.      *)
(***************************************************************************)
EXTENDS Gate

Asking == {c \in Callers : slot[c] \in Waiting}
Calling == {c \in Callers : slot[c] = "held"}

Bounded == INSTANCE BoundedCalls WITH asking <- Asking, calling <- Calling

(* Every behaviour of acquireSemaphore and release is one of a counter     *)
(* that admits at most MaxConcurrency calls and forgets nobody.            *)
ImplementsBoundedCalls == Bounded!Spec
=============================================================================
