-------------------------- MODULE CacheRefinement ---------------------------
(***************************************************************************)
(* The cache implements KnownStates: what is known of a project is the     *)
(* version in its map entry, fresh or expired.                             *)
(***************************************************************************)
EXTENDS ResolvedCache

KnownVersion == [p \in Projects |-> entries[p].version]
InCall == {c \in Callers : pc[c] # "idle"}

Known == INSTANCE KnownStates
           WITH known <- KnownVersion, asking <- InCall, about <- proj, given <- ans

(* Whatever the interleaving of checks, locks, fetches, failures and       *)
(* changes in YouTrack, callers see one register per project that never    *)
(* goes back to an older version and is never emptied by a failed fetch.   *)
ImplementsKnownStates == Known!Safety
=============================================================================
