----------------------------- MODULE KnownStates ----------------------------
(***************************************************************************)
(* What GetOrFetch promises its callers, without the lock, the clock and   *)
(* the map: per project there is one known version of the resolved states, *)
(* which only ever moves to what YouTrack has since become; a caller is    *)
(* given the known version at some moment of its call, and the empty set   *)
(* (version 0) only if nothing was ever learned about the project.         *)
(***************************************************************************)
EXTENDS Naturals

CONSTANTS Callers, Projects,
          Versions   \* versions of a project's resolved states, from 1 on

VARIABLES known,    \* the version known of each project
          asking,   \* callers whose call has not returned
          about,    \* the project each caller asked about
          given     \* the version each caller was given

vars == <<known, asking, about, given>>

Init ==
  /\ known = [p \in Projects |-> 0]
  /\ asking = {}
  /\ about \in [Callers -> Projects]
  /\ given = [c \in Callers |-> 0]

Ask(c, p) ==
  /\ c \notin asking
  /\ asking' = asking \cup {c}
  /\ about' = [about EXCEPT ![c] = p]
  /\ given' = [given EXCEPT ![c] = 0]
  /\ UNCHANGED known

(* c is given what is known. *)
Give(c) ==
  /\ c \in asking
  /\ asking' = asking \ {c}
  /\ given' = [given EXCEPT ![c] = known[about[c]]]
  /\ UNCHANGED <<known, about>>

(* c learns version v from YouTrack, never an older one than is known. *)
Learn(c, v) ==
  /\ c \in asking
  /\ v >= known[about[c]]
  /\ known' = [known EXCEPT ![about[c]] = v]
  /\ asking' = asking \ {c}
  /\ given' = [given EXCEPT ![c] = v]
  /\ UNCHANGED about

Next ==
  \E c \in Callers : \/ \E p \in Projects : Ask(c, p)
                     \/ Give(c)
                     \/ \E v \in Versions : Learn(c, v)

Safety == Init /\ [][Next]_vars
=============================================================================
