--------------------------- MODULE MCTranslation ----------------------------
(***************************************************************************)
(* What the service package translates between Jira and YouTrack: of       *)
(* issues the status (Statuses), the resolution date (Resolution) and the  *)
(* changelog (Changelog), and JQL.  Each translation is made anew from     *)
(* what YouTrack or the client has just sent, so these four share no       *)
(* state: a behaviour is one of one of them, and the others stay where     *)
(* they begin.                                                             *)
(***************************************************************************)
EXTENDS Statuses, Resolution, Changelog, Grammar, TLC

CONSTANTS A, B, C

VARIABLE part  \* which of the four it is

(* Three projects, two of which share a bundle; one state of the table of  *)
(* names and one that is not in it.                                        *)
MCProjects == {A, B, C}
MCBundleOf == [p \in MCProjects |-> IF p = C THEN "own" ELSE "shared"]
SharingSymmetry == Permutations({A, B})

(* Each clause, two of those that may differ, and whole lists beside the   *)
(* parts of lists.                                                         *)
InList == <<In, Open>>
MCFragments ==
  {<<Token(k, 0)>> : k \in {"(", ")", "and", "or"}}
    \cup {<<Token(k, 2)>> : k \in {"project", "created", "updated", "filter"}}
    \cup {<<Token(k, 1)>> : k \in {"project", "order by", "key"}}
    \cup {InList, InList \o <<Token("key", 2), Close>>}
MCIssues == [project : {1, 2}, created : {1, 2}, updated : {1, 2}, key : {1, 2}]

-----------------------------------------------------------------------------
Init ==
  /\ part \in {"statuses", "resolution", "changelog", "jql"}
  /\ StatusesInit /\ ResolutionInit /\ ChangelogInit /\ ParenthesesInit
  /\ part # "statuses" => resolved = [b \in Bundles |-> {}]
  /\ part # "resolution" => state = "open"

vars == <<part, statusesVars, resolutionVars, changelogVars, parenthesesVars>>

Next ==
  \/ /\ part = "statuses" /\ StatusesNext
     /\ UNCHANGED <<part, resolutionVars, changelogVars, parenthesesVars>>
  \/ /\ part = "resolution" /\ ResolutionNext
     /\ UNCHANGED <<part, statusesVars, changelogVars, parenthesesVars>>
  \/ /\ part = "changelog" /\ ChangelogNext
     /\ UNCHANGED <<part, statusesVars, resolutionVars, parenthesesVars>>
  \/ /\ part = "jql" /\ ParenthesesNext
     /\ UNCHANGED <<part, statusesVars, resolutionVars, changelogVars>>

Spec == Init /\ [][Next]_vars
=============================================================================
