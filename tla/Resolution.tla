----------------------------- MODULE Resolution -----------------------------
(***************************************************************************)
(* The status category and the resolution date of one issue, as answered   *)
(* by HandleGetIssue and HandleSearchIssues.  The handlers read the issue, *)
(* then the resolved states, then its activities, and the issue may change *)
(* between the readings.                                                   *)
(*                                                                         *)
(* States are the states of its project, Resolved those that are resolved; *)
(* Others are states resolved in other projects on the page of a search.   *)
(* Top is the number of activities that are read (100), MaxChanges bounds  *)
(* all there are, for TLC.  Times are positions in the life of the issue,  *)
(* 0 is none.  YouTrack's activities come with the oldest first.           *)
(***************************************************************************)
EXTENDS Naturals, Sequences, FiniteSets, SequencesExt, FiniteSetsExt

CONSTANTS States, Resolved, Others, Top, MaxChanges

ASSUME TopAssumption == Top \in Nat /\ MaxChanges \in Nat

VARIABLES
  state,       \* of the issue, in YouTrack
  resolvedAt,  \* its field "resolved"
  changes,     \* its activities: the state that was added, or another field
  entered,     \* history: when it last came into a resolved state
  stage,       \* of the request: "none", "reading", "known", "answered"
  kind,        \* "issue" or "search", with expand=changelog or without
  got,         \* the issue as it was read
  knows,       \* the resolved states used for the answer
  date,        \* the resolution date of the answer
  quiet        \* history: the issue did not change since it was read

issue == <<state, resolvedAt, changes, entered>>
resolutionVars == <<state, resolvedAt, changes, entered, stage, kind, got,
                    knows, date, quiet>>

None == 0
OtherField == "another field"

ASSUME StatesAssumption ==
  Resolved \subseteq States /\ Others \subseteq States /\ OtherField \notin States

Kinds == {"issue", "search", "search with changelog"}
now == Len(changes) + 1   \* the time of creation, and of each activity

IsDoneState(s) == s \in knows
Done == IsDoneState(got.state)

ResolutionTypeOK ==
  /\ state \in States /\ resolvedAt \in 0..now /\ entered \in 0..now
  /\ changes \in Seq(States \cup {OtherField})
  /\ stage \in {"none", "reading", "known", "answered"} /\ kind \in Kinds
  /\ got \in [state : States, resolved : 0..now]
  /\ knows \subseteq States /\ date \in 0..now /\ quiet \in BOOLEAN
  /\ resolvedAt # None <=> state \in Resolved
  /\ resolvedAt <= entered
  /\ date # None /\ kind # "search with changelog" => Done

ResolutionInit ==
  /\ state \in States
  /\ changes = << >>
  /\ resolvedAt = (IF state \in Resolved THEN now ELSE None)
  /\ entered = resolvedAt
  /\ stage = "none" /\ kind = "issue"
  /\ got = [state |-> state, resolved |-> resolvedAt]
  /\ knows = {} /\ date = None /\ quiet = TRUE

-----------------------------------------------------------------------------
(* YouTrack: the field "resolved" is the time the issue came from a state  *)
(* that is not resolved to one that is.                                    *)
Move(s) ==
  /\ Len(changes) < MaxChanges
  /\ s # state
  /\ state' = s
  /\ changes' = Append(changes, s)
  /\ resolvedAt' = IF s \notin Resolved THEN None
                   ELSE IF state \in Resolved THEN resolvedAt ELSE now'
  /\ entered' = IF s \in Resolved THEN now' ELSE entered
  /\ quiet' = FALSE
  /\ UNCHANGED <<stage, kind, got, knows, date>>

ChangeOtherField ==
  /\ Len(changes) < MaxChanges
  /\ changes' = Append(changes, OtherField)
  /\ quiet' = FALSE
  /\ UNCHANGED <<state, resolvedAt, entered, stage, kind, got, knows, date>>

-----------------------------------------------------------------------------
ReadIssue(k) ==
  /\ stage \in {"none", "answered"}
  /\ stage' = "reading" /\ kind' = k
  /\ got' = [state |-> state, resolved |-> resolvedAt]
  /\ knows' = {} /\ date' = None /\ quiet' = TRUE
  /\ UNCHANGED issue

(* ConvertYTIssueToJira. *)
Convert(states) ==
  /\ knows' = states
  /\ date' = IF got.state \in states /\ got.resolved # None
               THEN got.resolved ELSE None

(* The activities are read for a done issue alone, and for each issue of a *)
(* search that asks for the changelog.                                     *)
ReadsActivities(states) ==
  \/ kind = "issue" /\ got.state \in states
  \/ kind = "search with changelog"

(* Resolved states, from the cache or YouTrack; none if YouTrack failed.   *)
LearnStates ==
  /\ stage = "reading"
  /\ \E states \in {{}, Resolved}
                     \cup (IF kind = "issue" THEN {} ELSE {Others, Resolved \cup Others}) :
       /\ Convert(states)
       /\ stage' = IF ReadsActivities(states) THEN "known" ELSE "answered"
  /\ UNCHANGED <<issue, kind, got, quiet>>

(* The first page of the activities. *)
FirstPage == SubSeq(changes, 1, IF Len(changes) < Top THEN Len(changes) ELSE Top)

DoneTransitions == {i \in DOMAIN FirstPage : FirstPage[i] \in knows}

(* Seeded fault: the first transition counts. *)
DeriveFirst == IF DoneTransitions = {} THEN None ELSE Min(DoneTransitions) + 1

(* DeriveResolutionDateFromActivities: the time of the last one. *)
DeriveResolutionDate ==
  IF DoneTransitions = {} THEN None ELSE Max(DoneTransitions) + 1

ReadActivities ==
  /\ stage = "known"
  /\ date' = IF DeriveResolutionDate # None THEN DeriveResolutionDate ELSE date
  /\ stage' = "answered"
  /\ UNCHANGED <<issue, kind, got, knows, quiet>>

ActivitiesFail ==
  /\ stage = "known"
  /\ stage' = "answered"
  /\ UNCHANGED <<issue, kind, got, knows, date, quiet>>

ResolutionNext ==
  \/ \E s \in States : Move(s)
  \/ ChangeOtherField
  \/ \E k \in Kinds : ReadIssue(k)
  \/ LearnStates \/ ReadActivities \/ ActivitiesFail

ResolutionSpec == ResolutionInit /\ [][ResolutionNext]_resolutionVars

-----------------------------------------------------------------------------
(* If the issue did not change while it was read and all its activities    *)
(* were, an answer made with the right states says done exactly if the     *)
(* issue is resolved, and then dates it to when it last came into a        *)
(* resolved state, or first did without leaving them: the two sources of   *)
(* the date agree.  Whatever happens between the readings, and whichever   *)
(* states of other projects are taken for resolved, the activities never   *)
(* move the date to before the one that YouTrack keeps.                    *)
DatesAreRight ==
  stage = "answered" /\ Len(changes) <= Top =>
    /\ quiet /\ knows = Resolved =>
         /\ Done <=> state \in Resolved
         /\ Done => date \in {resolvedAt, entered}
    /\ Done => date >= got.resolved

-----------------------------------------------------------------------------
(* What is written about this code and is not so: no run checks it, and    *)
(* TLC finds the counterexample within the bounds of the runs (README.md). *)

(* "resolutiondate SHALL be null" for all issues in states that are not    *)
(* done (service/converter_read_property_test.go).                         *)
ResolutionDateMeansDone ==
  stage = "answered" /\ date # None => Done

(* "Resolution date is derived from the last activity that transitioned an *)
(* issue into a done-category state" (README.md): never from an earlier.   *)
DateIsOfTheLast ==
  stage = "answered" /\ Done /\ quiet /\ knows = Resolved
    => date \in {resolvedAt, entered}
=============================================================================
