----------------------------- MODULE Changelog -----------------------------
(***************************************************************************)
(* A Jira client reads the changelog of an issue, page by page             *)
(* (HandleGetIssueChangelog).  Pages are cut from the activities that      *)
(* YouTrack recorded; those of a page are then grouped to histories        *)
(* (ConvertYTActivitiesToJiraChangelog), and histories are what the client *)
(* counts.  It goes on behind the histories it got until there are none.   *)
(*                                                                         *)
(* An activity is a time and an author, and is known by its place in the   *)
(* issue's list, the oldest first; a history is the sequence of its        *)
(* activities.  Asks are the values of maxResults, none of them 0;         *)
(* MaxActivities bounds the list, for TLC.                                 *)
(***************************************************************************)
EXTENDS Naturals, Sequences, FiniteSets, SequencesExt

CONSTANTS Times, Logins, Asks, MaxActivities

ASSUME TimesAssumption == Times \subseteq Nat
ASSUME AsksAssumption == Asks \subseteq Nat \ {0} /\ MaxActivities \in Nat

VARIABLES
  activities,  \* of the issue, in YouTrack
  startAt,     \* where the client is
  batch,       \* the activities of the last page
  grouped,     \* how many of them are in a history
  histories,   \* the histories of the last answer, or so far
  received,    \* all histories the client has
  phase,       \* "reading" (the client), "grouping" (the proxy), "finished"
  last,        \* history: how many activities there were at the last page
  steady       \* history: none was recorded since the client began

changelogVars == <<activities, startAt, batch, grouped, histories, received,
                   phase, last, steady>>

Activities == [at : Times, by : Logins]
Key(i) == <<activities[i].at, activities[i].by>>

ChangelogTypeOK ==
  /\ activities \in Seq(Activities)
  /\ startAt \in 0..Len(activities)
  /\ batch \in Seq(DOMAIN activities) /\ grouped \in 0..Len(batch)
  /\ histories \in Seq(Seq(DOMAIN activities))
  /\ \A h \in received : h \in Seq(DOMAIN activities) /\ h # << >>
  /\ phase \in {"reading", "grouping", "finished"}
  /\ last \in 0..Len(activities) /\ steady \in BOOLEAN

ChangelogInit ==
  /\ activities = << >> /\ startAt = 0
  /\ batch = << >> /\ grouped = 0 /\ histories = << >>
  /\ received = {} /\ phase = "reading" /\ last = 0 /\ steady = TRUE

-----------------------------------------------------------------------------
(* YouTrack's answer to $skip and $top. *)
Activity(skip, top) ==
  LET to == IF skip + top < Len(activities) THEN skip + top ELSE Len(activities)
  IN  [i \in 1..(to - skip) |-> skip + i]

HandleGetIssueChangelog(maxResults) ==
  /\ phase = "reading"
  /\ batch' = Activity(startAt, maxResults)
  /\ grouped' = 0 /\ histories' = << >>
  /\ phase' = "grouping" /\ last' = Len(activities)
  /\ UNCHANGED <<activities, startAt, received, steady>>

(* Seeded fault: a history is a run of neighbours. *)
NeighboursOf(i) ==
  {k \in DOMAIN histories : k = Len(histories) /\ Key(histories[k][1]) = Key(i)}

(* The history of an activity's time and author, if it has begun.          *)
HistoryOf(i) == {k \in DOMAIN histories : Key(histories[k][1]) = Key(i)}

(* Seeded fault: the last activity of a history takes the place of all.    *)
GroupLatest(i) ==
  \/ \E k \in HistoryOf(i) : histories' = [histories EXCEPT ![k] = <<i>>]
  \/ HistoryOf(i) = {} /\ histories' = Append(histories, <<i>>)

Group(i) ==
  \/ \E k \in HistoryOf(i) : histories' = [histories EXCEPT ![k] = Append(@, i)]
  \/ HistoryOf(i) = {} /\ histories' = Append(histories, <<i>>)

(* The next activity of the loop in ConvertYTActivitiesToJiraChangelog.    *)
GroupNext ==
  /\ phase = "grouping" /\ grouped < Len(batch)
  /\ Group(batch[grouped + 1])
  /\ grouped' = grouped + 1
  /\ UNCHANGED <<activities, startAt, batch, received, phase, last, steady>>

(* startAt + maxResults of the answer, where the client goes on.           *)
Answer ==
  /\ phase = "grouping" /\ grouped = Len(batch)
  /\ startAt' = startAt + Len(histories)
  /\ received' = received \cup Range(histories)
  /\ phase' = IF histories = << >> THEN "finished" ELSE "reading"
  /\ UNCHANGED <<activities, batch, grouped, histories, last, steady>>

ReadAgain ==
  /\ phase = "finished"
  /\ phase' = "reading" /\ startAt' = 0 /\ received' = {}
  /\ batch' = << >> /\ grouped' = 0 /\ histories' = << >> /\ last' = 0
  /\ steady' = TRUE
  /\ UNCHANGED activities

(* YouTrack records a change, of the same instant as the last or later. *)
Record(a) ==
  /\ Len(activities) < MaxActivities
  /\ activities # << >> => a.at >= Last(activities).at
  /\ activities' = Append(activities, a)
  /\ steady' = FALSE
  /\ UNCHANGED <<startAt, batch, grouped, histories, received, phase, last>>

ChangelogNext ==
  \/ \E n \in Asks : HandleGetIssueChangelog(n)
  \/ GroupNext \/ Answer
  \/ ReadAgain
  \/ \E a \in Activities : Record(a)

ChangelogSpec == ChangelogInit /\ [][ChangelogNext]_changelogVars

-----------------------------------------------------------------------------
(* Each activity of the page is in one history, in the order of the page;  *)
(* each history is of one time and author, and no other of the page is: of *)
(* the answer, and of the histories so far while it is made.               *)
PageIsPartitioned ==
  /\ \A n \in 1..grouped :
       Cardinality({k \in DOMAIN histories : batch[n] \in Range(histories[k])}) = 1
  /\ \A k \in DOMAIN histories :
       /\ histories[k] # << >>
       /\ \A m, n \in DOMAIN histories[k] :
            /\ Key(histories[k][m]) = Key(histories[k][n])
            /\ m < n => histories[k][m] < histories[k][n]
  /\ \A j, k \in DOMAIN histories :
       j # k => Key(histories[j][1]) # Key(histories[k][1])

(* A client that counts histories while YouTrack counts activities may see *)
(* an activity again, but misses none, although more are recorded while it *)
(* reads.                                                                  *)
Received == UNION {Range(h) : h \in received}

NothingSkipped ==
  /\ 1..startAt \subseteq Received
  /\ phase = "finished" => 1..last \subseteq Received

-----------------------------------------------------------------------------
(* What is written about this code and is not so: no run checks it, and    *)
(* TLC finds the counterexample within the bounds of the runs (README.md). *)

(* "Activities with the same timestamp and author are grouped into a       *)
(* single history entry" (README.md), for a client that reads all pages.   *)
OneHistoryPerBatch ==
  \A g, h \in received : steady /\ Key(g[1]) = Key(h[1]) => g = h
=============================================================================
