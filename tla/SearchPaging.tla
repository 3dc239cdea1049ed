---------------------------- MODULE SearchPaging ----------------------------
(***************************************************************************)
(* A Jira client reads all issues of a search, page by page, through       *)
(* HandleSearchIssues, which computes the total of each page: from the     *)
(* page if it is short, else with CountIssues.  The client asks from where *)
(* it is until it has as many issues as the last answer's total says; it   *)
(* asks again after a 503.  The list is what the query finds in YouTrack.  *)
(*                                                                         *)
(* The page loop is CountIssues', with PageSize for its batch (10000); Cap *)
(* is the handler's cap on maxResults (1000), MaxAsk the largest the       *)
(* client asks for.                                                        *)
(***************************************************************************)
EXTENDS PageLoop

CONSTANTS Cap, MaxAsk

ASSUME CapAssumption == Cap \in Nat \ {0}
ASSUME MaxAskAssumption == MaxAsk \in Nat

VARIABLES
  phase,     \* of the client: "idle", "ready", "asked", "counting", "finished"
  asked,     \* the maxResults of the request
  page,      \* the page that is being counted
  got,       \* the issues of all answers; startAt is their number
  size,      \* issues and total of the last answer
  total,
  failed,    \* history: some call of this sync failed
  steady,    \* history: during this sync, issues only came at the end
  expected   \* history: how many issues there were when it began

countVars == <<at, skip, fetched, smallest, largest>>
historyVars == <<failed, steady, expected>>
clientVars == <<phase, asked, page, got, size, total, failed, steady, expected>>
pagingVars == <<list, at, skip, fetched, smallest, largest, phase, asked, page, got,
          size, total, failed, steady, expected>>

Phases == {"idle", "ready", "asked", "counting", "finished"}

SearchPagingTypeOK ==
  /\ PageLoopTypeOK
  /\ phase \in Phases /\ asked \in 0..MaxAsk
  /\ page \in Seq(Items) /\ got \in Seq(Items)
  /\ size \in Nat /\ total \in Nat
  /\ failed \in BOOLEAN /\ steady \in BOOLEAN /\ expected \in Nat
  /\ phase = "counting" <=> at \in {"asking", "done"}
  /\ phase = "counting" => Len(page) = Lesser(asked, Cap)

-----------------------------------------------------------------------------
(* The page that YouTrack finds, maxResults capped.                        *)
startAt == Len(got)
maxResults == Lesser(asked, Cap)

(* Seeded fault: startAt counts from one. *)
GetIssuesFromOne ==
  SubSeq(list, Greater(startAt, 1), Lesser(startAt + maxResults, Len(list)))

GetIssues == SubSeq(list, startAt + 1, Lesser(startAt + maxResults, Len(list)))

PagingInit ==
  /\ PageLoopInit
  /\ phase = "idle" /\ asked = 0 /\ page = << >> /\ got = << >>
  /\ size = 0 /\ total = 0
  /\ failed = FALSE /\ steady = TRUE /\ expected = 0

StartSync ==
  /\ phase \in {"idle", "finished"}
  /\ phase' = "ready" /\ got' = << >>
  /\ failed' = FALSE /\ steady' = TRUE /\ expected' = Len(list)
  /\ UNCHANGED <<list, countVars, asked, page, size, total>>

AskFor(m) ==
  /\ phase = "ready"
  /\ phase' = "asked" /\ asked' = m
  /\ UNCHANGED <<list, countVars, page, got, size, total, historyVars>>

(* Issues and total reach the client, which goes on while there is more. *)
Answer(issues, n) ==
  /\ size' = Len(issues) /\ total' = n
  /\ got' = got \o issues
  /\ phase' = IF Len(got') >= n THEN "finished" ELSE "ready"
  /\ page' = << >>

(* Seeded fault: the page is compared with what the client asked for, not  *)
(* with what was asked of YouTrack.                                        *)
ShortUncapped == Len(GetIssues) < asked

ShortPage == Len(GetIssues) < maxResults

AnswerShortPage ==
  /\ phase = "asked" /\ ShortPage
  /\ Answer(GetIssues, startAt + Len(GetIssues))
  /\ UNCHANGED <<list, countVars, asked, historyVars>>

CountFullPage ==
  /\ phase = "asked" /\ ~ShortPage
  /\ page' = GetIssues /\ phase' = "counting"
  /\ Begin
  /\ UNCHANGED <<asked, got, size, total, historyVars>>

CountPage == NextPage /\ UNCHANGED clientVars

AnswerCounted ==
  /\ phase = "counting" /\ at = "done"
  /\ Answer(page, fetched)
  /\ at' = "idle" /\ skip' = 0 /\ fetched' = 0 /\ smallest' = 0 /\ largest' = 0
  /\ UNCHANGED <<list, asked, historyVars>>

(* A failed search is answered with an empty page and total 0, a failed    *)
(* count with the page alone.  Both end the client's sync.                 *)
SearchFails ==
  /\ phase = "asked"
  /\ Answer(<< >>, 0)
  /\ failed' = TRUE
  /\ UNCHANGED <<list, countVars, asked, steady, expected>>

CountFails ==
  /\ PageFails
  /\ Answer(page, startAt + Len(page))
  /\ failed' = TRUE
  /\ UNCHANGED <<asked, steady, expected>>

(* A queue timeout of either call is a 503: the client asks again. *)
SearchBusy ==
  /\ phase = "asked"
  /\ phase' = "ready"
  /\ UNCHANGED <<list, countVars, asked, page, got, size, total, historyVars>>

CountBusy ==
  /\ PageFails
  /\ phase' = "ready" /\ page' = << >>
  /\ UNCHANGED <<asked, got, size, total, historyVars>>

-----------------------------------------------------------------------------
IssueCreated(x) ==
  /\ ItemAppears(Len(list) + 1, x)
  /\ UNCHANGED steady

(* An issue starts or stops to match, or moves in the order of the search. *)
ResultShifts ==
  /\ \/ \E i \in 1..Len(list), x \in Items : ItemAppears(i, x)
     \/ \E i \in 1..Len(list) : ItemGoes(i)
     \/ \E i \in 1..Len(list), j \in 1..Len(list) : ItemMoves(i, j)
  /\ steady' = FALSE

ResultChanges ==
  /\ ResultShifts \/ \E x \in Items : IssueCreated(x)
  /\ UNCHANGED <<at, skip, fetched, phase, asked, page, got, size, total,
                 failed, expected>>

PagingNext ==
  \/ StartSync
  \/ \E m \in 1..MaxAsk : AskFor(m)
  \/ AnswerShortPage \/ CountFullPage \/ CountPage \/ AnswerCounted
  \/ SearchFails \/ CountFails \/ SearchBusy \/ CountBusy
  \/ ResultChanges

PagingSpec == PagingInit /\ [][PagingNext]_pagingVars

-----------------------------------------------------------------------------
(* As long as issues only come at the end of the list (a sync is ordered   *)
(* by creation), whatever fails: the client has each issue once, in order, *)
(* without a gap.                                                          *)
NoGapsNoRepeats == steady => IsPrefix(got, list)

(* If in addition nothing failed, a client that stops has every issue that *)
(* was there when it began: no total was too small.                        *)
SyncIsComplete ==
  phase = "finished" /\ steady /\ ~failed => Len(got) >= expected

-----------------------------------------------------------------------------
(* What is written about this code and is not so: no run checks it, and    *)
(* TLC finds the counterexample within the bounds of the runs (README.md). *)

(* "total >= len(issues)" for any response (devlake_integration_test.go).  *)
TotalCoversPage == total >= size

(* "Accurate total: if we got fewer than requested, we're on the last      *)
(* page" (handler/issues.go): the total of a short page is the number of   *)
(* issues there are.                                                       *)
ShortPageIsLast == [][AnswerShortPage => total' = Len(list)]_pagingVars
=============================================================================
