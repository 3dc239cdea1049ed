----------------------------- MODULE BoardSync -----------------------------
(***************************************************************************)
(* A Jira client finds its way from a board to the issues of a project,    *)
(* the numbers of IdMap being all it carries: it lists the boards          *)
(* (HandleListBoards), asks for the configuration of one                   *)
(* (HandleBoardConfiguration), reads its filter (HandleGetFilter) and      *)
(* searches (HandleSearchIssues) with the filter's JQL, with "filter = N", *)
(* or with both.  Projects are created, renamed and deleted meanwhile.     *)
(* Calls that fail for other reasons are the business of Proxy.            *)
(*                                                                         *)
(* ProjectIds are the projects.  Short names are numbers in the order of   *)
(* their first use, at most MaxNames of them for TLC; none is used again.  *)
(* MaxInt is the largest int, Asks the values of maxResults.               *)
(***************************************************************************)
EXTENDS IdMap, Sequences, FiniteSets, SequencesExt

CONSTANTS ProjectIds, MaxNames, MaxInt, Asks

ASSUME ProjectIdsAssumption == ProjectIds \subseteq Ids
ASSUME NamesAssumption == MaxNames \in Nat
ASSUME AsksAssumption == MaxInt \in Nat /\ Asks \subseteq 1..MaxInt

VARIABLES
  projects,  \* the projects, in the order of GetProjects
  key,       \* the short name of each project, NoKey before it is created
  names,     \* the number of short names used so far
  phase,     \* of the client
  boards,    \* the boards listed so far
  board,     \* the board chosen, with its filter
  clause,    \* the project and the filter clause of its JQL
  scope,     \* the query: the project it is for, or NoKey
  matched,   \* the projects whose issues the query matched
  steady,    \* history: since the listing began projects only came at its end
  unchanged, \* history: the board's project was not deleted or renamed since
  expected   \* history: how many boards there were when it began

youTrack == <<projects, key, names>>
history == <<steady, unchanged, expected>>
boardVars == <<projects, key, names, phase, boards, board, clause, scope, matched,
               steady, unchanged, expected>>

Phases == {"idle", "listing", "listed", "chosen", "configured", "query",
           "resolved", "found"}
NoKey == 0
Keys == 1..names
NoClause == [project |-> NoKey, filterId |-> 0]
BoardOf(p) == [id |-> Encode(p), project |-> p]

(* Only chosen boards have a configuration, and only they are searched.    *)
BoardSyncTypeOK ==
  /\ names \in 0..MaxNames
  /\ projects \in Seq(ProjectIds) /\ IsInjective(projects)
  /\ key \in [ProjectIds -> Keys \cup {NoKey}]
  /\ \A p \in Range(projects) : key[p] # NoKey
  /\ phase \in Phases
  /\ boards \in Seq([id : Nat, project : ProjectIds])
  /\ phase \in {"chosen", "configured", "query", "resolved", "found"}
       => board \in [id : Nat, project : ProjectIds]
  /\ clause \in [project : Keys \cup {NoKey}, filterId : Nat]
  /\ scope \in Keys \cup {NoKey} /\ matched \subseteq ProjectIds
  /\ steady \in BOOLEAN /\ unchanged \in BOOLEAN /\ expected \in Nat
  /\ phase \in {"query", "resolved"} => clause # NoClause \/ board.id = 0

BoardInit ==
  /\ projects = << >> /\ key = [p \in ProjectIds |-> NoKey] /\ names = 0
  /\ phase = "idle" /\ boards = << >> /\ board = << >>
  /\ clause = NoClause /\ scope = NoKey /\ matched = {}
  /\ steady = TRUE /\ unchanged = TRUE /\ expected = 0

-----------------------------------------------------------------------------
(* One board per project whose ID can be encoded, in the projects' order;  *)
(* the others are skipped.                                                 *)
Encodable == {i \in DOMAIN projects : Fits(projects[i])}
Nth(k) == CHOOSE i \in Encodable : Cardinality(Encodable \cap 1..i) = k
Boards == [k \in 1..Cardinality(Encodable) |-> BoardOf(projects[Nth(k)])]

(* The sum of two ints, with the sign of the result. *)
Plus(a, b) == IF a + b > MaxInt THEN a + b - 2 * (MaxInt + 1) ELSE a + b

Clamp(n, total) == IF n > total THEN total ELSE n

End(startAt, maxResults, total) ==
  Clamp(Plus(Clamp(startAt, total), maxResults), total)

(* The slice expression panics if its bounds are not in order. *)
Panics(startAt, maxResults, total) ==
  End(startAt, maxResults, total) < Clamp(startAt, total)

(* Seeded fault: the page before the last claims to be the last. *)
IsLastEarly(startAt, maxResults, total) == End(startAt, maxResults, total) + 1 >= total

IsLast(startAt, maxResults, total) == End(startAt, maxResults, total) >= total

StartListing ==
  /\ phase \in {"idle", "found"}
  /\ phase' = "listing" /\ boards' = << >> /\ board' = << >>
  /\ clause' = NoClause /\ scope' = NoKey /\ matched' = {}
  /\ steady' = TRUE /\ unchanged' = TRUE /\ expected' = Len(Boards)
  /\ UNCHANGED youTrack

HandleListBoards(maxResults) ==
  LET startAt == Len(boards)
      total == Len(Boards)
  IN  /\ phase = "listing"
      /\ IF Panics(startAt, maxResults, total)
           THEN phase' = "idle" /\ UNCHANGED boards
           ELSE /\ boards' = boards \o SubSeq(Boards, Clamp(startAt, total) + 1,
                                              End(startAt, maxResults, total))
                /\ phase' = IF IsLast(startAt, maxResults, total)
                              THEN "listed" ELSE "listing"
      /\ UNCHANGED <<youTrack, board, clause, scope, matched, history>>

ChooseBoard ==
  /\ phase = "listed" /\ boards # << >>
  /\ \E b \in Range(boards) :
       /\ board' = b
       /\ unchanged' = (b.project \in Range(projects))
  /\ phase' = "chosen" /\ boards' = << >> /\ expected' = 0
  /\ UNCHANGED <<youTrack, clause, scope, matched, steady>>

NothingListed ==
  /\ phase = "listed" /\ boards = << >>
  /\ phase' = "idle"
  /\ UNCHANGED <<youTrack, boards, board, clause, scope, matched, history>>

-----------------------------------------------------------------------------
(* GetProject of a decoded number: a project that is gone is a 502. *)
Known(n) == Decode(n) \in Range(projects)

HandleBoardConfiguration ==
  /\ phase = "chosen"
  /\ phase' = IF Known(board.id) THEN "configured" ELSE "idle"
  /\ UNCHANGED <<youTrack, boards, board, clause, scope, matched, history>>

(* The filter of a board has its number.  Its JQL is "project = <KEY>". *)
HandleGetFilter ==
  /\ phase = "configured"
  /\ IF Known(board.id)
       THEN /\ \E n \in {0, board.id} :
                 clause' = [project |-> key[Decode(board.id)], filterId |-> n]
            /\ phase' = "query"
       ELSE phase' = "idle" /\ UNCHANGED clause
  /\ UNCHANGED <<youTrack, boards, board, scope, matched, history>>

SearchByFilter ==
  /\ phase = "configured"
  /\ clause' = [project |-> NoKey, filterId |-> board.id]
  /\ phase' = "query"
  /\ UNCHANGED <<youTrack, boards, board, scope, matched, history>>

(* Seeded fault: a project that YouTrack does not know leaves the query    *)
(* without a project.                                                      *)
ResolveFilterAnyway ==
  /\ phase = "query"
  /\ scope' = IF clause.project # NoKey \/ clause.filterId = 0 THEN clause.project
              ELSE IF Known(clause.filterId) THEN key[Decode(clause.filterId)] ELSE NoKey
  /\ phase' = "resolved"
  /\ UNCHANGED <<youTrack, boards, board, clause, matched, history>>

(* ResolveFilterProject, unless the filter is 0; an explicit project wins. *)
ResolveFilter ==
  /\ phase = "query"
  /\ IF clause.filterId # 0 /\ ~Known(clause.filterId)
       THEN phase' = "idle" /\ UNCHANGED scope
       ELSE /\ scope' = IF clause.project # NoKey \/ clause.filterId = 0
                          THEN clause.project ELSE key[Decode(clause.filterId)]
            /\ phase' = "resolved"
  /\ UNCHANGED <<youTrack, boards, board, clause, matched, history>>

GetIssues ==
  /\ phase = "resolved"
  /\ matched' = {p \in Range(projects) : scope \in {NoKey, key[p]}}
  /\ phase' = "found"
  /\ UNCHANGED <<youTrack, boards, board, clause, scope, history>>

-----------------------------------------------------------------------------
NewName(p) ==
  /\ names < MaxNames
  /\ names' = names + 1
  /\ key' = [key EXCEPT ![p] = names + 1]

(* A project is created, somewhere in the list. *)
ProjectCreated(i, p) ==
  /\ key[p] = NoKey
  /\ NewName(p)
  /\ projects' = InsertAt(projects, i, p)
  /\ steady' = (steady /\ i = Len(projects) + 1)
  /\ UNCHANGED unchanged

IsBoards(p) == board # << >> /\ board.project = p

ProjectRenamed(i) ==
  /\ NewName(projects[i])
  /\ unchanged' = (unchanged /\ ~IsBoards(projects[i]))
  /\ UNCHANGED <<projects, steady>>

ProjectDeleted(i) ==
  /\ projects' = RemoveAt(projects, i)
  /\ unchanged' = (unchanged /\ ~IsBoards(projects[i]))
  /\ steady' = FALSE
  /\ UNCHANGED <<key, names>>

ProjectsChange ==
  /\ \/ \E i \in 1..(Len(projects) + 1), p \in ProjectIds : ProjectCreated(i, p)
     \/ \E i \in 1..Len(projects) : ProjectRenamed(i)
     \/ \E i \in 1..Len(projects) : ProjectDeleted(i)
  /\ UNCHANGED <<phase, boards, board, clause, scope, matched, expected>>

BoardNext ==
  \/ StartListing
  \/ \E m \in Asks : HandleListBoards(m)
  \/ ChooseBoard \/ NothingListed
  \/ HandleBoardConfiguration \/ HandleGetFilter \/ SearchByFilter
  \/ ResolveFilter \/ GetIssues
  \/ ProjectsChange

BoardSpec == BoardInit /\ [][BoardNext]_boardVars

-----------------------------------------------------------------------------
(* A client that follows startAt and isLast has each board once, whatever  *)
(* maxResults it asks for page by page, and stops when it has all.  None   *)
(* of its pages panics, and none from anywhere else: startAt + maxResults  *)
(* leaves the range of int only when maxResults is within the number of    *)
(* boards of its end.                                                      *)
ListingIsComplete ==
  LET total == Len(Boards)
  IN  /\ steady /\ phase \in {"listing", "listed"} =>
           /\ IsPrefix(boards, Boards)
           /\ phase = "listed" => Len(boards) >= expected
      /\ \A startAt \in 0..MaxInt, maxResults \in 1..(MaxInt - total) :
           ~Panics(startAt, maxResults, total)

(* From a board the client comes to the issues of the board's project, or  *)
(* to none if the project changed meanwhile; never to another project's.   *)
(* The board with number 0 needs the filter's JQL for that.                *)
BoardLeadsToProject ==
  phase = "found" /\ ~(board.id = 0 /\ clause.project = NoKey) =>
    /\ matched \subseteq {board.project}
    /\ unchanged => matched = {board.project}

-----------------------------------------------------------------------------
(* What is written about this code and is not so: no run checks it, and    *)
(* TLC finds the counterexample within the bounds of the runs (README.md). *)

(* "every board ID, filter ID [...] can be decoded back to the original    *)
(* YouTrack string ID" (README.md): a filter finds its project's issues.   *)
FilterFindsItsProject ==
  phase = "found" => matched \subseteq {board.project}
=============================================================================
