---------------------------- MODULE ProjectList ----------------------------
(***************************************************************************)
(* GetProjects: the page loop that collects every project once, while      *)
(* projects are created, deleted and renamed (the list is sorted).  The    *)
(* answer is a bag: how often each project is in it, in whatever order.    *)
(* MaxShifts bounds the deletions and renamings during one call, for TLC.  *)
(***************************************************************************)
EXTENDS PageLoop, Bags

CONSTANT MaxShifts

ASSUME MaxShiftsAssumption == MaxShifts \in Nat

VARIABLES
  seen,    \* the IDs collected so far
  all,     \* the projects collected so far, a bag
  always,  \* history: the projects that were there all the time
  shifts   \* history: the deletions and renamings since the call began

collected == <<seen, all>>
projectsVars == <<list, at, skip, fetched, smallest, largest, seen, all, always, shifts>>

ProjectListTypeOK ==
  /\ PageLoopTypeOK
  /\ seen \subseteq Items
  /\ always \subseteq Range(list)
  /\ shifts \in 0..MaxShifts

ProjectsInit ==
  /\ PageLoopInit
  /\ seen = {} /\ all = EmptyBag /\ always = {} /\ shifts = 0

GetProjects ==
  /\ Begin
  /\ seen' = {} /\ all' = EmptyBag
  /\ always' = Range(list) /\ shifts' = 0

(* Seeded fault: duplicates are dropped within a page only. *)
CollectAll ==
  /\ NextPage
  /\ seen' = seen \cup Range(Page)
  /\ all' = all (+) SetToBag(Range(Page))
  /\ UNCHANGED <<always, shifts>>

Collect ==
  /\ NextPage
  /\ seen' = seen \cup Range(Page)
  /\ all' = all (+) SetToBag(Range(Page) \ seen)
  /\ UNCHANGED <<always, shifts>>

(* The error is returned and nothing of what was collected. *)
GiveUp ==
  /\ PageFails
  /\ seen' = {} /\ all' = EmptyBag
  /\ UNCHANGED <<always, shifts>>

ProjectCreated(i, p) ==
  /\ ItemAppears(i, p)
  /\ UNCHANGED <<always, shifts>>

ProjectDeleted(i) ==
  /\ shifts < MaxShifts
  /\ ItemGoes(i)
  /\ always' = always \ {list[i]}
  /\ shifts' = shifts + 1

ProjectRenamed(i, j) ==
  /\ shifts < MaxShifts
  /\ ItemMoves(i, j)
  /\ shifts' = shifts + 1
  /\ UNCHANGED always

ProjectsChange ==
  /\ \/ \E i \in 1..(Len(list) + 1), p \in Items : ProjectCreated(i, p)
     \/ \E i \in 1..Len(list) : ProjectDeleted(i)
     \/ \E i \in 1..Len(list), j \in 1..Len(list) : ProjectRenamed(i, j)
  /\ UNCHANGED <<at, skip, fetched, seen, all>>

ProjectsNext == GetProjects \/ Collect \/ GiveUp \/ ProjectsChange
ProjectsSpec == ProjectsInit /\ [][ProjectsNext]_projectsVars

(* Each call for a page ends: acquireSemaphore and httpClient time out.    *)
FairProjectsSpec == ProjectsSpec /\ WF_projectsVars(Collect \/ GiveUp)

-----------------------------------------------------------------------------
(* No project is in the answer twice although it may be on two pages, and  *)
(* every project on a page is in the answer.                               *)
EachProjectOnce == all = SetToBag(seen)

(* A project that was there during the whole call is missing from the      *)
(* answer only if others were deleted or renamed meanwhile, and each       *)
(* deletion or renaming loses at most one: creations lose none.            *)
Missed == always \ seen
EachLossExplained == at = "done" => Cardinality(Missed) <= shifts

-----------------------------------------------------------------------------
(* What is written about this code and is not so: no run checks it, and    *)
(* TLC finds the counterexample within the bounds of the runs (README.md). *)

(* "GetProjects retrieves every project" (client/youtrack.go). *)
EveryProjectRetrieved == at = "done" => always \subseteq seen
=============================================================================
