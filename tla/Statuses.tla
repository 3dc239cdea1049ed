------------------------------ MODULE Statuses ------------------------------
(***************************************************************************)
(* The status categories that a Jira client is told, by the list of        *)
(* statuses (HandleListStatuses) and by the issues themselves              *)
(* (HandleSearchIssues, HandleGetIssue), while administrators of YouTrack  *)
(* change which states are resolved.  The cache of resolved states is what *)
(* KnownStates promises: a set per project that is replaced now and then.  *)
(*                                                                         *)
(* StateNames are the names of states in lower case, NewStates those of    *)
(* the table newStates.  Projects may share a bundle of states, and the    *)
(* names of states of different bundles may be the same.                   *)
(***************************************************************************)
EXTENDS Naturals, FiniteSets, Sequences, SequencesExt, Functions

CONSTANTS Projects, Bundles,
          BundleOf,            \* the bundle of each project
          StateNames, NewStates

ASSUME BundlesAssumption == BundleOf \in [Projects -> Bundles]
ASSUME NewStatesAssumption == NewStates \subseteq StateNames

VARIABLES
  resolved,  \* the states of each bundle that are resolved, in YouTrack
  known,     \* what the cache holds for each project
  request,   \* what the proxy is doing: "none", "issues", "statuses"
  todo,      \* the projects it has yet to ask about
  merged,    \* the resolved states of all projects asked about
  page,      \* the issues it converts
  shown,     \* the categories of the issues of the last answer
  listed,    \* the categories of the statuses of the last list
  current,   \* history: projects whose cache entry is what YouTrack has
  agreed     \* history: the answers whose data were current when read:
             \*   a subset of {"issues", "statuses"}

statusesVars == <<resolved, known, request, todo, merged, page, shown, listed,
          current, agreed>>

Issues == [project : Projects, state : StateNames]
Values == Bundles \X StateNames
Categories == {"new", "indeterminate", "done"}
ProjectsOf(issues) == {i.project : i \in issues}

StatusesTypeOK ==
  /\ resolved \in [Bundles -> SUBSET StateNames]
  /\ known \in [Projects -> SUBSET StateNames]
  /\ request \in {"none", "issues", "statuses"}
  /\ todo \subseteq Projects /\ merged \subseteq StateNames /\ page \subseteq Issues
  /\ DOMAIN shown \subseteq Issues /\ Range(shown) \subseteq Categories
  /\ DOMAIN listed \subseteq Values /\ Range(listed) \subseteq Categories
  /\ current \subseteq Projects /\ agreed \subseteq {"issues", "statuses"}
  /\ \A p \in current : known[p] = resolved[BundleOf[p]]

Empty == [v \in {} |-> "new"]

StatusesInit ==
  /\ resolved \in [Bundles -> SUBSET StateNames]
  /\ known = [p \in Projects |-> {}]
  /\ request = "none" /\ todo = {} /\ merged = {} /\ page = {}
  /\ shown = Empty /\ listed = Empty
  /\ current = {} /\ agreed = {}

-----------------------------------------------------------------------------
MapStateToCategory(state, resolvedStates) ==
  IF state \in resolvedStates THEN "done"
  ELSE IF state \in NewStates THEN "new" ELSE "indeterminate"

(* Issues come from YouTrack: a page of a search, or one issue. *)
HandleIssues(issues) ==
  /\ request = "none"
  /\ request' = "issues" /\ page' = issues
  /\ todo' = ProjectsOf(issues) /\ merged' = {}
  /\ shown' = Empty /\ agreed' = agreed \ {"issues"}
  /\ UNCHANGED <<resolved, known, listed, current>>

(* Seeded fault: the states of the last project replace the others'. *)
UseLast(p, states) ==
  /\ merged' = states
  /\ todo' = todo \ {p}
  /\ UNCHANGED <<resolved, request, page, shown, listed, agreed>>

Use(p, states) ==
  /\ merged' = merged \cup states
  /\ todo' = todo \ {p}
  /\ UNCHANGED <<resolved, request, page, shown, listed, agreed>>

(* GetOrFetch: what is cached, even if it is old or was never fetched ...  *)
UseCached(p) ==
  /\ request = "issues" /\ p \in todo
  /\ Use(p, known[p])
  /\ UNCHANGED <<known, current>>

(* ... or what is fetched, and cached. *)
Fetch(p) ==
  /\ request = "issues" /\ p \in todo
  /\ Use(p, resolved[BundleOf[p]])
  /\ known' = [known EXCEPT ![p] = resolved[BundleOf[p]]]
  /\ current' = current \cup {p}

ConvertIssues ==
  /\ request = "issues" /\ todo = {}
  /\ shown' = [i \in page |-> MapStateToCategory(i.state, merged)]
  /\ agreed' = IF ProjectsOf(page) \subseteq current
                 THEN agreed \cup {"issues"} ELSE agreed
  /\ request' = "none" /\ merged' = {} /\ page' = {}
  /\ UNCHANGED <<resolved, known, todo, listed, current>>

-----------------------------------------------------------------------------
(* The custom fields of all projects are read one project after the other. *)
HandleListStatuses ==
  /\ request = "none"
  /\ request' = "statuses" /\ todo' = Projects
  /\ listed' = Empty
  /\ agreed' = agreed \cup {"statuses"}
  /\ UNCHANGED <<resolved, known, merged, page, shown, current>>

(* A value that was listed for another project is not listed again.        *)
ListProject(p) ==
  LET bundle == BundleOf[p]
      new == {v \in {bundle} \X StateNames : v \notin DOMAIN listed}
  IN  /\ request = "statuses" /\ p \in todo
      /\ todo' = todo \ {p}
      /\ listed' = [v \in DOMAIN listed \cup new |->
                      IF v \in new THEN MapStateToCategory(v[2], resolved[bundle])
                                   ELSE listed[v]]
      /\ UNCHANGED <<resolved, known, request, merged, page, shown, current, agreed>>

(* A project whose fields cannot be had is skipped. *)
SkipProject(p) ==
  /\ request = "statuses" /\ p \in todo
  /\ todo' = todo \ {p}
  /\ UNCHANGED <<resolved, known, request, merged, page, shown, listed,
                 current, agreed>>

StatusesListed ==
  /\ request = "statuses" /\ todo = {}
  /\ request' = "none" /\ merged' = {}
  /\ UNCHANGED <<resolved, known, todo, page, shown, listed, current, agreed>>

(* A state becomes resolved, or is no longer.  Answers from before are not *)
(* compared with later ones, and forgotten.                                *)
FlagChanges(b, s) ==
  /\ resolved' = [resolved EXCEPT ![b] =
                    IF s \in @ THEN @ \ {s} ELSE @ \cup {s}]
  /\ current' = {p \in current : BundleOf[p] # b}
  /\ agreed' = {} /\ shown' = Empty
  /\ listed' = IF request = "statuses" THEN listed ELSE Empty
  /\ UNCHANGED <<known, request, todo, merged, page>>

StatusesNext ==
  \/ \E issues \in {{i, j} : i, j \in Issues} : HandleIssues(issues)
  \/ \E p \in Projects : UseCached(p) \/ Fetch(p)
  \/ ConvertIssues
  \/ HandleListStatuses
  \/ \E p \in Projects : ListProject(p) \/ SkipProject(p)
  \/ StatusesListed
  \/ \E b \in Bundles, s \in StateNames : FlagChanges(b, s)

StatusesSpec == StatusesInit /\ [][StatusesNext]_statusesVars

-----------------------------------------------------------------------------
(* An issue and the list of statuses can be compared when both were read   *)
(* since the last change of a flag, and the state is in the list.          *)
Value(i) == <<BundleOf[i.project], i.state>>
Comparable(i) == agreed = {"issues", "statuses"} /\ Value(i) \in DOMAIN listed

(* An issue that is answered alone, or with issues of its own project, has *)
(* the category that its state has in the list.  Issues of other projects  *)
(* on the page can make it done, but no state that is done in the list is  *)
(* ever anything else in an issue.                                         *)
OthersOnlyAddDone ==
  \A i \in DOMAIN shown :
    Comparable(i) =>
      \/ shown[i] = listed[Value(i)]
      \/ shown[i] = "done" /\ ProjectsOf(DOMAIN shown) # {i.project}

-----------------------------------------------------------------------------
(* What is written about this code and is not so: no run checks it, and    *)
(* TLC finds the counterexample within the bounds of the runs (README.md). *)

(* "This ensures status IDs and categories match what the issue converter  *)
(* produces on fields.status" (handler/pickers.go).                        *)
CategoriesMatch ==
  \A i \in DOMAIN shown : Comparable(i) => shown[i] = listed[Value(i)]
=============================================================================
