------------------------------ MODULE Handlers ------------------------------
(***************************************************************************)
(* The handlers of internal/handler as tables.  A handler is a record from *)
(* its stages to what may follow each of them.  The stage "enter" is the   *)
(* handler's own work before its first call to YouTrack; a stage named     *)
(* after a call has one set of successors per outcome of that call; the    *)
(* rest of the handler's data is abstracted to the choice within a set.    *)
(*                                                                         *)
(* A call ends "ok", "missing" (YouTrack answers 404), "failed" (any other *)
(* status, a transport error, the request timeout, an oversized or an      *)
(* undecodable body) or "busy" (ErrQueueTimeout).  A reply is its status.  *)
(***************************************************************************)
Replies == {"200", "201", "400", "401", "404", "500", "502", "503"}
Outcomes == {"ok", "missing", "failed", "busy"}

On(ok, missing, failed, busy) ==
  [ok |-> ok, missing |-> missing, failed |-> failed, busy |-> busy]

(* handleQueueTimeout: a queue timeout answers 503, a failed call 502. *)
Mandatory(ok) == On(ok, {"502"}, {"502"}, {"503"})

(* Seeded fault: YouTrack's own status is passed on. *)
PassedOn(ok) == On(ok, {"404"}, {"502", "403"}, {"503"})

(* The same, with IsNotFound tested first. *)
NotFoundFirst(ok) == On(ok, {"404"}, {"502"}, {"503"})

(* A call whose errors are logged and skipped. *)
Tolerated(next) == On(next, next, next, next)

-----------------------------------------------------------------------------
(* The fetchFn that both callers of the cache pass to GetOrFetch.  "lookup" *)
(* is the call of GetOrFetch, "states" the time spent in it; the fetch ends *)
(* with states to store or without.                                         *)
FetchFn == On({"fetched"}, {"unfetched"}, {"unfetched"}, {"unfetched"})

(* Only a queue timeout of the count is reported; after it the states of   *)
(* every project among the issues are looked up, then the changelogs.      *)
AfterIssues == {"lookup", "200"}
HandleSearchIssues ==
  [enter |-> {"400", "filter", "issues"},
   filter |-> Mandatory({"issues"}),
   issues |-> On({"count"} \cup AfterIssues, {"200"}, {"200"}, {"503"}),
   count |-> On({"count"} \cup AfterIssues, AfterIssues, AfterIssues, {"503"}),
   fetching |-> FetchFn,
   states |-> {"lookup", "activities", "200"},
   activities |-> Tolerated({"activities", "200"})]

(* The activities are asked for only if the issue is done. *)
HandleGetIssue ==
  [enter |-> {"400", "issue"},
   issue |-> NotFoundFirst({"lookup"}),
   fetching |-> FetchFn,
   states |-> {"activities", "200"},
   activities |-> Tolerated({"200"})]

HandleGetIssueComments ==
  [enter |-> {"comments"}, comments |-> NotFoundFirst({"200"})]

HandleGetIssueEditMeta ==
  [enter |-> {"400", "issue"},
   issue |-> NotFoundFirst({"500", "fields"}),
   fields |-> On({"200"}, {"500"}, {"500"}, {"503"})]

HandleGetIssueChangelog ==
  [enter |-> {"400", "activities"}, activities |-> NotFoundFirst({"200"})]

(* Seeded faults: the failed POST is answered like every other failed call; *)
(* the issue is posted although its fields are unknown.                     *)
CreateLikeTheRest ==
  [enter |-> {"400", "fields"},
   fields |-> Mandatory({"400", "create"}),
   create |-> Mandatory({"201"})]

CreateAnyway ==
  [enter |-> {"400", "fields"},
   fields |-> Tolerated({"400", "create"}),
   create |-> On({"201"}, {"500"}, {"500"}, {"500"})]

(* Every error of the POST, a queue timeout included, is a bare 500. *)
HandleCreateIssue ==
  [enter |-> {"400", "fields"},
   fields |-> Mandatory({"400", "create"}),
   create |-> On({"201"}, {"500"}, {"500"}, {"500"})]

-----------------------------------------------------------------------------
(* GetProjects asks for pages until one is not full. *)
HandleListProjects ==
  [enter |-> {"projects"}, projects |-> Mandatory({"projects", "200"})]

HandleRecentProjects == HandleListProjects

HandleGetProject ==
  [enter |-> {"400", "project"}, project |-> NotFoundFirst({"200"})]

(* startAt + maxResults may overflow: the slice panics, Recover answers 500. *)
HandleListBoards ==
  [enter |-> {"projects"}, projects |-> Mandatory({"projects", "200", "500"})]

(* An ID that Decode refuses is a 404, a project YouTrack lacks a 502. *)
HandleBoardConfiguration ==
  [enter |-> {"400", "404", "project"}, project |-> Mandatory({"200"})]

HandleBoardSprints == [enter |-> {"400", "404", "200"}]

(* GetAllProjectCustomFields: "pages" follow a full first page, so there   *)
(* are projects; "more" follows once one project's fields were collected.  *)
(* Encoding a collected bundle value may fail.                             *)
HandleListIssueTypes ==
  [enter |-> {"projects"},
   projects |-> Mandatory({"pages", "fields", "200"}),
   pages |-> Mandatory({"pages", "fields"}),
   fields |-> On({"more", "200", "500"}, {"fields", "200"}, {"fields", "200"},
                 {"fields", "200"}),
   more |-> Tolerated({"more", "200", "500"})]

HandleListStatuses == HandleListIssueTypes

HandleUserPicker == [enter |-> {"200", "users"}, users |-> Mandatory({"200"})]

HandleGetCurrentUser == [enter |-> {"me"}, me |-> Mandatory({"200"})]

HandleSearchUsers == [enter |-> {"400", "users"}, users |-> Mandatory({"200"})]

HandleGetUser ==
  [enter |-> {"400", "users"}, users |-> Mandatory({"200", "404"})]

HandleGetFilter ==
  [enter |-> {"400", "404", "project"}, project |-> Mandatory({"200"})]

(* Static answers: filter search, fields, server info, worklog, links. *)
StaticAnswer == [enter |-> {"200"}]

(* The middleware of every group refuses bad credentials. *)
BasicAuth == {"400", "401"}

-----------------------------------------------------------------------------
(* The routes; "static" stands for all those with a static answer, health  *)
(* for the one outside the groups.                                         *)
Routes ==
  [searchIssues |-> HandleSearchIssues,
   getIssue |-> HandleGetIssue,
   comments |-> HandleGetIssueComments,
   editMeta |-> HandleGetIssueEditMeta,
   changelog |-> HandleGetIssueChangelog,
   createIssue |-> HandleCreateIssue,
   listProjects |-> HandleListProjects,
   recentProjects |-> HandleRecentProjects,
   getProject |-> HandleGetProject,
   listBoards |-> HandleListBoards,
   boardConfiguration |-> HandleBoardConfiguration,
   boardSprints |-> HandleBoardSprints,
   issueTypes |-> HandleListIssueTypes,
   statuses |-> HandleListStatuses,
   userPicker |-> HandleUserPicker,
   currentUser |-> HandleGetCurrentUser,
   searchUsers |-> HandleSearchUsers,
   getUser |-> HandleGetUser,
   getFilter |-> HandleGetFilter,
   static |-> StaticAnswer,
   health |-> StaticAnswer]

Handlers == DOMAIN Routes
FirstStages(h) == Routes[h].enter \cup (IF h = "health" THEN {} ELSE BasicAuth)

(* The stages in which a goroutine calls YouTrack through the gate, by the *)
(* fetcher: GetProject for a filter, CountIssues, GetIssues, ...           *)
CallStages ==
  {"filter", "issues", "count", "fetching", "activities", "issue", "comments",
   "fields", "more", "create", "projects", "pages", "project", "users", "me"}

Stages ==
  CallStages \cup Replies \cup {"none", "lookup", "states", "fetched", "unfetched"}
=============================================================================
