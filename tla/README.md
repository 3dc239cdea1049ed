# Verification of youtrack-proxy

youtrack-proxy answers Jira REST requests by calling YouTrack. It keeps no
database; all that its goroutines share is a semaphore that bounds the calls to
YouTrack and a cache of the resolved states of each project. What a client sees
is put together from several answers, each translated anew from data that change
in between. This directory holds TLA+ models of the shared components, of the
handlers that use them, of the sequences of requests whose answers have to agree
and of the release workflow; the TLC runs that check them; and TLAPS proofs of
what matters most. Paths below are relative to the repository.

## Inventory

| Component | Source | State | Operations | What makes it correct |
|---|---|---|---|---|
| Concurrency gate | `internal/client/youtrack.go:61-92`, `errors.go` | one `semaphore.Weighted` (count, list of waiters), a timer per waiting goroutine | `acquireSemaphore`, its deferred `release` | at most `YT_MAX_CONCURRENCY` calls; no slot lost in a race with the queue timeout; no one waits while a slot is free; arrival order |
| Resolved-state cache | `internal/service/resolved_cache.go` | `map[project]{states, fetchedAt}`, one `sync.RWMutex` | `GetOrFetch` | one fetch per ttl; bounded age of answers; a failed fetch loses nothing; every call returns |
| Upstream client | `internal/client/youtrack.go:94-441` | none besides the gate; page loops | one fetcher per resource, `CreateYouTrackIssue` | every call goes through the gate once; each error is told from the others |
| Request handlers | `internal/handler/*.go` | locals of one request | one per route | the answer follows from what the calls returned; a creation is never reported wrongly; every request is answered |
| Authentication | `internal/middleware/auth.go` | none | `BasicAuth` | only requests with credentials reach a handler |
| Filter resolution | `internal/service/filter.go` | none | `ResolveFilterProject` | errors reach the handler that knows what they mean |
| ID codec | `internal/idmap/idmap.go` | none | `Encode`, `Decode` | injective and reversible within its widths |
| Status categories | `internal/service/status.go` | none | `IsDoneState`, `MapStateToCategory`, `BuildResolvedStateSet` | a status has the same category wherever it is shown |
| Converters | `internal/service/converter*.go` | none | issue, comment, user, changelog, resolution date, create payload | grouping of activities; resolution date of done issues only |
| JQL translation | `internal/service/jql.go` | none | `ParseJQL`, `ToYouTrackQuery`, `stripParentheses` | no clause is lost or changes its meaning |
| Configuration, payload types, bootstrap, release workflow | `internal/config`, `internal/model`, `main.go`, `.github` | environment | `LoadConfig`, routes | clamped settings; unique tags |

How they interact: `net/http` runs one goroutine per connection. A handler calls
fetchers one after the other; each takes a slot of the gate, sends its request
and releases the slot on return. `HandleSearchIssues` and `HandleGetIssue` also
call `GetOrFetch`, whose fetch is itself such a call, made **with the write lock
of the cache held**. So the two shared components nest in one order only: lock,
then slot.

Hard behaviours: the hand-over of a slot racing the queue timeout; what was
checked under the read lock being stale under the write lock; a lock held while
waiting for a slot; requests of several calls, some of which may fail unnoticed;
a POST whose answer is lost; pages cut from lists that change between the calls;
two answers about one thing computed from different readings; IDs packed into
numbers; release runs that overlap, fail half-way or are run again.
`PROJECT.json` lists them under `hazards`, each at its line with the property that
covers it.

## Modules

| Module | Models |
|---|---|
| `Gate` | `acquireSemaphore` and `release`, with the list of `x/sync/semaphore` |
| `BoundedCalls` | what the gate promises: a counter that admits or refuses |
| `GateRefinement` | the mapping from `Gate` to `BoundedCalls` |
| `ResolvedCache` | `GetOrFetch`, the `RWMutex` with its pending writer, YouTrack's data, the clock |
| `KnownStates` | what the cache promises: one register per project that never goes back |
| `CacheRefinement` | the mapping from `ResolvedCache` to `KnownStates` |
| `Handlers` | every handler as a table: stages, outcomes of calls, what follows |
| `Proxy` | connections that run the handlers, `Gate` and `ResolvedCache` composed |
| `PageLoop` | the page loop of `GetProjects` and `CountIssues` over a list that changes |
| `ProjectList` | `GetProjects`, extending `PageLoop` |
| `SearchPaging` | a client paging through `HandleSearchIssues`, whose totals `PageLoop` counts |
| `IdMap` | `Encode`, `Decode` and `Fits` as arithmetic on fields |
| `BoardSync` | from the list of boards to the issues of one, by the numbers of `IdMap` |
| `FieldValues` | a value in the lists, in an issue and in its form, by the numbers of `IdMap` |
| `Statuses` | status categories of issues and of the status list |
| `Resolution` | category and resolution date of an issue that moves while it is read |
| `Changelog` | a client paging through the changelog of an issue |
| `Parentheses` | `stripParentheses`, token by token |
| `JQL` | `ParseJQL` and `ToYouTrackQuery` on what it leaves |
| `Grammar` | the grammar of the JQL that the proxy supports, recursive, against which TLC checks `IsQuery` of `JQL` |
| `Release` | the release workflow with GitHub's concurrency group |
| `MCGate`, `MCResolvedCache`, `MCProxy`, `MCProjectList`, `MCSearchPaging`, `MCBoardSync`, `MCFieldValues` | constants and symmetry for TLC |
| `MCTranslation` | `Statuses`, `Resolution`, `Changelog` and `JQL` (with its `Grammar`) side by side, with their constants |
| `GateProofs`, `ResolvedCacheProofs`, `ProxyProofs`, `FieldValuesProofs`, `BoardSyncProofs`, `ReleaseProofs` | theorems and lemmas about the module of that name |
| `PagingProofs` | those about `PageLoop`, `ProjectList` and `SearchPaging` |
| `TranslationProofs` | those about `Statuses`, `Resolution`, `Changelog`, `Parentheses` and `JQL` |

Definitions commented "Seeded fault" are used by no specification: they are the
plausible mistakes (`mutants` in `PROJECT.json`) that show each property can fail.

### Gate

`cur` and `waiters` are the semaphore's fields, `slot[c]` is where goroutine `c`
is (`idle`, `entering`, `queued`, `ready`, `held`), `late[c]` says that its
context is done. `ready` is the window in which the semaphore has given the slot
away and the waiter has not run yet; if the timer fires in it, `Acquire` puts the
slot back (`PutBack`), as version 0.24.0 of the library does. `TakeFreeSlot`,
`Enqueue`, `Admit`, `Abandon`, `PutBack`, `RefuseAtEntry` are the atomic sections
of `Acquire` under the semaphore's own mutex; `Release` is the deferred function.
The library is external code, modelled from what the proxy relies on.

### ResolvedCache

`pc[c]` follows `GetOrFetch` line by line (the module's header lists the values).
The states of a project are a version number, `0` for the empty set used when
nothing is known. `ChangeStates` lets an administrator change them at any moment;
`Sample` is the moment YouTrack reads them, so an answer may be old when stored.
`FetchFails` covers every error of the fetch, the queue timeout included, before
or after YouTrack read the states. `asOf` and `fetchStart` are history variables:
no guard but the clock's (`Tick` ends fetches within `FetchTime`) reads them.

### Handlers and Proxy

A handler is a record: `enter` for what may follow its own checks, then one field
per call with the successors of each outcome (`ok`, `missing`, `failed`, `busy`),
or one field `states` for the return of `GetOrFetch`. Data is abstracted to the
choice among successors: whether an issue is done, how many pages there are,
whether an ID decodes. `Proxy` walks a connection through the table:
`Receive`, then per call `Ask`, `Enqueue`, `Admitted` or `TurnedAway`,
`SendOut`, `CallAnswered`, `CallReturns`; per lookup `LookUp`, `InCache`, `Fetch` (which leads to a call),
`Store` or `GiveUpFetch`, `LookedUp`. The gate and the cache are `INSTANCE`s, and
their actions are conjuncts of the proxy's. `http` is what is really open to
YouTrack, apart from what the gate believes: `SendOut` opens it, `CallAnswered`
ends it with an outcome when the body was read and closed, and `CallReturns` runs
the deferred release. So that requests are bounded (`SlotsBoundRequests`) does not
follow from the gate alone; it is about requests that the proxy waits for, since
YouTrack may go on with one that was given up. `posted` is YouTrack's side of a
creation: `CreateInYouTrack` may happen after the proxy has given up on the POST,
until the connection brings its next request. `trouble` is a history of the calls
that did not end well, read by the properties only. `FailuresDecideAnswers` is not
an equivalence of success and the lack of failures: a request may also be answered
400, 404 or 500 for reasons of its own. It says that a failure the request depends
on is told, as what it was, and that 502 and 503 tell of nothing else.

### PageLoop, ProjectList, SearchPaging

`list` is what YouTrack would answer now; `skip` and `fetched` are the locals of
the loop (`youtrack.go:227-262`, `364-393`), which ends with a page that is not full.
Items appear, disappear and move between two calls. `ProjectList` adds `seen` and
`all`, a bag because only how often a project is answered is in question, and
renamings, which move a project in the sorted list. `SearchPaging` adds the client: it asks from as many issues as it has (`AskFor`), the handler answers
a short page with `startAt` and its length for a total (`ShortPage`) and counts
for a full one; a count that fails leaves the page for a total, one that finds no
slot is a 503, after which the client asks again. `maxResults` is capped.
`steady`, `failed`, `expected`, `smallest` and `largest` are histories.

### IdMap, BoardSync, FieldValues

A field of n bits is given by its capacity 2^n, so shifts are products and masks
are remainders; the two layouts (`type-seq`, `type-seq.cat-event`) differ in the
flag above them. `BoardSync` makes a board of each project in `Encodable` (the k-th
of them is at `Nth(k)`), as the loop in `boards.go:37-54` does, and walks a client from `HandleListBoards` by
`HandleBoardConfiguration` and `HandleGetFilter` to a search, with ints that wrap
at `MaxInt`. The client searches with the JQL of the filter, with `filter = N`, or
with both. `FieldValues` keeps what three handlers say of the values of Type or
State: the list (one reading per project, `pickers.go`), an issue, and the form
(`converter_read.go:400-416`), while values are renamed, offered and withdrawn.

### Statuses, Resolution, Changelog, Parentheses, JQL

These translate what was just read and share no state, so `MCTranslation` checks
them side by side: `part`, chosen at the start, says which one a behaviour is of.
`Statuses` takes from `KnownStates` that the cache holds some earlier set of each
project, merges those of a page (`issues.go:117-131`) and compares with the list.
`Resolution` reads the issue, then the states, then at most `Top` activities, and
lets the issue move in between. `Changelog` cuts pages from the activities and
groups them one by one (`GroupNext`, `converter_read.go:472-482`): each goes to the
history of its time and author or begins one, so `histories` is at once the code's
`keyOrder` and `grouped`. Its client goes on behind the histories it got.

`Parentheses` lets a client write any query out of `Fragments` and then goes through
it as `stripParentheses` does, one action per branch of its loop: `scanned` is `i`,
`result`, `depth` and `inListDepth` are the code's, `verdict` says whether it
returned and with an error or not. `JQL` parses the `result` of an accepted query;
`Matches` is the meaning that the query has in Jira, against which the translation
is compared. `IsQuery` says which queries consist of supported clauses: not by a
recursion, but of each token what may stand before it, so that it can be proved
about. `Grammar` has the recursive grammar; that the two agree is assumed there
(`QueriesAreExpressions`), so TLC evaluates it, for all queries of up to
`MaxWritten` fragments, and `QueriesAreTheExpressions` proves it for all.

### Release

One process per push to the default branch: `Checkout` (which fetches the tags),
`ComputeVersion`, `BuildAndPush`, `CreateRelease`. `Queue` is GitHub's concurrency
group, external and modelled as its documentation has it: one run in progress, one
pending, and a newer one cancels the pending. Days change between steps, runs fail
at any step and are run again, releases are deleted with their tags.

Users also push version tags (`v1.2.3`) of commits of the branch (`PushTag`). The run
of a tag is in a group of its own and at any time, first or again, pushes `latest`
(`BuildTagged`): `metadata-action` adds `latest` to an image that got a tag from
`type=semver`. It computes no version and makes no release. The tags of the
releases start no run, since the workflow's own token creates them.

## Runs

Deadlock is checked in every run but `release`, which stops when all pushes are
used up.

| Run | Bounds | Shows |
|---|---|---|
| `gate` | 4 callers, 2 slots | `GateTypeOK`, `SlotsAccounted`, `WorkConserving`, `ListIsTheBlocked`, `FirstComeFirstServed`, `EveryCallEnds`, refinement of `BoundedCalls` with its fairness. Two holders and two queued callers give every hand-over, timeouts in any order |
| `cache` | 2 callers, 2 projects, ttl 2, fetch 1, 2 versions, 4 ticks | `CacheTypeOK`, `WriterExcludesAll`, `OneRefreshPerTTL`, `HitsAreRecent`, refinement of `KnownStates`, `EveryCallReturns`. An entry expires twice; one caller misses or reads while the other fetches for the same or the other project. More callers add readers only, and the safety part is proved for any number |
| `proxy_handlers` | 1 connection, all 21 routes, 2 projects, 1 repeat per request | `ProxyTypeOK`, `FailuresDecideAnswers` over every path of every handler |
| `proxy_contention` | 2 connections, 1 slot, getting an issue and creating one, expiry | `LockBeforeSlot`, `CreateAnswersAreHonest`, `SlotsBoundRequests`, `EveryRequestIsAnswered`. One holds what the other queues for, lock or slot; the safety part is proved for any number |
| `filter_of_missing_project` | 1 connection | violation, see below |
| `busy_creation` | 2 connections, 1 slot | violation, see below |
| `project_list` | 4 projects, pages of 2, 2 deletions or renamings per call | `EachProjectOnce`, `EachLossExplained`, `LoopEnds`. A full last page, an empty one, and a project that crosses a page border in either direction |
| `search_paging` | 4 issues, pages, batches and cap of 2, client asks for up to 3 | `CountIsBetween`, `NoGapsNoRepeats`, `SyncIsComplete`. Requests above and below the cap; a page past the end; lists that change in a count and between pages |
| `board_sync` | 4 projects of which one fits no number and one is number 0, 4 names, ints up to 7 | `ListingIsComplete` (with `maxResults` near the largest int), `BoardLeadsToProject` |
| `field_values` | 2 projects, 3 values, 2 names | `IdsStandForOneValue`, `IssueValueIsListed`. A value shared by both projects and renamed between the two readings; one whose ID fits no number |
| `translation` | 3 projects of which 2 share a bundle, 2 states; 5 activities of which 4 are read; 5 activities, 2 times, 2 authors; 5 fragments | `OthersOnlyAddDone`, `DatesAreRight`, `PageIsPartitioned`, `NothingSkipped`, `ParenthesesDecide`, `QueriesAreAnswered`. Five fragments hold two clauses of a kind around a connector within parentheses, a list left open, or (as some are whole lists) a list within another behind a third. `IsQuery` is compared with the grammar for up to 4 fragments |
| `release` | 4 pushes, 2 days, 1 re-run, 1 version tag, 1 deletion | `TagsMatchImages`, `NumberedWithoutGaps`, `LatestFollowsMain`, `EveryRunEnds`. One run in progress, one pending, one cancelled, one to come; a re-run or the run of a tag between any steps of these |

The type invariants of the modules that no run names (`PageLoopTypeOK`,
`ProjectListTypeOK`, `SearchPagingTypeOK`, `BoardSyncTypeOK`, `FieldValuesTypeOK`,
`StatusesTypeOK`, `ResolutionTypeOK`, `ChangelogTypeOK`, `ParenthesesTypeOK`,
`ReleaseTypeOK`) document
the variables. All are conjuncts of invariants that are proved, but for the last,
which is proved without TLC's bounds (`WorkflowTypeOK`) and holds with them when
added to the `INVARIANTS` of `MCRelease.cfg`.

Bounds that are not in the code: `MaxVersion` (changes in YouTrack), `MaxTime`
(ticks), `MaxRepeats` (iterations of a request's loops, which the data bounds),
`MaxShifts`, `MaxNames`, `MaxChanges`, `MaxActivities`, `MaxFragments`, `MaxWritten`, `MaxPushes`, `MaxDays`,
`MaxReruns`, `MaxTags`, `MaxDeletions`. `PageSize`, `Cap`, `Top`, `MaxInt` and the capacities
of `IdMap` stand for 100 or 10000, 1000, 100, 2^63 - 1 and powers of two.

### Where the code and its documents disagree

* `filter_of_missing_project`: `errors.go:31-34` says 404 and 403 "should be
  treated as empty results in search contexts" and `issues.go:80-82` that a broken
  project must not fail a pipeline. A search with a filter whose project is gone
  is answered 502 (`issues.go:58-64`).
* `busy_creation`: `.kiro/steering/build.md:74` says a request waits for a slot
  "before 503". `HandleCreateIssue` answers a bare 500 when its POST is the call
  that found no slot (`handler.go:61-65`), although nothing was sent and the
  client could safely send again.

Further statements that the models refute. They are definitions at the end of
their modules and in no run; to see the counterexample, put the name under
`INVARIANTS` (`PROPERTIES` for `ShortPageIsLast` and `LatestTracksMain`) of the module's `.cfg`, without
`SYMMETRY`.

| Definition | What is said | What the code does |
|---|---|---|
| `ProjectList!EveryProjectRetrieved` | "retrieves every project" (`youtrack.go:227`) | a deletion or renaming between two pages (`:234`) makes it miss one |
| `SearchPaging!TotalCoversPage` | `total >= len(issues)` (`devlake_integration_test.go:2290-2292`) | the count is a later call (`issues.go:99`) and may be smaller |
| `SearchPaging!ShortPageIsLast` | a short page is the last and its total accurate (`issues.go:93`) | past the end, `startAt` is the total (`issues.go:97`) |
| `BoardSync!FilterFindsItsProject` | every board and filter ID decodes back (`README.md:129`, `idmap_property_test.go:29`) | 0 is the ID of project `0-0` and means no filter (`issues.go:42`) |
| `Statuses!CategoriesMatch` | the list matches what issues show (`pickers.go:75-76`) | resolved states of all projects on the page are merged (`issues.go:117-131`) |
| `Resolution!ResolutionDateMeansDone` | the date is null for issues that are not done (`converter_read_property_test.go:611-612`) | a search with changelog writes the date of a reopened issue (`issues.go:158-162`) |
| `Resolution!DateIsOfTheLast` | derived from the last transition to done (`README.md:117`) | only the first 100 activities are read (`issues.go:140,230`) |
| `Changelog!OneHistoryPerBatch` | activities of one time and author are one history (`README.md:115`) | a page border divides them (`converter_read.go:484`) |
| `FieldValues!FormAllowsTheValue` | IDs of values are numeric encodings (`README.md:107`) | the form has YouTrack's own IDs (`converter_read.go:408`) |
| `FieldValues!TooLargeIsSkipped` | an ID out of bounds is skipped (`README.md:131`) | it fails the whole list (`pickers.go:51-57,110-116`) |
| `Parentheses!UnbalancedIsRefused` | an error for unbalanced parentheses (`jql.go:52-53`) | a list left open is none (`jql.go:114`); `ParseJQL` refuses it as an unknown clause, unless it is within another list |
| `JQL!EveryClauseTranslated` | a fragment for each clause (`jql_property_test.go:138-141`) | of two clauses of a kind the first counts (`jql.go:167`) |
| `Release!QueuedRunsExecute` | "Queued runs still execute (no cancel)" (`build-and-push.yml:16-17`, `calver_test.go:213`) | a pending run is replaced by a newer one |
| `Release!LatestTracksMain` | "tracks the current `main` HEAD" (`README.md:28`) | a run of an older commit, run again or of a version tag (`build-and-push.yml:6,76-78`), takes it back |
| `Release!DatestampIsReused` | builds of a day share a tag (`README.md:194`) | each has a number of its own (`build-and-push.yml:50`) |

## Fairness

* A goroutine that can go on does: weak fairness of each step of each goroutine.
* The queue timer of a context fires: weak fairness of `QueueTimer`.
* `http.Client.Timeout` ends every call (`youtrack.go:48-58`), so `Release`,
  `CallReturns`, the end of a fetch and of a page (`Collect \/ GiveUp` of
  `ProjectList`) are weakly fair. Which outcome comes is not: nothing assumes
  that YouTrack answers well.
* `sync.RWMutex` hands its writer mutex to the longest waiter once that starves
  (starvation mode of `sync.Mutex`), which is strong fairness of `Announce`.
* GitHub goes on with a run to its end, by success or its own timeout: weak
  fairness of `Run(c)`.
* Clients, administrators, pushes and the clock are not fair. `SyncIsComplete` and
  `NothingSkipped` say what a client has when it stops, not that it does.

## Proofs

All proofs are for any finite set of callers or connections and any values of the
constants that the named assumptions allow. Most of these only give the constants
their types. `IssuesAssumption` and `ProjectsAssumption` are about the JQL: times and
keys are numbers, and a clause for a project or a filter has a value (number 0 is no
filter to the code, `issues.go:42`; what comes of that is shown in `BoardSync`).
Every safety property of the passing runs has a theorem.

* **Gate.** `GateInv` joins the type invariant, `SlotsAccounted`, `WorkConserving`
  and `ListIsTheBlocked`. None is inductive alone: that a release keeps the count
  needs the list to hold exactly the blocked callers, and that the count stays
  within bounds needs it to be exact. `NotifyRestores` is the heart: serving
  waiters after a slot was given back restores all four. From it follow
  `GateIsTyped`, `SlotsAreAccounted`, `GateIsWorkConserving`, `ListIsAccurate`, and,
  step by step, `GateIsFair` (`FirstComeFirstServed`: slots go to the head of the
  list only) and the refinement `GateImplementsBoundedCalls` (its safety part).
* **Cache.** `CacheInv` adds to `WriterExcludesAll` that entries and fetches in
  progress are no newer than the clock, no older than a fetch, and versions no
  newer than YouTrack's; `CacheIsTyped` and `WriterIsAlone` are among its
  conjuncts. `RefreshOncePerTTL` then needs the double check and the
  exclusion, `HitsStayRecent` the bound on a fetch, and
  `CacheImplementsKnownStates` that a fetch under the lock cannot be overtaken.
* **Proxy.** The lemmas `ProxyRunsGate` and `ProxyRunsCache` show that each step of
  the composition is a step of the gate (the cache) or leaves it alone, so the
  theorems above hold of the program with all its handlers;
  `ProxyAccountsForSlots` and `ProxyFetchesAlone` carry two of them over. The
  proxy's own invariants, `ProxyIsTyped`, `LockComesBeforeSlot`,
  `CreationsAreHonest`, `AnswersFollowFailures` (`FailuresDecideAnswers`) and
  `RequestsAreBounded` (`SlotsBoundRequests`),
  follow from `ProxyInv`, which ties a connection's place in the gate, in the cache,
  in its exchange with YouTrack and in its POST to its
  stage. Its conjunct `HttpFits` says that what is open to YouTrack, or was answered
  and not yet returned, belongs to a connection that holds a slot; the requests that
  are open are then no more than the slots held, which the gate counts. `ProxyInv`
  is needed because neither invariant knows which stages lead to which:
  that is what the first lemmas take from the tables, once per kind of handler
  (`Plain`, `Caching`, the creation). `LeavingIsPrivate`, a lemma of the gate,
  says that the end of one connection's call draws no other one into the gate.

* **Page loops.** `LoopInv` says that `skip` counts what was fetched and never
  exceeds the largest length the list had; `CountsAreBetween` follows because the
  last page ends with the list. `LossInv` adds that of the projects that were there
  all the time, no more are behind `skip` and unseen than there were shifts: a
  page adds none, a deletion or renaming moves at most one back
  (`LossesAreExplained`); the argument counts the projects
  before `skip`, so it needs cardinalities of ranges. That the bag `all` holds what
  was seen, each once, is a conjunct too (`ProjectsAreDistinct`). `SearchInv` says that what
  the client has is a prefix of the list while that grows only at its end; with it
  `PagesAreContiguous` needs the page to begin where the client is, and
  `SyncsAreComplete` that a total never falls short without a failure.
* **IDs and values.** `NumbersAreReversible` and `NumbersFitInt64` hold for fields
  of any capacity, by the uniqueness of quotient and remainder, one field at a
  time. On them rests `ValuesInv`: every ID in an answer is the number of its value
  or YouTrack's own, a list has a value once, and a complete one covers all
  projects it has read. `IdsAreUnambiguous` and `IssuesMatchLists` follow from it.
* **Boards.** `BoardInv` has three parts. `NamesAreUnique`: no two projects share a
  short name, deleted ones included. `ListingFollows`: what was listed is a prefix of
  `Boards` while projects only come at the end, which rests on `BoardsGrow`, that
  `Nth(k)` stays where it is then; `PagesInRange` shows where the sum of `startAt`
  and `maxResults` cannot wrap. `WalkFollows`: every name or number the client holds
  leads to its board's project or, once that was renamed or deleted, to none, and
  only number 0 leads to all. `ListingsAreComplete` and `BoardsLeadToProjects`
  follow. The walk needs `NumbersAreReversible`, and that names are never reused: a
  project created while a filter is resolved is then nobody else's.
* **Statuses.** `StatusesInv` says that what was merged so far is exactly what the
  projects asked about have resolved, if their cache entries are current, and that
  answers of current data show it. `StatusesOthersOnlyAddDone` compares the two
  answers: another project of the page can only add to the resolved states.
* **Resolution.** `ResolutionInv` ties the dates to the activities: the last
  transition to a resolved state is at `entered` (`DatesOfChanges`), and a state
  whose issue was resolved at some time was entered then or later (`CameLater`). The
  latter is kept for the issue as it was read too, so whatever happened since, the
  last transition found is no earlier than the date read. From this follows `ResolutionDatesAreRight`, which needs all
  activities to be within `Top`.
* **Changelog.** `ChangelogInv` joins the two properties with what the grouping has
  done so far: histories hold the activities of the page up to `grouped`, each has
  one, and there are no more of them than activities. The last is why a client that
  counts histories never gets ahead of YouTrack, which counts activities
  (`ChangelogNothingSkipped`); `ChangelogPageIsPartitioned` is a conjunct.
* **Parentheses.** `ParenthesesInv` says what the two depths count: of what was
  scanned of the query, "(" exceeds ")" by both together; of the result, by
  `inListDepth` alone. Neither holds without the other, since a "(" is counted by
  one depth and the ")" that closes it may be counted by the other (a group within a
  list). `ParenthesesAreDecided` follows for queries of any length: at the end only
  `inListDepth` can be left, and both excesses are equal to it.
* **JQL.** `ScanInv` (`QueriesAreKept`) adds to `ParenthesesInv` what the scanner
  keeps: its tokens come from the query in their order, every token but a
  parenthesis is kept, and if all lists of the query are closed and hold keys
  alone, of the parentheses just those of the lists are. This needs that
  `inListDepth` is 1 just inside such a list and 0 outside. In a query of supported
  clauses every list is of that kind, so what is left of it corresponds, position by
  position, to the query without its groups (`AreLeft`): its lists are the lists of
  the query, and outside of them are only clauses and connectors. So none is
  refused; the value of the first clause of a kind comes from the query, and if
  there is one of the kind, it is that one: the two inclusions of
  `QueriesAreAlwaysAnswered`. That nothing else is answered with a list left open
  goes by counting: each "(" that is left has a ")" of its own (`ListsAreClosed`).
  `QueriesAreTheExpressions` shows that `IsQuery` is the grammar, as the least set
  that has the clauses and lists, groups and connections (`HasConditions`): one
  half since `IsQuery` has them, the other since a shortest query that was not in
  the set could be taken apart, at the parenthesis that closes the first or at the
  connector behind the first condition (`QueryParts`). `ExpressionsAreAnswered`
  puts both together.
* **Release.** `ReleaseInv` says that one run is in progress, that the tags it
  fetched are those there are now (on days without deletions), so that the number
  it counted is not taken, and that while a run no user started is in progress,
  `latest` is of no newer commit but one with a version tag. `NumberedWithoutGaps`
  and `TagsMatchImages` are conjuncts; `LatestIsNewest` is a step from it. The group
  is what all three need.

Only model-checked: everything under fairness (`EveryCallEnds`, `EveryCallReturns`,
`EveryRequestIsAnswered`, `LoopEnds`, `EveryRunEnds`, the liveness part of
`BoundedCalls`), which needs ENABLED and is out of the prover's reach. That the
recursive `IsExpression` of `Grammar` is the least set of the proof is not stated as
a theorem, since nothing can be proved where a RECURSIVE operator is declared; TLC
compares it with `IsQuery`.

## Not modelled

* Configuration (`config.go`: environment variables, clamped; the clamp appears as
  `MaxConcurrencyAssumption`) and payload types (declarations).
* Copied fields of the converters (users, comments, summaries, names of changed
  fields) and the name tables of a creation: nothing else depends on them. The
  issue types inside a project's answer are fixed.
* Runs of the release workflow that push nothing the branch depends on: pull
  requests, branches other than the default one, pre-releases and tags that are no
  version; and of the run of a version tag, the images that are named after it.
* The ID that the converters make of the name of a value without one
  (`converter_read.go:324-327,409-412`): each call asks YouTrack for the ID.
* The text of tokens, headers, IDs and dates; `BasicAuth` is a 400 or 401.
* Totals and `isLast` of comments and changelogs: their clients here read until a
  page is empty.
* How long a request waits behind the fetches of others when failures are not
  remembered (`resolved_cache.go:67`): it grows with the number of connections,
  which nothing in the code bounds. That it ends is `EveryRequestIsAnswered`.
* Panics inside handlers other than the one in `HandleListBoards` (Recover answers
  500 and deferred releases and unlocks run), and clients that disconnect
  (handlers do not look at the request's context). `DisableConcurrency` is for tests.

External, and assumed as the code relies on it: the semaphore of `x/sync` and
`sync.RWMutex`; YouTrack answers pages by position, activities with the oldest
first, and never gives a short name to another project; GitHub's concurrency group.

## Plan

Done, in this order: `Gate`, `ResolvedCache`, `Handlers`, `Proxy` with their abstract
specifications and proofs; `PageLoop`, `ProjectList`, `SearchPaging` with theirs;
`IdMap` and `FieldValues` with theirs; `BoardSync`, `Statuses`, `Resolution` and
`Changelog` with theirs; `Parentheses` and `JQL` with theirs; `Release` with its proofs. What would come next:

1. A timed `Proxy` with a given number of connections, to state how long a search
   can wait behind failing fetches.
2. The clauses of `ParseJQL` as steps too, each removing what it read, so that
   `JQL`, which reads them at once, is shown to be what they do.
3. Totals and `isLast` of comments and changelogs, with a client that trusts them.
