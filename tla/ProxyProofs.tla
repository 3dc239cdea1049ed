---------------------------- MODULE ProxyProofs -----------------------------
(***************************************************************************)
(* What the tables of Handlers guarantee to the proxy that follows them:   *)
(* the stages of each handler are closed under its table, only the two     *)
(* handlers that use the cache come near its stages, and only the creation *)
(* of an issue posts one.                                                  *)
(*                                                                         *)
(* Then: the proxy implements its two shared components, so their theorems *)
(* hold of the composition; and its own invariants: a slot for each        *)
(* request, no circular wait between the cache lock and the gate, honest   *)
(* answers to creations, and answers that follow from what failed.         *)
(***************************************************************************)
EXTENDS Proxy, FiniteSetTheorems, TLAPS

GateThms == INSTANCE GateProofs WITH Callers <- Conns
CacheThms == INSTANCE ResolvedCacheProofs WITH Callers <- Conns, NoCaller <- NoConn

-----------------------------------------------------------------------------
Cachers == {"searchIssues", "getIssue"}
Inner == {"states", "fetching", "fetched", "unfetched"}

(* The stages a request for h goes through, and those outside GetOrFetch. *)
TableStages(R) == (DOMAIN R \ {"enter"}) \cup Replies
OwnStages(h) ==
  TableStages(Routes[h]) \cup (IF h \in Cachers THEN {"lookup"} \cup Inner ELSE {})
OuterStages(h) == OwnStages(h) \ Inner

(* A table that stays clear of the cache and posts nothing. *)
Plain(R) ==
  /\ DOMAIN R \ {"enter"} \subseteq CallStages \ {"fetching", "create"}
  /\ R.enter \subseteq TableStages(R)
  /\ \A c \in DOMAIN R \ {"enter"} : \A o \in Outcomes : R[c][o] \subseteq TableStages(R)

(* A table that enters the cache by "lookup" and leaves it by "states". *)
Caching(R) ==
  LET Outer == (TableStages(R) \cup {"lookup"}) \ Inner
  IN /\ R.enter \subseteq Outer
     /\ \A c \in DOMAIN R \ {"enter", "fetching", "states"} :
          /\ c \in CallStages \ {"create"}
          /\ \A o \in Outcomes : R[c][o] \subseteq Outer
     /\ {"fetching", "states"} \subseteq DOMAIN R
     /\ R.fetching = FetchFn
     /\ R.states \subseteq Outer

-----------------------------------------------------------------------------
LEMMA IssueTypesTable == Plain(HandleListIssueTypes)
<1> DEFINE R == HandleListIssueTypes
<1> USE DEF HandleListIssueTypes
<1>1. DOMAIN R = {"enter", "projects", "pages", "fields", "more"}
  OBVIOUS
<1>2. TableStages(R) = {"projects", "pages", "fields", "more"} \cup Replies
  BY <1>1 DEF TableStages
<1>3. R.enter \subseteq TableStages(R)
  BY <1>2
<1>4. \A o \in Outcomes : /\ R.projects[o] \subseteq {"pages", "fields", "200", "502", "503"}
                          /\ R.pages[o] \subseteq {"pages", "fields", "502", "503"}
  BY DEF Outcomes, On, Mandatory
<1>5. \A o \in Outcomes : /\ R.fields[o] \subseteq {"more", "fields", "200", "500"}
                          /\ R.more[o] \subseteq {"more", "200", "500"}
  BY DEF Outcomes, On, Tolerated
<1>6. {"200", "500", "502", "503"} \subseteq Replies
  BY DEF Replies
<1> HIDE DEF HandleListIssueTypes
<1>7. \A c \in DOMAIN R \ {"enter"}, o \in Outcomes : R[c][o] \subseteq TableStages(R)
  BY <1>1, <1>2, <1>4, <1>5, <1>6
<1> QED
  BY <1>1, <1>3, <1>7 DEF Plain, CallStages

LEMMA PlainTables ==
  \A h \in Handlers \ (Cachers \cup {"createIssue"}) : Plain(Routes[h])
<1> USE DEF Plain, TableStages, CallStages, Outcomes, Replies, On, Mandatory, NotFoundFirst
<1>1. Plain(HandleGetIssueComments) BY DEF HandleGetIssueComments
<1>2. Plain(HandleGetIssueEditMeta) BY DEF HandleGetIssueEditMeta
<1>3. Plain(HandleGetIssueChangelog) BY DEF HandleGetIssueChangelog
<1>4. Plain(HandleListProjects) BY DEF HandleListProjects
<1>5. Plain(HandleGetProject) BY DEF HandleGetProject
<1>6. Plain(HandleListBoards) BY DEF HandleListBoards
<1>7. Plain(HandleBoardConfiguration) BY DEF HandleBoardConfiguration
<1>8. Plain(HandleBoardSprints) BY DEF HandleBoardSprints
<1>9. Plain(HandleListIssueTypes) BY IssueTypesTable
<1>10. Plain(HandleUserPicker) BY DEF HandleUserPicker
<1>11. Plain(HandleGetCurrentUser) BY DEF HandleGetCurrentUser
<1>12. Plain(HandleSearchUsers) BY DEF HandleSearchUsers
<1>13. Plain(HandleGetUser) BY DEF HandleGetUser
<1>14. Plain(HandleGetFilter) BY DEF HandleGetFilter
<1>15. Plain(StaticAnswer) BY DEF StaticAnswer
<1> HIDE DEF Plain
<1> QED
  BY <1>1, <1>2, <1>3, <1>4, <1>5, <1>6, <1>7, <1>8, <1>9, <1>10, <1>11,
     <1>12, <1>13, <1>14, <1>15
     DEF Routes, Handlers, Cachers, HandleRecentProjects, HandleListStatuses

LEMMA CreateTable ==
  /\ HandleCreateIssue.enter = {"400", "fields"}
  /\ DOMAIN HandleCreateIssue = {"enter", "fields", "create"}
  /\ \A o \in Outcomes :
       /\ HandleCreateIssue.fields[o] \subseteq {"400", "create", "502", "503"}
       /\ HandleCreateIssue.create[o] = IF o = "ok" THEN {"201"} ELSE {"500"}
BY DEF HandleCreateIssue, Outcomes, On, Mandatory

LEMMA SearchTable == Caching(HandleSearchIssues)
<1> DEFINE R == HandleSearchIssues
           Outer == {"filter", "issues", "count", "activities", "lookup"} \cup Replies
<1> USE DEF HandleSearchIssues, Outcomes, Replies, On, AfterIssues
<1>1. DOMAIN R = {"enter", "filter", "issues", "count", "fetching", "states", "activities"}
  OBVIOUS
<1>2. (TableStages(R) \cup {"lookup"}) \ Inner = Outer
  BY <1>1 DEF TableStages, Inner
<1>3. R.enter \subseteq Outer
  OBVIOUS
<1>4. \A o \in Outcomes : R.filter[o] \subseteq Outer
  BY DEF Mandatory
<1>5. \A o \in Outcomes : R.issues[o] \subseteq Outer
  OBVIOUS
<1>6. \A o \in Outcomes : R.count[o] \subseteq Outer
  OBVIOUS
<1>7. \A o \in Outcomes : R.activities[o] \subseteq Outer
  BY DEF Tolerated
<1>8. R.fetching = FetchFn
  OBVIOUS
<1>9. R.states \subseteq Outer
  OBVIOUS
<1> HIDE DEF HandleSearchIssues, Outer, Outcomes, Replies, On, AfterIssues
<1> QED
  BY <1>1, <1>2, <1>3, <1>4, <1>5, <1>6, <1>7, <1>8, <1>9 DEF Caching, CallStages

LEMMA GetTable == Caching(HandleGetIssue)
BY DEF Caching, HandleGetIssue, TableStages, CallStages, Inner, Outcomes, Replies,
       On, NotFoundFirst, Tolerated, FetchFn

LEMMA CachingTables == \A h \in Cachers : Caching(Routes[h])
BY SearchTable, GetTable DEF Cachers, Routes

-----------------------------------------------------------------------------
(* The first stage of a request, BasicAuth included, is no stage of the    *)
(* cache, no creation and no success of one.                               *)
LEMMA FirstStagesAreOuter ==
  ASSUME NEW h \in Handlers, NEW s \in FirstStages(h)
  PROVE  s \in OuterStages(h) /\ s \in OwnStages(h) \ {"create"}
                              /\ (h = "createIssue" => s # "201")
<1>1. BasicAuth \subseteq Replies /\ Replies \cap Inner = {} /\ "create" \notin Replies
  BY DEF BasicAuth, Replies, Inner
<1>2. CASE h \in Cachers
  <2>1. PICK R : R = Routes[h] /\ Caching(R)
    BY <1>2, CachingTables
  <2> QED BY <1>1, <1>2, <2>1 DEF FirstStages, Caching, OuterStages, OwnStages, Cachers, TableStages
<1>3. CASE h = "createIssue"
  <2>1. Routes[h] = HandleCreateIssue
    BY <1>3 DEF Routes
  <2>2. s \in {"400", "401", "fields"}
    BY <1>3, <2>1, CreateTable DEF FirstStages, BasicAuth
  <2>3. s \in TableStages(HandleCreateIssue)
    BY <2>2, CreateTable DEF TableStages, Replies
  <2> QED
    BY <2>1, <2>2, <2>3 DEF OuterStages, OwnStages, Inner
<1>4. CASE h \notin Cachers \cup {"createIssue"}
  BY <1>1, <1>4, PlainTables
     DEF FirstStages, OuterStages, OwnStages, TableStages, Plain, CallStages, Inner
<1> QED BY <1>2, <1>3, <1>4

(* Only the two handlers with a fetchFn reach the stages of GetOrFetch, and *)
(* only the creation of an issue reaches its POST.                         *)
LEMMA StagesTellHandlers ==
  ASSUME NEW h \in Handlers
  PROVE  /\ OwnStages(h) \cap (Inner \cup {"lookup"}) # {} => h \in Cachers
         /\ "create" \in OwnStages(h) => h = "createIssue"
<1>1. Replies \cap (Inner \cup {"lookup", "create"}) = {}
  BY DEF Replies, Inner
<1>2. CASE h \in Cachers
  <2>1. Caching(Routes[h])
    BY <1>2, CachingTables
  <2> QED
    BY <1>1, <1>2, <2>1 DEF Caching, OwnStages, TableStages, Inner
<1>3. CASE h = "createIssue"
  <2>1. Routes[h] = HandleCreateIssue
    BY <1>3 DEF Routes
  <2> QED
    BY <1>1, <1>3, <2>1, CreateTable DEF OwnStages, TableStages, Cachers, Inner
<1>4. CASE h \notin Cachers \cup {"createIssue"}
  <2>1. Plain(Routes[h])
    BY <1>4, PlainTables
  <2> QED
    BY <1>1, <1>4, <2>1 DEF Plain, OwnStages, TableStages, CallStages, Inner
<1> QED BY <1>2, <1>3, <1>4

(* A call other than the fetch leads to a stage outside GetOrFetch; a POST *)
(* is answered 201 or 500 by its outcome, and nothing else by 201.         *)
LEMMA CallsLeadOut ==
  ASSUME NEW h \in Handlers, NEW c \in (OwnStages(h) \cap CallStages) \ {"fetching"},
         NEW o \in Outcomes, NEW s \in Routes[h][c][o]
  PROVE  /\ s \in OuterStages(h)
         /\ h = "createIssue" /\ c = "create" => s = IF o = "ok" THEN "201" ELSE "500"
         /\ h = "createIssue" /\ c # "create" => s # "201"
<1>1. CallStages \cap (Replies \cup {"enter", "lookup", "states", "fetched", "unfetched"}) = {}
      /\ Replies \cap Inner = {}
  BY DEF CallStages, Replies, Inner
<1>2. c \in DOMAIN Routes[h] \ {"enter", "states", "fetching"}
  BY <1>1 DEF OwnStages, TableStages, Inner
<1>3. CASE h \in Cachers
  <2>1. Caching(Routes[h])
    BY <1>3, CachingTables
  <2> QED
    BY <1>2, <1>3, <2>1 DEF Caching, OuterStages, OwnStages, Cachers
<1>4. CASE h = "createIssue"
  <2>1. Routes[h] = HandleCreateIssue
    BY <1>4 DEF Routes
  <2>2. c \in {"fields", "create"}
    BY <1>2, <2>1, CreateTable
  <2>3. CASE c = "fields"
    <3>1. s \in {"400", "create", "502", "503"}
      BY <2>1, <2>3, CreateTable
    <3>2. s \in TableStages(HandleCreateIssue)
      BY <3>1, CreateTable DEF TableStages, Replies
    <3> QED
      BY <2>1, <2>3, <3>1, <3>2 DEF OuterStages, OwnStages, Inner
  <2>4. CASE c = "create"
    <3>1. s = IF o = "ok" THEN "201" ELSE "500"
      BY <2>1, <2>4, CreateTable
    <3>2. s \in Replies
      BY <3>1 DEF Replies
    <3> QED
      BY <1>1, <2>4, <3>1, <3>2 DEF OuterStages, OwnStages, TableStages
  <2> QED BY <2>2, <2>3, <2>4
<1>5. CASE h \notin Cachers \cup {"createIssue"}
  <2>1. Plain(Routes[h])
    BY <1>5, PlainTables
  <2>2. s \in TableStages(Routes[h]) /\ TableStages(Routes[h]) \cap Inner = {}
    BY <1>1, <1>2, <2>1 DEF Plain, TableStages, CallStages, Inner
  <2> QED
    BY <1>5, <2>2 DEF OuterStages, OwnStages
<1> QED BY <1>3, <1>4, <1>5

(* The fetch leads to the end of GetOrFetch, which leads out of it. *)
LEMMA FetchLeadsOut ==
  ASSUME NEW h \in Cachers
  PROVE  /\ \A o \in Outcomes : Routes[h].fetching[o] =
              IF o = "ok" THEN {"fetched"} ELSE {"unfetched"}
         /\ Routes[h].states \subseteq OuterStages(h)
         /\ Inner \subseteq OwnStages(h)
<1>1. Caching(Routes[h])
  BY CachingTables
<1>2. Routes[h].fetching = FetchFn
      /\ Routes[h].states \subseteq (TableStages(Routes[h]) \cup {"lookup"}) \ Inner
  BY <1>1 DEF Caching
<1> QED
  BY <1>2 DEF FetchFn, On, Outcomes, OuterStages, OwnStages

-----------------------------------------------------------------------------
(* What a step of the proxy does to the gate is a step of the gate. *)
LEMMA GateStep == [Next]_vars => [Gate!GateNext]_gateVars
<1> SUFFICES ASSUME Next PROVE [Gate!GateNext]_gateVars
  BY DEF vars, gateVars
<1>1. CASE Outside
  BY <1>1 DEF Outside, gateVars
<1>2. ASSUME NEW r \in Conns
      PROVE /\ Gate!Enter(r) => Gate!GateNext
            /\ Gate!QueueTimer(r) => Gate!GateNext
            /\ Gate!Enqueue(r) => Gate!GateNext
            /\ Gate!Grant(r) => Gate!GateNext
            /\ Gate!Refuse(r) => Gate!GateNext
            /\ Gate!Release(r) => Gate!GateNext
  BY DEF Gate!GateNext, Gate!Grant, Gate!Refuse
<1> QED
  BY <1>1, <1>2 DEF Next, Receive, Ask, QueueTimer, Enqueue, Admitted, SendOut,
     TurnedAway, CreateInYouTrack, ReadStates, CallAnswered, CallReturns, LookUp,
     InCache, Fetch, Store, GiveUpFetch, LookedUp, SetStage, gateVars

(* What a step of the proxy does to the cache is a step of the cache. *)
LEMMA CacheStep == [Next]_vars => [Cache!CacheNext]_cacheVars
<1> SUFFICES ASSUME Next PROVE [Cache!CacheNext]_cacheVars
  BY DEF vars, cacheVars
<1>1. CASE Outside
  BY <1>1 DEF Outside, Cache!CacheNext
<1>2. ASSUME NEW r \in Conns
      PROVE /\ \A p \in Projects : Cache!Call(r, p) => Cache!CacheNext
            /\ Cache!RLock(r) => Cache!CacheNext
            /\ Cache!FastPath(r) => Cache!CacheNext
            /\ Cache!Announce(r) => Cache!CacheNext
            /\ Cache!Lock(r) => Cache!CacheNext
            /\ Cache!DoubleCheckHit(r) => Cache!CacheNext
            /\ Cache!BeginFetch(r) => Cache!CacheNext
            /\ Cache!Sample(r) => Cache!CacheNext
            /\ Cache!Store(r) => Cache!CacheNext
            /\ Cache!FetchFails(r) => Cache!CacheNext
  BY DEF Cache!CacheNext, Cache!CacheStep
<1> QED
  BY <1>1, <1>2 DEF Next, Receive, Ask, QueueTimer, Enqueue, Admitted, SendOut,
     TurnedAway, CreateInYouTrack, ReadStates, CallAnswered, CallReturns, LookUp,
     InCache, Fetch, Store, GiveUpFetch, LookedUp, SetStage, cacheVars

(* So the proxy runs the gate and the cache as they are specified, and     *)
(* what was proved of these under any callers holds in it.                 *)
LEMMA ProxyRunsGate == Spec => Gate!GateSpec
<1>1. Init => Gate!GateInit
  BY DEF Init
<1> QED
  BY <1>1, GateStep, PTL DEF Spec, Gate!GateSpec, gateVars, Gate!gateVars

LEMMA ProxyRunsCache == Spec => Cache!CacheSpec
<1>1. Init => Cache!CacheInit
  BY DEF Init
<1> QED
  BY <1>1, CacheStep, PTL DEF Spec, Cache!CacheSpec, cacheVars, Cache!cacheVars

-----------------------------------------------------------------------------
(* The theorems of GateProofs are about the gate of Proxy. *)
LEMMA SameAssumptions == GateThms!MaxConcurrencyAssumption /\ GateThms!CallersAssumption
BY GateAssumption DEF GateThms!MaxConcurrencyAssumption,
   GateThms!CallersAssumption, IsFiniteSet, GateThms!IsFiniteSet

LEMMA SameActions ==
  ASSUME NEW c \in Conns
  PROVE  /\ Gate!Enter(c) => GateThms!Enter(c)
         /\ Gate!QueueTimer(c) => GateThms!QueueTimer(c)
         /\ Gate!RefuseAtEntry(c) => GateThms!RefuseAtEntry(c)
         /\ Gate!TakeFreeSlot(c) => GateThms!TakeFreeSlot(c)
         /\ Gate!Enqueue(c) => GateThms!Enqueue(c)
         /\ Gate!Admit(c) => GateThms!Admit(c)
         /\ Gate!Abandon(c) => GateThms!Abandon(c)
         /\ Gate!PutBack(c) => GateThms!PutBack(c)
         /\ Gate!Release(c) => GateThms!Release(c)
BY DEF Gate!Enter, GateThms!Enter, Gate!QueueTimer, GateThms!QueueTimer,
   Gate!RefuseAtEntry, GateThms!RefuseAtEntry, Gate!TakeFreeSlot,
   GateThms!TakeFreeSlot, Gate!Enqueue, GateThms!Enqueue, Gate!Admit,
   GateThms!Admit, Gate!Abandon, GateThms!Abandon, Gate!PutBack,
   GateThms!PutBack, Gate!Release, GateThms!Release, Gate!NotifyWaiters,
   GateThms!NotifyWaiters, Gate!Served, GateThms!Served, Gate!Without,
   GateThms!Without, Gate!Leave, GateThms!Leave, Gate!CancelTimer,
   GateThms!CancelTimer, Gate!Waiting, GateThms!Waiting

LEMMA GateStaysSafe == Spec => []GateThms!GateInv
<1>1. GateThms!GateSpec => []GateThms!GateInv
  BY SameAssumptions, GateThms!GateIsSafe
<1>2. Gate!GateInit => GateThms!GateInit
  BY DEF Gate!GateInit, GateThms!GateInit
<1>3. Gate!GateNext => GateThms!GateNext
  BY SameActions DEF Gate!GateNext, GateThms!GateNext
<1> QED
  BY <1>1, <1>2, <1>3, ProxyRunsGate, PTL
     DEF Gate!GateSpec, GateThms!GateSpec, Gate!gateVars, GateThms!gateVars

(* The slots of the gate are accounted for whatever the handlers do, for   *)
(* any number of connections and any YT_MAX_CONCURRENCY.                   *)
COROLLARY ProxyAccountsForSlots == Spec => []GateThms!SlotsAccounted
<1>1. GateThms!GateInv => GateThms!SlotsAccounted
  BY DEF GateThms!GateInv
<1> QED BY <1>1, GateStaysSafe, PTL

(* The end of a call leaves its connection without a slot, every other     *)
(* connection that was outside the gate outside it, and one with a slot    *)
(* with its slot.                                                          *)
LEMMA EndOfCall ==
  ASSUME GateThms!GateInv, NEW r \in Conns, Gate!Refuse(r) \/ Gate!Release(r)
  PROVE  /\ slot'[r] = "idle"
         /\ \A d \in Conns : slot[d] = "idle" => slot'[d] = "idle"
         /\ \A d \in Conns \ {r} : slot[d] = "held" => slot'[d] = "held"
<1>1. GateThms!Refuse(r) \/ GateThms!Release(r)
  BY SameActions DEF Gate!Refuse, GateThms!Refuse
<1> QED BY <1>1, SameAssumptions, GateThms!LeavingIsPrivate

-----------------------------------------------------------------------------
(* What the state of a connection in the two locks and its POST tell of    *)
(* the stage it is in: the inductive form of the proxy's own invariants.   *)
InFetch == {"fetch", "sampled"}
AllStages == {"none"} \cup UNION {OwnStages(h) : h \in Handlers}

InOwnStage(r) == stage[r] \in {"none"} \cup OwnStages(handler[r])

InGateOnlyCalling(r) == slot[r] # "idle" => Calling(r)

PcFitsStage(r) ==
  /\ stage[r] \notin Inner => pc[r] = "idle"
  /\ stage[r] = "states" => pc[r] \notin InFetch
  /\ stage[r] \in {"fetching", "unfetched"} => pc[r] \in InFetch
  /\ stage[r] = "fetched" => pc[r] = "sampled"

PostFitsStage(r) ==
  /\ posted[r] # "no" => handler[r] = "createIssue" /\ stage[r] \in {"create", "201", "500"}
  /\ handler[r] = "createIssue" /\ stage[r] = "201" => posted[r] = "done"

HttpFits(r) ==
  /\ http[r] # "none" => slot[r] = "held"
  /\ http[r] = "ok" => /\ stage[r] = "create" => posted[r] = "done"
                       /\ stage[r] = "fetching" => pc[r] = "sampled"

Fits(r) ==
  /\ InOwnStage(r) /\ InGateOnlyCalling(r)
  /\ PcFitsStage(r) /\ PostFitsStage(r) /\ HttpFits(r)

ProxyInv ==
  /\ handler \in [Conns -> Handlers]
  /\ stage \in [Conns -> AllStages]
  /\ posted \in [Conns -> {"no", "sent", "done"}]
  /\ http \in [Conns -> {"none", "open"} \cup Results]
  /\ pc \in [Conns -> Cache!Pcs]
  /\ \A r \in Conns : Fits(r)

LEMMA ProxyInitInv == Init => ProxyInv
<1> SUFFICES ASSUME Init PROVE ProxyInv
  OBVIOUS
<1>1. "health" \in Handlers
  BY DEF Handlers, Routes
<1>2. pc \in [Conns -> Cache!Pcs] /\ \A r \in Conns : pc[r] = "idle" /\ slot[r] = "idle"
  BY DEF Init, Cache!CacheInit, Cache!Pcs, Gate!GateInit
<1> QED
  BY <1>1, <1>2 DEF Init, ProxyInv, AllStages, Fits, InOwnStage, InGateOnlyCalling,
     PcFitsStage, PostFitsStage, HttpFits, Inner

(* A connection that a step leaves alone still fits its stage, even if the *)
(* step lets it into the cache or hands it a slot it queued for.           *)
LEMMA OthersFit ==
  ASSUME NEW d \in Conns, Fits(d),
         stage'[d] = stage[d], handler'[d] = handler[d], posted'[d] = posted[d],
         http'[d] = http[d],
         slot[d] = "idle" => slot'[d] = "idle", slot[d] = "held" => slot'[d] = "held",
         pc'[d] = pc[d] \/ (pc[d] = "blocked" /\ pc'[d] = "reading")
  PROVE  Fits(d)'
BY DEF Fits, InOwnStage, InGateOnlyCalling, Calling, PcFitsStage, PostFitsStage,
   HttpFits, InFetch

(* Going on from one stage to another, outside the cache. *)
LEMMA ProceedTo ==
  ASSUME ProxyInv, NEW r \in Conns, NEW next, Proceed(r, next)
  PROVE  /\ \E s \in next : stage' = [stage EXCEPT ![r] = s]
         /\ handler' = handler
         /\ \A d \in Conns \ {r} : stage'[d] = stage[d] /\ handler'[d] = handler[d]
         /\ stage'[r] \in next
         /\ stage'[r] \in OwnStages(handler[r]) => stage' \in [Conns -> AllStages]
<1>1. PICK s \in next : stage' = [stage EXCEPT ![r] = s] /\ handler' = handler
  BY DEF Proceed
<1>2. OwnStages(handler[r]) \subseteq AllStages
  BY DEF ProxyInv, AllStages
<1> QED BY <1>1, <1>2 DEF ProxyInv

LEMMA CallEndsFits ==
  ASSUME ProxyInv, GateThms!GateInv, NEW r \in Conns, NEW o \in Outcomes,
         slot[r] # "idle", Gate!Refuse(r) \/ Gate!Release(r), CallEnds(r, o),
         o = "ok" => /\ stage[r] = "create" => posted[r] = "done"
                     /\ stage[r] = "fetching" => pc[r] = "sampled",
         http' = [http EXCEPT ![r] = "none"], UNCHANGED <<cacheVars, posted>>
  PROVE  ProxyInv'
<1> DEFINE h == handler[r]
           c == stage[r]
           next == Routes[h][c][o]
<1>1. /\ h \in Handlers /\ Fits(r) /\ pc' = pc /\ posted' = posted
      /\ http' \in [Conns -> {"none", "open"} \cup Results] /\ http'[r] = "none"
      /\ \A d \in Conns \ {r} : http'[d] = http[d]
  BY DEF ProxyInv, cacheVars
<1>2. c \in OwnStages(h) \cap CallStages
  BY <1>1 DEF Fits, InOwnStage, InGateOnlyCalling, Calling, CallStages
<1>3. Proceed(r, next)
  BY DEF CallEnds
<1>4. /\ handler' = handler /\ stage'[r] \in next
      /\ \A d \in Conns \ {r} : stage'[d] = stage[d] /\ handler'[d] = handler[d]
      /\ stage'[r] \in OwnStages(h) => stage' \in [Conns -> AllStages]
  <2> HIDE DEF next
  <2> QED BY <1>3, ProceedTo
<1>5. /\ slot'[r] = "idle"
      /\ \A d \in Conns : slot[d] = "idle" => slot'[d] = "idle"
      /\ \A d \in Conns \ {r} : slot[d] = "held" => slot'[d] = "held"
  BY EndOfCall
<1>6. stage'[r] \in OwnStages(h) /\ Fits(r)'
  <2>1. CASE c = "fetching"
    <3>1. h \in Cachers
      BY <1>1, <1>2, <2>1, StagesTellHandlers DEF Inner
    <3>2. stage'[r] = IF o = "ok" THEN "fetched" ELSE "unfetched"
      BY <1>4, <2>1, <3>1, FetchLeadsOut
    <3>3. stage'[r] \in OwnStages(h)
      BY <3>1, <3>2, FetchLeadsOut DEF Inner
    <3>4. posted[r] = "no" /\ pc[r] \in InFetch /\ h # "createIssue"
      BY <1>1, <2>1, <3>1 DEF Fits, PcFitsStage, PostFitsStage, Cachers
    <3> QED
      BY <1>1, <1>4, <1>5, <2>1, <3>2, <3>3, <3>4
         DEF Fits, InOwnStage, InGateOnlyCalling, PcFitsStage, PostFitsStage, HttpFits,
             Inner, InFetch
  <2>2. CASE c # "fetching"
    <3>1. /\ stage'[r] \in OuterStages(h)
          /\ h = "createIssue" /\ c = "create" =>
               stage'[r] = IF o = "ok" THEN "201" ELSE "500"
          /\ h = "createIssue" /\ c # "create" => stage'[r] # "201"
      <4> HIDE DEF c
      <4> QED BY <1>1, <1>2, <1>4, <2>2, CallsLeadOut
    <3>2. pc[r] = "idle"
      BY <1>1, <1>2, <2>2 DEF Fits, PcFitsStage, CallStages, Inner
    <3>3. posted[r] # "no" => h = "createIssue" /\ c = "create"
      BY <1>1, <1>2 DEF Fits, PostFitsStage, CallStages
    <3> QED
      BY <1>1, <1>4, <1>5, <3>1, <3>2, <3>3
         DEF Fits, InOwnStage, InGateOnlyCalling, PcFitsStage, PostFitsStage, HttpFits,
             OuterStages, Inner
  <2> QED BY <2>1, <2>2
<1>7. ASSUME NEW d \in Conns \ {r} PROVE Fits(d)'
  BY <1>1, <1>4, <1>5, OthersFit DEF ProxyInv
<1> QED
  BY <1>1, <1>4, <1>6, <1>7 DEF ProxyInv

(* A step that stays within the cache, or enters it, moves only its own    *)
(* connection; the end of a writer lets blocked readers in.                *)
LEMMA CacheStepFits ==
  ASSUME ProxyInv, NEW r \in Conns, NEW s \in {stage[r]} \cup Inner,
         UNCHANGED <<slot, handler, posted, http>>,
         stage' = [stage EXCEPT ![r] = s],
         stage[r] \in {"lookup"} \cup Inner,
         pc' \in [Conns -> Cache!Pcs],
         \A d \in Conns \ {r} : pc'[d] = pc[d] \/ (pc[d] = "blocked" /\ pc'[d] = "reading"),
         slot[r] # "idle" => s \in CallStages,
         PcFitsStage(r)', HttpFits(r)'
  PROVE  ProxyInv'
<1>1. handler[r] \in Handlers /\ Fits(r)
  BY DEF ProxyInv
<1>2. handler[r] \in Cachers
  BY <1>1, StagesTellHandlers DEF Fits, InOwnStage, Inner
<1>3. s \in OwnStages(handler[r])
  BY <1>1, <1>2, FetchLeadsOut DEF Fits, InOwnStage, Inner
<1>4. stage' \in [Conns -> AllStages] /\ stage'[r] = s
  BY <1>1, <1>3 DEF ProxyInv, AllStages
<1>5. Fits(r)'
  <2>1. posted[r] = "no" /\ handler[r] # "createIssue"
    BY <1>1, <1>2 DEF Fits, PostFitsStage, Cachers
  <2> QED
    BY <1>3, <1>4, <2>1 DEF Fits, InOwnStage, InGateOnlyCalling, Calling, PostFitsStage
<1>6. ASSUME NEW d \in Conns \ {r} PROVE Fits(d)'
  BY OthersFit DEF ProxyInv
<1> QED BY <1>4, <1>5, <1>6 DEF ProxyInv

LEMMA UnlockFits ==
  ASSUME ProxyInv, NEW r \in Conns, Cache!UnlockAndLeave(r)
  PROVE  /\ pc' \in [Conns -> Cache!Pcs] /\ pc'[r] = "idle"
         /\ \A d \in Conns \ {r} :
              pc'[d] = pc[d] \/ (pc[d] = "blocked" /\ pc'[d] = "reading")
BY DEF ProxyInv, Cache!UnlockAndLeave, Cache!Pcs

LEMMA ProxyNextInv ==
  ProxyInv /\ GateThms!GateInv /\ [Next]_vars => ProxyInv'
<1> SUFFICES ASSUME ProxyInv, GateThms!GateInv, [Next]_vars PROVE ProxyInv'
  OBVIOUS
<1>0. /\ handler \in [Conns -> Handlers] /\ stage \in [Conns -> AllStages]
      /\ posted \in [Conns -> {"no", "sent", "done"}] /\ pc \in [Conns -> Cache!Pcs]
      /\ http \in [Conns -> {"none", "open"} \cup Results]
      /\ slot \in [Conns -> GateThms!Slots] /\ \A r \in Conns : Fits(r)
  BY DEF ProxyInv, GateThms!GateInv, GateThms!GateTypeOK
<1>1. ASSUME NEW r \in Conns, NEW h \in Requested, Receive(r, h) PROVE ProxyInv'
  <2>1. h \in Handlers
    BY RequestedAssumption
  <2>2. PICK s \in FirstStages(h) : stage' = [stage EXCEPT ![r] = s]
    BY <1>1 DEF Receive
  <2>3. s \in OwnStages(h) \ Inner /\ (h = "createIssue" => s # "201")
    BY <2>1, FirstStagesAreOuter DEF OuterStages
  <2>4. handler' \in [Conns -> Handlers] /\ stage' \in [Conns -> AllStages]
        /\ posted' \in [Conns -> {"no", "sent", "done"}] /\ UNCHANGED <<slot, pc, http>>
    BY <1>0, <1>1, <2>1, <2>2, <2>3 DEF Receive, AllStages, gateVars, cacheVars
  <2>5. slot[r] = "idle" /\ pc[r] = "idle" /\ http[r] = "none"
    BY <1>0, <1>1
       DEF Receive, Answered, Replies, Fits, InGateOnlyCalling, Calling, CallStages,
           PcFitsStage, HttpFits, Inner
  <2>6. Fits(r)'
    <3>1. stage'[r] = s /\ handler'[r] = h /\ posted'[r] = "no"
      BY <1>0, <1>1, <2>2 DEF Receive
    <3> QED
      BY <2>3, <2>4, <2>5, <3>1
         DEF Fits, InOwnStage, InGateOnlyCalling, PcFitsStage, PostFitsStage, HttpFits,
             Inner
  <2>7. ASSUME NEW d \in Conns \ {r} PROVE Fits(d)'
    <3>1. stage'[d] = stage[d] /\ handler'[d] = handler[d] /\ posted'[d] = posted[d]
      BY <1>0, <1>1, <2>2 DEF Receive
    <3> QED BY <1>0, <2>4, <3>1, OthersFit
  <2> QED BY <2>4, <2>6, <2>7 DEF ProxyInv
<1>2. ASSUME NEW r \in Conns, Ask(r) \/ QueueTimer(r) \/ Enqueue(r) \/ Admitted(r)
      PROVE  ProxyInv'
  <2>1. UNCHANGED <<handler, stage, posted, pc, http>>
    BY <1>2 DEF Ask, QueueTimer, Enqueue, Admitted, requestVars, cacheVars
  <2>2. /\ \A d \in Conns \ {r} : slot'[d] = slot[d]
        /\ slot'[r] # "idle" => slot[r] # "idle" \/ Calling(r)
        /\ slot[r] = "held" => slot'[r] = "held"
    BY <1>0, <1>2 DEF Ask, QueueTimer, Enqueue, Admitted, Gate!Enter, Gate!QueueTimer,
       Gate!Enqueue, Gate!Grant, Gate!TakeFreeSlot, Gate!Admit, Gate!Waiting
  <2>3. ASSUME NEW d \in Conns PROVE Fits(d)'
    BY <1>0, <2>1, <2>2 DEF Fits, InOwnStage, InGateOnlyCalling, Calling,
       PcFitsStage, PostFitsStage, HttpFits
  <2> QED BY <1>0, <2>1, <2>3 DEF ProxyInv
<1>3. ASSUME NEW r \in Conns, SendOut(r) PROVE ProxyInv'
  <2>1. /\ UNCHANGED <<handler, stage, pc, slot>> /\ slot[r] = "held"
        /\ http' = [http EXCEPT ![r] = "open"]
        /\ posted' = [posted EXCEPT ![r] = IF stage[r] = "create" THEN "sent" ELSE @]
    BY <1>3 DEF SendOut, cacheVars, gateVars
  <2>2. Fits(r)'
    <3>1. stage[r] = "create" => handler[r] = "createIssue"
      BY <1>0, StagesTellHandlers DEF Fits, InOwnStage
    <3>2. stage[r] # "none"
      BY <1>0, <2>1 DEF Fits, InGateOnlyCalling, Calling, CallStages
    <3> QED
      BY <1>0, <2>1, <3>1, <3>2 DEF Fits, InOwnStage, InGateOnlyCalling, Calling,
         PcFitsStage, PostFitsStage, HttpFits
  <2>3. ASSUME NEW d \in Conns \ {r} PROVE Fits(d)'
    BY <1>0, <2>1, OthersFit
  <2> QED BY <1>0, <2>1, <2>2, <2>3 DEF ProxyInv
<1>4. ASSUME NEW r \in Conns, TurnedAway(r) PROVE ProxyInv'
  <2>1. slot[r] # "idle" /\ slot[r] # "held" /\ "busy" \in Outcomes
    BY <1>4 DEF TurnedAway, Gate!Refuse, Gate!RefuseAtEntry, Gate!Abandon,
       Gate!PutBack, Outcomes
  <2>2. http' = [http EXCEPT ![r] = "none"]
    BY <1>0, <1>4, <2>1 DEF TurnedAway, Fits, HttpFits
  <2> QED BY <1>4, <2>1, <2>2, CallEndsFits DEF TurnedAway
<1>5. ASSUME NEW r \in Conns, CreateInYouTrack(r) PROVE ProxyInv'
  <2>1. /\ UNCHANGED <<handler, stage, pc, slot, http>>
        /\ posted[r] = "sent" /\ posted' = [posted EXCEPT ![r] = "done"]
    BY <1>5 DEF CreateInYouTrack, cacheVars, gateVars
  <2>2. Fits(r)'
    BY <1>0, <2>1 DEF Fits, InOwnStage, InGateOnlyCalling, Calling, PcFitsStage,
       PostFitsStage, HttpFits
  <2>3. ASSUME NEW d \in Conns \ {r} PROVE Fits(d)'
    BY <1>0, <2>1, OthersFit
  <2> QED BY <1>0, <2>1, <2>2, <2>3 DEF ProxyInv
<1>6. ASSUME NEW r \in Conns, ReadStates(r) PROVE ProxyInv'
  <2>1. /\ UNCHANGED <<handler, stage, posted, slot, http>> /\ stage[r] = "fetching"
        /\ http[r] = "open" /\ pc' = [pc EXCEPT ![r] = "sampled"]
    BY <1>6 DEF ReadStates, Cache!Sample, Cache!Goto, requestVars, gateVars
  <2>2. HttpFits(r)'
    BY <1>0, <2>1 DEF Fits, HttpFits
  <2> QED
    BY <1>0, <2>1, <2>2, CacheStepFits DEF PcFitsStage, Inner, InFetch, Cache!Pcs,
       Cache!WriterPcs, CallStages
<1>7. ASSUME NEW r \in Conns, CallReturns(r) PROVE ProxyInv'
  <2>1. /\ http[r] \in Outcomes /\ slot[r] # "idle" /\ Gate!Release(r)
        /\ CallEnds(r, http[r]) /\ UNCHANGED <<cacheVars, posted>>
        /\ http' = [http EXCEPT ![r] = "none"]
    BY <1>7 DEF CallReturns, Gate!Release, Results
  <2>2. http[r] = "ok" => /\ stage[r] = "create" => posted[r] = "done"
                          /\ stage[r] = "fetching" => pc[r] = "sampled"
    BY <1>0 DEF Fits, HttpFits
  <2> QED BY <2>1, <2>2, CallEndsFits
<1>8. ASSUME NEW r \in Conns, LookUp(r) PROVE ProxyInv'
  <2>1. /\ UNCHANGED <<handler, posted, slot, http>> /\ stage[r] = "lookup"
        /\ stage' = [stage EXCEPT ![r] = "states"]
        /\ pc' = [pc EXCEPT ![r] = "rlock"]
    BY <1>8 DEF LookUp, Cache!Call, Cache!Goto, gateVars
  <2>2. slot[r] = "idle"
    BY <1>0, <2>1 DEF Fits, InGateOnlyCalling, Calling, CallStages
  <2>3. /\ stage'[r] = "states" /\ pc'[r] = "rlock" /\ pc' \in [Conns -> Cache!Pcs]
        /\ HttpFits(r)'
    BY <1>0, <2>1, <2>2 DEF Cache!Pcs, Fits, HttpFits
  <2> QED
    BY <1>0, <2>1, <2>2, <2>3, CacheStepFits DEF PcFitsStage, Inner, InFetch
<1>9. ASSUME NEW r \in Conns, InCache(r) PROVE ProxyInv'
  <2>1. UNCHANGED <<handler, posted, slot, stage, http>>
    BY <1>9 DEF InCache, gateVars, requestVars
  <2>2. /\ pc[r] \in {"rlock", "reading", "wlock", "drain", "locked"}
        /\ pc' \in [Conns -> Cache!Pcs]
        /\ pc'[r] \in {"reading", "blocked", "idle", "wlock", "drain", "locked"}
        /\ \A d \in Conns \ {r} :
             pc'[d] = pc[d] \/ (pc[d] = "blocked" /\ pc'[d] = "reading")
    <3>1. CASE Cache!RLock(r) \/ Cache!FastPath(r) \/ Cache!Announce(r) \/ Cache!Lock(r)
      BY <1>0, <3>1 DEF Cache!RLock, Cache!FastPath, Cache!Announce, Cache!Lock,
         Cache!Goto, Cache!Pcs, Cache!WriterPcs
    <3>2. CASE Cache!DoubleCheckHit(r)
      BY <3>2, UnlockFits DEF Cache!DoubleCheckHit
    <3> QED BY <1>9, <3>1, <3>2 DEF InCache
  <2>3. stage[r] = "states" /\ slot[r] = "idle"
    BY <1>0, <2>2 DEF Fits, PcFitsStage, Inner, InFetch, InGateOnlyCalling, Calling, CallStages
  <2>4. stage' = [stage EXCEPT ![r] = stage[r]] /\ HttpFits(r)'
    BY <1>0, <2>1, <2>3 DEF Fits, HttpFits
  <2> QED
    BY <2>1, <2>2, <2>3, <2>4, CacheStepFits DEF PcFitsStage, Inner, InFetch
<1>10. ASSUME NEW r \in Conns, Fetch(r) PROVE ProxyInv'
  <2>1. /\ UNCHANGED <<handler, posted, slot, http>>
        /\ stage' = [stage EXCEPT ![r] = "fetching"]
        /\ pc[r] = "locked" /\ pc' = [pc EXCEPT ![r] = "fetch"]
    BY <1>10 DEF Fetch, SetStage, Cache!BeginFetch, Cache!Goto, gateVars
  <2>2. stage[r] = "states" /\ slot[r] = "idle"
    BY <1>0, <2>1 DEF Fits, PcFitsStage, Inner, InFetch, InGateOnlyCalling, Calling,
       CallStages
  <2>3. /\ stage'[r] = "fetching" /\ pc'[r] = "fetch" /\ pc' \in [Conns -> Cache!Pcs]
        /\ HttpFits(r)'
    BY <1>0, <2>1, <2>2 DEF Cache!Pcs, Cache!WriterPcs, Fits, HttpFits
  <2> QED
    BY <1>0, <2>1, <2>2, <2>3, CacheStepFits DEF PcFitsStage, Inner, InFetch, CallStages
<1>11. ASSUME NEW r \in Conns, Store(r) \/ GiveUpFetch(r) PROVE ProxyInv'
  <2>1. /\ UNCHANGED <<handler, posted, slot, http>> /\ stage[r] \in {"fetched", "unfetched"}
        /\ stage' = [stage EXCEPT ![r] = "states"]
        /\ Cache!UnlockAndLeave(r)
    BY <1>11 DEF Store, GiveUpFetch, SetStage, Cache!Store, Cache!FetchFails, gateVars
  <2>2. slot[r] = "idle"
    BY <1>0, <2>1 DEF Fits, InGateOnlyCalling, Calling, CallStages
  <2>3. stage'[r] = "states" /\ HttpFits(r)'
    BY <1>0, <2>1, <2>2 DEF Fits, HttpFits
  <2> QED
    BY <2>1, <2>2, <2>3, UnlockFits, CacheStepFits DEF PcFitsStage, Inner, InFetch
<1>12. ASSUME NEW r \in Conns, LookedUp(r) PROVE ProxyInv'
  <2> DEFINE next == Routes[handler[r]].states
  <2>1. /\ UNCHANGED <<posted, slot, pc, http>> /\ stage[r] = "states" /\ pc[r] = "idle"
        /\ Proceed(r, next)
    BY <1>12 DEF LookedUp, gateVars, cacheVars
  <2>2. handler[r] \in Cachers
    BY <1>0, <2>1, StagesTellHandlers DEF Fits, InOwnStage, Inner
  <2>3. next \subseteq OuterStages(handler[r])
    BY <2>2, FetchLeadsOut
  <2>4. /\ handler' = handler /\ stage'[r] \in next
        /\ \A d \in Conns \ {r} : stage'[d] = stage[d] /\ handler'[d] = handler[d]
        /\ stage'[r] \in OwnStages(handler[r]) => stage' \in [Conns -> AllStages]
    <3> HIDE DEF next
    <3> QED BY <2>1, ProceedTo
  <2>5. stage'[r] \in OuterStages(handler[r]) /\ stage' \in [Conns -> AllStages]
    BY <2>3, <2>4 DEF OuterStages
  <2>6. Fits(r)'
    <3>1. /\ posted[r] = "no" /\ handler[r] # "createIssue" /\ slot[r] = "idle"
          /\ http[r] = "none"
      BY <1>0, <2>1, <2>2 DEF Fits, PostFitsStage, Cachers, InGateOnlyCalling,
         Calling, CallStages, HttpFits
    <3> QED
      BY <2>1, <2>4, <2>5, <3>1 DEF Fits, InOwnStage, InGateOnlyCalling,
         PcFitsStage, PostFitsStage, HttpFits, OuterStages, Inner
  <2>7. ASSUME NEW d \in Conns \ {r} PROVE Fits(d)'
    BY <1>0, <2>1, <2>4, OthersFit
  <2> QED BY <1>0, <2>1, <2>4, <2>5, <2>6, <2>7 DEF ProxyInv
<1>13. ASSUME UNCHANGED <<handler, stage, posted, pc, slot, http>> PROVE ProxyInv'
  BY <1>0, <1>13 DEF ProxyInv, Fits, InOwnStage, InGateOnlyCalling, Calling,
     PcFitsStage, PostFitsStage, HttpFits
<1>14. CASE Outside
  BY <1>13, <1>14 DEF Outside, Cache!Tick, Cache!ChangeStates, gateVars, requestVars
<1>15. CASE UNCHANGED vars
  BY <1>13, <1>15 DEF vars, gateVars, cacheVars, requestVars
<1>16. ASSUME NEW r \in Conns, CallAnswered(r) PROVE ProxyInv'
  <2>1. PICK o \in Results :
          /\ http[r] = "open" \/ slot[r] = "held"
          /\ o = "ok" => /\ stage[r] = "create" => posted[r] = "done"
                         /\ stage[r] = "fetching" => pc[r] = "sampled"
          /\ http' = [http EXCEPT ![r] = o]
          /\ \/ posted' = posted
             \/ o # "ok" /\ posted' = [posted EXCEPT ![r] = "no"]
    BY <1>16 DEF CallAnswered
  <2>2. UNCHANGED <<handler, stage, pc, slot>>
    BY <1>16 DEF CallAnswered, cacheVars, gateVars
  <2>3. slot[r] = "held" /\ Calling(r)
    BY <1>0, <2>1 DEF Fits, HttpFits, InGateOnlyCalling
  <2>4. Fits(r)'
    <3>1. http'[r] = o /\ (o = "ok" => posted' = posted)
          /\ (posted'[r] = posted[r] \/ posted'[r] = "no")
      BY <1>0, <2>1
    <3>2. stage[r] # "201"
      BY <2>3 DEF Calling, CallStages
    <3> QED
      BY <1>0, <2>1, <2>2, <2>3, <3>1, <3>2 DEF Fits, InOwnStage, InGateOnlyCalling,
         Calling, PcFitsStage, PostFitsStage, HttpFits
  <2>5. ASSUME NEW d \in Conns \ {r} PROVE Fits(d)'
    BY <1>0, <2>1, <2>2, OthersFit
  <2> QED BY <1>0, <2>1, <2>2, <2>4, <2>5 DEF ProxyInv
<1> QED
  BY <1>1, <1>2, <1>3, <1>4, <1>5, <1>6, <1>7, <1>8, <1>9, <1>10, <1>11,
     <1>12, <1>14, <1>15, <1>16 DEF Next

LEMMA ProxyInvHolds == Spec => []ProxyInv
<1> QED BY ProxyInitInv, ProxyNextInv, GateStaysSafe, PTL DEF Spec

(* No circular wait, for any number of connections and slots: whoever has  *)
(* a slot or queues for one has, or needs, no cache lock but its own.      *)
THEOREM LockComesBeforeSlot == Spec => []LockBeforeSlot
<1>1. ProxyInv => LockBeforeSlot
  BY DEF ProxyInv, Fits, InGateOnlyCalling, Calling, PcFitsStage, LockBeforeSlot,
     Inner, InFetch, CallStages
<1> QED BY <1>1, ProxyInvHolds, PTL

(* A 201 is given only for an issue that exists, and an answer other than  *)
(* a bare 500 only for one that never will.                                *)
THEOREM CreationsAreHonest == Spec => []CreateAnswersAreHonest
<1>1. ProxyInv => CreateAnswersAreHonest
  BY DEF ProxyInv, Fits, PostFitsStage, Answered, Replies, CreateAnswersAreHonest
<1> QED BY <1>1, ProxyInvHolds, PTL

(* The instance of FiniteSets inside GateThms counts as FiniteSets does. *)
LEMMA SameGateCardinality ==
  ASSUME NEW S
  PROVE  GateThms!Cardinality(S) = Cardinality(S)
BY Zenon DEF GateThms!Cardinality, Cardinality

(* Whoever has a request open at YouTrack owns a slot, so the accounting   *)
(* of the gate bounds the requests themselves, for any connections.        *)
THEOREM RequestsAreBounded == Spec => []SlotsBoundRequests
<1> DEFINE Open == {r \in Conns : http[r] = "open"}
<1>1. ASSUME ProxyInv, GateThms!GateInv PROVE Cardinality(Open) <= MaxConcurrency
  <2>1. Open \subseteq GateThms!Owners
    BY <1>1 DEF ProxyInv, Fits, HttpFits, GateThms!Owners
  <2>2. IsFiniteSet(GateThms!Owners)
    BY GateAssumption, FS_Subset DEF GateThms!Owners
  <2>3. /\ cur \in Nat /\ cur = Cardinality(GateThms!Owners)
        /\ cur <= MaxConcurrency /\ MaxConcurrency \in Nat
    BY <1>1, GateAssumption, SameGateCardinality
       DEF GateThms!GateInv, GateThms!GateTypeOK, GateThms!SlotsAccounted
  <2>4. /\ Cardinality(Open) \in Nat
        /\ Cardinality(Open) <= Cardinality(GateThms!Owners)
    BY <2>1, <2>2, FS_Subset, FS_CardinalityType
  <2> HIDE DEF Open
  <2> QED BY <2>3, <2>4
<1>2. ASSUME ProxyInv, NEW r \in Conns, Answered(r) PROVE slot[r] = "idle"
  BY <1>2 DEF ProxyInv, Fits, InGateOnlyCalling, Calling, CallStages, Answered, Replies
<1>3. ProxyInv /\ GateThms!GateInv => SlotsBoundRequests
  BY <1>1, <1>2 DEF SlotsBoundRequests
<1> QED BY <1>3, ProxyInvHolds, GateStaysSafe, PTL

-----------------------------------------------------------------------------
(* The tables decide by the failures: one that is not skipped ends the     *)
(* request with an answer that tells of it, and nothing else is answered   *)
(* 502 or 503.                                                             *)
Decides(h, R) ==
  \A c \in DOMAIN R \ {"enter", "states"} : \A o \in Outcomes : \A s \in R[c][o] :
    /\ o # "ok" /\ ~Skipped(h, c, o) => s \in AnswersTo[o]
    /\ s = "502" => o # "ok" /\ ~Skipped(h, c, o)
    /\ s = "503" <=> o = "busy" /\ c # "create" /\ ~Skipped(h, c, o)

LEMMA SearchDecides == Decides("searchIssues", HandleSearchIssues)
<1> DEFINE R == HandleSearchIssues
           h == "searchIssues"
<1> USE DEF HandleSearchIssues, Outcomes, AnswersTo, Skipped, On, AfterIssues
<1>1. DOMAIN R = {"enter", "filter", "issues", "count", "fetching", "states", "activities"}
  OBVIOUS
<1> DEFINE Fine(c) ==
      \A o \in Outcomes : \A s \in R[c][o] :
        /\ o # "ok" /\ ~Skipped(h, c, o) => s \in AnswersTo[o]
        /\ s = "502" => o # "ok" /\ ~Skipped(h, c, o)
        /\ s = "503" <=> o = "busy" /\ c # "create" /\ ~Skipped(h, c, o)
<1>2. Fine("filter")
  BY DEF Mandatory
<1>3. Fine("issues")
  OBVIOUS
<1>4. Fine("count")
  OBVIOUS
<1>5. Fine("fetching")
  BY DEF FetchFn
<1>6. Fine("activities")
  BY DEF Tolerated
<1> HIDE DEF HandleSearchIssues, Outcomes, AnswersTo, Skipped, On, AfterIssues, Fine
<1>7. \A c \in DOMAIN R \ {"enter", "states"} : Fine(c)
  BY <1>1, <1>2, <1>3, <1>4, <1>5, <1>6
<1> QED BY <1>7 DEF Fine, Decides

LEMMA IssueTypesDecide ==
  ASSUME NEW h \in {"issueTypes", "statuses"}
  PROVE  Decides(h, HandleListIssueTypes)
<1> DEFINE R == HandleListIssueTypes
<1> USE DEF HandleListIssueTypes, Outcomes, AnswersTo, Skipped, On
<1>1. DOMAIN R = {"enter", "projects", "pages", "fields", "more"}
  OBVIOUS
<1> DEFINE Fine(c) ==
      \A o \in Outcomes : \A s \in R[c][o] :
        /\ o # "ok" /\ ~Skipped(h, c, o) => s \in AnswersTo[o]
        /\ s = "502" => o # "ok" /\ ~Skipped(h, c, o)
        /\ s = "503" <=> o = "busy" /\ c # "create" /\ ~Skipped(h, c, o)
<1>2. Fine("projects") /\ Fine("pages")
  BY DEF Mandatory
<1>3. Fine("fields")
  OBVIOUS
<1>4. Fine("more")
  BY DEF Tolerated
<1> HIDE DEF HandleListIssueTypes, Outcomes, AnswersTo, Skipped, On, Fine
<1>5. \A c \in DOMAIN R \ {"enter", "states"} : Fine(c)
  BY <1>1, <1>2, <1>3, <1>4
<1> QED BY <1>5 DEF Fine, Decides

LEMMA TablesDecide == \A h \in Handlers : Decides(h, Routes[h])
<1> USE DEF Decides, Outcomes, AnswersTo, On, Mandatory, NotFoundFirst, Tolerated, Skipped
<1>1. Decides("getIssue", HandleGetIssue) BY DEF HandleGetIssue, FetchFn
<1>2. Decides("comments", HandleGetIssueComments) BY DEF HandleGetIssueComments
<1>3. Decides("editMeta", HandleGetIssueEditMeta) BY DEF HandleGetIssueEditMeta
<1>4. Decides("changelog", HandleGetIssueChangelog) BY DEF HandleGetIssueChangelog
<1>5. Decides("createIssue", HandleCreateIssue) BY DEF HandleCreateIssue
<1>6. Decides("listProjects", HandleListProjects) BY DEF HandleListProjects
<1>7. Decides("recentProjects", HandleListProjects) BY DEF HandleListProjects
<1>8. Decides("getProject", HandleGetProject) BY DEF HandleGetProject
<1>9. Decides("listBoards", HandleListBoards) BY DEF HandleListBoards
<1>10. Decides("boardConfiguration", HandleBoardConfiguration) BY DEF HandleBoardConfiguration
<1>11. Decides("boardSprints", HandleBoardSprints) BY DEF HandleBoardSprints
<1>12. Decides("userPicker", HandleUserPicker) BY DEF HandleUserPicker
<1>13. Decides("currentUser", HandleGetCurrentUser) BY DEF HandleGetCurrentUser
<1>14. Decides("searchUsers", HandleSearchUsers) BY DEF HandleSearchUsers
<1>15. Decides("getUser", HandleGetUser) BY DEF HandleGetUser
<1>16. Decides("getFilter", HandleGetFilter) BY DEF HandleGetFilter
<1>17. Decides("static", StaticAnswer) /\ Decides("health", StaticAnswer) BY DEF StaticAnswer
<1> HIDE DEF Decides
<1> QED
  BY <1>1, <1>2, <1>3, <1>4, <1>5, <1>6, <1>7, <1>8, <1>9, <1>10, <1>11, <1>12,
     <1>13, <1>14, <1>15, <1>16, <1>17, SearchDecides, IssueTypesDecide
     DEF Routes, Handlers, HandleRecentProjects, HandleListStatuses

(* No request begins with an answer that tells of a failed call. *)
LEMMA NoFailureFirst ==
  \A h \in Handlers : \A s \in FirstStages(h) : s \notin {"502", "503"}
BY DEF Handlers, Routes, FirstStages, BasicAuth, HandleSearchIssues, HandleGetIssue,
   HandleGetIssueComments, HandleGetIssueEditMeta, HandleGetIssueChangelog,
   HandleCreateIssue, HandleListProjects, HandleRecentProjects, HandleGetProject,
   HandleListBoards, HandleBoardConfiguration, HandleBoardSprints,
   HandleListIssueTypes, HandleListStatuses, HandleUserPicker,
   HandleGetCurrentUser, HandleSearchUsers, HandleGetUser, HandleGetFilter, StaticAnswer

(* The stages in which a goroutine calls YouTrack are stages of its table. *)
LEMMA CallsAreInTable ==
  ASSUME NEW h \in Handlers
  PROVE  OwnStages(h) \cap CallStages \subseteq DOMAIN Routes[h] \ {"enter", "states"}
<1>1. CASE h \in Cachers
  <2>1. "fetching" \in DOMAIN Routes[h]
    BY <1>1, CachingTables DEF Caching
  <2> QED BY <2>1 DEF OwnStages, TableStages, CallStages, Replies, Inner
<1>2. CASE h \notin Cachers
  BY <1>2 DEF OwnStages, TableStages, CallStages, Replies
<1> QED BY <1>1, <1>2

-----------------------------------------------------------------------------
(* No failure that counts lies behind a request that goes on, and the      *)
(* answer of one that ended is as its failures decide.                     *)
Grave(r) == {t \in trouble[r] : ~Skipped(handler[r], t[1], t[2])}
DecidedRight(r) ==
  /\ ~Answered(r) => Grave(r) = {}
  /\ Answered(r) => \A t \in Grave(r) : stage[r] \in AnswersTo[t[2]]
  /\ stage[r] = "502" => Grave(r) # {}
  /\ stage[r] = "503" <=> \E t \in Grave(r) : t[2] = "busy" /\ t[1] # "create"

TroubleInv ==
  /\ trouble \in [Conns -> SUBSET (CallStages \X Outcomes)]
  /\ \A r \in Conns : DecidedRight(r)

(* A step that leaves failures alone and does not answer 502 or 503. *)
LEMMA NothingDecided ==
  ASSUME NEW r \in Conns, DecidedRight(r), ~Answered(r),
         trouble'[r] = trouble[r], handler'[r] = handler[r],
         stage'[r] \notin {"502", "503"}
  PROVE  DecidedRight(r)'
BY DEF DecidedRight, Grave, Answered

LEMMA OthersDecided ==
  ASSUME NEW d \in Conns, DecidedRight(d), trouble'[d] = trouble[d],
         handler'[d] = handler[d], stage'[d] = stage[d]
  PROVE  DecidedRight(d)'
BY DEF DecidedRight, Grave, Answered

LEMMA CallEndsDecided ==
  ASSUME ProxyInv, TroubleInv, NEW r \in Conns, NEW o \in Outcomes,
         slot[r] # "idle", CallEnds(r, o)
  PROVE  TroubleInv'
<1> DEFINE h == handler[r]
           c == stage[r]
           next == Routes[h][c][o]
<1>1. h \in Handlers /\ c \in OwnStages(h) \cap CallStages /\ ~Answered(r)
  BY DEF ProxyInv, Fits, InOwnStage, InGateOnlyCalling, Calling, CallStages,
         Answered, Replies
<1>2. c \in DOMAIN Routes[h] \ {"enter", "states"}
  BY <1>1, CallsAreInTable
<1>3. /\ handler' = handler /\ stage'[r] \in next
      /\ \A d \in Conns \ {r} : stage'[d] = stage[d]
  <2>1. Proceed(r, next)
    BY DEF CallEnds
  <2> HIDE DEF next
  <2> QED BY <2>1, ProceedTo
<1>4. /\ o # "ok" /\ ~Skipped(h, c, o) => stage'[r] \in AnswersTo[o]
      /\ stage'[r] = "502" => o # "ok" /\ ~Skipped(h, c, o)
      /\ stage'[r] = "503" <=> o = "busy" /\ c # "create" /\ ~Skipped(h, c, o)
  <2>1. Decides(h, Routes[h])
    BY <1>1, TablesDecide
  <2> HIDE DEF h, c
  <2> QED BY <1>2, <1>3, <2>1 DEF Decides
<1>5. /\ trouble \in [Conns -> SUBSET (CallStages \X Outcomes)]
      /\ DecidedRight(r) /\ Grave(r) = {}
  BY <1>1 DEF TroubleInv, DecidedRight
<1>6. /\ trouble' \in [Conns -> SUBSET (CallStages \X Outcomes)]
      /\ trouble'[r] = IF o = "ok" THEN trouble[r] ELSE trouble[r] \cup {<<c, o>>}
      /\ \A d \in Conns \ {r} : trouble'[d] = trouble[d]
  BY <1>1, <1>5 DEF CallEnds
<1>7. DecidedRight(r)'
  <2>1. CASE o = "ok"
    BY <1>1, <1>3, <1>4, <1>5, <1>6, <2>1, NothingDecided
  <2>2. CASE o # "ok" /\ Skipped(h, c, o)
    <3>1. Grave(r)' = {}
      BY <1>3, <1>5, <1>6, <2>2 DEF Grave
    <3>2. stage'[r] \notin {"502", "503"}
      BY <1>4, <2>2
    <3> QED BY <3>1, <3>2 DEF DecidedRight
  <2>3. CASE o # "ok" /\ ~Skipped(h, c, o)
    <3>1. Grave(r)' = {<<c, o>>}
      <4> HIDE DEF h, c
      <4>1. /\ trouble'[r] = trouble[r] \cup {<<c, o>>} /\ handler'[r] = h
            /\ \A t \in trouble[r] : Skipped(h, t[1], t[2])
        BY <1>3, <1>5, <1>6, <2>3 DEF Grave, h
      <4>2. <<c, o>>[1] = c /\ <<c, o>>[2] = o
        OBVIOUS
      <4> QED BY <2>3, <4>1, <4>2 DEF Grave
    <3>2. <<c, o>>[1] = c /\ <<c, o>>[2] = o
      OBVIOUS
    <3>3. stage'[r] \in AnswersTo[o] /\ AnswersTo[o] \subseteq Replies
      BY <1>4, <2>3 DEF AnswersTo, Outcomes, Replies
    <3>4. stage'[r] = "503" <=> o = "busy" /\ c # "create"
      BY <1>4, <2>3
    <3> HIDE DEF c, h
    <3> QED BY <3>1, <3>2, <3>3, <3>4 DEF DecidedRight, Answered
  <2> QED BY <2>1, <2>2, <2>3
<1>8. ASSUME NEW d \in Conns \ {r} PROVE DecidedRight(d)'
  <2>1. DecidedRight(d)
    BY DEF TroubleInv
  <2> QED BY <1>3, <1>6, <2>1, OthersDecided
<1> QED BY <1>6, <1>7, <1>8 DEF TroubleInv

LEMMA TroubleInit == Init => TroubleInv
<1> SUFFICES ASSUME Init PROVE TroubleInv
  OBVIOUS
<1>1. \A r \in Conns : trouble[r] = {} /\ stage[r] = "none"
  BY DEF Init
<1>2. trouble \in [Conns -> SUBSET (CallStages \X Outcomes)]
  BY DEF Init
<1> QED BY <1>1, <1>2 DEF TroubleInv, DecidedRight, Grave

LEMMA TroubleNext == ProxyInv /\ TroubleInv /\ [Next]_vars => TroubleInv'
<1> SUFFICES ASSUME ProxyInv, TroubleInv, [Next]_vars PROVE TroubleInv'
  OBVIOUS
<1>0. /\ trouble \in [Conns -> SUBSET (CallStages \X Outcomes)]
      /\ handler \in [Conns -> Handlers] /\ stage \in [Conns -> AllStages]
      /\ \A r \in Conns : Fits(r) /\ DecidedRight(r)
  BY DEF ProxyInv, TroubleInv
<1>1. ASSUME UNCHANGED <<trouble, handler>>, NEW r \in Conns,
             ~Answered(r), stage'[r] \notin {"502", "503"},
             \A d \in Conns \ {r} : stage'[d] = stage[d]
      PROVE  TroubleInv'
  <2>1. DecidedRight(r)'
    BY <1>0, <1>1, NothingDecided
  <2>2. ASSUME NEW d \in Conns \ {r} PROVE DecidedRight(d)'
    BY <1>0, <1>1, OthersDecided
  <2> QED BY <1>0, <1>1, <2>1, <2>2 DEF TroubleInv
<1>2. ASSUME UNCHANGED <<trouble, handler, stage>> PROVE TroubleInv'
  BY <1>0, <1>2, OthersDecided DEF TroubleInv
<1>3. ASSUME NEW r \in Conns, NEW h \in Requested, Receive(r, h) PROVE TroubleInv'
  <2>1. /\ trouble' = [trouble EXCEPT ![r] = {}]
        /\ handler' = [handler EXCEPT ![r] = h]
        /\ \E s \in FirstStages(h) : stage' = [stage EXCEPT ![r] = s]
    BY <1>3 DEF Receive
  <2>2. PICK s \in FirstStages(h) : stage' = [stage EXCEPT ![r] = s]
    BY <2>1
  <2>3. s \notin {"502", "503"}
    <3>1. h \in Handlers
      BY RequestedAssumption
    <3> QED BY <3>1, NoFailureFirst
  <2>4. DecidedRight(r)'
    BY <1>0, <2>1, <2>2, <2>3 DEF DecidedRight, Grave
  <2>5. ASSUME NEW d \in Conns \ {r} PROVE DecidedRight(d)'
    BY <1>0, <2>1, <2>2, OthersDecided
  <2> QED BY <1>0, <2>1, <2>4, <2>5 DEF TroubleInv
<1>4. ASSUME NEW r \in Conns,
             \/ Ask(r) \/ QueueTimer(r) \/ Enqueue(r) \/ Admitted(r)
             \/ SendOut(r) \/ CreateInYouTrack(r) \/ ReadStates(r)
             \/ CallAnswered(r) \/ InCache(r)
      PROVE  TroubleInv'
  BY <1>2, <1>4 DEF Ask, QueueTimer, Enqueue, Admitted, SendOut, CreateInYouTrack,
     ReadStates, CallAnswered, InCache, requestVars
<1>5. ASSUME NEW r \in Conns, TurnedAway(r) PROVE TroubleInv'
  <2>1. slot[r] # "idle" /\ "busy" \in Outcomes
    BY <1>5 DEF TurnedAway, Gate!Refuse, Gate!RefuseAtEntry, Gate!Abandon,
       Gate!PutBack, Outcomes
  <2> QED BY <1>5, <2>1, CallEndsDecided DEF TurnedAway
<1>6. ASSUME NEW r \in Conns, CallReturns(r) PROVE TroubleInv'
  <2>1. http[r] \in Outcomes /\ Gate!Release(r) /\ CallEnds(r, http[r])
    BY <1>6 DEF CallReturns, Results
  <2>2. slot[r] # "idle"
    BY <2>1 DEF Gate!Release
  <2> QED BY <2>1, <2>2, CallEndsDecided
<1>7. ASSUME NEW r \in Conns, LookUp(r) \/ Fetch(r) \/ Store(r) \/ GiveUpFetch(r)
      PROVE  TroubleInv'
  <2>1. /\ UNCHANGED <<trouble, handler>>
        /\ \E s \in {"states", "fetching"} : stage' = [stage EXCEPT ![r] = s]
    BY <1>7 DEF LookUp, Fetch, Store, GiveUpFetch, SetStage
  <2>2. ~Answered(r)
    <3>1. CASE LookUp(r) \/ Store(r) \/ GiveUpFetch(r)
      BY <3>1 DEF LookUp, Store, GiveUpFetch, Answered, Replies
    <3>2. CASE Fetch(r)
      <4>1. pc[r] # "idle"
        BY <3>2 DEF Fetch, Cache!BeginFetch
      <4> QED BY <1>0, <4>1 DEF Fits, PcFitsStage, Inner, Answered, Replies
    <3> QED BY <1>7, <3>1, <3>2
  <2> QED BY <1>0, <1>1, <2>1, <2>2
<1>8. ASSUME NEW r \in Conns, LookedUp(r) PROVE TroubleInv'
  <2> DEFINE next == Routes[handler[r]].states
  <2>1. /\ UNCHANGED trouble /\ stage[r] = "states" /\ Proceed(r, next)
    BY <1>8 DEF LookedUp
  <2>2. next \subseteq {"lookup", "activities", "200"}
    <3>1. handler[r] \in Cachers
      BY <1>0, <2>1, StagesTellHandlers DEF Fits, InOwnStage, Inner
    <3> QED BY <3>1 DEF Cachers, Routes, HandleSearchIssues, HandleGetIssue
  <2>3. /\ handler' = handler /\ stage'[r] \in next
        /\ \A d \in Conns \ {r} : stage'[d] = stage[d]
    <3> HIDE DEF next
    <3> QED BY <2>1, ProceedTo
  <2>4. ~Answered(r)
    BY <2>1 DEF Answered, Replies
  <2> QED BY <1>1, <2>1, <2>2, <2>3, <2>4
<1>9. CASE Outside
  BY <1>2, <1>9 DEF Outside, requestVars
<1>10. CASE UNCHANGED vars
  BY <1>2, <1>10 DEF vars, requestVars
<1> QED
  BY <1>3, <1>4, <1>5, <1>6, <1>7, <1>8, <1>9, <1>10 DEF Next

(* Whatever calls fail in whatever order: if one failed that the request   *)
(* depends on, the answer tells of a failure of that kind, and it is 503   *)
(* exactly if such a call other than the POST found no slot; 502 is given  *)
(* only for a failure.                                                     *)
THEOREM AnswersFollowFailures == Spec => []FailuresDecideAnswers
<1>1. TroubleInv => FailuresDecideAnswers
  BY DEF TroubleInv, DecidedRight, Grave, FailuresDecideAnswers
<1>2. Spec => []TroubleInv
  BY TroubleInit, TroubleNext, ProxyInvHolds, PTL DEF Spec
<1> QED BY <1>1, <1>2, PTL

-----------------------------------------------------------------------------
(* The theorems of ResolvedCacheProofs are about the cache of Proxy. *)
LEMMA SameCacheAssumptions ==
  /\ CacheThms!NoCallerAssumption /\ CacheThms!TTLAssumption
  /\ CacheThms!FetchTimeAssumption /\ CacheThms!BoundsAssumption
BY CacheAssumption DEF CacheThms!NoCallerAssumption, CacheThms!TTLAssumption,
   CacheThms!FetchTimeAssumption, CacheThms!BoundsAssumption

LEMMA SameCacheActions ==
  ASSUME NEW c \in Conns
  PROVE  /\ Cache!RLock(c) => CacheThms!RLock(c)
         /\ Cache!FastPath(c) => CacheThms!FastPath(c)
         /\ Cache!Announce(c) => CacheThms!Announce(c)
         /\ Cache!Lock(c) => CacheThms!Lock(c)
         /\ Cache!DoubleCheckHit(c) => CacheThms!DoubleCheckHit(c)
         /\ Cache!BeginFetch(c) => CacheThms!BeginFetch(c)
         /\ Cache!Sample(c) => CacheThms!Sample(c)
         /\ Cache!Store(c) => CacheThms!Store(c)
         /\ Cache!FetchFails(c) => CacheThms!FetchFails(c)
         /\ \A p \in Projects : Cache!Call(c, p) => CacheThms!Call(c, p)
BY DEF
   Cache!RLock, CacheThms!RLock, Cache!FastPath, CacheThms!FastPath,
   Cache!Announce, CacheThms!Announce, Cache!Lock, CacheThms!Lock,
   Cache!DoubleCheckHit, CacheThms!DoubleCheckHit, Cache!BeginFetch,
   CacheThms!BeginFetch, Cache!Sample, CacheThms!Sample, Cache!Store,
   CacheThms!Store, Cache!FetchFails, CacheThms!FetchFails, Cache!Call,
   CacheThms!Call, Cache!NoEntry, CacheThms!NoEntry, Cache!NothingFetched,
   CacheThms!NothingFetched, Cache!Versions, CacheThms!Versions,
   Cache!WriterPcs, CacheThms!WriterPcs, Cache!Pcs, CacheThms!Pcs,
   Cache!Entries, CacheThms!Entries, Cache!Fresh, CacheThms!Fresh,
   Cache!Readers, CacheThms!Readers, Cache!Goto, CacheThms!Goto,
   Cache!Return, CacheThms!Return, Cache!UnlockAndLeave,
   CacheThms!UnlockAndLeave, Cache!EndFetch, CacheThms!EndFetch

LEMMA CacheStaysSafe == Spec => []CacheThms!CacheInv
<1>1. CacheThms!CacheSpec => []CacheThms!CacheInv
  BY SameCacheAssumptions, CacheThms!CacheIsSafe
<1>2. Cache!CacheInit => CacheThms!CacheInit
  BY DEF Cache!CacheInit, CacheThms!CacheInit, Cache!NoEntry, CacheThms!NoEntry,
     Cache!NothingFetched, CacheThms!NothingFetched
<1>3. Cache!CacheNext => CacheThms!CacheNext
  BY SameCacheActions
     DEF Cache!CacheNext, CacheThms!CacheNext, Cache!CacheStep, CacheThms!CacheStep,
         Cache!ChangeStates, CacheThms!ChangeStates, Cache!Tick, CacheThms!Tick
<1> QED
  BY <1>1, <1>2, <1>3, ProxyRunsCache, PTL
     DEF Cache!CacheSpec, CacheThms!CacheSpec, Cache!cacheVars, CacheThms!cacheVars

(* Whatever the handlers do, one fetch of resolved states is in progress   *)
(* in the whole proxy, and nobody reads the map meanwhile.                 *)
COROLLARY ProxyFetchesAlone == Spec => []CacheThms!WriterExcludesAll
<1>1. CacheThms!CacheInv => CacheThms!WriterExcludesAll
  BY DEF CacheThms!CacheInv
<1> QED BY <1>1, CacheStaysSafe, PTL

-----------------------------------------------------------------------------
(* The local variables of a request stay within their types. *)
LocalsTyped ==
  /\ seen \in [Conns -> SUBSET Projects]
  /\ repeats \in [Conns -> 0..MaxRepeats]

LEMMA ProceedTyped ==
  ASSUME LocalsTyped, NEW r \in Conns, NEW next, Proceed(r, next)
  PROVE  LocalsTyped'
<1>1. PICK s \in next :
        /\ s = stage[r] => repeats[r] < MaxRepeats
        /\ repeats' = [repeats EXCEPT ![r] =
                         IF s \in Replies THEN 0 ELSE IF s = stage[r] THEN @ + 1 ELSE @]
        /\ seen' = [seen EXCEPT ![r] = IF s \in Replies THEN {} ELSE @]
  BY DEF Proceed
<1>2. repeats[r] \in 0..MaxRepeats /\ MaxRepeats \in Nat
  BY MaxRepeatsAssumption DEF LocalsTyped
<1>3. (IF s \in Replies THEN 0 ELSE IF s = stage[r] THEN repeats[r] + 1 ELSE repeats[r])
        \in 0..MaxRepeats
  BY <1>1, <1>2
<1> QED BY <1>1, <1>3 DEF LocalsTyped

LEMMA LocalsNext == LocalsTyped /\ [Next]_vars => LocalsTyped'
<1> SUFFICES ASSUME LocalsTyped, [Next]_vars PROVE LocalsTyped'
  OBVIOUS
<1>1. ASSUME UNCHANGED <<seen, repeats>> PROVE LocalsTyped'
  BY <1>1 DEF LocalsTyped
<1>2. ASSUME NEW r \in Conns, TurnedAway(r) \/ CallReturns(r) \/ LookedUp(r)
      PROVE  LocalsTyped'
  <2>1. \E next : Proceed(r, next)
    BY <1>2 DEF TurnedAway, CallReturns, LookedUp, CallEnds
  <2> QED BY <2>1, ProceedTyped
<1>3. ASSUME NEW r \in Conns, LookUp(r) PROVE LocalsTyped'
  BY <1>3 DEF LookUp, LocalsTyped
<1>4. ASSUME NEW r \in Conns,
             \/ \E h \in Requested : Receive(r, h)
             \/ Ask(r) \/ QueueTimer(r) \/ Enqueue(r) \/ Admitted(r)
             \/ SendOut(r) \/ CreateInYouTrack(r) \/ ReadStates(r)
             \/ CallAnswered(r) \/ InCache(r) \/ Fetch(r) \/ Store(r) \/ GiveUpFetch(r)
      PROVE  LocalsTyped'
  BY <1>1, <1>4 DEF Receive, Ask, QueueTimer, Enqueue, Admitted, SendOut,
     CreateInYouTrack, ReadStates, CallAnswered, InCache, Fetch, Store, GiveUpFetch,
     SetStage, requestVars
<1>5. CASE Outside \/ UNCHANGED vars
  BY <1>1, <1>5 DEF Outside, vars, requestVars
<1> QED BY <1>2, <1>3, <1>4, <1>5 DEF Next

LEMMA OwnStagesAreStages == AllStages \subseteq Stages
<1>1. ASSUME NEW h \in Handlers PROVE OwnStages(h) \subseteq Stages
  <2>1. DOMAIN Routes[h] \ {"enter"} \subseteq CallStages \cup {"states"}
    <3>1. CASE h \in Cachers
      BY <3>1, CachingTables DEF Caching, CallStages
    <3>2. CASE h = "createIssue"
      BY <3>2, CreateTable DEF Routes, CallStages
    <3>3. CASE h \notin Cachers \cup {"createIssue"}
      BY <3>3, PlainTables DEF Plain
    <3> QED BY <3>1, <3>2, <3>3
  <2>2. TableStages(Routes[h]) \subseteq Stages
    BY <2>1 DEF TableStages, Stages
  <2>3. {"lookup"} \cup Inner \subseteq Stages
    BY DEF Inner, Stages, CallStages
  <2> QED BY <2>2, <2>3 DEF OwnStages
<1> QED BY <1>1 DEF AllStages, Stages

(* The state of the proxy, both components included, is of its type. *)
THEOREM ProxyIsTyped == Spec => []ProxyTypeOK
<1>1. GateThms!GateInv => Gate!GateTypeOK
  BY DEF GateThms!GateInv, GateThms!GateTypeOK, Gate!GateTypeOK, GateThms!Slots,
     Gate!Slots, GateThms!Waiting, Gate!Waiting
<1>2. CacheThms!CacheInv => Cache!CacheTypeOK
  BY DEF CacheThms!CacheInv, CacheThms!CacheTypeOK, Cache!CacheTypeOK,
     Cache!NoEntry, CacheThms!NoEntry, Cache!Versions, CacheThms!Versions,
     Cache!WriterPcs, CacheThms!WriterPcs, Cache!Pcs, CacheThms!Pcs,
     Cache!Entries, CacheThms!Entries
<1>3. Init => LocalsTyped
  BY MaxRepeatsAssumption DEF Init, LocalsTyped
<1>4. Gate!GateTypeOK /\ Cache!CacheTypeOK /\ ProxyInv /\ TroubleInv /\ LocalsTyped
      => ProxyTypeOK
  BY OwnStagesAreStages DEF ProxyTypeOK, ProxyInv, TroubleInv, LocalsTyped
<1>5. Spec => []TroubleInv
  BY TroubleInit, TroubleNext, ProxyInvHolds, PTL DEF Spec
<1>6. Spec => []LocalsTyped
  BY <1>3, LocalsNext, PTL DEF Spec
<1> QED
  BY <1>1, <1>2, <1>4, <1>5, <1>6, GateStaysSafe, CacheStaysSafe, ProxyInvHolds, PTL
=============================================================================
