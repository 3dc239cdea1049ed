-------------------------------- MODULE Proxy -------------------------------
(***************************************************************************)
(* The proxy: connections whose goroutines run the handlers of Handlers,   *)
(* all of them behind one gate (Gate) and one cache of resolved states     *)
(* (ResolvedCache).  A connection serves one request after the other, as   *)
(* net/http does.  For a call to YouTrack its goroutine enters the gate and *)
(* is refused there, or sends its request, reads the answer, closes the    *)
(* body and releases its slot; the fetch of the cache is such a call, made *)
(* while the cache is locked.  What is open to YouTrack (http) is kept     *)
(* apart from what the gate believes.                                      *)
(***************************************************************************)
EXTENDS Naturals, Sequences, FiniteSets, Handlers

CONSTANTS Conns,            \* connections
          NoConn,           \* no connection
          Requested,           \* the handlers that are requested
          MaxRepeats,       \* bound: repeats of the loops of a request
          MaxConcurrency,   \* of Gate
          Projects, TTL, FetchTime, MaxVersion, MaxTime   \* of ResolvedCache

ASSUME RequestedAssumption == Requested \subseteq Handlers
ASSUME MaxRepeatsAssumption == MaxRepeats \in Nat
ASSUME GateAssumption == MaxConcurrency \in Nat \ {0} /\ IsFiniteSet(Conns)
ASSUME CacheAssumption ==
  /\ NoConn \notin Conns
  /\ TTL \in Nat \ {0} /\ FetchTime \in Nat
  /\ MaxVersion \in Nat \ {0} /\ MaxTime \in Nat

VARIABLES cur, waiters, slot, late,
          entries, writer, pc, proj, fetched, fetchStart, ans, upstream, now,
          handler,    \* the handler of each connection's request
          stage,      \* its stage, "none" before the first request
          seen,       \* projects whose states were looked up
          repeats,    \* loop iterations so far
          trouble,    \* <<call, outcome>> of the calls that did not end ok
          http,       \* the call's exchange: "none", "open" or its outcome
          posted      \* the request's POST to YouTrack: "no", "sent", "done"

Gate == INSTANCE Gate WITH Callers <- Conns
Cache == INSTANCE ResolvedCache WITH Callers <- Conns, NoCaller <- NoConn

gateVars == <<cur, waiters, slot, late>>
cacheVars == <<entries, writer, pc, proj, fetched, fetchStart, ans, upstream, now>>
requestVars == <<handler, stage, seen, repeats, trouble, http, posted>>
vars == <<gateVars, cacheVars, requestVars>>

Answered(r) == stage[r] \in Replies
Calling(r) == stage[r] \in CallStages
Results == Outcomes \ {"busy"}

ProxyTypeOK ==
  /\ Gate!GateTypeOK
  /\ Cache!CacheTypeOK
  /\ handler \in [Conns -> Handlers]
  /\ stage \in [Conns -> Stages]
  /\ seen \in [Conns -> SUBSET Projects]
  /\ repeats \in [Conns -> 0..MaxRepeats]
  /\ trouble \in [Conns -> SUBSET (CallStages \X Outcomes)]
  /\ http \in [Conns -> {"none", "open"} \cup Results]
  /\ posted \in [Conns -> {"no", "sent", "done"}]

Init ==
  /\ Gate!GateInit
  /\ Cache!CacheInit
  /\ handler = [r \in Conns |-> "health"]
  /\ stage = [r \in Conns |-> "none"]
  /\ seen = [r \in Conns |-> {}]
  /\ repeats = [r \in Conns |-> 0]
  /\ trouble = [r \in Conns |-> {}]
  /\ http = [r \in Conns |-> "none"]
  /\ posted = [r \in Conns |-> "no"]

-----------------------------------------------------------------------------
(* The request of r goes on to one of the stages in next.  A loop ends     *)
(* when its bound is reached; a project is looked up once per request, and *)
(* an answer drops the handler's local variables.                          *)
Proceed(r, next) ==
  \E s \in next :
    /\ s = stage[r] => repeats[r] < MaxRepeats
    /\ s = "lookup" => seen[r] # Projects
    /\ stage' = [stage EXCEPT ![r] = s]
    /\ repeats' = [repeats EXCEPT ![r] =
                     IF s \in Replies THEN 0 ELSE IF s = stage[r] THEN @ + 1 ELSE @]
    /\ seen' = [seen EXCEPT ![r] = IF s \in Replies THEN {} ELSE @]
    /\ UNCHANGED handler

(* The call of stage[r] ended with outcome o. *)
CallEnds(r, o) ==
  /\ Proceed(r, Routes[handler[r]][stage[r]][o])
  /\ trouble' = [trouble EXCEPT ![r] =
                   IF o = "ok" THEN @ ELSE @ \cup {<<stage[r], o>>}]

(* A connection whose last request was answered brings the next one. *)
Receive(r, h) ==
  /\ stage[r] = "none" \/ Answered(r)
  /\ handler' = [handler EXCEPT ![r] = h]
  /\ \E s \in FirstStages(h) : stage' = [stage EXCEPT ![r] = s]
  /\ trouble' = [trouble EXCEPT ![r] = {}]
  /\ posted' = [posted EXCEPT ![r] = "no"]
  /\ UNCHANGED <<gateVars, cacheVars, seen, repeats, http>>

-----------------------------------------------------------------------------
(* A call to YouTrack: acquireSemaphore, and its wait for a slot. *)
Ask(r) ==
  /\ Calling(r)
  /\ Gate!Enter(r)
  /\ UNCHANGED <<cacheVars, requestVars>>

QueueTimer(r) == Gate!QueueTimer(r) /\ UNCHANGED <<cacheVars, requestVars>>

Enqueue(r) == Gate!Enqueue(r) /\ UNCHANGED <<cacheVars, requestVars>>

(* acquireSemaphore returns a release function. *)
Admitted(r) == Gate!Grant(r) /\ UNCHANGED <<cacheVars, requestVars>>

(* Seeded fault: the error of acquireSemaphore is not looked at. *)
SendUnadmitted(r) ==
  /\ Calling(r) /\ http[r] = "none"
  /\ http' = [http EXCEPT ![r] = "open"]
  /\ posted' = [posted EXCEPT ![r] = IF stage[r] = "create" THEN "sent" ELSE @]
  /\ UNCHANGED <<gateVars, cacheVars, handler, stage, seen, repeats, trouble>>

(* The request goes out. *)
SendOut(r) ==
  /\ slot[r] = "held" /\ http[r] = "none"
  /\ http' = [http EXCEPT ![r] = "open"]
  /\ posted' = [posted EXCEPT ![r] = IF stage[r] = "create" THEN "sent" ELSE @]
  /\ UNCHANGED <<gateVars, cacheVars, handler, stage, seen, repeats, trouble>>

(* Seeded fault: the call is tried again. *)
TryAgain(r) == Gate!Refuse(r) /\ UNCHANGED <<cacheVars, requestVars>>

(* The queue timeout: the call ends without a request. *)
TurnedAway(r) ==
  /\ Gate!Refuse(r)
  /\ CallEnds(r, "busy")
  /\ UNCHANGED <<cacheVars, http, posted>>

(* YouTrack creates the issue of a POST, even when nobody waits any more. *)
CreateInYouTrack(r) ==
  /\ posted[r] = "sent"
  /\ posted' = [posted EXCEPT ![r] = "done"]
  /\ UNCHANGED <<gateVars, cacheVars, handler, stage, seen, repeats, trouble, http>>

(* YouTrack reads a project's fields for the fetch of the cache. *)
ReadStates(r) ==
  /\ stage[r] = "fetching" /\ http[r] = "open"
  /\ Cache!Sample(r)
  /\ UNCHANGED <<gateVars, requestVars>>

(* Do has returned and the body was read and closed, or the request could  *)
(* not be made.  It is ok only if YouTrack did its part; a POST that fails *)
(* may have been refused for good.                                         *)
CallAnswered(r) ==
  \E o \in Results :
    /\ \/ http[r] = "open"
       \/ slot[r] = "held" /\ http[r] = "none" /\ o = "failed"
    /\ o = "ok" => /\ stage[r] = "create" => posted[r] = "done"
                   /\ stage[r] = "fetching" => pc[r] = "sampled"
    /\ http' = [http EXCEPT ![r] = o]
    /\ posted' = posted \/ (o # "ok" /\ posted[r] = "sent"
                              /\ posted' = [posted EXCEPT ![r] = "no"])
    /\ UNCHANGED <<gateVars, cacheVars, handler, stage, seen, repeats, trouble>>

(* Seeded fault: the slot is kept until the handler has answered. *)
CallReturnsHolding(r) ==
  /\ http[r] \in Results
  /\ CallEnds(r, http[r])
  /\ IF stage'[r] = "lookup" THEN UNCHANGED gateVars ELSE Gate!Release(r)
  /\ http' = [http EXCEPT ![r] = "none"]
  /\ UNCHANGED <<cacheVars, posted>>

(* The deferred release runs and the call returns. *)
CallReturns(r) ==
  /\ http[r] \in Results
  /\ Gate!Release(r)
  /\ CallEnds(r, http[r])
  /\ http' = [http EXCEPT ![r] = "none"]
  /\ UNCHANGED <<cacheVars, posted>>

-----------------------------------------------------------------------------
(* A handler calls GetOrFetch for a project it has not asked about. *)
LookUp(r) ==
  /\ stage[r] = "lookup"
  /\ \E p \in Projects \ seen[r] :
       /\ Cache!Call(r, p)
       /\ seen' = [seen EXCEPT ![r] = @ \cup {p}]
  /\ stage' = [stage EXCEPT ![r] = "states"]
  /\ UNCHANGED <<gateVars, handler, repeats, trouble, http, posted>>

(* GetOrFetch up to the fetch: both checks and both locks. *)
InCache(r) ==
  /\ \/ Cache!RLock(r)
     \/ Cache!FastPath(r)
     \/ Cache!Announce(r)
     \/ Cache!Lock(r)
     \/ Cache!DoubleCheckHit(r)
  /\ UNCHANGED <<gateVars, requestVars>>

SetStage(r, s) ==
  /\ stage' = [stage EXCEPT ![r] = s]
  /\ UNCHANGED <<gateVars, handler, seen, repeats, trouble, http, posted>>

Fetch(r) == Cache!BeginFetch(r) /\ SetStage(r, "fetching")

Store(r) == stage[r] = "fetched" /\ Cache!Store(r) /\ SetStage(r, "states")

GiveUpFetch(r) ==
  stage[r] = "unfetched" /\ Cache!FetchFails(r) /\ SetStage(r, "states")

(* GetOrFetch has returned. *)
LookedUp(r) ==
  /\ stage[r] = "states" /\ pc[r] = "idle"
  /\ Proceed(r, Routes[handler[r]].states)
  /\ UNCHANGED <<gateVars, cacheVars, trouble, http, posted>>

(* YouTrack's data and the clock move on their own. *)
Outside ==
  /\ Cache!Tick \/ \E p \in Projects : Cache!ChangeStates(p)
  /\ UNCHANGED <<gateVars, requestVars>>

Next ==
  \/ \E r \in Conns :
       \/ \E h \in Requested : Receive(r, h)
       \/ Ask(r) \/ QueueTimer(r) \/ Enqueue(r) \/ Admitted(r) \/ TurnedAway(r)
       \/ SendOut(r) \/ CreateInYouTrack(r) \/ ReadStates(r)
       \/ CallAnswered(r) \/ CallReturns(r)
       \/ LookUp(r) \/ InCache(r) \/ Fetch(r)
       \/ Store(r) \/ GiveUpFetch(r) \/ LookedUp(r)
  \/ Outside

Spec == Init /\ [][Next]_vars

(* Goroutines that can go on do, the timers fire, RequestTimeout ends each *)
(* call, and the starvation mode of the mutex is strong fairness of        *)
(* Announce.  Nothing makes clients send, or YouTrack answer well.         *)
Fairness ==
  \A r \in Conns :
    /\ WF_vars(Ask(r))
    /\ WF_vars(QueueTimer(r))
    /\ WF_vars(Enqueue(r) \/ Admitted(r) \/ TurnedAway(r))
    /\ WF_vars(SendOut(r) \/ CallAnswered(r) \/ CallReturns(r))
    /\ WF_vars(LookUp(r))
    /\ WF_vars(InCache(r) \/ Fetch(r) \/ Store(r) \/ GiveUpFetch(r))
    /\ SF_vars(Cache!Announce(r) /\ UNCHANGED <<gateVars, requestVars>>)
    /\ WF_vars(LookedUp(r))

FairSpec == Spec /\ Fairness

-----------------------------------------------------------------------------
(* No circular wait: a goroutine that has a slot, or queues for one, never *)
(* waits for the cache lock, so whoever holds the lock gets its slot.      *)
LockBeforeSlot ==
  \A r \in Conns : slot[r] # "idle" => pc[r] \in {"idle", "fetch", "sampled"}

(* What a client may conclude from the answer to a creation: 201 means the *)
(* issue exists, and any answer but a bare 500 that it does not and will   *)
(* not, so that sending the request again cannot create it twice.          *)
CreateAnswersAreHonest ==
  \A r \in Conns : handler[r] = "createIssue" /\ Answered(r) =>
    /\ stage[r] = "201" => posted[r] = "done"
    /\ stage[r] \notin {"201", "500"} => posted[r] = "no"

(* The failures that handlers skip by their own comments: everything of    *)
(* the inline changelog, the resolved states and the fields of one of many *)
(* projects, and in a search all but the queue timeout.                    *)
Skipped(h, call, o) ==
  \/ call \in {"fetching", "more"}
  \/ call = "fields" /\ h \in {"issueTypes", "statuses"}
  \/ call = "activities" /\ h # "changelog"
  \/ h = "searchIssues" /\ call \in {"issues", "count"} /\ o # "busy"

(* The answers that tell of a failed call, by its outcome. *)
AnswersTo == [missing |-> {"404", "500", "502"}, failed |-> {"500", "502"},
              busy |-> {"500", "503"}]

(* One step of several failing: if a call failed that the request depends  *)
(* on, whatever else went wrong or well, the answer tells of a failure of  *)
(* that kind and is never a success.  The client is told to come back      *)
(* (503) if and only if such a call found no slot, unless it was the POST; *)
(* and that YouTrack failed (502) only if such a call failed.  Failures    *)
(* that are skipped lead to neither.                                       *)
FailuresDecideAnswers ==
  \A r \in Conns : Answered(r) =>
    LET grave == {t \in trouble[r] : ~Skipped(handler[r], t[1], t[2])}
    IN /\ \A t \in grave : stage[r] \in AnswersTo[t[2]]
       /\ stage[r] = "502" => grave # {}
       /\ stage[r] = "503" <=> \E t \in grave : t[2] = "busy" /\ t[1] # "create"

(* Every request takes a slot of its own before it goes out and gives it   *)
(* back when its call returns, on every path of every handler: YouTrack    *)
(* never has more than YT_MAX_CONCURRENCY requests open at once, and no    *)
(* connection keeps a slot past its answer.                                *)
SlotsBoundRequests ==
  /\ Cardinality({r \in Conns : http[r] = "open"}) <= MaxConcurrency
  /\ \A r \in Conns : Answered(r) => slot[r] = "idle"

(* Every request is answered, through both locks and whatever fails. *)
EveryRequestIsAnswered ==
  \A r \in Conns : stage[r] \notin Replies \cup {"none"} ~> Answered(r)

(* errors.go:31-34: upstream's 404 and 403 "should be treated as empty      *)
(* results in search contexts".                                            *)
MissingIsEmptyInSearch ==
  \A r \in Conns : handler[r] = "searchIssues" /\ stage[r] = "502" =>
    \A t \in trouble[r] : t[2] # "missing"

(* .kiro/steering/build.md:74: "How long a request waits for a concurrency *)
(* slot before 503".                                                       *)
QueueTimeoutIs503 ==
  \A r \in Conns : Answered(r) /\ stage[r] # "503" =>
    \A t \in trouble[r] : t[2] = "busy" => Skipped(handler[r], t[1], t[2])
=============================================================================
