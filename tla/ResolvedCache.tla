--------------------------- MODULE ResolvedCache ----------------------------
(***************************************************************************)
(* ResolvedStateCache of internal/service/resolved_cache.go: the resolved  *)
(* states of each project, cached for ttl behind one sync.RWMutex.         *)
(*                                                                         *)
(* The resolved states of a project are its State bundle in YouTrack, which*)
(* an administrator may change at any time; a version number stands for    *)
(* them, and 0 for the empty set the cache falls back to.  A call is       *)
(*   "rlock"    about to call RLock                                        *)
(*   "blocked"  waiting in RLock for a writer to unlock                    *)
(*   "reading"  under the read lock                                        *)
(*   "wlock"    about to call Lock                                         *)
(*   "drain"    the pending writer: Lock waits for the readers to leave    *)
(*   "locked"   under the write lock, before the double check              *)
(*   "fetch"    in fetchFn, before YouTrack has read the fields            *)
(*   "sampled"  in fetchFn, with YouTrack's answer on its way              *)
(***************************************************************************)
EXTENDS Naturals, FiniteSets

CONSTANTS Callers,      \* goroutines that call GetOrFetch
          NoCaller,     \* no goroutine
          Projects,     \* project IDs, "" for an issue without a project
          TTL,          \* ttl of NewResolvedStateCache, in ticks
          FetchTime,    \* QueueTimeout + RequestTimeout, in ticks
          MaxVersion,   \* bound: changes of a project's State bundle
          MaxTime       \* bound: ticks of the clock

ASSUME NoCallerAssumption == NoCaller \notin Callers
ASSUME TTLAssumption == TTL \in Nat \ {0}
ASSUME FetchTimeAssumption == FetchTime \in Nat
ASSUME BoundsAssumption == MaxVersion \in Nat \ {0} /\ MaxTime \in Nat

VARIABLES entries,    \* the map, with no entry as version 0
          writer,     \* holder of the mutex among writers, or NoCaller
          pc,         \* where each call is
          proj,       \* the project each call is for
          fetched,    \* what YouTrack answered to a call's fetch
          fetchStart, \* when a call entered fetchFn
          ans,        \* what GetOrFetch returned to each caller
          upstream,   \* the version of each project's states in YouTrack
          now         \* the clock

cacheVars == <<entries, writer, pc, proj, fetched, fetchStart, ans, upstream, now>>

NoEntry == [version |-> 0, at |-> 0, asOf |-> 0]
NothingFetched == [version |-> 0, asOf |-> 0]

Versions == 1..MaxVersion
WriterPcs == {"drain", "locked", "fetch", "sampled"}
Pcs == {"idle", "rlock", "blocked", "reading", "wlock"} \cup WriterPcs

(* An entry carries the time fetchedAt it was stored and, for the          *)
(* properties only, the time asOf at which YouTrack read the states.       *)
Entries == {NoEntry} \cup [version : Versions, at : Nat, asOf : Nat]

CacheTypeOK ==
  /\ entries \in [Projects -> Entries]
  /\ writer \in Callers \cup {NoCaller}
  /\ pc \in [Callers -> Pcs]
  /\ proj \in [Callers -> Projects]
  /\ fetched \in [Callers -> [version : 0..MaxVersion, asOf : Nat]]
  /\ fetchStart \in [Callers -> Nat]
  /\ ans \in [Callers -> 0..MaxVersion]
  /\ upstream \in [Projects -> Versions]
  /\ now \in Nat

CacheInit ==
  /\ entries = [p \in Projects |-> NoEntry]
  /\ writer = NoCaller
  /\ pc = [c \in Callers |-> "idle"]
  /\ proj \in {[c \in Callers |-> p] : p \in Projects}
  /\ fetched = [c \in Callers |-> NothingFetched]
  /\ fetchStart = [c \in Callers |-> 0]
  /\ ans = [c \in Callers |-> 0]
  /\ upstream = [p \in Projects |-> 1]
  /\ now = 0

-----------------------------------------------------------------------------
(* Seeded fault: an entry still counts as fresh at the age of its ttl. *)
FreshAtTTL(p) == entries[p].version # 0 /\ now - entries[p].at <= TTL

(* The test of both checks: an entry exists and is younger than the ttl. *)
Fresh(p) == entries[p].version # 0 /\ now - entries[p].at < TTL

Readers == {c \in Callers : pc[c] = "reading"}

Goto(c, where) == pc' = [pc EXCEPT ![c] = where]

(* GetOrFetch returns the states of entry to c. *)
Return(c, entry) == ans' = [ans EXCEPT ![c] = entry.version]

(* Unlock: the readers that wait for the writer get in, then the next      *)
(* writer may announce itself.                                             *)
UnlockAndLeave(c) ==
  /\ writer' = NoCaller
  /\ pc' = [d \in Callers |-> IF d = c THEN "idle"
                              ELSE IF pc[d] = "blocked" THEN "reading"
                              ELSE pc[d]]

(* The variables of a call to fetchFn go when it returns. *)
EndFetch(c) ==
  /\ fetched' = [fetched EXCEPT ![c] = NothingFetched]
  /\ fetchStart' = [fetchStart EXCEPT ![c] = 0]

-----------------------------------------------------------------------------
(* A handler calls GetOrFetch(p, fetchFn). *)
Call(c, p) ==
  /\ pc[c] = "idle"
  /\ Goto(c, "rlock")
  /\ proj' = [proj EXCEPT ![c] = p]
  /\ ans' = [ans EXCEPT ![c] = 0]
  /\ UNCHANGED <<entries, writer, fetched, fetchStart, upstream, now>>

(* RLock succeeds at once unless a writer holds or awaits the lock. *)
RLock(c) ==
  /\ pc[c] = "rlock"
  /\ Goto(c, IF writer = NoCaller THEN "reading" ELSE "blocked")
  /\ UNCHANGED <<entries, writer, proj, fetched, fetchStart, ans, upstream, now>>

(* Seeded fault: the read lock is taken for a write lock. *)
FastPathUpgrade(c) ==
  /\ pc[c] = "reading"
  /\ IF Fresh(proj[c])
     THEN Return(c, entries[proj[c]]) /\ Goto(c, "idle")
     ELSE ans' = ans /\ Goto(c, "locked")
  /\ UNCHANGED <<entries, writer, proj, fetched, fetchStart, upstream, now>>

(* Fast path: a fresh entry is the answer; RUnlock in both cases. *)
FastPath(c) ==
  /\ pc[c] = "reading"
  /\ IF Fresh(proj[c])
     THEN Return(c, entries[proj[c]]) /\ Goto(c, "idle")
     ELSE ans' = ans /\ Goto(c, "wlock")
  /\ UNCHANGED <<entries, writer, proj, fetched, fetchStart, upstream, now>>

(* Lock, first half: c is the one writer and keeps new readers out. *)
Announce(c) ==
  /\ pc[c] = "wlock"
  /\ writer = NoCaller
  /\ writer' = c
  /\ Goto(c, "drain")
  /\ UNCHANGED <<entries, proj, fetched, fetchStart, ans, upstream, now>>

(* Lock, second half: the readers that were in have left. *)
Lock(c) ==
  /\ pc[c] = "drain"
  /\ Readers = {}
  /\ Goto(c, "locked")
  /\ UNCHANGED <<entries, writer, proj, fetched, fetchStart, ans, upstream, now>>

(* Double check: another goroutine may have refreshed in the meantime. *)
DoubleCheckHit(c) ==
  /\ pc[c] = "locked"
  /\ Fresh(proj[c])
  /\ Return(c, entries[proj[c]])
  /\ UnlockAndLeave(c)
  /\ UNCHANGED <<entries, proj, fetched, fetchStart, upstream, now>>

(* Seeded fault: no double check under the write lock. *)
BeginFetchUnchecked(c) ==
  /\ pc[c] = "locked"
  /\ Goto(c, "fetch")
  /\ fetchStart' = [fetchStart EXCEPT ![c] = now]
  /\ UNCHANGED <<entries, writer, proj, fetched, ans, upstream, now>>

(* Otherwise fetchFn is called with the write lock held. *)
BeginFetch(c) ==
  /\ pc[c] = "locked"
  /\ ~Fresh(proj[c])
  /\ Goto(c, "fetch")
  /\ fetchStart' = [fetchStart EXCEPT ![c] = now]
  /\ UNCHANGED <<entries, writer, proj, fetched, ans, upstream, now>>

(* YouTrack reads the project's fields to answer the fetch. *)
Sample(c) ==
  /\ pc[c] = "fetch"
  /\ Goto(c, "sampled")
  /\ fetched' = [fetched EXCEPT ![c] = [version |-> upstream[proj[c]], asOf |-> now]]
  /\ UNCHANGED <<entries, writer, proj, fetchStart, ans, upstream, now>>

(* Seeded fault: the stamp allows for a fetch of full length. *)
StoreBackdated(c) ==
  /\ pc[c] = "sampled"
  /\ LET e == [version |-> fetched[c].version, at |-> now - FetchTime,
               asOf |-> fetched[c].asOf]
     IN /\ entries' = [entries EXCEPT ![proj[c]] = e]
        /\ Return(c, e)
  /\ EndFetch(c)
  /\ UnlockAndLeave(c)
  /\ UNCHANGED <<proj, upstream, now>>

(* fetchFn succeeds: the entry is replaced and stamped with the time now. *)
Store(c) ==
  /\ pc[c] = "sampled"
  /\ LET e == [version |-> fetched[c].version, at |-> now, asOf |-> fetched[c].asOf]
     IN /\ entries' = [entries EXCEPT ![proj[c]] = e]
        /\ Return(c, e)
  /\ EndFetch(c)
  /\ UnlockAndLeave(c)
  /\ UNCHANGED <<proj, upstream, now>>

(* Seeded faults: the error path drops the stale entry's states; it        *)
(* returns without unlocking.                                              *)
FetchFailsEmpty(c) ==
  /\ pc[c] \in {"fetch", "sampled"}
  /\ Return(c, NoEntry)
  /\ EndFetch(c)
  /\ UnlockAndLeave(c)
  /\ UNCHANGED <<entries, proj, upstream, now>>

FetchFailsLocked(c) ==
  /\ pc[c] \in {"fetch", "sampled"}
  /\ Return(c, entries[proj[c]])
  /\ EndFetch(c)
  /\ Goto(c, "idle")
  /\ UNCHANGED <<entries, writer, proj, upstream, now>>

(* fetchFn fails, before or after YouTrack answered: the expired entry if  *)
(* there is one, else the empty set; nothing is stored.                    *)
FetchFails(c) ==
  /\ pc[c] \in {"fetch", "sampled"}
  /\ Return(c, entries[proj[c]])
  /\ EndFetch(c)
  /\ UnlockAndLeave(c)
  /\ UNCHANGED <<entries, proj, upstream, now>>

(* An administrator changes the State bundle of p in YouTrack. *)
ChangeStates(p) ==
  /\ upstream[p] < MaxVersion
  /\ upstream' = [upstream EXCEPT ![p] = @ + 1]
  /\ UNCHANGED <<entries, writer, pc, proj, fetched, fetchStart, ans, now>>

(* Time passes; a fetch ends within the queue and the request timeouts. *)
Tick ==
  /\ now < MaxTime
  /\ \A c \in Callers : pc[c] \in {"fetch", "sampled"} => now < fetchStart[c] + FetchTime
  /\ now' = now + 1
  /\ UNCHANGED <<entries, writer, pc, proj, fetched, fetchStart, ans, upstream>>

CacheStep(c) ==
  \/ RLock(c)
  \/ FastPath(c)
  \/ Announce(c)
  \/ Lock(c)
  \/ DoubleCheckHit(c)
  \/ BeginFetch(c)
  \/ Sample(c)
  \/ Store(c)
  \/ FetchFails(c)

CacheNext ==
  \/ \E c \in Callers : CacheStep(c) \/ \E p \in Projects : Call(c, p)
  \/ \E p \in Projects : ChangeStates(p)
  \/ Tick

CacheSpec == CacheInit /\ [][CacheNext]_cacheVars

(* The runtime resumes a goroutine that can go on; the mutex among the     *)
(* writers is handed to the longest waiting one once it starves, which is  *)
(* strong fairness; the timeouts end every fetch.                          *)
CacheFairness ==
  \A c \in Callers :
    /\ WF_cacheVars(RLock(c))
    /\ WF_cacheVars(FastPath(c))
    /\ SF_cacheVars(Announce(c))
    /\ WF_cacheVars(Lock(c))
    /\ WF_cacheVars(DoubleCheckHit(c) \/ BeginFetch(c))
    /\ WF_cacheVars(Store(c) \/ FetchFails(c))

FairCacheSpec == CacheSpec /\ CacheFairness

-----------------------------------------------------------------------------
(* The read-write lock as its callers see it, with one fetch at a time:    *)
(* only the writer is past Lock, and no reader is in while it is.          *)
WriterExcludesAll ==
  /\ \A c \in Callers : pc[c] \in WriterPcs <=> writer = c
  /\ \A c \in Callers : pc[c] \in {"locked", "fetch", "sampled"} => Readers = {}

(* A successful fetch buys a whole ttl: goroutines that miss together do   *)
(* not fetch one after the other, whatever they saw before Lock.           *)
OneRefreshPerTTL ==
  [][\A p \in Projects :
       (entries[p].version # 0 /\ entries'[p] # entries[p])
         => entries'[p].at - entries[p].at >= TTL]_cacheVars

(* An answer given without asking YouTrack is what YouTrack said less than *)
(* a ttl plus one fetch ago: the age of an entry is counted from when the  *)
(* fetch ended, and the data may be one fetch older than that.             *)
HitsAreRecent ==
  [][\A c \in Callers :
       (pc[c] \in {"reading", "locked"} /\ pc'[c] = "idle")
         => now - entries[proj[c]].asOf < TTL + FetchTime]_cacheVars

(* Every call of GetOrFetch returns, although all projects share one lock  *)
(* that is held for the length of a fetch.                                 *)
EveryCallReturns == \A c \in Callers : pc[c] # "idle" ~> pc[c] = "idle"
=============================================================================
