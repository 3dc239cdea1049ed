------------------------ MODULE ResolvedCacheProofs -------------------------
(***************************************************************************)
(* Proofs about the resolved-state cache, for every set of callers and     *)
(* projects, every ttl and every bound on the length of a fetch.  The      *)
(* inductive invariant adds to the lock's discipline what a call knows     *)
(* while it fetches: the entry it found expired stays expired, since only  *)
(* the writer stores, and what YouTrack answered is no older than the      *)
(* entry and at most one fetch old.                                        *)
(***************************************************************************)
EXTENDS CacheRefinement, TLAPS

Fetching == {"fetch", "sampled"}

(* Entries are stamped in the past, at most one fetch after their data was *)
(* read, with a version YouTrack has had.                                  *)
EntriesSound ==
  \A p \in Projects :
    entries[p].version # 0 =>
      /\ entries[p].asOf <= entries[p].at
      /\ entries[p].at <= now
      /\ entries[p].at - entries[p].asOf <= FetchTime
      /\ entries[p].version <= upstream[p]

(* The clock of a fetch, and the expiry that led to it. *)
FetchesSound ==
  \A c \in Callers :
    pc[c] \in Fetching =>
      /\ fetchStart[c] <= now
      /\ now <= fetchStart[c] + FetchTime
      /\ ~Fresh(proj[c])

(* What a fetch has sampled is newer than what it will replace. *)
SamplesSound ==
  \A c \in Callers :
    pc[c] = "sampled" =>
      /\ fetched[c].version \in Versions
      /\ fetchStart[c] <= fetched[c].asOf
      /\ fetched[c].asOf <= now
      /\ fetched[c].version <= upstream[proj[c]]
      /\ entries[proj[c]].version <= fetched[c].version

CacheInv ==
  /\ CacheTypeOK
  /\ WriterExcludesAll
  /\ EntriesSound
  /\ FetchesSound
  /\ SamplesSound

-----------------------------------------------------------------------------
LEMMA CacheInitInv == CacheInit => CacheInv
<1> SUFFICES ASSUME CacheInit PROVE CacheInv
  OBVIOUS
<1> USE NoCallerAssumption, BoundsAssumption DEF CacheInit
<1>1. CacheTypeOK
  BY DEF CacheTypeOK, Entries, NoEntry, NothingFetched, Pcs, Versions
<1>2. WriterExcludesAll
  BY DEF WriterExcludesAll, WriterPcs
<1>3. EntriesSound
  BY DEF EntriesSound, NoEntry
<1>4. FetchesSound /\ SamplesSound
  BY DEF FetchesSound, SamplesSound, Fetching
<1> QED BY <1>1, <1>2, <1>3, <1>4 DEF CacheInv

(* Unlocking sends c home, lets the blocked readers in and moves no one    *)
(* else; c was the only writer, so nobody is past Lock afterwards.         *)
LEMMA UnlockKeepsLock ==
  ASSUME CacheInv, NEW c \in Callers,
         pc[c] \in {"locked", "fetch", "sampled"}, UnlockAndLeave(c)
  PROVE  /\ pc' \in [Callers -> Pcs]
         /\ writer' = NoCaller
         /\ WriterExcludesAll'
         /\ \A d \in Callers : pc'[d] \notin WriterPcs
<1>1. pc \in [Callers -> Pcs] /\ writer = c
  BY DEF CacheInv, CacheTypeOK, WriterExcludesAll, WriterPcs
<1>2. \A d \in Callers : d # c => pc[d] \notin WriterPcs
  BY <1>1 DEF CacheInv, WriterExcludesAll
<1>3. \A d \in Callers :
        pc'[d] = IF d = c THEN "idle"
                 ELSE IF pc[d] = "blocked" THEN "reading" ELSE pc[d]
  BY DEF UnlockAndLeave
<1>4. pc' \in [Callers -> Pcs] /\ writer' = NoCaller
  BY <1>1 DEF UnlockAndLeave, Pcs
<1>5. \A d \in Callers : pc'[d] \notin WriterPcs
  BY <1>2, <1>3 DEF WriterPcs
<1>6. WriterExcludesAll'
  BY <1>4, <1>5, NoCallerAssumption DEF WriterExcludesAll, WriterPcs
<1> QED BY <1>4, <1>5, <1>6

(* A step of c that stays outside fetchFn and touches neither the map, the *)
(* clock, YouTrack nor a fetch leaves every entry and fetch as it was.     *)
LEMMA QuietStep ==
  ASSUME CacheInv, NEW c \in Callers,
         UNCHANGED <<entries, fetched, fetchStart, upstream, now>>,
         proj' = proj \/ (\E p \in Projects : proj' = [proj EXCEPT ![c] = p]),
         pc'[c] \notin Fetching,
         \A d \in Callers \ {c} : pc'[d] \in Fetching => pc'[d] = pc[d]
  PROVE  EntriesSound' /\ FetchesSound' /\ SamplesSound'
<1>1. \A d \in Callers \ {c} : proj'[d] = proj[d]
  BY DEF CacheInv, CacheTypeOK
<1>2. EntriesSound'
  BY DEF CacheInv, EntriesSound
<1>3. FetchesSound'
  BY <1>1 DEF CacheInv, FetchesSound, Fresh, Fetching
<1>4. SamplesSound'
  BY <1>1 DEF CacheInv, SamplesSound, Fetching
<1> QED BY <1>2, <1>3, <1>4

LEMMA CacheNextInv == CacheInv /\ [CacheNext]_cacheVars => CacheInv'
<1> SUFFICES ASSUME CacheInv, [CacheNext]_cacheVars PROVE CacheInv'
  OBVIOUS
<1>0. CacheTypeOK /\ WriterExcludesAll /\ EntriesSound /\ FetchesSound
      /\ SamplesSound
  BY DEF CacheInv
<1>1. ASSUME NEW c \in Callers, NEW p \in Projects, Call(c, p) PROVE CacheInv'
  <2>1. CacheTypeOK'
    BY <1>0, <1>1, BoundsAssumption DEF Call, Goto, CacheTypeOK, Pcs
  <2>2. WriterExcludesAll'
    BY <1>0, <1>1 DEF Call, Goto, CacheTypeOK, WriterExcludesAll, WriterPcs, Readers
  <2>3. EntriesSound' /\ FetchesSound' /\ SamplesSound'
    <3>1. pc'[c] = "rlock" /\ \A d \in Callers \ {c} : pc'[d] = pc[d]
      BY <1>0, <1>1 DEF Call, Goto, CacheTypeOK
    <3>2. UNCHANGED <<entries, fetched, fetchStart, upstream, now>>
          /\ proj' = [proj EXCEPT ![c] = p]
      BY <1>1 DEF Call
    <3> QED BY <3>1, <3>2, QuietStep DEF Fetching
  <2> QED BY <2>1, <2>2, <2>3 DEF CacheInv
<1>2. ASSUME NEW c \in Callers, RLock(c) PROVE CacheInv'
  <2>1. CacheTypeOK'
    BY <1>0, <1>2 DEF RLock, Goto, CacheTypeOK, Pcs
  <2>2. WriterExcludesAll'
    BY <1>0, <1>2, NoCallerAssumption
       DEF RLock, Goto, CacheTypeOK, WriterExcludesAll, WriterPcs, Readers
  <2>3. EntriesSound' /\ FetchesSound' /\ SamplesSound'
    <3>1. pc'[c] \in {"reading", "blocked"}
          /\ \A d \in Callers \ {c} : pc'[d] = pc[d]
      BY <1>0, <1>2 DEF RLock, Goto, CacheTypeOK
    <3> QED BY <1>2, <3>1, QuietStep DEF RLock, Fetching
  <2> QED BY <2>1, <2>2, <2>3 DEF CacheInv
<1>3. ASSUME NEW c \in Callers, FastPath(c) PROVE CacheInv'
  <2>0. pc' = [pc EXCEPT ![c] = "idle"] \/ pc' = [pc EXCEPT ![c] = "wlock"]
    BY <1>3 DEF FastPath, Goto
  <2>1. CacheTypeOK'
    <3>1. \A p \in Projects : entries[p].version \in 0..MaxVersion
      BY <1>0, BoundsAssumption DEF CacheTypeOK, Entries, NoEntry, Versions
    <3>2. ans' \in [Callers -> 0..MaxVersion]
      BY <1>0, <1>3, <3>1 DEF FastPath, Return, CacheTypeOK
    <3> QED BY <1>0, <1>3, <2>0, <3>2 DEF FastPath, CacheTypeOK, Pcs
  <2>2. WriterExcludesAll'
    BY <1>0, <1>3, <2>0
       DEF FastPath, CacheTypeOK, WriterExcludesAll, WriterPcs, Readers
  <2>3. EntriesSound' /\ FetchesSound' /\ SamplesSound'
    <3>1. pc'[c] \in {"idle", "wlock"}
          /\ \A d \in Callers \ {c} : pc'[d] = pc[d]
      BY <1>0, <2>0 DEF CacheTypeOK
    <3> QED BY <1>3, <3>1, QuietStep DEF FastPath, Fetching
  <2> QED BY <2>1, <2>2, <2>3 DEF CacheInv
<1>4. ASSUME NEW c \in Callers, Announce(c) PROVE CacheInv'
  <2>1. CacheTypeOK'
    BY <1>0, <1>4 DEF Announce, Goto, CacheTypeOK, Pcs, WriterPcs
  <2>2. WriterExcludesAll'
    BY <1>0, <1>4, NoCallerAssumption
       DEF Announce, Goto, CacheTypeOK, WriterExcludesAll, WriterPcs, Readers
  <2>3. EntriesSound' /\ FetchesSound' /\ SamplesSound'
    <3>1. pc'[c] = "drain" /\ \A d \in Callers \ {c} : pc'[d] = pc[d]
      BY <1>0, <1>4 DEF Announce, Goto, CacheTypeOK
    <3> QED BY <1>4, <3>1, QuietStep DEF Announce, Fetching
  <2> QED BY <2>1, <2>2, <2>3 DEF CacheInv
<1>5. ASSUME NEW c \in Callers, Lock(c) PROVE CacheInv'
  <2>1. CacheTypeOK'
    BY <1>0, <1>5 DEF Lock, Goto, CacheTypeOK, Pcs, WriterPcs
  <2>2. WriterExcludesAll'
    BY <1>0, <1>5 DEF Lock, Goto, CacheTypeOK, WriterExcludesAll, WriterPcs, Readers
  <2>3. EntriesSound' /\ FetchesSound' /\ SamplesSound'
    <3>1. pc'[c] = "locked" /\ \A d \in Callers \ {c} : pc'[d] = pc[d]
      BY <1>0, <1>5 DEF Lock, Goto, CacheTypeOK
    <3> QED BY <1>5, <3>1, QuietStep DEF Lock, Fetching
  <2> QED BY <2>1, <2>2, <2>3 DEF CacheInv
<1>6. ASSUME NEW c \in Callers, DoubleCheckHit(c) PROVE CacheInv'
  <2>1. /\ pc' \in [Callers -> Pcs] /\ writer' = NoCaller /\ WriterExcludesAll'
        /\ \A d \in Callers : pc'[d] \notin WriterPcs
    BY <1>6, UnlockKeepsLock DEF DoubleCheckHit
  <2>2. CacheTypeOK'
    <3>1. \A p \in Projects : entries[p].version \in 0..MaxVersion
      BY <1>0, BoundsAssumption DEF CacheTypeOK, Entries, NoEntry, Versions
    <3> QED BY <1>0, <1>6, <2>1, <3>1 DEF DoubleCheckHit, Return, CacheTypeOK
  <2>3. EntriesSound' /\ FetchesSound' /\ SamplesSound'
    BY <1>6, <2>1, QuietStep DEF DoubleCheckHit, Fetching, WriterPcs
  <2> QED BY <2>1, <2>2, <2>3 DEF CacheInv
<1>7. ASSUME NEW c \in Callers, BeginFetch(c) PROVE CacheInv'
  <2>0. /\ pc' = [pc EXCEPT ![c] = "fetch"] /\ pc[c] = "locked"
        /\ fetchStart' = [fetchStart EXCEPT ![c] = now]
        /\ ~Fresh(proj[c])
        /\ UNCHANGED <<entries, writer, proj, fetched, ans, upstream, now>>
    BY <1>7 DEF BeginFetch, Goto
  <2>1. CacheTypeOK'
    BY <1>0, <2>0 DEF CacheTypeOK, Pcs, WriterPcs
  <2>2. WriterExcludesAll'
    BY <1>0, <2>0 DEF CacheTypeOK, WriterExcludesAll, WriterPcs, Readers
  <2>3. EntriesSound'
    BY <1>0, <2>0 DEF EntriesSound
  <2>4. FetchesSound'
    BY <1>0, <2>0, FetchTimeAssumption DEF FetchesSound, Fetching, Fresh, CacheTypeOK
  <2>5. SamplesSound'
    BY <1>0, <2>0 DEF SamplesSound, CacheTypeOK
  <2> QED BY <2>1, <2>2, <2>3, <2>4, <2>5 DEF CacheInv
<1>8. ASSUME NEW c \in Callers, Sample(c) PROVE CacheInv'
  <2>0. /\ pc' = [pc EXCEPT ![c] = "sampled"] /\ pc[c] = "fetch"
        /\ fetched' = [fetched EXCEPT ![c] = [version |-> upstream[proj[c]],
                                              asOf |-> now]]
        /\ UNCHANGED <<entries, writer, proj, fetchStart, ans, upstream, now>>
    BY <1>8 DEF Sample, Goto
  <2>1. CacheTypeOK'
    BY <1>0, <2>0, BoundsAssumption DEF CacheTypeOK, Pcs, WriterPcs, Versions
  <2>2. WriterExcludesAll'
    BY <1>0, <2>0 DEF CacheTypeOK, WriterExcludesAll, WriterPcs, Readers
  <2>3. EntriesSound'
    BY <1>0, <2>0 DEF EntriesSound
  <2>4. FetchesSound'
    BY <1>0, <2>0 DEF FetchesSound, Fetching, Fresh, CacheTypeOK
  <2>5. SamplesSound'
    <3> SUFFICES ASSUME NEW d \in Callers, pc'[d] = "sampled"
                 PROVE  /\ fetched'[d].version \in Versions
                        /\ fetchStart'[d] <= fetched'[d].asOf
                        /\ fetched'[d].asOf <= now'
                        /\ fetched'[d].version <= upstream'[proj'[d]]
                        /\ entries'[proj'[d]].version <= fetched'[d].version
      BY DEF SamplesSound
    <3>1. CASE d # c
      BY <1>0, <2>0, <3>1 DEF SamplesSound, CacheTypeOK
    <3>2. CASE d = c
      <4>1. fetched'[c].version = upstream[proj[c]] /\ fetched'[c].asOf = now
        BY <1>0, <2>0 DEF CacheTypeOK
      <4>2. proj[c] \in Projects /\ upstream[proj[c]] \in Versions /\ now \in Nat
        BY <1>0 DEF CacheTypeOK
      <4>3. fetchStart[c] <= now
        BY <1>0, <2>0 DEF FetchesSound, Fetching
      <4>4. entries[proj[c]].version <= upstream[proj[c]]
        BY <1>0, <4>2 DEF EntriesSound, Versions
      <4> QED BY <2>0, <3>2, <4>1, <4>2, <4>3, <4>4 DEF Versions
    <3> QED BY <3>1, <3>2
  <2> QED BY <2>1, <2>2, <2>3, <2>4, <2>5 DEF CacheInv
<1>9. ASSUME NEW c \in Callers, Store(c) PROVE CacheInv'
  <2> DEFINE e == [version |-> fetched[c].version, at |-> now,
                   asOf |-> fetched[c].asOf]
  <2>0. /\ pc[c] = "sampled" /\ UnlockAndLeave(c)
        /\ entries' = [entries EXCEPT ![proj[c]] = e]
        /\ ans' = [ans EXCEPT ![c] = fetched[c].version]
        /\ fetched' = [fetched EXCEPT ![c] = NothingFetched]
        /\ fetchStart' = [fetchStart EXCEPT ![c] = 0]
        /\ UNCHANGED <<proj, upstream, now>>
    BY <1>9 DEF Store, Return, EndFetch
  <2>1. /\ pc' \in [Callers -> Pcs] /\ writer' = NoCaller /\ WriterExcludesAll'
        /\ \A d \in Callers : pc'[d] \notin WriterPcs
    BY <2>0, UnlockKeepsLock
  <2>2. /\ fetched[c].version \in Versions /\ now \in Nat
        /\ fetched[c].asOf \in Nat /\ proj[c] \in Projects
        /\ e \in Entries
    BY <1>0, <2>0 DEF SamplesSound, CacheTypeOK, Entries
  <2>3. CacheTypeOK'
    <3>1. NothingFetched \in [version : 0..MaxVersion, asOf : Nat]
      BY BoundsAssumption DEF NothingFetched
    <3>2. fetched' \in [Callers -> [version : 0..MaxVersion, asOf : Nat]]
          /\ fetchStart' \in [Callers -> Nat]
      BY <1>0, <2>0, <3>1 DEF CacheTypeOK
    <3>3. ans' \in [Callers -> 0..MaxVersion]
      BY <1>0, <2>0, <2>2 DEF CacheTypeOK, Versions
    <3>4. entries' \in [Projects -> Entries]
      BY <1>0, <2>0, <2>2 DEF CacheTypeOK
    <3> QED BY <1>0, <2>0, <2>1, <3>2, <3>3, <3>4 DEF CacheTypeOK
  <2>4. e.asOf <= e.at /\ e.at <= now /\ e.at - e.asOf <= FetchTime
        /\ e.version <= upstream[proj[c]]
    <3>1. /\ fetched[c].asOf <= now /\ fetchStart[c] <= fetched[c].asOf
          /\ fetched[c].version <= upstream[proj[c]]
      BY <1>0, <2>0 DEF SamplesSound
    <3>2. now <= fetchStart[c] + FetchTime /\ fetchStart[c] \in Nat
      BY <1>0, <2>0 DEF FetchesSound, Fetching, CacheTypeOK
    <3> QED BY <2>2, <3>1, <3>2, FetchTimeAssumption
  <2>5. EntriesSound'
    <3>1. \A p \in Projects :
            entries'[p] = IF p = proj[c] THEN e ELSE entries[p]
      BY <1>0, <2>0 DEF CacheTypeOK
    <3> HIDE DEF e
    <3> QED BY <1>0, <2>0, <2>4, <3>1 DEF EntriesSound
  <2>6. FetchesSound' /\ SamplesSound'
    BY <2>1 DEF FetchesSound, SamplesSound, Fetching, WriterPcs
  <2> QED BY <2>1, <2>3, <2>5, <2>6 DEF CacheInv
<1>10. ASSUME NEW c \in Callers, FetchFails(c) PROVE CacheInv'
  <2>0. /\ pc[c] \in Fetching /\ UnlockAndLeave(c)
        /\ ans' = [ans EXCEPT ![c] = entries[proj[c]].version]
        /\ fetched' = [fetched EXCEPT ![c] = NothingFetched]
        /\ fetchStart' = [fetchStart EXCEPT ![c] = 0]
        /\ UNCHANGED <<entries, proj, upstream, now>>
    BY <1>10 DEF FetchFails, Return, EndFetch, Fetching
  <2>1. /\ pc' \in [Callers -> Pcs] /\ writer' = NoCaller /\ WriterExcludesAll'
        /\ \A d \in Callers : pc'[d] \notin WriterPcs
    BY <2>0, UnlockKeepsLock DEF Fetching
  <2>2. \A p \in Projects : entries[p].version \in 0..MaxVersion
    BY <1>0, BoundsAssumption DEF CacheTypeOK, Entries, NoEntry, Versions
  <2>3. CacheTypeOK'
    <3>1. NothingFetched \in [version : 0..MaxVersion, asOf : Nat]
      BY BoundsAssumption DEF NothingFetched
    <3>2. fetched' \in [Callers -> [version : 0..MaxVersion, asOf : Nat]]
          /\ fetchStart' \in [Callers -> Nat]
      BY <1>0, <2>0, <3>1 DEF CacheTypeOK
    <3>3. ans' \in [Callers -> 0..MaxVersion]
      BY <1>0, <2>0, <2>2 DEF CacheTypeOK
    <3> QED BY <1>0, <2>0, <2>1, <3>2, <3>3 DEF CacheTypeOK
  <2>4. EntriesSound'
    BY <1>0, <2>0 DEF EntriesSound
  <2>5. FetchesSound' /\ SamplesSound'
    BY <2>1 DEF FetchesSound, SamplesSound, Fetching, WriterPcs
  <2> QED BY <2>1, <2>3, <2>4, <2>5 DEF CacheInv
<1>11. ASSUME NEW p \in Projects, ChangeStates(p) PROVE CacheInv'
  <2>0. /\ upstream' = [upstream EXCEPT ![p] = upstream[p] + 1]
        /\ upstream[p] < MaxVersion
        /\ UNCHANGED <<entries, writer, pc, proj, fetched, fetchStart, ans, now>>
    BY <1>11 DEF ChangeStates
  <2>1. CacheTypeOK'
    BY <1>0, <2>0, BoundsAssumption DEF CacheTypeOK, Versions
  <2>2. WriterExcludesAll'
    BY <1>0, <2>0 DEF WriterExcludesAll, Readers
  <2>3. \A r \in Projects : upstream[r] \in Nat /\ upstream[r] <= upstream'[r]
    BY <1>0, <2>0 DEF CacheTypeOK, Versions
  <2>4. EntriesSound'
    <3>1. \A r \in Projects : entries[r].version \in Nat
      BY <1>0 DEF CacheTypeOK, Entries, NoEntry, Versions
    <3> QED BY <1>0, <2>0, <2>1, <2>3, <3>1 DEF EntriesSound, CacheTypeOK, Versions
  <2>5. FetchesSound'
    BY <1>0, <2>0 DEF FetchesSound, Fresh
  <2>6. SamplesSound'
    <3> SUFFICES ASSUME NEW d \in Callers, pc'[d] = "sampled"
                 PROVE  /\ fetched'[d].version \in Versions
                        /\ fetchStart'[d] <= fetched'[d].asOf
                        /\ fetched'[d].asOf <= now'
                        /\ fetched'[d].version <= upstream'[proj'[d]]
                        /\ entries'[proj'[d]].version <= fetched'[d].version
      BY DEF SamplesSound
    <3>1. /\ proj[d] \in Projects /\ upstream'[proj[d]] \in Nat
          /\ upstream[proj[d]] \in Nat /\ upstream[proj[d]] <= upstream'[proj[d]]
          /\ fetched[d].version \in Nat
      BY <1>0, <2>1, <2>3 DEF CacheTypeOK, Versions
    <3>2. fetched[d].version <= upstream[proj[d]]
      BY <1>0, <2>0 DEF SamplesSound
    <3> QED BY <1>0, <2>0, <3>1, <3>2 DEF SamplesSound
  <2> QED BY <2>1, <2>2, <2>4, <2>5, <2>6 DEF CacheInv
<1>12. CASE Tick
  <2>0. /\ now' = now + 1 /\ now \in Nat
        /\ \A c \in Callers : pc[c] \in Fetching => now < fetchStart[c] + FetchTime
        /\ UNCHANGED <<entries, writer, pc, proj, fetched, fetchStart, ans, upstream>>
    BY <1>0, <1>12 DEF Tick, CacheTypeOK, Fetching
  <2>1. CacheTypeOK'
    BY <1>0, <2>0 DEF CacheTypeOK
  <2>2. WriterExcludesAll'
    BY <1>0, <2>0 DEF WriterExcludesAll, Readers
  <2>3. \A p \in Projects : entries[p].at \in Nat /\ entries[p].asOf \in Nat
    BY <1>0 DEF CacheTypeOK, Entries, NoEntry
  <2>4. EntriesSound'
    BY <1>0, <2>0, <2>3 DEF EntriesSound
  <2>5. FetchesSound'
    <3> SUFFICES ASSUME NEW d \in Callers, pc'[d] \in Fetching
                 PROVE  /\ fetchStart'[d] <= now'
                        /\ now' <= fetchStart'[d] + FetchTime
                        /\ ~Fresh(proj[d])'
      BY <2>0 DEF FetchesSound
    <3>1. /\ fetchStart[d] \in Nat /\ proj[d] \in Projects
          /\ fetchStart[d] <= now /\ ~Fresh(proj[d])
          /\ now < fetchStart[d] + FetchTime
      BY <1>0, <2>0 DEF CacheTypeOK, FetchesSound
    <3>2. ~Fresh(proj[d])'
      BY <2>0, <2>3, <3>1, TTLAssumption DEF Fresh
    <3> QED BY <2>0, <3>1, <3>2, FetchTimeAssumption
  <2>6. SamplesSound'
    <3>1. \A d \in Callers : fetched[d].asOf \in Nat
      BY <1>0 DEF CacheTypeOK
    <3> QED BY <1>0, <2>0, <3>1 DEF SamplesSound
  <2> QED BY <2>1, <2>2, <2>4, <2>5, <2>6 DEF CacheInv
<1>13. CASE UNCHANGED cacheVars
  BY <1>0, <1>13
     DEF cacheVars, CacheInv, CacheTypeOK, WriterExcludesAll, Readers, EntriesSound,
         FetchesSound, SamplesSound, Fresh
<1> QED
  BY <1>1, <1>2, <1>3, <1>4, <1>5, <1>6, <1>7, <1>8, <1>9, <1>10, <1>11, <1>12,
     <1>13 DEF CacheNext, CacheStep

-----------------------------------------------------------------------------
(* The invariant holds for every set of callers and projects. *)
THEOREM CacheIsSafe == CacheSpec => []CacheInv
<1> QED BY CacheInitInv, CacheNextInv, PTL DEF CacheSpec

(* Past Lock there is one goroutine, without readers: at most one fetch of *)
(* resolved states is in progress in the whole proxy.                      *)
THEOREM WriterIsAlone == CacheSpec => []WriterExcludesAll
<1>1. CacheInv => WriterExcludesAll
  BY DEF CacheInv
<1> QED BY <1>1, CacheIsSafe, PTL

(* The state of the cache is of its type. *)
THEOREM CacheIsTyped == CacheSpec => []CacheTypeOK
<1>1. CacheInv => CacheTypeOK
  BY DEF CacheInv
<1> QED BY <1>1, CacheIsSafe, PTL

(* The map changes only by Store, for the project of the call that stores. *)
LEMMA OnlyStoreWrites ==
  ASSUME CacheInv, [CacheNext]_cacheVars, entries' # entries
  PROVE  \E c \in Callers : Store(c)
BY DEF CacheNext, CacheStep, Call, RLock, FastPath, Announce, Lock,
       DoubleCheckHit, BeginFetch, Sample, FetchFails, ChangeStates, Tick, cacheVars

(* An entry is replaced no earlier than a ttl after it was stored, however *)
(* many goroutines missed it together.                                     *)
THEOREM RefreshOncePerTTL == CacheSpec => OneRefreshPerTTL
<1>1. ASSUME CacheInv, [CacheNext]_cacheVars, NEW p \in Projects,
             entries[p].version # 0, entries'[p] # entries[p]
      PROVE  entries'[p].at - entries[p].at >= TTL
  <2>1. PICK c \in Callers : Store(c)
    BY <1>1, OnlyStoreWrites
  <2>2. entries \in [Projects -> Entries] /\ now \in Nat /\ TTL \in Nat
        /\ proj[c] \in Projects
    BY <1>1, TTLAssumption DEF CacheInv, CacheTypeOK
  <2>3. p = proj[c] /\ entries'[p].at = now
    BY <1>1, <2>1, <2>2 DEF Store
  <2>4. ~Fresh(p)
    BY <1>1, <2>1, <2>3 DEF Store, CacheInv, FetchesSound, Fetching
  <2>5. entries[p].at \in Nat
    BY <2>2 DEF Entries, NoEntry
  <2> QED BY <1>1, <2>2, <2>3, <2>4, <2>5 DEF Fresh
<1>2. CacheInv /\ [CacheNext]_cacheVars
        => [\A p \in Projects :
              (entries[p].version # 0 /\ entries'[p] # entries[p])
                => entries'[p].at - entries[p].at >= TTL]_cacheVars
  BY <1>1
<1> QED BY <1>2, CacheIsSafe, PTL DEF CacheSpec, OneRefreshPerTTL

(* A hit, on the fast path or at the double check, is younger than a ttl   *)
(* plus the longest fetch, counted from when YouTrack read the data.       *)
THEOREM HitsStayRecent == CacheSpec => HitsAreRecent
<1>1. ASSUME CacheInv, [CacheNext]_cacheVars, NEW c \in Callers,
             pc[c] \in {"reading", "locked"}, pc'[c] = "idle"
      PROVE  now - entries[proj[c]].asOf < TTL + FetchTime
  <2>1. /\ pc \in [Callers -> Pcs] /\ proj[c] \in Projects /\ now \in Nat
        /\ entries[proj[c]] \in Entries
    BY <1>1 DEF CacheInv, CacheTypeOK
  <2>2. Fresh(proj[c])
    <3>1. ASSUME NEW d \in Callers, CacheStep(d)
          PROVE  Fresh(proj[c])
      <4>1. CASE d = c
        BY <1>1, <2>1, <3>1, <4>1
           DEF CacheStep, RLock, FastPath, Announce, Lock, DoubleCheckHit,
               BeginFetch, Sample, Store, FetchFails, Goto, UnlockAndLeave
      <4>2. CASE d # c
        BY <1>1, <2>1, <3>1, <4>2
           DEF CacheStep, RLock, FastPath, Announce, Lock, DoubleCheckHit,
               BeginFetch, Sample, Store, FetchFails, Goto, UnlockAndLeave
      <4> QED BY <4>1, <4>2
    <3>2. ASSUME NEW d \in Callers, NEW p \in Projects, Call(d, p) PROVE FALSE
      BY <1>1, <2>1, <3>2 DEF Call, Goto
    <3>3. ASSUME NEW p \in Projects, ChangeStates(p) PROVE FALSE
      BY <1>1, <3>3 DEF ChangeStates
    <3>4. ~Tick /\ ~(UNCHANGED cacheVars)
      BY <1>1 DEF Tick, cacheVars
    <3> QED BY <1>1, <3>1, <3>2, <3>3, <3>4 DEF CacheNext
  <2>3. entries[proj[c]].at \in Nat /\ entries[proj[c]].asOf \in Nat
    BY <2>1 DEF Entries, NoEntry
  <2>4. entries[proj[c]].at - entries[proj[c]].asOf <= FetchTime
        /\ now - entries[proj[c]].at < TTL
    BY <1>1, <2>1, <2>2 DEF Fresh, CacheInv, EntriesSound
  <2> QED BY <2>1, <2>3, <2>4, TTLAssumption, FetchTimeAssumption
<1>2. CacheInv /\ [CacheNext]_cacheVars
        => [\A c \in Callers :
              (pc[c] \in {"reading", "locked"} /\ pc'[c] = "idle")
                => now - entries[proj[c]].asOf < TTL + FetchTime]_cacheVars
  BY <1>1
<1> QED BY <1>2, CacheIsSafe, PTL DEF CacheSpec, HitsAreRecent

-----------------------------------------------------------------------------
(* Unlocking takes c, and nobody else, out of its call. *)
LEMMA UnlockEndsOneCall ==
  ASSUME CacheInv, NEW c \in Callers, pc[c] # "idle", UnlockAndLeave(c)
  PROVE  c \in InCall /\ InCall' = InCall \ {c}
<1>1. \A d \in Callers :
        pc'[d] = IF d = c THEN "idle"
                 ELSE IF pc[d] = "blocked" THEN "reading" ELSE pc[d]
  BY DEF UnlockAndLeave
<1> QED BY <1>1 DEF InCall

(* An answer from the map is the known version of the caller's project. *)
LEMMA ReturnGives ==
  ASSUME CacheInv, NEW c \in Callers, c \in InCall, InCall' = InCall \ {c},
         Return(c, entries[proj[c]]), UNCHANGED <<entries, proj>>
  PROVE  Known!Give(c)
<1>1. proj[c] \in Projects
  BY DEF CacheInv, CacheTypeOK
<1>2. KnownVersion[proj[c]] = entries[proj[c]].version /\ KnownVersion' = KnownVersion
  BY <1>1 DEF KnownVersion
<1> QED BY <1>2 DEF Known!Give, Return

(* The cache implements KnownStates for every set of callers and projects: *)
(* each answer is the newest version ever stored for the project at a      *)
(* moment of the call, and what is known never goes back or is forgotten.  *)
THEOREM CacheImplementsKnownStates == CacheSpec => ImplementsKnownStates
<1>1. CacheInit => Known!Init
  <2> SUFFICES ASSUME CacheInit PROVE Known!Init
    OBVIOUS
  <2>1. KnownVersion = [p \in Projects |-> 0]
    BY DEF CacheInit, KnownVersion, NoEntry
  <2>2. InCall = {} /\ proj \in [Callers -> Projects]
    BY DEF CacheInit, InCall
  <2> QED BY <2>1, <2>2 DEF CacheInit, Known!Init
<1>2. ASSUME CacheInv, [CacheNext]_cacheVars
      PROVE  [Known!Next]_(Known!vars)
  <2>0. /\ pc \in [Callers -> Pcs] /\ proj \in [Callers -> Projects]
        /\ ans \in [Callers -> 0..MaxVersion]
    BY <1>2 DEF CacheInv, CacheTypeOK
  <2> DEFINE Quiet == UNCHANGED Known!vars
  <2>1. ASSUME NEW c \in Callers, NEW p \in Projects, Call(c, p)
        PROVE  Known!Ask(c, p)
    <3>1. KnownVersion' = KnownVersion
      BY <2>1 DEF Call, KnownVersion
    <3>2. c \notin InCall /\ InCall' = InCall \cup {c}
      BY <2>0, <2>1 DEF Call, Goto, InCall
    <3> QED BY <2>1, <3>1, <3>2 DEF Call, Known!Ask
  <2>2. ASSUME NEW c \in Callers, NEW where \in Pcs \ {"idle"}, pc[c] # "idle",
               Goto(c, where), UNCHANGED <<entries, proj, ans>>
        PROVE  Quiet
    <3>1. KnownVersion' = KnownVersion
      BY <2>2 DEF KnownVersion
    <3>2. InCall' = InCall
      BY <2>0, <2>2 DEF Goto, InCall
    <3> QED BY <2>2, <3>1, <3>2 DEF Known!vars
  <2>3. ASSUME NEW c \in Callers, RLock(c) PROVE Quiet
    BY <2>2, <2>3 DEF RLock, Pcs
  <2>4. ASSUME NEW c \in Callers, FastPath(c) PROVE Known!Give(c) \/ Quiet
    <3>1. CASE Fresh(proj[c])
      <4>1. c \in InCall /\ InCall' = InCall \ {c}
        BY <2>0, <2>4, <3>1 DEF FastPath, Goto, InCall
      <4> QED BY <1>2, <2>4, <3>1, <4>1, ReturnGives DEF FastPath
    <3>2. CASE ~Fresh(proj[c])
      BY <2>2, <2>4, <3>2 DEF FastPath, Pcs
    <3> QED BY <3>1, <3>2
  <2>5. ASSUME NEW c \in Callers, Announce(c) PROVE Quiet
    BY <2>2, <2>5 DEF Announce, Pcs, WriterPcs
  <2>6. ASSUME NEW c \in Callers, Lock(c) PROVE Quiet
    BY <2>2, <2>6 DEF Lock, Pcs, WriterPcs
  <2>7. ASSUME NEW c \in Callers, DoubleCheckHit(c) PROVE Known!Give(c)
    <3>1. c \in InCall /\ InCall' = InCall \ {c}
      BY <1>2, <2>7, UnlockEndsOneCall DEF DoubleCheckHit
    <3> QED BY <1>2, <2>7, <3>1, ReturnGives DEF DoubleCheckHit
  <2>8. ASSUME NEW c \in Callers, BeginFetch(c) PROVE Quiet
    BY <2>2, <2>8 DEF BeginFetch, Pcs, WriterPcs
  <2>9. ASSUME NEW c \in Callers, Sample(c) PROVE Quiet
    BY <2>2, <2>9 DEF Sample, Pcs, WriterPcs
  <2>10. ASSUME NEW c \in Callers, Store(c)
         PROVE  \E v \in Versions : Known!Learn(c, v)
    <3> DEFINE v == fetched[c].version
    <3>1. v \in Versions /\ entries[proj[c]].version <= v /\ proj[c] \in Projects
      BY <1>2, <2>0, <2>10 DEF Store, CacheInv, SamplesSound
    <3>2. /\ KnownVersion[proj[c]] = entries[proj[c]].version
          /\ KnownVersion' = [KnownVersion EXCEPT ![proj[c]] = v]
      BY <1>2, <2>10, <3>1 DEF Store, KnownVersion, CacheInv, CacheTypeOK
    <3>3. c \in InCall /\ InCall' = InCall \ {c}
      BY <1>2, <2>10, UnlockEndsOneCall DEF Store
    <3>4. ans' = [ans EXCEPT ![c] = v] /\ proj' = proj
      BY <2>10 DEF Store, Return
    <3>5. v >= KnownVersion[proj[c]]
      BY <3>1, <3>2 DEF Versions
    <3>6. Known!Learn(c, v)
      BY <3>2, <3>3, <3>4, <3>5 DEF Known!Learn
    <3> QED BY <3>1, <3>6
  <2>11. ASSUME NEW c \in Callers, FetchFails(c) PROVE Known!Give(c)
    <3>1. c \in InCall /\ InCall' = InCall \ {c}
      BY <1>2, <2>11, UnlockEndsOneCall DEF FetchFails
    <3> QED BY <1>2, <2>11, <3>1, ReturnGives DEF FetchFails
  <2>12. ASSUME NEW p \in Projects, ChangeStates(p) PROVE Quiet
    BY <2>12 DEF ChangeStates, Known!vars, KnownVersion, InCall
  <2>13. CASE Tick
    BY <2>13 DEF Tick, Known!vars, KnownVersion, InCall
  <2>14. CASE UNCHANGED cacheVars
    BY <2>14 DEF cacheVars, Known!vars, KnownVersion, InCall
  <2> QED
    BY <1>2, <2>1, <2>3, <2>4, <2>5, <2>6, <2>7, <2>8, <2>9, <2>10, <2>11,
       <2>12, <2>13, <2>14 DEF CacheNext, CacheStep, Known!Next
<1> QED
  BY <1>1, <1>2, CacheIsSafe, PTL DEF CacheSpec, ImplementsKnownStates, Known!Safety
=============================================================================
