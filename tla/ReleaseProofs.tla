--------------------------- MODULE ReleaseProofs ----------------------------
(***************************************************************************)
(* Proofs about the release workflow: versions and "latest", for any       *)
(* number of pushes, days, re-runs, version tags and deletions.            *)
(***************************************************************************)
EXTENDS Release, FiniteSetTheorems, TLAPS

Runs == [day : Days, seq : Nat]

(* What the steps rely on, without the bounds that are for TLC only.       *)
WorkflowTypeOK ==
  /\ step \in [Commits -> {"none", "pending"} \cup InProgress \cup Ended]
  /\ fetched \in [Commits -> SUBSET Runs]
  /\ \A c \in Commits : IsFiniteSet(fetched[c])
  /\ version \in [Commits -> Runs \cup {NoVersion}]
  /\ head \in 0..MaxPushes /\ today \in Days /\ latest \in 0..head
  /\ DOMAIN tags \subseteq Runs /\ IsFiniteSet(DOMAIN tags)
  /\ tagged \subseteq 1..head /\ reran \subseteq Commits

(* The concurrency group: no two runs are in progress. *)
OneInProgress ==
  \A c, d \in Commits : step[c] \in InProgress /\ step[d] \in InProgress => c = d

(* Nobody else adds a tag between the checkout and the end of a run.       *)
TagsAreFresh ==
  /\ \A c \in Commits, d \in Days :
       step[c] = "checked out" /\ On(d, deleted) = {}
         => On(d, fetched[c]) = On(d, DOMAIN tags)
  /\ \A c \in Commits :
       step[c] \in {"computed", "pushed"} =>
         /\ version[c] \in Runs
         /\ On(version[c].day, deleted) = {} =>
              version[c].seq = Cardinality(On(version[c].day, DOMAIN tags)) + 1

(* Nobody else replaces the image before it is released. *)
ImagesArePushed ==
  \A c \in Commits :
    step[c] = "pushed" => version[c] \in DOMAIN images /\ images[version[c]] = c

(* A run that was not started by a user is pending only while its commit   *)
(* is the newest, and while it is in progress nothing newer was pushed to  *)
(* "latest" but by the run of a version tag.                               *)
NewestIsLatest ==
  \A c \in Commits :
    /\ step[c] # "none" => c <= head
    /\ c \notin reran =>
         /\ step[c] = "pending" => c = head
         /\ step[c] \in InProgress => latest <= c \/ latest \in tagged

ReleaseInv ==
  /\ WorkflowTypeOK /\ OneInProgress
  /\ TagsAreFresh /\ ImagesArePushed /\ NewestIsLatest
  /\ NumberedWithoutGaps /\ TagsMatchImages

-----------------------------------------------------------------------------
LEMMA OnIsFinite ==
  ASSUME NEW d, NEW S, IsFiniteSet(S)
  PROVE  IsFiniteSet(On(d, S)) /\ Cardinality(On(d, S)) \in Nat
<1>1. On(d, S) \subseteq S
  BY DEF On
<1>2. QED
  BY <1>1, FS_Subset, FS_CardinalityType

(* The number that is counted is not taken. *)
LEMMA CountedIsNew ==
  ASSUME ReleaseInv, NEW c \in Commits, step[c] \in {"computed", "pushed"},
         On(version[c].day, deleted) = {}
  PROVE  version[c] \notin DOMAIN tags
<1> DEFINE d == version[c].day
           n == Cardinality(On(d, DOMAIN tags))
<1>1. d \in Days /\ version[c].seq = n + 1 /\ n \in Nat
  BY OnIsFinite DEF ReleaseInv, TagsAreFresh, WorkflowTypeOK, Runs
<1>2. {v.seq : v \in On(d, DOMAIN tags)} = 1..n
  BY <1>1 DEF ReleaseInv, NumberedWithoutGaps
<1>3. \A v \in On(d, DOMAIN tags) : v.seq \in 1..n
  BY <1>2
<1>4. version[c] \in DOMAIN tags => version[c] \in On(d, DOMAIN tags)
  BY DEF On
<1>5. QED
  BY <1>1, <1>3, <1>4

LEMMA ReleaseInvInit == Init => ReleaseInv
<1> SUFFICES ASSUME Init PROVE ReleaseInv
  OBVIOUS
<1>1. DOMAIN tags = {} /\ IsFiniteSet(DOMAIN tags)
  BY FS_EmptySet DEF Init
<1>2. \A d \in Days : On(d, DOMAIN tags) = {}
  BY <1>1 DEF On
<1>3. WorkflowTypeOK
  BY <1>1, BoundsAssumption DEF Init, WorkflowTypeOK, Days
<1>4. \A c \in Commits : step[c] = "none"
  BY DEF Init
<1>5. OneInProgress /\ TagsAreFresh /\ ImagesArePushed /\ NewestIsLatest
  BY <1>4 DEF OneInProgress, TagsAreFresh, ImagesArePushed, NewestIsLatest, InProgress
<1>6. NumberedWithoutGaps
  BY <1>2, FS_EmptySet DEF NumberedWithoutGaps
<1>7. TagsMatchImages
  BY <1>1 DEF TagsMatchImages
<1>8. QED
  BY <1>3, <1>5, <1>6, <1>7 DEF ReleaseInv

-----------------------------------------------------------------------------
(* A run that joins the group starts or is pending; others keep their step *)
(* or are cancelled; none is in progress beside one that starts.           *)
LEMMA QueueFacts ==
  ASSUME ReleaseInv, NEW c \in Commits, step[c] \notin InProgress, Queue(c)
  PROVE  /\ step' \in [Commits -> {"none", "pending"} \cup InProgress \cup Ended]
         /\ step'[c] \in {"pending", "started"}
         /\ \A d \in Commits \ {c} :
              /\ step'[d] # "pending"
              /\ step'[d] # step[d] => step[d] = "pending" /\ step'[d] = "cancelled"
         /\ OneInProgress'
<1>1. step \in [Commits -> {"none", "pending"} \cup InProgress \cup Ended]
  BY DEF ReleaseInv, WorkflowTypeOK
<1>2. CASE \A d \in Commits : step[d] \notin InProgress \cup {"pending"}
  <2>1. step' = [step EXCEPT ![c] = "started"]
    BY <1>2 DEF Queue
  <2>2. QED
    BY <1>1, <1>2, <2>1 DEF OneInProgress, InProgress
<1>3. CASE ~(\A d \in Commits : step[d] \notin InProgress \cup {"pending"})
  <2>1. step' = [d \in Commits |-> IF d = c THEN "pending"
                                 ELSE IF step[d] = "pending" THEN "cancelled"
                                 ELSE step[d]]
    BY <1>3 DEF Queue
  <2>2. QED
    BY <1>1, <2>1 DEF ReleaseInv, OneInProgress, InProgress, Ended
<1>4. QED
  BY <1>2, <1>3

LEMMA PushKeepsInv == ReleaseInv /\ Push => ReleaseInv'
<1> SUFFICES ASSUME ReleaseInv, Push PROVE ReleaseInv'
  OBVIOUS
<1> DEFINE c == head + 1
<1>1. /\ c \in Commits /\ head' = c /\ Queue(c)
      /\ UNCHANGED <<fetched, version, today, tags, images, latest, tagged, reran, deleted>>
  BY BoundsAssumption DEF Push, userVars, ReleaseInv, WorkflowTypeOK, Commits
<1>2. /\ step[c] = "none" /\ head \in 0..MaxPushes /\ head' \in 0..MaxPushes
      /\ head' = head + 1 /\ head \in Nat /\ latest \in 0..head /\ latest \in 0..head'
  BY <1>1, BoundsAssumption DEF ReleaseInv, WorkflowTypeOK, NewestIsLatest, Commits
<1> HIDE DEF c
<1>3. /\ step' \in [Commits -> {"none", "pending"} \cup InProgress \cup Ended]
      /\ step'[c] \in {"pending", "started"}
      /\ \A d \in Commits \ {c} :
           /\ step'[d] # "pending"
           /\ step'[d] # step[d] => step[d] = "pending" /\ step'[d] = "cancelled"
      /\ OneInProgress'
  BY <1>1, <1>2, QueueFacts DEF InProgress
<1>4. WorkflowTypeOK'
  BY <1>1, <1>2, <1>3 DEF ReleaseInv, WorkflowTypeOK
<1>5. TagsAreFresh' /\ ImagesArePushed'
  <2>1. \A d \in Commits :
          step'[d] \in {"checked out", "computed", "pushed"} => step'[d] = step[d]
    BY <1>3
  <2>2. QED
    BY <1>1, <2>1 DEF ReleaseInv, TagsAreFresh, ImagesArePushed
<1>6. NewestIsLatest'
  <2> SUFFICES ASSUME NEW d \in Commits
               PROVE  /\ step'[d] # "none" => d <= head'
                      /\ d \notin reran =>
                           /\ step'[d] = "pending" => d = head'
                           /\ step'[d] \in InProgress => latest <= d \/ latest \in tagged
    BY <1>1 DEF NewestIsLatest
  <2>1. d \in Int
    BY DEF Commits
  <2>2. CASE d = c
    <3>1. d = head'
      BY <1>1, <2>2
    <3>2. d <= d /\ latest <= d
      BY <1>2, <2>1, <3>1
    <3>3. QED
      BY <3>1, <3>2
  <2>3. CASE d # c
    <3>1. /\ step'[d] # "pending"
          /\ step'[d] # "none" => step[d] # "none"
          /\ step'[d] \in InProgress => step[d] \in InProgress
      BY <1>3, <2>3 DEF InProgress
    <3>2. QED
      BY <1>2, <2>1, <3>1 DEF ReleaseInv, NewestIsLatest
  <2>4. QED
    BY <2>2, <2>3
<1>7. QED
  BY <1>1, <1>3, <1>4, <1>5, <1>6 DEF ReleaseInv, NumberedWithoutGaps, TagsMatchImages

LEMMA RerunKeepsInv ==
  ASSUME ReleaseInv, NEW c \in Commits, Rerun(c)
  PROVE  ReleaseInv'
<1>1. /\ Queue(c) /\ reran' = reran \cup {c} /\ step[c] \in Ended
      /\ UNCHANGED <<fetched, version, head, today, tags, images, latest, tagged, deleted>>
  BY DEF Rerun
<1>2. /\ step' \in [Commits -> {"none", "pending"} \cup InProgress \cup Ended]
      /\ step'[c] \in {"pending", "started"}
      /\ \A d \in Commits \ {c} :
           /\ step'[d] # "pending"
           /\ step'[d] # step[d] => step[d] = "pending" /\ step'[d] = "cancelled"
      /\ OneInProgress'
  BY <1>1, QueueFacts DEF InProgress, Ended
<1>3. WorkflowTypeOK'
  BY <1>1, <1>2 DEF ReleaseInv, WorkflowTypeOK
<1>4. TagsAreFresh' /\ ImagesArePushed'
  <2>1. \A d \in Commits :
          step'[d] \in {"checked out", "computed", "pushed"} => step'[d] = step[d]
    BY <1>2
  <2>2. QED
    BY <1>1, <2>1 DEF ReleaseInv, TagsAreFresh, ImagesArePushed
<1>5. NewestIsLatest'
  <2> SUFFICES ASSUME NEW d \in Commits
               PROVE  /\ step'[d] # "none" => d <= head
                      /\ d \notin reran' =>
                           /\ step'[d] = "pending" => d = head
                           /\ step'[d] \in InProgress => latest <= d \/ latest \in tagged
    BY <1>1 DEF NewestIsLatest
  <2>1. CASE d = c
    BY <1>1, <2>1 DEF ReleaseInv, NewestIsLatest, Ended
  <2>2. CASE d # c
    BY <1>1, <1>2, <2>2 DEF ReleaseInv, NewestIsLatest, InProgress
  <2>3. QED
    BY <2>1, <2>2
<1>6. QED
  BY <1>1, <1>2, <1>3, <1>4, <1>5 DEF ReleaseInv, NumberedWithoutGaps, TagsMatchImages

LEMMA StartKeepsInv ==
  ASSUME ReleaseInv, NEW c \in Commits, Start(c)
  PROVE  ReleaseInv'
<1>1. /\ step[c] = "pending" /\ \A d \in Commits : step[d] \notin InProgress
      /\ step' = [step EXCEPT ![c] = "started"]
      /\ UNCHANGED <<fetched, version, head, today, tags, images, latest, tagged, reran, deleted>>
  BY DEF Start, userVars
<1>2. WorkflowTypeOK' /\ OneInProgress' /\ TagsAreFresh' /\ ImagesArePushed'
  BY <1>1 DEF ReleaseInv, WorkflowTypeOK, OneInProgress, TagsAreFresh, ImagesArePushed,
              InProgress
<1>3. NewestIsLatest'
  <2>1. /\ c <= head /\ (c \notin reran => c = head) /\ latest <= head
        /\ step'[c] = "started" /\ \A d \in Commits \ {c} : step'[d] = step[d]
    BY <1>1 DEF ReleaseInv, WorkflowTypeOK, NewestIsLatest
  <2>2. QED
    BY <1>1, <2>1 DEF ReleaseInv, NewestIsLatest
<1>4. QED
  BY <1>1, <1>2, <1>3 DEF ReleaseInv, NumberedWithoutGaps, TagsMatchImages

LEMMA CheckoutKeepsInv ==
  ASSUME ReleaseInv, NEW c \in Commits, Checkout(c)
  PROVE  ReleaseInv'
<1>1. /\ step[c] = "started" /\ step' = [step EXCEPT ![c] = "checked out"]
      /\ fetched' = [fetched EXCEPT ![c] = DOMAIN tags]
      /\ UNCHANGED <<version, head, today, tags, images, latest, tagged, reran, deleted>>
  BY DEF Checkout, userVars
<1>2. WorkflowTypeOK' /\ OneInProgress' /\ ImagesArePushed'
  BY <1>1 DEF ReleaseInv, WorkflowTypeOK, OneInProgress, ImagesArePushed, InProgress
<1>3. TagsAreFresh'
  BY <1>1 DEF ReleaseInv, WorkflowTypeOK, TagsAreFresh
<1>4. NewestIsLatest'
  BY <1>1 DEF ReleaseInv, WorkflowTypeOK, NewestIsLatest, InProgress
<1>5. QED
  BY <1>1, <1>2, <1>3, <1>4 DEF ReleaseInv, NumberedWithoutGaps, TagsMatchImages

LEMMA ComputeVersionKeepsInv ==
  ASSUME ReleaseInv, NEW c \in Commits, ComputeVersion(c)
  PROVE  ReleaseInv'
<1> DEFINE v == [day |-> today, seq |-> Cardinality(On(today, fetched[c])) + 1]
<1>1. /\ step[c] = "checked out" /\ step' = [step EXCEPT ![c] = "computed"]
      /\ version' = [version EXCEPT ![c] = v]
      /\ UNCHANGED <<fetched, head, today, tags, images, latest, tagged, reran, deleted>>
  BY DEF ComputeVersion, userVars
<1>2. On(today, deleted) = {} => On(today, fetched[c]) = On(today, DOMAIN tags)
  BY <1>1 DEF ReleaseInv, WorkflowTypeOK, TagsAreFresh
<1>3. v \in Runs /\ v.day = today /\ v.seq = Cardinality(On(today, fetched[c])) + 1
  BY OnIsFinite DEF ReleaseInv, WorkflowTypeOK, Runs
<1> HIDE DEF v
<1>4. WorkflowTypeOK' /\ OneInProgress' /\ ImagesArePushed'
  BY <1>1, <1>3
     DEF ReleaseInv, WorkflowTypeOK, OneInProgress, ImagesArePushed, InProgress
<1>5. TagsAreFresh'
  <2>1. version'[c] = v /\ \A d \in Commits \ {c} : version'[d] = version[d]
    BY <1>1 DEF ReleaseInv, WorkflowTypeOK
  <2>2. /\ step'[c] = "computed"
        /\ \A d \in Commits \ {c} : step'[d] = step[d]
    BY <1>1 DEF ReleaseInv, WorkflowTypeOK
  <2>3. QED
    BY <1>1, <1>2, <1>3, <2>1, <2>2 DEF ReleaseInv, TagsAreFresh
<1>6. NewestIsLatest'
  BY <1>1 DEF ReleaseInv, WorkflowTypeOK, NewestIsLatest, InProgress
<1>7. QED
  BY <1>1, <1>4, <1>5, <1>6 DEF ReleaseInv, NumberedWithoutGaps, TagsMatchImages

LEMMA BuildAndPushKeepsInv ==
  ASSUME ReleaseInv, NEW c \in Commits, BuildAndPush(c)
  PROVE  ReleaseInv'
<1>1. /\ step[c] = "computed" /\ step' = [step EXCEPT ![c] = "pushed"]
      /\ images' = [v \in DOMAIN images \cup {version[c]} |->
                      IF v = version[c] THEN c ELSE images[v]]
      /\ latest' = c
      /\ UNCHANGED <<fetched, version, head, today, tags, tagged, reran, deleted>>
  BY DEF BuildAndPush, userVars
<1>2. c \in 0..head /\ step \in [Commits -> {"none", "pending"} \cup InProgress \cup Ended]
  BY <1>1 DEF ReleaseInv, WorkflowTypeOK, NewestIsLatest, Commits
<1>3. \A d \in Commits : step'[d] \in InProgress => d = c
  BY <1>1, <1>2 DEF ReleaseInv, OneInProgress, InProgress
<1>4. WorkflowTypeOK' /\ OneInProgress'
  BY <1>1, <1>2, <1>3 DEF ReleaseInv, WorkflowTypeOK, OneInProgress, InProgress
<1>5. TagsAreFresh'
  BY <1>1, <1>2 DEF ReleaseInv, TagsAreFresh
<1>6. ImagesArePushed'
  BY <1>1, <1>2, <1>3 DEF ImagesArePushed, InProgress
<1>7. NewestIsLatest'
  <2>1. step'[c] = "pushed" /\ \A d \in Commits \ {c} : step'[d] = step[d]
    BY <1>1, <1>2
  <2>2. c \in Int /\ c <= head /\ c <= c
    BY <1>2 DEF ReleaseInv, WorkflowTypeOK
  <2>3. QED
    BY <1>1, <1>3, <2>1, <2>2 DEF ReleaseInv, NewestIsLatest
<1>8. TagsMatchImages'
  <2> SUFFICES ASSUME NEW v \in DOMAIN tags, On(v.day, deleted) = {}
               PROVE  v \in DOMAIN images' /\ images'[v] = tags[v]
    BY <1>1 DEF TagsMatchImages
  <2>1. v # version[c]
    BY <1>1, CountedIsNew
  <2>2. QED
    BY <1>1, <2>1 DEF ReleaseInv, TagsMatchImages
<1>9. QED
  BY <1>1, <1>4, <1>5, <1>6, <1>7, <1>8 DEF ReleaseInv, NumberedWithoutGaps

(* A run that ends leaves none in progress. *)
LEMMA EndFacts ==
  ASSUME ReleaseInv, NEW c \in Commits, step[c] \in InProgress,
         NEW how \in Ended, End(c, how)
  PROVE  /\ UNCHANGED <<head, today, images, latest, tagged, reran, deleted>>
         /\ step' \in [Commits -> {"none", "pending"} \cup InProgress \cup Ended]
         /\ fetched' \in [Commits -> SUBSET Runs]
         /\ \A d \in Commits : IsFiniteSet(fetched'[d])
         /\ version' \in [Commits -> Runs \cup {NoVersion}]
         /\ \A d \in Commits : step'[d] \notin InProgress
         /\ NewestIsLatest'
<1>1. /\ step' = [step EXCEPT ![c] = how]
      /\ fetched' = [fetched EXCEPT ![c] = {}]
      /\ version' = [version EXCEPT ![c] = NoVersion]
      /\ UNCHANGED <<head, today, images, latest, tagged, reran, deleted>>
  BY DEF End, userVars
<1>2. \A d \in Commits : step'[d] \notin InProgress
  BY <1>1 DEF ReleaseInv, WorkflowTypeOK, OneInProgress, InProgress, Ended
<1>3. NewestIsLatest'
  BY <1>1, <1>2 DEF ReleaseInv, WorkflowTypeOK, NewestIsLatest, Ended, InProgress
<1>4. QED
  BY <1>1, <1>2, <1>3, FS_EmptySet DEF ReleaseInv, WorkflowTypeOK

LEMMA FailKeepsInv ==
  ASSUME ReleaseInv, NEW c \in Commits, step[c] \in InProgress,
         NEW how \in Ended, End(c, how), UNCHANGED tags
  PROVE  ReleaseInv'
<1>1. WorkflowTypeOK'
  BY EndFacts DEF ReleaseInv, WorkflowTypeOK
<1>2. OneInProgress' /\ TagsAreFresh' /\ ImagesArePushed'
  BY EndFacts DEF OneInProgress, TagsAreFresh, ImagesArePushed, InProgress
<1>3. QED
  BY <1>1, <1>2, EndFacts DEF ReleaseInv, NumberedWithoutGaps, TagsMatchImages

LEMMA CreateReleaseKeepsInv ==
  ASSUME ReleaseInv, NEW c \in Commits, CreateRelease(c)
  PROVE  ReleaseInv'
<1> DEFINE v == version[c]
           d == v.day
           n == Cardinality(On(d, DOMAIN tags))
<1>1. step[c] = "pushed" /\ step[c] \in InProgress
      /\ "failed" \in Ended /\ "released" \in Ended
  BY DEF CreateRelease, InProgress, Ended
<1>2. CASE v \in DOMAIN tags
  BY <1>1, <1>2, FailKeepsInv DEF CreateRelease
<1>3. CASE v \notin DOMAIN tags
  <2>1. /\ End(c, "released")
        /\ tags' = [w \in DOMAIN tags \cup {v} |-> IF w = v THEN c ELSE tags[w]]
    BY <1>3 DEF CreateRelease
  <2>2. v \in Runs /\ (On(d, deleted) = {} => v.seq = n + 1)
        /\ v \in DOMAIN images /\ images[v] = c
    BY <1>1 DEF ReleaseInv, TagsAreFresh, ImagesArePushed
  <2>3. DOMAIN tags' = DOMAIN tags \cup {v} /\ IsFiniteSet(DOMAIN tags)
        /\ IsFiniteSet(DOMAIN tags')
    BY <2>1, FS_AddElement DEF ReleaseInv, WorkflowTypeOK
  <2>4. WorkflowTypeOK'
    <3> HIDE DEF v
    <3> QED BY <1>1, <2>1, <2>2, <2>3, EndFacts DEF ReleaseInv, WorkflowTypeOK
  <2>5. OneInProgress' /\ TagsAreFresh' /\ ImagesArePushed'
    BY <1>1, <2>1, EndFacts DEF OneInProgress, TagsAreFresh, ImagesArePushed, InProgress
  <2>6. TagsMatchImages'
    <3> HIDE DEF v
    <3> QED BY <1>1, <2>1, <2>2, EndFacts DEF ReleaseInv, TagsMatchImages
  <2>7. NumberedWithoutGaps'
    <3> SUFFICES ASSUME NEW e \in Days, On(e, deleted) = {}
                 PROVE  {w.seq : w \in On(e, DOMAIN tags')}
                          = 1..Cardinality(On(e, DOMAIN tags'))
      BY <1>1, <2>1, EndFacts DEF NumberedWithoutGaps
    <3>1. CASE e # d
      <4>1. On(e, DOMAIN tags') = On(e, DOMAIN tags)
        BY <2>3, <3>1 DEF On
      <4>2. QED
        BY <4>1 DEF ReleaseInv, NumberedWithoutGaps
    <3>2. CASE e = d
      <4>1. On(d, DOMAIN tags') = On(d, DOMAIN tags) \cup {v}
        BY <2>3 DEF On
      <4>2. v \notin On(d, DOMAIN tags) /\ n \in Nat
        BY <1>3, <2>3, OnIsFinite DEF On
      <4>3. Cardinality(On(d, DOMAIN tags')) = n + 1
        <5>1. IsFiniteSet(On(d, DOMAIN tags))
          BY <2>3, OnIsFinite
        <5>2. QED
          BY <4>1, <4>2, <5>1, FS_AddElement
      <4>4. {w.seq : w \in On(d, DOMAIN tags)} = 1..n /\ v.seq = n + 1
        BY <2>2, <3>2 DEF ReleaseInv, NumberedWithoutGaps
      <4>5. {w.seq : w \in On(d, DOMAIN tags) \cup {v}} = (1..n) \cup {n + 1}
        BY <4>4
      <4>6. QED
        BY <3>2, <4>1, <4>2, <4>3, <4>5
    <3>3. QED
      BY <3>1, <3>2
  <2>8. QED
    BY <1>1, <2>1, <2>4, <2>5, <2>6, <2>7, EndFacts DEF ReleaseInv
<1>4. QED
  BY <1>2, <1>3

LEMMA NewDayKeepsInv == ReleaseInv /\ NewDay => ReleaseInv'
<1> SUFFICES ASSUME ReleaseInv, NewDay PROVE ReleaseInv'
  OBVIOUS
<1>1. /\ today' = today + 1 /\ today < MaxDays
      /\ UNCHANGED <<step, fetched, version, head, tags, images, latest, tagged, reran, deleted>>
  BY DEF NewDay, userVars
<1>2. WorkflowTypeOK'
  BY <1>1, BoundsAssumption DEF ReleaseInv, WorkflowTypeOK, Days
<1>3. QED
  BY <1>1, <1>2 DEF ReleaseInv, OneInProgress, TagsAreFresh, ImagesArePushed,
                    NewestIsLatest, NumberedWithoutGaps, TagsMatchImages

(* Days on which no tag was deleted are not affected. *)
LEMMA DeleteReleaseKeepsInv ==
  ASSUME ReleaseInv, NEW v \in DOMAIN tags, DeleteRelease(v)
  PROVE  ReleaseInv'
<1>1. /\ tags' = [w \in DOMAIN tags \ {v} |-> tags[w]]
      /\ deleted' = deleted \cup {v}
      /\ UNCHANGED <<step, fetched, version, head, today, images, latest, tagged, reran>>
  BY DEF DeleteRelease, Restrict
<1>2. \A d : On(d, deleted') = {} =>
        On(d, deleted) = {} /\ On(d, DOMAIN tags') = On(d, DOMAIN tags)
  BY <1>1 DEF On
<1>3. WorkflowTypeOK'
  <2>1. DOMAIN tags' = DOMAIN tags \ {v} /\ IsFiniteSet(DOMAIN tags')
    BY <1>1, FS_Subset DEF ReleaseInv, WorkflowTypeOK
  <2>2. QED
    BY <1>1, <2>1 DEF ReleaseInv, WorkflowTypeOK
<1>4. TagsAreFresh'
  BY <1>1, <1>2 DEF ReleaseInv, TagsAreFresh
<1>5. NumberedWithoutGaps' /\ TagsMatchImages'
  BY <1>1, <1>2 DEF ReleaseInv, NumberedWithoutGaps, TagsMatchImages
<1>6. QED
  BY <1>1, <1>3, <1>4, <1>5 DEF ReleaseInv, OneInProgress, ImagesArePushed, NewestIsLatest

(* A version tag and its run touch nothing that a release relies on, and   *)
(* the commit that the run makes "latest" is tagged.                       *)
LEMMA VersionTagKeepsInv ==
  ASSUME ReleaseInv, NEW c \in Commits, PushTag(c) \/ BuildTagged(c)
  PROVE  ReleaseInv'
<1>1. /\ tagged' \subseteq 1..head /\ tagged \subseteq tagged'
      /\ latest' = latest \/ latest' \in tagged
      /\ UNCHANGED <<step, fetched, version, head, today, tags, images, reran, deleted>>
  BY DEF PushTag, BuildTagged, userVars, ReleaseInv, WorkflowTypeOK
<1>2. latest' \in 0..head
  <2>1. latest \in 0..head /\ tagged \subseteq 1..head /\ head \in Int
    BY DEF ReleaseInv, WorkflowTypeOK
  <2>2. \A x \in 1..head : x \in 0..head
    BY <2>1
  <2>3. latest' = latest \/ latest' \in tagged
    BY <1>1
  <2>4. QED
    BY <2>1, <2>2, <2>3
<1>3. WorkflowTypeOK'
  BY <1>1, <1>2 DEF ReleaseInv, WorkflowTypeOK
<1>4. NewestIsLatest'
  BY <1>1 DEF ReleaseInv, NewestIsLatest
<1>5. QED
  BY <1>1, <1>3, <1>4 DEF ReleaseInv, OneInProgress, TagsAreFresh, ImagesArePushed,
                    NumberedWithoutGaps, TagsMatchImages

-----------------------------------------------------------------------------
(* The inductive invariant of the release workflow. *)
THEOREM WorkflowIsSafe == Spec => []ReleaseInv
<1>1. ReleaseInv /\ [Next]_vars => ReleaseInv'
  <2> SUFFICES ASSUME ReleaseInv, [Next]_vars PROVE ReleaseInv'
    OBVIOUS
  <2>1. ASSUME NEW c \in Commits, Run(c) PROVE ReleaseInv'
    BY <2>1, StartKeepsInv, CheckoutKeepsInv, ComputeVersionKeepsInv,
       BuildAndPushKeepsInv, CreateReleaseKeepsInv DEF Run
  <2>2. ASSUME NEW c \in Commits, Fail(c) PROVE ReleaseInv'
    BY <2>2, FailKeepsInv DEF Fail, Ended
  <2>3. CASE UNCHANGED vars
    BY <2>3 DEF vars, userVars, ReleaseInv, WorkflowTypeOK, OneInProgress, TagsAreFresh,
       ImagesArePushed, NewestIsLatest, NumberedWithoutGaps, TagsMatchImages
  <2>4. QED
    BY <2>1, <2>2, <2>3, PushKeepsInv, NewDayKeepsInv, RerunKeepsInv,
       DeleteReleaseKeepsInv, VersionTagKeepsInv DEF Next
<1>2. QED
  BY <1>1, ReleaseInvInit, PTL DEF Spec

(* A tag and the image of its version are of the same commit, for any      *)
(* number of pushes, days and re-runs (build-and-push.yml).                *)
THEOREM TagsAreOfTheirImages == Spec => []TagsMatchImages
<1>1. ReleaseInv => TagsMatchImages
  BY DEF ReleaseInv
<1>2. QED
  BY <1>1, WorkflowIsSafe, PTL

(* The releases of a day are numbered without a gap, whichever runs failed.*)
THEOREM NumbersHaveNoGaps == Spec => []NumberedWithoutGaps
<1>1. ReleaseInv => NumberedWithoutGaps
  BY DEF ReleaseInv
<1>2. QED
  BY <1>1, WorkflowIsSafe, PTL

(* "latest" goes back only by a run that a user started again or by the    *)
(* run of a version tag, on the older commit or before on the newer one.   *)
THEOREM LatestIsNewest == Spec => LatestFollowsMain
<1>1. ASSUME ReleaseInv, Next, latest' < latest
      PROVE  latest' \in reran \cup tagged \/ latest \in tagged
  <2>1. latest' # latest
    BY <1>1 DEF ReleaseInv, WorkflowTypeOK
  <2>2. PICK c \in Commits : BuildAndPush(c) \/ BuildTagged(c)
    BY <1>1, <2>1 DEF Next, Push, NewDay, Rerun, Run, Fail, Start, Checkout,
       ComputeVersion, CreateRelease, End, DeleteRelease, PushTag
  <2>3. CASE BuildAndPush(c)
    <3>1. latest' = c /\ step[c] \in InProgress
      BY <2>3 DEF BuildAndPush, InProgress
    <3>2. c \notin reran => latest <= c \/ latest \in tagged
      BY <1>1, <3>1 DEF ReleaseInv, NewestIsLatest
    <3>3. QED
      BY <1>1, <3>1, <3>2 DEF ReleaseInv, WorkflowTypeOK, Commits
  <2>4. CASE BuildTagged(c)
    BY <2>4 DEF BuildTagged
  <2>5. QED
    BY <2>2, <2>3, <2>4
<1>2. ReleaseInv /\ [Next]_vars
      => [latest' < latest => latest' \in reran \cup tagged \/ latest \in tagged]_vars
  BY <1>1
<1>3. QED
  BY <1>2, WorkflowIsSafe, PTL DEF Spec, LatestFollowsMain
=============================================================================
