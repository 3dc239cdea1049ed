------------------------------ MODULE Release ------------------------------
(***************************************************************************)
(* The release workflow (.github/workflows/build-and-push.yml) for pushes  *)
(* to the default branch and of version tags.  A run of the branch         *)
(* computes a version from the tags it fetched, pushes the image, and      *)
(* creates the release with its tag.  Such runs are serialised by a        *)
(* concurrency group of GitHub's: one is in progress, at most one is       *)
(* pending, and a newer one takes its place.  A run of a tag is in another *)
(* group; it makes no release, but pushes images too, "latest" included.   *)
(* Users tag commits of the branch (v1.2.3), run an ended run again or     *)
(* delete a release with its tag.                                          *)
(*                                                                         *)
(* A run is known by its commit, the number of the push.  MaxPushes,       *)
(* MaxDays, MaxReruns, MaxTags and MaxDeletions bound the runs, for TLC.   *)
(***************************************************************************)
EXTENDS Naturals, FiniteSets, Functions

CONSTANTS MaxPushes, MaxDays, MaxReruns, MaxTags, MaxDeletions

ASSUME BoundsAssumption ==
  {MaxPushes, MaxDays, MaxReruns, MaxTags, MaxDeletions} \subseteq Nat /\ MaxDays > 0

VARIABLES
  step,      \* where each run is
  fetched,   \* the tags each run fetched
  version,   \* the version each run computed
  head,      \* the newest commit
  today,     \* the date, in UTC
  tags,      \* the commit of each tag v<version>
  images,    \* the commit of each image with a version
  latest,    \* the commit of the image "latest"
  tagged,    \* the commits with a version tag of a user's
  reran,     \* history: the runs that were started again
  deleted    \* history: the versions whose tag was deleted

userVars == <<tagged, reran, deleted>>
vars == <<step, fetched, version, head, today, tags, images, latest, userVars>>

Commits == 1..MaxPushes
Days == 1..MaxDays
Versions == [day : Days, seq : 1..(MaxPushes + MaxReruns)]
NoVersion == [day |-> 0, seq |-> 0]
InProgress == {"started", "checked out", "computed", "pushed"}
Ended == {"released", "failed", "cancelled"}
On(day, versions) == {v \in versions : v.day = day}

(* GitHub's concurrency group: one run in progress and one pending; a run  *)
(* has a version of its own only between computing and ending.             *)
ReleaseTypeOK ==
  /\ step \in [Commits -> {"none", "pending"} \cup InProgress \cup Ended]
  /\ \A c \in Commits : step[c] = "none" <=> c > head
  /\ Cardinality({c \in Commits : step[c] \in InProgress}) <= 1
  /\ Cardinality({c \in Commits : step[c] = "pending"}) <= 1
  /\ fetched \in [Commits -> SUBSET Versions]
  /\ version \in [Commits -> Versions \cup {NoVersion}]
  /\ \A c \in Commits : version[c] # NoVersion <=> step[c] \in {"computed", "pushed"}
  /\ head \in 0..MaxPushes /\ today \in Days /\ latest \in 0..head
  /\ DOMAIN tags \subseteq Versions /\ Range(tags) \subseteq Commits
  /\ DOMAIN images \subseteq Versions /\ Range(images) \subseteq Commits
  /\ tagged \subseteq 1..head /\ reran \subseteq Commits /\ deleted \subseteq Versions

Init ==
  /\ step = [c \in Commits |-> "none"]
  /\ fetched = [c \in Commits |-> {}] /\ version = [c \in Commits |-> NoVersion]
  /\ head = 0 /\ today = 1 /\ latest = 0
  /\ tags = << >> /\ images = << >>
  /\ tagged = {} /\ reran = {} /\ deleted = {}

-----------------------------------------------------------------------------
(* Seeded fault: without the group a run starts at once. *)
QueueAtOnce(c) == step' = [step EXCEPT ![c] = "started"]

(* A run joins the group: it starts if the group is empty, else it is      *)
(* pending, and the one that was is cancelled.                             *)
Queue(c) ==
  IF \A d \in Commits : step[d] \notin InProgress \cup {"pending"}
    THEN step' = [step EXCEPT ![c] = "started"]
    ELSE step' = [d \in Commits |-> IF d = c THEN "pending"
                                   ELSE IF step[d] = "pending" THEN "cancelled"
                                   ELSE step[d]]

Push ==
  /\ head < MaxPushes
  /\ head' = head + 1
  /\ Queue(head + 1)
  /\ UNCHANGED <<fetched, version, today, tags, images, latest, userVars>>

Rerun(c) ==
  /\ step[c] \in Ended /\ c \notin reran /\ Cardinality(reran) < MaxReruns
  /\ Queue(c)
  /\ reran' = reran \cup {c}
  /\ UNCHANGED <<fetched, version, head, today, tags, images, latest, tagged, deleted>>

(* The run in progress has ended. *)
Start(c) ==
  /\ step[c] = "pending"
  /\ \A d \in Commits : step[d] \notin InProgress
  /\ step' = [step EXCEPT ![c] = "started"]
  /\ UNCHANGED <<fetched, version, head, today, tags, images, latest, userVars>>

(* Seeded fault: the checkout is shallow and has no tags. *)
CheckoutShallow(c) ==
  /\ step[c] = "started"
  /\ step' = [step EXCEPT ![c] = "checked out"]
  /\ UNCHANGED <<fetched, version, head, today, tags, images, latest, userVars>>

Checkout(c) ==
  /\ step[c] = "started"
  /\ step' = [step EXCEPT ![c] = "checked out"]
  /\ fetched' = [fetched EXCEPT ![c] = DOMAIN tags]
  /\ UNCHANGED <<version, head, today, tags, images, latest, userVars>>

(* Seeded fault: the tags of all days are counted. *)
ComputeFromAll(c) ==
  /\ step[c] = "checked out"
  /\ step' = [step EXCEPT ![c] = "computed"]
  /\ version' = [version EXCEPT ![c] =
                   [day |-> today, seq |-> Cardinality(fetched[c]) + 1]]
  /\ UNCHANGED <<fetched, head, today, tags, images, latest, userVars>>

(* The number of tags of the day, plus one. *)
ComputeVersion(c) ==
  /\ step[c] = "checked out"
  /\ step' = [step EXCEPT ![c] = "computed"]
  /\ version' = [version EXCEPT ![c] =
                   [day |-> today, seq |-> Cardinality(On(today, fetched[c])) + 1]]
  /\ UNCHANGED <<fetched, head, today, tags, images, latest, userVars>>

BuildAndPush(c) ==
  /\ step[c] = "computed"
  /\ step' = [step EXCEPT ![c] = "pushed"]
  /\ images' = [v \in DOMAIN images \cup {version[c]} |->
                  IF v = version[c] THEN c ELSE images[v]]
  /\ latest' = c
  /\ UNCHANGED <<fetched, version, head, today, tags, userVars>>

End(c, how) ==
  /\ step' = [step EXCEPT ![c] = how]
  /\ fetched' = [fetched EXCEPT ![c] = {}]
  /\ version' = [version EXCEPT ![c] = NoVersion]
  /\ UNCHANGED <<head, today, images, latest, userVars>>

(* Seeded fault: a release that exists leaves the run in progress. *)
CreateReleaseHangs(c) ==
  /\ step[c] = "pushed"
  /\ version[c] \notin DOMAIN tags
  /\ tags' = [v \in DOMAIN tags \cup {version[c]} |->
                IF v = version[c] THEN c ELSE tags[v]]
  /\ End(c, "released")

(* gh release create fails if there is a release of that tag.              *)
CreateRelease(c) ==
  /\ step[c] = "pushed"
  /\ IF version[c] \in DOMAIN tags
       THEN End(c, "failed") /\ UNCHANGED tags
       ELSE /\ tags' = [v \in DOMAIN tags \cup {version[c]} |->
                          IF v = version[c] THEN c ELSE tags[v]]
            /\ End(c, "released")

Fail(c) ==
  /\ step[c] \in InProgress
  /\ End(c, "failed")
  /\ UNCHANGED tags

NewDay ==
  /\ today < MaxDays
  /\ today' = today + 1
  /\ UNCHANGED <<step, fetched, version, head, tags, images, latest, userVars>>

DeleteRelease(v) ==
  /\ Cardinality(deleted) < MaxDeletions
  /\ tags' = Restrict(tags, DOMAIN tags \ {v})
  /\ deleted' = deleted \cup {v}
  /\ UNCHANGED <<step, fetched, version, head, today, images, latest, tagged, reran>>

(* A user pushes a version tag of c. *)
PushTag(c) ==
  /\ c \in 1..head \ tagged /\ Cardinality(tagged) < MaxTags
  /\ tagged' = tagged \cup {c}
  /\ UNCHANGED <<step, fetched, version, head, today, tags, images, latest, reran, deleted>>

(* A run of such a tag, the first or one again, skips the version and the  *)
(* release.  It pushes the image, and the default of the metadata action   *)
(* makes the image of a version tag "latest", whatever commit it is of.    *)
BuildTagged(c) ==
  /\ c \in tagged
  /\ latest' = c
  /\ UNCHANGED <<step, fetched, version, head, today, tags, images, userVars>>

Run(c) ==
  \/ Start(c) \/ Checkout(c) \/ ComputeVersion(c) \/ BuildAndPush(c)
  \/ CreateRelease(c)

Next ==
  \/ Push \/ NewDay
  \/ \E c \in Commits : Rerun(c) \/ Run(c) \/ Fail(c)
  \/ \E c \in Commits : PushTag(c) \/ BuildTagged(c)
  \/ \E v \in DOMAIN tags : DeleteRelease(v)

(* GitHub goes on with a run, to its end. *)
Spec == Init /\ [][Next]_vars /\ \A c \in Commits : WF_vars(Run(c))

-----------------------------------------------------------------------------
(* "The tag name mirrors the CalVer Docker image tag exactly": a tag and   *)
(* the image of that version are of the same commit, whichever runs failed *)
(* between pushing the one and creating the other, although the number was *)
(* counted from tags fetched at the start; only deleting a tag of the day  *)
(* makes two runs count to the same number.                                *)
TagsMatchImages ==
  \A v \in DOMAIN tags :
    On(v.day, deleted) = {} => v \in DOMAIN images /\ images[v] = tags[v]

(* The releases of a day are numbered from 1 without a gap, failed and     *)
(* cancelled runs notwithstanding.                                         *)
NumberedWithoutGaps ==
  \A d \in Days :
    On(d, deleted) = {} =>
      {v.seq : v \in On(d, DOMAIN tags)} = 1..Cardinality(On(d, DOMAIN tags))

(* "latest" goes back to an older commit only by a user's doing: the older *)
(* one was run again or has a version tag, or the newer one has one, whose *)
(* run overtook the runs of the branch.  The pushes alone, with the runs   *)
(* that fail, are cancelled or wait, never take it back.                   *)
LatestFollowsMain ==
  [][latest' < latest => latest' \in reran \cup tagged \/ latest \in tagged]_vars

(* Every run ends, or is replaced by a newer one: none waits for ever.     *)
EveryRunEnds == \A c \in Commits : step[c] = "pending" ~> step[c] \in Ended

-----------------------------------------------------------------------------
(* What is written about this code and is not so: no run checks it, and    *)
(* TLC finds the counterexample within the bounds of the runs (README.md). *)

(* "Queued runs still execute (no cancel)" (build-and-push.yml).           *)
QueuedRunsExecute == \A c \in Commits : step[c] # "cancelled"

(* "latest -- tracks the current main HEAD" (README.md).                   *)
LatestTracksMain == [][latest' >= latest]_latest

(* "Two builds on the same day reuse the same datestamp tag" (README.md).  *)
DatestampIsReused == \A d \in Days : Cardinality(On(d, DOMAIN images)) <= 1
=============================================================================
