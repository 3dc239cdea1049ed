------------------------- MODULE TranslationProofs -------------------------
(***************************************************************************)
(* What the translations promise, for every value of the constants: the    *)
(* status categories (Statuses), the resolution date (Resolution), the     *)
(* changelog (Changelog), the parentheses of JQL (Parentheses) and what is *)
(* found of a query (JQL).  Each is proved from an inductive invariant of  *)
(* its own module's specification; they share nothing but the module of    *)
(* their run (MCTranslation), and JQL the scanner of Parentheses.          *)
(***************************************************************************)
EXTENDS Statuses, Resolution, Changelog, JQL, WellFoundedInduction,
        FiniteSetTheorems, SequenceTheorems, TLAPS

-----------------------------------------------------------------------------
(*                               Statuses                                  *)

(* The resolved states of some projects' bundles, as YouTrack has them.    *)
ResolvedOf(projects) == UNION {resolved[BundleOf[p]] : p \in projects}

(* What the issues of a page are given, while the cache is asked about one *)
(* project after the other ...                                             *)
MergedAreResolved ==
  request = "issues" =>
    LET used == ProjectsOf(page) \ todo
    IN  /\ todo \subseteq ProjectsOf(page)
        /\ used \subseteq current => merged = ResolvedOf(used)
        /\ "issues" \notin agreed

(* ... and what the answers show, when their data were current.            *)
AnswersAreCurrent ==
  /\ "issues" \in agreed =>
       \A i \in DOMAIN shown :
         shown[i] = MapStateToCategory(i.state, ResolvedOf(ProjectsOf(DOMAIN shown)))
  /\ "statuses" \in agreed =>
       \A v \in DOMAIN listed : listed[v] = MapStateToCategory(v[2], resolved[v[1]])

StatusesInv == StatusesTypeOK /\ MergedAreResolved /\ AnswersAreCurrent

(* A category is one of three. *)
LEMMA CategoryIsOne ==
  ASSUME NEW s, NEW states
  PROVE  MapStateToCategory(s, states) \in Categories
BY DEF MapStateToCategory, Categories

(* Before the first request nothing is shown and nothing is merged.        *)
LEMMA StatusesStart == StatusesInit => StatusesInv
<1> SUFFICES ASSUME StatusesInit PROVE StatusesInv
  OBVIOUS
<1>1. DOMAIN Empty = {} /\ Range(Empty) = {}
  BY DEF Empty, Range
<1>2. StatusesTypeOK
  <2>1. \A p \in current : known[p] = resolved[BundleOf[p]]
    BY DEF StatusesInit
  <2>2. known \in [Projects -> SUBSET StateNames]
    BY DEF StatusesInit
  <2>3. QED
    BY <1>1, <2>1, <2>2 DEF StatusesInit, StatusesTypeOK
<1>3. MergedAreResolved /\ AnswersAreCurrent
  BY DEF StatusesInit, MergedAreResolved, AnswersAreCurrent
<1>4. QED
  BY <1>2, <1>3 DEF StatusesInv

(* What the cache answers is used for the issues, whether it was fetched   *)
(* for them or is older: the states of one more project join the others,   *)
(* and they are YouTrack's if the project's are.                           *)
LEMMA UsedAreMerged ==
  ASSUME StatusesInv, NEW p \in todo, NEW states \in SUBSET StateNames,
         request = "issues", Use(p, states), current \subseteq current',
         p \in current' => states = resolved[BundleOf[p]],
         current' \subseteq current \cup {p}
  PROVE  MergedAreResolved'
<1> USE DEF StatusesInv
<1> DEFINE used == ProjectsOf(page) \ todo
<1>1. todo \subseteq ProjectsOf(page)
      /\ (used \subseteq current => merged = ResolvedOf(used))
      /\ "issues" \notin agreed
  BY DEF MergedAreResolved
<1>2. todo' = todo \ {p} /\ page' = page /\ merged' = merged \cup states
      /\ resolved' = resolved /\ request' = request /\ agreed' = agreed
  BY DEF Use
<1>3. ProjectsOf(page)' = ProjectsOf(page)
  BY <1>2 DEF ProjectsOf
<1>4. used' = used \cup {p} /\ p \notin used
  BY <1>1, <1>2, <1>3
<1> HIDE DEF used
<1>5. ASSUME used' \subseteq current'
      PROVE  merged' = ResolvedOf(used)'
  <2>1. used \subseteq current /\ p \in current'
    BY <1>4, <1>5
  <2>2. merged = ResolvedOf(used) /\ states = resolved[BundleOf[p]]
    BY <1>1, <2>1
  <2>3. ResolvedOf(used)' = UNION {resolved[BundleOf[q]] : q \in used \cup {p}}
    BY <1>2, <1>4 DEF ResolvedOf
  <2>4. UNION {resolved[BundleOf[q]] : q \in used \cup {p}}
          = ResolvedOf(used) \cup resolved[BundleOf[p]]
    BY DEF ResolvedOf
  <2>5. QED
    BY <1>2, <2>2, <2>3, <2>4
<1>6. todo' \subseteq ProjectsOf(page)'
  BY <1>1, <1>2, <1>3
<1>7. QED
  BY <1>1, <1>2, <1>5, <1>6 DEF MergedAreResolved, used

(* Every action keeps the types, and keeps a cache entry that is current   *)
(* equal to YouTrack's until the flags change.                             *)
LEMMA StatusesTypes == StatusesTypeOK /\ [StatusesNext]_statusesVars => StatusesTypeOK'
<1> SUFFICES ASSUME StatusesTypeOK, [StatusesNext]_statusesVars
             PROVE  StatusesTypeOK'
  OBVIOUS
<1> USE BundlesAssumption DEF StatusesTypeOK
<1>0. DOMAIN Empty = {} /\ Range(Empty) = {}
  BY DEF Empty, Range
<1>1. ASSUME NEW issues \in {{i, j} : i, j \in Issues}, HandleIssues(issues)
      PROVE  StatusesTypeOK'
  <2>1. issues \subseteq Issues
    OBVIOUS
  <2>2. ProjectsOf(issues) \subseteq Projects
    BY <2>1 DEF ProjectsOf, Issues
  <2>3. QED
    BY <1>0, <1>1, <2>1, <2>2 DEF HandleIssues
<1>2. ASSUME NEW p \in Projects, UseCached(p)
      PROVE  StatusesTypeOK'
  BY <1>2 DEF UseCached, Use
<1>3. ASSUME NEW p \in Projects, Fetch(p)
      PROVE  StatusesTypeOK'
  <2>1. resolved[BundleOf[p]] \subseteq StateNames
    OBVIOUS
  <2>2. known' \in [Projects -> SUBSET StateNames]
    BY <1>3, <2>1 DEF Fetch
  <2>3. \A q \in current' : known'[q] = resolved'[BundleOf[q]]
    BY <1>3 DEF Fetch, Use
  <2>4. todo' \subseteq Projects /\ merged' \subseteq StateNames /\ current' \subseteq Projects
    BY <1>3, <2>1 DEF Fetch, Use
  <2>5. UNCHANGED <<resolved, request, page, shown, listed, agreed>>
    BY <1>3 DEF Fetch, Use
  <2>6. QED
    BY <2>2, <2>3, <2>4, <2>5
<1>4. CASE ConvertIssues
  <2>1. DOMAIN shown' = page /\ Range(shown') \subseteq Categories
    BY <1>4, CategoryIsOne DEF ConvertIssues, Range
  <2>2. agreed' \subseteq {"issues", "statuses"}
    BY <1>4 DEF ConvertIssues
  <2>3. QED
    BY <1>4, <2>1, <2>2 DEF ConvertIssues
<1>5. CASE HandleListStatuses
  BY <1>0, <1>5 DEF HandleListStatuses
<1>6. ASSUME NEW p \in Projects, ListProject(p)
      PROVE  StatusesTypeOK'
  <2> DEFINE bundle == BundleOf[p]
             new == {v \in {bundle} \X StateNames : v \notin DOMAIN listed}
  <2>1. listed' = [v \in DOMAIN listed \cup new |->
                     IF v \in new THEN MapStateToCategory(v[2], resolved[bundle])
                                  ELSE listed[v]]
    BY <1>6 DEF ListProject
  <2>2. new \subseteq Values
    BY DEF Values
  <2> HIDE DEF new
  <2>3. DOMAIN listed' \subseteq Values
    BY <2>1, <2>2
  <2>4. ASSUME NEW v \in DOMAIN listed'
        PROVE  listed'[v] \in Categories
    <3>1. CASE v \in new
      BY <2>1, <3>1, CategoryIsOne
    <3>2. CASE v \notin new
      BY <2>1, <3>2 DEF Range
    <3>3. QED
      BY <3>1, <3>2
  <2>5. Range(listed') \subseteq Categories
    BY <2>4 DEF Range
  <2>6. QED
    BY <1>6, <2>3, <2>5 DEF ListProject
<1>7. ASSUME NEW p \in Projects, SkipProject(p)
      PROVE  StatusesTypeOK'
  BY <1>7 DEF SkipProject
<1>8. CASE StatusesListed
  BY <1>8 DEF StatusesListed
<1>9. ASSUME NEW b \in Bundles, NEW s \in StateNames, FlagChanges(b, s)
      PROVE  StatusesTypeOK'
  <2>1. resolved' \in [Bundles -> SUBSET StateNames]
    BY <1>9 DEF FlagChanges
  <2>2. \A q \in current' : q \in current /\ BundleOf[q] # b
    BY <1>9 DEF FlagChanges
  <2>3. \A q \in current' : known'[q] = resolved'[BundleOf[q]]
    BY <1>9, <2>2 DEF FlagChanges
  <2>4. listed' = listed \/ listed' = Empty
    BY <1>9 DEF FlagChanges
  <2>5. DOMAIN listed' \subseteq Values /\ Range(listed') \subseteq Categories
    BY <1>0, <2>4
  <2>6. current' \subseteq Projects /\ agreed' = {} /\ shown' = Empty
        /\ UNCHANGED <<known, request, todo, merged, page>>
    BY <1>9, <2>2 DEF FlagChanges
  <2>7. QED
    BY <1>0, <2>1, <2>3, <2>5, <2>6
<1>10. CASE UNCHANGED statusesVars
  BY <1>10 DEF statusesVars
<1>11. QED
  BY <1>1, <1>2, <1>3, <1>4, <1>5, <1>6, <1>7, <1>8, <1>9, <1>10 DEF StatusesNext

(* Every action keeps what is merged and what is answered true to the      *)
(* states that YouTrack has.                                               *)
LEMMA StatusesStep == StatusesInv /\ [StatusesNext]_statusesVars => StatusesInv'
<1> SUFFICES ASSUME StatusesInv, [StatusesNext]_statusesVars
             PROVE  MergedAreResolved' /\ AnswersAreCurrent'
  BY StatusesTypes DEF StatusesInv
<1> USE DEF StatusesInv
<1> USE BundlesAssumption
<1>1. ASSUME NEW issues \in {{i, j} : i, j \in Issues}, HandleIssues(issues)
      PROVE  MergedAreResolved' /\ AnswersAreCurrent'
  <2>1. MergedAreResolved'
    <3>1. (ProjectsOf(page) \ todo)' = {}
      BY <1>1 DEF HandleIssues, ProjectsOf
    <3>2. merged' = {} /\ todo' \subseteq ProjectsOf(page)' /\ "issues" \notin agreed'
      BY <1>1 DEF HandleIssues, ProjectsOf
    <3>3. ResolvedOf({})' = {}
      BY DEF ResolvedOf
    <3>4. QED
      BY <3>1, <3>2, <3>3 DEF MergedAreResolved
  <2>2. AnswersAreCurrent'
    BY <1>1 DEF HandleIssues, AnswersAreCurrent, MapStateToCategory
  <2>3. QED
    BY <2>1, <2>2
<1>2. ASSUME NEW p \in Projects, UseCached(p) \/ Fetch(p)
      PROVE  MergedAreResolved' /\ AnswersAreCurrent'
  <2>1. p \in todo /\ request = "issues"
    BY <1>2 DEF UseCached, Fetch
  <2>2. MergedAreResolved'
    <3>1. CASE UseCached(p)
      <4>1. known[p] \in SUBSET StateNames
        BY DEF StatusesTypeOK
      <4>2. Use(p, known[p]) /\ current' = current
        BY <3>1 DEF UseCached
      <4>3. p \in current' => known[p] = resolved[BundleOf[p]]
        BY <4>2 DEF StatusesTypeOK
      <4>4. QED
        BY <2>1, <4>1, <4>2, <4>3, UsedAreMerged
    <3>2. CASE Fetch(p)
      <4>1. resolved[BundleOf[p]] \in SUBSET StateNames
        BY DEF StatusesTypeOK
      <4>2. Use(p, resolved[BundleOf[p]]) /\ current' = current \cup {p}
        BY <3>2 DEF Fetch
      <4>3. QED
        BY <2>1, <4>1, <4>2, UsedAreMerged
    <3>3. QED
      BY <1>2, <3>1, <3>2
  <2>3. UNCHANGED <<resolved, shown, listed, agreed>>
    BY <1>2 DEF UseCached, Fetch, Use
  <2>4. AnswersAreCurrent'
    BY <2>3 DEF AnswersAreCurrent, MapStateToCategory, ResolvedOf, ProjectsOf
  <2>5. QED
    BY <2>2, <2>4
<1>3. CASE ConvertIssues
  <2>1. request' = "none"
    BY <1>3 DEF ConvertIssues
  <2>2. shown' = [i \in page |-> MapStateToCategory(i.state, merged)]
    BY <1>3 DEF ConvertIssues
  <2>3. ASSUME "issues" \in agreed'
        PROVE  merged = ResolvedOf(ProjectsOf(page))
    <3>1. ProjectsOf(page) \subseteq current
      BY <1>3, <2>3 DEF ConvertIssues, MergedAreResolved
    <3>2. ProjectsOf(page) \ todo = ProjectsOf(page)
      BY <1>3 DEF ConvertIssues
    <3>3. QED
      BY <1>3, <3>1, <3>2 DEF ConvertIssues, MergedAreResolved
  <2>4. resolved' = resolved /\ listed' = listed
        /\ ("statuses" \in agreed' => "statuses" \in agreed)
    BY <1>3 DEF ConvertIssues
  <2>5. DOMAIN shown' = page
    BY <2>2
  <2>6. ASSUME "issues" \in agreed'
        PROVE  \A i \in DOMAIN shown' :
                 shown'[i] = MapStateToCategory(i.state, ResolvedOf(ProjectsOf(DOMAIN shown)))'
    <3>1. ResolvedOf(ProjectsOf(DOMAIN shown))' = ResolvedOf(ProjectsOf(page))
      BY <2>4, <2>5 DEF ResolvedOf, ProjectsOf
    <3>2. QED
      BY <2>2, <2>3, <2>6, <3>1 DEF MapStateToCategory
  <2>7. ASSUME "statuses" \in agreed'
        PROVE  \A v \in DOMAIN listed' :
                 listed'[v] = MapStateToCategory(v[2], resolved[v[1]])'
    BY <2>4, <2>7 DEF AnswersAreCurrent, MapStateToCategory
  <2>8. QED
    BY <2>1, <2>6, <2>7 DEF MergedAreResolved, AnswersAreCurrent
<1>4. CASE HandleListStatuses
  BY <1>4 DEF HandleListStatuses, MergedAreResolved, AnswersAreCurrent,
       Empty, MapStateToCategory, ResolvedOf, ProjectsOf
<1>5. ASSUME NEW p \in Projects, ListProject(p)
      PROVE  MergedAreResolved' /\ AnswersAreCurrent'
  <2> DEFINE bundle == BundleOf[p]
             new == {v \in {bundle} \X StateNames : v \notin DOMAIN listed}
  <2>1. listed' = [v \in DOMAIN listed \cup new |->
                     IF v \in new THEN MapStateToCategory(v[2], resolved[bundle])
                                  ELSE listed[v]]
    BY <1>5 DEF ListProject
  <2>2. \A v \in new : v[1] = bundle
    OBVIOUS
  <2> HIDE DEF new
  <2>3. request = "statuses" /\ UNCHANGED <<resolved, request, shown, agreed>>
    BY <1>5 DEF ListProject
  <2>4. ASSUME "statuses" \in agreed, NEW v \in DOMAIN listed'
        PROVE  listed'[v] = MapStateToCategory(v[2], resolved[v[1]])
    <3>1. CASE v \in new
      BY <2>1, <2>2, <3>1
    <3>2. CASE v \notin new
      BY <2>1, <2>4, <3>2 DEF AnswersAreCurrent
    <3>3. QED
      BY <3>1, <3>2
  <2>5. AnswersAreCurrent'
    BY <2>3, <2>4 DEF AnswersAreCurrent, MapStateToCategory, ResolvedOf, ProjectsOf
  <2>6. QED
    BY <2>3, <2>5 DEF MergedAreResolved
<1>6. ASSUME NEW p \in Projects, SkipProject(p)
      PROVE  MergedAreResolved' /\ AnswersAreCurrent'
  BY <1>6 DEF SkipProject, MergedAreResolved, AnswersAreCurrent,
       MapStateToCategory, ResolvedOf, ProjectsOf
<1>7. CASE StatusesListed
  BY <1>7 DEF StatusesListed, MergedAreResolved, AnswersAreCurrent,
       MapStateToCategory, ResolvedOf, ProjectsOf
<1>8. ASSUME NEW b \in Bundles, NEW s \in StateNames, FlagChanges(b, s)
      PROVE  MergedAreResolved' /\ AnswersAreCurrent'
  <2>1. AnswersAreCurrent'
    BY <1>8 DEF FlagChanges, AnswersAreCurrent
  <2>2. ASSUME request' = "issues"
        PROVE  /\ todo' \subseteq ProjectsOf(page)'
               /\ ProjectsOf(page)' \ todo' \subseteq current'
                    => merged' = ResolvedOf(ProjectsOf(page) \ todo)'
               /\ "issues" \notin agreed'
    <3> DEFINE used == ProjectsOf(page) \ todo
    <3>1. UNCHANGED <<request, todo, merged, page>> /\ agreed' = {}
      BY <1>8 DEF FlagChanges
    <3>2. todo \subseteq ProjectsOf(page)
          /\ (used \subseteq current => merged = ResolvedOf(used))
      BY <2>2, <3>1 DEF MergedAreResolved
    <3>3. ProjectsOf(page)' = ProjectsOf(page)
      BY <3>1 DEF ProjectsOf
    <3>4. current' = {q \in current : BundleOf[q] # b}
      BY <1>8 DEF FlagChanges
    <3>5. used' = used
      BY <3>1, <3>3
    <3> HIDE DEF used
    <3>6. ASSUME used \subseteq current'
          PROVE  merged' = ResolvedOf(used)'
      <4>1. \A q \in used : q \in current /\ BundleOf[q] # b
        BY <3>4, <3>6
      <4>2. \A q \in used : resolved'[BundleOf[q]] = resolved[BundleOf[q]]
        BY <1>8, <4>1 DEF FlagChanges, StatusesTypeOK
      <4>3. ResolvedOf(used)' = UNION {resolved'[BundleOf[q]] : q \in used}
        BY <3>5 DEF ResolvedOf
      <4>4. {resolved'[BundleOf[q]] : q \in used} = {resolved[BundleOf[q]] : q \in used}
        BY <4>2
      <4>5. QED
        BY <3>1, <3>2, <4>1, <4>3, <4>4 DEF ResolvedOf
    <3>7. QED
      BY <3>1, <3>2, <3>3, <3>5, <3>6 DEF used
  <2>3. QED
    BY <2>1, <2>2 DEF MergedAreResolved
<1>9. CASE UNCHANGED statusesVars
  BY <1>9 DEF statusesVars, MergedAreResolved, AnswersAreCurrent,
       MapStateToCategory, ResolvedOf, ProjectsOf
<1>10. QED
  BY <1>1, <1>2, <1>3, <1>4, <1>5, <1>6, <1>7, <1>8, <1>9 DEF StatusesNext

(* The data behind an answer are YouTrack's whenever it is compared with   *)
(* another (issues.go:109-134, pickers.go:77-138).                         *)
THEOREM StatusesInvariant == StatusesSpec => []StatusesInv
BY StatusesStart, StatusesStep, PTL DEF StatusesSpec

(* Two answers made of the same data differ in one way only.               *)
LEMMA CurrentAnswersAgree == StatusesInv => OthersOnlyAddDone
<1> SUFFICES ASSUME StatusesInv, NEW i \in DOMAIN shown, Comparable(i)
             PROVE  \/ shown[i] = listed[Value(i)]
                    \/ shown[i] = "done" /\ ProjectsOf(DOMAIN shown) # {i.project}
  BY DEF OthersOnlyAddDone
<1> USE DEF StatusesInv
<1> DEFINE all == ProjectsOf(DOMAIN shown)
           own == resolved[BundleOf[i.project]]
<1>1. shown[i] = MapStateToCategory(i.state, ResolvedOf(all))
  BY DEF AnswersAreCurrent, Comparable
<1>2. Value(i)[1] = BundleOf[i.project] /\ Value(i)[2] = i.state
  BY DEF Value
<1>3. listed[Value(i)] = MapStateToCategory(i.state, own)
  BY <1>2 DEF AnswersAreCurrent, Comparable
<1>4. i.project \in all
  BY DEF ProjectsOf
<1> HIDE DEF all
<1>5. own \subseteq ResolvedOf(all)
  BY <1>4 DEF ResolvedOf
<1>6. all = {i.project} => ResolvedOf(all) = own
  <2>1. all = {i.project} => {resolved[BundleOf[p]] : p \in all} = {own}
    OBVIOUS
  <2>2. UNION {own} = own
    OBVIOUS
  <2>3. QED
    BY <2>1, <2>2 DEF ResolvedOf
<1> HIDE DEF own
<1>7. CASE i.state \in own \/ i.state \notin ResolvedOf(all)
  BY <1>1, <1>3, <1>5, <1>7 DEF MapStateToCategory
<1>8. CASE i.state \notin own /\ i.state \in ResolvedOf(all)
  BY <1>1, <1>6, <1>8 DEF MapStateToCategory, all
<1>9. QED
  BY <1>7, <1>8

(* Whatever projects a page has, whichever share a bundle and however old  *)
(* the cache is: an issue whose data are current has the category of the   *)
(* list, or is done because of another project's states                    *)
(* (issues.go:110-134, pickers.go:91-135).                                 *)
THEOREM StatusesOthersOnlyAddDone == StatusesSpec => []OthersOnlyAddDone
BY StatusesInvariant, CurrentAnswersAgree, PTL

-----------------------------------------------------------------------------
(*                              Resolution                                 *)

(* The issue's own dates: it entered a resolved state with the last change *)
(* to one, or was created in one.                                          *)
DatesOfChanges ==
  /\ \A i \in DOMAIN changes : changes[i] \in Resolved => i + 1 <= entered
  /\ entered > 1 => changes[entered - 1] \in Resolved

(* An issue that was resolved at some time came to its state then or later. *)
CameLater(s, time) ==
  time > 1 => \E i \in DOMAIN changes : changes[i] = s /\ i + 1 >= time

(* The answer is made of the issue as it was read.                         *)
AnswerFollows ==
  /\ quiet => got = [state |-> state, resolved |-> resolvedAt]
  /\ got.resolved # None => got.state \in Resolved
  /\ stage = "known" =>
       /\ ReadsActivities(knows)
       /\ date = IF Done /\ got.resolved # None THEN got.resolved ELSE None

ResolutionInv ==
  /\ ResolutionTypeOK
  /\ DatesOfChanges
  /\ CameLater(state, resolvedAt) /\ CameLater(got.state, got.resolved)
  /\ AnswerFollows
  /\ DatesAreRight

(* A set of natural numbers has a least one, ...                           *)
LEMMA Least ==
  ASSUME NEW T \in SUBSET Nat, T # {}
  PROVE  \E x \in T : \A y \in T : x <= y
<1> DEFINE before == OpToRel(<, Nat)
<1>1. IsWellFoundedOn(before, Nat)
  BY NatLessThanWellFounded
<1>2. \A x, y \in Nat : <<y, x>> \in before <=> y < x
  BY DEF OpToRel
<1> HIDE DEF before
<1>3. \E x \in T : \A y \in T : ~(<<y, x>> \in before)
  BY <1>1, WFMin
<1>4. PICK x \in T : \A y \in T : ~(<<y, x>> \in before)
  BY <1>3
<1>5. \A y \in T : ~(y < x)
  BY <1>2, <1>4
<1>6. \A y \in T : x <= y
  BY <1>5
<1>7. QED
  BY <1>6

(* ... and one that is bounded has a greatest, which is its Max.           *)
LEMMA MaxFacts ==
  ASSUME NEW n \in Nat, NEW S \in SUBSET (1..n), S # {}
  PROVE  Max(S) \in S /\ \A y \in S : y <= Max(S)
<1>1. \E b \in Nat : b <= n /\ n - b \in S /\ \A y \in S : y <= n - b
  <2> DEFINE T == {b \in Nat : b <= n /\ n - b \in S}
  <2>1. T # {}
    <3>1. PICK x : x \in S
      OBVIOUS
    <3>2. n - x \in T
      BY <3>1
    <3>3. QED
      BY <3>2
  <2>2. PICK b \in T : \A c \in T : b <= c
    BY <2>1, Least
  <2>3. ASSUME NEW y \in S
        PROVE  y <= n - b
    <3>1. n - y \in T
      OBVIOUS
    <3>2. QED
      BY <2>2, <3>1
  <2>4. QED
    BY <2>2, <2>3
<1>2. \E x \in S : \A y \in S : x >= y
  BY <1>1
<1>3. QED
  BY <1>2 DEF Max

(* Times are numbers. *)
LEMMA TimesAreNumbers ==
  ASSUME ResolutionTypeOK
  PROVE  /\ changes \in Seq(States \cup {OtherField}) /\ Len(changes) \in Nat
         /\ now \in Nat /\ now = Len(changes) + 1
         /\ resolvedAt \in Nat /\ entered \in Nat /\ date \in Nat
         /\ got.resolved \in Nat
<1>1. changes \in Seq(States \cup {OtherField})
  BY DEF ResolutionTypeOK
<1>2. Len(changes) \in Nat
  BY <1>1
<1>3. now \in Nat /\ now = Len(changes) + 1
  BY <1>2 DEF now
<1>4. resolvedAt \in 0..now /\ entered \in 0..now /\ date \in 0..now
  BY DEF ResolutionTypeOK
<1>5. got \in [state : States, resolved : 0..now]
  BY DEF ResolutionTypeOK
<1>6. got.resolved \in 0..now
  BY <1>5
<1>7. QED
  BY <1>1, <1>2, <1>3, <1>4, <1>6

(* The transitions to done states that are read are among the changes, and *)
(* are all there are if Top is not exceeded.                               *)
LEMMA TransitionsRead ==
  ASSUME ResolutionTypeOK
  PROVE  /\ DoneTransitions \subseteq 1..Len(changes)
         /\ \A i \in DoneTransitions : changes[i] \in knows
         /\ Len(changes) <= Top =>
              DoneTransitions = {i \in DOMAIN changes : changes[i] \in knows}
<1>1. Len(changes) \in Nat
  BY TimesAreNumbers
<1>2. changes \in Seq(States \cup {OtherField})
  BY DEF ResolutionTypeOK
<1>3. PICK n \in 0..Len(changes) :
        FirstPage = SubSeq(changes, 1, n) /\ (Len(changes) <= Top => n = Len(changes))
  <2>1. CASE Len(changes) < Top
    BY <1>1, <2>1 DEF FirstPage
  <2>2. CASE ~(Len(changes) < Top)
    <3>1. Top \in 0..Len(changes)
      BY <1>1, <2>2, TopAssumption
    <3>2. FirstPage = SubSeq(changes, 1, Top)
      BY <2>2 DEF FirstPage
    <3>3. Len(changes) <= Top => Top = Len(changes)
      BY <1>1, <3>1
    <3>4. QED
      BY <3>1, <3>2, <3>3
  <2>3. QED
    BY <2>1, <2>2
<1>4. 1..n \subseteq 1..Len(changes)
  BY <1>1
<1>5. DOMAIN FirstPage = 1..n /\ \A i \in 1..n : FirstPage[i] = changes[i]
  BY <1>2, <1>3, <1>4
<1>6. DoneTransitions = {i \in 1..n : changes[i] \in knows}
  BY <1>5 DEF DoneTransitions
<1>7. DOMAIN changes = 1..Len(changes)
  BY <1>2
<1>8. QED
  BY <1>3, <1>4, <1>6, <1>7

(* The date that is derived is that of a change, and none is derived if    *)
(* there is no transition to a done state.                                 *)
LEMMA DerivedDate ==
  ASSUME ResolutionTypeOK
  PROVE  /\ DoneTransitions = {} => DeriveResolutionDate = None
         /\ DoneTransitions # {} =>
              /\ DeriveResolutionDate \in 2..now
              /\ DeriveResolutionDate - 1 \in DoneTransitions
              /\ \A i \in DoneTransitions : i + 1 <= DeriveResolutionDate
<1>1. Len(changes) \in Nat
  BY TimesAreNumbers
<1>2. ASSUME DoneTransitions # {}
      PROVE  /\ Max(DoneTransitions) \in DoneTransitions
             /\ \A i \in DoneTransitions : i <= Max(DoneTransitions)
  BY <1>1, <1>2, MaxFacts, TransitionsRead
<1>3. QED
  BY <1>1, <1>2, TransitionsRead DEF DeriveResolutionDate, now

(* What the converter says, from the issue and the resolved states alone.  *)
LEMMA ConvertedDate ==
  ASSUME ResolutionTypeOK, AnswerFollows, NEW states, NEW d,
         d = IF got.state \in states /\ got.resolved # None
               THEN got.resolved ELSE None
  PROVE  /\ d \in 0..now
         /\ got.state \in states => d >= got.resolved
         /\ d # None => got.state \in states
         /\ quiet /\ states = Resolved =>
              /\ got.state \in states <=> state \in Resolved
              /\ got.state \in states => d = resolvedAt
<1>1. got \in [state : States, resolved : 0..now]
  BY DEF ResolutionTypeOK
<1>2. got.resolved \in 0..now /\ got.resolved \in Nat /\ now \in Nat
  BY <1>1, TimesAreNumbers
<1>3. d \in 0..now
  BY <1>2 DEF None
<1>4. /\ got.state \in states => d >= got.resolved
      /\ d # None => got.state \in states
  BY <1>2 DEF None
<1>5. ASSUME quiet, states = Resolved
      PROVE  /\ got.state \in states <=> state \in Resolved
             /\ got.state \in states => d = resolvedAt
  <2>1. got.state = state /\ got.resolved = resolvedAt
    BY <1>5 DEF AnswerFollows
  <2>2. resolvedAt # None <=> state \in Resolved
    BY DEF ResolutionTypeOK
  <2>3. QED
    BY <1>5, <2>1, <2>2
<1>6. QED
  BY <1>3, <1>4, <1>5

LEMMA ResolutionStart == ResolutionInit => ResolutionInv
BY StatesAssumption DEF ResolutionInit, ResolutionInv, ResolutionTypeOK, DatesOfChanges,
   CameLater, AnswerFollows, DatesAreRight, Kinds, now, None

-----------------------------------------------------------------------------

(* Another change of the issue moves none of the earlier ones.             *)
LEMMA ChangesGrow ==
  ASSUME ResolutionTypeOK, NEW c \in States \cup {OtherField},
         changes' = Append(changes, c)
  PROVE  /\ changes' \in Seq(States \cup {OtherField})
         /\ now' = now + 1 /\ Len(changes') = now
         /\ \A i \in DOMAIN changes : i \in DOMAIN changes' /\ changes'[i] = changes[i]
         /\ now \in DOMAIN changes' /\ changes'[now] = c
         /\ \A i \in DOMAIN changes' : i = now \/ i \in DOMAIN changes
<1>1. changes \in Seq(States \cup {OtherField}) /\ Len(changes) \in Nat
  BY TimesAreNumbers
<1>2. changes' \in Seq(States \cup {OtherField}) /\ Len(changes') = Len(changes) + 1
  BY <1>1
<1>3. now' = now + 1 /\ Len(changes') = now
  BY <1>1, <1>2 DEF now
<1>4. \A i \in DOMAIN changes : i \in DOMAIN changes' /\ changes'[i] = changes[i]
  BY <1>1
<1>5. now \in DOMAIN changes' /\ changes'[now] = c
  BY <1>1 DEF now
<1>6. \A i \in DOMAIN changes' : i = now \/ i \in DOMAIN changes
  BY <1>1 DEF now
<1>7. QED
  BY <1>2, <1>3, <1>4, <1>5, <1>6

(* ... so what came later stays so, and what was read stays in the past.   *)
LEMMA PastStays ==
  ASSUME ResolutionTypeOK, NEW c \in States \cup {OtherField},
         changes' = Append(changes, c),
         UNCHANGED <<got, date, kind, knows, stage>>
  PROVE  /\ \A s, time : CameLater(s, time) => CameLater(s, time)'
         /\ got' \in [state : States, resolved : 0..now'] /\ date' \in 0..now'
         /\ Len(changes') <= Top => Len(changes) <= Top
<1>1. now \in Nat /\ now = Len(changes) + 1 /\ now' = now + 1 /\ Len(changes') = now
      /\ Len(changes) \in Nat
  BY TimesAreNumbers, ChangesGrow
<1>2. ASSUME NEW s, NEW time, CameLater(s, time), time > 1
      PROVE  \E i \in DOMAIN changes' : changes'[i] = s /\ i + 1 >= time
  <2>1. PICK i \in DOMAIN changes : changes[i] = s /\ i + 1 >= time
    BY <1>2 DEF CameLater
  <2>2. i \in DOMAIN changes' /\ changes'[i] = s
    BY <2>1, ChangesGrow
  <2>3. QED
    BY <2>1, <2>2
<1>3. \A s, time : CameLater(s, time) => CameLater(s, time)'
  BY <1>2 DEF CameLater
<1>4. 0..now \subseteq 0..now'
  BY <1>1
<1>5. got \in [state : States, resolved : 0..now] /\ date \in 0..now
  BY DEF ResolutionTypeOK
<1>6. got' \in [state : States, resolved : 0..now'] /\ date' \in 0..now'
  BY <1>4, <1>5
<1>7. Len(changes') <= Top => Len(changes) <= Top
  BY <1>1, TopAssumption
<1>8. QED
  BY <1>3, <1>6, <1>7

(* The issue changes: it moves to another state ...                        *)
LEMMA MoveStep ==
  ASSUME ResolutionInv, NEW s \in States, Move(s)
  PROVE  ResolutionInv'
<1> USE DEF ResolutionInv
<1>1. changes' = Append(changes, s) /\ s \in States \cup {OtherField} /\ state' = s
      /\ quiet' = FALSE /\ UNCHANGED <<stage, kind, got, knows, date>>
  BY DEF Move
<1>2. /\ \A t, time : CameLater(t, time) => CameLater(t, time)'
      /\ got' \in [state : States, resolved : 0..now'] /\ date' \in 0..now'
      /\ Len(changes') <= Top => Len(changes) <= Top
  BY <1>1, PastStays
<1>3. /\ changes' \in Seq(States \cup {OtherField}) /\ now' = now + 1
      /\ \A i \in DOMAIN changes : i \in DOMAIN changes' /\ changes'[i] = changes[i]
      /\ now \in DOMAIN changes' /\ changes'[now] = s
      /\ \A i \in DOMAIN changes' : i = now \/ i \in DOMAIN changes
  BY <1>1, ChangesGrow
<1>4. now \in Nat /\ now >= 1 /\ resolvedAt \in Nat /\ entered \in Nat
      /\ now = Len(changes) + 1 /\ changes \in Seq(States \cup {OtherField})
      /\ Len(changes) \in Nat
  BY TimesAreNumbers
<1>5. resolvedAt \in 0..now /\ entered \in 0..now /\ resolvedAt <= entered
      /\ (resolvedAt # None <=> state \in Resolved)
  BY DEF ResolutionTypeOK
<1>6. /\ s \in Resolved => entered' = now + 1
      /\ s \notin Resolved => entered' = entered
  BY <1>3 DEF Move
<1>7. /\ s \notin Resolved => resolvedAt' = 0
      /\ s \in Resolved /\ state \in Resolved => resolvedAt' = resolvedAt
      /\ s \in Resolved /\ state \notin Resolved => resolvedAt' = now + 1
  BY <1>3 DEF Move, None
<1>8. resolvedAt' \in 0..now' /\ entered' \in 0..now' /\ resolvedAt' <= entered'
      /\ (resolvedAt' # None <=> state' \in Resolved)
  BY <1>1, <1>3, <1>4, <1>5, <1>6, <1>7 DEF None
<1>9. ResolutionTypeOK'
  <2>1. date' # None /\ kind' # "search with changelog" => Done'
    BY <1>1 DEF ResolutionTypeOK, Done, IsDoneState
  <2>2. stage' \in {"none", "reading", "known", "answered"} /\ kind' \in Kinds
        /\ knows' \subseteq States /\ state' \in States /\ quiet' \in BOOLEAN
    BY <1>1 DEF ResolutionTypeOK
  <2>3. QED
    BY <1>2, <1>3, <1>8, <2>1, <2>2 DEF ResolutionTypeOK, Kinds
<1>10. DatesOfChanges'
  <2>1. ASSUME NEW i \in DOMAIN changes', changes'[i] \in Resolved
        PROVE  i + 1 <= entered'
    <3>1. CASE i = now
      BY <1>3, <1>4, <1>6, <2>1, <3>1
    <3>2. CASE i \in DOMAIN changes
      <4>1. i \in 1..Len(changes)
        BY <1>4, <3>2
      <4>2. i + 1 <= entered
        BY <1>3, <2>1, <3>2 DEF DatesOfChanges
      <4>3. i \in Nat /\ i + 1 <= now
        BY <1>4, <4>1
      <4>4. QED
        BY <1>4, <1>6, <4>2, <4>3
    <3>3. QED
      BY <1>3, <3>1, <3>2
  <2>2. ASSUME entered' > 1
        PROVE  changes'[entered' - 1] \in Resolved
    <3>1. CASE s \in Resolved
      <4>1. entered' - 1 = now
        BY <1>4, <1>6, <3>1
      <4>2. QED
        BY <1>3, <3>1, <4>1
    <3>2. CASE s \notin Resolved
      <4>1. entered' = entered /\ entered - 1 \in 1..Len(changes)
        BY <1>4, <1>5, <1>6, <2>2, <3>2
      <4>2. entered - 1 \in DOMAIN changes
        BY <1>4, <4>1
      <4>3. changes[entered - 1] \in Resolved
        BY <2>2, <4>1 DEF DatesOfChanges
      <4>4. QED
        BY <1>3, <4>1, <4>2, <4>3
    <3>3. QED
      BY <3>1, <3>2
  <2>3. QED
    BY <2>1, <2>2 DEF DatesOfChanges
<1>11. CameLater(state, resolvedAt)'
  <2>1. changes'[now] = state' /\ now \in DOMAIN changes'
    BY <1>1, <1>3
  <2>2. now + 1 >= resolvedAt'
    BY <1>4, <1>5, <1>7
  <2>3. QED
    BY <2>1, <2>2 DEF CameLater
<1>12. CameLater(got.state, got.resolved)'
  <2>1. got' = got
    BY <1>1
  <2>2. CameLater(got.state, got.resolved)
    OBVIOUS
  <2>3. QED
    BY <1>2, <2>1, <2>2 DEF CameLater
<1>13. AnswerFollows'
  BY <1>1 DEF AnswerFollows, ReadsActivities, Done, IsDoneState
<1>14. DatesAreRight'
  BY <1>1, <1>2 DEF DatesAreRight, Done, IsDoneState
<1>15. QED
  BY <1>9, <1>10, <1>11, <1>12, <1>13, <1>14

(* ... or something else about it changes.                                 *)
LEMMA OtherFieldStep ==
  ASSUME ResolutionInv, ChangeOtherField
  PROVE  ResolutionInv'
<1> USE DEF ResolutionInv
<1>1. changes' = Append(changes, OtherField) /\ OtherField \in States \cup {OtherField}
      /\ quiet' = FALSE
      /\ UNCHANGED <<state, resolvedAt, entered, stage, kind, got, knows, date>>
  BY DEF ChangeOtherField
<1>2. /\ \A s, time : CameLater(s, time) => CameLater(s, time)'
      /\ got' \in [state : States, resolved : 0..now'] /\ date' \in 0..now'
      /\ Len(changes') <= Top => Len(changes) <= Top
  BY <1>1, PastStays
<1>3. /\ changes' \in Seq(States \cup {OtherField}) /\ now' = now + 1
      /\ \A i \in DOMAIN changes : i \in DOMAIN changes' /\ changes'[i] = changes[i]
      /\ changes'[now] = OtherField
      /\ \A i \in DOMAIN changes' : i = now \/ i \in DOMAIN changes
  BY <1>1, ChangesGrow
<1>4. now \in Nat /\ entered \in Nat /\ now = Len(changes) + 1
      /\ changes \in Seq(States \cup {OtherField}) /\ Len(changes) \in Nat
  BY TimesAreNumbers
<1>5. resolvedAt \in 0..now /\ entered \in 0..now
  BY DEF ResolutionTypeOK
<1>6. OtherField \notin Resolved
  BY StatesAssumption
<1>7. ResolutionTypeOK'
  <2>1. resolvedAt' \in 0..now' /\ entered' \in 0..now'
    BY <1>1, <1>3, <1>4, <1>5
  <2>2. date' # None /\ kind' # "search with changelog" => Done'
    BY <1>1 DEF ResolutionTypeOK, Done, IsDoneState
  <2>3. stage' \in {"none", "reading", "known", "answered"} /\ kind' \in Kinds
        /\ knows' \subseteq States /\ state' \in States /\ quiet' \in BOOLEAN
        /\ (resolvedAt' # None <=> state' \in Resolved) /\ resolvedAt' <= entered'
    BY <1>1 DEF ResolutionTypeOK
  <2>4. QED
    BY <1>2, <1>3, <2>1, <2>2, <2>3 DEF ResolutionTypeOK, Kinds
<1>8. DatesOfChanges'
  <2>1. \A i \in DOMAIN changes' : changes'[i] \in Resolved => i + 1 <= entered'
    BY <1>1, <1>3, <1>6 DEF DatesOfChanges
  <2>2. ASSUME entered' > 1
        PROVE  changes'[entered' - 1] \in Resolved
    <3>1. entered - 1 \in 1..Len(changes)
      BY <1>1, <1>4, <1>5, <2>2
    <3>2. entered - 1 \in DOMAIN changes
      BY <1>4, <3>1
    <3>3. QED
      BY <1>1, <1>3, <2>2, <3>2 DEF DatesOfChanges
  <2>3. QED
    BY <2>1, <2>2 DEF DatesOfChanges
<1>9. CameLater(state, resolvedAt)' /\ CameLater(got.state, got.resolved)'
  <2>1. got' = got /\ state' = state /\ resolvedAt' = resolvedAt
    BY <1>1
  <2>2. CameLater(state, resolvedAt) /\ CameLater(got.state, got.resolved)
    OBVIOUS
  <2>3. QED
    BY <1>2, <2>1, <2>2 DEF CameLater
<1>10. AnswerFollows'
  BY <1>1 DEF AnswerFollows, ReadsActivities, Done, IsDoneState
<1>11. DatesAreRight'
  BY <1>1, <1>2 DEF DatesAreRight, Done, IsDoneState
<1>12. QED
  BY <1>7, <1>8, <1>9, <1>10, <1>11

(* The handler reads the issue.                                            *)
LEMMA ReadIssueStep ==
  ASSUME ResolutionInv, NEW k \in Kinds, ReadIssue(k)
  PROVE  ResolutionInv'
<1> USE DEF ResolutionInv
<1>1. /\ UNCHANGED <<state, resolvedAt, changes, entered>>
      /\ stage' = "reading" /\ kind' = k /\ knows' = {} /\ date' = None /\ quiet' = TRUE
      /\ got' = [state |-> state, resolved |-> resolvedAt]
  BY DEF ReadIssue, issue
<1>2. now' = now
  BY <1>1 DEF now
<1>3. resolvedAt \in 0..now /\ now \in Nat /\ state \in States
      /\ (resolvedAt # None <=> state \in Resolved)
  BY TimesAreNumbers DEF ResolutionTypeOK
<1>4. got' \in [state : States, resolved : 0..now']
  BY <1>1, <1>2, <1>3
<1>5. ResolutionTypeOK'
  <2>1. date' \in 0..now' /\ ~(date' # None)
    BY <1>1, <1>2, <1>3 DEF None
  <2>2. UNCHANGED <<state, resolvedAt, changes, entered, now>>
    BY <1>1, <1>2
  <2>3. stage' \in {"none", "reading", "known", "answered"} /\ kind' \in Kinds
        /\ knows' \subseteq States /\ quiet' \in BOOLEAN
    BY <1>1
  <2>4. QED
    BY <1>4, <2>1, <2>2, <2>3 DEF ResolutionTypeOK, Kinds
<1>6. DatesOfChanges'
  BY <1>1 DEF DatesOfChanges
<1>7. CameLater(state, resolvedAt)' /\ CameLater(got.state, got.resolved)'
  <2>1. got'.state = state /\ got'.resolved = resolvedAt
    BY <1>1
  <2>2. CameLater(state, resolvedAt)
    OBVIOUS
  <2>3. QED
    BY <1>1, <2>1, <2>2 DEF CameLater
<1>8. AnswerFollows' /\ DatesAreRight'
  BY <1>1, <1>3 DEF AnswerFollows, DatesAreRight
<1>9. QED
  BY <1>5, <1>6, <1>7, <1>8

(* What the rest of an answer leaves alone.                                *)
LEMMA AnswerStep ==
  ASSUME ResolutionInv, UNCHANGED <<issue, kind, got, quiet>>,
         stage' \in {"known", "answered"}, knows' \subseteq States, date' \in 0..now,
         date' # None /\ kind # "search with changelog" => got.state \in knows',
         AnswerFollows', DatesAreRight'
  PROVE  ResolutionInv'
<1> USE DEF ResolutionInv
<1>1. UNCHANGED <<state, resolvedAt, changes, entered, kind, got, quiet>>
  BY DEF issue
<1>2. now' = now
  BY <1>1 DEF now
<1>3. ResolutionTypeOK'
  <2>1. date' # None /\ kind' # "search with changelog" => Done'
    BY <1>1 DEF Done, IsDoneState
  <2>2. stage' \in {"none", "reading", "known", "answered"}
    OBVIOUS
  <2>3. QED
    BY <1>1, <1>2, <2>1, <2>2 DEF ResolutionTypeOK
<1>4. DatesOfChanges'
  BY <1>1 DEF DatesOfChanges
<1>5. CameLater(state, resolvedAt)' /\ CameLater(got.state, got.resolved)'
  BY <1>1 DEF CameLater
<1>6. QED
  BY <1>3, <1>4, <1>5

(* It asks for the resolved states and converts the issue.                 *)
LEMMA LearnStatesStep ==
  ASSUME ResolutionInv, LearnStates
  PROVE  ResolutionInv'
<1> USE DEF ResolutionInv
<1>1. PICK states \in {{}, Resolved, Others, Resolved \cup Others} :
        /\ Convert(states)
        /\ stage' = IF ReadsActivities(states) THEN "known" ELSE "answered"
        /\ UNCHANGED <<issue, kind, got, quiet>>
  BY DEF LearnStates
<1>2. knows' = states
      /\ date' = IF got.state \in states /\ got.resolved # None
                   THEN got.resolved ELSE None
  BY <1>1 DEF Convert
<1>3. states \subseteq States
  BY StatesAssumption
<1>4. /\ date' \in 0..now
      /\ got.state \in states => date' >= got.resolved
      /\ date' # None => got.state \in states
      /\ quiet /\ states = Resolved =>
           /\ got.state \in states <=> state \in Resolved
           /\ got.state \in states => date' = resolvedAt
  BY <1>2, ConvertedDate
<1>5. UNCHANGED <<state, resolvedAt, changes, entered, kind, got, quiet>>
  BY <1>1 DEF issue
<1>6. Done' <=> got.state \in states
  BY <1>2, <1>5 DEF Done, IsDoneState
<1>7. AnswerFollows'
  <2>1. stage' = "known" => ReadsActivities(knows)'
    BY <1>1, <1>2, <1>5 DEF ReadsActivities
  <2>2. QED
    BY <1>2, <1>5, <1>6, <2>1 DEF AnswerFollows
<1>8. DatesAreRight'
  BY <1>2, <1>4, <1>5, <1>6 DEF DatesAreRight
<1>9. stage' \in {"known", "answered"}
  BY <1>1
<1>10. QED
  BY <1>1, <1>2, <1>3, <1>4, <1>7, <1>8, <1>9, AnswerStep

(* The activities are read, and the last transition to a done state gives  *)
(* the date ...                                                            *)
LEMMA ReadActivitiesStep ==
  ASSUME ResolutionInv, ReadActivities
  PROVE  ResolutionInv'
<1> USE DEF ResolutionInv
<1>1. stage = "known" /\ stage' = "answered"
      /\ date' = (IF DeriveResolutionDate # None THEN DeriveResolutionDate ELSE date)
      /\ UNCHANGED <<issue, kind, got, knows, quiet>>
  BY DEF ReadActivities
<1>2. UNCHANGED <<state, resolvedAt, changes, entered, kind, got, knows, quiet>>
  BY <1>1 DEF issue
<1>3. date = IF got.state \in knows /\ got.resolved # None THEN got.resolved ELSE None
  BY <1>1 DEF AnswerFollows, Done, IsDoneState
<1>4. /\ date \in 0..now
      /\ got.state \in knows => date >= got.resolved
      /\ date # None => got.state \in knows
      /\ quiet /\ knows = Resolved =>
           /\ got.state \in knows <=> state \in Resolved
           /\ got.state \in knows => date = resolvedAt
  BY <1>3, ConvertedDate
<1>5. kind = "search with changelog" \/ got.state \in knows
  BY <1>1 DEF AnswerFollows, ReadsActivities
<1>6. AnswerFollows'
  BY <1>1, <1>2 DEF AnswerFollows
<1>7. (Done' <=> got.state \in knows) /\ (Len(changes') <= Top <=> Len(changes) <= Top)
  BY <1>2 DEF Done, IsDoneState
<1>8. knows' \subseteq States
  BY <1>2 DEF ResolutionTypeOK
<1>9. CASE DoneTransitions = {}
  <2>1. date' = date
    BY <1>1, <1>9, DerivedDate
  <2>2. DatesAreRight'
    BY <1>2, <1>4, <1>7, <2>1 DEF DatesAreRight
  <2>3. QED
    BY <1>1, <1>2, <1>4, <1>5, <1>6, <1>8, <2>1, <2>2, AnswerStep
<1>10. CASE DoneTransitions # {}
  <2> DEFINE d == DeriveResolutionDate
  <2>1. d \in 2..now /\ d - 1 \in DoneTransitions /\ \A i \in DoneTransitions : i + 1 <= d
    BY <1>10, DerivedDate
  <2>2. /\ \A i \in DoneTransitions : changes[i] \in knows
        /\ Len(changes) <= Top =>
             DoneTransitions = {i \in DOMAIN changes : changes[i] \in knows}
        /\ DoneTransitions \subseteq 1..Len(changes)
    BY TransitionsRead
  <2>3. now \in Nat /\ entered \in Nat /\ got.resolved \in Nat /\ now = Len(changes) + 1
        /\ Len(changes) \in Nat
    BY TimesAreNumbers
  <2> HIDE DEF d
  <2>4. d \in Nat /\ d # None /\ d \in 0..now /\ d - 1 \in Nat
    BY <2>1, <2>3 DEF None
  <2>5. date' = d
    BY <1>1, <2>4 DEF d
  <2>6. ASSUME Len(changes) <= Top, quiet, knows = Resolved
        PROVE  d = entered
    <3>1. d <= entered
      <4>1. changes[d - 1] \in Resolved
        BY <2>1, <2>2, <2>6
      <4>2. d - 1 \in DOMAIN changes
        BY <2>1, <2>2, <2>6
      <4>3. (d - 1) + 1 <= entered
        BY <4>1, <4>2 DEF DatesOfChanges
      <4>4. QED
        BY <2>3, <2>4, <4>3
    <3>2. entered > 1
      BY <2>1, <2>3, <3>1
    <3>3. changes[entered - 1] \in Resolved
      BY <3>2 DEF DatesOfChanges
    <3>4. entered - 1 \in DOMAIN changes
      <4>1. entered \in 0..now /\ changes \in Seq(States \cup {OtherField})
        BY TimesAreNumbers DEF ResolutionTypeOK
      <4>2. entered - 1 \in 1..Len(changes)
        BY <2>3, <3>2, <4>1
      <4>3. QED
        BY <4>1, <4>2
    <3>5. entered - 1 \in DoneTransitions
      BY <2>2, <2>6, <3>3, <3>4
    <3>6. (entered - 1) + 1 <= d
      BY <2>1, <3>5
    <3>7. QED
      BY <2>3, <2>4, <3>1, <3>6
  <2>7. ASSUME Len(changes) <= Top, got.state \in knows
        PROVE  d >= got.resolved
    <3>1. CASE got.resolved > 1
      <4>1. PICK i \in DOMAIN changes : changes[i] = got.state /\ i + 1 >= got.resolved
        BY <3>1 DEF CameLater
      <4>2. i \in DoneTransitions
        BY <2>2, <2>7, <4>1
      <4>3. i + 1 <= d /\ i \in 1..Len(changes)
        BY <2>1, <2>2, <4>2
      <4>4. i \in Nat
        BY <4>3
      <4>5. QED
        BY <2>3, <2>4, <4>1, <4>3, <4>4
    <3>2. CASE ~(got.resolved > 1)
      BY <2>1, <2>3, <3>2
    <3>3. QED
      BY <3>1, <3>2
  <2>8. DatesAreRight'
    BY <1>2, <1>4, <1>7, <2>5, <2>6, <2>7 DEF DatesAreRight
  <2>9. date' \in 0..now
        /\ (date' # None /\ kind # "search with changelog" => got.state \in knows')
    BY <1>2, <1>5, <2>4, <2>5
  <2>10. QED
    BY <1>1, <1>6, <1>8, <2>8, <2>9, AnswerStep
<1>11. QED
  BY <1>9, <1>10

(* ... or they cannot be had, and the date is the converter's.             *)
LEMMA ActivitiesFailStep ==
  ASSUME ResolutionInv, ActivitiesFail
  PROVE  ResolutionInv'
<1> USE DEF ResolutionInv
<1>1. stage = "known" /\ stage' = "answered"
      /\ UNCHANGED <<issue, kind, got, knows, date, quiet>>
  BY DEF ActivitiesFail
<1>2. UNCHANGED <<state, resolvedAt, changes, entered, kind, got, knows, quiet>>
  BY <1>1 DEF issue
<1>3. date = IF got.state \in knows /\ got.resolved # None THEN got.resolved ELSE None
  BY <1>1 DEF AnswerFollows, Done, IsDoneState
<1>4. /\ date \in 0..now
      /\ got.state \in knows => date >= got.resolved
      /\ date # None => got.state \in knows
      /\ quiet /\ knows = Resolved =>
           /\ got.state \in knows <=> state \in Resolved
           /\ got.state \in knows => date = resolvedAt
  BY <1>3, ConvertedDate
<1>5. Done' <=> got.state \in knows
  BY <1>2 DEF Done, IsDoneState
<1>6. AnswerFollows'
  BY <1>1, <1>2 DEF AnswerFollows
<1>7. DatesAreRight'
  BY <1>1, <1>2, <1>4, <1>5 DEF DatesAreRight
<1>8. knows' \subseteq States /\ date' = date /\ knows' = knows
  BY <1>1, <1>2 DEF ResolutionTypeOK
<1>9. QED
  BY <1>1, <1>4, <1>6, <1>7, <1>8, AnswerStep

LEMMA ResolutionStep == ResolutionInv /\ [ResolutionNext]_resolutionVars => ResolutionInv'
<1> SUFFICES ASSUME ResolutionInv, [ResolutionNext]_resolutionVars
             PROVE  ResolutionInv'
  OBVIOUS
<1>1. ASSUME NEW s \in States, Move(s) PROVE ResolutionInv'
  BY <1>1, MoveStep
<1>2. ASSUME NEW k \in Kinds, ReadIssue(k) PROVE ResolutionInv'
  BY <1>2, ReadIssueStep
<1>3. CASE UNCHANGED resolutionVars
  <2>1. now' = now
    BY <1>3 DEF resolutionVars, now
  <2>2. QED
    BY <1>3, <2>1 DEF resolutionVars, ResolutionInv, ResolutionTypeOK, DatesOfChanges,
         CameLater, AnswerFollows, DatesAreRight, ReadsActivities, Done, IsDoneState
<1>4. QED
  BY <1>1, <1>2, <1>3, OtherFieldStep, LearnStatesStep, ReadActivitiesStep,
     ActivitiesFailStep DEF ResolutionNext

(* The dates of an answer follow the issue's own, however it changes while *)
(* it is read (issues.go:109-163 and 215-236, converter_read.go:260-263).  *)
THEOREM ResolutionInvariant == ResolutionSpec => []ResolutionInv
BY ResolutionStart, ResolutionStep, PTL DEF ResolutionSpec

(* The two sources of the resolution date agree on every issue of at most  *)
(* Top activities, and the activities never move the date back.            *)
THEOREM ResolutionDatesAreRight == ResolutionSpec => []DatesAreRight
<1>1. ResolutionInv => DatesAreRight
  BY DEF ResolutionInv
<1>2. QED
  BY <1>1, ResolutionInvariant, PTL

-----------------------------------------------------------------------------
(*                              Changelog                                  *)

(* The batch is what is behind startAt, ...                                *)
BatchFollows ==
  /\ \A m, n \in DOMAIN batch : m < n => batch[m] < batch[n]
  /\ phase = "grouping" =>
       /\ \A n \in DOMAIN batch : batch[n] = startAt + n
       /\ startAt + Len(batch) <= last
       /\ batch = << >> => startAt = last
  /\ phase = "finished" => startAt = last

(* ... and the histories are made of the part of it that is grouped.       *)
HistoriesFollow ==
  /\ Len(histories) <= grouped
  /\ \A n \in 1..grouped : \E k \in DOMAIN histories : batch[n] \in Range(histories[k])
  /\ \A k \in DOMAIN histories :
       \A i \in Range(histories[k]) : \E n \in 1..grouped : i = batch[n]

ChangelogInv ==
  ChangelogTypeOK /\ BatchFollows /\ HistoriesFollow /\ PageIsPartitioned /\ NothingSkipped

LEMMA ChangelogStart == ChangelogInit => ChangelogInv
<1> SUFFICES ASSUME ChangelogInit PROVE ChangelogInv
  OBVIOUS
<1> USE DEF ChangelogInit
<1>1. activities \in Seq(Activities) /\ batch \in Seq(DOMAIN activities)
      /\ histories \in Seq(Seq(DOMAIN activities))
  OBVIOUS
<1>2. Len(activities) = 0 /\ Len(batch) = 0 /\ Len(histories) = 0
      /\ DOMAIN batch = {} /\ DOMAIN histories = {}
  OBVIOUS
<1>3. ChangelogTypeOK
  BY <1>1, <1>2 DEF ChangelogTypeOK
<1>4. BatchFollows /\ HistoriesFollow /\ PageIsPartitioned
  BY <1>2 DEF BatchFollows, HistoriesFollow, PageIsPartitioned
<1>5. NothingSkipped
  BY DEF NothingSkipped
<1>6. QED
  BY <1>3, <1>4, <1>5 DEF ChangelogInv

(* A page of activities is a stretch of the list, and empty only behind    *)
(* its end.                                                                *)
LEMMA PageOfActivities ==
  ASSUME ChangelogTypeOK, NEW m \in Nat \ {0}, NEW b, b = Activity(startAt, m)
  PROVE  /\ b \in Seq(DOMAIN activities) /\ Len(b) \in Nat
         /\ \A n \in DOMAIN b : n \in Nat /\ b[n] = startAt + n
         /\ startAt + Len(b) <= Len(activities)
         /\ b = << >> => startAt = Len(activities)
<1>1. activities \in Seq(Activities)
  BY DEF ChangelogTypeOK
<1>2. Len(activities) \in Nat
  BY <1>1
<1>3. startAt \in Nat /\ startAt <= Len(activities)
  BY <1>2 DEF ChangelogTypeOK
<1>4. PICK to \in Nat : /\ startAt <= to /\ to <= Len(activities)
                        /\ to = startAt => startAt = Len(activities)
                        /\ b = [i \in 1..(to - startAt) |-> startAt + i]
  <2>1. CASE startAt + m < Len(activities)
    <3>1. b = [i \in 1..((startAt + m) - startAt) |-> startAt + i]
      BY <2>1 DEF Activity
    <3>2. startAt + m \in Nat /\ startAt <= startAt + m /\ startAt + m <= Len(activities)
          /\ startAt + m # startAt
      BY <1>2, <1>3, <2>1
    <3>3. QED
      BY <3>1, <3>2
  <2>2. CASE ~(startAt + m < Len(activities))
    <3>1. b = [i \in 1..(Len(activities) - startAt) |-> startAt + i]
      BY <2>2 DEF Activity
    <3>2. QED
      BY <1>2, <1>3, <3>1
  <2>3. QED
    BY <2>1, <2>2
<1>5. to - startAt \in Nat
  BY <1>3, <1>4
<1>6. \A i \in 1..(to - startAt) : startAt + i \in 1..Len(activities)
  <2>1. \A i \in 1..(to - startAt) : i \in Nat /\ 1 <= i /\ i <= to - startAt
    BY <1>5
  <2>2. QED
    BY <1>2, <1>3, <1>4, <2>1
<1>7. b \in Seq(1..Len(activities)) /\ Len(b) = to - startAt /\ DOMAIN b = 1..(to - startAt)
  <2>1. b \in [1..(to - startAt) -> 1..Len(activities)]
    BY <1>4, <1>6
  <2>2. QED
    BY <1>5, <2>1
<1>8. b = << >> => startAt = Len(activities)
  <2>1. b = << >> => Len(b) = 0
    OBVIOUS
  <2>2. QED
    BY <1>3, <1>4, <1>7, <2>1
<1>9. \A n \in DOMAIN b : n \in Nat /\ b[n] = startAt + n
  BY <1>4, <1>5, <1>7
<1>10. startAt + Len(b) <= Len(activities)
  BY <1>3, <1>4, <1>7
<1>11. DOMAIN activities = 1..Len(activities)
  BY <1>1
<1>12. QED
  BY <1>5, <1>7, <1>8, <1>9, <1>10, <1>11

LEMMA GetChangelogStep ==
  ASSUME ChangelogInv, NEW m \in Asks, HandleGetIssueChangelog(m)
  PROVE  ChangelogInv'
<1> USE DEF ChangelogInv
<1>1. /\ phase' = "grouping" /\ last' = Len(activities)
      /\ grouped' = 0 /\ histories' = << >> /\ batch' = Activity(startAt, m)
      /\ UNCHANGED <<activities, startAt, received, steady>>
  BY DEF HandleGetIssueChangelog
<1>2. m \in Nat \ {0}
  BY AsksAssumption
<1>3. /\ batch' \in Seq(DOMAIN activities) /\ Len(batch') \in Nat
      /\ \A n \in DOMAIN batch' : n \in Nat /\ batch'[n] = startAt + n
      /\ startAt + Len(batch') <= Len(activities)
      /\ batch' = << >> => startAt = Len(activities)
  BY <1>1, <1>2, PageOfActivities
<1>4. DOMAIN histories' = {} /\ Len(histories') = 0
      /\ histories' \in Seq(Seq(DOMAIN activities))
  BY <1>1
<1>5. startAt \in Nat /\ Len(activities) \in Nat
  <2>1. activities \in Seq(Activities)
    BY DEF ChangelogTypeOK
  <2>2. Len(activities) \in Nat
    BY <2>1
  <2>3. QED
    BY <2>2 DEF ChangelogTypeOK
<1>6. ChangelogTypeOK'
  <2>1. last' \in 0..Len(activities') /\ grouped' \in 0..Len(batch')
    BY <1>1, <1>3, <1>5
  <2>2. QED
    BY <1>1, <1>3, <1>4, <2>1 DEF ChangelogTypeOK
<1>7. BatchFollows'
  <2>1. \A j, n \in DOMAIN batch' : j < n => batch'[j] < batch'[n]
    BY <1>3, <1>5
  <2>2. QED
    BY <1>1, <1>3, <2>1 DEF BatchFollows
<1>8. HistoriesFollow' /\ PageIsPartitioned'
  <2>1. 1..grouped' = {}
    BY <1>1
  <2>2. QED
    BY <1>1, <1>4, <2>1 DEF HistoriesFollow, PageIsPartitioned
<1>9. NothingSkipped'
  BY <1>1 DEF NothingSkipped, Received
<1>10. QED
  BY <1>6, <1>7, <1>8, <1>9

(* A group is one of the histories, or a new one behind them; it ends with *)
(* the activity, and its first has the activity's key.  The others are     *)
(* left alone.                                                             *)
LEMMA GroupAddsOne ==
  ASSUME ChangelogTypeOK, PageIsPartitioned, NEW i \in DOMAIN activities,
         Group(i), UNCHANGED activities
  PROVE  \E g \in Nat :
           /\ histories' \in Seq(Seq(DOMAIN activities))
           /\ DOMAIN histories' = DOMAIN histories \cup {g}
           /\ Len(histories') <= Len(histories) + 1
           /\ \A k \in DOMAIN histories \ {g} : histories'[k] = histories[k]
           /\ LET old == IF g \in DOMAIN histories THEN histories[g] ELSE << >>
              IN  histories'[g] = Append(old, i) /\ old \in Seq(DOMAIN activities)
           /\ Key(histories'[g][1]) = Key(i)
           /\ \A k \in DOMAIN histories : k # g => Key(histories[k][1]) # Key(i)
           /\ \A k \in DOMAIN histories : histories[k] # << >>
           /\ \A k \in DOMAIN histories : histories'[k][1] = histories[k][1]
<1> DEFINE D == DOMAIN activities
<1>1. histories \in Seq(Seq(D))
  BY DEF ChangelogTypeOK
<1>2. \A k \in DOMAIN histories : histories[k] # << >> /\ histories[k] \in Seq(D)
  BY <1>1 DEF PageIsPartitioned
<1>3. \A j, k \in DOMAIN histories : j # k => Key(histories[j][1]) # Key(histories[k][1])
  BY DEF PageIsPartitioned
<1>4. i \in D
  OBVIOUS
<1> HIDE DEF D
<1>5. ASSUME NEW h \in Seq(D), h # << >>
      PROVE  Append(h, i) \in Seq(D) /\ Append(h, i)[1] = h[1]
  BY <1>4, <1>5
<1>6. <<i>> \in Seq(D) /\ <<i>>[1] = i /\ Append(<< >>, i) = <<i>> /\ << >> \in Seq(D)
  BY <1>4
<1>7. ASSUME NEW g \in HistoryOf(i),
             histories' = [histories EXCEPT ![g] = Append(@, i)]
      PROVE  /\ g \in Nat /\ g \in DOMAIN histories
             /\ histories' \in Seq(Seq(D)) /\ Len(histories') = Len(histories)
             /\ DOMAIN histories' = DOMAIN histories
             /\ \A k \in DOMAIN histories \ {g} : histories'[k] = histories[k]
             /\ histories'[g] = Append(histories[g], i)
             /\ Key(histories[g][1]) = Key(i)
  <2>1. g \in DOMAIN histories /\ Key(histories[g][1]) = Key(i)
    BY DEF HistoryOf
  <2>2. Append(histories[g], i) \in Seq(D)
    BY <1>2, <1>5, <2>1
  <2>3. histories' \in Seq(Seq(D)) /\ Len(histories') = Len(histories)
    BY <1>1, <1>7, <2>1, <2>2
  <2>4. g \in Nat
    BY <1>1, <2>1
  <2>5. QED
    BY <1>7, <2>1, <2>3, <2>4
<1>8. ASSUME HistoryOf(i) = {}, histories' = Append(histories, <<i>>)
      PROVE  LET g == Len(histories) + 1
             IN  /\ g \in Nat /\ g \notin DOMAIN histories
                 /\ histories' \in Seq(Seq(D)) /\ Len(histories') = g
                 /\ DOMAIN histories' = DOMAIN histories \cup {g}
                 /\ \A k \in DOMAIN histories \ {g} : histories'[k] = histories[k]
                 /\ histories'[g] = <<i>>
                 /\ \A k \in DOMAIN histories : Key(histories[k][1]) # Key(i)
  <2>1. Len(histories) \in Nat
    BY <1>1
  <2>2. Len(histories) + 1 \notin DOMAIN histories
    BY <1>1
  <2>3. histories' \in Seq(Seq(D)) /\ Len(histories') = Len(histories) + 1
        /\ DOMAIN histories' = DOMAIN histories \cup {Len(histories) + 1}
    BY <1>1, <1>6, <1>8
  <2>4. /\ \A k \in DOMAIN histories : histories'[k] = histories[k]
        /\ histories'[Len(histories) + 1] = <<i>>
    BY <1>1, <1>6, <1>8
  <2>5. \A k \in DOMAIN histories : Key(histories[k][1]) # Key(i)
    BY <1>8 DEF HistoryOf
  <2>6. QED
    BY <2>1, <2>2, <2>3, <2>4, <2>5
<1>9. CASE \E g \in HistoryOf(i) : histories' = [histories EXCEPT ![g] = Append(@, i)]
  <2>1. PICK g \in HistoryOf(i) : histories' = [histories EXCEPT ![g] = Append(@, i)]
    BY <1>9
  <2>2. /\ g \in Nat /\ g \in DOMAIN histories
        /\ histories' \in Seq(Seq(D)) /\ Len(histories') = Len(histories)
        /\ DOMAIN histories' = DOMAIN histories
        /\ \A k \in DOMAIN histories \ {g} : histories'[k] = histories[k]
        /\ histories'[g] = Append(histories[g], i)
        /\ Key(histories[g][1]) = Key(i)
    BY <1>7, <2>1
  <2>3. \A k \in DOMAIN histories : histories'[k][1] = histories[k][1]
    BY <1>2, <1>5, <2>2
  <2>4. \A k \in DOMAIN histories : k # g => Key(histories[k][1]) # Key(i)
    BY <1>3, <2>2
  <2>5. Len(histories') <= Len(histories) + 1
    <3>1. Len(histories) \in Nat
      BY <1>1
    <3>2. QED
      BY <2>2, <3>1
  <2>6. Key(histories'[g][1]) = Key(i)
    BY <2>2, <2>3
  <2>7. DOMAIN histories' = DOMAIN histories \cup {g}
    BY <2>2
  <2>8. QED
    BY <1>2, <2>2, <2>3, <2>4, <2>5, <2>6, <2>7 DEF D
<1>10. CASE HistoryOf(i) = {} /\ histories' = Append(histories, <<i>>)
  <2> DEFINE g == Len(histories) + 1
  <2>1. /\ g \in Nat /\ g \notin DOMAIN histories
        /\ histories' \in Seq(Seq(D)) /\ Len(histories') = g
        /\ DOMAIN histories' = DOMAIN histories \cup {g}
        /\ \A k \in DOMAIN histories \ {g} : histories'[k] = histories[k]
        /\ histories'[g] = <<i>>
        /\ \A k \in DOMAIN histories : Key(histories[k][1]) # Key(i)
    BY <1>8, <1>10
  <2>2. Len(histories') <= Len(histories) + 1
    BY <2>1
  <2> HIDE DEF g
  <2>3. \A k \in DOMAIN histories : histories'[k][1] = histories[k][1]
    BY <2>1
  <2>4. Key(histories'[g][1]) = Key(i)
    BY <1>6, <2>1
  <2>5. QED
    BY <1>2, <1>6, <2>1, <2>2, <2>3, <2>4 DEF D
<1>11. QED
  BY <1>9, <1>10 DEF Group

(* The range of a sequence that is one longer.                             *)
LEMMA RangeOfAppend ==
  ASSUME NEW S, NEW h \in Seq(S), NEW i
  PROVE  Range(Append(h, i)) = Range(h) \cup {i}
<1>1. DOMAIN Append(h, i) = DOMAIN h \cup {Len(h) + 1}
  OBVIOUS
<1>2. \A m \in DOMAIN h : Append(h, i)[m] = h[m]
  OBVIOUS
<1>3. Append(h, i)[Len(h) + 1] = i
  OBVIOUS
<1>4. QED
  BY <1>1, <1>2, <1>3 DEF Range

(* The next activity of the page joins its group, and no other.            *)
LEMMA GroupNextStep ==
  ASSUME ChangelogInv, GroupNext
  PROVE  ChangelogInv'
<1> USE DEF ChangelogInv
<1> DEFINE i == batch[grouped + 1]
           D == DOMAIN activities
<1>1. /\ phase = "grouping" /\ grouped < Len(batch) /\ grouped' = grouped + 1
      /\ Group(i)
      /\ UNCHANGED <<activities, startAt, batch, received, phase, last, steady>>
  BY DEF GroupNext
<1>2. /\ activities \in Seq(Activities) /\ batch \in Seq(D)
      /\ histories \in Seq(Seq(D)) /\ grouped \in 0..Len(batch)
  BY DEF ChangelogTypeOK
<1>3. Len(batch) \in Nat /\ Len(histories) \in Nat
  BY <1>2
<1>4. grouped \in Nat /\ grouped + 1 \in 1..Len(batch)
      /\ 1..grouped' = 1..grouped \cup {grouped + 1}
  BY <1>1, <1>2, <1>3
<1>5. grouped + 1 \in DOMAIN batch /\ 1..grouped \subseteq DOMAIN batch
  <2>1. DOMAIN batch = 1..Len(batch)
    BY <1>2
  <2>2. QED
    BY <1>3, <1>4, <2>1
<1>6. i \in D /\ \A n \in 1..grouped : batch[n] \in D
  BY <1>2, <1>5
<1>7. D \subseteq Nat
  BY <1>2
<1>8. \A n \in 1..grouped : batch[n] < i
  <2>1. \A n \in 1..grouped : n < grouped + 1
    BY <1>4
  <2>2. QED
    BY <1>5, <2>1 DEF BatchFollows
<1>9. \A n \in 1..grouped' : batch'[n] = batch[n] /\ (n \in 1..grouped \/ n = grouped + 1)
  BY <1>1, <1>4
<1>10. PICK g \in Nat :
         /\ histories' \in Seq(Seq(D))
         /\ DOMAIN histories' = DOMAIN histories \cup {g}
         /\ Len(histories') <= Len(histories) + 1
         /\ \A k \in DOMAIN histories \ {g} : histories'[k] = histories[k]
         /\ LET old == IF g \in DOMAIN histories THEN histories[g] ELSE << >>
            IN  histories'[g] = Append(old, i) /\ old \in Seq(D)
         /\ Key(histories'[g][1]) = Key(i)
         /\ \A k \in DOMAIN histories : k # g => Key(histories[k][1]) # Key(i)
         /\ \A k \in DOMAIN histories : histories[k] # << >>
         /\ \A k \in DOMAIN histories : histories'[k][1] = histories[k][1]
  BY <1>1, <1>6, GroupAddsOne
<1> DEFINE old == IF g \in DOMAIN histories THEN histories[g] ELSE << >>
<1>12. histories'[g] = Append(old, i) /\ old \in Seq(D)
  BY <1>10
<1>13. Range(histories'[g]) = Range(old) \cup {i}
  <2> HIDE DEF old, i, D
  <2>1. QED
    BY <1>12, RangeOfAppend
<1>14. Range(old) = IF g \in DOMAIN histories THEN Range(histories[g]) ELSE {}
  <2>1. Range(<< >>) = {}
    BY DEF Range
  <2>2. QED
    BY <2>1
<1> HIDE DEF i, D, old
<1>15. \A k \in DOMAIN histories : \A x \in Range(histories[k]) : x < i
  BY <1>8 DEF HistoriesFollow
<1>16. \A k \in DOMAIN histories : i \notin Range(histories[k])
  <2>1. i \in Nat /\ ~(i < i)
    BY <1>6, <1>7
  <2>2. QED
    BY <1>15, <2>1
<1>17. Len(histories) <= grouped /\ Len(histories') \in Nat
  BY <1>10 DEF HistoriesFollow
<1>18. ChangelogTypeOK'
  <2>1. grouped' \in 0..Len(batch')
    BY <1>1, <1>3, <1>4
  <2>2. DOMAIN activities' = D /\ histories' \in Seq(Seq(DOMAIN activities'))
    BY <1>1, <1>10 DEF D
  <2>3. QED
    BY <1>1, <2>1, <2>2 DEF ChangelogTypeOK
<1>19. BatchFollows'
  BY <1>1 DEF BatchFollows
<1>20. \A k \in DOMAIN histories' :
         Range(histories'[k]) = (IF k \in DOMAIN histories THEN Range(histories[k]) ELSE {})
                                  \cup (IF k = g THEN {i} ELSE {})
  BY <1>10, <1>13, <1>14
<1>21. HistoriesFollow'
  <2>1. Len(histories') <= grouped'
    BY <1>1, <1>3, <1>4, <1>10, <1>17
  <2>2. ASSUME NEW n \in 1..grouped'
        PROVE  \E k \in DOMAIN histories' : batch'[n] \in Range(histories'[k])
    <3>1. CASE n \in 1..grouped
      <4>1. PICK k \in DOMAIN histories : batch[n] \in Range(histories[k])
        BY <3>1 DEF HistoriesFollow
      <4>2. k \in DOMAIN histories' /\ Range(histories[k]) \subseteq Range(histories'[k])
        BY <1>10, <1>20, <4>1
      <4>3. QED
        BY <1>9, <4>1, <4>2
    <3>2. CASE n = grouped + 1
      BY <1>9, <1>10, <1>13, <3>2 DEF i
    <3>3. QED
      BY <1>9, <3>1, <3>2
  <2>3. ASSUME NEW k \in DOMAIN histories', NEW x \in Range(histories'[k])
        PROVE  \E n \in 1..grouped' : x = batch'[n]
    <3>1. CASE k \in DOMAIN histories /\ x \in Range(histories[k])
      <4>1. PICK n \in 1..grouped : x = batch[n]
        BY <3>1 DEF HistoriesFollow
      <4>2. QED
        BY <1>4, <1>9, <4>1
    <3>2. CASE x = i
      BY <1>4, <1>9, <3>2 DEF i
    <3>3. QED
      BY <1>20, <2>3, <3>1, <3>2
  <2>4. QED
    BY <2>1, <2>2, <2>3 DEF HistoriesFollow
<1>22. \A x : Key(x)' = Key(x)
  BY <1>1 DEF Key
<1>23. ASSUME NEW n \in 1..grouped'
       PROVE  Cardinality({k \in DOMAIN histories' : batch'[n] \in Range(histories'[k])}) = 1
  <2>1. CASE n \in 1..grouped
    <3>1. batch[n] # i /\ batch'[n] = batch[n]
      <4>1. batch[n] \in Nat /\ i \in Nat /\ batch[n] < i
        BY <1>6, <1>7, <1>8, <2>1
      <4>2. QED
        BY <1>9, <4>1
    <3>2. {k \in DOMAIN histories' : batch'[n] \in Range(histories'[k])}
            = {k \in DOMAIN histories : batch[n] \in Range(histories[k])}
      BY <1>10, <1>20, <3>1
    <3>3. QED
      BY <2>1, <3>2 DEF PageIsPartitioned
  <2>2. CASE n = grouped + 1
    <3>1. batch'[n] = i
      BY <1>9, <2>2 DEF i
    <3>2. {k \in DOMAIN histories' : batch'[n] \in Range(histories'[k])} = {g}
      BY <1>10, <1>16, <1>20, <3>1
    <3>3. Cardinality({g}) = 1
      BY FS_Singleton
    <3>4. QED
      BY <3>2, <3>3
  <2>3. QED
    BY <1>9, <2>1, <2>2
<1>24. ASSUME NEW k \in DOMAIN histories'
       PROVE  /\ histories'[k] # << >>
              /\ \A m, n \in DOMAIN histories'[k] :
                   /\ Key(histories'[k][m]) = Key(histories'[k][n])
                   /\ m < n => histories'[k][m] < histories'[k][n]
  <2>1. CASE k # g
    BY <1>10, <2>1 DEF PageIsPartitioned
  <2>2. CASE k = g
    <3> DEFINE d == DOMAIN old
    <3>1. /\ DOMAIN histories'[k] = d \cup {Len(old) + 1} /\ Len(old) \in Nat
          /\ histories'[k][Len(old) + 1] = i
          /\ \A m \in d : histories'[k][m] = old[m]
          /\ \A m \in d : m \in Nat /\ m < Len(old) + 1
          /\ histories'[k] # << >>
      BY <1>12, <2>2
    <3>2. \A m \in d : old[m] < i
      BY <1>14, <1>15 DEF old, Range
    <3>3. \A m, n \in d : /\ Key(old[m]) = Key(old[n])
                          /\ m < n => old[m] < old[n]
      BY DEF old, PageIsPartitioned
    <3>4. \A m \in d : Key(old[m]) = Key(i)
      <4>1. ASSUME NEW m \in d
            PROVE  Key(old[m]) = Key(i)
        <5>1. 1 \in d /\ g \in DOMAIN histories
          BY <1>12 DEF old
        <5>2. Key(old[1]) = Key(i)
          BY <1>10, <5>1 DEF old
        <5>3. QED
          BY <3>3, <5>1, <5>2
      <4>2. QED
        BY <4>1
    <3> HIDE DEF d
    <3>5. ASSUME NEW m \in DOMAIN histories'[k], NEW n \in DOMAIN histories'[k]
          PROVE  /\ Key(histories'[k][m]) = Key(histories'[k][n])
                 /\ m < n => histories'[k][m] < histories'[k][n]
      <4>1. CASE m \in d /\ n \in d
        BY <3>1, <3>3, <4>1
      <4>2. CASE m \in d /\ n = Len(old) + 1
        BY <3>1, <3>2, <3>4, <4>2
      <4>3. CASE m = Len(old) + 1 /\ n \in d
        <5>1. ~(m < n)
          BY <3>1, <4>3
        <5>2. QED
          BY <3>1, <3>4, <4>3, <5>1
      <4>4. CASE m = Len(old) + 1 /\ n = Len(old) + 1
        BY <3>1, <4>4
      <4>5. QED
        BY <3>1, <4>1, <4>2, <4>3, <4>4
    <3>6. QED
      BY <3>1, <3>5
  <2>3. QED
    BY <2>1, <2>2
<1>25. ASSUME NEW j \in DOMAIN histories', NEW k \in DOMAIN histories', j # k
       PROVE  Key(histories'[j][1]) # Key(histories'[k][1])
  <2>1. CASE j # g /\ k # g
    BY <1>10, <1>25, <2>1 DEF PageIsPartitioned
  <2>2. CASE j = g
    BY <1>10, <1>25, <2>2
  <2>3. CASE k = g
    BY <1>10, <1>25, <2>3
  <2>4. QED
    BY <2>1, <2>2, <2>3
<1>26. PageIsPartitioned'
  <2>1. \A x : Key(x)' = <<activities'[x].at, activities'[x].by>>
    BY DEF Key
  <2>2. QED
    BY <1>1, <1>23, <1>24, <1>25 DEF PageIsPartitioned, Key
<1>27. NothingSkipped'
  BY <1>1 DEF NothingSkipped, Received
<1>28. QED
  BY <1>18, <1>19, <1>21, <1>26, <1>27

(* The client has the histories, and goes on behind as many activities.    *)
LEMMA AnswerIsTaken ==
  ASSUME ChangelogInv, Answer
  PROVE  ChangelogInv'
<1> USE DEF ChangelogInv
<1>1. /\ phase = "grouping" /\ grouped = Len(batch)
      /\ startAt' = startAt + Len(histories)
      /\ received' = received \cup Range(histories)
      /\ phase' = (IF histories = << >> THEN "finished" ELSE "reading")
      /\ UNCHANGED <<activities, batch, grouped, histories, last, steady>>
  BY DEF Answer
<1>2. /\ activities \in Seq(Activities) /\ batch \in Seq(DOMAIN activities)
      /\ histories \in Seq(Seq(DOMAIN activities))
  BY DEF ChangelogTypeOK
<1>3. Len(activities) \in Nat /\ Len(batch) \in Nat /\ Len(histories) \in Nat
  BY <1>2
<1>4. startAt \in Nat /\ last \in 0..Len(activities)
  BY <1>3 DEF ChangelogTypeOK
<1>5. Len(histories) <= Len(batch) /\ startAt + Len(batch) <= last
  BY <1>1 DEF HistoriesFollow, BatchFollows
<1>6. startAt' \in 0..Len(activities) /\ startAt' \in Nat
  BY <1>1, <1>3, <1>4, <1>5
<1>7. ChangelogTypeOK'
  <2>1. \A h \in received' : h \in Seq(DOMAIN activities) /\ h # << >>
    <3>1. ASSUME NEW h \in Range(histories)
          PROVE  h \in Seq(DOMAIN activities) /\ h # << >>
      <4>1. PICK k \in DOMAIN histories : h = histories[k]
        BY DEF Range
      <4>2. QED
        BY <1>2, <4>1 DEF PageIsPartitioned
    <3>2. QED
      BY <1>1, <3>1 DEF ChangelogTypeOK
  <2>2. phase' \in {"reading", "grouping", "finished"}
    BY <1>1
  <2>3. QED
    BY <1>1, <1>6, <2>1, <2>2 DEF ChangelogTypeOK
<1>8. ASSUME histories = << >>
      PROVE  startAt = last /\ startAt' = startAt
  <2>1. DOMAIN histories = {} /\ Len(histories) = 0
    BY <1>8
  <2>2. 1..Len(batch) = {}
    BY <1>1, <2>1 DEF HistoriesFollow
  <2>3. batch = << >>
    <3>1. Len(batch) = 0
      BY <1>3, <2>2
    <3>2. QED
      BY <1>2, <3>1
  <2>4. QED
    BY <1>1, <1>4, <2>1, <2>3 DEF BatchFollows
<1>9. BatchFollows'
  <2>1. phase' = "finished" => startAt' = last'
    BY <1>1, <1>8
  <2>2. phase' # "grouping"
    BY <1>1
  <2>3. QED
    BY <1>1, <2>1, <2>2 DEF BatchFollows
<1>10. HistoriesFollow' /\ PageIsPartitioned'
  BY <1>1 DEF HistoriesFollow, PageIsPartitioned, Key
<1>11. Received \subseteq Received' /\ UNION {Range(h) : h \in Range(histories)} \subseteq Received'
  BY <1>1 DEF Received
<1>12. 1..startAt' \subseteq Received'
  <2>1. ASSUME NEW n \in 1..startAt'
        PROVE  n \in Received'
    <3>1. CASE n <= startAt
      BY <1>4, <1>6, <1>11, <3>1 DEF NothingSkipped
    <3>2. CASE ~(n <= startAt)
      <4>1. n - startAt \in 1..Len(batch) /\ startAt + (n - startAt) = n
        BY <1>1, <1>3, <1>4, <1>5, <1>6, <3>2
      <4>2. n - startAt \in DOMAIN batch
        BY <1>2, <4>1
      <4>3. batch[n - startAt] = n
        BY <1>1, <4>1, <4>2 DEF BatchFollows
      <4>4. PICK k \in DOMAIN histories : n \in Range(histories[k])
        BY <1>1, <4>1, <4>3 DEF HistoriesFollow
      <4>5. histories[k] \in Range(histories)
        BY DEF Range
      <4>6. QED
        BY <1>11, <4>4, <4>5
    <3>3. QED
      BY <3>1, <3>2
  <2>2. QED
    BY <2>1
<1>13. NothingSkipped'
  <2>1. phase' = "finished" => 1..last' \subseteq Received'
    BY <1>1, <1>8, <1>12
  <2>2. QED
    BY <1>12, <2>1 DEF NothingSkipped
<1>14. QED
  BY <1>7, <1>9, <1>10, <1>13

LEMMA ReadAgainStep ==
  ASSUME ChangelogInv, ReadAgain
  PROVE  ChangelogInv'
<1> USE DEF ChangelogInv
<1>1. /\ phase' = "reading" /\ startAt' = 0 /\ received' = {}
      /\ batch' = << >> /\ grouped' = 0 /\ histories' = << >> /\ last' = 0
      /\ steady' = TRUE /\ UNCHANGED activities
  BY DEF ReadAgain
<1>2. activities \in Seq(Activities)
  BY DEF ChangelogTypeOK
<1>3. Len(activities) \in Nat
  BY <1>2
<1>4. batch' \in Seq(DOMAIN activities') /\ histories' \in Seq(Seq(DOMAIN activities'))
      /\ Len(batch') = 0 /\ DOMAIN batch' = {} /\ Len(histories') = 0 /\ DOMAIN histories' = {}
  BY <1>1
<1>5. ChangelogTypeOK'
  <2>1. 0 \in 0..Len(activities) /\ grouped' \in 0..Len(batch')
    BY <1>1, <1>3, <1>4
  <2>2. QED
    BY <1>1, <1>2, <1>4, <2>1 DEF ChangelogTypeOK
<1>6. BatchFollows' /\ HistoriesFollow' /\ PageIsPartitioned' /\ NothingSkipped'
  <2>1. 1..0 = {}
    OBVIOUS
  <2>2. QED
    BY <1>1, <1>4, <2>1 DEF BatchFollows, HistoriesFollow, PageIsPartitioned, NothingSkipped
<1>7. QED
  BY <1>5, <1>6

(* A change that is recorded leaves the earlier ones what they were.       *)
LEMMA RecordStep ==
  ASSUME ChangelogInv, NEW a \in Activities, Record(a)
  PROVE  ChangelogInv'
<1> USE DEF ChangelogInv
<1>1. /\ activities' = Append(activities, a)
      /\ UNCHANGED <<startAt, batch, grouped, histories, received, phase, last>>
      /\ steady' = FALSE
  BY DEF Record
<1>2. activities \in Seq(Activities)
  BY DEF ChangelogTypeOK
<1>3. /\ activities' \in Seq(Activities) /\ Len(activities') = Len(activities) + 1
      /\ DOMAIN activities \subseteq DOMAIN activities'
      /\ \A i \in DOMAIN activities : activities'[i] = activities[i]
      /\ Len(activities) \in Nat
  BY <1>1, <1>2
<1>4. \A i \in DOMAIN activities : Key(i)' = Key(i)
  BY <1>3 DEF Key
<1>5. Seq(DOMAIN activities) \subseteq Seq(DOMAIN activities')
  BY <1>3, SeqMonotonic
<1>6. Seq(Seq(DOMAIN activities)) \subseteq Seq(Seq(DOMAIN activities'))
  BY <1>5, SeqMonotonic
<1>7. ChangelogTypeOK'
  <2>1. 0..Len(activities) \subseteq 0..Len(activities')
    BY <1>3
  <2>2. startAt' \in 0..Len(activities') /\ last' \in 0..Len(activities')
    BY <1>1, <2>1 DEF ChangelogTypeOK
  <2>3. batch' \in Seq(DOMAIN activities') /\ histories' \in Seq(Seq(DOMAIN activities'))
    BY <1>1, <1>5, <1>6 DEF ChangelogTypeOK
  <2>4. \A h \in received' : h \in Seq(DOMAIN activities') /\ h # << >>
    BY <1>1, <1>5 DEF ChangelogTypeOK
  <2>5. grouped' \in 0..Len(batch') /\ phase' \in {"reading", "grouping", "finished"}
        /\ steady' \in BOOLEAN
    BY <1>1 DEF ChangelogTypeOK
  <2>6. QED
    BY <1>3, <2>2, <2>3, <2>4, <2>5 DEF ChangelogTypeOK
<1>8. BatchFollows' /\ HistoriesFollow'
  BY <1>1 DEF BatchFollows, HistoriesFollow
<1>9. ASSUME NEW k \in DOMAIN histories
      PROVE  /\ histories[k] # << >> /\ histories[k] \in Seq(DOMAIN activities)
             /\ 1 \in DOMAIN histories[k]
             /\ \A m \in DOMAIN histories[k] : histories[k][m] \in DOMAIN activities
  <2>1. histories[k] # << >> /\ histories[k] \in Seq(DOMAIN activities)
    BY DEF ChangelogTypeOK, PageIsPartitioned
  <2>2. QED
    BY <2>1
<1>10. \A k \in DOMAIN histories : \A m \in DOMAIN histories[k] :
         Key(histories[k][m])' = Key(histories[k][m])
  <2>1. ASSUME NEW k \in DOMAIN histories, NEW m \in DOMAIN histories[k]
        PROVE  Key(histories[k][m])' = Key(histories[k][m])
    <3>1. histories[k][m] \in DOMAIN activities /\ histories' = histories
      BY <1>1, <1>9
    <3>2. activities'[histories[k][m]] = activities[histories[k][m]]
      BY <1>3, <3>1
    <3>3. QED
      BY <3>1, <3>2 DEF Key
  <2>2. QED
    BY <2>1
<1>11. PageIsPartitioned'
  <2>1. ASSUME NEW k \in DOMAIN histories'
        PROVE  /\ histories'[k] # << >>
               /\ \A m, n \in DOMAIN histories'[k] :
                    /\ Key(histories[k][m])' = Key(histories[k][n])'
                    /\ m < n => histories'[k][m] < histories'[k][n]
    BY <1>1, <1>10 DEF PageIsPartitioned
  <2>2. ASSUME NEW j \in DOMAIN histories', NEW k \in DOMAIN histories', j # k
        PROVE  Key(histories[j][1])' # Key(histories[k][1])'
    <3>1. j \in DOMAIN histories /\ k \in DOMAIN histories
      BY <1>1
    <3>2. Key(histories[j][1])' = Key(histories[j][1])
          /\ Key(histories[k][1])' = Key(histories[k][1])
      BY <1>9, <1>10, <3>1
    <3>3. QED
      BY <2>2, <3>1, <3>2 DEF PageIsPartitioned
  <2>3. \A n \in 1..grouped' :
          Cardinality({k \in DOMAIN histories' : batch'[n] \in Range(histories'[k])}) = 1
    BY <1>1 DEF PageIsPartitioned
  <2>4. QED
    BY <2>1, <2>2, <2>3 DEF PageIsPartitioned
<1>12. NothingSkipped'
  BY <1>1 DEF NothingSkipped, Received
<1>13. QED
  BY <1>7, <1>8, <1>11, <1>12

LEMMA ChangelogStep == ChangelogInv /\ [ChangelogNext]_changelogVars => ChangelogInv'
<1> SUFFICES ASSUME ChangelogInv, [ChangelogNext]_changelogVars
             PROVE  ChangelogInv'
  OBVIOUS
<1>1. ASSUME NEW m \in Asks, HandleGetIssueChangelog(m) PROVE ChangelogInv'
  BY <1>1, GetChangelogStep
<1>2. ASSUME NEW a \in Activities, Record(a) PROVE ChangelogInv'
  BY <1>2, RecordStep
<1>3. CASE UNCHANGED changelogVars
  <2>1. UNCHANGED <<activities, startAt, batch, grouped, histories, received, phase,
                    last, steady>>
    BY <1>3 DEF changelogVars
  <2>2. ChangelogTypeOK' /\ BatchFollows' /\ HistoriesFollow'
    BY <2>1 DEF ChangelogInv, ChangelogTypeOK, BatchFollows, HistoriesFollow
  <2>3. PageIsPartitioned' /\ NothingSkipped'
    BY <2>1 DEF ChangelogInv, PageIsPartitioned, NothingSkipped, Received, Key
  <2>4. QED
    BY <2>2, <2>3 DEF ChangelogInv
<1>4. QED
  BY <1>1, <1>2, <1>3, GroupNextStep, AnswerIsTaken, ReadAgainStep DEF ChangelogNext

(* A page is a stretch of the activities, and its histories are made of    *)
(* what is grouped of it (converter_read.go:462-485, issues.go:369-413).   *)
THEOREM ChangelogInvariant == ChangelogSpec => []ChangelogInv
BY ChangelogStart, ChangelogStep, PTL DEF ChangelogSpec

(* Each activity of a page is in one history, in order, however the        *)
(* activities of one time and author are mixed with others.                *)
THEOREM ChangelogPageIsPartitioned == ChangelogSpec => []PageIsPartitioned
<1>1. ChangelogInv => PageIsPartitioned
  BY DEF ChangelogInv
<1>2. QED
  BY <1>1, ChangelogInvariant, PTL

(* A client that reads page by page, with whatever maxResults, gets all    *)
(* the activities, however many are recorded meanwhile.                    *)
THEOREM ChangelogNothingSkipped == ChangelogSpec => []NothingSkipped
<1>1. ChangelogInv => NothingSkipped
  BY DEF ChangelogInv
<1>2. QED
  BY <1>1, ChangelogInvariant, PTL

-----------------------------------------------------------------------------
(*                              Parentheses                                *)

(* The scanner's two depths count what is open: of the query both, of the  *)
(* result the depth of lists alone.                                        *)
ParenthesesInv ==
  /\ ParenthesesTypeOK
  /\ verdict = "writing" => NothingScanned
  /\ Opened(jql, scanned)
  /\ Count(jql, scanned, Open) = Count(jql, scanned, Close) + depth + inListDepth
  /\ Opened(result, Len(result))
  /\ Count(result, Len(result), Open) = Count(result, Len(result), Close) + inListDepth
  /\ \A k \in DOMAIN result : result[k] = Open => k > 1 /\ result[k - 1] = In
  /\ verdict = "accepted" => scanned = Len(jql) /\ depth = 0
  /\ verdict = "refused" => ~Balanced(jql) \/ \E i \in DOMAIN jql : EmptyGroupAt(i)

LEMMA ParenthesesDiffer ==
  Open # Close
<1>1. "(" # ")"
  OBVIOUS
<1>2. Open.kind = "(" /\ Close.kind = ")"
  BY DEF Open, Close, Token
<1>. QED BY <1>1, <1>2, Zenon

LEMMA CountOfNone == \A t, token : Count(t, 0, token) = 0
<1>1. 1..0 = {}
  OBVIOUS
<1>2. \A t, token : {i \in 1..0 : t[i] = token} = {}
  BY <1>1, Zenon
<1>. QED BY <1>2, FS_EmptySet, Zenon DEF Count

LEMMA CountedAreFinite ==
  ASSUME NEW t, NEW n \in Nat, NEW token
  PROVE  IsFiniteSet({i \in 1..n : t[i] = token})
<1>1. IsFiniteSet(1..n)
  BY FS_Interval
<1>2. {i \in 1..n : t[i] = token} \in SUBSET (1..n)
  OBVIOUS
<1>. QED BY <1>1, <1>2, FS_Subset, Zenon

LEMMA CountIsNat == \A t, token : \A n \in Nat : Count(t, n, token) \in Nat
BY CountedAreFinite, FS_CardinalityType, Zenon DEF Count

LEMMA CountOneMore ==
  ASSUME NEW t, NEW n \in Nat, NEW token
  PROVE  Count(t, n + 1, token) =
           Count(t, n, token) + (IF t[n + 1] = token THEN 1 ELSE 0)
<1>. DEFINE At(k) == {i \in 1..k : t[i] = token}
<1>1. IsFiniteSet(At(n))
  BY CountedAreFinite, Zenon
<1>2. n + 1 \notin At(n)
  OBVIOUS
<1>3. 1..(n + 1) = (1..n) \cup {n + 1}
  OBVIOUS
<1>4. CASE t[n + 1] = token
  <2>1. At(n + 1) = At(n) \cup {n + 1}
    BY <1>3, <1>4, Zenon
  <2>2. Cardinality(At(n) \cup {n + 1}) = Cardinality(At(n)) + 1
    <3>. HIDE DEF At
    <3>. QED BY <1>1, <1>2, FS_AddElement, Zenon
  <2>. QED BY <2>1, <2>2, <1>4, Zenon DEF Count
<1>5. CASE t[n + 1] # token
  <2>1. At(n + 1) = At(n)
    BY <1>3, <1>5, Zenon
  <2>2. Count(t, n + 1, token) = Count(t, n, token)
    BY <2>1, Zenon DEF Count
  <2>3. Count(t, n, token) \in Nat
    BY CountIsNat, Zenon
  <2>. HIDE DEF At
  <2>. QED BY <2>2, <2>3, <1>5
<1>. QED BY <1>4, <1>5

LEMMA CountIsLocal ==
  ASSUME NEW t, NEW u, NEW n \in Nat, NEW token, \A i \in 1..n : t[i] = u[i]
  PROVE  Count(t, n, token) = Count(u, n, token)
<1>1. {i \in 1..n : t[i] = token} = {i \in 1..n : u[i] = token}
  OBVIOUS
<1>. QED BY <1>1, Zenon DEF Count

(* One token more, and still nothing closed that was not open. *)
LEMMA OpenedOneMore ==
  ASSUME NEW t, NEW n \in Nat, Opened(t, n),
         Count(t, n + 1, Close) <= Count(t, n + 1, Open)
  PROVE  Opened(t, n + 1)
<1>1. \A m \in 0..(n + 1) : m \in 0..n \/ m = n + 1
  OBVIOUS
<1>. QED BY <1>1, Zenon DEF Opened

(* What the scanner keeps counts as it did in the query. *)
LEMMA CountKept ==
  ASSUME NEW s \in Seq(Tokens), NEW x \in Tokens, Opened(s, Len(s)),
         \/ x # Close
         \/ Count(s, Len(s), Close) < Count(s, Len(s), Open)
  PROVE  LET r == Append(s, x)
         IN  /\ Opened(r, Len(r))
             /\ \A token : Count(r, Len(r), token) =
                  Count(s, Len(s), token) + (IF x = token THEN 1 ELSE 0)
<1>. DEFINE r == Append(s, x)
            n == Len(s)
<1>1. n \in Nat /\ Len(r) = n + 1 /\ r[n + 1] = x /\ \A i \in 1..n : r[i] = s[i]
  OBVIOUS
<1>. HIDE DEF r, n
<1>2. \A m \in 0..n : \A i \in 1..m : r[i] = s[i]
  BY <1>1
<1>3. \A m \in 0..n : \A token : Count(r, m, token) = Count(s, m, token)
  <2>. TAKE m \in 0..n
  <2>. TAKE token
  <2>1. m \in Nat /\ \A i \in 1..m : r[i] = s[i]
    BY <1>1, <1>2
  <2>. QED BY <2>1, CountIsLocal, Zenon
<1>4. n \in 0..n
  BY <1>1
<1>5. \A token : Count(r, n + 1, token) = Count(s, n, token) + (IF x = token THEN 1 ELSE 0)
  <2>. TAKE token
  <2>1. Count(r, n + 1, token) = Count(r, n, token) + (IF r[n + 1] = token THEN 1 ELSE 0)
    BY <1>1, CountOneMore, Zenon
  <2>2. Count(r, n, token) = Count(s, n, token)
    BY <1>3, <1>4, Zenon
  <2>. QED BY <1>1, <2>1, <2>2, Zenon
<1>6. Opened(r, n)
  BY <1>3, Zenon DEF Opened, n
<1>7. Count(r, n + 1, Close) <= Count(r, n + 1, Open)
  <2>1. Count(s, n, Close) \in Nat /\ Count(s, n, Open) \in Nat
    BY <1>1, CountIsNat, Zenon
  <2>2. Count(s, n, Close) <= Count(s, n, Open)
    BY <1>4, Zenon DEF Opened, n
  <2>3. x # Close \/ Count(s, n, Close) < Count(s, n, Open)
    BY Zenon DEF n
  <2>4. Count(r, n + 1, Close) = Count(s, n, Close) + (IF x = Close THEN 1 ELSE 0)
    BY <1>5, Zenon
  <2>5. Count(r, n + 1, Open) = Count(s, n, Open) + (IF x = Open THEN 1 ELSE 0)
    BY <1>5, Zenon
  <2>. QED BY <2>1, <2>2, <2>3, <2>4, <2>5, ParenthesesDiffer
<1>8. Opened(r, n + 1)
  BY <1>1, <1>6, <1>7, OpenedOneMore, Zenon
<1>. QED BY <1>1, <1>5, <1>8, Zenon DEF r, n

(* What the scanner leaves behind: the token itself is not kept yet.       *)
LEMMA CountScanned ==
  ASSUME ParenthesesInv, scanned < Len(jql),
         \/ jql[scanned + 1] # Close
         \/ depth + inListDepth > 0
  PROVE  /\ scanned + 1 \in 0..Len(jql) /\ jql[scanned + 1] \in Tokens
         /\ Opened(jql, scanned + 1)
         /\ \A token : Count(jql, scanned + 1, token) =
              Count(jql, scanned, token) + (IF jql[scanned + 1] = token THEN 1 ELSE 0)
<1>1. /\ jql \in Seq(Tokens) /\ scanned \in 0..Len(jql)
      /\ depth \in Nat /\ inListDepth \in Nat
  BY DEF ParenthesesInv, ParenthesesTypeOK
<1>2. scanned \in Nat /\ scanned + 1 \in 0..Len(jql) /\ jql[scanned + 1] \in Tokens
  BY <1>1
<1>3. \A token : Count(jql, scanned + 1, token) =
              Count(jql, scanned, token) + (IF jql[scanned + 1] = token THEN 1 ELSE 0)
  BY <1>2, CountOneMore, Zenon
<1>4. Count(jql, scanned, Close) \in Nat /\ Count(jql, scanned, Open) \in Nat
  BY <1>2, CountIsNat, Zenon
<1>5. /\ Opened(jql, scanned)
      /\ Count(jql, scanned, Open) = Count(jql, scanned, Close) + depth + inListDepth
  BY DEF ParenthesesInv
<1>6. Count(jql, scanned + 1, Close) <= Count(jql, scanned + 1, Open)
  <2>1. Count(jql, scanned + 1, Close) =
          Count(jql, scanned, Close) + (IF jql[scanned + 1] = Close THEN 1 ELSE 0)
    BY <1>3, Zenon
  <2>2. Count(jql, scanned + 1, Open) =
          Count(jql, scanned, Open) + (IF jql[scanned + 1] = Open THEN 1 ELSE 0)
    BY <1>3, Zenon
  <2>. QED BY <1>1, <1>4, <1>5, <2>1, <2>2, ParenthesesDiffer
<1>. QED BY <1>2, <1>3, <1>5, <1>6, OpenedOneMore, Zenon

LEMMA ParenthesesStart == ParenthesesInit => ParenthesesInv
<1>. SUFFICES ASSUME ParenthesesInit PROVE ParenthesesInv
  OBVIOUS
<1>1. /\ jql = << >> /\ result = << >> /\ scanned = 0 /\ depth = 0 /\ inListDepth = 0
      /\ fragments = 0 /\ verdict = "writing" /\ NothingScanned
  BY DEF ParenthesesInit, NothingScanned
<1>2. ParenthesesTypeOK
  BY <1>1, MaxFragmentsAssumption DEF ParenthesesTypeOK
<1>3. Opened(jql, 0) /\ Opened(result, 0)
  BY CountOfNone DEF Opened
<1>4. Len(result) = 0 /\ DOMAIN result = {}
  BY <1>1
<1>. QED BY <1>1, <1>2, <1>3, <1>4, CountOfNone DEF ParenthesesInv

-----------------------------------------------------------------------------
(* The tokens that are kept: "(" and ")" of lists, and all the others.     *)
LEMMA KeepStep ==
  ASSUME ParenthesesInv, verdict = "scanning", scanned < Len(jql), Keep,
         UNCHANGED depth,
         \/ /\ jql[scanned + 1] = Open /\ isInKeywordBefore
            /\ inListDepth' = inListDepth + 1
         \/ /\ jql[scanned + 1] = Close /\ inListDepth > 0
            /\ inListDepth' = inListDepth - 1
         \/ jql[scanned + 1] \notin {Open, Close} /\ UNCHANGED inListDepth
  PROVE  ParenthesesInv'
<1>. DEFINE x == jql[scanned + 1]
<1>1. /\ jql \in Seq(Tokens) /\ result \in Seq(Tokens) /\ scanned \in 0..Len(jql)
      /\ depth \in Nat /\ inListDepth \in Nat /\ fragments \in 0..MaxFragments
  BY DEF ParenthesesInv, ParenthesesTypeOK
<1>2. /\ scanned' = scanned + 1 /\ result' = Append(result, x)
      /\ jql' = jql /\ fragments' = fragments /\ verdict' = verdict /\ depth' = depth
  BY DEF Keep
<1>3. \/ x = Open /\ inListDepth' = inListDepth + 1
      \/ x = Close /\ inListDepth > 0 /\ inListDepth' = inListDepth - 1
      \/ x \notin {Open, Close} /\ inListDepth' = inListDepth
  OBVIOUS
<1>4. /\ scanned + 1 \in 0..Len(jql) /\ x \in Tokens
      /\ Opened(jql, scanned + 1)
      /\ \A token : Count(jql, scanned + 1, token) =
           Count(jql, scanned, token) + (IF x = token THEN 1 ELSE 0)
  <2>1. x # Close \/ depth + inListDepth > 0
    <3>. HIDE DEF x
    <3>. QED BY <1>1, <1>3, ParenthesesDiffer
  <2>. QED BY <2>1, CountScanned, Zenon
<1>5. /\ Opened(result, Len(result))
      /\ Count(result, Len(result), Open) = Count(result, Len(result), Close) + inListDepth
      /\ Count(jql, scanned, Open) = Count(jql, scanned, Close) + depth + inListDepth
      /\ \A k \in DOMAIN result : result[k] = Open => k > 1 /\ result[k - 1] = In
  BY DEF ParenthesesInv
<1>6. x = Open => isInKeywordBefore
  BY ParenthesesDiffer
<1>. HIDE DEF x
<1>7. /\ Count(result, Len(result), Open) \in Nat /\ Count(result, Len(result), Close) \in Nat
      /\ Count(jql, scanned, Open) \in Nat /\ Count(jql, scanned, Close) \in Nat
  BY <1>1, CountIsNat
<1>8. /\ Opened(result', Len(result'))
      /\ \A token : Count(result', Len(result'), token) =
           Count(result, Len(result), token) + (IF x = token THEN 1 ELSE 0)
  <2>1. x # Close \/ Count(result, Len(result), Close) < Count(result, Len(result), Open)
    BY <1>1, <1>5, <1>3, <1>7, ParenthesesDiffer
  <2>. QED BY <1>1, <1>2, <1>4, <1>5, <2>1, CountKept, Zenon
<1>9. Count(result', Len(result'), Open) = Count(result', Len(result'), Close) + inListDepth'
  <2>1. /\ Count(result', Len(result'), Open) =
             Count(result, Len(result), Open) + (IF x = Open THEN 1 ELSE 0)
        /\ Count(result', Len(result'), Close) =
             Count(result, Len(result), Close) + (IF x = Close THEN 1 ELSE 0)
    BY <1>8, Zenon
  <2>. QED BY <2>1, <1>1, <1>5, <1>3, <1>7, ParenthesesDiffer
<1>10. Count(jql, scanned + 1, Open) = Count(jql, scanned + 1, Close) + depth + inListDepth'
  <2>1. /\ Count(jql, scanned + 1, Open) =
             Count(jql, scanned, Open) + (IF x = Open THEN 1 ELSE 0)
        /\ Count(jql, scanned + 1, Close) =
             Count(jql, scanned, Close) + (IF x = Close THEN 1 ELSE 0)
    BY <1>4, Zenon
  <2>. QED BY <2>1, <1>1, <1>5, <1>3, <1>7, ParenthesesDiffer
<1>11. inListDepth' \in Nat
  BY <1>1, <1>3
<1>12. result' \in Seq(Tokens)
  BY <1>1, <1>2, <1>4
<1>13. \A k \in DOMAIN result' : result'[k] = Open => k > 1 /\ result'[k - 1] = In
  <2>. SUFFICES ASSUME NEW k \in DOMAIN result', result'[k] = Open
               PROVE  k > 1 /\ result'[k - 1] = In
    OBVIOUS
  <2>1. CASE k \in DOMAIN result
    <3>1. result'[k] = result[k] /\ k \in 1..Len(result)
      BY <1>1, <1>2, <1>4, <2>1
    <3>2. k > 1 /\ result[k - 1] = In
      BY <1>5, <2>1, <3>1, Zenon
    <3>. QED BY <1>1, <1>2, <1>4, <3>1, <3>2
  <2>2. CASE k \notin DOMAIN result
    <3>1. k = Len(result) + 1 /\ result'[k] = x
      BY <1>1, <1>2, <1>4, <2>2
    <3>2. result # << >> /\ result[Len(result)] = In
      BY <1>6, <3>1, Zenon DEF isInKeywordBefore
    <3>. QED BY <1>1, <1>2, <1>4, <3>1, <3>2
  <2>. QED BY <2>1, <2>2, Zenon
<1>14. ParenthesesTypeOK'
  <2>1. verdict' = "scanning"
    BY <1>2
  <2>. QED BY <1>1, <1>2, <1>4, <1>11, <1>12, <2>1, Zenon DEF ParenthesesTypeOK
<1>15. /\ Opened(jql', scanned')
       /\ Count(jql', scanned', Open) = Count(jql', scanned', Close) + depth' + inListDepth'
  BY <1>2, <1>4, <1>10, Zenon
<1>16. verdict' = "scanning"
  BY <1>2
<1>. QED BY <1>8, <1>9, <1>13, <1>14, <1>15, <1>16 DEF ParenthesesInv

(* The parentheses that group are left out. *)
LEMMA SkipStep ==
  ASSUME ParenthesesInv, verdict = "scanning", scanned < Len(jql), Skip,
         UNCHANGED inListDepth,
         \/ jql[scanned + 1] = Open /\ depth' = depth + 1
         \/ jql[scanned + 1] = Close /\ depth > 0 /\ depth' = depth - 1
  PROVE  ParenthesesInv'
<1>. DEFINE x == jql[scanned + 1]
<1>1. /\ jql \in Seq(Tokens) /\ result \in Seq(Tokens) /\ scanned \in 0..Len(jql)
      /\ depth \in Nat /\ inListDepth \in Nat /\ fragments \in 0..MaxFragments
  BY DEF ParenthesesInv, ParenthesesTypeOK
<1>2. /\ scanned' = scanned + 1 /\ result' = result /\ inListDepth' = inListDepth
      /\ jql' = jql /\ fragments' = fragments /\ verdict' = verdict
  BY DEF Skip
<1>3. \/ x = Open /\ depth' = depth + 1
      \/ x = Close /\ depth > 0 /\ depth' = depth - 1
  OBVIOUS
<1>4. depth' \in Nat /\ (x # Close \/ depth + inListDepth > 0)
  <2>. HIDE DEF x
  <2>. QED BY <1>1, <1>3, ParenthesesDiffer
<1>5. /\ scanned + 1 \in 0..Len(jql)
      /\ Opened(jql, scanned + 1)
      /\ \A token : Count(jql, scanned + 1, token) =
           Count(jql, scanned, token) + (IF x = token THEN 1 ELSE 0)
  BY <1>1, <1>4, CountScanned
<1>. HIDE DEF x
<1>6. Count(jql, scanned, Open) \in Nat /\ Count(jql, scanned, Close) \in Nat
  BY <1>1, CountIsNat
<1>7. Count(jql, scanned, Open) = Count(jql, scanned, Close) + depth + inListDepth
  BY DEF ParenthesesInv
<1>8. Count(jql, scanned + 1, Open) = Count(jql, scanned + 1, Close) + depth' + inListDepth
  <2>1. /\ Count(jql, scanned + 1, Open) =
             Count(jql, scanned, Open) + (IF x = Open THEN 1 ELSE 0)
        /\ Count(jql, scanned + 1, Close) =
             Count(jql, scanned, Close) + (IF x = Close THEN 1 ELSE 0)
    BY <1>5, Zenon
  <2>. QED BY <2>1, <1>1, <1>3, <1>6, <1>7, ParenthesesDiffer
<1>9. verdict' = "scanning"
  BY <1>2
<1>10. ParenthesesTypeOK'
  BY <1>1, <1>2, <1>4, <1>5, <1>9, Zenon DEF ParenthesesTypeOK
<1>11. /\ Opened(jql', scanned')
       /\ Count(jql', scanned', Open) = Count(jql', scanned', Close) + depth' + inListDepth'
  BY <1>2, <1>5, <1>8, Zenon
<1>12. /\ Opened(result', Len(result'))
       /\ Count(result', Len(result'), Open) =
            Count(result', Len(result'), Close) + inListDepth'
       /\ \A k \in DOMAIN result' : result'[k] = Open => k > 1 /\ result'[k - 1] = In
  BY <1>2, Zenon DEF ParenthesesInv
<1>. QED BY <1>9, <1>10, <1>11, <1>12 DEF ParenthesesInv

(* A query is refused at its end, or where the scanner finds the reason.   *)
LEMMA VerdictStep ==
  ASSUME ParenthesesInv, UNCHANGED <<jql, fragments, scanVars>>,
         \/ verdict' = "accepted" /\ scanned = Len(jql) /\ depth = 0
         \/ /\ verdict' = "refused"
            /\ ~Balanced(jql) \/ \E i \in DOMAIN jql : EmptyGroupAt(i)
         \/ verdict' = "scanning"
  PROVE  ParenthesesInv'
<1>1. /\ jql' = jql /\ fragments' = fragments /\ scanned' = scanned /\ result' = result
      /\ depth' = depth /\ inListDepth' = inListDepth
  BY DEF scanVars
<1>2. ParenthesesTypeOK'
  <2>1. verdict' \in {"writing", "scanning", "accepted", "refused"}
    OBVIOUS
  <2>. QED BY <1>1, <2>1, Zenon DEF ParenthesesInv, ParenthesesTypeOK
<1>3. /\ Opened(jql', scanned')
      /\ Count(jql', scanned', Open) = Count(jql', scanned', Close) + depth' + inListDepth'
      /\ Opened(result', Len(result'))
      /\ Count(result', Len(result'), Open) =
           Count(result', Len(result'), Close) + inListDepth'
      /\ \A k \in DOMAIN result' : result'[k] = Open => k > 1 /\ result'[k - 1] = In
  BY <1>1, Zenon DEF ParenthesesInv
<1>4. verdict' # "writing"
  OBVIOUS
<1>5. verdict' = "accepted" => scanned' = Len(jql') /\ depth' = 0
  BY <1>1
<1>6. (~Balanced(jql) \/ \E i \in DOMAIN jql : EmptyGroupAt(i))
        => (~Balanced(jql) \/ \E i \in DOMAIN jql : EmptyGroupAt(i))'
  BY <1>1, Zenon DEF EmptyGroupAt
<1>7. verdict' = "refused" => (~Balanced(jql) \/ \E i \in DOMAIN jql : EmptyGroupAt(i))'
  BY <1>6
<1>. QED BY <1>2, <1>3, <1>4, <1>5, <1>7, Zenon DEF ParenthesesInv

LEMMA RefusedClose ==
  ASSUME ParenthesesInv, RefuseClose
  PROVE  ~Balanced(jql)
<1>1. /\ jql \in Seq(Tokens) /\ scanned \in 0..Len(jql) /\ scanned < Len(jql)
      /\ jql[scanned + 1] = Close /\ depth = 0 /\ inListDepth = 0
  BY DEF ParenthesesInv, ParenthesesTypeOK, RefuseClose, Before
<1>2. scanned \in Nat /\ scanned + 1 \in 0..Len(jql)
  BY <1>1
<1>3. Count(jql, scanned, Open) = Count(jql, scanned, Close)
  <2>1. Count(jql, scanned, Open) = Count(jql, scanned, Close) + 0 + 0
    BY <1>1, Zenon DEF ParenthesesInv
  <2>. QED BY <2>1, <1>2, CountIsNat
<1>4. /\ Count(jql, scanned + 1, Close) = Count(jql, scanned, Close) + 1
      /\ Count(jql, scanned + 1, Open) = Count(jql, scanned, Open) + 0
  BY <1>1, <1>2, CountOneMore, ParenthesesDiffer, Zenon
<1>5. ~(Count(jql, scanned + 1, Close) <= Count(jql, scanned + 1, Open))
  BY <1>2, <1>3, <1>4, CountIsNat
<1>. QED BY <1>2, <1>5, Zenon DEF Balanced, Opened

LEMMA LeftOpen ==
  ASSUME ParenthesesInv, scanned = Len(jql), depth # 0
  PROVE  ~Balanced(jql)
<1>1. jql \in Seq(Tokens) /\ depth \in Nat /\ inListDepth \in Nat
  BY DEF ParenthesesInv, ParenthesesTypeOK
<1>2. Len(jql) \in Nat
  BY <1>1
<1>3. /\ Count(jql, Len(jql), Open) = Count(jql, Len(jql), Close) + depth + inListDepth
      /\ Count(jql, Len(jql), Close) \in Nat
  BY <1>2, CountIsNat DEF ParenthesesInv
<1>. QED BY <1>1, <1>3 DEF Balanced

LEMMA ParenthesesStep ==
  ParenthesesInv /\ [ParenthesesNext]_parenthesesVars => ParenthesesInv'
<1>. SUFFICES ASSUME ParenthesesInv, [ParenthesesNext]_parenthesesVars
             PROVE  ParenthesesInv'
  OBVIOUS
<1>1. ParenthesesTypeOK
  BY DEF ParenthesesInv
<1>2. ASSUME NEW f \in Fragments, Write(f)
      PROVE  ParenthesesInv'
  <2>1. /\ verdict = "writing" /\ NothingScanned /\ verdict' = "writing"
        /\ jql' = jql \o f /\ fragments' = fragments + 1 /\ fragments < MaxFragments
        /\ scanned' = scanned /\ result' = result
        /\ depth' = depth /\ inListDepth' = inListDepth
    BY <1>2 DEF Write, scanVars, ParenthesesInv
  <2>2. jql \in Seq(Tokens) /\ f \in Seq(Tokens) /\ fragments \in 0..MaxFragments
    BY <1>1, FragmentsAssumption DEF ParenthesesTypeOK
  <2>3. jql' \in Seq(Tokens) /\ fragments' \in 0..MaxFragments
    BY <2>1, <2>2, MaxFragmentsAssumption
  <2>4. NothingScanned'
    BY <2>1, Zenon DEF NothingScanned
  <2>5. /\ result' = << >> /\ Len(result') = 0 /\ DOMAIN result' = {}
        /\ scanned' = 0 /\ depth' = 0 /\ inListDepth' = 0
    BY <2>4 DEF NothingScanned
  <2>6. ParenthesesTypeOK'
    <3>1. 0 \in 0..Len(jql')
      BY <2>3
    <3>. QED BY <2>1, <2>3, <2>5, <3>1 DEF ParenthesesTypeOK
  <2>7. Opened(jql', scanned') /\ Opened(result', Len(result'))
    BY <2>5, CountOfNone DEF Opened
  <2>. QED BY <2>1, <2>4, <2>5, <2>6, <2>7, CountOfNone DEF ParenthesesInv
<1>3. ASSUME Search PROVE ParenthesesInv'
  BY <1>3, VerdictStep, Zenon DEF Search
<1>4. ASSUME StartOver PROVE ParenthesesInv'
  <2>1. ParenthesesInit'
    BY <1>4 DEF StartOver, ParenthesesInit, NothingScanned
  <2>2. (ParenthesesInit => ParenthesesInv)'
    BY ParenthesesStart, PTL
  <2>. QED BY <2>1, <2>2
<1>5. ASSUME OpenList \/ CloseList \/ KeepToken PROVE ParenthesesInv'
  BY <1>5, KeepStep, Zenon DEF OpenList, CloseList, KeepToken, Before
<1>6. ASSUME OpenGroup \/ CloseGroup PROVE ParenthesesInv'
  BY <1>6, SkipStep, Zenon DEF OpenGroup, CloseGroup, Before
<1>7. ASSUME RefuseEmptyGroup PROVE ParenthesesInv'
  <2>1. scanned + 1 \in DOMAIN jql
    BY <1>1, <1>7 DEF RefuseEmptyGroup, Before, ParenthesesTypeOK
  <2>. QED BY <1>7, <2>1, VerdictStep, Zenon DEF RefuseEmptyGroup, Refuse
<1>8. ASSUME RefuseClose PROVE ParenthesesInv'
  BY <1>8, RefusedClose, VerdictStep, Zenon DEF RefuseClose, Refuse
<1>9. ASSUME Finish PROVE ParenthesesInv'
  <2>1. CASE depth = 0
    BY <1>9, <2>1, VerdictStep DEF Finish, NothingLeftOpen
  <2>2. CASE depth # 0
    <3>1. ~Balanced(jql)
      BY <1>9, <2>2, LeftOpen DEF Finish
    <3>. QED BY <1>9, <2>2, <3>1, VerdictStep DEF Finish, NothingLeftOpen
  <2>. QED BY <2>1, <2>2
<1>10. ASSUME UNCHANGED parenthesesVars PROVE ParenthesesInv'
  BY <1>10 DEF parenthesesVars, scanVars, ParenthesesInv, ParenthesesTypeOK,
                NothingScanned, EmptyGroupAt
<1>. QED
  BY <1>2, <1>3, <1>4, <1>5, <1>6, <1>7, <1>8, <1>9, <1>10 DEF ParenthesesNext, Scan

(* The scanner's depths count what is open, of every query.                *)
THEOREM ParenthesesInvariant == ParenthesesSpec => []ParenthesesInv
BY ParenthesesStart, ParenthesesStep, PTL DEF ParenthesesSpec

LEMMA DepthsDecide == ParenthesesInv => ParenthesesDecide
<1>. SUFFICES ASSUME ParenthesesInv, verdict = "accepted"
             PROVE  /\ Opened(jql, Len(jql))
                    /\ Balanced(jql) <=> Balanced(result)
                    /\ \A k \in DOMAIN result : result[k] = Open => k > 1 /\ result[k - 1] = In
  BY DEF ParenthesesInv, ParenthesesDecide
<1>1. /\ jql \in Seq(Tokens) /\ result \in Seq(Tokens)
      /\ inListDepth \in Nat /\ scanned = Len(jql) /\ depth = 0
  BY DEF ParenthesesInv, ParenthesesTypeOK
<1>2. /\ Opened(jql, Len(jql)) /\ Opened(result, Len(result))
      /\ Count(jql, Len(jql), Open) = Count(jql, Len(jql), Close) + 0 + inListDepth
      /\ Count(result, Len(result), Open) = Count(result, Len(result), Close) + inListDepth
      /\ \A k \in DOMAIN result : result[k] = Open => k > 1 /\ result[k - 1] = In
  BY <1>1, Zenon DEF ParenthesesInv
<1>3. Len(jql) \in Nat /\ Len(result) \in Nat
  BY <1>1
<1>4. Count(jql, Len(jql), Close) \in Nat /\ Count(result, Len(result), Close) \in Nat
  BY <1>3, CountIsNat, Zenon
<1>5. /\ Count(jql, Len(jql), Open) = Count(jql, Len(jql), Close) <=> inListDepth = 0
      /\ Count(result, Len(result), Open) = Count(result, Len(result), Close)
           <=> inListDepth = 0
  BY <1>1, <1>2, <1>4
<1>. QED BY <1>2, <1>5, Zenon DEF Balanced

(* Of every query the scanner refuses none without a reason, accepts none  *)
(* that closes what was not open, and drops the grouping parentheses in    *)
(* pairs.                                                                  *)
THEOREM ParenthesesAreDecided == ParenthesesSpec => []ParenthesesDecide
BY ParenthesesInvariant, DepthsDecide, PTL

-----------------------------------------------------------------------------
(*                                  JQL                                    *)

(* Lists are closed and hold keys alone; positions of such lists, and      *)
(* those that the scanner passes between their parentheses.                *)
ListsAreWhole(t) ==
  \A i \in DOMAIN t : t[i] = In => \E j \in DOMAIN t : WholeList(t, i, j)
InWhole(t, k) == \E i, j \in DOMAIN t : i <= k /\ k <= j /\ WholeList(t, i, j)
Amid(t, n) == \E i, j \in DOMAIN t : i < n /\ n < j /\ WholeList(t, i, j)

(* f says of what is kept of the first n tokens where it comes from.       *)
Follows(f, t, r, n) ==
  /\ f \in [1..Len(r) -> 1..n]
  /\ \A k, m \in 1..Len(r) : k < m => f[k] < f[m]
  /\ \A k \in 1..Len(r) : r[k] = t[f[k]]
Kept(f, r, i) == \E k \in 1..Len(r) : f[k] = i

(* Every token but parentheses is kept, and of these just those of lists,  *)
(* if all lists are whole: the depth of lists is then that of one list.    *)
Keeps(f, t, r, n, d) ==
  /\ Follows(f, t, r, n)
  /\ \A i \in 1..n : t[i] \notin {Open, Close} => Kept(f, r, i)
  /\ ListsAreWhole(t) =>
       /\ \A i \in 1..n : t[i] \in {Open, Close} => (Kept(f, r, i) <=> InWhole(t, i))
       /\ d = IF Amid(t, n) THEN 1 ELSE 0

LEMMA TokenKinds ==
  /\ In.kind = "issue in" /\ Open.kind = "(" /\ Close.kind = ")"
  /\ In # Open /\ In # Close /\ Open # Close
<1>1. In.kind = "issue in" /\ Open.kind = "(" /\ Close.kind = ")"
  BY DEF In, Open, Close, Token
<1>2. "issue in" # "(" /\ "issue in" # ")" /\ "(" # ")"
  OBVIOUS
<1>. QED BY <1>1, <1>2, Zenon

(* What stands where in a whole list.                                      *)
LEMMA WholeListTokens ==
  ASSUME NEW t, NEW a \in Nat, NEW b \in Nat, WholeList(t, a, b),
         NEW i \in Nat, a <= i, i <= b
  PROVE  \/ i = a /\ t[i] = In
         \/ i = a + 1 /\ i < b /\ t[i] = Open
         \/ a + 2 <= i /\ i < b /\ t[i].kind = "key"
         \/ i = b /\ a + 2 < b /\ t[i] = Close
<1>1. /\ a + 2 < b /\ t[a] = In /\ t[a + 1] = Open /\ t[b] = Close
      /\ \A k \in (a + 2)..(b - 1) : t[k].kind = "key"
  BY DEF WholeList
<1>2. CASE i = a \/ i = a + 1 \/ i = b
  BY <1>1, <1>2
<1>3. CASE ~(i = a \/ i = a + 1 \/ i = b)
  <2>1. i \in (a + 2)..(b - 1)
    BY <1>3
  <2>. QED BY <1>1, <2>1
<1>. QED BY <1>2, <1>3

(* A parenthesis of a list is the one behind "in" or the one that ends it. *)
LEMMA ListParentheses ==
  ASSUME NEW t, NEW a \in Nat, NEW b \in Nat, WholeList(t, a, b),
         NEW i \in Nat, a <= i, i <= b
  PROVE  /\ t[i] = In => i = a
         /\ t[i] = Open => i = a + 1
         /\ t[i] = Close => i = b
         /\ t[i] \notin {Open, Close} => i # a + 1 /\ i # b
<1>1. "key" # "issue in" /\ "key" # "(" /\ "key" # ")"
  OBVIOUS
<1>2. /\ t[i] = In => t[i].kind = "issue in"
      /\ t[i] = Open => t[i].kind = "("
      /\ t[i] = Close => t[i].kind = ")"
  BY TokenKinds, Zenon
<1>3. In # Open /\ In # Close /\ Open # Close
  BY TokenKinds
<1>4. \/ i = a /\ t[i] = In
      \/ i = a + 1 /\ i < b /\ t[i] = Open
      \/ a + 2 <= i /\ i < b /\ t[i].kind = "key"
      \/ i = b /\ a + 2 < b /\ t[i] = Close
  BY WholeListTokens
<1>5. CASE i = a /\ t[i] = In
  <2>1. a # a + 1 /\ a # b
    BY DEF WholeList
  <2>. QED BY <1>3, <1>5, <2>1, Zenon
<1>6. CASE i = a + 1 /\ i < b /\ t[i] = Open
  BY <1>3, <1>6, Zenon
<1>7. CASE a + 2 <= i /\ i < b /\ t[i].kind = "key"
  <2>1. i # a + 1 /\ i # b
    BY <1>7
  <2>. QED BY <1>1, <1>2, <1>7, <2>1, Zenon
<1>8. CASE i = b /\ a + 2 < b /\ t[i] = Close
  BY <1>3, <1>8, Zenon
<1>. QED BY <1>4, <1>5, <1>6, <1>7, <1>8, Zenon

-----------------------------------------------------------------------------
(* One token more is kept, ...                                             *)
LEMMA FollowsOneMore ==
  ASSUME NEW t \in Seq(Tokens), NEW r \in Seq(Tokens), NEW n \in Nat, n < Len(t),
         NEW f, Follows(f, t, r, n)
  PROVE  LET s == Append(r, t[n + 1])
             g == [k \in 1..(Len(r) + 1) |-> IF k <= Len(r) THEN f[k] ELSE n + 1]
         IN  /\ Follows(g, t, s, n + 1)
             /\ \A i \in 1..(n + 1) : Kept(g, s, i) <=> Kept(f, r, i) \/ i = n + 1
<1>. DEFINE s == Append(r, t[n + 1])
            N == Len(r)
            g == [k \in 1..(N + 1) |-> IF k <= N THEN f[k] ELSE n + 1]
<1>1. N \in Nat /\ t[n + 1] \in Tokens
  BY DEF N
<1>2. Len(s) = N + 1 /\ s[N + 1] = t[n + 1] /\ \A k \in 1..N : s[k] = r[k]
  BY <1>1
<1>3. /\ f \in [1..N -> 1..n]
      /\ \A k, m \in 1..N : k < m => f[k] < f[m]
      /\ \A k \in 1..N : r[k] = t[f[k]]
  BY DEF Follows
<1>4. /\ DOMAIN g = 1..(N + 1)
      /\ \A k \in 1..N : k \in 1..(N + 1) /\ g[k] = f[k] /\ f[k] \in 1..n
      /\ N + 1 \in 1..(N + 1) /\ g[N + 1] = n + 1
      /\ g = [k \in 1..(N + 1) |-> g[k]]
  <2>. HIDE DEF N
  <2>. QED BY <1>1, <1>3
<1>5. \A k \in 1..(N + 1) : k \in 1..N \/ k = N + 1
  BY <1>1
<1>. HIDE DEF s, N, g
<1>6. \A k \in 1..(N + 1) : g[k] \in 1..(n + 1)
  <2>1. n + 1 \in 1..(n + 1) /\ \A i \in 1..n : i \in 1..(n + 1)
    OBVIOUS
  <2>. QED BY <1>4, <1>5, <2>1, Zenon
<1>7. g \in [1..(N + 1) -> 1..(n + 1)]
  BY <1>4, <1>6
<1>8. \A k, m \in 1..(N + 1) : k < m => g[k] < g[m]
  <2>. SUFFICES ASSUME NEW k \in 1..(N + 1), NEW m \in 1..(N + 1), k < m
               PROVE  g[k] < g[m]
    OBVIOUS
  <2>1. k \in 1..N
    BY <1>1
  <2>2. CASE m \in 1..N
    BY <1>3, <1>4, <2>1, <2>2
  <2>3. CASE m = N + 1
    <3>1. g[k] \in 1..n
      BY <1>4, <2>1, Zenon
    <3>2. \A i \in 1..n : i < n + 1
      OBVIOUS
    <3>. QED BY <1>4, <2>3, <3>1, <3>2, Zenon
  <2>. QED BY <1>5, <2>2, <2>3
<1>9. \A k \in 1..(N + 1) : s[k] = t[g[k]]
  BY <1>2, <1>3, <1>4, <1>5, Zenon
<1>10. Follows(g, t, s, n + 1)
  BY <1>2, <1>7, <1>8, <1>9, Zenon DEF Follows
<1>11. \A i \in 1..(n + 1) : Kept(g, s, i) <=> Kept(f, r, i) \/ i = n + 1
  BY <1>2, <1>4, <1>5, Zenon DEF Kept, N
<1>. QED BY <1>10, <1>11, Zenon DEF s, g, N

(* ... or one is left out.                                                 *)
LEMMA FollowsSkipping ==
  ASSUME NEW t, NEW r \in Seq(Tokens), NEW n \in Nat, NEW f, Follows(f, t, r, n)
  PROVE  Follows(f, t, r, n + 1) /\ ~Kept(f, r, n + 1)
<1>1. f \in [1..Len(r) -> 1..n]
  BY DEF Follows
<1>2. f \in [1..Len(r) -> 1..(n + 1)]
  <2>1. 1..n \subseteq 1..(n + 1)
    OBVIOUS
  <2>. QED BY <1>1, <2>1
<1>3. \A k \in 1..Len(r) : f[k] # n + 1
  BY <1>1
<1>. QED BY <1>2, <1>3, Zenon DEF Follows, Kept

(* If "in" was the last token that was kept, nothing came behind it.       *)
LEMMA InIsLast ==
  ASSUME NEW t \in Seq(Tokens), NEW r \in Seq(Tokens), NEW n \in Nat, n < Len(t),
         NEW f, NEW d, Keeps(f, t, r, n, d), ListsAreWhole(t),
         r # << >>, r[Len(r)] = In
  PROVE  n \in DOMAIN t /\ t[n] = In
<1>. DEFINE q == f[Len(r)]
<1>1. Len(r) \in Nat /\ Len(r) \in 1..Len(r)
  OBVIOUS
<1>2. q \in 1..n /\ t[q] = In
  BY <1>1 DEF Keeps, Follows
<1>3. q \in DOMAIN t /\ q \in Nat
  BY <1>2
<1>. HIDE DEF q
<1>4. PICK b \in DOMAIN t : WholeList(t, q, b)
  BY <1>2, <1>3, Zenon DEF ListsAreWhole
<1>5. t[q + 1] = Open /\ q + 2 < b /\ b \in Nat
  BY <1>4 DEF WholeList
<1>6. CASE q < n
  <2>1. q + 1 \in 1..n
    BY <1>3, <1>6
  <2>2. InWhole(t, q + 1)
    <3>1. q <= q + 1 /\ q + 1 <= b
      BY <1>3, <1>5
    <3>. QED BY <1>3, <1>4, <3>1, Zenon DEF InWhole
  <2>3. Kept(f, r, q + 1)
    BY <1>5, <2>1, <2>2, Zenon DEF Keeps
  <2>4. PICK k \in 1..Len(r) : f[k] = q + 1
    BY <2>3 DEF Kept
  <2>5. k = Len(r) \/ f[k] < q
    BY <1>1 DEF Keeps, Follows, q
  <2>. QED BY <1>3, <2>4, <2>5 DEF q
<1>7. CASE q = n
  BY <1>2, <1>3, <1>7
<1>. QED BY <1>2, <1>6, <1>7

-----------------------------------------------------------------------------
LEMMA KeepsOneMore ==
  ASSUME NEW t \in Seq(Tokens), NEW r \in Seq(Tokens), NEW n \in Nat, n < Len(t),
         NEW d \in Nat, NEW e \in Nat, NEW f, Keeps(f, t, r, n, d),
         \/ t[n + 1] = Open /\ r # << >> /\ r[Len(r)] = In /\ e = d + 1
         \/ t[n + 1] = Close /\ d > 0 /\ e = d - 1
         \/ t[n + 1] \notin {Open, Close} /\ e = d
  PROVE  \E g : Keeps(g, t, Append(r, t[n + 1]), n + 1, e)
<1>. DEFINE s == Append(r, t[n + 1])
            g == [k \in 1..(Len(r) + 1) |-> IF k <= Len(r) THEN f[k] ELSE n + 1]
<1>1. /\ Follows(f, t, r, n)
      /\ \A i \in 1..n : t[i] \notin {Open, Close} => Kept(f, r, i)
  BY DEF Keeps
<1>2. /\ Follows(g, t, s, n + 1)
      /\ \A i \in 1..(n + 1) : Kept(g, s, i) <=> Kept(f, r, i) \/ i = n + 1
  BY <1>1, FollowsOneMore, Zenon
<1>. HIDE DEF s, g
<1>3. \A i \in 1..(n + 1) : i \in 1..n \/ i = n + 1
  OBVIOUS
<1>4. \A i \in 1..(n + 1) : t[i] \notin {Open, Close} => Kept(g, s, i)
  BY <1>1, <1>2, <1>3, Zenon
<1>5. ASSUME ListsAreWhole(t)
      PROVE  /\ \A i \in 1..(n + 1) :
                  t[i] \in {Open, Close} => (Kept(g, s, i) <=> InWhole(t, i))
             /\ e = IF Amid(t, n + 1) THEN 1 ELSE 0
  <2>1. /\ \A i \in 1..n : t[i] \in {Open, Close} => (Kept(f, r, i) <=> InWhole(t, i))
        /\ d = IF Amid(t, n) THEN 1 ELSE 0
    BY <1>5 DEF Keeps
  <2>2. n + 1 \in DOMAIN t /\ DOMAIN t \subseteq Nat
    OBVIOUS
  <2>3. \A a, b \in DOMAIN t : WholeList(t, a, b) /\ a <= n + 1 /\ n + 1 <= b =>
          /\ t[n + 1] = In => n + 1 = a
          /\ t[n + 1] = Open => n + 1 = a + 1
          /\ t[n + 1] = Close => n + 1 = b
          /\ t[n + 1] \notin {Open, Close} => n + 1 # a + 1 /\ n + 1 # b
    BY <2>2, ListParentheses
  <2>4. CASE t[n + 1] = Open /\ r # << >> /\ r[Len(r)] = In /\ e = d + 1
    <3>1. n \in DOMAIN t /\ t[n] = In
      BY <1>5, <2>4, InIsLast
    <3>2. PICK b \in DOMAIN t : WholeList(t, n, b)
      BY <1>5, <3>1 DEF ListsAreWhole
    <3>3. n + 2 < b /\ b \in Nat
      BY <3>2 DEF WholeList
    <3>4. InWhole(t, n + 1)
      <4>1. n <= n + 1 /\ n + 1 <= b
        BY <3>3
      <4>. QED BY <3>1, <3>2, <4>1, Zenon DEF InWhole
    <3>5. Amid(t, n + 1)
      <4>1. n < n + 1 /\ n + 1 < b
        BY <3>3
      <4>. QED BY <3>1, <3>2, <4>1, Zenon DEF Amid
    <3>6. ~Amid(t, n)
      <4>1. \A a, c \in DOMAIN t : WholeList(t, a, c) /\ a <= n /\ n <= c => n = a
        BY <2>2, <3>1, ListParentheses
      <4>. QED BY <2>2, <4>1 DEF Amid
    <3>7. \A i \in 1..(n + 1) :
            t[i] \in {Open, Close} => (Kept(g, s, i) <=> InWhole(t, i))
      BY <1>2, <1>3, <2>1, <3>4, Zenon
    <3>8. e = 1
      BY <2>1, <2>4, <3>6
    <3>. QED BY <3>5, <3>7, <3>8, Zenon
  <2>5. CASE t[n + 1] = Close /\ d > 0 /\ e = d - 1
    <3>1. Amid(t, n) /\ e = 0
      BY <2>1, <2>5
    <3>2. PICK a, b \in DOMAIN t : a < n /\ n < b /\ WholeList(t, a, b)
      BY <3>1 DEF Amid
    <3>3. a <= n + 1 /\ n + 1 <= b
      BY <2>2, <3>2
    <3>4. InWhole(t, n + 1)
      BY <3>2, <3>3, Zenon DEF InWhole
    <3>5. ~Amid(t, n + 1)
      BY <2>2, <2>3, <2>5 DEF Amid
    <3>6. \A i \in 1..(n + 1) :
            t[i] \in {Open, Close} => (Kept(g, s, i) <=> InWhole(t, i))
      BY <1>2, <1>3, <2>1, <3>4, Zenon
    <3>. QED BY <3>1, <3>5, <3>6, Zenon
  <2>6. CASE t[n + 1] \notin {Open, Close} /\ e = d
    <3>1. \A a, b \in DOMAIN t : WholeList(t, a, b) =>
            (a < n /\ n < b <=> a < n + 1 /\ n + 1 < b /\ a # n)
      BY <2>2, <2>3, <2>6
    <3>2. \A b \in DOMAIN t : WholeList(t, n, b) => FALSE
      <4>. SUFFICES ASSUME NEW b \in DOMAIN t, WholeList(t, n, b) PROVE FALSE
        OBVIOUS
      <4>1. t[n + 1] = Open
        BY DEF WholeList
      <4>. QED BY <2>6, <4>1
    <3>3. Amid(t, n) <=> Amid(t, n + 1)
      BY <3>1, <3>2, Zenon DEF Amid
    <3>4. \A i \in 1..(n + 1) :
            t[i] \in {Open, Close} => (Kept(g, s, i) <=> InWhole(t, i))
      BY <1>2, <1>3, <2>1, <2>6, Zenon
    <3>. QED BY <2>1, <2>6, <3>3, <3>4, Zenon
  <2>. QED BY <2>4, <2>5, <2>6
<1>6. Keeps(g, t, s, n + 1, e)
  BY <1>2, <1>4, <1>5, Zenon DEF Keeps
<1>. QED BY <1>6, Zenon DEF s

LEMMA KeepsSkipping ==
  ASSUME NEW t \in Seq(Tokens), NEW r \in Seq(Tokens), NEW n \in Nat, n < Len(t),
         NEW d \in Nat, NEW f, Keeps(f, t, r, n, d),
         \/ t[n + 1] = Open /\ ~(r # << >> /\ r[Len(r)] = In)
         \/ t[n + 1] = Close /\ d = 0
  PROVE  Keeps(f, t, r, n + 1, d)
<1>1. Follows(f, t, r, n)
  BY DEF Keeps
<1>2. Follows(f, t, r, n + 1) /\ ~Kept(f, r, n + 1)
  BY <1>1, FollowsSkipping, Zenon
<1>3. \A i \in 1..(n + 1) : i \in 1..n \/ i = n + 1
  OBVIOUS
<1>4. t[n + 1] \in {Open, Close}
  OBVIOUS
<1>5. \A i \in 1..(n + 1) : t[i] \notin {Open, Close} => Kept(f, r, i)
  BY <1>3, <1>4, Zenon DEF Keeps
<1>6. ASSUME ListsAreWhole(t)
      PROVE  /\ \A i \in 1..(n + 1) :
                  t[i] \in {Open, Close} => (Kept(f, r, i) <=> InWhole(t, i))
             /\ d = IF Amid(t, n + 1) THEN 1 ELSE 0
  <2>1. /\ \A i \in 1..n : t[i] \in {Open, Close} => (Kept(f, r, i) <=> InWhole(t, i))
        /\ d = IF Amid(t, n) THEN 1 ELSE 0
    BY <1>6 DEF Keeps
  <2>2. n + 1 \in DOMAIN t /\ DOMAIN t \subseteq Nat
    OBVIOUS
  <2>3. ASSUME NEW a \in DOMAIN t, NEW b \in DOMAIN t, WholeList(t, a, b),
               a <= n + 1, n + 1 <= b
        PROVE  FALSE
    <3>0. a \in Nat /\ b \in Nat
      BY <2>2
    <3>1. /\ t[n + 1] = Open => n + 1 = a + 1
          /\ t[n + 1] = Close => n + 1 = b
      BY <2>3, <3>0, ListParentheses
    <3>2. a + 2 < b /\ t[a] = In
      BY <2>3 DEF WholeList
    <3>3. CASE t[n + 1] = Open /\ ~(r # << >> /\ r[Len(r)] = In)
      <4>1. a = n /\ n \in 1..n
        BY <2>2, <3>0, <3>1, <3>3
      <4>2. In \notin {Open, Close}
        BY TokenKinds
      <4>3. PICK k \in 1..Len(r) : f[k] = n
        BY <3>2, <4>1, <4>2, Zenon DEF Keeps, Kept
      <4>4. Len(r) \in Nat /\ Len(r) \in 1..Len(r)
        OBVIOUS
      <4>5. k = Len(r)
        <5>1. k \in Nat /\ k <= Len(r)
          BY <4>4
        <5>2. CASE k < Len(r)
          <6>1. f[k] < f[Len(r)] /\ f[Len(r)] \in 1..n
            BY <1>1, <4>4, <5>2 DEF Follows
          <6>. QED BY <4>3, <6>1
        <5>. QED BY <4>4, <5>1, <5>2
      <4>6. r[k] = In
        BY <1>1, <3>2, <4>1, <4>3, Zenon DEF Follows
      <4>7. r # << >>
        BY <4>4
      <4>. QED BY <3>3, <4>5, <4>6, <4>7, Zenon
    <3>4. CASE t[n + 1] = Close /\ d = 0
      <4>1. a < n /\ n < b
        BY <3>0, <3>1, <3>2, <3>4
      <4>2. Amid(t, n)
        BY <2>3, <4>1, Zenon DEF Amid
      <4>. QED BY <2>1, <3>4, <4>2
    <3>. QED BY <3>3, <3>4
  <2>4. ~InWhole(t, n + 1)
    BY <2>3, Zenon DEF InWhole
  <2>5. ~Amid(t, n + 1) /\ ~Amid(t, n)
    <3>1. \A a, b \in DOMAIN t : a < n /\ n < b => a <= n + 1 /\ n + 1 <= b
      BY <2>2
    <3>2. \A a, b \in DOMAIN t : a < n + 1 /\ n + 1 < b => a <= n + 1 /\ n + 1 <= b
      BY <2>2
    <3>. QED BY <2>3, <3>1, <3>2, Zenon DEF Amid
  <2>6. \A i \in 1..(n + 1) :
          t[i] \in {Open, Close} => (Kept(f, r, i) <=> InWhole(t, i))
    BY <1>2, <1>3, <2>1, <2>4, Zenon
  <2>. QED BY <2>1, <2>5, <2>6, Zenon
<1>. QED BY <1>2, <1>5, <1>6, Zenon DEF Keeps

-----------------------------------------------------------------------------
(* Every clause of a project has its value; what the scanner has kept is   *)
(* what Keeps says.                                                        *)
ProjectsAreNamed ==
  \A k \in DOMAIN jql : jql[k].kind \in {"project", "filter"} => jql[k].value # Absent
ScanInv ==
  /\ ParenthesesInv
  /\ ProjectsAreNamed
  /\ \E f : Keeps(f, jql, result, scanned, inListDepth)

LEMMA NothingIsKept ==
  ASSUME NEW t \in Seq(Tokens), NEW n, NEW r, NEW d, n = 0, r = << >>, d = 0
  PROVE  \E f : Keeps(f, t, r, n, d)
<1>1. Len(r) = 0 /\ 1..0 = {}
  OBVIOUS
<1>. DEFINE f == [k \in 1..0 |-> 0]
<1>2. f \in [1..0 -> 1..0] /\ \A k \in 1..0 : FALSE
  BY <1>1
<1>3. ~Amid(t, 0)
  <2>1. DOMAIN t \subseteq Nat
    OBVIOUS
  <2>. QED BY <2>1 DEF Amid
<1>. HIDE DEF f
<1>4. Follows(f, t, r, 0)
  BY <1>1, <1>2 DEF Follows
<1>5. Keeps(f, t, r, 0, 0)
  BY <1>2, <1>3, <1>4, Zenon DEF Keeps
<1>. QED BY <1>5, Zenon

LEMMA ScanStart == ParenthesesInit => ScanInv
<1>. SUFFICES ASSUME ParenthesesInit PROVE ScanInv
  OBVIOUS
<1>1. ParenthesesInv
  BY ParenthesesStart
<1>2. /\ jql = << >> /\ result = << >> /\ scanned = 0 /\ inListDepth = 0
      /\ jql \in Seq(Tokens)
  BY DEF ParenthesesInit, NothingScanned
<1>3. ProjectsAreNamed
  BY <1>2 DEF ProjectsAreNamed
<1>4. \E f : Keeps(f, jql, result, scanned, inListDepth)
  BY <1>2, NothingIsKept, Zenon
<1>. QED BY <1>1, <1>3, <1>4 DEF ScanInv

LEMMA ScanStep ==
  ScanInv /\ [ParenthesesNext]_parenthesesVars => ScanInv'
<1>. SUFFICES ASSUME ScanInv, [ParenthesesNext]_parenthesesVars PROVE ScanInv'
  OBVIOUS
<1>1. ParenthesesInv /\ ParenthesesInv'
  BY ParenthesesStep DEF ScanInv
<1>2. /\ jql \in Seq(Tokens) /\ result \in Seq(Tokens) /\ scanned \in 0..Len(jql)
      /\ scanned \in Nat /\ inListDepth \in Nat
  BY <1>1 DEF ParenthesesInv, ParenthesesTypeOK
<1>3. inListDepth' \in Nat
  BY <1>1 DEF ParenthesesInv, ParenthesesTypeOK
<1>4. PICK f : Keeps(f, jql, result, scanned, inListDepth)
  BY DEF ScanInv
<1>5. jql' = jql => ProjectsAreNamed'
  BY Zenon DEF ScanInv, ProjectsAreNamed
<1>6. ASSUME NEW w \in Fragments, Write(w)
      PROVE  ScanInv'
  <2>1. /\ NothingScanned /\ jql' = jql \o w
        /\ scanned' = scanned /\ result' = result /\ inListDepth' = inListDepth
    BY <1>1, <1>6 DEF Write, scanVars, ParenthesesInv
  <2>2. w \in Seq(Tokens)
    BY FragmentsAssumption
  <2>3. ProjectsAreNamed'
    <3>. SUFFICES ASSUME NEW k \in DOMAIN jql', jql'[k].kind \in {"project", "filter"}
                 PROVE  jql'[k].value # Absent
      BY DEF ProjectsAreNamed
    <3>1. CASE k \in DOMAIN jql
      <4>1. jql'[k] = jql[k]
        BY <1>2, <2>1, <2>2, <3>1
      <4>. QED BY <3>1, <4>1, Zenon DEF ScanInv, ProjectsAreNamed
    <3>2. CASE k \notin DOMAIN jql
      <4>1. k - Len(jql) \in DOMAIN w /\ jql'[k] = w[k - Len(jql)]
        BY <1>2, <2>1, <2>2, <3>2
      <4>. QED BY <4>1, ProjectsAssumption, Zenon
    <3>. QED BY <3>1, <3>2
  <2>4. jql' \in Seq(Tokens) /\ scanned' = 0 /\ result' = << >> /\ inListDepth' = 0
    BY <1>2, <2>1, <2>2 DEF NothingScanned
  <2>5. \E g : Keeps(g, jql', result', scanned', inListDepth')
    BY <2>4, NothingIsKept, Zenon
  <2>. QED BY <1>1, <2>3, <2>5 DEF ScanInv
<1>7. ASSUME StartOver PROVE ScanInv'
  <2>1. ParenthesesInit'
    BY <1>7 DEF StartOver, ParenthesesInit, NothingScanned
  <2>2. (ParenthesesInit => ScanInv)'
    BY ScanStart, PTL
  <2>. QED BY <2>1, <2>2
<1>8. ASSUME OpenList \/ CloseList \/ KeepToken PROVE ScanInv'
  <2>1. /\ scanned < Len(jql) /\ jql' = jql /\ scanned' = scanned + 1
        /\ result' = Append(result, jql[scanned + 1])
    BY <1>8 DEF OpenList, CloseList, KeepToken, Before, Keep
  <2>2. \/ /\ jql[scanned + 1] = Open /\ result # << >> /\ result[Len(result)] = In
           /\ inListDepth' = inListDepth + 1
        \/ jql[scanned + 1] = Close /\ inListDepth > 0 /\ inListDepth' = inListDepth - 1
        \/ jql[scanned + 1] \notin {Open, Close} /\ inListDepth' = inListDepth
    BY <1>8, Zenon DEF OpenList, CloseList, KeepToken, Before, isInKeywordBefore
  <2>3. \E g : Keeps(g, jql, Append(result, jql[scanned + 1]), scanned + 1, inListDepth')
    BY <1>2, <1>3, <1>4, <2>1, <2>2, KeepsOneMore, Zenon
  <2>. QED BY <1>1, <1>5, <2>1, <2>3, Zenon DEF ScanInv
<1>9. ASSUME OpenGroup \/ CloseGroup PROVE ScanInv'
  <2>1. /\ scanned < Len(jql) /\ jql' = jql /\ scanned' = scanned + 1
        /\ result' = result /\ inListDepth' = inListDepth
    BY <1>9 DEF OpenGroup, CloseGroup, Before, Skip
  <2>2. \/ jql[scanned + 1] = Open /\ ~(result # << >> /\ result[Len(result)] = In)
        \/ jql[scanned + 1] = Close /\ inListDepth = 0
    BY <1>9, Zenon DEF OpenGroup, CloseGroup, Before, isInKeywordBefore
  <2>3. Keeps(f, jql, result, scanned + 1, inListDepth)
    BY <1>2, <1>4, <2>1, <2>2, KeepsSkipping, Zenon
  <2>. QED BY <1>1, <1>5, <2>1, <2>3, Zenon DEF ScanInv
<1>10. ASSUME Search \/ RefuseEmptyGroup \/ RefuseClose \/ Finish
              \/ UNCHANGED parenthesesVars
       PROVE  ScanInv'
  <2>1. /\ jql' = jql /\ scanned' = scanned
        /\ result' = result /\ inListDepth' = inListDepth
    BY <1>10 DEF Search, RefuseEmptyGroup, RefuseClose, Refuse, Finish, scanVars,
                 parenthesesVars
  <2>. QED BY <1>1, <1>4, <1>5, <2>1, Zenon DEF ScanInv
<1>. QED BY <1>6, <1>7, <1>8, <1>9, <1>10, Zenon DEF ParenthesesNext, Scan

(* Of every query the scanner keeps, in its order, every token that is no  *)
(* parenthesis, and if its lists are closed and hold keys alone, of the    *)
(* parentheses those of its lists.                                         *)
THEOREM QueriesAreKept == ParenthesesSpec => []ScanInv
BY ScanStart, ScanStep, PTL DEF ParenthesesSpec

-----------------------------------------------------------------------------
(* Which kinds a token that is one of these is not of.                     *)
LEMMA OtherKinds ==
  ASSUME NEW x
  PROVE  /\ x = In => x.kind \notin ClauseKinds /\ x.kind \notin {"key", "order by"}
         /\ x \in {Open, Close} =>
              x.kind \notin ClauseKinds /\ x.kind \notin {"key", "order by", "issue in"}
         /\ x \in Connectors =>
              x.kind \notin ClauseKinds /\ x.kind \notin {"key", "order by", "issue in"}
         /\ x \in Connectors => x # In /\ x # Open /\ x # Close
         /\ x.kind = "key" => x.kind \notin ClauseKinds
         /\ x.kind = "order by" => x.kind \notin ClauseKinds
<1>1. In.kind = "issue in" /\ Open.kind = "(" /\ Close.kind = ")"
  BY TokenKinds
<1>2. Token("and", 0).kind = "and" /\ Token("or", 0).kind = "or"
  BY DEF Token
<1>3. x \in Connectors => x.kind \in {"and", "or"}
  BY <1>2, Zenon DEF Connectors
<1>4. x \in {Open, Close} => x.kind \in {"(", ")"}
  BY <1>1, Zenon
<1>5. x = In => x.kind = "issue in"
  BY <1>1, Zenon
<1>6. x.kind \in {"and", "or"} =>
        x.kind # "issue in" /\ x.kind # "(" /\ x.kind # ")"
  OBVIOUS
<1>7. x \in Connectors => x # In /\ x # Open /\ x # Close
  BY <1>1, <1>3, <1>6, Zenon
<1>. DEFINE y == x.kind
<1>8. /\ y = "issue in" => y \notin ClauseKinds /\ y \notin {"key", "order by"}
      /\ y \in {"(", ")"} => y \notin ClauseKinds /\ y \notin {"key", "order by", "issue in"}
      /\ y \in {"and", "or"} =>
           y \notin ClauseKinds /\ y \notin {"key", "order by", "issue in"}
      /\ y = "key" => y \notin ClauseKinds
      /\ y = "order by" => y \notin ClauseKinds
  <2>. HIDE DEF y
  <2>. QED BY DEF ClauseKinds
<1>. QED BY <1>3, <1>4, <1>5, <1>7, <1>8, Zenon DEF y

(* The kinds of the tokens of a whole list.                                *)
LEMMA ListKinds ==
  ASSUME NEW t \in Seq(Tokens), NEW k \in DOMAIN t, InWhole(t, k)
  PROVE  t[k].kind \notin ClauseKinds /\ t[k].kind # "order by" /\ t[k] \notin Connectors
<1>1. PICK a, b \in DOMAIN t : a <= k /\ k <= b /\ WholeList(t, a, b)
  BY DEF InWhole
<1>2. a \in Nat /\ b \in Nat /\ k \in Nat
  OBVIOUS
<1>3. t[k] = In \/ t[k] \in {Open, Close} \/ t[k].kind = "key"
  BY <1>1, <1>2, WholeListTokens
<1>4. t[k].kind = "key" => t[k].kind # "order by"
  OBVIOUS
<1>. QED BY <1>3, <1>4, OtherKinds, Zenon

LEMMA InsideIsInWhole ==
  ASSUME NEW t \in Seq(Tokens), NEW k \in DOMAIN t
  PROVE  /\ Inside(t, k) => InWhole(t, k)
         /\ t[k] = In => ~Inside(t, k)
         /\ Inside(t, k) /\ t[k] = Close /\ k - 1 \in DOMAIN t => t[k - 1].kind = "key"
<1>1. DOMAIN t \subseteq Nat
  OBVIOUS
<1>2. \A a, b \in DOMAIN t : a < k => a <= k
  BY <1>1
<1>3. Inside(t, k) => InWhole(t, k)
  BY <1>2, Zenon DEF Inside, InWhole
<1>4. ASSUME NEW a \in DOMAIN t, NEW b \in DOMAIN t, a < k, k <= b, WholeList(t, a, b)
      PROVE  /\ t[k] # In
             /\ t[k] = Close /\ k - 1 \in DOMAIN t => t[k - 1].kind = "key"
  <2>1. a \in Nat /\ b \in Nat /\ k \in Nat /\ a <= k
    BY <1>1, <1>4
  <2>2. (t[k] = In => k = a) /\ (t[k] = Close => k = b)
    BY <1>4, <2>1, ListParentheses
  <2>3. a # k
    BY <1>4, <2>1
  <2>4. b - 1 \in (a + 2)..(b - 1) /\ \A q \in (a + 2)..(b - 1) : t[q].kind = "key"
    BY <1>4, <2>1 DEF WholeList
  <2>. QED BY <2>2, <2>3, <2>4, Zenon
<1>. QED BY <1>3, <1>4, Zenon DEF Inside

(* The lists of a query of supported clauses are whole; and what else      *)
(* stands where.                                                           *)
LEMMA QueryTokens ==
  ASSUME NEW t \in Seq(Tokens), IsQuery(t)
  PROVE  /\ ListsAreWhole(t)
         /\ \A k \in DOMAIN t :
              \/ t[k].kind \in ClauseKinds \/ t[k] \in Connectors \/ t[k] \in {Open, Close}
              \/ InWhole(t, k)
              \/ k = Len(t) /\ t[k].kind = "order by"
<1>1. ASSUME NEW k \in DOMAIN t, ~Inside(t, k)
      PROVE  Operand(t, k) \/ t[k] \in Connectors \cup {Open, Close}
               \/ (k = Len(t) /\ t[k].kind = "order by")
  BY <1>1, Zenon DEF IsQuery
<1>2. ListsAreWhole(t)
  <2>. SUFFICES ASSUME NEW i \in DOMAIN t, t[i] = In
               PROVE  \E j \in DOMAIN t : WholeList(t, i, j)
    BY DEF ListsAreWhole
  <2>1. ~Inside(t, i)
    BY InsideIsInWhole, Zenon
  <2>2. /\ t[i].kind \notin ClauseKinds /\ t[i].kind # "order by"
        /\ t[i] \notin Connectors /\ t[i] # Open /\ t[i] # Close
    BY OtherKinds, TokenKinds, Zenon
  <2>. QED BY <1>1, <2>1, <2>2, Zenon DEF Operand
<1>3. ASSUME NEW k \in DOMAIN t, NEW j \in DOMAIN t, WholeList(t, k, j)
      PROVE  InWhole(t, k)
  <2>1. k <= k /\ k <= j
    BY <1>3 DEF WholeList
  <2>. QED BY <1>3, <2>1, Zenon DEF InWhole
<1>4. ASSUME NEW k \in DOMAIN t
      PROVE  \/ t[k].kind \in ClauseKinds \/ t[k] \in Connectors \/ t[k] \in {Open, Close}
             \/ InWhole(t, k)
             \/ k = Len(t) /\ t[k].kind = "order by"
  BY <1>1, <1>3, InsideIsInWhole, Zenon DEF Operand
<1>. QED BY <1>2, <1>4, Zenon

(* No group is empty in such a query.                                      *)
LEMMA QueryGroups ==
  ASSUME jql \in Seq(Tokens), IsQuery(jql), NEW i \in DOMAIN jql
  PROVE  ~EmptyGroupAt(i)
<1>. SUFFICES ASSUME EmptyGroupAt(i) PROVE FALSE
  OBVIOUS
<1>1. /\ i + 1 \in DOMAIN jql /\ (i + 1) - 1 = i /\ i + 1 # 1
      /\ jql[i] = Open /\ jql[i + 1] = Close
  BY DEF EmptyGroupAt
<1>2. jql[i].kind # "key"
  BY <1>1, OtherKinds, Zenon
<1>3. ~Inside(jql, i + 1)
  BY <1>1, <1>2, InsideIsInWhole, Zenon
<1>4. Operand(jql, i + 1) \/ jql[i + 1] = Open
  BY <1>1, <1>3, Zenon DEF IsQuery
<1>5. jql[i + 1].kind \notin ClauseKinds /\ jql[i + 1] # In /\ jql[i + 1] # Open
  BY <1>1, OtherKinds, TokenKinds, Zenon
<1>. QED BY <1>4, <1>5, Zenon DEF Operand, WholeList

-----------------------------------------------------------------------------
(* What is left of a query t when ORDER BY is taken off, s, and where it   *)
(* comes from, g.                                                          *)
Survives(t, i) ==
  t[i].kind # "order by" /\ (t[i] \in {Open, Close} => InWhole(t, i))
AreLeft(g, t, s) ==
  Follows(g, t, s, Len(t)) /\ \A i \in DOMAIN t : Kept(g, s, i) <=> Survives(t, i)

LEMMA SequenceOfTokens ==
  ASSUME NEW r \in Seq(Tokens)
  PROVE  /\ Len(r) \in Nat /\ DOMAIN r = 1..Len(r)
         /\ \A k \in 1..Len(r) : k \in Nat /\ k <= Len(r) /\ r[k] \in Tokens
         /\ r # << >> => Len(r) \in 1..Len(r)
         /\ Len(r) \in 1..Len(r) => r # << >>
<1>1. Len(r) \in Nat /\ DOMAIN r = 1..Len(r)
  BY LenProperties, Zenon
<1>2. \A k \in 1..Len(r) : r[k] \in Tokens
  BY ElementOfSeq, Zenon
<1>3. r # << >> => Len(r) \in Nat \ {0}
  BY EmptySeq, Zenon
<1>4. Len(<< >>) = 0
  BY EmptySeq, Zenon
<1>. QED BY <1>1, <1>2, <1>3, <1>4

LEMMA WithinInterval ==
  ASSUME NEW n \in Nat, NEW k \in 1..n
  PROVE  k \in Nat /\ k <= n /\ ~(n < k) /\ n \in 1..n /\ (k = n \/ k < n) /\ ~(n <= n - 1)
OBVIOUS

LEMMA FrontOfTokens ==
  ASSUME NEW r \in Seq(Tokens), NEW n \in Nat, n <= Len(r)
  PROVE  /\ SubSeq(r, 1, n) \in Seq(Tokens) /\ Len(SubSeq(r, 1, n)) = n
         /\ \A k \in 1..n : SubSeq(r, 1, n)[k] = r[k]
OBVIOUS

LEMMA RestIsPrefix ==
  ASSUME NEW r \in Seq(Tokens)
  PROVE  /\ Rest(r) \in Seq(Tokens) /\ Len(Rest(r)) \in Nat /\ Len(Rest(r)) <= Len(r)
         /\ \A k \in 1..Len(Rest(r)) : k \in 1..Len(r) /\ Rest(r)[k] = r[k]
         /\ \A k \in 1..Len(r) :
              k \in 1..Len(Rest(r)) \/ (OrderLast(r) /\ k = Len(r) /\ r[k].kind = "order by")
         /\ OrderLast(r) => Len(Rest(r)) = Len(r) - 1
<1>1. CASE OrderLast(r)
  <2>1. Rest(r) = SubSeq(r, 1, Len(r) - 1) /\ r # << >> /\ r[Len(r)].kind = "order by"
    BY <1>1 DEF Rest, OrderLast
  <2>2. Len(r) \in Nat /\ Len(r) # 0 /\ \A k \in 1..Len(r) : r[k] \in Tokens
    <3>1. Len(r) \in Nat /\ Len(r) \in 1..Len(r) /\ \A k \in 1..Len(r) : r[k] \in Tokens
      BY <2>1, SequenceOfTokens, Zenon
    <3>2. Len(r) # 0
      BY <3>1
    <3>. QED BY <3>1, <3>2, Zenon
  <2>3. Len(r) - 1 \in Nat /\ 1..(Len(r) - 1) \subseteq 1..Len(r)
    BY <2>2
  <2>4. /\ Rest(r) \in Seq(Tokens) /\ Len(Rest(r)) = Len(r) - 1
        /\ \A k \in 1..(Len(r) - 1) : Rest(r)[k] = r[k]
    <3>1. Len(r) - 1 <= Len(r)
      BY <2>2
    <3>. QED BY <2>1, <2>3, <3>1, FrontOfTokens, Zenon
  <2>5. \A k \in 1..Len(r) : k \in 1..(Len(r) - 1) \/ k = Len(r)
    BY <2>2
  <2>6. Len(r) - 1 <= Len(r)
    BY <2>2
  <2>. QED BY <1>1, <2>1, <2>3, <2>4, <2>5, <2>6, Zenon
<1>2. CASE ~OrderLast(r)
  <2>1. Rest(r) = r
    BY <1>2 DEF Rest
  <2>2. Len(r) \in Nat /\ Len(r) <= Len(r)
    BY SequenceOfTokens
  <2>. QED BY <1>2, <2>1, <2>2, Zenon
<1>. QED BY <1>1, <1>2

LEMMA QueryIsLeft ==
  ASSUME NEW t \in Seq(Tokens), NEW r \in Seq(Tokens), NEW d, NEW f, IsQuery(t),
         Keeps(f, t, r, Len(t), d)
  PROVE  \E g : AreLeft(g, t, Rest(r))
<1>. DEFINE s == Rest(r)
            n == Len(t)
            g == [k \in 1..Len(s) |-> f[k]]
<1>1. /\ s \in Seq(Tokens) /\ Len(s) \in Nat /\ Len(s) <= Len(r)
      /\ \A k \in 1..Len(s) : k \in 1..Len(r) /\ s[k] = r[k]
      /\ \A k \in 1..Len(r) :
           k \in 1..Len(s) \/ (OrderLast(r) /\ k = Len(r) /\ r[k].kind = "order by")
      /\ OrderLast(r) => Len(s) = Len(r) - 1
  BY RestIsPrefix
<1>2. /\ f \in [1..Len(r) -> 1..n]
      /\ \A k, m \in 1..Len(r) : k < m => f[k] < f[m]
      /\ \A k \in 1..Len(r) : r[k] = t[f[k]]
      /\ \A i \in 1..n : t[i] \notin {Open, Close} => Kept(f, r, i)
  BY Zenon DEF Keeps, Follows
<1>3. /\ \A i \in 1..n : t[i] \in {Open, Close} => (Kept(f, r, i) <=> InWhole(t, i))
      /\ \A k \in 1..n :
           \/ t[k].kind \in ClauseKinds \/ t[k] \in Connectors \/ t[k] \in {Open, Close}
           \/ InWhole(t, k)
           \/ k = n /\ t[k].kind = "order by"
  <2>1. 1..n = DOMAIN t
    OBVIOUS
  <2>. QED BY <2>1, QueryTokens, Zenon DEF Keeps
<1>4. 1..n = DOMAIN t
  BY SequenceOfTokens, Zenon
<1>12. Len(r) \in Nat /\ n \in Nat
  BY SequenceOfTokens, Zenon
<1>0. r # << >> <=> Len(r) \in 1..Len(r)
  BY SequenceOfTokens
<1>. HIDE DEF s, n
<1>5. /\ g \in [1..Len(s) -> 1..n] /\ \A k \in 1..Len(s) : g[k] = f[k]
  BY <1>1, <1>2
<1>. HIDE DEF g
<1>6. Follows(g, t, s, n)
  <2>1. \A k, m \in 1..Len(s) : k < m => g[k] < g[m]
    BY <1>1, <1>2, <1>5, Zenon
  <2>2. \A k \in 1..Len(s) : s[k] = t[g[k]]
    BY <1>1, <1>2, <1>5, Zenon
  <2>. QED BY <1>5, <2>1, <2>2, Zenon DEF Follows
<1>7. ASSUME NEW i \in 1..n, t[i].kind = "order by"
      PROVE  i = n /\ t[i] \notin {Open, Close}
  <2>1. t[i].kind \notin ClauseKinds /\ t[i] \notin Connectors /\ t[i] \notin {Open, Close}
    BY <1>7, OtherKinds, Zenon
  <2>2. ~InWhole(t, i)
    BY <1>4, <1>7, ListKinds, Zenon
  <2>. QED BY <1>3, <2>1, <2>2, Zenon
<1>8. ASSUME NEW i \in 1..n, Kept(g, s, i)
      PROVE  Survives(t, i)
  <2>1. PICK k \in 1..Len(s) : f[k] = i
    BY <1>5, <1>8, Zenon DEF Kept
  <2>2. k \in 1..Len(r) /\ r[k] = t[i]
    BY <1>1, <1>2, <2>1, Zenon
  <2>3. Kept(f, r, i)
    BY <2>1, <2>2, Zenon DEF Kept
  <2>4. t[i].kind # "order by"
    <3>. SUFFICES ASSUME t[i].kind = "order by" PROVE FALSE
      OBVIOUS
    <3>1. i = n
      BY <1>7
    <3>2. Len(r) \in 1..Len(r) /\ (k = Len(r) \/ k < Len(r))
      BY <1>12, <2>2, WithinInterval, Zenon
    <3>3. k = Len(r)
      <4>1. k < Len(r) => f[k] < f[Len(r)]
        BY <1>2, <2>2, <3>2, Zenon
      <4>2. f[Len(r)] \in 1..n
        BY <1>2, <3>2
      <4>3. ~(n < f[Len(r)])
        BY <1>12, <4>2, WithinInterval, Zenon
      <4>. QED BY <2>1, <3>1, <3>2, <4>1, <4>3
    <3>4. r # << >> /\ r[Len(r)].kind = "order by"
      BY <1>0, <2>2, <3>2, <3>3, Zenon
    <3>5. OrderLast(r)
      BY <3>4 DEF OrderLast
    <3>6. Len(s) = Len(r) - 1
      BY <1>1, <3>5, Zenon
    <3>7. k <= Len(s)
      BY <1>1, WithinInterval, Zenon
    <3>8. ~(Len(r) <= Len(r) - 1)
      BY <1>12, <3>2, WithinInterval, Zenon
    <3>. QED BY <3>3, <3>6, <3>7, <3>8, Zenon
  <2>. QED BY <1>3, <2>3, <2>4, Zenon DEF Survives
<1>9. ASSUME NEW i \in 1..n, Survives(t, i)
      PROVE  Kept(g, s, i)
  <2>1. Kept(f, r, i)
    BY <1>2, <1>3, <1>9, Zenon DEF Survives
  <2>2. PICK k \in 1..Len(r) : f[k] = i
    BY <2>1 DEF Kept
  <2>3. r[k].kind # "order by"
    BY <1>2, <1>9, <2>2, Zenon DEF Survives
  <2>4. k \in 1..Len(s)
    BY <1>1, <2>3, Zenon
  <2>. QED BY <1>5, <2>2, <2>4, Zenon DEF Kept
<1>10. \A i \in DOMAIN t : Kept(g, s, i) <=> Survives(t, i)
  BY <1>4, <1>8, <1>9, Zenon
<1>11. AreLeft(g, t, s)
  BY <1>6, <1>10, Zenon DEF AreLeft, n
<1>. QED BY <1>11, Zenon DEF s

-----------------------------------------------------------------------------
(* What is next to a token that is left is next to it.                     *)
LEMMA LeftBeside ==
  ASSUME NEW t \in Seq(Tokens), NEW s \in Seq(Tokens), NEW g, AreLeft(g, t, s),
         NEW k \in 1..Len(s), g[k] + 1 \in DOMAIN t, Survives(t, g[k] + 1)
  PROVE  k + 1 \in 1..Len(s) /\ g[k + 1] = g[k] + 1
<1>1. /\ g \in [1..Len(s) -> 1..Len(t)]
      /\ \A p, q \in 1..Len(s) : p < q => g[p] < g[q]
  BY DEF AreLeft, Follows
<1>2. \A p \in 1..Len(s) : g[p] \in Nat
  BY <1>1
<1>3. Kept(g, s, g[k] + 1)
  BY Zenon DEF AreLeft
<1>4. PICK m \in 1..Len(s) : g[m] = g[k] + 1
  BY <1>3 DEF Kept
<1>5. Len(s) \in Nat
  OBVIOUS
<1>6. k < m
  <2>1. m < k => g[m] < g[k]
    BY <1>1
  <2>. QED BY <1>2, <1>4, <1>5, <2>1
<1>7. k + 1 \in 1..Len(s) /\ k < k + 1
  BY <1>5, <1>6
<1>8. g[k] < g[k + 1] /\ (k + 1 < m => g[k + 1] < g[m])
  BY <1>1, <1>7
<1>9. g[k + 1] \in Nat /\ g[k] \in Nat
  BY <1>2, <1>7
<1>10. ~(k + 1 < m)
  BY <1>4, <1>8, <1>9
<1>11. k + 1 = m
  BY <1>5, <1>6, <1>10
<1>. QED BY <1>4, <1>7, <1>11

(* A whole list is left, ...                                               *)
LEMMA WholeIsLeft ==
  ASSUME NEW t \in Seq(Tokens), NEW s \in Seq(Tokens), NEW g, AreLeft(g, t, s),
         NEW a \in DOMAIN t, NEW b \in DOMAIN t, WholeList(t, a, b),
         NEW i \in DOMAIN t, a <= i, i <= b
  PROVE  \E k \in 1..Len(s) : g[k] = i
<1>1. InWhole(t, i)
  BY Zenon DEF InWhole
<1>2. Survives(t, i)
  BY <1>1, ListKinds, Zenon DEF Survives
<1>. QED BY <1>2, Zenon DEF AreLeft, Kept

(* ... and is a list of what is left, ...                                  *)
LEMMA WholeIsList ==
  ASSUME NEW t \in Seq(Tokens), NEW s \in Seq(Tokens), NEW g, AreLeft(g, t, s),
         NEW k \in 1..Len(s), NEW m \in 1..Len(s), WholeList(t, g[k], g[m])
  PROVE  /\ ListAt(s, k, m)
         /\ g[k + 1] = g[k] + 1
         /\ \A q \in (k + 2)..(m - 1) : q \in 1..Len(s) /\ s[q].kind = "key"
         /\ \A i \in (g[k] + 2)..(g[m] - 1) : \E q \in (k + 2)..(m - 1) : g[q] = i
<1>1. /\ g \in [1..Len(s) -> 1..Len(t)]
      /\ \A p, q \in 1..Len(s) : p < q => g[p] < g[q]
      /\ \A p \in 1..Len(s) : s[p] = t[g[p]]
  BY DEF AreLeft, Follows
<1>2. /\ Len(s) \in Nat /\ DOMAIN t = 1..Len(t) /\ Len(t) \in Nat
      /\ \A p \in 1..Len(s) : g[p] \in DOMAIN t /\ g[p] \in Nat
  <2>1. \A p \in 1..Len(s) : g[p] \in 1..Len(t)
    BY <1>1
  <2>2. Len(s) \in Nat /\ DOMAIN t = 1..Len(t) /\ Len(t) \in Nat
    BY SequenceOfTokens, Zenon
  <2>3. \A i \in 1..Len(t) : i \in Nat
    OBVIOUS
  <2>. QED BY <2>1, <2>2, <2>3, Zenon
<1>3. /\ g[k] + 2 < g[m] /\ t[g[k]] = In /\ t[g[k] + 1] = Open /\ t[g[m]] = Close
      /\ \A i \in (g[k] + 2)..(g[m] - 1) : t[i].kind = "key"
  BY DEF WholeList
<1>4. \A p, q \in 1..Len(s) : g[p] < g[q] => p < q
  <2>. SUFFICES ASSUME NEW p \in 1..Len(s), NEW q \in 1..Len(s), g[p] < g[q]
               PROVE  p < q
    OBVIOUS
  <2>1. q < p => g[q] < g[p]
    BY <1>1
  <2>2. p # q
    BY <1>2
  <2>3. g[p] \in Nat /\ g[q] \in Nat
    BY <1>2
  <2>4. ~(q < p)
    BY <2>1, <2>3
  <2>. QED BY <1>2, <2>2, <2>4
<1>5. /\ g[k] + 1 \in DOMAIN t /\ g[k] <= g[k] + 1 /\ g[k] + 1 <= g[m]
      /\ g[k] \in DOMAIN t /\ g[m] \in DOMAIN t
  BY <1>2, <1>3
<1>6. Survives(t, g[k] + 1)
  <2>1. InWhole(t, g[k] + 1)
    BY <1>5, Zenon DEF InWhole
  <2>. QED BY <1>5, <2>1, ListKinds, Zenon DEF Survives
<1>7. k + 1 \in 1..Len(s) /\ g[k + 1] = g[k] + 1
  BY <1>5, <1>6, LeftBeside
<1>8. k + 1 < m
  <2>1. g[k + 1] < g[m]
    BY <1>2, <1>3, <1>7
  <2>. QED BY <1>4, <1>7, <2>1, Zenon
<1>9. ASSUME NEW q \in (k + 2)..(m - 1)
      PROVE  q \in 1..Len(s) /\ s[q].kind = "key" /\ s[q] # Close
  <2>1. q \in 1..Len(s) /\ k + 1 < q /\ q < m
    BY <1>2
  <2>2. g[k + 1] < g[q] /\ g[q] < g[m]
    BY <1>1, <1>7, <2>1
  <2>3. g[q] \in (g[k] + 2)..(g[m] - 1)
    BY <1>2, <1>7, <2>1, <2>2
  <2>4. s[q].kind = "key"
    BY <1>1, <1>3, <2>1, <2>3
  <2>. QED BY <2>1, <2>4, OtherKinds, Zenon
<1>10. ASSUME NEW i \in (g[k] + 2)..(g[m] - 1)
       PROVE  \E q \in (k + 2)..(m - 1) : g[q] = i
  <2>1. i \in DOMAIN t /\ g[k] <= i /\ i <= g[m] /\ g[k + 1] < i /\ i < g[m]
    BY <1>2, <1>7
  <2>2. PICK q \in 1..Len(s) : g[q] = i
    BY <1>5, <2>1, WholeIsLeft
  <2>3. k + 1 < q /\ q < m
    BY <1>4, <1>7, <2>1, <2>2, Zenon
  <2>4. q \in (k + 2)..(m - 1)
    BY <1>2, <2>3
  <2>. QED BY <2>2, <2>4
<1>11. ListAt(s, k, m)
  BY <1>1, <1>3, <1>7, <1>8, <1>9 DEF ListAt
<1>. QED BY <1>7, <1>9, <1>10, <1>11, Zenon

(* ... which has no others.                                                *)
LEMMA ListIsWhole ==
  ASSUME NEW t \in Seq(Tokens), NEW s \in Seq(Tokens), NEW g, AreLeft(g, t, s),
         ListsAreWhole(t), NEW k \in 1..Len(s), NEW m \in 1..Len(s), ListAt(s, k, m)
  PROVE  WholeList(t, g[k], g[m])
<1>1. /\ g \in [1..Len(s) -> 1..Len(t)]
      /\ \A p, q \in 1..Len(s) : p < q => g[p] < g[q]
      /\ \A p \in 1..Len(s) : s[p] = t[g[p]]
  BY DEF AreLeft, Follows
<1>2. /\ Len(s) \in Nat /\ DOMAIN t = 1..Len(t) /\ Len(t) \in Nat
      /\ \A p \in 1..Len(s) : g[p] \in DOMAIN t /\ g[p] \in Nat
  <2>1. \A p \in 1..Len(s) : g[p] \in 1..Len(t)
    BY <1>1
  <2>2. Len(s) \in Nat /\ DOMAIN t = 1..Len(t) /\ Len(t) \in Nat
    BY SequenceOfTokens, Zenon
  <2>3. \A i \in 1..Len(t) : i \in Nat
    OBVIOUS
  <2>. QED BY <2>1, <2>2, <2>3, Zenon
<1>3. /\ k + 1 < m /\ s[k] = In /\ s[m] = Close
      /\ \A q \in (k + 2)..(m - 1) : s[q] # Close
  BY DEF ListAt
<1>4. PICK b \in DOMAIN t : WholeList(t, g[k], b)
  BY <1>1, <1>2, <1>3, Zenon DEF ListsAreWhole
<1>5. b \in Nat /\ g[k] <= b /\ b <= b
  BY <1>2, <1>4 DEF WholeList
<1>6. PICK n \in 1..Len(s) : g[n] = b
  <2>1. g[k] \in DOMAIN t
    BY <1>2, Zenon
  <2>. QED BY <1>4, <1>5, <2>1, WholeIsLeft
<1>7. ListAt(s, k, n)
  BY <1>4, <1>6, WholeIsList, Zenon
<1>8. ~(n < m)
  <2>. SUFFICES ASSUME n < m PROVE FALSE
    OBVIOUS
  <2>1. n \in (k + 2)..(m - 1)
    BY <1>2, <1>7 DEF ListAt
  <2>. QED BY <1>3, <1>7, <2>1 DEF ListAt
<1>9. ~(m < n)
  <2>. SUFFICES ASSUME m < n PROVE FALSE
    OBVIOUS
  <2>1. m \in (k + 2)..(n - 1)
    BY <1>2, <1>3
  <2>. QED BY <1>3, <1>7, <2>1 DEF ListAt
<1>10. m = n
  BY <1>2, <1>8, <1>9
<1>. QED BY <1>4, <1>6, <1>10

-----------------------------------------------------------------------------
(* The first match is a match.                                             *)
LEMMA FirstIsFound ==
  ASSUME NEW t, NEW type, NEW positions \in SUBSET Nat
  PROVE  \/ First(t, type, positions) = Absent /\ \A k \in positions : t[k].kind # type
         \/ \E k \in positions : t[k].kind = type /\ First(t, type, positions) = t[k].value
<1>. DEFINE found == {k \in positions : t[k].kind = type}
<1>1. CASE found = {}
  BY <1>1, Zenon DEF First
<1>2. CASE found # {}
  <2>1. found \in SUBSET Nat
    OBVIOUS
  <2>2. \E x \in found : \A y \in found : x <= y
    <3>. HIDE DEF found
    <3>. QED BY <1>2, <2>1, Least, Zenon
  <2>3. Min(found) \in found
    BY <2>2, Zenon DEF Min
  <2>4. First(t, type, positions) = t[Min(found)].value
    BY <1>2, Zenon DEF First
  <2>. QED BY <2>3, <2>4, Zenon
<1>. QED BY <1>1, <1>2, Zenon

LEMMA FirstIsList ==
  ASSUME NEW s \in Seq(Tokens), ListsIn(s) # {}
  PROVE  /\ FirstList(s)[1] \in 1..Len(s) /\ FirstList(s)[2] \in 1..Len(s)
         /\ ListAt(s, FirstList(s)[1], FirstList(s)[2])
<1>. DEFINE begins == {l[1] : l \in ListsIn(s)}
<1>1. \A l \in ListsIn(s) :
        l[1] \in 1..Len(s) /\ l[2] \in 1..Len(s) /\ ListAt(s, l[1], l[2])
  BY DEF ListsIn
<1>2. begins \in SUBSET Nat /\ begins # {}
  BY <1>1
<1>3. \E x \in begins : \A y \in begins : x <= y
  <2>. HIDE DEF begins
  <2>. QED BY <1>2, Least, Zenon
<1>4. \E l \in ListsIn(s) : \A m \in ListsIn(s) : l[1] <= m[1]
  BY <1>3, Zenon
<1>5. FirstList(s) \in ListsIn(s)
  BY <1>4, Zenon DEF FirstList
<1>. QED BY <1>1, <1>5, Zenon

LEMMA KeysAreInList ==
  ASSUME NEW s \in Seq(Tokens), NEW k \in Keys(s)
  PROVE  /\ ListsIn(s) # {}
         /\ k \in (FirstList(s)[1] + 2)..(FirstList(s)[2] - 1)
BY DEF Keys

LEMMA ListIsIn ==
  ASSUME NEW s \in Seq(Tokens), NEW k \in 1..Len(s), NEW m \in 1..Len(s), ListAt(s, k, m)
  PROVE  <<k, m>> \in ListsIn(s) /\ ListsIn(s) # {}
BY SequenceOfTokens DEF ListsIn

(* What is left of a query of supported clauses.                           *)
LEMMA LeftOfQuery ==
  ASSUME NEW t \in Seq(Tokens), NEW s \in Seq(Tokens), NEW g,
         IsQuery(t), AreLeft(g, t, s)
  PROVE  /\ \A k \in Keys(s) : k \in 1..Len(s) /\ s[k].kind = "key"
         /\ \A k \in OutsideLists(s) : s[k].kind \in ClauseKinds \/ s[k] \in Connectors
         /\ \A k \in 1..Len(s) : s[k].kind \in ClauseKinds => k \in OutsideLists(s)
<1>1. /\ g \in [1..Len(s) -> 1..Len(t)]
      /\ \A p, q \in 1..Len(s) : p < q => g[p] < g[q]
      /\ \A p \in 1..Len(s) : s[p] = t[g[p]]
  BY DEF AreLeft, Follows
<1>2. DOMAIN s = 1..Len(s) /\ DOMAIN t = 1..Len(t) /\ Len(s) \in Nat
  BY SequenceOfTokens, Zenon
<1>3. \A p \in 1..Len(s) : g[p] \in DOMAIN t /\ g[p] \in Nat /\ Survives(t, g[p])
  <2>1. \A p \in 1..Len(s) : g[p] \in 1..Len(t)
    BY <1>1
  <2>2. \A i \in 1..Len(t) : i \in Nat
    OBVIOUS
  <2>3. \A p \in 1..Len(s) : Kept(g, s, g[p])
    BY Zenon DEF Kept
  <2>. QED BY <1>2, <2>1, <2>2, <2>3, Zenon DEF AreLeft
<1>4. ListsAreWhole(t)
  BY QueryTokens, Zenon
<1>5. ASSUME NEW k \in Keys(s) PROVE k \in 1..Len(s) /\ s[k].kind = "key"
  <2>. DEFINE a == FirstList(s)[1]
              b == FirstList(s)[2]
  <2>1. ListsIn(s) # {} /\ k \in (a + 2)..(b - 1)
    BY <1>5, KeysAreInList, Zenon
  <2>2. a \in 1..Len(s) /\ b \in 1..Len(s) /\ ListAt(s, a, b)
    BY <2>1, FirstIsList, Zenon
  <2>. HIDE DEF a, b
  <2>3. WholeList(t, g[a], g[b])
    BY <1>4, <2>2, ListIsWhole, Zenon
  <2>4. \A q \in (a + 2)..(b - 1) : q \in 1..Len(s) /\ s[q].kind = "key"
    BY <2>2, <2>3, WholeIsList
  <2>. QED BY <2>1, <2>4, Zenon
<1>6. ASSUME NEW k \in OutsideLists(s)
      PROVE  k \in 1..Len(s) /\ ~InWhole(t, g[k])
  <2>1. k \in 1..Len(s) /\ \A l \in ListsIn(s) : k < l[1] \/ l[2] < k
    BY <1>2, Zenon DEF OutsideLists
  <2>2. ASSUME NEW a \in DOMAIN t, NEW b \in DOMAIN t, a <= g[k], g[k] <= b,
               WholeList(t, a, b)
        PROVE  FALSE
    <3>1. a <= a /\ b <= b /\ a <= b /\ a \in Nat /\ b \in Nat
      BY <1>3, <2>1, <2>2, <1>2
    <3>2. PICK p \in 1..Len(s) : g[p] = a
      BY <2>2, <3>1, WholeIsLeft
    <3>3. PICK q \in 1..Len(s) : g[q] = b
      BY <2>2, <3>1, WholeIsLeft
    <3>4. ListAt(s, p, q)
      BY <2>2, <3>2, <3>3, WholeIsList, Zenon
    <3>5. <<p, q>> \in ListsIn(s)
      BY <3>4, ListIsIn, Zenon
    <3>6. k < p \/ q < k
      BY <2>1, <3>5
    <3>7. g[k] < a \/ b < g[k]
      BY <1>1, <2>1, <3>2, <3>3, <3>6, Zenon
    <3>8. g[k] \in Nat
      BY <1>3, <2>1, Zenon
    <3>. QED BY <2>2, <3>1, <3>7, <3>8
  <2>. QED BY <2>1, <2>2, Zenon DEF InWhole
<1>7. ASSUME NEW k \in OutsideLists(s)
      PROVE  s[k].kind \in ClauseKinds \/ s[k] \in Connectors
  <2>1. k \in 1..Len(s) /\ ~InWhole(t, g[k])
    BY <1>6, <1>7, Zenon
  <2>2. g[k] \in DOMAIN t /\ Survives(t, g[k]) /\ s[k] = t[g[k]]
    BY <1>1, <1>3, <2>1, Zenon
  <2>. QED BY <2>1, <2>2, QueryTokens, Zenon DEF Survives
<1>8. ASSUME NEW k \in 1..Len(s), s[k].kind \in ClauseKinds, k \notin OutsideLists(s)
      PROVE  FALSE
  <2>1. PICK l \in ListsIn(s) : ~(k < l[1] \/ l[2] < k)
    BY <1>2, <1>8, Zenon DEF OutsideLists
  <2>. DEFINE a == l[1]
              b == l[2]
  <2>2. a \in 1..Len(s) /\ b \in 1..Len(s) /\ ListAt(s, a, b)
    BY <1>2 DEF ListsIn
  <2>3. ~(k < a) /\ ~(b < k)
    BY <2>1, Zenon
  <2>. HIDE DEF a, b
  <2>4. WholeList(t, g[a], g[b])
    BY <1>4, <2>2, ListIsWhole, Zenon
  <2>5. (a = k \/ a < k) /\ (k = b \/ k < b)
    BY <1>2, <2>2, <2>3
  <2>6. (g[a] = g[k] \/ g[a] < g[k]) /\ (g[k] = g[b] \/ g[k] < g[b])
    BY <1>1, <2>2, <2>5, Zenon
  <2>7. g[a] <= g[k] /\ g[k] <= g[b]
    BY <1>3, <2>2, <2>6
  <2>8. InWhole(t, g[k])
    BY <1>3, <2>2, <2>4, <2>7, Zenon DEF InWhole
  <2>9. t[g[k]].kind \notin ClauseKinds
    BY <1>3, <2>8, ListKinds, Zenon
  <2>. QED BY <1>1, <1>8, <2>9, Zenon
<1>. QED BY <1>5, <1>7, <1>8, Zenon

-----------------------------------------------------------------------------
LEMMA NestedLists ==
  ASSUME NEW r \in Seq(Tokens), NEW a \in 1..Len(r), NEW b \in 1..Len(r), ListAt(r, a, b),
         NEW k \in 1..Len(r), a < k, k < b, r[k] = In, r[k + 1] = Open
  PROVE  ListInList(r)
<1>1. /\ r[a] = In /\ r[a + 1] = Open
      /\ \A q \in (a + 2)..(b - 1) : r[q] # Close
  BY DEF ListAt
<1>2. Len(r) \in Nat /\ DOMAIN r = 1..Len(r)
  BY SequenceOfTokens, Zenon
<1>3. k < Len(r)
  BY <1>2
<1>4. ASSUME NEW m \in a..k PROVE r[m] # Close
  <2>1. m = a \/ m = a + 1 \/ m \in (a + 2)..(b - 1)
    BY <1>2
  <2>. QED BY <1>1, <2>1, TokenKinds, Zenon
<1>5. NoneCloses(r, a, k)
  BY <1>4, Zenon DEF NoneCloses
<1>. QED BY <1>1, <1>2, <1>3, <1>5, Zenon DEF ListInList

(* If none begins within another, every list that is opened is closed: all *)
(* others would be left over outside of the lists.                         *)
LEMMA ListsAreClosed ==
  ASSUME NEW r \in Seq(Tokens), ~ListInList(r),
         \A k \in DOMAIN r : r[k] = Open => k > 1 /\ r[k - 1] = In,
         \A k \in OutsideLists(Rest(r)) :
           Rest(r)[k].kind \in ClauseKinds \/ Rest(r)[k] \in Connectors
  PROVE  Count(r, Len(r), Open) <= Count(r, Len(r), Close)
<1>. DEFINE s == Rest(r)
            opens == {k \in 1..Len(r) : r[k] = Open}
            closes == {k \in 1..Len(r) : r[k] = Close}
            e == [k \in opens |-> CHOOSE j \in 1..Len(r) : ListAt(r, k - 1, j)]
<1>1. /\ Len(r) \in Nat /\ DOMAIN r = 1..Len(r)
      /\ Len(s) \in Nat /\ DOMAIN s = 1..Len(s) /\ s \in Seq(Tokens)
      /\ \A k \in 1..Len(s) : k \in 1..Len(r) /\ s[k] = r[k]
      /\ \A k \in 1..Len(r) : k \in 1..Len(s) \/ r[k].kind = "order by"
  BY RestIsPrefix, SequenceOfTokens, Zenon
<1>0. Len(r) \in Nat /\ Len(s) \in Nat
  BY <1>1, Zenon
<1>2. \A k \in OutsideLists(s) : s[k].kind \in ClauseKinds \/ s[k] \in Connectors
  OBVIOUS
<1>. HIDE DEF s
<1>3. ASSUME NEW k \in 1..Len(r), r[k] = Open
      PROVE  /\ k - 1 \in 1..Len(r) /\ r[k - 1] = In
             /\ \E j \in 1..Len(r) : ListAt(r, k - 1, j)
  <2>1. k > 1 /\ r[k - 1] = In
    BY <1>1, <1>3, Zenon
  <2>2. k - 1 \in 1..Len(r)
    BY <1>0, <2>1
  <2>3. k \in 1..Len(s)
    BY <1>1, <1>3, OtherKinds, Zenon
  <2>4. k \notin OutsideLists(s)
    BY <1>1, <1>2, <1>3, <2>3, OtherKinds, Zenon
  <2>5. PICK l \in ListsIn(s) : ~(k < l[1] \/ l[2] < k)
    BY <1>1, <2>3, <2>4, Zenon DEF OutsideLists
  <2>. DEFINE a == l[1]
              b == l[2]
  <2>6. a \in 1..Len(s) /\ b \in 1..Len(s) /\ ListAt(s, a, b) /\ ~(k < a) /\ ~(b < k)
    BY <1>1, <2>5 DEF ListsIn
  <2>. HIDE DEF a, b
  <2>7. ListAt(r, a, b)
    <3>1. /\ a + 1 < b /\ s[a] = In /\ s[a + 1] = Open /\ s[b] = Close
          /\ \A q \in (a + 2)..(b - 1) : s[q] # Close
      BY <2>6 DEF ListAt
    <3>2. a + 1 \in 1..Len(s) /\ \A q \in (a + 2)..(b - 1) : q \in 1..Len(s)
      <4>1. a \in 1..Len(s) /\ b \in 1..Len(s) /\ a + 1 < b
        BY <2>6, <3>1, Zenon
      <4>. QED BY <1>0, <4>1
    <3>. QED BY <1>1, <2>6, <3>1, <3>2, Zenon DEF ListAt
  <2>8. a \in 1..Len(r) /\ b \in 1..Len(r) /\ r[a] = In /\ r[b] = Close
    BY <1>1, <2>6, <2>7, Zenon DEF ListAt
  <2>9. k # a /\ k # b
    BY <1>3, <2>8, TokenKinds, Zenon
  <2>10. a < k /\ k < b
    <3>1. /\ a \in 1..Len(s) /\ b \in 1..Len(s) /\ ~(k < a) /\ ~(b < k)
          /\ k # a /\ k # b
      BY <2>6, <2>9, Zenon
    <3>. QED BY <1>0, <3>1
  <2>11. k - 1 = a
    <3>. SUFFICES ASSUME k - 1 # a PROVE FALSE
      OBVIOUS
    <3>1. a < k - 1 /\ k - 1 < b /\ (k - 1) + 1 = k
      BY <2>8, <2>10
    <3>2. r[(k - 1) + 1] = Open
      BY <1>3, <3>1, Zenon
    <3>. QED BY <2>1, <2>2, <2>7, <2>8, <3>1, <3>2, NestedLists
  <2>. QED BY <2>1, <2>2, <2>7, <2>8, <2>11
<1>4. ASSUME NEW k \in opens
      PROVE  /\ k \in 1..Len(r) /\ r[k] = Open /\ k - 1 \in 1..Len(r) /\ r[k - 1] = In
             /\ e[k] \in 1..Len(r) /\ ListAt(r, k - 1, e[k])
  <2>1. k \in 1..Len(r) /\ r[k] = Open
    OBVIOUS
  <2>2. e[k] = CHOOSE j \in 1..Len(r) : ListAt(r, k - 1, j)
    OBVIOUS
  <2>. HIDE DEF e
  <2>. QED BY <1>3, <2>1, <2>2, Zenon
<1>5. DOMAIN e = opens /\ e = [k \in opens |-> e[k]]
  OBVIOUS
<1>. HIDE DEF e
<1>6. ASSUME NEW k \in opens, NEW m \in opens, e[k] = e[m], k < m
      PROVE  FALSE
  <2>1. /\ k \in 1..Len(r) /\ k - 1 \in 1..Len(r) /\ e[k] \in 1..Len(r)
        /\ ListAt(r, k - 1, e[k])
    BY <1>4
  <2>2. /\ m \in 1..Len(r) /\ m - 1 \in 1..Len(r) /\ r[m] = Open /\ r[m - 1] = In
        /\ ListAt(r, m - 1, e[m])
    BY <1>4
  <2>3. (m - 1) + 1 < e[m]
    BY <2>2 DEF ListAt
  <2>. HIDE DEF opens
  <2>4. k - 1 < m - 1 /\ m - 1 < e[k] /\ (m - 1) + 1 = m
    BY <1>6, <2>1, <2>2, <2>3
  <2>5. r[(m - 1) + 1] = Open
    BY <2>2, <2>4, Zenon
  <2>. QED BY <2>1, <2>2, <2>4, <2>5, NestedLists
<1>7. e \in Injection(opens, closes)
  <2>1. \A k \in opens : e[k] \in closes
    BY <1>4 DEF ListAt
  <2>2. \A k, m \in opens : k < m \/ m < k \/ k = m
    <3>1. \A k, m \in 1..Len(r) : k < m \/ m < k \/ k = m
      BY <1>0
    <3>. QED BY <3>1, Zenon
  <2>. HIDE DEF opens, closes
  <2>3. e \in [opens -> closes]
    BY <1>5, <2>1
  <2>4. \A k, m \in opens : e[k] = e[m] => k = m
    BY <1>6, <2>2, Zenon
  <2>. QED BY <2>3, <2>4, Zenon DEF Injection, IsInjective
<1>8. IsFiniteSet(closes)
  BY <1>1, CountedAreFinite, Zenon
<1>9. Cardinality(opens) <= Cardinality(closes)
  <2>. HIDE DEF opens, closes
  <2>. QED BY <1>7, <1>8, FS_Injection, Zenon
<1>. QED BY <1>9, Zenon DEF Count

(* Of a kind that comes at most once, two are the same.                    *)
LEMMA OnlyOne ==
  ASSUME NEW t \in Seq(Tokens), NEW kinds, Once(kinds, t),
         NEW i \in DOMAIN t, NEW k \in DOMAIN t,
         t[i].kind \in kinds, t[k].kind \in kinds
  PROVE  i = k
<1>. DEFINE found == {j \in DOMAIN t : t[j].kind \in kinds}
<1>1. Len(t) \in Nat /\ DOMAIN t = 1..Len(t)
  BY SequenceOfTokens, Zenon
<1>2. IsFiniteSet(1..Len(t))
  <2>1. Len(t) \in Nat
    BY <1>1
  <2>. QED BY <2>1, FS_Interval
<1>3. IsFiniteSet(found)
  <2>1. found \in SUBSET (1..Len(t))
    BY <1>1, Zenon
  <2>. HIDE DEF found
  <2>. QED BY <1>2, <2>1, FS_Subset, Zenon
<1>4. Cardinality(found) <= 1
  BY Zenon DEF Once
<1>5. {i} \in SUBSET found /\ i \in found /\ k \in found
  OBVIOUS
<1>. HIDE DEF found
<1>6. Cardinality({i}) = 1 /\ Cardinality({i}) <= Cardinality(found)
  BY <1>3, <1>5, FS_Singleton, FS_Subset, Zenon
<1>7. Cardinality(found) \in Nat
  BY <1>3, FS_CardinalityType, Zenon
<1>8. Cardinality(found) = Cardinality({i})
  <2>1. \A c \in Nat : c <= 1 /\ 1 <= c => c = 1
    OBVIOUS
  <2>. QED BY <1>4, <1>6, <1>7, <2>1, Zenon
<1>9. found = {i}
  BY <1>3, <1>5, <1>8, FS_Subset, Zenon
<1>. QED BY <1>5, <1>9

-----------------------------------------------------------------------------
(* The first list of what is left of a query is a whole list of it, and    *)
(* its keys are taken.                                                     *)
LEMMA FirstListOfQuery ==
  ASSUME NEW t \in Seq(Tokens), NEW s \in Seq(Tokens), NEW g,
         IsQuery(t), AreLeft(g, t, s), ListsIn(s) # {}
  PROVE  \E a, b \in DOMAIN t :
           /\ WholeList(t, a, b)
           /\ \A k \in Keys(s) : k \in 1..Len(s) /\ g[k] \in (a + 2)..(b - 1)
           /\ \A i \in (a + 2)..(b - 1) : \E k \in Keys(s) : g[k] = i
<1>. DEFINE p == FirstList(s)[1]
            q == FirstList(s)[2]
<1>1. p \in 1..Len(s) /\ q \in 1..Len(s) /\ ListAt(s, p, q)
  BY FirstIsList, Zenon
<1>2. \A k : k \in Keys(s) <=>
        k \in (p + 2)..(q - 1) /\ s[k].kind \notin ClauseKinds \ {"filter"}
  BY Zenon DEF Keys
<1>. HIDE DEF p, q
<1>3. /\ g \in [1..Len(s) -> 1..Len(t)]
      /\ \A k, m \in 1..Len(s) : k < m => g[k] < g[m]
      /\ \A k \in 1..Len(s) : s[k] = t[g[k]]
  BY DEF AreLeft, Follows
<1>4. DOMAIN t = 1..Len(t) /\ Len(t) \in Nat
  BY SequenceOfTokens, Zenon
<1>5. Len(s) \in Nat
  BY SequenceOfTokens, Zenon
<1>6. \A k \in 1..Len(s) : g[k] \in DOMAIN t /\ g[k] \in Nat
  <2>1. \A k \in 1..Len(s) : g[k] \in 1..Len(t)
    BY <1>3
  <2>2. \A i \in 1..Len(t) : i \in Nat
    OBVIOUS
  <2>. QED BY <1>4, <2>1, <2>2, Zenon
<1>7. WholeList(t, g[p], g[q])
  BY <1>1, QueryTokens, ListIsWhole, Zenon
<1>8. /\ g[p + 1] = g[p] + 1
      /\ \A k \in (p + 2)..(q - 1) : k \in 1..Len(s) /\ s[k].kind = "key"
      /\ \A i \in (g[p] + 2)..(g[q] - 1) : \E k \in (p + 2)..(q - 1) : g[k] = i
  BY <1>1, <1>7, WholeIsList
<1>9. ASSUME NEW k \in Keys(s)
      PROVE  k \in 1..Len(s) /\ g[k] \in (g[p] + 2)..(g[q] - 1)
  <2>1. k \in (p + 2)..(q - 1) /\ k \in 1..Len(s)
    BY <1>2, <1>8, Zenon
  <2>2. p + 1 \in 1..Len(s) /\ p + 1 < k /\ k < q
    BY <1>1, <1>5, <2>1
  <2>3. g[p + 1] < g[k] /\ g[k] < g[q]
    BY <1>1, <1>3, <2>1, <2>2, Zenon
  <2>4. g[k] \in Nat /\ g[p] \in Nat /\ g[q] \in Nat
    BY <1>1, <1>6, <2>1, Zenon
  <2>5. g[p] + 1 < g[k]
    BY <1>8, <2>3, Zenon
  <2>6. g[k] \in (g[p] + 2)..(g[q] - 1)
    BY <2>3, <2>4, <2>5
  <2>. QED BY <2>1, <2>6, Zenon
<1>10. ASSUME NEW i \in (g[p] + 2)..(g[q] - 1)
       PROVE  \E k \in Keys(s) : g[k] = i
  <2>1. PICK k \in (p + 2)..(q - 1) : g[k] = i
    BY <1>8, Zenon
  <2>2. s[k].kind \notin ClauseKinds
    BY <1>8, <2>1, OtherKinds, Zenon
  <2>3. k \in Keys(s)
    BY <1>2, <2>1, <2>2, Zenon
  <2>. QED BY <2>1, <2>3, Zenon
<1>. QED BY <1>1, <1>6, <1>7, <1>9, <1>10, Zenon

LEMMA FirstComesFrom ==
  ASSUME NEW t \in Seq(Tokens), NEW s \in Seq(Tokens), NEW g, AreLeft(g, t, s),
         NEW type, NEW positions \in SUBSET (1..Len(s))
  PROVE  \/ /\ First(s, type, positions) = Absent
            /\ \A k \in positions : t[g[k]].kind # type
         \/ \E i \in DOMAIN t : t[i].kind = type /\ First(s, type, positions) = t[i].value
<1>1. /\ g \in [1..Len(s) -> 1..Len(t)] /\ \A k \in 1..Len(s) : s[k] = t[g[k]]
  BY DEF AreLeft, Follows
<1>2. \A k \in 1..Len(s) : g[k] \in DOMAIN t
  <2>1. DOMAIN t = 1..Len(t)
    BY SequenceOfTokens, Zenon
  <2>. QED BY <1>1, <2>1
<1>3. positions \in SUBSET Nat /\ \A k \in positions : k \in 1..Len(s)
  <2>1. \A k \in 1..Len(s) : k \in Nat
    BY SequenceOfTokens
  <2>. QED BY <2>1, Zenon
<1>4. \/ First(s, type, positions) = Absent /\ \A k \in positions : s[k].kind # type
      \/ \E k \in positions : s[k].kind = type /\ First(s, type, positions) = s[k].value
  BY <1>3, FirstIsFound
<1>. QED BY <1>1, <1>2, <1>3, <1>4, Zenon

LEMMA MatchesEach ==
  ASSUME NEW x, NEW t
  PROVE  Matches(x, t) <=>
           \A i \in DOMAIN t :
             /\ t[i].kind \in {"project", "filter"} => x.project = t[i].value
             /\ t[i].kind = "created" => x.created >= t[i].value
             /\ t[i].kind = "updated" => x.updated >= t[i].value
             /\ t[i] = In => \E k \in DOMAIN t : /\ k > i /\ NoneCloses(t, i, k)
                                                 /\ t[k].kind = "key" /\ x.key = t[k].value
<1>. DEFINE C1(i) == x.project = t[i].value
            C2(i) == x.created >= t[i].value
            C3(i) == x.updated >= t[i].value
            C4(i) == \E k \in DOMAIN t : /\ k > i /\ NoneCloses(t, i, k)
                                         /\ t[k].kind = "key" /\ x.key = t[k].value
            D(i) == CASE t[i].kind \in {"project", "filter"} -> C1(i)
                      [] t[i].kind = "created" -> C2(i)
                      [] t[i].kind = "updated" -> C3(i)
                      [] t[i] = In -> C4(i)
                      [] OTHER -> TRUE
<1>1. Matches(x, t) <=> \A i \in DOMAIN t : D(i)
  BY Zenon DEF Matches
<1>2. \A i : t[i] = In => t[i].kind = "issue in"
  BY TokenKinds, Zenon
<1>3. ASSUME NEW i
      PROVE  D(i) <=> /\ t[i].kind \in {"project", "filter"} => C1(i)
                      /\ t[i].kind = "created" => C2(i)
                      /\ t[i].kind = "updated" => C3(i)
                      /\ t[i] = In => C4(i)
  <2>. HIDE DEF C1, C2, C3, C4
  <2>. QED BY <1>2
<1>. HIDE DEF D
<1>4. (\A i \in DOMAIN t : D(i)) <=>
        \A i \in DOMAIN t : /\ t[i].kind \in {"project", "filter"} => C1(i)
                            /\ t[i].kind = "created" => C2(i)
                            /\ t[i].kind = "updated" => C3(i)
                            /\ t[i] = In => C4(i)
  BY <1>3, Zenon
<1>. QED BY <1>1, <1>4, Zenon

LEMMA Parsed ==
  ASSUME NEW s, s = Rest(result)
  PROVE  LET parsed == ParseJQL
         IN  /\ parsed.ok <=>
                  /\ verdict = "accepted"
                  /\ \A k \in Keys(s) : s[k].kind = "key"
                  /\ \A k \in OutsideLists(s) :
                       s[k].kind \in ClauseKinds \/ s[k] \in Connectors
             /\ parsed.project = First(s, "project", DOMAIN s)
             /\ parsed.created = First(s, "created", DOMAIN s)
             /\ parsed.updated = First(s, "updated", DOMAIN s)
             /\ parsed.keys = {s[k].value : k \in Keys(s)}
             /\ parsed.filter = First(s, "filter", OutsideLists(s))
BY Zenon DEF ParseJQL

(* Every issue that the query asks for is found, ...                       *)
LEMMA WantedAreFound ==
  ASSUME jql \in Seq(Tokens), IsQuery(jql), NEW s \in Seq(Tokens), s = Rest(result),
         NEW g, AreLeft(g, jql, s), NEW x \in YouTrackIssues, Matches(x, jql)
  PROVE  x \in ToYouTrackQuery(ParseJQL)
<1>1. DOMAIN s = 1..Len(s) /\ DOMAIN s \in SUBSET (1..Len(s))
      /\ OutsideLists(s) \in SUBSET (1..Len(s))
  BY SequenceOfTokens, Zenon DEF OutsideLists
<1>2. x.project \in Nat /\ x.created \in Nat /\ x.updated \in Nat
  BY IssuesAssumption
<1>3. \A i \in DOMAIN jql :
        /\ jql[i].kind \in {"project", "filter"} => x.project = jql[i].value
        /\ jql[i].kind = "created" => x.created >= jql[i].value
        /\ jql[i].kind = "updated" => x.updated >= jql[i].value
        /\ jql[i] = In => \E k \in DOMAIN jql : /\ k > i /\ NoneCloses(jql, i, k)
                                                /\ jql[k].kind = "key" /\ x.key = jql[k].value
  BY MatchesEach, Zenon
<1>4. \/ First(s, "project", DOMAIN s) = Absent
      \/ \E i \in DOMAIN jql :
           jql[i].kind = "project" /\ First(s, "project", DOMAIN s) = jql[i].value
  BY <1>1, FirstComesFrom
<1>5. \/ First(s, "filter", OutsideLists(s)) = Absent
      \/ \E i \in DOMAIN jql :
           jql[i].kind = "filter" /\ First(s, "filter", OutsideLists(s)) = jql[i].value
  BY <1>1, FirstComesFrom
<1>6. Project(ParseJQL) \in {Absent, x.project}
  <2>1. /\ ParseJQL.project = First(s, "project", DOMAIN s)
        /\ ParseJQL.filter = First(s, "filter", OutsideLists(s))
    BY Parsed, Zenon
  <2>2. ParseJQL.project \in {Absent, x.project}
    BY <1>3, <1>4, <2>1, Zenon
  <2>3. ParseJQL.filter \in {Absent, x.project}
    BY <1>3, <1>5, <2>1, Zenon
  <2>. QED BY <2>2, <2>3, Zenon DEF Project
<1>7. x.created >= First(s, "created", DOMAIN s)
  <2>1. \/ First(s, "created", DOMAIN s) = Absent
        \/ \E i \in DOMAIN jql :
             jql[i].kind = "created" /\ First(s, "created", DOMAIN s) = jql[i].value
    BY <1>1, FirstComesFrom
  <2>2. x.created >= Absent
    BY <1>2 DEF Absent
  <2>. QED BY <1>3, <2>1, <2>2, Zenon
<1>8. x.updated >= First(s, "updated", DOMAIN s)
  <2>1. \/ First(s, "updated", DOMAIN s) = Absent
        \/ \E i \in DOMAIN jql :
             jql[i].kind = "updated" /\ First(s, "updated", DOMAIN s) = jql[i].value
    BY <1>1, FirstComesFrom
  <2>2. x.updated >= Absent
    BY <1>2 DEF Absent
  <2>. QED BY <1>3, <2>1, <2>2, Zenon
<1>9. ASSUME Keys(s) # {}
      PROVE  x.key \in {s[k].value : k \in Keys(s)}
  <2>1. ListsIn(s) # {}
    BY <1>9 DEF Keys
  <2>2. PICK a, b \in DOMAIN jql :
          /\ WholeList(jql, a, b)
          /\ \A k \in Keys(s) : k \in 1..Len(s) /\ g[k] \in (a + 2)..(b - 1)
          /\ \A i \in (a + 2)..(b - 1) : \E k \in Keys(s) : g[k] = i
    BY <2>1, FirstListOfQuery
  <2>3. jql[a] = In /\ a + 2 < b /\ jql[a + 1] = Open /\ jql[b] = Close
    BY <2>2 DEF WholeList
  <2>4. PICK i \in DOMAIN jql : /\ i > a /\ NoneCloses(jql, a, i)
                                /\ jql[i].kind = "key" /\ x.key = jql[i].value
    BY <1>3, <2>3, Zenon
  <2>5. a \in Nat /\ b \in Nat /\ i \in Nat
    OBVIOUS
  <2>6. ~(b \in a..i)
    BY <2>3, <2>4, Zenon DEF NoneCloses
  <2>7. i # a + 1
    BY <2>3, <2>4, OtherKinds, Zenon
  <2>8. i \in (a + 2)..(b - 1)
    BY <2>3, <2>4, <2>5, <2>6, <2>7
  <2>9. PICK k \in Keys(s) : g[k] = i
    BY <2>2, <2>8
  <2>10. s[k] = jql[i]
    BY <2>2, <2>9, Zenon DEF AreLeft, Follows
  <2>. QED BY <2>4, <2>9, <2>10, Zenon
<1>10. ParseJQL.keys = {} \/ x.key \in ParseJQL.keys
  BY <1>9, Parsed
<1>. QED BY <1>6, <1>7, <1>8, <1>10, Parsed, Zenon DEF ToYouTrackQuery

(* ... and of a clause that comes once the value is found, ...             *)
LEMMA ClauseIsLeft ==
  ASSUME NEW t \in Seq(Tokens), NEW s \in Seq(Tokens), NEW g,
         IsQuery(t), AreLeft(g, t, s), NEW i \in DOMAIN t, t[i].kind \in ClauseKinds
  PROVE  \E p \in 1..Len(s) : g[p] = i /\ p \in OutsideLists(s)
<1>1. Survives(t, i)
  BY OtherKinds, Zenon DEF Survives
<1>2. PICK p \in 1..Len(s) : g[p] = i
  BY <1>1, Zenon DEF AreLeft, Kept
<1>3. s[p] = t[i]
  BY <1>2, Zenon DEF AreLeft, Follows
<1>4. p \in OutsideLists(s)
  BY <1>3, LeftOfQuery, Zenon
<1>. QED BY <1>2, <1>4, Zenon

LEMMA FirstIsOnly ==
  ASSUME NEW t \in Seq(Tokens), NEW s \in Seq(Tokens), NEW g, AreLeft(g, t, s),
         NEW i \in DOMAIN t, NEW type, \A k \in DOMAIN t : t[k].kind = type => k = i,
         t[i].kind = type,
         NEW positions \in SUBSET (1..Len(s)), \E p \in positions : g[p] = i
  PROVE  First(s, type, positions) = t[i].value
BY FirstComesFrom

(* ... so that no other issue is.                                          *)
LEMMA FoundAreWanted ==
  ASSUME jql \in Seq(Tokens), IsQuery(jql), ProjectsAreNamed,
         NEW s \in Seq(Tokens), s = Rest(result), NEW g, AreLeft(g, jql, s),
         EachOnce(jql), NEW x \in ToYouTrackQuery(ParseJQL)
  PROVE  Matches(x, jql)
<1>. DEFINE all == DOMAIN s
<1>0. all = 1..Len(s)
  BY SequenceOfTokens, Zenon
<1>1. all \in SUBSET (1..Len(s)) /\ OutsideLists(s) \in SUBSET (1..Len(s))
  BY SequenceOfTokens, Zenon DEF OutsideLists
<1>2. /\ Project(ParseJQL) \in {Absent, x.project}
      /\ x.created >= First(s, "created", all)
      /\ x.updated >= First(s, "updated", all)
      /\ ParseJQL.keys = {} \/ x.key \in ParseJQL.keys
  BY Parsed, Zenon DEF ToYouTrackQuery
<1>3. /\ ParseJQL.project = First(s, "project", all)
      /\ ParseJQL.filter = First(s, "filter", OutsideLists(s))
      /\ ParseJQL.keys = {s[k].value : k \in Keys(s)}
  BY Parsed
<1>. HIDE DEF all
<1>4. ASSUME NEW i \in DOMAIN jql, jql[i].kind \in ClauseKinds
      PROVE  /\ \E p \in all : g[p] = i
             /\ \E p \in OutsideLists(s) : g[p] = i
  BY <1>0, <1>4, ClauseIsLeft
<1>5. ASSUME NEW i \in DOMAIN jql, jql[i].kind = "created"
      PROVE  x.created >= jql[i].value
  <2>1. jql[i].kind \in ClauseKinds
    BY <1>5 DEF ClauseKinds
  <2>2. \A k \in DOMAIN jql : jql[k].kind = "created" => k = i
    BY <1>5, OnlyOne DEF EachOnce
  <2>3. First(s, "created", all) = jql[i].value
    BY <1>1, <1>4, <1>5, <2>1, <2>2, FirstIsOnly
  <2>. QED BY <1>2, <2>3, Zenon
<1>6. ASSUME NEW i \in DOMAIN jql, jql[i].kind = "updated"
      PROVE  x.updated >= jql[i].value
  <2>1. jql[i].kind \in ClauseKinds
    BY <1>6 DEF ClauseKinds
  <2>2. \A k \in DOMAIN jql : jql[k].kind = "updated" => k = i
    BY <1>6, OnlyOne DEF EachOnce
  <2>3. First(s, "updated", all) = jql[i].value
    BY <1>1, <1>4, <1>6, <2>1, <2>2, FirstIsOnly
  <2>. QED BY <1>2, <2>3, Zenon
<1>7. ASSUME NEW i \in DOMAIN jql, jql[i].kind \in {"project", "filter"}
      PROVE  x.project = jql[i].value
  <2>1. jql[i].kind \in ClauseKinds /\ "project" # "filter"
    BY <1>7 DEF ClauseKinds
  <2>5. \A k \in DOMAIN jql : jql[k].kind \in {"project", "filter"} => k = i
    BY <1>7, OnlyOne DEF EachOnce
  <2>2. jql[i].value # Absent
    BY <1>7, Zenon DEF ProjectsAreNamed
  <2>3. CASE jql[i].kind = "project"
    <3>1. First(s, "project", all) = jql[i].value
      BY <1>1, <1>4, <2>1, <2>3, <2>5, FirstIsOnly
    <3>. QED BY <1>2, <1>3, <2>2, <3>1, Zenon DEF Project
  <2>4. CASE jql[i].kind = "filter"
    <3>1. First(s, "filter", OutsideLists(s)) = jql[i].value
      BY <1>1, <1>4, <2>1, <2>4, <2>5, FirstIsOnly
    <3>2. First(s, "project", all) = Absent
      <4>1. ASSUME NEW k \in DOMAIN jql, jql[k].kind = "project"
            PROVE  FALSE
        <5>1. k = i
          BY <2>5, <4>1
        <5>. QED BY <2>1, <2>4, <4>1, <5>1, Zenon
      <4>2. \/ First(s, "project", all) = Absent
            \/ \E k \in DOMAIN jql : jql[k].kind = "project"
        BY <1>1, FirstComesFrom
      <4>. QED BY <4>1, <4>2, Zenon
    <3>. QED BY <1>2, <1>3, <2>2, <3>1, <3>2, Zenon DEF Project
  <2>. QED BY <1>7, <2>3, <2>4, Zenon
<1>8. ASSUME NEW i \in DOMAIN jql, jql[i] = In
      PROVE  \E k \in DOMAIN jql : /\ k > i /\ NoneCloses(jql, i, k)
                                   /\ jql[k].kind = "key" /\ x.key = jql[k].value
  <2>1. ListsIn(s) # {}
    <3>1. PICK b \in DOMAIN jql : WholeList(jql, i, b)
      BY <1>8, QueryTokens, Zenon DEF ListsAreWhole
    <3>2. i <= i /\ i <= b /\ b <= b
      BY <3>1 DEF WholeList
    <3>3. PICK p \in 1..Len(s) : g[p] = i
      BY <3>1, <3>2, WholeIsLeft
    <3>4. PICK q \in 1..Len(s) : g[q] = b
      BY <3>1, <3>2, WholeIsLeft
    <3>5. ListAt(s, p, q)
      BY <3>1, <3>3, <3>4, WholeIsList, Zenon
    <3>. QED BY <3>5, ListIsIn, Zenon
  <2>2. PICK a, b \in DOMAIN jql :
          /\ WholeList(jql, a, b)
          /\ \A k \in Keys(s) : k \in 1..Len(s) /\ g[k] \in (a + 2)..(b - 1)
          /\ \A j \in (a + 2)..(b - 1) : \E k \in Keys(s) : g[k] = j
    BY <2>1, FirstListOfQuery
  <2>3. /\ a + 2 < b /\ jql[a] = In /\ jql[a + 1] = Open
        /\ \A k \in (a + 2)..(b - 1) : jql[k].kind = "key"
    BY <2>2 DEF WholeList
  <2>4. a = i
    BY <1>8, <2>3, TokenKinds, OnlyOne DEF EachOnce
  <2>5. a \in 1..Len(jql) /\ b \in 1..Len(jql) /\ Len(jql) \in Nat
    BY SequenceOfTokens, Zenon
  <2>6. a + 2 \in (a + 2)..(b - 1)
    BY <2>3, <2>5
  <2>7. Keys(s) # {}
    BY <2>2, <2>6
  <2>8. PICK k \in Keys(s) : x.key = s[k].value
    BY <1>2, <1>3, <2>7
  <2>. DEFINE n == g[k]
  <2>9. n \in (a + 2)..(b - 1) /\ s[k] = jql[n]
    BY <2>2, <2>8, Zenon DEF AreLeft, Follows
  <2>. HIDE DEF n
  <2>10. n \in 1..Len(jql) /\ n > a
    BY <2>5, <2>9
  <2>11. ASSUME NEW m \in a..n PROVE jql[m] # Close
    <3>1. m = a \/ m = a + 1 \/ m \in (a + 2)..(b - 1)
      BY <2>5, <2>9
    <3>. QED BY <2>3, <3>1, TokenKinds, OtherKinds, Zenon
  <2>12. NoneCloses(jql, a, n)
    BY <2>11, Zenon DEF NoneCloses
  <2>13. n \in DOMAIN jql
    BY <2>10, SequenceOfTokens, Zenon
  <2>. QED BY <2>3, <2>4, <2>8, <2>9, <2>10, <2>12, <2>13, Zenon
<1>. QED BY <1>5, <1>6, <1>7, <1>8, MatchesEach, Zenon

LEMMA ScanAnswers == ScanInv => QueriesAreAnswered
<1>. SUFFICES ASSUME ScanInv, Decided PROVE QueriesAreAnswered
  BY DEF QueriesAreAnswered
<1>. DEFINE s == Rest(result)
            wanted == {x \in YouTrackIssues : Matches(x, jql)}
            found == ToYouTrackQuery(ParseJQL)
<1>1. ParenthesesInv /\ ProjectsAreNamed /\ jql \in Seq(Tokens) /\ result \in Seq(Tokens)
  BY DEF ScanInv, ParenthesesInv, ParenthesesTypeOK
<1>2. s \in Seq(Tokens)
  BY <1>1, RestIsPrefix, Zenon
<1>3. ASSUME ParseJQL.ok, ~ListInList(result)
      PROVE  Balanced(result)
  <2>1. /\ verdict = "accepted"
        /\ \A k \in OutsideLists(s) : s[k].kind \in ClauseKinds \/ s[k] \in Connectors
    BY <1>3, Parsed, Zenon
  <2>2. /\ Opened(result, Len(result)) /\ inListDepth \in Nat
        /\ Count(result, Len(result), Open) = Count(result, Len(result), Close) + inListDepth
        /\ \A k \in DOMAIN result : result[k] = Open => k > 1 /\ result[k - 1] = In
    BY <1>1 DEF ParenthesesInv, ParenthesesTypeOK
  <2>3. Count(result, Len(result), Open) <= Count(result, Len(result), Close)
    BY <1>1, <1>3, <2>1, <2>2, ListsAreClosed, Zenon
  <2>4. Len(result) \in Nat
    BY <1>1, SequenceOfTokens, Zenon
  <2>5. /\ Count(result, Len(result), Open) \in Nat
        /\ Count(result, Len(result), Close) \in Nat
    BY <2>4, CountIsNat, Zenon
  <2>6. Count(result, Len(result), Open) = Count(result, Len(result), Close)
    BY <2>2, <2>3, <2>5
  <2>. QED BY <2>2, <2>6, Zenon DEF Balanced
<1>4. ASSUME IsQuery(jql)
      PROVE  verdict = "accepted" /\ \E g : AreLeft(g, jql, s)
  <2>1. verdict = "accepted"
    <3>1. Balanced(jql) /\ \A i \in DOMAIN jql : ~EmptyGroupAt(i)
      BY <1>1, <1>4, QueryGroups, Zenon DEF IsQuery
    <3>2. verdict # "refused"
      BY <1>1, <3>1, Zenon DEF ParenthesesInv
    <3>. QED BY <3>2, Zenon DEF Decided
  <2>2. scanned = Len(jql)
    BY <1>1, <2>1 DEF ParenthesesInv
  <2>3. PICK f : Keeps(f, jql, result, Len(jql), inListDepth)
    BY <2>2, Zenon DEF ScanInv
  <2>. QED BY <1>1, <1>4, <2>1, <2>3, QueryIsLeft, Zenon
<1>5. ASSUME IsQuery(jql) PROVE ParseJQL.ok
  <2>1. PICK g : AreLeft(g, jql, s)
    BY <1>4, <1>5
  <2>2. /\ \A k \in Keys(s) : s[k].kind = "key"
        /\ \A k \in OutsideLists(s) : s[k].kind \in ClauseKinds \/ s[k] \in Connectors
    BY <1>1, <1>2, <1>5, <2>1, LeftOfQuery, Zenon
  <2>. QED BY <1>4, <1>5, <2>2, Parsed, Zenon
<1>6. ASSUME IsQuery(jql) PROVE wanted \subseteq found
  <2>1. PICK g : AreLeft(g, jql, s)
    BY <1>4, <1>6
  <2>. QED BY <1>1, <1>2, <1>6, <2>1, WantedAreFound, Zenon
<1>7. ASSUME IsQuery(jql), EachOnce(jql)
      PROVE  found = wanted
  <2>1. PICK g : AreLeft(g, jql, s)
    BY <1>4, <1>7
  <2>2. ASSUME NEW x \in found PROVE x \in wanted
    <3>1. Matches(x, jql)
      BY <1>1, <1>2, <1>7, <2>1, <2>2, FoundAreWanted, Zenon
    <3>2. x \in YouTrackIssues
      BY <2>2 DEF ToYouTrackQuery
    <3>. QED BY <3>1, <3>2
  <2>. QED BY <1>6, <1>7, <2>2, Zenon
<1>. QED BY <1>3, <1>5, <1>6, <1>7, Zenon DEF QueriesAreAnswered

(* Of every query and all issues: no query of supported clauses is         *)
(* refused, however it is nested; nothing is answered of a query of which  *)
(* a list is left open, unless it is in a list; if all connectors are AND, *)
(* no issue that is asked for is lost, and if no kind of clause comes      *)
(* twice, no other is found.                                               *)
THEOREM QueriesAreAlwaysAnswered == ParenthesesSpec => []QueriesAreAnswered
BY QueriesAreKept, ScanAnswers, PTL

-----------------------------------------------------------------------------
(* JQL as a grammar: what is in every set that has the clauses and the     *)
(* lists of keys, and with a condition the same in parentheses, and with   *)
(* two the first, a connector and the second.                              *)
IsPart(u, t, o) == o + Len(u) <= Len(t) /\ \A k \in 1..Len(u) : u[k] = t[k + o]
HasConditions(S) ==
  /\ \A t \in Seq(Tokens) :
       (Len(t) = 1 /\ t[1].kind \in ClauseKinds) \/ WholeList(t, 1, Len(t)) => t \in S
  /\ \A t \in Seq(Tokens), u \in S : t = <<Open>> \o u \o <<Close>> => t \in S
  /\ \A t \in Seq(Tokens), u, v \in S, c \in Connectors : t = u \o <<c>> \o v => t \in S
Expression(t) == \A S \in SUBSET Seq(Tokens) : HasConditions(S) => t \in S

LEMMA ListInPart ==
  ASSUME NEW t \in Seq(Tokens), NEW u \in Seq(Tokens), NEW o \in Nat, IsPart(u, t, o),
         NEW a \in 1..Len(u), NEW b \in 1..Len(u)
  PROVE  WholeList(u, a, b) <=> WholeList(t, a + o, b + o)
<1>0. Len(u) \in Nat /\ \A k \in 1..Len(u) : u[k] = t[k + o]
  BY SequenceOfTokens, Zenon DEF IsPart
<1>1. CASE ~(a + 2 < b)
  <2>1. ~((a + o) + 2 < b + o)
    BY <1>0, <1>1
  <2>. QED BY <1>1, <2>1, Zenon DEF WholeList
<1>2. CASE a + 2 < b
  <2>1. (a + o) + 2 < b + o /\ a + 1 \in 1..Len(u) /\ (a + 1) + o = (a + o) + 1
    BY <1>0, <1>2
  <2>2. u[a] = t[a + o] /\ u[a + 1] = t[(a + o) + 1] /\ u[b] = t[b + o]
    BY <1>0, <2>1
  <2>3. (\A k \in (a + 2)..(b - 1) : u[k].kind = "key") <=>
          (\A k \in ((a + o) + 2)..((b + o) - 1) : t[k].kind = "key")
    <3>1. ASSUME \A k \in (a + 2)..(b - 1) : u[k].kind = "key",
                 NEW k \in ((a + o) + 2)..((b + o) - 1)
          PROVE  t[k].kind = "key"
      <4>1. k - o \in (a + 2)..(b - 1) /\ k - o \in 1..Len(u) /\ (k - o) + o = k
        BY <1>0
      <4>. QED BY <1>0, <3>1, <4>1, Zenon
    <3>2. ASSUME \A k \in ((a + o) + 2)..((b + o) - 1) : t[k].kind = "key",
                 NEW k \in (a + 2)..(b - 1)
          PROVE  u[k].kind = "key"
      <4>1. k + o \in ((a + o) + 2)..((b + o) - 1) /\ k \in 1..Len(u)
        BY <1>0
      <4>. QED BY <1>0, <3>2, <4>1, Zenon
    <3>. QED BY <3>1, <3>2, Zenon
  <2>. QED BY <1>2, <2>1, <2>2, <2>3, Zenon DEF WholeList
<1>. QED BY <1>1, <1>2

LEMMA ListEndsOnce ==
  ASSUME NEW t, NEW a \in Nat, NEW b \in Nat, NEW c \in Nat,
         WholeList(t, a, b), WholeList(t, a, c)
  PROVE  b = c
<1>1. a + 2 < b /\ a + 2 < c /\ t[b] = Close /\ t[c] = Close
  BY DEF WholeList
<1>2. b <= c => b = c
  <2>1. a <= b
    BY <1>1
  <2>. QED BY <1>1, <2>1, ListParentheses
<1>3. c <= b => b = c
  <2>1. a <= c
    BY <1>1
  <2>. QED BY <1>1, <2>1, ListParentheses
<1>. QED BY <1>2, <1>3

(* A list that begins in a part, all lists of which are whole, ends in it. *)
LEMMA ListStaysInPart ==
  ASSUME NEW t \in Seq(Tokens), NEW u \in Seq(Tokens), NEW o \in Nat, IsPart(u, t, o),
         ListsAreWhole(u), NEW a \in 1..Len(u), NEW b \in Nat, WholeList(t, a + o, b)
  PROVE  \E c \in 1..Len(u) : b = c + o /\ WholeList(u, a, c)
<1>1. u[a] = In /\ DOMAIN u = 1..Len(u)
  <2>1. u[a] = t[a + o] /\ t[a + o] = In
    BY DEF IsPart, WholeList
  <2>. QED BY <2>1, SequenceOfTokens, Zenon
<1>2. PICK c \in 1..Len(u) : WholeList(u, a, c)
  BY <1>1, Zenon DEF ListsAreWhole
<1>3. WholeList(t, a + o, c + o)
  BY <1>2, ListInPart, Zenon
<1>4. a + o \in Nat /\ c + o \in Nat
  OBVIOUS
<1>5. b = c + o
  BY <1>3, <1>4, ListEndsOnce, Zenon
<1>. QED BY <1>2, <1>5

-----------------------------------------------------------------------------
LEMMA CountInPart ==
  ASSUME NEW t \in Seq(Tokens), NEW u \in Seq(Tokens), NEW o \in Nat, IsPart(u, t, o),
         NEW token, NEW n \in 0..Len(u)
  PROVE  Count(t, n + o, token) = Count(t, o, token) + Count(u, n, token)
<1>. DEFINE Wrong == {m \in 0..Len(u) :
                        Count(t, m + o, token) # Count(t, o, token) + Count(u, m, token)}
<1>0. Len(u) \in Nat /\ \A k \in 1..Len(u) : u[k] = t[k + o]
  BY SequenceOfTokens, Zenon DEF IsPart
<1>1. Wrong = {}
  <2>. SUFFICES ASSUME Wrong # {} PROVE FALSE
    OBVIOUS
  <2>1. Wrong \in SUBSET Nat
    BY <1>0
  <2>2. PICK m \in Wrong : \A y \in Wrong : m <= y
    <3>. HIDE DEF Wrong
    <3>. QED BY <2>1, Least, Zenon
  <2>3. /\ m \in 0..Len(u)
        /\ Count(t, m + o, token) # Count(t, o, token) + Count(u, m, token)
    OBVIOUS
  <2>4. m # 0
    <3>. SUFFICES ASSUME m = 0 PROVE FALSE
      OBVIOUS
    <3>1. Count(t, o, token) \in Nat /\ Count(u, 0, token) = 0
      BY CountIsNat, CountOfNone, Zenon
    <3>2. m + o = o
      OBVIOUS
    <3>3. Count(t, o, token) # Count(t, o, token) + 0
      BY <2>3, <3>1, <3>2, Zenon
    <3>. QED BY <3>1, <3>3
  <2>5. m - 1 \in 0..Len(u) /\ ~(m <= m - 1) /\ m - 1 \in Nat /\ (m - 1) + o \in Nat
        /\ (m - 1) + 1 = m /\ ((m - 1) + o) + 1 = m + o /\ m \in 1..Len(u) /\ m \in Nat
    BY <1>0, <2>3, <2>4
  <2>6. Count(t, (m - 1) + o, token) = Count(t, o, token) + Count(u, m - 1, token)
    BY <2>2, <2>5, Zenon
  <2>7. /\ Count(t, m + o, token) =
             Count(t, (m - 1) + o, token) + (IF t[m + o] = token THEN 1 ELSE 0)
        /\ Count(u, m, token) = Count(u, m - 1, token) + (IF u[m] = token THEN 1 ELSE 0)
    <3>1. Count(t, ((m - 1) + o) + 1, token) =
            Count(t, (m - 1) + o, token) + (IF t[((m - 1) + o) + 1] = token THEN 1 ELSE 0)
      BY <2>5, CountOneMore, Zenon
    <3>2. Count(u, (m - 1) + 1, token) =
            Count(u, m - 1, token) + (IF u[(m - 1) + 1] = token THEN 1 ELSE 0)
      BY <2>5, CountOneMore, Zenon
    <3>. QED BY <2>5, <3>1, <3>2, Zenon
  <2>8. u[m] = t[m + o]
    BY <1>0, <2>5, Zenon
  <2>9. /\ Count(t, o, token) \in Nat /\ Count(u, m - 1, token) \in Nat
        /\ Count(u, m, token) \in Nat
    BY <2>5, CountIsNat, Zenon
  <2>. HIDE DEF Wrong
  <2>. QED BY <2>3, <2>6, <2>7, <2>8, <2>9
<1>. QED BY <1>1

(* Nothing is open at the end.                                             *)
LEMMA LastIsNotOpen ==
  ASSUME NEW t \in Seq(Tokens), Balanced(t), t # << >>
  PROVE  t[Len(t)] # Open
<1>1. Len(t) \in Nat /\ Len(t) \in 1..Len(t)
  BY SequenceOfTokens, Zenon
<1>. DEFINE n == Len(t) - 1
<1>2. n \in Nat /\ n \in 0..Len(t) /\ n + 1 = Len(t)
  BY <1>1
<1>3. \A x : Count(t, n + 1, x) = Count(t, n, x) + (IF t[n + 1] = x THEN 1 ELSE 0)
  BY <1>2, CountOneMore
<1>4. /\ Count(t, n, Close) <= Count(t, n, Open)
      /\ Count(t, n + 1, Open) = Count(t, n + 1, Close)
  BY <1>2, Zenon DEF Balanced, Opened
<1>5. Count(t, n, Close) \in Nat /\ Count(t, n, Open) \in Nat
  BY <1>2, CountIsNat, Zenon
<1>. HIDE DEF n
<1>6. t[n + 1] # Open
  <2>. SUFFICES ASSUME t[n + 1] = Open PROVE FALSE
    OBVIOUS
  <2>1. Count(t, n + 1, Open) = Count(t, n, Open) + 1
    BY <1>3, Zenon
  <2>2. Count(t, n + 1, Close) = Count(t, n, Close) + 0
    BY <1>3, ParenthesesDiffer, Zenon
  <2>. QED BY <1>4, <1>5, <2>1, <2>2
<1>. QED BY <1>2, <1>6

-----------------------------------------------------------------------------
(* In a query of which a condition u is a part, the tokens of u stand      *)
(* where they may.                                                         *)
MayStand(t, k) ==
  /\ \/ Operand(t, k) \/ t[k] \in Connectors \cup {Open, Close}
     \/ k = Len(t) /\ t[k].kind = "order by"
  /\ Operand(t, k) \/ t[k] = Open <=> k = 1 \/ t[k - 1] \in Connectors \cup {Open}

LEMMA QueryIs ==
  ASSUME NEW t \in Seq(Tokens)
  PROVE  IsQuery(t) <=> /\ t # << >> /\ t[Len(t)] \notin Connectors /\ Balanced(t)
                        /\ \A k \in 1..Len(t) : ~Inside(t, k) => MayStand(t, k)
<1>1. DOMAIN t = 1..Len(t)
  BY SequenceOfTokens, Zenon
<1>. QED BY <1>1 DEF IsQuery, MayStand

(* No list reaches from outside of a part into it.                         *)
Apart(u, t, o) ==
  \A a, b \in DOMAIN t :
    WholeList(t, a, b) => a - o \in 1..Len(u) \/ a > o + Len(u) \/ b <= o

LEMMA PartStands ==
  ASSUME NEW t \in Seq(Tokens), NEW u \in Seq(Tokens), NEW o \in Nat, IsPart(u, t, o),
         IsQuery(u), ~OrderLast(u), Apart(u, t, o),
         (o = 0 \/ t[o] \in Connectors \cup {Open}),
         NEW k \in 1..Len(u), ~Inside(t, k + o)
  PROVE  MayStand(t, k + o)
<1>1. Len(u) \in Nat /\ Len(t) \in Nat /\ o + Len(u) <= Len(t)
  BY SequenceOfTokens, Zenon DEF IsPart
<1>2. \A m \in 1..Len(u) : u[m] = t[m + o] /\ m + o \in 1..Len(t)
  <2>1. \A m \in 1..Len(u) : m + o \in 1..Len(t)
    BY <1>1
  <2>. QED BY <2>1, Zenon DEF IsPart
<1>3. DOMAIN t = 1..Len(t) /\ DOMAIN u = 1..Len(u)
  BY SequenceOfTokens, Zenon
<1>4. ListsAreWhole(u)
  BY QueryTokens, Zenon
<1>5. Operand(u, k) <=> Operand(t, k + o)
  <2>1. ASSUME NEW j \in 1..Len(u), WholeList(u, k, j)
        PROVE  \E i \in 1..Len(t) : WholeList(t, k + o, i)
    BY <1>2, <2>1, ListInPart, Zenon
  <2>2. ASSUME NEW j \in 1..Len(t), WholeList(t, k + o, j)
        PROVE  \E i \in 1..Len(u) : WholeList(u, k, i)
    <3>1. j \in Nat
      BY <1>1
    <3>. QED BY <1>4, <2>2, <3>1, ListStaysInPart, Zenon
  <2>. QED BY <1>2, <1>3, <2>1, <2>2, Zenon DEF Operand
<1>6. ~Inside(u, k)
  <2>. SUFFICES ASSUME NEW a \in 1..Len(u), NEW b \in 1..Len(u), a < k, k <= b,
                       WholeList(u, a, b)
               PROVE  FALSE
    BY <1>3, Zenon DEF Inside
  <2>1. WholeList(t, a + o, b + o) /\ a + o \in 1..Len(t) /\ b + o \in 1..Len(t)
    BY <1>2, ListInPart, Zenon
  <2>2. a + o < k + o /\ k + o <= b + o
    BY <1>1
  <2>. QED BY <1>3, <2>1, <2>2, Zenon DEF Inside
<1>7. MayStand(u, k)
  BY <1>6, QueryIs, Zenon
<1>8. ~(k = Len(u) /\ u[k].kind = "order by")
  <2>1. u # << >>
    BY SequenceOfTokens, Zenon DEF IsQuery
  <2>. QED BY <2>1, Zenon DEF OrderLast
<1>9. Operand(t, k + o) \/ t[k + o] \in Connectors \cup {Open, Close}
  BY <1>2, <1>5, <1>7, <1>8, Zenon DEF MayStand
<1>10. (k = 1 \/ u[k - 1] \in Connectors \cup {Open})
         <=> (k + o = 1 \/ t[(k + o) - 1] \in Connectors \cup {Open})
  <2>1. CASE k = 1
    <3>1. o = 0 => k + o = 1
      BY <2>1
    <3>2. (k + o) - 1 = o
      BY <2>1
    <3>. QED BY <2>1, <3>1, <3>2, Zenon
  <2>2. CASE k # 1
    <3>1. k - 1 \in 1..Len(u) /\ (k - 1) + o = (k + o) - 1 /\ k + o # 1
      BY <1>1, <2>2
    <3>2. u[k - 1] = t[(k + o) - 1]
      BY <1>2, <3>1
    <3>. QED BY <2>2, <3>1, <3>2, Zenon
  <2>. QED BY <2>1, <2>2
<1>. QED BY <1>2, <1>5, <1>7, <1>9, <1>10, Zenon DEF MayStand

(* A condition that is the beginning of a query, or the end.               *)
LEMMA EndOfQuery ==
  ASSUME NEW u \in Seq(Tokens), IsQuery(u), ~OrderLast(u)
  PROVE  /\ Len(u) \in 1..Len(u) /\ u[Len(u)] \notin Connectors /\ u[Len(u)] # Open
         /\ u[Len(u)].kind # "order by"
         /\ Len(u) \in Nat /\ Opened(u, Len(u))
         /\ Count(u, Len(u), Open) = Count(u, Len(u), Close)
<1>1. u # << >> /\ u[Len(u)] \notin Connectors /\ Balanced(u)
  BY DEF IsQuery
<1>. QED BY <1>1, SequenceOfTokens, LastIsNotOpen, Zenon DEF OrderLast, Balanced

LEMMA ClauseIsQuery ==
  ASSUME NEW t \in Seq(Tokens), Len(t) = 1, t[1].kind \in ClauseKinds
  PROVE  IsQuery(t) /\ ~OrderLast(t)
<1>1. t[1] # Open /\ t[1] # Close /\ t[1] \notin Connectors /\ t[1].kind # "order by"
  BY OtherKinds, Zenon
<1>2. t # << >> /\ \A k \in 1..Len(t) : k = 1
  <2>1. Len(t) \in 1..Len(t) /\ \A k \in 1..1 : k = 1
    OBVIOUS
  <2>. QED BY <2>1, SequenceOfTokens, Zenon
<1>3. \A x \in {Open, Close} : Count(t, 0, x) = 0 /\ Count(t, 1, x) = 0
  <2>. TAKE x \in {Open, Close}
  <2>1. Count(t, 0, x) = 0 /\ Count(t, 0 + 1, x) = Count(t, 0, x) + 0
    <3>1. 0 \in Nat /\ 0 + 1 = 1
      OBVIOUS
    <3>2. t[0 + 1] # x
      BY <1>1, <3>1, Zenon
    <3>. QED BY <3>1, <3>2, CountOneMore, CountOfNone, Zenon
  <2>. QED BY <2>1
<1>4. Balanced(t)
  <2>1. \A m \in 0..1 : m = 0 \/ m = 1
    OBVIOUS
  <2>2. 0 <= 0
    OBVIOUS
  <2>. QED BY <1>3, <2>1, <2>2, Zenon DEF Balanced, Opened
<1>5. \A k \in 1..Len(t) : MayStand(t, k)
  BY <1>2, Zenon DEF MayStand, Operand
<1>6. IsQuery(t)
  BY <1>1, <1>2, <1>4, <1>5, QueryIs, Zenon
<1>. QED BY <1>1, <1>6, Zenon DEF OrderLast

LEMMA ListIsQuery ==
  ASSUME NEW t \in Seq(Tokens), WholeList(t, 1, Len(t))
  PROVE  IsQuery(t) /\ ~OrderLast(t)
<1>. DEFINE n == Len(t)
<1>1. n \in Nat /\ DOMAIN t = 1..n
  BY SequenceOfTokens, Zenon
<1>2. /\ 1 + 2 < n /\ t[1] = In /\ t[1 + 1] = Open /\ t[n] = Close
  BY Zenon DEF WholeList
<1>. HIDE DEF n
<1>3. n \in 1..n /\ 1 \in 1..n /\ 2 \in 1..n /\ 1 + 1 = 2 /\ 1 \in Nat
  BY <1>1, <1>2
<1>4. \A i \in 1..n : (t[i] = Open <=> i = 2) /\ (t[i] = Close <=> i = n)
  <2>1. \A i \in 1..n : i \in Nat /\ 1 <= i /\ i <= n
    BY <1>1
  <2>2. \A i \in 1..n : (t[i] = Open => i = 1 + 1) /\ (t[i] = Close => i = n)
    <3>1. WholeList(t, 1, n)
      BY Zenon DEF n
    <3>. QED BY <1>1, <1>3, <2>1, <3>1, ListParentheses
  <2>. QED BY <1>2, <1>3, <2>2, Zenon
<1>5. ASSUME NEW m \in 0..n
      PROVE  /\ Count(t, m, Close) = IF m = n THEN 1 ELSE 0
             /\ Count(t, m, Open) = IF m >= 2 THEN 1 ELSE 0
  <2>1. \A i \in 1..m : i \in 1..n
    BY <1>1
  <2>2. ASSUME m = n PROVE Count(t, m, Close) = 1
    <3>1. {i \in 1..m : t[i] = Close} = {n}
      BY <1>3, <1>4, <2>2, Zenon
    <3>. QED BY <3>1, FS_Singleton, Zenon DEF Count
  <2>3. ASSUME m # n PROVE Count(t, m, Close) = 0
    <3>1. n \notin 1..m
      BY <1>1, <2>3
    <3>2. {i \in 1..m : t[i] = Close} = {}
      BY <1>4, <2>1, <3>1, Zenon
    <3>. QED BY <3>2, FS_EmptySet, Zenon DEF Count
  <2>4. ASSUME m >= 2 PROVE Count(t, m, Open) = 1
    <3>1. 2 \in 1..m
      BY <1>1, <2>4
    <3>2. {i \in 1..m : t[i] = Open} = {2}
      BY <1>4, <2>1, <3>1, Zenon
    <3>. QED BY <3>2, FS_Singleton, Zenon DEF Count
  <2>5. ASSUME ~(m >= 2) PROVE Count(t, m, Open) = 0
    <3>1. 2 \notin 1..m
      BY <1>1, <2>5
    <3>2. {i \in 1..m : t[i] = Open} = {}
      BY <1>4, <2>1, <3>1, Zenon
    <3>. QED BY <3>2, FS_EmptySet, Zenon DEF Count
  <2>6. Count(t, m, Close) = IF m = n THEN 1 ELSE 0
    BY <2>2, <2>3, Zenon
  <2>7. Count(t, m, Open) = IF m >= 2 THEN 1 ELSE 0
    BY <2>4, <2>5, Zenon
  <2>. QED BY <2>6, <2>7, Zenon
<1>6. Balanced(t)
  <2>1. \A m \in 0..n : Count(t, m, Close) <= Count(t, m, Open)
    BY <1>1, <1>2, <1>5
  <2>2. n \in 0..n /\ n >= 2
    BY <1>1, <1>2
  <2>3. Count(t, n, Open) = Count(t, n, Close)
    BY <1>5, <2>2, Zenon
  <2>. QED BY <2>1, <2>3, Zenon DEF Balanced, Opened, n
<1>7. ASSUME NEW k \in 1..n, ~Inside(t, k)
      PROVE  MayStand(t, k)
  <2>1. ~(1 < k /\ k <= n)
    BY <1>1, <1>3, <1>7, Zenon DEF Inside, n
  <2>2. k = 1
    BY <1>1, <2>1
  <2>3. Operand(t, 1)
    BY <1>1, <1>3, Zenon DEF Operand, n
  <2>. QED BY <2>2, <2>3, Zenon DEF MayStand
<1>8. t[n] \notin Connectors /\ t[n].kind # "order by"
  BY <1>2, OtherKinds, Zenon
<1>9. t # << >>
  BY <1>3, SequenceOfTokens, Zenon DEF n
<1>10. IsQuery(t)
  BY <1>6, <1>7, <1>8, <1>9, QueryIs, Zenon DEF n
<1>. QED BY <1>8, <1>10, Zenon DEF OrderLast, n

LEMMA GroupIsQuery ==
  ASSUME NEW t \in Seq(Tokens), NEW u \in Seq(Tokens), IsQuery(u), ~OrderLast(u),
         IsPart(u, t, 1), Len(t) = Len(u) + 2, t[1] = Open, t[Len(t)] = Close
  PROVE  IsQuery(t) /\ ~OrderLast(t)
<1>. DEFINE n == Len(u)
<1>1. n \in Nat /\ n \in 1..n /\ Len(t) = n + 2 /\ 1 \in Nat
  BY EndOfQuery, Zenon
<1>2. DOMAIN t = 1..(n + 2)
  BY <1>1, SequenceOfTokens, Zenon
<1>3. \A k \in 1..n : u[k] = t[k + 1]
  BY Zenon DEF IsPart
<1>4. /\ Opened(u, n) /\ Count(u, n, Open) = Count(u, n, Close)
      /\ u[n] \notin Connectors /\ u[n] # Open
  BY EndOfQuery, Zenon
<1>5. t[1] = Open /\ t[n + 2] = Close
  BY <1>1, Zenon
<1>6. \A x, m : m \in 0..n => Count(t, m + 1, x) = Count(t, 1, x) + Count(u, m, x)
  BY CountInPart
<1>7. ListsAreWhole(u)
  BY QueryTokens, Zenon
<1>. HIDE DEF n
<1>8. Apart(u, t, 1)
  <2>. SUFFICES ASSUME NEW a \in 1..(n + 2), NEW b \in 1..(n + 2), WholeList(t, a, b)
               PROVE  a - 1 \in 1..n
    BY <1>2, Zenon DEF Apart, n
  <2>1. a + 2 < b /\ t[a] = In
    BY DEF WholeList
  <2>2. a # 1
    BY <1>5, <2>1, TokenKinds, Zenon
  <2>. QED BY <1>1, <2>1, <2>2
<1>9. Count(t, 1, Open) = 1 /\ Count(t, 1, Close) = 0
  <2>1. 0 + 1 = 1 /\ 0 + 0 = 0 /\ 0 \in Nat
    OBVIOUS
  <2>2. \A x : Count(t, 0 + 1, x) = Count(t, 0, x) + (IF t[0 + 1] = x THEN 1 ELSE 0)
    BY <2>1, CountOneMore
  <2>. QED BY <1>5, <2>1, <2>2, CountOfNone, ParenthesesDiffer, Zenon
<1>10. /\ Count(t, n + 2, Open) = Count(t, n + 1, Open) + 0
       /\ Count(t, n + 2, Close) = Count(t, n + 1, Close) + 1
  <2>1. n + 1 \in Nat /\ (n + 1) + 1 = n + 2
    BY <1>1
  <2>2. \A x : Count(t, (n + 1) + 1, x) =
                 Count(t, n + 1, x) + (IF t[(n + 1) + 1] = x THEN 1 ELSE 0)
    BY <2>1, CountOneMore
  <2>. QED BY <1>5, <2>1, <2>2, ParenthesesDiffer, Zenon
<1>11. \A m \in 0..n : Count(u, m, Open) \in Nat /\ Count(u, m, Close) \in Nat
  <2>1. \A m \in 0..n : m \in Nat
    BY <1>1
  <2>. QED BY <2>1, CountIsNat, Zenon
<1>12. Balanced(t)
  <2>1. n \in 0..n
    BY <1>1
  <2>2. /\ Count(t, n + 1, Open) = 1 + Count(u, n, Open)
        /\ Count(t, n + 1, Close) = 0 + Count(u, n, Close)
    BY <1>6, <1>9, <2>1, Zenon
  <2>3. Count(t, n + 2, Open) = Count(t, n + 2, Close)
    BY <1>4, <1>10, <1>11, <2>1, <2>2
  <2>4. ASSUME NEW m \in 0..(n + 2)
        PROVE  Count(t, m, Close) <= Count(t, m, Open)
    <3>1. CASE m = 0
      BY <3>1, CountOfNone
    <3>2. CASE m = n + 2
      <4>1. Count(t, n + 2, Open) \in Nat
        BY <1>10, <1>11, <2>1, <2>2
      <4>. QED BY <2>3, <3>2, <4>1
    <3>3. CASE m # 0 /\ m # n + 2
      <4>1. m - 1 \in 0..n /\ (m - 1) + 1 = m
        BY <1>1, <3>3
      <4>2. /\ Count(t, (m - 1) + 1, Open) = 1 + Count(u, m - 1, Open)
            /\ Count(t, (m - 1) + 1, Close) = 0 + Count(u, m - 1, Close)
        BY <1>6, <1>9, <4>1, Zenon
      <4>3. Count(u, m - 1, Close) <= Count(u, m - 1, Open)
        BY <1>4, <4>1, Zenon DEF Opened
      <4>. QED BY <1>11, <4>1, <4>2, <4>3
    <3>. QED BY <3>1, <3>2, <3>3
  <2>. QED BY <1>1, <2>3, <2>4, Zenon DEF Balanced, Opened
<1>13. ASSUME NEW k \in 1..(n + 2), ~Inside(t, k)
       PROVE  MayStand(t, k)
  <2>1. CASE k = 1
    BY <1>5, <2>1, Zenon DEF MayStand
  <2>2. CASE k = n + 2
    <3>1. ~Operand(t, k) /\ t[k] # Open
      BY <1>5, <2>2, OtherKinds, TokenKinds, Zenon DEF Operand, WholeList
    <3>2. k # 1 /\ k - 1 = n + 1
      BY <1>1, <2>2
    <3>3. t[k - 1] = u[n]
      BY <1>1, <1>3, <3>2, Zenon
    <3>. QED BY <1>4, <1>5, <2>2, <3>1, <3>2, <3>3, Zenon DEF MayStand
  <2>3. CASE k # 1 /\ k # n + 2
    <3>1. k - 1 \in 1..n /\ (k - 1) + 1 = k
      BY <1>1, <2>3
    <3>2. MayStand(t, (k - 1) + 1)
      BY <1>5, <1>8, <1>13, <3>1, PartStands DEF n
    <3>. QED BY <3>1, <3>2, Zenon
  <2>. QED BY <2>1, <2>2, <2>3
<1>14. t[Len(t)] \notin Connectors /\ t[Len(t)].kind # "order by"
  BY OtherKinds, Zenon
<1>15. t # << >>
  <2>1. n + 2 \in 1..(n + 2)
    BY <1>1
  <2>. QED BY <1>1, <2>1, SequenceOfTokens, Zenon
<1>16. IsQuery(t)
  BY <1>1, <1>12, <1>13, <1>14, <1>15, QueryIs, Zenon
<1>. QED BY <1>14, <1>16, Zenon DEF OrderLast

LEMMA ConnectedIsQuery ==
  ASSUME NEW t \in Seq(Tokens), NEW u \in Seq(Tokens), NEW v \in Seq(Tokens),
         IsQuery(u), ~OrderLast(u), IsQuery(v), ~OrderLast(v),
         IsPart(u, t, 0), IsPart(v, t, Len(u) + 1), Len(t) = Len(u) + 1 + Len(v),
         t[Len(u) + 1] \in Connectors
  PROVE  IsQuery(t) /\ ~OrderLast(t)
<1>. DEFINE n == Len(u)
            l == Len(v)
            o == Len(u) + 1
<1>1. /\ n \in Nat /\ n \in 1..n /\ l \in Nat /\ l \in 1..l
      /\ Len(t) = n + 1 + l
  BY EndOfQuery, Zenon
<1>2. DOMAIN t = 1..(n + 1 + l)
  BY <1>1, SequenceOfTokens, Zenon
<1>3. /\ \A k \in 1..n : u[k] = t[k + 0]
      /\ \A k \in 1..l : v[k] = t[k + o]
  BY Zenon DEF IsPart
<1>4. /\ Opened(u, n) /\ Count(u, n, Open) = Count(u, n, Close)
      /\ u[n] \notin Connectors /\ u[n] # Open
      /\ Opened(v, l) /\ Count(v, l, Open) = Count(v, l, Close)
      /\ v[l] \notin Connectors /\ v[l].kind # "order by"
  BY EndOfQuery, Zenon
<1>5. t[n + 1] \in Connectors
  OBVIOUS
<1>6. ASSUME NEW x, NEW m \in 0..n
      PROVE  Count(t, m, x) = Count(u, m, x)
  <2>1. 0 \in Nat /\ m + 0 = m /\ m \in Nat
    BY <1>1
  <2>2. Count(t, m + 0, x) = Count(t, 0, x) + Count(u, m, x)
    BY <2>1, CountInPart
  <2>3. Count(t, 0, x) = 0 /\ Count(u, m, x) \in Nat
    BY <2>1, CountOfNone, CountIsNat, Zenon
  <2>4. \A c \in Nat : 0 + c = c
    OBVIOUS
  <2>. QED BY <2>1, <2>2, <2>3, <2>4, Zenon
<1>7. o \in Nat /\ o = n + 1
  BY <1>1
<1>8. ASSUME NEW x, NEW m \in 0..l
      PROVE  Count(t, m + o, x) = Count(t, o, x) + Count(v, m, x)
  BY <1>7, CountInPart
<1>9. ListsAreWhole(u) /\ ListsAreWhole(v)
  BY QueryTokens, Zenon
<1>10. \A x \in {Open, Close} : Count(t, o, x) = Count(u, n, x)
  <2>. TAKE x \in {Open, Close}
  <2>1. Count(t, n + 1, x) = Count(t, n, x) + 0
    <3>1. t[n + 1] # x
      BY <1>5, OtherKinds, Zenon
    <3>. QED BY <1>1, <3>1, CountOneMore, Zenon
  <2>2. n \in 0..n /\ \A c \in Nat : c + 0 = c
    BY <1>1
  <2>3. Count(t, n, x) = Count(u, n, x) /\ Count(u, n, x) \in Nat
    BY <1>1, <1>6, <2>2, CountIsNat, Zenon
  <2>. QED BY <1>7, <2>1, <2>2, <2>3, Zenon
<1>. HIDE DEF n, l, o
<1>11. ASSUME NEW a \in 1..(n + 1 + l), NEW b \in 1..(n + 1 + l), WholeList(t, a, b)
       PROVE  \/ a \in 1..n /\ b \in 1..n
              \/ a - o \in 1..l
  <2>1. a + 2 < b /\ t[a] = In
    BY <1>11 DEF WholeList
  <2>2. a # n + 1
    BY <1>5, <2>1, OtherKinds, Zenon
  <2>3. CASE a \in 1..n
    <3>1. a + 0 = a /\ b \in Nat /\ 0 \in Nat
      BY <1>1, <2>3
    <3>2. WholeList(t, a + 0, b)
      BY <1>11, <3>1, Zenon
    <3>3. \E c \in 1..n : b = c + 0 /\ WholeList(u, a, c)
      BY <1>9, <2>3, <3>1, <3>2, ListStaysInPart DEF n
    <3>4. \A c \in 1..n : c + 0 = c
      BY <1>1
    <3>. QED BY <2>3, <3>3, <3>4, Zenon
  <2>4. CASE a \notin 1..n
    BY <1>1, <1>7, <2>2, <2>4
  <2>. QED BY <2>3, <2>4
<1>12. Apart(u, t, 0)
  <2>. SUFFICES ASSUME NEW a \in 1..(n + 1 + l), NEW b \in 1..(n + 1 + l),
                       WholeList(t, a, b)
               PROVE  a - 0 \in 1..n \/ a > 0 + n
    BY <1>2, Zenon DEF Apart, n
  <2>. QED BY <1>1, <1>7, <1>11
<1>13. Apart(v, t, o)
  <2>. SUFFICES ASSUME NEW a \in 1..(n + 1 + l), NEW b \in 1..(n + 1 + l),
                       WholeList(t, a, b)
               PROVE  a - o \in 1..l \/ b <= o
    BY <1>2, Zenon DEF Apart, l
  <2>1. \A c \in 1..n : c <= o
    BY <1>1, <1>7
  <2>. QED BY <1>11, <2>1, Zenon
<1>14. /\ \A m \in 0..n : Count(u, m, Open) \in Nat /\ Count(u, m, Close) \in Nat
       /\ \A m \in 0..l : Count(v, m, Open) \in Nat /\ Count(v, m, Close) \in Nat
  <2>1. (\A m \in 0..n : m \in Nat) /\ (\A m \in 0..l : m \in Nat)
    BY <1>1
  <2>. QED BY <2>1, CountIsNat, Zenon
<1>15. Balanced(t)
  <2>1. n \in 0..n /\ l \in 0..l /\ l + o = n + 1 + l
    BY <1>1, <1>7
  <2>2. ASSUME NEW m \in 0..l
        PROVE  /\ Count(t, m + o, Open) = Count(u, n, Open) + Count(v, m, Open)
               /\ Count(t, m + o, Close) = Count(u, n, Open) + Count(v, m, Close)
    BY <1>4, <1>8, <1>10, Zenon
  <2>3. Count(t, n + 1 + l, Open) = Count(t, n + 1 + l, Close)
    <3>1. /\ Count(t, l + o, Open) = Count(u, n, Open) + Count(v, l, Open)
          /\ Count(t, l + o, Close) = Count(u, n, Open) + Count(v, l, Close)
      BY <2>1, <2>2, Zenon
    <3>. QED BY <1>4, <2>1, <3>1, Zenon
  <2>4. ASSUME NEW m \in 0..(n + 1 + l)
        PROVE  Count(t, m, Close) <= Count(t, m, Open)
    <3>1. CASE m \in 0..n
      BY <1>4, <1>6, <3>1, Zenon DEF Opened
    <3>2. CASE m \notin 0..n
      <4>1. m - o \in 0..l /\ (m - o) + o = m
        BY <1>1, <1>7, <3>2
      <4>2. /\ Count(t, m, Open) = Count(u, n, Open) + Count(v, m - o, Open)
            /\ Count(t, m, Close) = Count(u, n, Open) + Count(v, m - o, Close)
        BY <2>2, <4>1, Zenon
      <4>3. Count(v, m - o, Close) <= Count(v, m - o, Open)
        BY <1>4, <4>1, Zenon DEF Opened
      <4>. QED BY <1>14, <2>1, <4>1, <4>2, <4>3
    <3>. QED BY <3>1, <3>2
  <2>. QED BY <1>1, <2>3, <2>4, Zenon DEF Balanced, Opened
<1>16. ASSUME NEW k \in 1..(n + 1 + l), ~Inside(t, k)
       PROVE  MayStand(t, k)
  <2>1. CASE k = n + 1
    <3>1. ~Operand(t, k) /\ t[k] # Open
      BY <1>5, <2>1, OtherKinds, Zenon DEF Operand, WholeList
    <3>2. k # 1 /\ k - 1 = n + 0
      BY <1>1, <2>1
    <3>3. t[k - 1] = u[n]
      BY <1>1, <1>3, <3>2, Zenon
    <3>. QED BY <1>4, <1>5, <2>1, <3>1, <3>2, <3>3, Zenon DEF MayStand
  <2>2. CASE k \in 1..n
    <3>1. k + 0 = k /\ 0 \in Nat
      BY <1>1
    <3>2. ~Inside(t, k + 0)
      BY <1>16, <3>1, Zenon
    <3>3. MayStand(t, k + 0)
      BY <1>12, <2>2, <3>1, <3>2, PartStands DEF n
    <3>. QED BY <3>1, <3>3, Zenon
  <2>3. CASE k # n + 1 /\ k \notin 1..n
    <3>1. k - o \in 1..l /\ (k - o) + o = k
      BY <1>1, <1>7, <2>3
    <3>2. ~Inside(t, (k - o) + o) /\ t[o] \in Connectors \cup {Open}
      BY <1>5, <1>7, <1>16, <3>1, Zenon
    <3>3. IsPart(v, t, o)
      BY Zenon DEF o
    <3>4. MayStand(t, (k - o) + o)
      BY <1>7, <1>13, <3>1, <3>2, <3>3, PartStands DEF l
    <3>. QED BY <3>1, <3>4, Zenon
  <2>. QED BY <2>1, <2>2, <2>3
<1>17. t[n + 1 + l] = v[l]
  <2>1. l + o = n + 1 + l
    BY <1>1, <1>7
  <2>. QED BY <1>1, <1>3, <2>1, Zenon
<1>18. t # << >>
  <2>1. n + 1 + l \in 1..(n + 1 + l)
    BY <1>1
  <2>. QED BY <1>1, <2>1, SequenceOfTokens, Zenon
<1>19. IsQuery(t)
  BY <1>1, <1>4, <1>15, <1>16, <1>17, <1>18, QueryIs, Zenon
<1>. QED BY <1>1, <1>4, <1>17, <1>19, Zenon DEF OrderLast

LEMMA OrderedIsQuery ==
  ASSUME NEW t \in Seq(Tokens), OrderLast(t), IsQuery(Rest(t)), ~OrderLast(Rest(t))
  PROVE  IsQuery(t)
<1>. DEFINE u == Rest(t)
            n == Len(Rest(t))
<1>1. /\ u \in Seq(Tokens) /\ n \in Nat /\ n = Len(t) - 1
      /\ \A k \in 1..n : k \in 1..Len(t) /\ u[k] = t[k]
  BY RestIsPrefix, Zenon
<1>2. /\ n \in 1..n /\ Opened(u, n) /\ Count(u, n, Open) = Count(u, n, Close)
      /\ u[n] \notin Connectors /\ u[n] # Open
  BY <1>1, EndOfQuery, Zenon
<1>3. Len(t) \in Nat /\ DOMAIN t = 1..Len(t) /\ t # << >> /\ t[Len(t)].kind = "order by"
  BY SequenceOfTokens, Zenon DEF OrderLast
<1>4. IsQuery(u) /\ ~OrderLast(u) /\ n = Len(u)
  OBVIOUS
<1>. HIDE DEF u, n
<1>5. Len(t) = n + 1
  <2>1. Len(t) \in Nat
    BY <1>3
  <2>. QED BY <1>1, <2>1
<1>6. t[n + 1] \notin Connectors /\ t[n + 1] # Open /\ t[n + 1] # Close
      /\ t[n + 1].kind \notin ClauseKinds /\ t[n + 1] # In
  BY <1>3, <1>5, OtherKinds, Zenon
<1>7. 0 \in Nat /\ IsPart(u, t, 0)
  <2>1. \A k \in 1..n : k + 0 = k
    BY <1>1
  <2>2. 0 \in Nat /\ 0 + n <= n + 1
    BY <1>1
  <2>3. 0 + Len(u) <= Len(t)
    BY <1>4, <1>5, <2>2, Zenon
  <2>4. \A k \in 1..Len(u) : u[k] = t[k + 0]
    <3>. TAKE k \in 1..Len(u)
    <3>1. k \in 1..n
      BY <1>4, Zenon
    <3>2. k + 0 = k
      BY <2>1, <3>1, Zenon
    <3>. QED BY <1>1, <3>1, <3>2, Zenon
  <2>. QED BY <2>2, <2>3, <2>4, Zenon DEF IsPart
<1>8. \A x : \A m \in 0..n : Count(t, m, x) = Count(u, m, x)
  <2>. TAKE x
  <2>. TAKE m \in 0..n
  <2>1. m \in Nat /\ \A i \in 1..m : i \in 1..n
    BY <1>1
  <2>2. \A i \in 1..m : t[i] = u[i]
    BY <1>1, <2>1, Zenon
  <2>. QED BY <2>1, <2>2, CountIsLocal, Zenon
<1>9. \A x \in {Open, Close} : Count(t, n + 1, x) = Count(u, n, x)
  <2>. TAKE x \in {Open, Close}
  <2>1. t[n + 1] # x
    BY <1>6, Zenon
  <2>2. Count(t, n + 1, x) = Count(t, n, x) + 0
    BY <1>1, <2>1, CountOneMore, Zenon
  <2>3. n \in 0..n /\ \A c \in Nat : c + 0 = c
    BY <1>1
  <2>4. Count(t, n, x) = Count(u, n, x) /\ Count(t, n, x) \in Nat
    BY <1>1, <1>8, <2>3, CountIsNat, Zenon
  <2>. QED BY <2>2, <2>3, <2>4, Zenon
<1>10. Balanced(t)
  <2>1. n \in 0..n /\ \A m \in 0..(n + 1) : m \in 0..n \/ m = n + 1
    BY <1>1
  <2>2. \A m \in 0..(n + 1) : Count(t, m, Close) <= Count(t, m, Open)
    BY <1>2, <1>8, <1>9, <2>1, Zenon DEF Opened
  <2>3. Count(t, n + 1, Open) = Count(t, n + 1, Close)
    BY <1>2, <1>9, Zenon
  <2>. QED BY <1>5, <2>2, <2>3, Zenon DEF Balanced, Opened
<1>11. Apart(u, t, 0)
  <2>. SUFFICES ASSUME NEW a \in 1..(n + 1), NEW b \in 1..(n + 1), WholeList(t, a, b)
               PROVE  a - 0 \in 1..n
    BY <1>3, <1>4, <1>5, Zenon DEF Apart
  <2>1. a + 2 < b
    BY DEF WholeList
  <2>. QED BY <1>1, <2>1
<1>12. ASSUME NEW k \in 1..(n + 1), ~Inside(t, k)
       PROVE  MayStand(t, k)
  <2>1. CASE k = n + 1
    <3>1. ~Operand(t, k) /\ t[k] # Open
      BY <1>6, <2>1, Zenon DEF Operand, WholeList
    <3>2. k # 1 /\ k - 1 = n
      BY <1>1, <1>2, <2>1
    <3>3. t[k - 1] = u[n]
      BY <1>1, <1>2, <3>2, Zenon
    <3>. QED BY <1>2, <1>3, <1>5, <2>1, <3>1, <3>2, <3>3, Zenon DEF MayStand
  <2>2. CASE k # n + 1
    <3>1. k \in 1..n /\ k + 0 = k
      BY <1>1, <2>2
    <3>2. ~Inside(t, k + 0)
      BY <1>12, <3>1, Zenon
    <3>3. MayStand(t, k + 0)
      BY <1>1, <1>4, <1>7, <1>11, <3>1, <3>2, PartStands
    <3>. QED BY <3>1, <3>3, Zenon
  <2>. QED BY <2>1, <2>2
<1>. QED BY <1>3, <1>5, <1>6, <1>10, <1>12, QueryIs, Zenon

(* What the grammar makes of queries, as parts of a longer one.            *)
LEMMA GroupOfParts ==
  ASSUME NEW t \in Seq(Tokens), NEW u \in Seq(Tokens), t = <<Open>> \o u \o <<Close>>
  PROVE  Len(t) = Len(u) + 2 /\ t[1] = Open /\ t[Len(t)] = Close /\ IsPart(u, t, 1)
BY DEF IsPart

LEMMA ConnectionOfParts ==
  ASSUME NEW t \in Seq(Tokens), NEW u \in Seq(Tokens), NEW v \in Seq(Tokens),
         NEW c, t = u \o <<c>> \o v
  PROVE  /\ Len(t) = Len(u) + 1 + Len(v) /\ t[Len(u) + 1] = c
         /\ IsPart(u, t, 0) /\ IsPart(v, t, Len(u) + 1)
BY DEF IsPart

(* What the grammar writes, an ORDER BY at its end or not, is a query: of  *)
(* whatever length, and however deeply nested.                             *)
LEMMA ExpressionsAreQueries ==
  ASSUME NEW t \in Seq(Tokens), Expression(Rest(t))
  PROVE  IsQuery(t)
<1>. DEFINE Queries == {u \in Seq(Tokens) : IsQuery(u) /\ ~OrderLast(u)}
<1>1. ASSUME NEW u \in Seq(Tokens),
             (Len(u) = 1 /\ u[1].kind \in ClauseKinds) \/ WholeList(u, 1, Len(u))
      PROVE  u \in Queries
  BY <1>1, ClauseIsQuery, ListIsQuery, Zenon
<1>2. ASSUME NEW g \in Seq(Tokens), NEW u \in Queries, g = <<Open>> \o u \o <<Close>>
      PROVE  g \in Queries
  <2>1. /\ Len(g) = Len(u) + 2 /\ g[1] = Open /\ g[Len(g)] = Close
        /\ IsPart(u, g, 1)
    BY <1>2, GroupOfParts
  <2>2. IsQuery(g) /\ ~OrderLast(g)
    BY <2>1, GroupIsQuery, Zenon
  <2>. QED BY <2>2, Zenon
<1>3. ASSUME NEW g \in Seq(Tokens), NEW u \in Queries, NEW v \in Queries,
             NEW c \in Connectors, g = u \o <<c>> \o v
      PROVE  g \in Queries
  <2>1. /\ Len(g) = Len(u) + 1 + Len(v) /\ g[Len(u) + 1] = c
        /\ IsPart(u, g, 0) /\ IsPart(v, g, Len(u) + 1)
    BY <1>3, ConnectionOfParts
  <2>2. IsQuery(g) /\ ~OrderLast(g)
    BY <2>1, ConnectedIsQuery, Zenon
  <2>. QED BY <2>2, Zenon
<1>4. HasConditions(Queries) /\ Queries \in SUBSET Seq(Tokens)
  <2>. HIDE DEF Queries
  <2>1. Queries \in SUBSET Seq(Tokens)
    BY Zenon DEF Queries
  <2>. QED BY <1>1, <1>2, <1>3, <2>1, Zenon DEF HasConditions
<1>5. Rest(t) \in Queries
  <2>. HIDE DEF Queries
  <2>. QED BY <1>4, Zenon DEF Expression
<1>6. CASE OrderLast(t)
  BY <1>5, <1>6, OrderedIsQuery, Zenon
<1>7. CASE ~OrderLast(t)
  <2>1. Rest(t) = t
    BY <1>7, Zenon DEF Rest
  <2>. QED BY <1>5, <2>1, Zenon
<1>. QED BY <1>6, <1>7, Zenon

-----------------------------------------------------------------------------
(* A query is also what the grammar writes, and nothing else: a part of    *)
(* one that no list leaves is a query again.                               *)
OnItsOwn(u, t, o) ==
  \A a, b \in 1..Len(t) :
    WholeList(t, a, b) =>
      \/ a - o \in 1..Len(u) /\ b - o \in 1..Len(u)
      \/ a > o + Len(u)
      \/ b <= o

LEMMA PartIsQuery ==
  ASSUME NEW t \in Seq(Tokens), NEW u \in Seq(Tokens), NEW o \in Nat, IsPart(u, t, o),
         IsQuery(t), OrderLast(t) => o + Len(u) < Len(t), OnItsOwn(u, t, o),
         u # << >>, u[Len(u)] \notin Connectors, Balanced(u),
         o = 0 \/ t[o] \in Connectors \cup {Open}
  PROVE  IsQuery(u) /\ ~OrderLast(u)
<1>1. Len(u) \in Nat /\ Len(t) \in Nat /\ o + Len(u) <= Len(t)
  BY SequenceOfTokens, Zenon DEF IsPart
<1>2. \A m \in 1..Len(u) : u[m] = t[m + o] /\ m + o \in 1..Len(t)
  <2>1. \A m \in 1..Len(u) : m + o \in 1..Len(t)
    BY <1>1
  <2>. QED BY <2>1, Zenon DEF IsPart
<1>3. DOMAIN t = 1..Len(t) /\ DOMAIN u = 1..Len(u)
  BY SequenceOfTokens, Zenon
<1>4. ASSUME NEW k \in 1..Len(u), NEW a \in 1..Len(t), NEW b \in 1..Len(t),
             WholeList(t, a, b), a <= k + o, k + o <= b
      PROVE  /\ a - o \in 1..Len(u) /\ b - o \in 1..Len(u)
             /\ WholeList(u, a - o, b - o)
  <2>1. ~(a > o + Len(u)) /\ ~(b <= o)
    BY <1>1, <1>4
  <2>2. a - o \in 1..Len(u) /\ b - o \in 1..Len(u)
    BY <1>4, <2>1, Zenon DEF OnItsOwn
  <2>3. (a - o) + o = a /\ (b - o) + o = b
    BY <1>1
  <2>4. WholeList(t, (a - o) + o, (b - o) + o)
    BY <1>4, <2>3, Zenon
  <2>5. WholeList(u, a - o, b - o)
    BY <2>2, <2>4, ListInPart
  <2>. QED BY <2>2, <2>5, Zenon
<1>5. ASSUME NEW k \in 1..Len(u), ~Inside(u, k)
      PROVE  /\ Operand(u, k) \/ u[k] \in Connectors \cup {Open, Close}
             /\ Operand(u, k) \/ u[k] = Open
                  <=> k = 1 \/ u[k - 1] \in Connectors \cup {Open}
  <2>1. ~Inside(t, k + o)
    <3>. SUFFICES ASSUME NEW a \in 1..Len(t), NEW b \in 1..Len(t), a < k + o,
                         k + o <= b, WholeList(t, a, b)
                 PROVE  FALSE
      BY <1>3, Zenon DEF Inside
    <3>1. a <= k + o
      BY <1>1
    <3>2. a - o \in 1..Len(u) /\ b - o \in 1..Len(u) /\ WholeList(u, a - o, b - o)
      BY <1>4, <3>1
    <3>3. a - o < k /\ k <= b - o
      BY <1>1
    <3>. QED BY <1>3, <1>5, <3>2, <3>3, Zenon DEF Inside
  <2>2. MayStand(t, k + o)
    BY <1>2, <2>1, QueryIs, Zenon
  <2>3. Operand(t, k + o) => Operand(u, k)
    <3>1. ASSUME NEW j \in 1..Len(t), WholeList(t, k + o, j)
          PROVE  \E i \in 1..Len(u) : WholeList(u, k, i)
      <4>1. k + o <= k + o /\ k + o <= j /\ (k + o) - o = k
        BY <1>1, <3>1 DEF WholeList
      <4>2. /\ j - o \in 1..Len(u)
            /\ WholeList(u, (k + o) - o, j - o)
        BY <1>2, <1>4, <3>1, <4>1
      <4>. QED BY <4>1, <4>2, Zenon
    <3>. QED BY <1>2, <1>3, <3>1, Zenon DEF Operand
  <2>4. Operand(u, k) => Operand(t, k + o)
    <3>1. ASSUME NEW j \in 1..Len(u), WholeList(u, k, j)
          PROVE  \E i \in 1..Len(t) : WholeList(t, k + o, i)
      BY <1>2, <3>1, ListInPart, Zenon
    <3>. QED BY <1>2, <1>3, <3>1, Zenon DEF Operand
  <2>5. ~(k + o = Len(t) /\ t[k + o].kind = "order by")
    <3>1. Len(t) \in 1..Len(t) /\ t[Len(t)].kind = "order by" => o + Len(u) < Len(t)
      BY SequenceOfTokens, Zenon DEF OrderLast
    <3>2. k + o \in 1..Len(t)
      BY <1>2, Zenon
    <3>3. o + Len(u) < Len(t) => k + o # Len(t)
      BY <1>1
    <3>. QED BY <3>1, <3>2, <3>3, Zenon
  <2>6. (k = 1 \/ u[k - 1] \in Connectors \cup {Open})
          <=> (k + o = 1 \/ t[(k + o) - 1] \in Connectors \cup {Open})
    <3>1. CASE k = 1
      <4>1. o = 0 => k + o = 1
        BY <3>1
      <4>2. (k + o) - 1 = o
        BY <3>1
      <4>. QED BY <3>1, <4>1, <4>2, Zenon
    <3>2. CASE k # 1
      <4>1. k - 1 \in 1..Len(u) /\ (k - 1) + o = (k + o) - 1 /\ k + o # 1
        BY <1>1, <3>2
      <4>2. u[k - 1] = t[(k + o) - 1]
        BY <1>2, <4>1
      <4>. QED BY <3>2, <4>1, <4>2, Zenon
    <3>. QED BY <3>1, <3>2
  <2>7. u[k] = t[k + o]
    BY <1>2, Zenon
  <2>. QED BY <2>2, <2>3, <2>4, <2>5, <2>6, <2>7, Zenon DEF MayStand
<1>6. IsQuery(u)
  <2>1. \A k \in 1..Len(u) : ~Inside(u, k) => MayStand(u, k)
    BY <1>5, Zenon DEF MayStand
  <2>. QED BY <2>1, QueryIs, Zenon
<1>7. ~OrderLast(u)
  <2>. SUFFICES ASSUME u[Len(u)].kind = "order by" PROVE FALSE
    BY Zenon DEF OrderLast
  <2>1. Len(u) \in 1..Len(u) /\ Len(u) \in DOMAIN u
    BY <1>3, SequenceOfTokens, Zenon
  <2>2. ~Inside(u, Len(u))
    BY <2>1, InsideIsInWhole, ListKinds, Zenon
  <2>3. Operand(u, Len(u)) \/ u[Len(u)] \in Connectors \cup {Open, Close}
    BY <1>5, <2>1, <2>2, Zenon
  <2>4. /\ u[Len(u)].kind \notin ClauseKinds /\ u[Len(u)] \notin Connectors
        /\ u[Len(u)] # Open /\ u[Len(u)] # Close /\ u[Len(u)] # In
    BY OtherKinds, Zenon
  <2>. QED BY <2>3, <2>4, Zenon DEF Operand, WholeList
<1>. QED BY <1>6, <1>7

(* A list opens one parenthesis and closes it.                             *)
LEMMA CountOfList ==
  ASSUME NEW t, NEW a \in Nat \ {0}, NEW b \in Nat, WholeList(t, a, b)
  PROVE  /\ Count(t, b, Open) = Count(t, a, Open) + 1
         /\ Count(t, b, Close) = Count(t, a, Close) + 1
<1>0. \A x : IsFiniteSet({i \in 1..a : t[i] = x})
  <2>1. a \in Nat
    OBVIOUS
  <2>. QED BY <2>1, CountedAreFinite
<1>1. a + 2 < b /\ t[a + 1] = Open /\ t[b] = Close
  BY DEF WholeList
<1>2. ASSUME NEW x, NEW k \in (a + 1)..b, t[k] = x,
             \A i \in a..b : t[i] = x => i = k
      PROVE  Count(t, b, x) = Count(t, a, x) + 1
  <2>. DEFINE At(n) == {i \in 1..n : t[i] = x}
  <2>1. At(b) = At(a) \cup {k}
    <3>1. \A i \in 1..b : i \in 1..a \/ i \in a..b
      OBVIOUS
    <3>2. k \in 1..b /\ \A i \in 1..a : i \in 1..b
      BY <1>1
    <3>3. \A i \in 1..b : t[i] = x => i \in At(a) \/ i = k
      BY <1>2, <3>1, Zenon
    <3>. QED BY <1>2, <3>2, <3>3, Zenon
  <2>2. k \notin At(a)
    OBVIOUS
  <2>3. IsFiniteSet(At(a))
    BY <1>0
  <2>. HIDE DEF At
  <2>4. Cardinality(At(b)) = Cardinality(At(a)) + 1
    BY <2>1, <2>2, <2>3, FS_AddElement
  <2>. QED BY <2>4, Zenon DEF At, Count
<1>3. \A i \in a..b : i \in Nat /\ a <= i /\ i <= b
  OBVIOUS
<1>4. \A i \in a..b : (t[i] = Open => i = a + 1) /\ (t[i] = Close => i = b)
  BY <1>3, ListParentheses
<1>5. a + 1 \in (a + 1)..b /\ b \in (a + 1)..b
  BY <1>1
<1>. QED BY <1>1, <1>2, <1>4, <1>5, Zenon

(* A query can be taken apart where a connector stands that no parenthesis *)
(* encloses, ...                                                           *)
Ends(t, c) == t[c] \in Connectors \/ t[c].kind = "order by"

LEMMA NoListAcross ==
  ASSUME NEW t \in Seq(Tokens), NEW c \in 1..Len(t),
         Ends(t, c), NEW a \in 1..Len(t), NEW b \in 1..Len(t), WholeList(t, a, b)
  PROVE  c < a \/ b < c
<1>. SUFFICES ASSUME a <= c, c <= b PROVE FALSE
  BY SequenceOfTokens
<1>1. DOMAIN t = 1..Len(t)
  BY SequenceOfTokens, Zenon
<1>2. InWhole(t, c)
  BY <1>1, Zenon DEF InWhole
<1>. QED BY <1>1, <1>2, ListKinds, Zenon DEF Ends

LEMMA QueryStarts ==
  ASSUME NEW t \in Seq(Tokens), IsQuery(t)
  PROVE  1 \in 1..Len(t) /\ (Operand(t, 1) \/ t[1] = Open) /\ t[1] \notin Connectors
<1>1. Len(t) \in 1..Len(t) /\ Len(t) \in Nat /\ DOMAIN t = 1..Len(t)
  BY SequenceOfTokens, Zenon DEF IsQuery
<1>2. 1 \in 1..Len(t) /\ \A a \in 1..Len(t) : ~(a < 1)
  BY <1>1
<1>3. ~Inside(t, 1)
  BY <1>1, <1>2, Zenon DEF Inside
<1>4. Operand(t, 1) \/ t[1] = Open
  BY <1>2, <1>3, QueryIs, Zenon DEF MayStand
<1>. QED BY <1>2, <1>4, OtherKinds, Zenon DEF Operand, WholeList

LEMMA BeforeConnector ==
  ASSUME NEW t \in Seq(Tokens), IsQuery(t), NEW c \in 1..Len(t),
         Ends(t, c)
  PROVE  c > 1 /\ t[c - 1] \notin Connectors \cup {Open}
<1>1. DOMAIN t = 1..Len(t) /\ c \in Nat
  BY SequenceOfTokens, Zenon
<1>2. ~Inside(t, c)
  BY <1>1, InsideIsInWhole, ListKinds, Zenon DEF Ends
<1>3. t[c].kind \notin ClauseKinds /\ t[c] # In /\ t[c] # Open
  BY OtherKinds, Zenon DEF Ends
<1>4. ~Operand(t, c)
  BY <1>3, Zenon DEF Operand, WholeList
<1>5. c # 1 /\ t[c - 1] \notin Connectors \cup {Open}
  BY <1>2, <1>3, <1>4, QueryIs, Zenon DEF MayStand
<1>. QED BY <1>5, SequenceOfTokens

LEMMA FrontCounts ==
  ASSUME NEW t, NEW u, NEW n \in Nat, \A k \in 1..n : u[k] = t[k]
  PROVE  \A x : \A m \in 0..n : Count(u, m, x) = Count(t, m, x)
<1>. SUFFICES ASSUME NEW x, NEW m \in 0..n
             PROVE  Count(u, m, x) = Count(t, m, x)
  OBVIOUS
<1>1. {k \in 1..m : u[k] = x} = {k \in 1..m : t[k] = x}
  OBVIOUS
<1>. QED BY <1>1, Zenon DEF Count

LEMMA FrontIsQuery ==
  ASSUME NEW t \in Seq(Tokens), IsQuery(t), NEW c \in 1..Len(t),
         Ends(t, c),
         Count(t, c, Open) = Count(t, c, Close),
         NEW u \in Seq(Tokens), Len(u) = c - 1, IsPart(u, t, 0)
  PROVE  IsQuery(u) /\ ~OrderLast(u)
<1>. DEFINE n == Len(t)
<1>1. n \in Nat /\ 1 < c /\ c - 1 \in Nat /\ c - 1 \in 0..n /\ c - 1 \in 1..(c - 1)
      /\ (c - 1) + 1 = c
  <2>1. c > 1 /\ n \in Nat
    BY BeforeConnector, SequenceOfTokens, Zenon
  <2>. QED BY <2>1
<1>2. \A k \in 1..(c - 1) : u[k] = t[k]
  <2>1. \A k \in 1..(c - 1) : u[k] = t[k + 0] /\ k + 0 = k
    <3>1. \A k \in 1..(c - 1) : k + 0 = k
      OBVIOUS
    <3>. QED BY <3>1, Zenon DEF IsPart
  <2>. QED BY <2>1, Zenon
<1>3. u # << >> /\ u[Len(u)] \notin Connectors
  <2>1. Len(u) \in 1..Len(u) /\ u[Len(u)] = t[c - 1]
    BY <1>1, <1>2, Zenon
  <2>. QED BY <2>1, BeforeConnector, SequenceOfTokens, Zenon
<1>4. \A x : \A m \in 0..(c - 1) : Count(u, m, x) = Count(t, m, x)
  <2>. DEFINE l == c - 1
  <2>1. l \in Nat
    BY <1>1, Zenon
  <2>2. \A k \in 1..l : u[k] = t[k]
    BY <1>2, Zenon
  <2>. HIDE DEF l
  <2>3. \A x : \A m \in 0..l : Count(u, m, x) = Count(t, m, x)
    BY <2>1, <2>2, FrontCounts
  <2>. QED BY <2>3, Zenon DEF l
<1>5. \A x \in {Open, Close} : Count(t, c, x) = Count(t, c - 1, x)
  <2>. TAKE x \in {Open, Close}
  <2>1. t[c] # x
    BY OtherKinds, Zenon DEF Ends
  <2>2. Count(t, c, x) = Count(t, c - 1, x) + 0
    <3>1. Count(t, (c - 1) + 1, x) =
            Count(t, c - 1, x) + (IF t[(c - 1) + 1] = x THEN 1 ELSE 0)
      BY <1>1, CountOneMore, Zenon
    <3>. QED BY <1>1, <2>1, <3>1, Zenon
  <2>3. Count(t, c - 1, x) \in Nat
    BY <1>1, CountIsNat, Zenon
  <2>. QED BY <2>2, <2>3
<1>6. Balanced(u)
  <2>1. Opened(t, n)
    BY Zenon DEF IsQuery, Balanced
  <2>2. \A m \in 0..(c - 1) : m \in 0..n
    BY <1>1
  <2>3. Opened(u, c - 1)
    BY <1>4, <2>1, <2>2, Zenon DEF Opened
  <2>4. c - 1 \in 0..(c - 1)
    BY <1>1
  <2>5. Count(u, c - 1, Open) = Count(u, c - 1, Close)
    BY <1>4, <1>5, <2>4, Zenon
  <2>. QED BY <2>3, <2>5, Zenon DEF Balanced
<1>7. OnItsOwn(u, t, 0)
  <2>. SUFFICES ASSUME NEW a \in 1..n, NEW b \in 1..n, WholeList(t, a, b)
               PROVE  \/ a - 0 \in 1..(c - 1) /\ b - 0 \in 1..(c - 1)
                      \/ a > 0 + (c - 1)
    BY Zenon DEF OnItsOwn
  <2>1. c < a \/ b < c
    BY NoListAcross, Zenon
  <2>2. a < b
    BY <1>1 DEF WholeList
  <2>. QED BY <1>1, <2>1, <2>2
<1>8. OrderLast(t) => 0 + Len(u) < Len(t)
  BY <1>1
<1>. QED BY <1>3, <1>6, <1>7, <1>8, PartIsQuery

LEMMA BackIsQuery ==
  ASSUME NEW t \in Seq(Tokens), IsQuery(t), ~OrderLast(t), NEW c \in 1..Len(t),
         t[c] \in Connectors, Count(t, c, Open) = Count(t, c, Close),
         NEW v \in Seq(Tokens), Len(v) = Len(t) - c, IsPart(v, t, c)
  PROVE  IsQuery(v) /\ ~OrderLast(v)
<1>. DEFINE n == Len(t)
            l == Len(t) - c
<1>1. n \in Nat /\ c \in Nat /\ c < n /\ l \in Nat /\ l \in 1..l /\ l + c = n
  <2>1. n \in Nat /\ t[n] \notin Connectors
    BY SequenceOfTokens, Zenon DEF IsQuery
  <2>2. c # n
    BY <2>1, Zenon
  <2>. QED BY <2>1, <2>2
<1>2. v # << >> /\ v[Len(v)] \notin Connectors
  <2>1. Len(v) \in 1..Len(v) /\ v[Len(v)] = t[l + c]
    BY <1>1, Zenon DEF IsPart
  <2>2. v[Len(v)] = t[n]
    BY <1>1, <2>1, Zenon
  <2>. QED BY <2>1, <2>2, SequenceOfTokens, Zenon DEF IsQuery
<1>3. ASSUME NEW x, NEW m \in 0..l
      PROVE  Count(t, m + c, x) = Count(t, c, x) + Count(v, m, x)
  BY <1>1, CountInPart
<1>4. ASSUME NEW x, NEW m \in 0..n
      PROVE  Count(t, m, x) \in Nat
  BY <1>1, CountIsNat
<1>5. ASSUME NEW x, NEW m \in 0..l
      PROVE  Count(v, m, x) \in Nat
  BY <1>1, CountIsNat
<1>6. Opened(t, n) /\ Count(t, n, Open) = Count(t, n, Close)
  BY Zenon DEF IsQuery, Balanced
<1>. HIDE DEF n, l
<1>7. Balanced(v)
  <2>1. ASSUME NEW m \in 0..l
        PROVE  Count(v, m, Close) <= Count(v, m, Open)
    <3>1. m + c \in 0..n
      BY <1>1
    <3>2. Count(t, m + c, Close) <= Count(t, m + c, Open)
      BY <1>6, <3>1, Zenon DEF Opened
    <3>3. Count(t, c, Open) + Count(v, m, Close) <= Count(t, c, Open) + Count(v, m, Open)
      BY <1>3, <3>2, Zenon
    <3>4. Count(t, c, Open) \in Nat
      BY <1>1, CountIsNat, Zenon
    <3>5. Count(v, m, Open) \in Nat /\ Count(v, m, Close) \in Nat
      BY <1>5, Zenon
    <3>. QED BY <3>3, <3>4, <3>5
  <2>2. Count(v, l, Open) = Count(v, l, Close)
    <3>1. l \in 0..l
      BY <1>1
    <3>2. /\ Count(t, n, Open) = Count(t, c, Open) + Count(v, l, Open)
          /\ Count(t, n, Close) = Count(t, c, Close) + Count(v, l, Close)
      BY <1>1, <1>3, <3>1, Zenon
    <3>3. Count(t, c, Open) + Count(v, l, Open) = Count(t, c, Open) + Count(v, l, Close)
      BY <1>6, <3>2, Zenon
    <3>4. Count(t, c, Open) \in Nat
      BY <1>1, CountIsNat, Zenon
    <3>5. Count(v, l, Open) \in Nat /\ Count(v, l, Close) \in Nat
      BY <1>5, <3>1, Zenon
    <3>. QED BY <3>3, <3>4, <3>5
  <2>3. Len(v) = l
    BY DEF l
  <2>. QED BY <2>1, <2>2, <2>3, Zenon DEF Balanced, Opened
<1>8. OnItsOwn(v, t, c)
  <2>. SUFFICES ASSUME NEW a \in 1..n, NEW b \in 1..n, WholeList(t, a, b)
               PROVE  \/ a - c \in 1..l /\ b - c \in 1..l
                      \/ b <= c
    BY Zenon DEF OnItsOwn, n, l
  <2>1. c < a \/ b < c
    BY NoListAcross, Zenon DEF n, Ends
  <2>2. a < b
    BY <1>1 DEF WholeList
  <2>. QED BY <1>1, <2>1, <2>2
<1>. QED BY <1>1, <1>2, <1>7, <1>8, PartIsQuery

(* ... and where a parenthesis that it begins with is closed.              *)
Level(t, k) == Count(t, k, Open) = Count(t, k, Close)

LEMMA CountFirst ==
  ASSUME NEW t, NEW token
  PROVE  Count(t, 1, token) = IF t[1] = token THEN 1 ELSE 0
<1>1. 0 \in Nat /\ 0 + 1 = 1 /\ 0 + 0 = 0
  OBVIOUS
<1>2. Count(t, 0 + 1, token) = Count(t, 0, token) + (IF t[0 + 1] = token THEN 1 ELSE 0)
  BY <1>1, CountOneMore, Zenon
<1>3. Count(t, 0, token) = 0
  BY CountOfNone, Zenon
<1>. QED BY <1>1, <1>2, <1>3

LEMMA MatchingClose ==
  ASSUME NEW t \in Seq(Tokens), IsQuery(t), t[1] = Open
  PROVE  \E m \in 1..Len(t) :
           /\ m > 1 /\ t[m] = Close /\ Level(t, m) /\ ~Inside(t, m)
           /\ \A k \in 1..(m - 1) : Count(t, k, Close) < Count(t, k, Open)
<1>. DEFINE n == Len(t)
            levels == {k \in 1..n : Level(t, k)}
<1>1. n \in Nat /\ n \in 1..n /\ DOMAIN t = 1..n
  BY SequenceOfTokens, Zenon DEF IsQuery
<1>2. Opened(t, n) /\ Level(t, n)
  BY Zenon DEF IsQuery, Balanced, Level
<1>. HIDE DEF n
<1>3. levels \in SUBSET Nat /\ levels # {}
  <2>1. 1..n \subseteq Nat
    BY <1>1
  <2>. QED BY <1>1, <1>2, <2>1, Zenon
<1>4. PICK m \in levels : \A k \in levels : m <= k
  <2>. HIDE DEF levels
  <2>. QED BY <1>3, Least, Zenon
<1>5. m \in 1..n /\ Level(t, m) /\ m \in Nat
  BY <1>3, <1>4, Zenon
<1>6. ASSUME NEW k \in 1..n
      PROVE  /\ Count(t, k, Open) \in Nat /\ Count(t, k, Close) \in Nat
             /\ Count(t, k, Close) <= Count(t, k, Open)
             /\ k < m => Count(t, k, Close) < Count(t, k, Open)
  <2>1. k \in Nat /\ k \in 0..n
    BY <1>1
  <2>2. Count(t, k, Open) \in Nat /\ Count(t, k, Close) \in Nat
    BY <2>1, CountIsNat, Zenon
  <2>3. Count(t, k, Close) <= Count(t, k, Open)
    BY <1>2, <2>1, Zenon DEF Opened
  <2>4. k < m => ~Level(t, k)
    <3>1. k < m => ~(m <= k)
      BY <1>5
    <3>. QED BY <1>4, <3>1, Zenon
  <2>5. k < m => Count(t, k, Open) # Count(t, k, Close)
    BY <2>4, Zenon DEF Level
  <2>. QED BY <2>2, <2>3, <2>5
<1>. HIDE DEF levels
<1>7. m > 1
  <2>1. Count(t, 1, Open) = 1 /\ Count(t, 1, Close) = 0
    BY CountFirst, TokenKinds, Zenon
  <2>2. m # 1
    <3>1. 1 # 0
      OBVIOUS
    <3>. QED BY <1>5, <2>1, <3>1, Zenon DEF Level
  <2>. QED BY <1>5, <2>2
<1>8. m - 1 \in 1..n /\ m - 1 < m /\ (m - 1) + 1 = m /\ m - 1 \in Nat
  BY <1>1, <1>5, <1>7
<1>9. t[m] = Close
  <2>1. ASSUME NEW x
        PROVE  Count(t, m, x) = Count(t, m - 1, x) + (IF t[m] = x THEN 1 ELSE 0)
    <3>1. Count(t, (m - 1) + 1, x) =
            Count(t, m - 1, x) + (IF t[(m - 1) + 1] = x THEN 1 ELSE 0)
      BY <1>8, CountOneMore, Zenon
    <3>. QED BY <1>8, <3>1, Zenon
  <2>. DEFINE o == Count(t, m - 1, Open)
              c == Count(t, m - 1, Close)
  <2>2. o \in Nat /\ c \in Nat /\ c < o
    BY <1>6, <1>8, Zenon
  <2>3. o + (IF t[m] = Open THEN 1 ELSE 0) = c + (IF t[m] = Close THEN 1 ELSE 0)
    BY <1>5, <2>1, Zenon DEF Level
  <2>. HIDE DEF o, c
  <2>. QED BY <2>2, <2>3
<1>10. ~Inside(t, m)
  <2>. SUFFICES ASSUME NEW a \in 1..n, NEW b \in 1..n, a < m, m <= b, WholeList(t, a, b)
               PROVE  FALSE
    BY <1>1, Zenon DEF Inside
  <2>1. a \in Nat \ {0} /\ a \in Nat /\ b \in Nat /\ a <= m
    BY <1>1, <1>5
  <2>2. m = b
    BY <1>5, <1>9, <2>1, ListParentheses
  <2>3. /\ Count(t, b, Open) = Count(t, a, Open) + 1
        /\ Count(t, b, Close) = Count(t, a, Close) + 1
    BY <2>1, CountOfList
  <2>4. Count(t, a, Open) + 1 = Count(t, a, Close) + 1
    BY <1>5, <2>2, <2>3, Zenon DEF Level
  <2>5. /\ Count(t, a, Open) \in Nat /\ Count(t, a, Close) \in Nat
        /\ Count(t, a, Close) < Count(t, a, Open)
    BY <1>6, Zenon
  <2>. QED BY <2>4, <2>5
<1>11. \A k \in 1..(m - 1) : Count(t, k, Close) < Count(t, k, Open)
  <2>1. \A k \in 1..(m - 1) : k \in 1..n /\ k < m
    BY <1>1, <1>5
  <2>. QED BY <1>6, <2>1, Zenon
<1>. QED BY <1>5, <1>7, <1>9, <1>10, <1>11, Zenon DEF n

(* What follows a condition that is not enclosed is a connector.           *)
LEMMA ConnectorFollows ==
  ASSUME NEW t \in Seq(Tokens), IsQuery(t), ~OrderLast(t), NEW k \in 1..Len(t),
         k # Len(t), t[k] \notin Connectors \cup {Open}, Level(t, k), ~Inside(t, k + 1)
  PROVE  k + 1 \in 1..Len(t) /\ t[k + 1] \in Connectors /\ Level(t, k + 1)
<1>. DEFINE n == Len(t)
            c == k + 1
<1>1. n \in Nat /\ k \in Nat /\ c \in 1..n /\ c # 1 /\ c - 1 = k /\ c \in 0..n
  <2>1. n \in Nat
    BY SequenceOfTokens, Zenon
  <2>. QED BY <2>1
<1>2. Opened(t, n) /\ Count(t, k, Open) = Count(t, k, Close)
  BY Zenon DEF IsQuery, Balanced, Level
<1>3. \A x : Count(t, c, x) = Count(t, k, x) + (IF t[c] = x THEN 1 ELSE 0)
  BY <1>1, CountOneMore, Zenon
<1>4. ~(c = Len(t) /\ t[c].kind = "order by")
  BY <1>1, SequenceOfTokens, Zenon DEF OrderLast
<1>5. Count(t, k, Open) \in Nat /\ Count(t, c, Close) <= Count(t, c, Open)
  BY <1>1, <1>2, CountIsNat, Zenon DEF Opened
<1>. HIDE DEF n, c
<1>6. MayStand(t, c)
  BY <1>1, QueryIs, Zenon DEF n, c
<1>7. t[c] # Open /\ (t[c] \in Connectors \/ t[c] = Close)
  BY <1>1, <1>4, <1>6, Zenon DEF MayStand
<1>8. t[c] # Close
  <2>. SUFFICES ASSUME t[c] = Close PROVE FALSE
    OBVIOUS
  <2>1. Count(t, c, Close) = Count(t, k, Open) + 1 /\ Count(t, c, Open) = Count(t, k, Open) + 0
    BY <1>2, <1>3, <1>7, Zenon
  <2>. QED BY <1>5, <2>1
<1>9. Level(t, c)
  BY <1>2, <1>3, <1>7, <1>8, Zenon DEF Level
<1>. QED BY <1>1, <1>7, <1>8, <1>9, Zenon DEF n, c

(* What stands between the parentheses that enclose a query.               *)
LEMMA InnerIsQuery ==
  ASSUME NEW t \in Seq(Tokens), IsQuery(t), ~OrderLast(t), t[1] = Open, t[Len(t)] = Close,
         ~Inside(t, Len(t)),
         \A k \in 1..(Len(t) - 1) : Count(t, k, Close) < Count(t, k, Open),
         NEW u \in Seq(Tokens), Len(u) = Len(t) - 2, IsPart(u, t, 1)
  PROVE  Len(t) > 2 /\ IsQuery(u) /\ ~OrderLast(u)
<1>. DEFINE n == Len(t)
            l == Len(t) - 2
<1>1. n \in Nat /\ n \in 1..n /\ DOMAIN t = 1..n
  BY SequenceOfTokens, Zenon DEF IsQuery
<1>2. n # 1 /\ t[n - 1] \notin Connectors \cup {Open}
  <2>1. MayStand(t, n)
    BY <1>1, QueryIs, Zenon
  <2>2. t[n] # Open /\ ~Operand(t, n)
    BY OtherKinds, TokenKinds, Zenon DEF Operand, WholeList
  <2>. QED BY <2>1, <2>2, Zenon DEF MayStand
<1>3. n > 2
  <2>1. n # 2
    <3>1. n = 2 => n - 1 = 1
      OBVIOUS
    <3>. QED BY <1>2, <3>1, Zenon
  <2>. QED BY <1>1, <1>2, <2>1
<1>4. l \in Nat /\ l \in 1..l /\ l + 1 = n - 1 /\ l + 2 = n /\ (n - 1) + 1 = n
      /\ 1 \in Nat /\ n - 1 \in Nat /\ n - 1 \in 1..(n - 1)
  BY <1>1, <1>3
<1>5. u # << >> /\ u[Len(u)] \notin Connectors
  <2>1. Len(u) \in 1..Len(u) /\ u[Len(u)] = t[l + 1]
    BY <1>4, Zenon DEF IsPart
  <2>. QED BY <1>2, <1>4, <2>1, SequenceOfTokens, Zenon
<1>6. ASSUME NEW x, NEW m \in 0..l
      PROVE  /\ Count(t, m + 1, x) = Count(t, 1, x) + Count(u, m, x)
             /\ Count(u, m, x) \in Nat
  BY <1>4, CountInPart, CountIsNat
<1>7. Count(t, 1, Open) = 1 /\ Count(t, 1, Close) = 0
  BY CountFirst, TokenKinds, Zenon
<1>8. \A k \in 1..(n - 1) : Count(t, k, Close) < Count(t, k, Open)
  OBVIOUS
<1>9. Level(t, n)
  BY Zenon DEF IsQuery, Balanced, Level
<1>10. Len(u) = l
  OBVIOUS
<1>11. \A x : Count(t, n, x) = Count(t, n - 1, x) + (IF t[n] = x THEN 1 ELSE 0)
  <2>1. \A x : Count(t, (n - 1) + 1, x) =
                 Count(t, n - 1, x) + (IF t[(n - 1) + 1] = x THEN 1 ELSE 0)
    BY <1>4, CountOneMore, Zenon
  <2>. QED BY <1>4, <2>1, Zenon
<1>. HIDE DEF n, l
<1>12. Balanced(u)
  <2>1. ASSUME NEW m \in 0..l
        PROVE  Count(u, m, Close) <= Count(u, m, Open)
    <3>1. m + 1 \in 1..(n - 1)
      BY <1>4
    <3>2. 0 + Count(u, m, Close) < 1 + Count(u, m, Open)
      BY <1>6, <1>7, <1>8, <3>1, Zenon
    <3>3. Count(u, m, Close) \in Nat /\ Count(u, m, Open) \in Nat
      BY <1>6, Zenon
    <3>. QED BY <3>2, <3>3
  <2>2. Count(u, l, Open) = Count(u, l, Close)
    <3>1. l \in 0..l
      BY <1>4
    <3>2. /\ Count(t, n - 1, Open) = 1 + Count(u, l, Open)
          /\ Count(t, n - 1, Close) = 0 + Count(u, l, Close)
      BY <1>4, <1>6, <1>7, <3>1, Zenon
    <3>3. t[n] = Close /\ Open # Close
      BY TokenKinds DEF n
    <3>4. Count(t, n - 1, Open) + 0 = Count(t, n - 1, Close) + 1
      BY <1>9, <1>11, <3>3, Zenon DEF Level
    <3>5. Count(u, l, Close) \in Nat /\ Count(u, l, Open) \in Nat
      BY <1>6, <3>1, Zenon
    <3>. QED BY <3>2, <3>4, <3>5
  <2>. QED BY <1>10, <2>1, <2>2, Zenon DEF Balanced, Opened
<1>13. OnItsOwn(u, t, 1)
  <2>. SUFFICES ASSUME NEW a \in 1..n, NEW b \in 1..n, WholeList(t, a, b)
               PROVE  a - 1 \in 1..l /\ b - 1 \in 1..l
    BY <1>10, Zenon DEF OnItsOwn, n
  <2>1. a + 2 < b /\ t[a] = In
    BY DEF WholeList
  <2>2. a # 1
    BY <2>1, TokenKinds, Zenon
  <2>3. a < b /\ b <= b
    BY <1>1, <2>1
  <2>4. b # n
    BY <1>1, <2>3, Zenon DEF Inside, n
  <2>. QED BY <1>1, <1>4, <2>1, <2>2, <2>4
<1>14. t[1] \in Connectors \cup {Open}
  OBVIOUS
<1>15. IsQuery(u) /\ ~OrderLast(u)
  BY <1>4, <1>5, <1>12, <1>13, <1>14, PartIsQuery
<1>. QED BY <1>3, <1>15, Zenon DEF n

LEMMA PartsAt ==
  ASSUME NEW t \in Seq(Tokens), NEW c \in 1..Len(t)
  PROVE  LET u == SubSeq(t, 1, c - 1)
             v == SubSeq(t, c + 1, Len(t))
         IN  /\ u \in Seq(Tokens) /\ Len(u) = c - 1 /\ IsPart(u, t, 0)
             /\ v \in Seq(Tokens) /\ Len(v) = Len(t) - c /\ IsPart(v, t, c)
             /\ t = u \o <<t[c]>> \o v
<1>. DEFINE u == SubSeq(t, 1, c - 1)
            v == SubSeq(t, c + 1, Len(t))
            w == u \o <<t[c]>> \o v
<1>1. /\ u \in Seq(Tokens) /\ Len(u) = c - 1 /\ \A k \in 1..(c - 1) : u[k] = t[k]
      /\ v \in Seq(Tokens) /\ Len(v) = Len(t) - c
      /\ \A k \in 1..(Len(t) - c) : v[k] = t[k + c]
  OBVIOUS
<1>2. IsPart(u, t, 0) /\ IsPart(v, t, c)
  <2>. HIDE DEF u, v
  <2>. QED BY <1>1 DEF IsPart
<1>3. w \in Seq(Tokens) /\ Len(w) = Len(t) /\ \A k \in 1..Len(t) : w[k] = t[k]
  <2>. HIDE DEF u, v
  <2>1. t[c] \in Tokens /\ Len(u) = c - 1 /\ Len(v) = Len(t) - c
    BY <1>1
  <2>2. w \in Seq(Tokens) /\ Len(w) = Len(t)
    <3>1. u \in Seq(Tokens) /\ v \in Seq(Tokens)
      BY <1>1
    <3>2. w \in Seq(Tokens) /\ Len(w) = (Len(u) + 1) + Len(v)
      BY <2>1, <3>1
    <3>3. ((c - 1) + 1) + (Len(t) - c) = Len(t)
      OBVIOUS
    <3>. QED BY <2>1, <3>2, <3>3, Zenon
  <2>3. /\ \A k \in 1..(c - 1) : w[k] = u[k]
        /\ w[c] = t[c]
        /\ \A k \in (c + 1)..Len(t) : w[k] = v[k - c]
    BY <1>1, <2>1
  <2>4. \A k \in (c + 1)..Len(t) : k - c \in 1..(Len(t) - c) /\ (k - c) + c = k
    OBVIOUS
  <2>5. \A k \in (c + 1)..Len(t) : w[k] = t[k]
    <3>. HIDE DEF w
    <3>. TAKE k \in (c + 1)..Len(t)
    <3>1. v[k - c] = t[(k - c) + c]
      BY <1>1, <2>4, Zenon
    <3>. QED BY <2>3, <2>4, <3>1, Zenon
  <2>6. \A k \in 1..Len(t) : k \in 1..(c - 1) \/ k = c \/ k \in (c + 1)..Len(t)
    OBVIOUS
  <2>. HIDE DEF w
  <2>. QED BY <1>1, <2>2, <2>3, <2>5, <2>6, Zenon
<1>4. t = w
  <2>. HIDE DEF w
  <2>. QED BY <1>3, SeqEqual
<1>. QED BY <1>1, <1>2, <1>4, Zenon

LEMMA InnerPart ==
  ASSUME NEW t \in Seq(Tokens), Len(t) > 2
  PROVE  LET u == SubSeq(t, 2, Len(t) - 1)
         IN  /\ u \in Seq(Tokens) /\ Len(u) = Len(t) - 2 /\ IsPart(u, t, 1)
             /\ t = <<t[1]>> \o u \o <<t[Len(t)]>>
<1>. DEFINE u == SubSeq(t, 2, Len(t) - 1)
            w == <<t[1]>> \o u \o <<t[Len(t)]>>
<1>1. /\ u \in Seq(Tokens) /\ Len(u) = Len(t) - 2
      /\ \A k \in 1..(Len(t) - 2) : u[k] = t[k + 1]
  OBVIOUS
<1>2. IsPart(u, t, 1)
  <2>. HIDE DEF u
  <2>. QED BY <1>1 DEF IsPart
<1>3. w \in Seq(Tokens) /\ Len(w) = Len(t) /\ \A k \in 1..Len(t) : w[k] = t[k]
  <2>. HIDE DEF u
  <2>. QED BY <1>1
<1>4. t = w
  <2>. HIDE DEF w
  <2>. QED BY <1>3, SeqEqual
<1>. QED BY <1>1, <1>2, <1>4, Zenon

(* A query is a clause, a list, or made of shorter queries.                *)
Shorter(u, t) == u \in Seq(Tokens) /\ IsQuery(u) /\ ~OrderLast(u) /\ Len(u) < Len(t)
Connected(t) ==
  \E u, v \in Seq(Tokens), c \in Connectors :
    Shorter(u, t) /\ Shorter(v, t) /\ t = u \o <<c>> \o v
Enclosed(t) == \E u \in Seq(Tokens) : Shorter(u, t) /\ t = <<Open>> \o u \o <<Close>>

LEMMA SplitQuery ==
  ASSUME NEW t \in Seq(Tokens), IsQuery(t), ~OrderLast(t), NEW k \in 1..Len(t),
         k # Len(t), t[k] \notin Connectors \cup {Open}, Level(t, k), ~Inside(t, k + 1)
  PROVE  Connected(t)
<1>. DEFINE c == k + 1
            u == SubSeq(t, 1, c - 1)
            v == SubSeq(t, c + 1, Len(t))
<1>1. c \in 1..Len(t) /\ t[c] \in Connectors /\ Level(t, c)
  BY ConnectorFollows
<1>. HIDE DEF c
<1>2. /\ u \in Seq(Tokens) /\ Len(u) = c - 1 /\ IsPart(u, t, 0)
      /\ v \in Seq(Tokens) /\ Len(v) = Len(t) - c /\ IsPart(v, t, c)
      /\ t = u \o <<t[c]>> \o v
  BY <1>1, PartsAt, Zenon
<1>. HIDE DEF u, v
<1>3. Count(t, c, Open) = Count(t, c, Close)
  BY <1>1, Zenon DEF Level
<1>4. IsQuery(u) /\ ~OrderLast(u)
  BY <1>1, <1>2, <1>3, FrontIsQuery, Zenon DEF Ends
<1>5. IsQuery(v) /\ ~OrderLast(v)
  BY <1>1, <1>2, <1>3, BackIsQuery, Zenon
<1>6. Len(u) < Len(t) /\ Len(v) < Len(t)
  <2>1. Len(t) \in Nat
    BY SequenceOfTokens, Zenon
  <2>. QED BY <1>1, <1>2, <2>1
<1>. QED BY <1>1, <1>2, <1>4, <1>5, <1>6, Zenon DEF Connected, Shorter

LEMMA QueryParts ==
  ASSUME NEW t \in Seq(Tokens), IsQuery(t), ~OrderLast(t)
  PROVE  \/ (Len(t) = 1 /\ t[1].kind \in ClauseKinds) \/ WholeList(t, 1, Len(t))
         \/ Enclosed(t)
         \/ Connected(t)
<1>. DEFINE n == Len(t)
<1>1. /\ n \in Nat /\ n \in 1..n /\ DOMAIN t = 1..n /\ 1 \in 1..n
      /\ (Operand(t, 1) \/ t[1] = Open) /\ t[1] \notin Connectors
  BY QueryStarts, SequenceOfTokens, Zenon DEF IsQuery
<1>2. CASE t[1].kind \in ClauseKinds
  <2>1. t[1] # Open /\ t[1] # Close /\ t[1] # In
    BY <1>2, OtherKinds, Zenon
  <2>2. Level(t, 1)
    <3>1. Count(t, 1, Open) = 0 /\ Count(t, 1, Close) = 0
      BY <2>1, CountFirst, Zenon
    <3>. QED BY <3>1, Zenon DEF Level
  <2>3. ~Inside(t, 1 + 1)
    <3>. SUFFICES ASSUME NEW a \in 1..n, NEW b \in 1..n, a < 1 + 1, WholeList(t, a, b)
                 PROVE  FALSE
      BY <1>1, Zenon DEF Inside
    <3>1. a = 1
      BY <1>1
    <3>. QED BY <2>1, <3>1, Zenon DEF WholeList
  <2>4. n # 1 => Connected(t)
    BY <1>1, <2>1, <2>2, <2>3, SplitQuery
  <2>. QED BY <1>2, <2>4, Zenon
<1>3. ASSUME NEW j \in 1..n, WholeList(t, 1, j)
      PROVE  WholeList(t, 1, n) \/ Connected(t)
  <2>1. t[1] = In /\ t[j] = Close /\ 1 + 2 < j
    BY <1>3 DEF WholeList
  <2>2. t[j] \notin Connectors \cup {Open}
    BY <2>1, OtherKinds, TokenKinds, Zenon
  <2>3. Level(t, j)
    <3>1. Count(t, 1, Open) = 0 /\ Count(t, 1, Close) = 0
      BY <2>1, CountFirst, TokenKinds, Zenon
    <3>2. 1 \in Nat \ {0} /\ j \in Nat
      BY <1>1
    <3>3. /\ Count(t, j, Open) = Count(t, 1, Open) + 1
          /\ Count(t, j, Close) = Count(t, 1, Close) + 1
      BY <1>3, <3>2, CountOfList
    <3>. QED BY <3>1, <3>3, Zenon DEF Level
  <2>4. ~Inside(t, j + 1)
    <3>. SUFFICES ASSUME NEW a \in 1..n, NEW b \in 1..n, a < j + 1, j + 1 <= b,
                         WholeList(t, a, b)
                 PROVE  FALSE
      BY <1>1, Zenon DEF Inside
    <3>1. 1 \in Nat /\ a \in Nat /\ b \in Nat /\ j \in Nat /\ 1 <= a /\ a <= j /\ b # j
      BY <1>1
    <3>2. t[a] = In
      BY DEF WholeList
    <3>3. a = 1
      BY <1>3, <3>1, <3>2, ListParentheses
    <3>4. WholeList(t, 1, b)
      BY <3>3, Zenon
    <3>5. b = j
      BY <1>3, <3>1, <3>4, ListEndsOnce
    <3>. QED BY <3>1, <3>5, Zenon
  <2>5. j # n => Connected(t)
    BY <2>2, <2>3, <2>4, SplitQuery
  <2>. QED BY <1>3, <2>5, Zenon
<1>4. CASE t[1] = Open
  <2>1. PICK m \in 1..n :
          /\ m > 1 /\ t[m] = Close /\ Level(t, m) /\ ~Inside(t, m)
          /\ \A k \in 1..(m - 1) : Count(t, k, Close) < Count(t, k, Open)
    BY <1>4, MatchingClose
  <2>2. t[m] \notin Connectors \cup {Open} /\ t[m] # In
    BY <2>1, OtherKinds, TokenKinds, Zenon
  <2>3. ~Inside(t, m + 1)
    <3>. SUFFICES ASSUME NEW a \in 1..n, NEW b \in 1..n, a < m + 1, m + 1 <= b,
                         WholeList(t, a, b)
                 PROVE  FALSE
      BY <1>1, Zenon DEF Inside
    <3>1. a # m
      BY <2>2, Zenon DEF WholeList
    <3>2. a < m /\ m <= b
      BY <1>1, <3>1
    <3>. QED BY <1>1, <2>1, <3>2, Zenon DEF Inside
  <2>4. m # n => Connected(t)
    BY <2>1, <2>2, <2>3, SplitQuery
  <2>5. ASSUME m = n PROVE Enclosed(t)
    <3>. DEFINE u == SubSeq(t, 2, n - 1)
    <3>1. t[n] = Close /\ ~Inside(t, n)
          /\ \A k \in 1..(n - 1) : Count(t, k, Close) < Count(t, k, Open)
      BY <2>1, <2>5, Zenon
    <3>2. n > 2
      <4>1. MayStand(t, n)
        BY <1>1, <3>1, QueryIs, Zenon
      <4>2. t[n] # Open /\ ~Operand(t, n)
        BY <3>1, OtherKinds, TokenKinds, Zenon DEF Operand, WholeList
      <4>3. n # 1 /\ t[n - 1] # Open
        BY <4>1, <4>2, Zenon DEF MayStand
      <4>4. n = 2 => n - 1 = 1
        OBVIOUS
      <4>5. n # 2
        BY <1>4, <4>3, <4>4, Zenon
      <4>. QED BY <1>1, <4>3, <4>5
    <3>3. /\ u \in Seq(Tokens) /\ Len(u) = n - 2 /\ IsPart(u, t, 1)
          /\ t = <<t[1]>> \o u \o <<t[n]>>
      BY <3>2, InnerPart, Zenon
    <3>. HIDE DEF u
    <3>4. IsQuery(u) /\ ~OrderLast(u)
      BY <1>4, <3>1, <3>3, InnerIsQuery, Zenon
    <3>5. Len(u) < n
      BY <1>1, <3>3
    <3>6. t = <<Open>> \o u \o <<Close>>
      BY <1>4, <3>1, <3>3, Zenon
    <3>. QED BY <3>3, <3>4, <3>5, <3>6, Zenon DEF Enclosed, Shorter
  <2>. QED BY <2>4, <2>5, Zenon
<1>. QED BY <1>1, <1>2, <1>3, <1>4, Zenon DEF Operand

LEMMA QueryIsExpression ==
  ASSUME NEW t \in Seq(Tokens), IsQuery(t), ~OrderLast(t)
  PROVE  Expression(t)
<1>. SUFFICES ASSUME NEW S \in SUBSET Seq(Tokens), HasConditions(S)
             PROVE  t \in S
  BY Zenon DEF Expression
<1>. DEFINE Missing == {r \in Seq(Tokens) : IsQuery(r) /\ ~OrderLast(r) /\ r \notin S}
            lengths == {Len(r) : r \in Missing}
<1>1. ASSUME t \notin S PROVE FALSE
  <2>1. lengths \in SUBSET Nat /\ lengths # {}
    <3>1. \A r \in Missing : Len(r) \in Nat
      OBVIOUS
    <3>2. t \in Missing
      BY <1>1, Zenon
    <3>. HIDE DEF Missing
    <3>. QED BY <3>1, <3>2
  <2>2. PICK least \in lengths : \A l \in lengths : least <= l
    <3>. HIDE DEF lengths
    <3>. QED BY <2>1, Least, Zenon
  <2>3. PICK r \in Missing : Len(r) = least
    <3>. HIDE DEF Missing
    <3>. QED OBVIOUS
  <2>4. r \in Seq(Tokens) /\ IsQuery(r) /\ ~OrderLast(r) /\ r \notin S
    BY Zenon
  <2>5. ASSUME NEW u \in Seq(Tokens), Shorter(u, r)
        PROVE  u \in S
    <3>. SUFFICES ASSUME u \notin S PROVE FALSE
      OBVIOUS
    <3>1. u \in Missing
      BY <2>5, Zenon DEF Shorter
    <3>2. Len(u) \in lengths
      <4>. HIDE DEF Missing
      <4>. QED BY <3>1
    <3>3. Len(r) <= Len(u) /\ Len(u) < Len(r)
      BY <2>2, <2>3, <2>5, <3>2, Zenon DEF Shorter
    <3>4. Len(u) \in Nat /\ Len(r) \in Nat
      BY <2>4, SequenceOfTokens, Zenon
    <3>. QED BY <3>3, <3>4
  <2>. HIDE DEF Missing, lengths
  <2>6. ~((Len(r) = 1 /\ r[1].kind \in ClauseKinds) \/ WholeList(r, 1, Len(r)))
    BY <2>4, Zenon DEF HasConditions
  <2>7. ~Enclosed(r)
    BY <2>4, <2>5, Zenon DEF HasConditions, Enclosed
  <2>8. ~Connected(r)
    BY <2>4, <2>5, Zenon DEF HasConditions, Connected
  <2>. QED BY <2>4, <2>6, <2>7, <2>8, QueryParts, Zenon
<1>. QED BY <1>1, Zenon

LEMMA OrderedQuery ==
  ASSUME NEW t \in Seq(Tokens), IsQuery(t), OrderLast(t)
  PROVE  IsQuery(Rest(t)) /\ ~OrderLast(Rest(t))
<1>. DEFINE n == Len(t)
            u == SubSeq(t, 1, n - 1)
<1>1. n \in 1..n /\ Ends(t, n) /\ Count(t, n, Open) = Count(t, n, Close)
  BY SequenceOfTokens, Zenon DEF OrderLast, Ends, IsQuery, Balanced
<1>2. u \in Seq(Tokens) /\ Len(u) = n - 1 /\ IsPart(u, t, 0)
  BY <1>1, PartsAt, Zenon
<1>3. Rest(t) = u
  BY Zenon DEF Rest
<1>. HIDE DEF u
<1>. QED BY <1>1, <1>2, <1>3, FrontIsQuery, Zenon

(* JQL says of each token what may stand before it.  Those are, of         *)
(* whatever length, the queries of the grammar and no others.              *)
THEOREM QueriesAreTheExpressions ==
  ASSUME NEW t \in Seq(Tokens)
  PROVE  IsQuery(t) <=> Expression(Rest(t))
<1>1. Rest(t) \in Seq(Tokens)
  BY RestIsPrefix, Zenon
<1>2. IsQuery(t) => IsQuery(Rest(t)) /\ ~OrderLast(Rest(t))
  <2>1. CASE OrderLast(t)
    BY <2>1, OrderedQuery, Zenon
  <2>2. CASE ~OrderLast(t)
    BY <2>2, Zenon DEF Rest
  <2>. QED BY <2>1, <2>2
<1>. QED BY <1>1, <1>2, ExpressionsAreQueries, QueryIsExpression, Zenon

(* So no query of the supported clauses is refused, of all that can be     *)
(* written, and with AND alone it loses no issue that it asks for.         *)
THEOREM ExpressionsAreAnswered ==
  ParenthesesSpec =>
    [](Decided /\ Expression(Rest(jql)) =>
         /\ ParseJQL.ok
         /\ OnlyAnd(jql) =>
              {x \in YouTrackIssues : Matches(x, jql)} \subseteq ToYouTrackQuery(ParseJQL))
<1>1. ASSUME ParenthesesInv, QueriesAreAnswered, Decided, Expression(Rest(jql))
      PROVE  /\ ParseJQL.ok
             /\ OnlyAnd(jql) =>
                  {x \in YouTrackIssues : Matches(x, jql)} \subseteq ToYouTrackQuery(ParseJQL)
  <2>1. jql \in Seq(Tokens)
    BY <1>1, Zenon DEF ParenthesesInv, ParenthesesTypeOK
  <2>2. IsQuery(jql)
    BY <1>1, <2>1, ExpressionsAreQueries, Zenon
  <2>. QED BY <1>1, <2>2, Zenon DEF QueriesAreAnswered
<1>. QED BY <1>1, ParenthesesInvariant, QueriesAreAlwaysAnswered, PTL
=============================================================================
