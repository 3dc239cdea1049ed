-------------------------- MODULE BoardSyncProofs --------------------------
(***************************************************************************)
(* From the list of boards to the issues of one, for every value of the    *)
(* constants: numbers of any width, projects in any order, and renamed,    *)
(* created and deleted between any two requests.  That a number leads back *)
(* to its ID is proved in FieldValuesProofs, with the other facts of IdMap *)
(* that the clients of both modules rely on.                               *)
(***************************************************************************)
EXTENDS BoardSync, FieldValuesProofs, FiniteSetTheorems, SequenceTheorems,
        WellFoundedInduction

(* Short names belong to one project.                                      *)
NamesAreUnique ==
  \A p, q \in ProjectIds : key[p] = key[q] /\ key[p] # NoKey => p = q

(* A board is that of a project whose ID can be encoded.                   *)
IsBoard(b) == Fits(b.project) /\ b = BoardOf(b.project)

(* The boards listed so far are the first of all, if projects only came at *)
(* the end.                                                                *)
ListingFollows ==
  /\ \A k \in DOMAIN boards : IsBoard(boards[k])
  /\ steady /\ phase \in {"listing", "listed"} =>
       /\ IsPrefix(boards, Boards)
       /\ expected <= Len(Boards)
       /\ phase = "listed" => Len(boards) >= expected

(* The name k leads to the chosen board's project, or to none any more.    *)
Leads(k) ==
  /\ \A p \in ProjectIds : key[p] = k => p = board.project
  /\ unchanged => key[board.project] = k

(* What the client has, it has from its board.                             *)
WalkFollows ==
  /\ phase \in {"chosen", "configured", "query", "resolved", "found"} =>
       /\ IsBoard(board)
       /\ unchanged => board.project \in Range(projects)
  /\ phase \in {"query", "resolved", "found"} =>
       /\ clause.project # NoKey => Leads(clause.project)
       /\ clause.filterId \in {0, board.id}
       /\ clause.project = NoKey => clause.filterId = board.id
  /\ phase = "resolved" =>
       /\ scope # NoKey => Leads(scope)
       /\ scope = NoKey => board.id = 0 /\ clause.project = NoKey

BoardInv ==
  /\ BoardSyncTypeOK /\ NamesAreUnique
  /\ ListingFollows /\ WalkFollows /\ BoardLeadsToProject

-----------------------------------------------------------------------------
(*                        Counting what is encodable                       *)

(* A set of natural numbers has a least one.                               *)
LEMMA Least ==
  ASSUME NEW T \in SUBSET Nat, T # {}
  PROVE  \E x \in T : \A y \in T : x <= y
<1> DEFINE before == OpToRel(<, Nat)
<1>1. IsWellFoundedOn(before, Nat)
  BY NatLessThanWellFounded
<1>2. \A x, y \in Nat : <<y, x>> \in before <=> y < x
  BY DEF OpToRel
<1> HIDE DEF before
<1>3. PICK x \in T : \A y \in T : ~(<<y, x>> \in before)
  BY <1>1, WFMin
<1>4. \A y \in T : ~(y < x)
  BY <1>2, <1>3
<1>5. \A y \in T : x <= y
  BY <1>4
<1>6. QED
  BY <1>5

(* How many members of a set are at most n: one more with each member.     *)
LEMMA CountStep ==
  ASSUME NEW E, NEW n \in Nat
  PROVE  /\ IsFiniteSet(E \cap 1..n) /\ Cardinality(E \cap 1..n) \in Nat
         /\ n + 1 \in E =>
              Cardinality(E \cap 1..(n + 1)) = Cardinality(E \cap 1..n) + 1
         /\ n + 1 \notin E =>
              Cardinality(E \cap 1..(n + 1)) = Cardinality(E \cap 1..n)
<1>1. IsFiniteSet(E \cap 1..n) /\ Cardinality(E \cap 1..n) \in Nat
  <2>1. IsFiniteSet(1..n)
    BY FS_Interval
  <2>2. IsFiniteSet(E \cap 1..n)
    BY <2>1, FS_Subset
  <2>3. QED
    BY <2>2, FS_CardinalityType
<1>2. 1..(n + 1) = 1..n \cup {n + 1} /\ n + 1 \notin 1..n
  OBVIOUS
<1>3. ASSUME n + 1 \in E
      PROVE  Cardinality(E \cap 1..(n + 1)) = Cardinality(E \cap 1..n) + 1
  <2>1. E \cap 1..(n + 1) = (E \cap 1..n) \cup {n + 1} /\ n + 1 \notin E \cap 1..n
    BY <1>2, <1>3
  <2>2. QED
    BY <1>1, <2>1, FS_AddElement
<1>4. ASSUME n + 1 \notin E
      PROVE  Cardinality(E \cap 1..(n + 1)) = Cardinality(E \cap 1..n)
  <2>1. E \cap 1..(n + 1) = E \cap 1..n
    BY <1>2, <1>4
  <2>2. QED
    BY <2>1
<1>5. QED
  BY <1>1, <1>3, <1>4

(* ... and more up to a member than up to anything before it.              *)
LEMMA CountGrows ==
  ASSUME NEW E, NEW m \in Nat, NEW n \in E, n \in Nat, m < n
  PROVE  Cardinality(E \cap 1..m) < Cardinality(E \cap 1..n)
<1>1. IsFiniteSet(E \cap 1..m) /\ IsFiniteSet(E \cap 1..n)
      /\ Cardinality(E \cap 1..m) \in Nat /\ Cardinality(E \cap 1..n) \in Nat
  BY CountStep
<1>2. n \notin E \cap 1..m /\ (E \cap 1..m) \cup {n} \subseteq E \cap 1..n
  OBVIOUS
<1>3. Cardinality((E \cap 1..m) \cup {n}) = Cardinality(E \cap 1..m) + 1
  BY <1>1, <1>2, FS_AddElement
<1>4. Cardinality((E \cap 1..m) \cup {n}) <= Cardinality(E \cap 1..n)
  BY <1>1, <1>2, FS_Subset
<1>5. QED
  BY <1>1, <1>3, <1>4

(* The k-th member is there, if there are k ...                            *)
LEMMA NthExists ==
  ASSUME NEW n \in Nat, NEW E \in SUBSET (1..n), NEW k \in 1..Cardinality(E)
  PROVE  \E i \in E : Cardinality(E \cap 1..i) = k
<1> DEFINE count(m) == Cardinality(E \cap 1..m)
           T == {m \in Nat : k <= count(m)}
<1>1. \A m \in Nat : count(m) \in Nat
  BY CountStep
<1>2. E \cap 1..n = E /\ E \cap 1..0 = {}
  <2>1. 1..0 = {}
    OBVIOUS
  <2>2. E \subseteq 1..n
    OBVIOUS
  <2>3. QED
    BY <2>1, <2>2, Zenon
<1>3. count(n) = Cardinality(E) /\ count(0) = 0
  BY <1>2, FS_EmptySet
<1>4. k \in Nat /\ k >= 1 /\ k <= count(n)
  BY <1>1, <1>3
<1>5. n \in T
  BY <1>4
<1>6. PICK x \in T : \A y \in T : x <= y
  <2> HIDE DEF count
  <2>1. T \in SUBSET Nat /\ T # {}
    BY <1>5
  <2> HIDE DEF T
  <2>2. QED
    BY <2>1, Least
<1>7. \A m \in Nat : m + 1 \in E => count(m + 1) = count(m) + 1
  BY CountStep
<1>8. \A m \in Nat : m + 1 \notin E => count(m + 1) = count(m)
  BY CountStep
<1> HIDE DEF count
<1>9. x \in Nat /\ k <= count(x)
  OBVIOUS
<1>10. x # 0
  BY <1>3, <1>4, <1>9
<1>11. x - 1 \in Nat /\ (x - 1) + 1 = x
  BY <1>9, <1>10
<1>12. ~(k <= count(x - 1))
  <2>1. x - 1 \notin T
    BY <1>6, <1>9, <1>11
  <2>2. QED
    BY <1>11, <2>1
<1>13. x \in E /\ count(x) = count(x - 1) + 1
  <2>1. (x \in E => count(x) = count(x - 1) + 1) /\ (x \notin E => count(x) = count(x - 1))
    BY <1>7, <1>8, <1>11
  <2>2. QED
    BY <1>9, <1>12, <2>1
<1>14. count(x) = k
  BY <1>1, <1>4, <1>9, <1>11, <1>12, <1>13
<1>15. QED
  BY <1>13, <1>14 DEF count

(* ... and there is one only.                                              *)
LEMMA NthIsOne ==
  ASSUME NEW E \in SUBSET Nat, NEW i \in E, NEW j \in E,
         Cardinality(E \cap 1..i) = Cardinality(E \cap 1..j)
  PROVE  i = j
<1>1. Cardinality(E \cap 1..i) \in Nat /\ Cardinality(E \cap 1..j) \in Nat
  BY CountStep
<1>2. i \in Nat /\ j \in Nat
  OBVIOUS
<1>3. i < j => Cardinality(E \cap 1..i) < Cardinality(E \cap 1..j)
  BY <1>2, CountGrows
<1>4. j < i => Cardinality(E \cap 1..j) < Cardinality(E \cap 1..i)
  BY <1>2, CountGrows
<1>5. QED
  BY <1>1, <1>2, <1>3, <1>4

-----------------------------------------------------------------------------
(*                               The boards                                *)

LEMMA NumbersAreNatural ==
  ASSUME NEW p \in ProjectIds, Fits(p)
  PROVE  p \in Ids /\ Encode(p) \in Nat /\ Decode(Encode(p)) = p
<1>1. p \in Ids
  BY ProjectIdsAssumption
<1>2. Decode(Encode(p)) = p
  BY <1>1, NumbersAreReversible
<1>3. Flag \in Nat
  BY FlagFacts DEF Capacity
<1>4. Encode(p) \in Flag..(2 * Flag - 1) \/ Encode(p) \in 0..(Flag - 1)
  BY <1>1, NumbersFitInt64
<1>5. Encode(p) \in Nat
  BY <1>3, <1>4
<1>6. QED
  BY <1>1, <1>2, <1>5

LEMMA EncodableFacts ==
  ASSUME NEW s \in Seq(ProjectIds), NEW E, E = {i \in DOMAIN s : Fits(s[i])}
  PROVE  /\ Len(s) \in Nat /\ E \subseteq 1..Len(s) /\ E \in SUBSET Nat
         /\ IsFiniteSet(E) /\ Cardinality(E) \in Nat
         /\ \A i \in E : s[i] \in ProjectIds /\ Fits(s[i])
<1>1. Len(s) \in Nat /\ E \subseteq 1..Len(s)
  OBVIOUS
<1>2. E \in SUBSET Nat
  BY <1>1
<1>3. IsFiniteSet(1..Len(s))
  BY <1>1, FS_Interval
<1>4. IsFiniteSet(E)
  BY <1>1, <1>3, FS_Subset
<1>5. Cardinality(E) \in Nat
  BY <1>4, FS_CardinalityType
<1>6. QED
  BY <1>1, <1>2, <1>4, <1>5

LEMMA FunctionIsSequence ==
  ASSUME NEW S, NEW m \in Nat, NEW f \in [1..m -> S]
  PROVE  f \in Seq(S) /\ Len(f) = m
OBVIOUS

(* There is a board for each project whose ID can be encoded, and each is  *)
(* such a project's.                                                       *)
BoardsAreEncodable ==
  /\ \A k \in 1..Cardinality(Encodable) :
       /\ Nth(k) \in Encodable /\ Cardinality(Encodable \cap 1..Nth(k)) = k
       /\ IsBoard(Boards[k])
  /\ Boards \in Seq([id : Nat, project : ProjectIds])
  /\ Len(Boards) = Cardinality(Encodable) /\ Len(Boards) \in Nat

LEMMA BoardsFacts == BoardSyncTypeOK => BoardsAreEncodable
<1> SUFFICES ASSUME BoardSyncTypeOK PROVE BoardsAreEncodable
  OBVIOUS
<1>1. projects \in Seq(ProjectIds)
  BY DEF BoardSyncTypeOK
<1>2. /\ Len(projects) \in Nat /\ Encodable \subseteq 1..Len(projects)
      /\ Cardinality(Encodable) \in Nat
      /\ \A i \in Encodable : projects[i] \in ProjectIds /\ Fits(projects[i])
  BY <1>1, EncodableFacts DEF Encodable
<1> DEFINE c == Cardinality(Encodable)
<1>3. ASSUME NEW k \in 1..c
      PROVE  /\ Nth(k) \in Encodable /\ Cardinality(Encodable \cap 1..Nth(k)) = k
             /\ Boards[k] = BoardOf(projects[Nth(k)])
             /\ Boards[k] \in [id : Nat, project : ProjectIds]
             /\ IsBoard(Boards[k])
  <2>1. \E i \in Encodable : Cardinality(Encodable \cap 1..i) = k
    BY <1>2, NthExists
  <2>2. Nth(k) \in Encodable /\ Cardinality(Encodable \cap 1..Nth(k)) = k
    BY <2>1 DEF Nth
  <2>3. Boards[k] = BoardOf(projects[Nth(k)])
    BY DEF Boards
  <2>4. projects[Nth(k)] \in ProjectIds /\ Fits(projects[Nth(k)])
    BY <1>2, <2>2
  <2>5. Encode(projects[Nth(k)]) \in Nat
    BY <2>4, NumbersAreNatural
  <2>6. Boards[k].project = projects[Nth(k)]
    BY <2>3 DEF BoardOf
  <2>7. Boards[k] \in [id : Nat, project : ProjectIds]
    BY <2>3, <2>4, <2>5 DEF BoardOf
  <2>8. IsBoard(Boards[k])
    BY <2>3, <2>4, <2>6 DEF IsBoard
  <2>9. QED
    BY <2>2, <2>3, <2>7, <2>8
<1>4. Boards \in [1..c -> [id : Nat, project : ProjectIds]]
  <2>1. Boards = [k \in 1..c |-> BoardOf(projects[Nth(k)])]
    BY DEF Boards
  <2>2. \A k \in 1..c : BoardOf(projects[Nth(k)]) \in [id : Nat, project : ProjectIds]
    BY <1>3
  <2> HIDE DEF c
  <2>3. QED
    BY <2>1, <2>2
<1>5. Boards \in Seq([id : Nat, project : ProjectIds]) /\ Len(Boards) = c
  <2>1. c \in Nat
    BY <1>2
  <2> HIDE DEF c
  <2>2. QED
    BY <1>4, <2>1, FunctionIsSequence
<1>6. QED
  BY <1>2, <1>3, <1>5 DEF BoardsAreEncodable

(* A project that is created at the end of the list leaves the boards and  *)
(* may add one behind them.                                                *)
LEMMA BoardsGrow ==
  ASSUME BoardSyncTypeOK, BoardSyncTypeOK', NEW p \in ProjectIds,
         projects' = Append(projects, p)
  PROVE  /\ Len(Boards) <= Len(Boards')
         /\ \A k \in 1..Len(Boards) : Boards'[k] = Boards[k]
<1> DEFINE E == Encodable
           F == Encodable'
           n == Len(projects)
<1>1. projects \in Seq(ProjectIds) /\ projects' \in Seq(ProjectIds)
  BY DEF BoardSyncTypeOK
<1>2. n \in Nat /\ E \subseteq 1..n /\ E \in SUBSET Nat /\ IsFiniteSet(E)
  BY <1>1, EncodableFacts DEF Encodable
<1>3. F \in SUBSET Nat /\ IsFiniteSet(F)
  <2>1. F = {i \in DOMAIN projects' : Fits(projects'[i])}
    BY DEF Encodable
  <2>2. QED
    BY <1>1, <2>1, EncodableFacts
<1>4. DOMAIN projects' = 1..(n + 1) /\ DOMAIN projects = 1..n
  BY <1>1
<1>5. \A i \in DOMAIN projects : projects'[i] = projects[i] /\ i \in DOMAIN projects'
  BY <1>1
<1>6. E \subseteq F /\ \A i \in F : i = n + 1 \/ i \in E
  <2>1. \A i \in 1..(n + 1) : i = n + 1 \/ i \in 1..n
    BY <1>2
  <2>2. QED
    BY <1>4, <1>5, <2>1 DEF Encodable
<1>7. Cardinality(E) <= Cardinality(F)
  BY <1>3, <1>6, FS_Subset
<1>a. BoardsAreEncodable /\ BoardsAreEncodable'
  BY BoardsFacts, PTL
<1>8. Len(Boards) = Cardinality(E) /\ Len(Boards') = Cardinality(F)
      /\ \A k \in 1..Cardinality(E) : Nth(k) \in E /\ Cardinality(E \cap 1..Nth(k)) = k
  BY <1>a DEF BoardsAreEncodable
<1>9. \A k \in 1..Cardinality(F) :
        Nth(k)' \in F /\ Cardinality(F \cap 1..Nth(k)') = k
  BY <1>a DEF BoardsAreEncodable
<1>10. Cardinality(E) \in Nat /\ Cardinality(F) \in Nat
  BY <1>2, <1>3, FS_CardinalityType
<1>11. ASSUME NEW k \in 1..Cardinality(E)
       PROVE  Boards'[k] = Boards[k]
  <2>1. k \in 1..Cardinality(F)
    BY <1>7, <1>10
  <2>2. Nth(k) \in E /\ Cardinality(E \cap 1..Nth(k)) = k
    BY <1>8
  <2>3. Nth(k) \in 1..n
    BY <1>2, <2>2
  <2>4. E \cap 1..Nth(k) = F \cap 1..Nth(k)
    <3>1. n + 1 \notin 1..Nth(k)
      BY <1>2, <2>3
    <3>2. QED
      BY <1>6, <3>1
  <2>5. Nth(k)' \in F /\ Cardinality(F \cap 1..Nth(k)') = k
    BY <1>9, <2>1
  <2>6. Nth(k)' = Nth(k)
    <3> HIDE DEF E, F
    <3>1. Nth(k) \in F /\ Cardinality(F \cap 1..Nth(k)) = Cardinality(F \cap 1..Nth(k)')
      BY <1>6, <2>2, <2>4, <2>5, Zenon
    <3>2. \A i, j \in F : Cardinality(F \cap 1..i) = Cardinality(F \cap 1..j) => i = j
      BY <1>3, NthIsOne
    <3>3. QED
      BY <2>5, <3>1, <3>2
  <2>7. Boards[k] = BoardOf(projects[Nth(k)])
    BY DEF Boards
  <2>8. Boards'[k] = BoardOf(projects'[Nth(k)'])
    BY <2>1 DEF Boards, BoardOf
  <2>9. projects'[Nth(k)] = projects[Nth(k)]
    BY <1>4, <1>5, <2>3
  <2>10. QED
    BY <2>6, <2>7, <2>8, <2>9
<1>12. QED
  BY <1>7, <1>8, <1>11

-----------------------------------------------------------------------------
(*                        The list of projects                             *)

(* A member that is inserted moves those behind it by one place, ...       *)
LEMMA InsertedPlaces ==
  ASSUME NEW S, NEW s \in Seq(S), NEW i \in 1..(Len(s) + 1), NEW e \in S,
         NEW t, t = InsertAt(s, i, e)
  PROVE  /\ t \in Seq(S) /\ Len(t) = Len(s) + 1
         /\ \A j \in 1..(Len(s) + 1) :
              t[j] = IF j < i THEN s[j] ELSE IF j = i THEN e ELSE s[j - 1]
<1> DEFINE a == SubSeq(s, 1, i - 1)
           b == SubSeq(s, i, Len(s))
           n == Len(s)
<1>1. n \in Nat /\ i \in Nat /\ 1 <= i /\ i <= n + 1
  OBVIOUS
<1>2. a \in Seq(S) /\ Len(a) = i - 1 /\ \A j \in 1..(i - 1) : a[j] = s[j]
  OBVIOUS
<1>3. b \in Seq(S) /\ Len(b) = n - i + 1 /\ \A j \in 1..(n - i + 1) : b[j] = s[i + j - 1]
  OBVIOUS
<1>4. <<e>> \in Seq(S) /\ Len(<<e>>) = 1 /\ <<e>>[1] = e
  OBVIOUS
<1>5. t = (a \o <<e>>) \o b
  BY DEF InsertAt
<1> HIDE DEF a, b, n
<1> DEFINE c == a \o <<e>>
<1>6. /\ c \in Seq(S) /\ Len(c) = i
      /\ \A j \in 1..i : c[j] = IF j < i THEN a[j] ELSE e
  BY <1>1, <1>2, <1>4
<1> HIDE DEF c
<1>7. t = c \o b
  BY <1>5 DEF c
<1>8. t \in Seq(S) /\ Len(t) = n + 1
  <2>1. t \in Seq(S) /\ Len(t) = Len(c) + Len(b)
    <3>1. c \in Seq(S) /\ b \in Seq(S)
      BY <1>3, <1>6
    <3>2. c \o b \in Seq(S) /\ Len(c \o b) = Len(c) + Len(b)
      BY <3>1, ConcatProperties
    <3>3. QED
      BY <1>7, <3>2
  <2>2. QED
    BY <1>1, <1>3, <1>6, <2>1
<1>9. ASSUME NEW j \in 1..(n + 1)
      PROVE  t[j] = IF j < i THEN s[j] ELSE IF j = i THEN e ELSE s[j - 1]
  <2>1. t[j] = IF j <= i THEN c[j] ELSE b[j - i]
    BY <1>1, <1>3, <1>6, <1>7
  <2>2. CASE j < i
    BY <1>1, <1>2, <1>6, <2>1, <2>2
  <2>3. CASE j = i
    BY <1>1, <1>6, <2>1, <2>3
  <2>4. CASE j > i
    <3>1. j - i \in 1..(n - i + 1) /\ i + (j - i) - 1 = j - 1
      BY <1>1, <2>4
    <3>2. b[j - i] = s[j - 1]
      BY <1>3, <3>1
    <3>3. QED
      BY <1>1, <2>1, <2>4, <3>2
  <2>5. QED
    BY <1>1, <2>2, <2>3, <2>4
<1>10. QED
  BY <1>8, <1>9 DEF n

(* ... so it is a member, all others are what they were, and none is there *)
(* twice.                                                                  *)
LEMMA Inserted ==
  ASSUME NEW S, NEW s \in Seq(S), NEW i \in 1..(Len(s) + 1), NEW e \in S,
         NEW t, t = InsertAt(s, i, e)
  PROVE  /\ t \in Seq(S) /\ Range(t) = Range(s) \cup {e}
         /\ IsInjective(s) /\ e \notin Range(s) => IsInjective(t)
         /\ i = Len(s) + 1 => t = Append(s, e)
<1> DEFINE n == Len(s)
<1>1. n \in Nat /\ i \in Nat /\ 1 <= i /\ i <= n + 1 /\ DOMAIN s = 1..n
  OBVIOUS
<1>2. /\ t \in Seq(S) /\ Len(t) = n + 1 /\ DOMAIN t = 1..(n + 1)
      /\ \A j \in 1..(n + 1) :
           t[j] = IF j < i THEN s[j] ELSE IF j = i THEN e ELSE s[j - 1]
  BY InsertedPlaces
<1> HIDE DEF n
<1>3. \A j \in 1..(n + 1) : j # i =>
        /\ (IF j < i THEN j ELSE j - 1) \in 1..n
        /\ t[j] = s[IF j < i THEN j ELSE j - 1]
  <2>1. \A j \in 1..(n + 1) : j < i => j \in 1..n
    BY <1>1
  <2>2. \A j \in 1..(n + 1) : j # i /\ ~(j < i) => j - 1 \in 1..n
    BY <1>1
  <2>3. QED
    BY <1>2, <2>1, <2>2
<1>4. \A k \in 1..n : k < i => k \in 1..(n + 1) /\ t[k] = s[k]
  BY <1>1, <1>2
<1>5. \A k \in 1..n : ~(k < i) => k + 1 \in 1..(n + 1) /\ t[k + 1] = s[k]
  <2>1. \A k \in 1..n : ~(k < i) =>
          k + 1 \in 1..(n + 1) /\ ~(k + 1 < i) /\ k + 1 # i /\ (k + 1) - 1 = k
    BY <1>1
  <2>2. QED
    BY <1>2, <2>1
<1>6. i \in 1..(n + 1) /\ t[i] = e
  BY <1>1, <1>2
<1>7. Range(t) = Range(s) \cup {e}
  <2>1. ASSUME NEW x \in Range(t) PROVE x \in Range(s) \cup {e}
    <3>1. PICK j \in 1..(n + 1) : x = t[j]
      BY <1>2 DEF Range
    <3>2. QED
      BY <1>1, <1>3, <1>6, <3>1 DEF Range
  <2>2. ASSUME NEW x \in Range(s) PROVE x \in Range(t)
    <3>1. PICK k \in 1..n : x = s[k]
      BY <1>1 DEF Range
    <3>2. QED
      BY <1>2, <1>4, <1>5, <3>1 DEF Range
  <2>3. e \in Range(t)
    BY <1>2, <1>6 DEF Range
  <2>4. QED
    BY <2>1, <2>2, <2>3
<1>8. ASSUME IsInjective(s), e \notin Range(s),
             NEW j \in 1..(n + 1), NEW k \in 1..(n + 1), t[j] = t[k]
      PROVE  j = k
  <2> DEFINE p(m) == IF m < i THEN m ELSE m - 1
  <2>1. \A m \in 1..(n + 1) : m # i => t[m] # e
    BY <1>1, <1>3, <1>8 DEF Range
  <2>2. CASE j = i \/ k = i
    BY <1>6, <1>8, <2>1, <2>2
  <2>3. CASE j # i /\ k # i
    <3>1. p(j) \in DOMAIN s /\ p(k) \in DOMAIN s /\ s[p(j)] = s[p(k)]
      BY <1>1, <1>3, <1>8, <2>3
    <3>2. p(j) = p(k)
      <4> HIDE DEF p
      <4>1. QED
        BY <1>8, <3>1 DEF IsInjective
    <3>3. QED
      BY <1>1, <2>3, <3>2
  <2>4. QED
    BY <2>2, <2>3
<1>9. IsInjective(s) /\ e \notin Range(s) => IsInjective(t)
  BY <1>2, <1>8 DEF IsInjective
<1>10. ASSUME i = n + 1
       PROVE  t = Append(s, e)
  <2>1. Append(s, e) \in Seq(S) /\ Len(Append(s, e)) = n + 1
    BY DEF n
  <2>2. \A j \in 1..(n + 1) : Append(s, e)[j] = t[j]
    <3>1. \A j \in 1..(n + 1) : Append(s, e)[j] = IF j = n + 1 THEN e ELSE s[j]
      BY DEF n
    <3>2. QED
      BY <1>1, <1>2, <1>10, <3>1
  <2>3. QED
    BY <1>1, <1>2, <2>1, <2>2, SeqEqual
<1>11. QED
  BY <1>2, <1>7, <1>9, <1>10 DEF n

(* One that is removed is gone from its place, and the others stay.        *)
LEMMA Removed ==
  ASSUME NEW S, NEW s \in Seq(S), NEW i \in 1..Len(s), NEW t, t = RemoveAt(s, i)
  PROVE  /\ t \in Seq(S) /\ Range(t) \subseteq Range(s)
         /\ Range(s) \subseteq Range(t) \cup {s[i]}
         /\ IsInjective(s) => IsInjective(t)
<1> DEFINE a == SubSeq(s, 1, i - 1)
           b == SubSeq(s, i + 1, Len(s))
           n == Len(s)
           p(m) == IF m < i THEN m ELSE m + 1
<1>1. n \in Nat /\ i \in Nat /\ 1 <= i /\ i <= n /\ DOMAIN s = 1..n
  OBVIOUS
<1>2. a \in Seq(S) /\ Len(a) = i - 1 /\ \A j \in 1..(i - 1) : a[j] = s[j]
  OBVIOUS
<1>3. b \in Seq(S) /\ Len(b) = n - i /\ \A j \in 1..(n - i) : b[j] = s[i + j]
  OBVIOUS
<1>4. t = a \o b
  BY DEF RemoveAt
<1> HIDE DEF a, b, n
<1>5. t \in Seq(S) /\ Len(t) = n - 1 /\ DOMAIN t = 1..(n - 1)
  BY <1>1, <1>2, <1>3, <1>4
<1>6. ASSUME NEW j \in 1..(n - 1)
      PROVE  t[j] = s[p(j)] /\ p(j) \in 1..n
  <2>1. CASE j < i
    <3>1. j \in 1..(i - 1) /\ j \in 1..n
      BY <1>1, <2>1
    <3>2. t[j] = a[j]
      BY <1>1, <1>2, <1>3, <1>4, <3>1
    <3>3. QED
      BY <1>2, <2>1, <3>1, <3>2
  <2>2. CASE ~(j < i)
    <3>1. j - (i - 1) \in 1..(n - i) /\ i + (j - (i - 1)) = j + 1 /\ j + 1 \in 1..n
      BY <1>1, <2>2
    <3>2. t[j] = b[j - (i - 1)]
      BY <1>1, <1>2, <1>3, <1>4, <2>2
    <3>3. t[j] = s[j + 1]
      BY <1>3, <3>1, <3>2
    <3>4. QED
      BY <2>2, <3>1, <3>3
  <2>3. QED
    BY <2>1, <2>2
<1>7. Range(t) \subseteq Range(s)
  <2> HIDE DEF p
  <2>1. QED
    BY <1>1, <1>5, <1>6 DEF Range
<1>8. ASSUME NEW x \in Range(s), x # s[i]
      PROVE  x \in Range(t)
  <2>1. PICK k \in 1..n : x = s[k] /\ k # i
    BY <1>1, <1>8 DEF Range
  <2>2. CASE k < i
    <3>1. k \in 1..(n - 1) /\ p(k) = k
      BY <1>1, <2>2
    <3>2. t[k] = x
      BY <1>6, <2>1, <3>1
    <3>3. QED
      BY <1>5, <3>1, <3>2 DEF Range
  <2>3. CASE k > i
    <3>1. k - 1 \in 1..(n - 1) /\ p(k - 1) = k
      BY <1>1, <2>3
    <3>2. t[k - 1] = x
      BY <1>6, <2>1, <3>1
    <3>3. QED
      BY <1>5, <3>1, <3>2 DEF Range
  <2>4. QED
    BY <1>1, <2>1, <2>2, <2>3
<1>9. ASSUME IsInjective(s), NEW j \in 1..(n - 1), NEW k \in 1..(n - 1), t[j] = t[k]
      PROVE  j = k
  <2>1. s[p(j)] = s[p(k)] /\ p(j) \in DOMAIN s /\ p(k) \in DOMAIN s
    BY <1>1, <1>6, <1>9
  <2>2. p(j) = p(k)
    <3> HIDE DEF p
    <3>1. QED
      BY <1>9, <2>1 DEF IsInjective
  <2>3. QED
    BY <1>1, <2>2
<1>10. IsInjective(s) => IsInjective(t)
  BY <1>5, <1>9 DEF IsInjective
<1>11. QED
  BY <1>5, <1>7, <1>8, <1>10

-----------------------------------------------------------------------------
(*                                The walk                                 *)

LEMMA BoardSyncStart == BoardInit => BoardInv
<1> SUFFICES ASSUME BoardInit PROVE BoardInv
  OBVIOUS
<1> USE NamesAssumption DEF BoardInit
<1>1. /\ projects \in Seq(ProjectIds) /\ DOMAIN projects = {}
      /\ boards \in Seq([id : Nat, project : ProjectIds]) /\ DOMAIN boards = {}
  OBVIOUS
<1>2. IsInjective(projects) /\ Range(projects) = {}
  BY <1>1 DEF IsInjective, Range
<1>3. key \in [ProjectIds -> Keys \cup {NoKey}]
  OBVIOUS
<1>4. clause \in [project : Keys \cup {NoKey}, filterId : Nat]
  BY DEF NoClause
<1>5. 0 \in 0..MaxNames
  OBVIOUS
<1>6. phase = "idle" /\ phase \in Phases
  BY DEF Phases
<1>7. BoardSyncTypeOK
  BY <1>1, <1>2, <1>3, <1>4, <1>5, <1>6 DEF BoardSyncTypeOK
<1>8. NamesAreUnique
  BY DEF NamesAreUnique
<1>9. ListingFollows /\ WalkFollows /\ BoardLeadsToProject
  BY <1>1 DEF ListingFollows, WalkFollows, BoardLeadsToProject
<1>10. QED
  BY <1>7, <1>8, <1>9 DEF BoardInv

(* Every sequence begins with the empty one, and with itself as far as it  *)
(* goes.                                                                   *)
LEMMA PrefixFacts ==
  ASSUME NEW S, NEW s \in Seq(S), NEW t \in Seq(S)
  PROVE  IsPrefix(s, t) <=> Len(s) <= Len(t) /\ \A i \in 1..Len(s) : s[i] = t[i]
<1>1. Len(s) \in Nat /\ Len(t) \in Nat
  OBVIOUS
<1>2. ASSUME Len(s) <= Len(t)
      PROVE  SubSeq(s, 1, Len(s)) = SubSeq(t, 1, Len(s)) <=> \A i \in 1..Len(s) : s[i] = t[i]
  <2> DEFINE a == SubSeq(s, 1, Len(s))
             b == SubSeq(t, 1, Len(s))
             n == Len(s)
  <2>1. a \in Seq(S) /\ Len(a) = n /\ \A i \in 1..n : a[i] = s[i]
    BY <1>1
  <2>2. \A i \in 1..n : i \in 1..Len(t)
    BY <1>1, <1>2
  <2>3. b \in Seq(S) /\ Len(b) = n /\ \A i \in 1..n : b[i] = t[i]
    BY <1>1, <1>2, <2>2
  <2> HIDE DEF a, b, n
  <2>4. (\A i \in 1..n : a[i] = b[i]) => a = b
    BY <2>1, <2>3, SeqEqual
  <2>5. a = b <=> \A i \in 1..n : s[i] = t[i]
    BY <2>1, <2>3, <2>4
  <2>6. QED
    BY <2>5 DEF a, b, n
<1>3. QED
  BY <1>2 DEF IsPrefix

(* The end of a page is behind its start unless it was in order to panic,  *)
(* and no page within the range of int is.                                 *)
LEMMA PagesInRange ==
  ASSUME NEW total \in Nat, NEW startAt \in Nat, NEW m \in Nat \ {0}
  PROVE  /\ End(startAt, m, total) \in Int /\ End(startAt, m, total) <= total
         /\ Clamp(startAt, total) \in 0..total
         /\ startAt <= total => Clamp(startAt, total) = startAt
         /\ m <= MaxInt - total => ~Panics(startAt, m, total)
<1>1. MaxInt \in Nat
  BY AsksAssumption
<1> DEFINE c == Clamp(startAt, total)
<1>2. c \in 0..total /\ (startAt <= total => c = startAt)
  BY DEF Clamp
<1> HIDE DEF c
<1>3. Plus(c, m) \in Int /\ (m <= MaxInt - total => Plus(c, m) = c + m)
  BY <1>1, <1>2 DEF Plus
<1>4. End(startAt, m, total) = Clamp(Plus(c, m), total)
  BY DEF End, c
<1>5. \A n \in Int : Clamp(n, total) \in Int /\ Clamp(n, total) <= total
                     /\ (n >= c => Clamp(n, total) >= c)
  BY <1>2 DEF Clamp
<1>6. End(startAt, m, total) \in Int /\ End(startAt, m, total) <= total
  BY <1>3, <1>4, <1>5
<1>7. ASSUME m <= MaxInt - total
      PROVE  ~(End(startAt, m, total) < c)
  <2>1. Plus(c, m) >= c
    BY <1>2, <1>3, <1>7
  <2>2. End(startAt, m, total) >= c
    BY <1>3, <1>4, <1>5, <2>1
  <2>3. QED
    BY <1>2, <1>6, <2>2
<1>8. QED
  BY <1>2, <1>6, <1>7 DEF Panics, c

(* The boards follow from the projects.                                    *)
LEMMA SameBoards == UNCHANGED projects => Boards' = Boards
  BY DEF Boards, Nth, Encodable, BoardOf

(* The phases in which a board is chosen.                                  *)
Walking == {"chosen", "configured", "query", "resolved", "found"}

(* The number of the chosen board leads to its project.                    *)
LEMMA BoardFacts ==
  ASSUME BoardInv, phase \in Walking
  PROVE  /\ board \in [id : Nat, project : ProjectIds] /\ board # << >>
         /\ board.project \in ProjectIds /\ board.id \in Nat
         /\ Decode(board.id) = board.project
         /\ Known(board.id) => key[board.project] \in Keys
         /\ Known(board.id) => Leads(key[board.project])
<1>1. board \in [id : Nat, project : ProjectIds]
  BY DEF BoardInv, BoardSyncTypeOK, Walking
<1>2. board.project \in ProjectIds /\ board.id \in Nat
  BY <1>1
<1>3. board # << >>
  <2>1. DOMAIN board = {"id", "project"}
    BY <1>1
  <2>2. DOMAIN << >> = {}
    OBVIOUS
  <2>3. QED
    BY <2>1, <2>2
<1>4. Fits(board.project) /\ board.id = Encode(board.project)
  BY DEF BoardInv, WalkFollows, Walking, IsBoard, BoardOf
<1>5. Decode(board.id) = board.project
  BY <1>2, <1>4, NumbersAreNatural
<1>6. ASSUME Known(board.id)
      PROVE  key[board.project] \in Keys
  <2>1. board.project \in Range(projects)
    BY <1>5, <1>6 DEF Known
  <2>2. key[board.project] # NoKey
    BY <2>1 DEF BoardInv, BoardSyncTypeOK
  <2>3. key \in [ProjectIds -> Keys \cup {NoKey}]
    BY DEF BoardInv, BoardSyncTypeOK
  <2>4. QED
    BY <1>2, <2>2, <2>3
<1>7. Known(board.id) => Leads(key[board.project])
  <2>1. NoKey \notin Keys
    BY DEF NoKey, Keys
  <2>2. NamesAreUnique
    BY DEF BoardInv
  <2>3. QED
    BY <1>2, <1>6, <2>1, <2>2 DEF Leads, NamesAreUnique
<1>8. QED
  BY <1>1, <1>2, <1>3, <1>5, <1>6, <1>7

LEMMA BoardSyncStartListing == BoardInv /\ StartListing => BoardInv'
<1> SUFFICES ASSUME BoardInv, StartListing PROVE BoardInv'
  OBVIOUS
<1>1. /\ phase' = "listing" /\ boards' = << >> /\ clause' = NoClause
      /\ scope' = NoKey /\ matched' = {} /\ steady' = TRUE /\ unchanged' = TRUE
      /\ expected' = Len(Boards) /\ projects' = projects /\ key' = key /\ names' = names
  BY DEF StartListing, youTrack
<1>2. BoardSyncTypeOK
  BY DEF BoardInv
<1>3. BoardsAreEncodable
  BY <1>2, BoardsFacts
<1>4. Boards' = Boards
  BY <1>1, SameBoards
<1>5. NoClause \in [project : Keys \cup {NoKey}, filterId : Nat]
  BY DEF NoClause
<1>6. << >> \in Seq([id : Nat, project : ProjectIds]) /\ DOMAIN << >> = {}
  OBVIOUS
<1>7. BoardSyncTypeOK'
  <2>1. Len(Boards) \in Nat
    BY <1>3 DEF BoardsAreEncodable
  <2>2. QED
    BY <1>1, <1>2, <1>5, <1>6, <2>1 DEF BoardSyncTypeOK, Keys, Phases
<1>8. NamesAreUnique'
  BY <1>1 DEF BoardInv, NamesAreUnique
<1>9. ListingFollows'
  <2>1. IsPrefix(<< >>, Boards)
    <3> DEFINE B == [id : Nat, project : ProjectIds]
    <3>1. Boards \in Seq(B)
      BY <1>3 DEF BoardsAreEncodable
    <3> HIDE DEF B
    <3>2. << >> \in Seq(B) /\ Len(<< >>) = 0 /\ Len(Boards) \in Nat
      BY <3>1
    <3>3. Len(<< >>) <= Len(Boards) /\ \A i \in 1..Len(<< >>) : << >>[i] = Boards[i]
      BY <3>2
    <3>4. QED
      BY <3>1, <3>2, <3>3, PrefixFacts
  <2>2. Len(Boards) \in Nat
    BY <1>3 DEF BoardsAreEncodable
  <2>3. expected' <= Len(Boards')
    BY <1>1, <1>4, <2>2
  <2>4. QED
    BY <1>1, <1>4, <1>6, <2>1, <2>3 DEF ListingFollows
<1>10. WalkFollows' /\ BoardLeadsToProject'
  BY <1>1 DEF WalkFollows, BoardLeadsToProject
<1>11. QED
  BY <1>7, <1>8, <1>9, <1>10 DEF BoardInv

(* A page continues the boards listed so far.                              *)
LEMMA PageContinues ==
  ASSUME BoardInv, phase = "listing", NEW m \in Asks,
         NEW t, t = Len(Boards), ~Panics(Len(boards), m, t),
         NEW s, s = boards \o SubSeq(Boards, Clamp(Len(boards), t) + 1, End(Len(boards), m, t))
  PROVE  /\ s \in Seq([id : Nat, project : ProjectIds])
         /\ \A k \in DOMAIN s : IsBoard(s[k])
         /\ steady => IsPrefix(s, Boards)
         /\ steady /\ IsLast(Len(boards), m, t) => Len(s) >= expected
<1> DEFINE B == [id : Nat, project : ProjectIds]
           n == Len(boards)
           c == Clamp(n, t)
           e == End(n, m, t)
           a == SubSeq(Boards, c + 1, e)
<1>1. /\ Boards \in Seq(B) /\ t \in Nat /\ \A k \in 1..t : IsBoard(Boards[k])
  <2>1. BoardsAreEncodable
    BY BoardsFacts DEF BoardInv
  <2>2. QED
    BY <2>1 DEF BoardsAreEncodable
<1>2. boards \in Seq(B) /\ n \in Nat
  BY DEF BoardInv, BoardSyncTypeOK
<1>3. m \in Nat \ {0}
  BY AsksAssumption
<1> HIDE DEF B, n
<1>4. /\ e \in Int /\ e <= t /\ c \in 0..t /\ (n <= t => c = n) /\ c <= e
  <2>1. /\ e \in Int /\ e <= t /\ c \in 0..t /\ (n <= t => c = n)
    BY <1>1, <1>2, <1>3, PagesInRange, Zenon
  <2>2. ~(e < c)
    BY DEF Panics, n
  <2> HIDE DEF c, e
  <2>3. c <= e
    BY <1>1, <2>1, <2>2
  <2>4. QED
    BY <2>1, <2>3
<1> HIDE DEF c, e
<1>5. \A i \in 1..(e - c) : c + i \in 1..t
  BY <1>1, <1>4
<1>6. a \in Seq(B) /\ Len(a) = e - c /\ \A i \in 1..(e - c) : a[i] = Boards[c + i]
  <2>1. c + 1 \in 1..(t + 1) /\ e \in 0..t /\ c \in Nat
    BY <1>1, <1>4
  <2>2. \A i \in (c + 1)..e : i \in 1..t
    BY <2>1, <1>1, <1>4
  <2>3. a \in Seq(B) /\ Len(a) = e - c
    BY <1>1, <1>4, <2>1
  <2>4. \A i \in 1..(e - c) : a[i] = Boards[(c + 1) + i - 1]
    BY <1>1, <1>4, <2>1
  <2>5. \A i \in 1..(e - c) : (c + 1) + i - 1 = c + i
    BY <2>1
  <2>6. QED
    BY <2>3, <2>4, <2>5
<1> HIDE DEF a, n
<1>7. s = boards \o a /\ n = Len(boards)
  BY DEF a, n, c, e
<1>8. /\ s \in Seq(B) /\ Len(s) = n + (e - c)
      /\ \A i \in 1..n : s[i] = boards[i]
      /\ \A i \in 1..(e - c) : s[n + i] = a[i]
  <2>1. Len(a) \in Nat /\ e - c \in Nat
    BY <1>4
       , <1>6
  <2>2. s \in Seq(B) /\ Len(s) = n + (e - c)
    BY <1>2, <1>6, <1>7, ConcatProperties
  <2>3. \A i \in 1..(n + (e - c)) : s[i] = IF i <= n THEN boards[i] ELSE a[i - n]
    <3>1. \A i \in 1..(Len(boards) + Len(a)) :
            (boards \o a)[i] = IF i <= Len(boards) THEN boards[i] ELSE a[i - Len(boards)]
      BY <1>2, <1>6, ConcatProperties
    <3>2. QED
      BY <1>6, <1>7, <3>1, Zenon
  <2>4. \A i \in 1..n : i \in 1..(n + (e - c)) /\ i <= n
    BY <1>2, <2>1
  <2>5. \A i \in 1..(e - c) : n + i \in 1..(n + (e - c)) /\ ~(n + i <= n) /\ (n + i) - n = i
    BY <1>2, <2>1
  <2>6. QED
    BY <2>2, <2>3, <2>4, <2>5
<1>9. \A k \in 1..(n + (e - c)) : k \in 1..n \/ (k - n \in 1..(e - c) /\ n + (k - n) = k)
  BY <1>2, <1>4
<1>10. ASSUME NEW k \in DOMAIN s
       PROVE  IsBoard(s[k])
  <2>1. k \in 1..(n + (e - c))
    BY <1>8
  <2>2. CASE k \in 1..n
    <3>1. k \in DOMAIN boards
      BY <1>2, <1>7, <2>2
    <3>2. QED
      BY <1>8, <2>2, <3>1 DEF BoardInv, ListingFollows
  <2>3. CASE k - n \in 1..(e - c) /\ n + (k - n) = k
    <3>1. s[k] = Boards[c + (k - n)] /\ c + (k - n) \in 1..t
      BY <1>5, <1>6, <1>8, <2>3
    <3>2. QED
      BY <1>1, <3>1
  <2>4. QED
    BY <1>9, <2>1, <2>2, <2>3
<1>11. ASSUME steady
       PROVE  /\ IsPrefix(s, Boards)
              /\ IsLast(Len(boards), m, t) => Len(s) >= expected
  <2>1. IsPrefix(boards, Boards) /\ expected <= t
    BY <1>11 DEF BoardInv, ListingFollows
  <2>2. n <= t /\ \A i \in 1..n : boards[i] = Boards[i]
    BY <1>1, <1>2, <1>7, <2>1, PrefixFacts
  <2>3. c = n /\ Len(s) = e
    BY <1>1, <1>2, <1>4, <1>8, <2>2
  <2>4. \A i \in 1..e : s[i] = Boards[i]
    <3>1. \A i \in 1..e : i \in 1..n \/ (i - n \in 1..(e - n) /\ n + (i - n) = i)
      BY <1>2, <1>4, <2>3
    <3>2. \A i \in 1..n : s[i] = Boards[i]
      BY <1>8, <2>2
    <3>3. \A k \in 1..(e - n) : s[n + k] = Boards[n + k]
      BY <1>6, <1>8, <2>3
    <3>4. QED
      BY <3>1, <3>2, <3>3
  <2>5. IsPrefix(s, Boards)
    BY <1>1, <1>4, <1>8, <2>3, <2>4, PrefixFacts
  <2>6. IsLast(Len(boards), m, t) => Len(s) >= expected
    <3>1. expected \in Nat
      BY DEF BoardInv, BoardSyncTypeOK
    <3>2. IsLast(Len(boards), m, t) <=> e >= t
      BY DEF IsLast, e, n
    <3>3. t \in Nat /\ e \in Int /\ expected <= t /\ Len(s) = e
      BY <1>1, <1>4, <2>1, <2>3
    <3>4. e >= t => e >= expected
      BY <3>1, <3>3
    <3>5. QED
      BY <3>2, <3>3, <3>4
  <2>7. QED
    BY <2>5, <2>6
<1>12. QED
  BY <1>8, <1>10, <1>11 DEF B

LEMMA BoardSyncListed ==
  ASSUME BoardInv, NEW m \in Asks, HandleListBoards(m)
  PROVE  BoardInv'
<1> DEFINE t == Len(Boards)
           s == boards \o SubSeq(Boards, Clamp(Len(boards), t) + 1, End(Len(boards), m, t))
<1>1. /\ phase = "listing" /\ projects' = projects /\ key' = key /\ names' = names
      /\ board' = board /\ clause' = clause /\ scope' = scope /\ matched' = matched
      /\ steady' = steady /\ unchanged' = unchanged /\ expected' = expected
  BY DEF HandleListBoards, youTrack, history
<1>2. BoardSyncTypeOK
  BY DEF BoardInv
<1>3. Boards' = Boards
  BY <1>1, SameBoards
<1>4. NamesAreUnique'
  BY <1>1 DEF BoardInv, NamesAreUnique
<1>5. CASE Panics(Len(boards), m, t)
  <2>1. phase' = "idle" /\ boards' = boards
    BY <1>5 DEF HandleListBoards
  <2>2. BoardSyncTypeOK'
    BY <1>1, <1>2, <2>1 DEF BoardSyncTypeOK, Keys, Phases
  <2>3. ListingFollows'
    BY <1>1, <2>1 DEF BoardInv, ListingFollows
  <2>4. WalkFollows' /\ BoardLeadsToProject'
    BY <2>1 DEF WalkFollows, BoardLeadsToProject
  <2>5. QED
    BY <1>4, <2>2, <2>3, <2>4 DEF BoardInv
<1>6. CASE ~Panics(Len(boards), m, t)
  <2>1. /\ boards' = s
        /\ phase' = IF IsLast(Len(boards), m, t) THEN "listed" ELSE "listing"
    BY <1>6 DEF HandleListBoards
  <2> HIDE DEF s
  <2>2. /\ s \in Seq([id : Nat, project : ProjectIds])
        /\ \A k \in DOMAIN s : IsBoard(s[k])
        /\ steady => IsPrefix(s, Boards)
        /\ steady /\ IsLast(Len(boards), m, t) => Len(s) >= expected
    BY <1>1, <1>6, PageContinues DEF s
  <2>3. phase' \in {"listing", "listed"}
        /\ (phase' = "listed" => IsLast(Len(boards), m, t))
    BY <2>1
  <2>4. BoardSyncTypeOK'
    BY <1>1, <1>2, <2>1, <2>2, <2>3 DEF BoardSyncTypeOK, Keys, Phases
  <2>5. steady => expected <= Len(Boards)
    BY <1>1 DEF BoardInv, ListingFollows
  <2>6. ListingFollows'
    BY <1>1, <1>3, <2>1, <2>2, <2>3, <2>5 DEF ListingFollows
  <2>7. WalkFollows' /\ BoardLeadsToProject'
    BY <2>3 DEF WalkFollows, BoardLeadsToProject
  <2>8. QED
    BY <1>4, <2>4, <2>6, <2>7 DEF BoardInv
<1>7. QED
  BY <1>5, <1>6

LEMMA BoardSyncChosen == BoardInv /\ (ChooseBoard \/ NothingListed) => BoardInv'
<1> SUFFICES ASSUME BoardInv, ChooseBoard \/ NothingListed PROVE BoardInv'
  OBVIOUS
<1>1. /\ projects' = projects /\ key' = key /\ names' = names
      /\ clause' = clause /\ scope' = scope /\ matched' = matched
  BY DEF ChooseBoard, NothingListed, youTrack
<1>2. BoardSyncTypeOK /\ NamesAreUnique'
  BY <1>1 DEF BoardInv, NamesAreUnique
<1>3. CASE ChooseBoard
  <2>1. PICK b \in Range(boards) :
          board' = b /\ unchanged' = (b.project \in Range(projects))
    BY <1>3 DEF ChooseBoard
  <2>2. phase' = "chosen" /\ boards' = << >> /\ expected' = 0 /\ steady' = steady
    BY <1>3 DEF ChooseBoard
  <2>3. IsBoard(b) /\ b \in [id : Nat, project : ProjectIds]
    <3>1. PICK k \in DOMAIN boards : b = boards[k]
      BY DEF Range
    <3> DEFINE B == [id : Nat, project : ProjectIds]
    <3>2. boards \in Seq(B)
      BY <1>2 DEF BoardSyncTypeOK
    <3>3. boards[k] \in B
      <4> HIDE DEF B
      <4>1. QED
        BY <3>2
    <3>4. QED
      BY <3>1, <3>3 DEF BoardInv, ListingFollows
  <2>4. << >> \in Seq([id : Nat, project : ProjectIds]) /\ DOMAIN << >> = {}
    OBVIOUS
  <2>5. BoardSyncTypeOK'
    BY <1>1, <1>2, <2>1, <2>2, <2>3, <2>4 DEF BoardSyncTypeOK, Keys, Phases
  <2>6. ListingFollows'
    BY <2>2, <2>4 DEF ListingFollows
  <2>7. WalkFollows' /\ BoardLeadsToProject'
    BY <1>1, <2>1, <2>2, <2>3 DEF WalkFollows, BoardLeadsToProject
  <2>8. QED
    BY <1>2, <2>5, <2>6, <2>7 DEF BoardInv
<1>4. CASE NothingListed
  <2>1. /\ phase' = "idle" /\ boards' = boards /\ board' = board
        /\ steady' = steady /\ unchanged' = unchanged /\ expected' = expected
    BY <1>4 DEF NothingListed, history
  <2>2. BoardSyncTypeOK'
    BY <1>1, <1>2, <2>1 DEF BoardSyncTypeOK, Keys, Phases
  <2>3. ListingFollows' /\ WalkFollows' /\ BoardLeadsToProject'
    BY <2>1 DEF BoardInv, ListingFollows, WalkFollows, BoardLeadsToProject
  <2>4. QED
    BY <1>2, <2>2, <2>3 DEF BoardInv
<1>5. QED
  BY <1>3, <1>4

(* What the requests about a chosen board leave alone.                     *)
LEMMA WalkUnchanged ==
  ASSUME BoardInv, phase' \notin {"listing", "listed"},
         UNCHANGED <<projects, key, names, boards, board>>
  PROVE  /\ NamesAreUnique' /\ ListingFollows' /\ Keys' = Keys
         /\ Range(projects)' = Range(projects) /\ \A k : Leads(k)' <=> 
              /\ \A p \in ProjectIds : key[p] = k => p = board.project
              /\ unchanged' => key[board.project] = k
  BY DEF BoardInv, NamesAreUnique, ListingFollows, Keys, Range, Leads

LEMMA BoardSyncOpened ==
  ASSUME BoardInv,
         HandleBoardConfiguration \/ HandleGetFilter \/ SearchByFilter
  PROVE  BoardInv'
<1>1. /\ projects' = projects /\ key' = key /\ names' = names /\ boards' = boards
      /\ board' = board /\ scope' = scope /\ matched' = matched
      /\ steady' = steady /\ unchanged' = unchanged /\ expected' = expected
  BY DEF HandleBoardConfiguration, HandleGetFilter, SearchByFilter, youTrack, history
<1>2. phase \in {"chosen", "configured"} /\ phase' \in {"idle", "configured", "query"}
  BY DEF HandleBoardConfiguration, HandleGetFilter, SearchByFilter
<1>3. BoardSyncTypeOK
  BY DEF BoardInv
<1>4. NamesAreUnique' /\ ListingFollows' /\ Keys' = Keys
  BY <1>1, <1>2, WalkUnchanged
<1>5. /\ board \in [id : Nat, project : ProjectIds] /\ board.project \in ProjectIds
      /\ board.id \in Nat /\ Decode(board.id) = board.project
      /\ Known(board.id) => key[board.project] \in Keys /\ Leads(key[board.project])
  BY <1>2, BoardFacts DEF Walking
<1>6. IsBoard(board) /\ (unchanged => board.project \in Range(projects))
  BY <1>2 DEF BoardInv, WalkFollows
<1>7. NoKey \notin Keys
  BY DEF NoKey, Keys
<1>8. BoardLeadsToProject'
  BY <1>2 DEF BoardLeadsToProject
<1>9. CASE phase' # "query"
  <2>1. clause' = clause
    BY <1>9 DEF HandleBoardConfiguration, HandleGetFilter, SearchByFilter
  <2>2. BoardSyncTypeOK'
    BY <1>1, <1>2, <1>3, <1>4, <1>9, <2>1, <1>5 DEF BoardSyncTypeOK, Phases
  <2>3. WalkFollows'
    BY <1>1, <1>2, <1>6, <1>9 DEF WalkFollows
  <2>4. QED
    BY <1>4, <1>8, <2>2, <2>3 DEF BoardInv
<1>10. ASSUME phase' = "query",
              NEW k \in Keys \cup {NoKey}, NEW n \in {0, board.id},
              clause' = [project |-> k, filterId |-> n],
              k # NoKey => Leads(k), k = NoKey => n = board.id
       PROVE  BoardInv'
  <2>1. clause' \in [project : Keys \cup {NoKey}, filterId : Nat]
        /\ clause'.project = k /\ clause'.filterId = n
    BY <1>5, <1>10
  <2>2. clause' # NoClause \/ board.id = 0
    BY <1>7, <1>10, <2>1 DEF NoClause
  <2>3. BoardSyncTypeOK'
    BY <1>1, <1>3, <1>4, <1>5, <1>10, <2>1, <2>2 DEF BoardSyncTypeOK, Phases
  <2>4. Leads(k) => Leads(k)'
    BY <1>1 DEF Leads
  <2>5. WalkFollows'
    BY <1>1, <1>6, <1>7, <1>10, <2>1, <2>4 DEF WalkFollows, Leads
  <2>6. QED
    BY <1>4, <1>8, <2>3, <2>5 DEF BoardInv
<1>11. CASE phase' = "query"
  <2>1. CASE SearchByFilter
    BY <1>10, <1>11, <2>1 DEF SearchByFilter
  <2>2. CASE HandleGetFilter
    <3>1. Known(board.id)
      BY <1>11, <2>2 DEF HandleGetFilter
    <3>2. PICK n \in {0, board.id} : clause' = [project |-> key[board.project], filterId |-> n]
      BY <1>5, <2>2, <3>1 DEF HandleGetFilter
    <3>3. QED
      BY <1>5, <1>7, <1>10, <1>11, <3>1, <3>2
  <2>3. QED
    BY <1>11, <2>1, <2>2 DEF HandleBoardConfiguration
<1>12. QED
  BY <1>9, <1>11

LEMMA BoardSyncResolved == BoardInv /\ ResolveFilter => BoardInv'
<1> SUFFICES ASSUME BoardInv, ResolveFilter PROVE BoardInv'
  OBVIOUS
<1>1. /\ projects' = projects /\ key' = key /\ names' = names /\ boards' = boards
      /\ board' = board /\ clause' = clause /\ matched' = matched
      /\ steady' = steady /\ unchanged' = unchanged /\ expected' = expected
  BY DEF ResolveFilter, youTrack, history
<1>2. phase = "query" /\ phase' \in {"idle", "resolved"}
  BY DEF ResolveFilter
<1>3. BoardSyncTypeOK
  BY DEF BoardInv
<1>4. NamesAreUnique' /\ ListingFollows' /\ Keys' = Keys
  BY <1>1, <1>2, WalkUnchanged
<1>5. /\ board \in [id : Nat, project : ProjectIds] /\ Decode(board.id) = board.project
      /\ Known(board.id) => key[board.project] \in Keys /\ Leads(key[board.project])
  BY <1>2, BoardFacts DEF Walking
<1>6. /\ IsBoard(board) /\ (unchanged => board.project \in Range(projects))
      /\ clause.project # NoKey => Leads(clause.project)
      /\ clause.filterId \in {0, board.id}
      /\ clause.project = NoKey => clause.filterId = board.id
      /\ clause \in [project : Keys \cup {NoKey}, filterId : Nat]
      /\ clause # NoClause \/ board.id = 0
  BY <1>2, <1>3 DEF BoardInv, WalkFollows, BoardSyncTypeOK
<1>7. NoKey \notin Keys
  BY DEF NoKey, Keys
<1>8. BoardLeadsToProject'
  BY <1>2 DEF BoardLeadsToProject
<1>9. \A k : Leads(k) => Leads(k)'
  BY <1>1 DEF Leads
<1>10. CASE phase' = "idle"
  <2>1. scope' = scope
    BY <1>10 DEF ResolveFilter
  <2>2. BoardSyncTypeOK'
    BY <1>1, <1>3, <1>4, <1>10, <2>1 DEF BoardSyncTypeOK, Phases
  <2>3. WalkFollows'
    BY <1>10 DEF WalkFollows
  <2>4. QED
    BY <1>4, <1>8, <2>2, <2>3 DEF BoardInv
<1>11. CASE phase' = "resolved"
  <2>1. /\ clause.filterId = 0 \/ Known(clause.filterId)
        /\ scope' = IF clause.project # NoKey \/ clause.filterId = 0
                      THEN clause.project ELSE key[Decode(clause.filterId)]
    BY <1>11 DEF ResolveFilter
  <2>2. /\ scope' \in Keys \cup {NoKey}
        /\ scope' # NoKey => Leads(scope')
        /\ scope' = NoKey => board.id = 0 /\ clause.project = NoKey
    <3>1. CASE clause.project # NoKey
      BY <1>6, <2>1, <3>1
    <3>2. CASE clause.project = NoKey /\ clause.filterId = 0
      BY <1>6, <2>1, <3>2
    <3>3. CASE clause.project = NoKey /\ clause.filterId # 0
      <4>1. scope' = key[board.project] /\ Known(board.id)
        BY <1>5, <1>6, <2>1, <3>3
      <4>2. QED
        BY <1>5, <1>7, <4>1
    <3>4. QED
      BY <3>1, <3>2, <3>3
  <2>3. BoardSyncTypeOK'
    BY <1>1, <1>3, <1>4, <1>5, <1>6, <1>11, <2>2 DEF BoardSyncTypeOK, Phases
  <2>4. scope' # NoKey => Leads(scope)'
    BY <1>1, <2>2 DEF Leads
  <2>5. clause'.project # NoKey => Leads(clause.project)'
    BY <1>1, <1>6 DEF Leads
  <2>6. WalkFollows'
    BY <1>1, <1>6, <1>11, <2>2, <2>4, <2>5 DEF WalkFollows
  <2>7. QED
    BY <1>4, <1>8, <2>3, <2>6 DEF BoardInv
<1>12. QED
  BY <1>2, <1>10, <1>11

LEMMA BoardSyncFound == BoardInv /\ GetIssues => BoardInv'
<1> SUFFICES ASSUME BoardInv, GetIssues PROVE BoardInv'
  OBVIOUS
<1>1. /\ projects' = projects /\ key' = key /\ names' = names /\ boards' = boards
      /\ board' = board /\ clause' = clause /\ scope' = scope
      /\ steady' = steady /\ unchanged' = unchanged /\ expected' = expected
      /\ matched' = {p \in Range(projects) : scope \in {NoKey, key[p]}}
      /\ phase = "resolved" /\ phase' = "found"
  BY DEF GetIssues, youTrack, history
<1>2. BoardSyncTypeOK /\ projects \in Seq(ProjectIds)
  BY DEF BoardInv, BoardSyncTypeOK
<1>3. NamesAreUnique' /\ ListingFollows' /\ Keys' = Keys
  BY <1>1, WalkUnchanged
<1>4. board \in [id : Nat, project : ProjectIds]
  BY <1>1, <1>2 DEF BoardSyncTypeOK
<1>5. Range(projects) \subseteq ProjectIds
  BY <1>2 DEF Range
<1>6. BoardSyncTypeOK'
  <2>1. matched' \subseteq ProjectIds
    BY <1>1, <1>5
  <2>2. QED
    BY <1>1, <1>2, <1>3, <1>4, <2>1 DEF BoardSyncTypeOK, Phases
<1>7. /\ IsBoard(board) /\ (unchanged => board.project \in Range(projects))
      /\ clause.project # NoKey => Leads(clause.project)
      /\ clause.filterId \in {0, board.id}
      /\ clause.project = NoKey => clause.filterId = board.id
      /\ scope # NoKey => Leads(scope)
      /\ scope = NoKey => board.id = 0 /\ clause.project = NoKey
  BY <1>1 DEF BoardInv, WalkFollows
<1>8. WalkFollows'
  <2>1. clause'.project # NoKey => Leads(clause.project)'
    BY <1>1, <1>7 DEF Leads
  <2>2. Range(projects)' = Range(projects)
    BY <1>1 DEF Range
  <2>3. QED
    BY <1>1, <1>7, <2>1, <2>2 DEF WalkFollows
<1>9. BoardLeadsToProject'
  <2>1. ASSUME ~(board.id = 0 /\ clause.project = NoKey)
        PROVE  /\ matched' \subseteq {board.project}
               /\ unchanged => matched' = {board.project}
    <3>1. scope # NoKey /\ Leads(scope)
      BY <1>7, <2>1
    <3>2. \A p \in matched' : p = board.project
      BY <1>1, <1>5, <3>1 DEF Leads
    <3>3. unchanged => board.project \in matched'
      BY <1>1, <1>7, <3>1 DEF Leads
    <3>4. QED
      BY <3>2, <3>3
  <2>2. QED
    BY <1>1, <2>1 DEF BoardLeadsToProject
<1>10. QED
  BY <1>3, <1>6, <1>8, <1>9 DEF BoardInv

-----------------------------------------------------------------------------
(*                       The projects change meanwhile                     *)

(* A new name is nobody's, and at most one project gets it.                *)
LEMMA NamesStayUnique ==
  ASSUME BoardInv, NEW p \in ProjectIds, NewName(p)
  PROVE  /\ names' \in 0..MaxNames /\ Keys \subseteq Keys' /\ names + 1 \in Keys'
         /\ key' \in [ProjectIds -> Keys' \cup {NoKey}]
         /\ key' = [key EXCEPT ![p] = names + 1] /\ names + 1 # NoKey
         /\ \A q \in ProjectIds : key[q] # names + 1
         /\ \A k \in Keys : k # names + 1
         /\ NamesAreUnique'
<1>1. /\ names \in 0..MaxNames /\ key \in [ProjectIds -> Keys \cup {NoKey}]
      /\ NamesAreUnique
  BY DEF BoardInv, BoardSyncTypeOK
<1>2. names < MaxNames /\ names' = names + 1 /\ key' = [key EXCEPT ![p] = names + 1]
  BY DEF NewName
<1>3. /\ names' \in 0..MaxNames /\ Keys \subseteq Keys' /\ names + 1 \in Keys'
      /\ names + 1 # NoKey /\ \A k \in Keys \cup {NoKey} : k # names + 1
  BY <1>1, <1>2, NamesAssumption DEF Keys, NoKey
<1>4. key' \in [ProjectIds -> Keys' \cup {NoKey}] /\ \A q \in ProjectIds : key[q] # names + 1
  <2> HIDE DEF Keys, NoKey
  <2>1. QED
    BY <1>1, <1>2, <1>3
<1>5. NamesAreUnique'
  BY <1>1, <1>2, <1>4 DEF NamesAreUnique
<1>6. QED
  BY <1>2, <1>3, <1>4, <1>5

(* A change that gives names only to projects that are not the board's, or *)
(* that no longer counts as unchanged, leaves the walk what it was.        *)
LEMMA WalkSurvives ==
  ASSUME BoardInv,
         UNCHANGED <<phase, board, clause, scope, matched>>,
         \A q \in ProjectIds, k \in Keys : key'[q] = k => key[q] = k,
         phase \in Walking /\ unchanged' =>
           /\ unchanged /\ board.project \in Range(projects')
           /\ key'[board.project] = key[board.project]
  PROVE  WalkFollows' /\ BoardLeadsToProject'
<1>1. \A k \in Keys : phase \in Walking /\ Leads(k) => Leads(k)'
  BY DEF Leads
<1>2. clause \in [project : Keys \cup {NoKey}, filterId : Nat] /\ scope \in Keys \cup {NoKey}
  BY DEF BoardInv, BoardSyncTypeOK
<1>3. phase \in Walking =>
        /\ IsBoard(board)'
        /\ unchanged' => board'.project \in Range(projects')
  BY DEF BoardInv, WalkFollows, Walking, IsBoard, BoardOf
<1>4. phase \in {"query", "resolved", "found"} /\ clause.project # NoKey
        => Leads(clause.project)'
  <2>1. clause' = clause
    OBVIOUS
  <2>2. QED
    BY <1>1, <1>2, <2>1 DEF BoardInv, WalkFollows, Walking, Leads
<1>5. phase = "resolved" /\ scope # NoKey => Leads(scope)'
  BY <1>1, <1>2 DEF BoardInv, WalkFollows, Walking, Leads
<1>6. WalkFollows'
  BY <1>3, <1>4, <1>5 DEF BoardInv, WalkFollows, Walking, Range
<1>7. BoardLeadsToProject'
  BY DEF BoardInv, BoardLeadsToProject, Walking
<1>8. QED
  BY <1>6, <1>7

LEMMA BoardSyncCreated ==
  ASSUME BoardInv, NEW i \in 1..(Len(projects) + 1), NEW p \in ProjectIds,
         ProjectCreated(i, p),
         UNCHANGED <<phase, boards, board, clause, scope, matched, expected>>
  PROVE  BoardInv'
<1>1. /\ key[p] = NoKey /\ projects' = InsertAt(projects, i, p) /\ unchanged' = unchanged
      /\ steady' = (steady /\ i = Len(projects) + 1)
  BY DEF ProjectCreated
<1>2. /\ names' \in 0..MaxNames /\ Keys \subseteq Keys'
      /\ key' \in [ProjectIds -> Keys' \cup {NoKey}]
      /\ key' = [key EXCEPT ![p] = names + 1] /\ names + 1 # NoKey
      /\ \A k \in Keys : k # names + 1
      /\ NamesAreUnique'
  BY NamesStayUnique DEF ProjectCreated
<1>3. /\ BoardSyncTypeOK /\ projects \in Seq(ProjectIds) /\ IsInjective(projects)
      /\ key \in [ProjectIds -> Keys \cup {NoKey}]
      /\ \A q \in Range(projects) : key[q] # NoKey
  BY DEF BoardInv, BoardSyncTypeOK
<1>4. p \notin Range(projects) /\ Range(projects) \subseteq ProjectIds
  BY <1>1, <1>3 DEF Range
<1>5. /\ projects' \in Seq(ProjectIds) /\ Range(projects') = Range(projects) \cup {p}
      /\ IsInjective(projects')
      /\ i = Len(projects) + 1 => projects' = Append(projects, p)
  BY <1>1, <1>3, <1>4, Inserted
<1>6. \A q \in ProjectIds : key'[q] = IF q = p THEN names + 1 ELSE key[q]
  BY <1>2, <1>3
<1>7. \A q \in Range(projects') : key'[q] # NoKey
  BY <1>2, <1>3, <1>4, <1>5, <1>6
<1>8. BoardSyncTypeOK'
  <2>1. clause' \in [project : Keys' \cup {NoKey}, filterId : Nat]
        /\ scope' \in Keys' \cup {NoKey}
    BY <1>2, <1>3 DEF BoardSyncTypeOK
  <2>2. steady' \in BOOLEAN
    BY <1>1
  <2>3. QED
    BY <1>1, <1>2, <1>3, <1>5, <1>7, <2>1, <2>2 DEF BoardSyncTypeOK, Range
<1>9. ListingFollows'
  <2>1. ASSUME steady', phase \in {"listing", "listed"}
        PROVE  IsPrefix(boards, Boards') /\ expected <= Len(Boards')
    <3> DEFINE B == [id : Nat, project : ProjectIds]
    <3>1. projects' = Append(projects, p) /\ steady
      BY <1>1, <1>5, <2>1
    <3>2. Len(Boards) <= Len(Boards') /\ \A k \in 1..Len(Boards) : Boards'[k] = Boards[k]
      BY <1>3, <1>8, <3>1, BoardsGrow
    <3>3. BoardsAreEncodable /\ BoardsAreEncodable'
      BY <1>3, <1>8, BoardsFacts, PTL
    <3>4. Boards \in Seq(B) /\ Boards' \in Seq(B) /\ boards \in Seq(B) /\ expected \in Nat
      BY <1>3, <3>3 DEF BoardsAreEncodable, BoardSyncTypeOK
    <3>5. IsPrefix(boards, Boards) /\ expected <= Len(Boards)
      BY <2>1, <3>1 DEF BoardInv, ListingFollows
    <3> HIDE DEF B
    <3>6. Len(boards) \in Nat /\ Len(Boards) \in Nat /\ Len(Boards') \in Nat
      BY <3>4
    <3>7. Len(boards) <= Len(Boards) /\ \A k \in 1..Len(boards) : boards[k] = Boards[k]
      BY <3>4, <3>5, PrefixFacts
    <3>8. Len(boards) <= Len(Boards') /\ \A k \in 1..Len(boards) : boards[k] = Boards'[k]
      BY <3>2, <3>6, <3>7
    <3>9. QED
      BY <3>2, <3>4, <3>5, <3>6, <3>8, PrefixFacts
  <2>2. steady' => steady
    BY <1>1
  <2>3. QED
    BY <2>1, <2>2 DEF BoardInv, ListingFollows
<1>10. WalkFollows' /\ BoardLeadsToProject'
  <2>1. ASSUME phase \in Walking, unchanged'
        PROVE  /\ unchanged /\ board.project \in Range(projects')
               /\ key'[board.project] = key[board.project]
    <3>1. board.project \in Range(projects)
      BY <1>1, <2>1 DEF BoardInv, WalkFollows, Walking
    <3>2. QED
      BY <1>1, <1>4, <1>5, <1>6, <2>1, <3>1
  <2>2. \A q \in ProjectIds, k \in Keys : key'[q] = k => key[q] = k
    BY <1>2, <1>6
  <2>3. QED
    BY <2>1, <2>2, WalkSurvives
<1>11. QED
  BY <1>2, <1>8, <1>9, <1>10 DEF BoardInv

LEMMA BoardSyncRenamed ==
  ASSUME BoardInv, NEW i \in 1..Len(projects), ProjectRenamed(i),
         UNCHANGED <<phase, boards, board, clause, scope, matched, expected>>
  PROVE  BoardInv'
<1> DEFINE r == projects[i]
<1>1. /\ BoardSyncTypeOK /\ projects \in Seq(ProjectIds)
      /\ key \in [ProjectIds -> Keys \cup {NoKey}]
      /\ \A q \in Range(projects) : key[q] # NoKey
  BY DEF BoardInv, BoardSyncTypeOK
<1>2. r \in ProjectIds /\ Range(projects) \subseteq ProjectIds
  BY <1>1 DEF Range
<1>3. /\ projects' = projects /\ steady' = steady
      /\ unchanged' = (unchanged /\ ~IsBoards(r)) /\ NewName(r)
  BY DEF ProjectRenamed
<1>4. /\ names' \in 0..MaxNames /\ Keys \subseteq Keys'
      /\ key' \in [ProjectIds -> Keys' \cup {NoKey}]
      /\ key' = [key EXCEPT ![r] = names + 1] /\ names + 1 # NoKey
      /\ \A k \in Keys : k # names + 1
      /\ NamesAreUnique'
  BY <1>2, <1>3, NamesStayUnique
<1> HIDE DEF r
<1>5. \A q \in ProjectIds : key'[q] = IF q = r THEN names + 1 ELSE key[q]
  BY <1>1, <1>2, <1>4
<1>6. BoardSyncTypeOK'
  <2>1. clause' \in [project : Keys' \cup {NoKey}, filterId : Nat]
        /\ scope' \in Keys' \cup {NoKey}
    BY <1>1, <1>4 DEF BoardSyncTypeOK
  <2>2. \A q \in Range(projects) : key'[q] # NoKey
    BY <1>1, <1>2, <1>4, <1>5
  <2>3. unchanged' \in BOOLEAN
    BY <1>3
  <2>4. QED
    BY <1>1, <1>3, <1>4, <2>1, <2>2, <2>3 DEF BoardSyncTypeOK, Range
<1>7. ListingFollows'
  <2>1. Boards' = Boards
    BY <1>3, SameBoards
  <2>2. QED
    BY <1>3, <2>1 DEF BoardInv, ListingFollows
<1>8. WalkFollows' /\ BoardLeadsToProject'
  <2>1. ASSUME phase \in Walking, unchanged'
        PROVE  /\ unchanged /\ board.project \in Range(projects')
               /\ key'[board.project] = key[board.project]
    <3>1. unchanged /\ board.project \in Range(projects)
      BY <1>3, <2>1 DEF BoardInv, WalkFollows, Walking
    <3>2. board # << >> /\ board.project \in ProjectIds
      BY <2>1, BoardFacts
    <3>3. board.project # r
      BY <1>3, <2>1, <3>2 DEF IsBoards
    <3>4. QED
      BY <1>3, <1>5, <3>1, <3>2, <3>3
  <2>2. \A q \in ProjectIds, k \in Keys : key'[q] = k => key[q] = k
    BY <1>4, <1>5
  <2>3. QED
    BY <2>1, <2>2, WalkSurvives
<1>9. QED
  BY <1>4, <1>6, <1>7, <1>8 DEF BoardInv

LEMMA BoardSyncDeleted ==
  ASSUME BoardInv, NEW i \in 1..Len(projects), ProjectDeleted(i),
         UNCHANGED <<phase, boards, board, clause, scope, matched, expected>>
  PROVE  BoardInv'
<1>1. /\ BoardSyncTypeOK /\ projects \in Seq(ProjectIds) /\ IsInjective(projects)
      /\ \A q \in Range(projects) : key[q] # NoKey
  BY DEF BoardInv, BoardSyncTypeOK
<1>2. /\ projects' = RemoveAt(projects, i) /\ key' = key /\ names' = names
      /\ unchanged' = (unchanged /\ ~IsBoards(projects[i])) /\ steady' = FALSE
  BY DEF ProjectDeleted
<1>3. /\ projects' \in Seq(ProjectIds) /\ Range(projects') \subseteq Range(projects)
      /\ Range(projects) \subseteq Range(projects') \cup {projects[i]}
      /\ IsInjective(projects')
  BY <1>1, <1>2, Removed
<1>4. NamesAreUnique' /\ Keys' = Keys
  BY <1>2 DEF BoardInv, NamesAreUnique, Keys
<1>5. BoardSyncTypeOK'
  <2>1. \A q \in Range(projects') : key'[q] # NoKey
    BY <1>1, <1>2, <1>3
  <2>2. unchanged' \in BOOLEAN
    BY <1>2
  <2>3. QED
    BY <1>1, <1>2, <1>3, <1>4, <2>1, <2>2 DEF BoardSyncTypeOK, Range
<1>6. ListingFollows'
  BY <1>2 DEF BoardInv, ListingFollows
<1>7. WalkFollows' /\ BoardLeadsToProject'
  <2>1. ASSUME phase \in Walking, unchanged'
        PROVE  /\ unchanged /\ board.project \in Range(projects')
               /\ key'[board.project] = key[board.project]
    <3>1. unchanged /\ board.project \in Range(projects)
      BY <1>2, <2>1 DEF BoardInv, WalkFollows, Walking
    <3>2. board # << >>
      BY <2>1, BoardFacts
    <3>3. board.project # projects[i]
      BY <1>2, <2>1, <3>2 DEF IsBoards
    <3>4. QED
      BY <1>2, <1>3, <3>1, <3>3
  <2>2. QED
    BY <1>2, <2>1, WalkSurvives
<1>8. QED
  BY <1>4, <1>5, <1>6, <1>7 DEF BoardInv

LEMMA BoardSyncStep == BoardInv /\ [BoardNext]_boardVars => BoardInv'
<1> SUFFICES ASSUME BoardInv, [BoardNext]_boardVars PROVE BoardInv'
  OBVIOUS
<1>1. CASE UNCHANGED boardVars
  <2>1. /\ projects' = projects /\ key' = key /\ names' = names /\ phase' = phase
        /\ boards' = boards /\ board' = board /\ clause' = clause /\ scope' = scope
        /\ matched' = matched /\ steady' = steady /\ unchanged' = unchanged
        /\ expected' = expected
    BY <1>1 DEF boardVars
  <2>2. Boards' = Boards
    BY <2>1, SameBoards
  <2>3. BoardSyncTypeOK' /\ NamesAreUnique'
    BY <2>1 DEF BoardInv, BoardSyncTypeOK, NamesAreUnique, Keys, Range, IsInjective
  <2>4. ListingFollows'
    BY <2>1, <2>2 DEF BoardInv, ListingFollows
  <2>5. WalkFollows' /\ BoardLeadsToProject'
    BY <2>1 DEF BoardInv, WalkFollows, Leads, BoardLeadsToProject, Range
  <2>6. QED
    BY <2>3, <2>4, <2>5 DEF BoardInv
<1>2. CASE StartListing
  BY <1>2, BoardSyncStartListing
<1>3. CASE \E m \in Asks : HandleListBoards(m)
  BY <1>3, BoardSyncListed
<1>4. CASE ChooseBoard \/ NothingListed
  BY <1>4, BoardSyncChosen
<1>5. CASE HandleBoardConfiguration \/ HandleGetFilter \/ SearchByFilter
  BY <1>5, BoardSyncOpened
<1>6. CASE ResolveFilter
  BY <1>6, BoardSyncResolved
<1>7. CASE GetIssues
  BY <1>7, BoardSyncFound
<1>8. CASE ProjectsChange
  <2>1. UNCHANGED <<phase, boards, board, clause, scope, matched, expected>>
    BY <1>8 DEF ProjectsChange
  <2>2. CASE \E i \in 1..(Len(projects) + 1), p \in ProjectIds : ProjectCreated(i, p)
    BY <2>1, <2>2, BoardSyncCreated
  <2>3. CASE \E i \in 1..Len(projects) : ProjectRenamed(i)
    BY <2>1, <2>3, BoardSyncRenamed
  <2>4. CASE \E i \in 1..Len(projects) : ProjectDeleted(i)
    BY <2>1, <2>4, BoardSyncDeleted
  <2>5. QED
    BY <1>8, <2>2, <2>3, <2>4 DEF ProjectsChange
<1>9. QED
  BY <1>1, <1>2, <1>3, <1>4, <1>5, <1>6, <1>7, <1>8 DEF BoardNext

(* What the client holds is of its board, and the board is of its project, *)
(* whatever happens to the projects between two of its requests.           *)
THEOREM BoardSyncInvariant == BoardSpec => []BoardInv
  BY BoardSyncStart, BoardSyncStep, PTL DEF BoardSpec

(* From a board the client comes to the issues of the board's project, or  *)
(* to none: never to another project's (handler/boards.go, filters.go and  *)
(* the filter clause of service/search.go).                                *)
THEOREM BoardsLeadToProjects == BoardSpec => []BoardLeadsToProject
<1>1. BoardInv => BoardLeadsToProject
  BY DEF BoardInv
<1>2. QED
  BY <1>1, BoardSyncInvariant, PTL

(* The pages of the boards have each board once and the last is said to be *)
(* the last when no board is missing; no page panics, from any start and   *)
(* of any length that fits an int with the number of boards                *)
(* (handler/boards.go).                                                    *)
THEOREM ListingsAreComplete == BoardSpec => []ListingIsComplete
<1>1. ASSUME BoardInv PROVE ListingIsComplete
  <2>1. Len(Boards) \in Nat
    BY <1>1, BoardsFacts DEF BoardInv, BoardsAreEncodable
  <2>2. ASSUME NEW startAt \in 0..MaxInt, NEW m \in 1..(MaxInt - Len(Boards))
        PROVE  ~Panics(startAt, m, Len(Boards))
    <3>1. MaxInt \in Nat
      BY AsksAssumption
    <3>2. startAt \in Nat /\ m \in Nat \ {0} /\ m <= MaxInt - Len(Boards)
      BY <2>1, <3>1
    <3>3. QED
      BY <2>1, <3>2, PagesInRange
  <2>3. QED
    BY <1>1, <2>2 DEF BoardInv, ListingFollows, ListingIsComplete
<1>2. QED
  BY <1>1, BoardSyncInvariant, PTL
=============================================================================
