----------------------------- MODULE PagingProofs -----------------------------
(***************************************************************************)
(* Proofs about the loops over pages: of the page loop itself, for lists   *)
(* of any length, pages of any size and any changes of the list between    *)
(* the pages; then of GetProjects (ProjectList) and of a client that reads *)
(* a search page by page (SearchPaging), which rest on it.                 *)
(***************************************************************************)
EXTENDS ProjectList, SearchPaging, FiniteSetTheorems, SequenceTheorems, TLAPS

(* What is left of a sequence without its i-th element. *)
LEMMA RemoveAtFacts ==
  ASSUME NEW S, NEW s \in Seq(S), NEW i \in 1..Len(s)
  PROVE  /\ RemoveAt(s, i) \in Seq(S)
         /\ Len(RemoveAt(s, i)) = Len(s) - 1
         /\ \A k \in 1..(Len(s) - 1) :
               RemoveAt(s, i)[k] = IF k < i THEN s[k] ELSE s[k + 1]
<1> DEFINE l == SubSeq(s, 1, i - 1)
           r == SubSeq(s, i + 1, Len(s))
<1>1. Len(s) \in Nat /\ i \in Int
  OBVIOUS
<1>2. /\ l \in Seq(S) /\ Len(l) = i - 1
      /\ \A k \in 1..(i - 1) : l[k] = s[k]
  <2>1. \A k \in 1..(i - 1) : s[k] \in S
    BY <1>1
  <2>2. QED
    BY <1>1, <2>1, SubSeqProperties
<1>3. /\ r \in Seq(S) /\ Len(r) = Len(s) - i
      /\ \A k \in 1..(Len(s) - i) : r[k] = s[i + k]
  <2>1. \A k \in (i + 1)..Len(s) : s[k] \in S
    BY <1>1
  <2>2. QED
    BY <1>1, <2>1, SubSeqProperties
<1>4. RemoveAt(s, i) = l \o r
  BY DEF RemoveAt
<1> HIDE DEF l, r
<1>5. /\ l \o r \in Seq(S)
      /\ Len(l \o r) = Len(s) - 1
      /\ \A k \in 1..(Len(s) - 1) :
            (l \o r)[k] = IF k <= Len(l) THEN l[k] ELSE r[k - Len(l)]
  <2>1. /\ l \o r \in Seq(S)
        /\ Len(l \o r) = Len(l) + Len(r)
        /\ \A k \in 1..(Len(l) + Len(r)) :
              (l \o r)[k] = IF k <= Len(l) THEN l[k] ELSE r[k - Len(l)]
    BY <1>2, <1>3, ConcatProperties
  <2>2. Len(l) + Len(r) = Len(s) - 1
    BY <1>1, <1>2, <1>3
  <2>3. QED
    BY <2>1, <2>2
<1>6. ASSUME NEW k \in 1..(Len(s) - 1)
      PROVE  RemoveAt(s, i)[k] = IF k < i THEN s[k] ELSE s[k + 1]
  <2>1. k \in Nat /\ i \in Nat /\ k >= 1 /\ k <= Len(s) - 1
    BY <1>1, <1>6
  <2>2. CASE k < i
    <3>1. k <= Len(l) /\ k \in 1..(i - 1)
      BY <1>1, <1>2, <2>1, <2>2
    <3>2. QED
      BY <1>2, <1>4, <1>5, <2>2, <3>1
  <2>3. CASE k >= i
    <3>1. ~(k <= Len(l)) /\ k - Len(l) \in 1..(Len(s) - i) /\ i + (k - Len(l)) = k + 1
      BY <1>1, <1>2, <2>1, <2>3
    <3>2. r[k - Len(l)] = s[k + 1]
      BY <1>3, <3>1
    <3>3. QED
      BY <1>4, <1>5, <2>1, <2>3, <3>1, <3>2
  <2>4. QED
    BY <2>1, <2>2, <2>3
<1>7. RemoveAt(s, i) \in Seq(S) /\ Len(RemoveAt(s, i)) = Len(s) - 1
  BY <1>4, <1>5
<1>8. QED
  BY <1>6, <1>7

(* What a sequence becomes when an element comes before its i-th. *)
LEMMA InsertAtFacts ==
  ASSUME NEW S, NEW s \in Seq(S), NEW i \in 1..(Len(s) + 1), NEW x \in S
  PROVE  /\ InsertAt(s, i, x) \in Seq(S)
         /\ Len(InsertAt(s, i, x)) = Len(s) + 1
         /\ \A k \in 1..(Len(s) + 1) :
               InsertAt(s, i, x)[k] = IF k < i THEN s[k]
                                      ELSE IF k = i THEN x ELSE s[k - 1]
<1> DEFINE l == SubSeq(s, 1, i - 1)
           r == SubSeq(s, i, Len(s))
<1>1. Len(s) \in Nat /\ i \in Int
  OBVIOUS
<1>2. /\ l \in Seq(S) /\ Len(l) = i - 1
      /\ \A k \in 1..(i - 1) : l[k] = s[k]
  <2>1. \A k \in 1..(i - 1) : s[k] \in S
    BY <1>1
  <2>2. QED
    BY <1>1, <2>1, SubSeqProperties
<1>3. /\ r \in Seq(S) /\ Len(r) = Len(s) - i + 1
      /\ \A k \in 1..(Len(s) - i + 1) : r[k] = s[i + k - 1]
  <2>1. \A k \in i..Len(s) : s[k] \in S
    BY <1>1
  <2>2. QED
    BY <1>1, <2>1, SubSeqProperties
<1>4. /\ l \o <<x>> \in Seq(S)
      /\ Len(l \o <<x>>) = i
      /\ \A k \in 1..i : (l \o <<x>>)[k] = IF k < i THEN s[k] ELSE x
  BY <1>1, <1>2, ConcatProperties
<1>5. InsertAt(s, i, x) = (l \o <<x>>) \o r
  BY DEF InsertAt
<1> DEFINE lx == l \o <<x>>
<1> HIDE DEF l, r, lx
<1>6. /\ lx \o r \in Seq(S)
      /\ Len(lx \o r) = Len(s) + 1
      /\ \A k \in 1..(Len(s) + 1) : (lx \o r)[k] = IF k <= i THEN lx[k] ELSE r[k - i]
  BY <1>1, <1>3, <1>4, ConcatProperties DEF lx
<1>7. ASSUME NEW k \in 1..(Len(s) + 1)
      PROVE  (lx \o r)[k] = IF k < i THEN s[k] ELSE IF k = i THEN x ELSE s[k - 1]
  BY <1>1, <1>3, <1>4, <1>6 DEF lx
<1>8. QED
  BY <1>5, <1>6, <1>7 DEF lx
-----------------------------------------------------------------------------
(* What YouTrack puts on a page. *)
LEMMA PageFacts ==
  ASSUME PageLoopTypeOK
  PROVE  /\ Page \in Seq(Items)
         /\ Len(Page) = IF skip < Len(list)
                           THEN Lesser(skip + PageSize, Len(list)) - skip ELSE 0
         /\ \A k \in 1..Len(Page) : Page[k] = list[skip + k]
         /\ Len(Page) <= PageSize
<1>1. /\ Len(list) \in Nat /\ skip \in Nat /\ PageSize \in Nat
      /\ list \in Seq(Items)
  BY PageSizeAssumption DEF PageLoopTypeOK
<1> DEFINE last == Lesser(skip + PageSize, Len(list))
<1>2. last \in Nat /\ last <= Len(list) /\ last <= skip + PageSize
  BY <1>1 DEF Lesser
<1>3. \A k \in (skip + 1)..last : list[k] \in Items
  BY <1>1, <1>2
<1> HIDE DEF last
<1>4. /\ SubSeq(list, skip + 1, last) \in Seq(Items)
      /\ Len(SubSeq(list, skip + 1, last)) = IF skip + 1 <= last THEN last - skip ELSE 0
      /\ \A k \in 1..(last - skip) : SubSeq(list, skip + 1, last)[k] = list[skip + k]
  BY <1>1, <1>2, <1>3, SubSeqProperties
<1>5. Page = SubSeq(list, skip + 1, last)
  BY DEF Page, last
<1>6. skip < Len(list) <=> skip + 1 <= last
  BY <1>1, PageSizeAssumption DEF last, Lesser
<1>7. QED
  BY <1>1, <1>2, <1>4, <1>5, <1>6 DEF last

(* A change gives another list of items and keeps the extremes in step. *)
LEMMA ChangesKeepItems ==
  ASSUME list \in Seq(Items), ListChanges
  PROVE  list' \in Seq(Items) /\ Changed(list')
<1>1. ASSUME NEW i \in 1..(Len(list) + 1), NEW x \in Items, ItemAppears(i, x)
      PROVE  list' \in Seq(Items) /\ Changed(list')
  BY <1>1, InsertAtFacts DEF ItemAppears, Changed
<1>2. ASSUME NEW i \in 1..Len(list), ItemGoes(i)
      PROVE  list' \in Seq(Items) /\ Changed(list')
  BY <1>2, RemoveAtFacts DEF ItemGoes, Changed
<1>3. ASSUME NEW i \in 1..Len(list), NEW j \in 1..Len(list), ItemMoves(i, j)
      PROVE  list' \in Seq(Items) /\ Changed(list')
  <2>1. list[i] \in Items
    OBVIOUS
  <2>2. /\ RemoveAt(list, i) \in Seq(Items)
        /\ Len(RemoveAt(list, i)) = Len(list) - 1
    BY RemoveAtFacts
  <2>3. j \in 1..(Len(RemoveAt(list, i)) + 1)
    BY <2>2
  <2>4. QED
    BY <1>3, <2>1, <2>2, <2>3, InsertAtFacts DEF ItemMoves, Changed
<1>4. QED
  BY <1>1, <1>2, <1>3 DEF ListChanges

-----------------------------------------------------------------------------
(* The invariant of the loop: what has been skipped was there at some time. *)
LoopInv ==
  /\ PageLoopTypeOK
  /\ at = "asking" => skip <= largest
  /\ CountIsBetween

LEMMA LoopInvInit == PageLoopInit => LoopInv
  BY EmptySeq DEF PageLoopInit, LoopInv, PageLoopTypeOK, CountIsBetween

LEMMA BeginKeepsInv == LoopInv /\ Begin => LoopInv'
  BY DEF LoopInv, PageLoopTypeOK, CountIsBetween, Begin

LEMMA NextPageKeepsInv ==
  ASSUME LoopInv, NextPage
  PROVE  LoopInv'
<1>1. /\ list \in Seq(Items) /\ Len(list) \in Nat
      /\ skip \in Nat /\ fetched \in Nat /\ smallest \in Nat /\ largest \in Nat
      /\ fetched = skip /\ smallest <= Len(list) /\ Len(list) <= largest
      /\ skip <= largest
  BY DEF LoopInv, PageLoopTypeOK, NextPage
<1>2. PageSize \in Nat /\ PageSize > 0
  BY PageSizeAssumption
<1>3. /\ Len(Page) \in Nat
      /\ Len(Page) = IF skip < Len(list)
                        THEN Lesser(skip + PageSize, Len(list)) - skip ELSE 0
  BY PageFacts DEF LoopInv
<1>4. CASE LastPage
  <2>1. fetched' = IF skip < Len(list) THEN Len(list) ELSE skip
    BY <1>1, <1>2, <1>3, <1>4 DEF NextPage, LastPage, Lesser
  <2>2. at' = "done" /\ UNCHANGED <<list, skip, smallest, largest>>
    BY <1>4 DEF NextPage
  <2>3. QED
    BY <1>1, <2>1, <2>2 DEF LoopInv, PageLoopTypeOK, CountIsBetween
<1>5. CASE ~LastPage
  <2>1. skip + PageSize <= Len(list) /\ Len(Page) = PageSize
    BY <1>1, <1>2, <1>3, <1>5 DEF LastPage, Lesser
  <2>2. /\ fetched' = fetched + PageSize /\ skip' = skip + PageSize
        /\ at' = at /\ at = "asking" /\ UNCHANGED <<list, smallest, largest>>
    BY <1>5, <2>1 DEF NextPage
  <2>3. QED
    BY <1>1, <1>2, <2>1, <2>2 DEF LoopInv, PageLoopTypeOK, CountIsBetween
<1>6. QED
  BY <1>4, <1>5

LEMMA PageFailsKeepsInv == LoopInv /\ PageFails => LoopInv'
  BY DEF LoopInv, PageLoopTypeOK, CountIsBetween, PageFails

LEMMA ChangesKeepInv ==
  ASSUME LoopInv, ListChanges, UNCHANGED answerVars
  PROVE  LoopInv'
<1>1. list' \in Seq(Items) /\ Changed(list')
  BY ChangesKeepItems DEF LoopInv, PageLoopTypeOK
<1>2. Len(list') \in Nat
  BY <1>1
<1>3. QED
  BY <1>1, <1>2 DEF LoopInv, PageLoopTypeOK, CountIsBetween, Changed,
     answerVars, Lesser, Greater

(* The loop keeps its invariant whatever happens to the list. *)
THEOREM LoopIsSafe == LoopSpec => []LoopInv
<1>1. LoopInv /\ [LoopNext]_loopVars => LoopInv'
  <2>1. LoopInv /\ UNCHANGED loopVars => LoopInv'
    BY DEF LoopInv, PageLoopTypeOK, CountIsBetween, loopVars
  <2>2. QED
    BY <2>1, BeginKeepsInv, NextPageKeepsInv, PageFailsKeepsInv, ChangesKeepInv
       DEF LoopNext
<1>2. QED
  BY <1>1, LoopInvInit, PTL DEF LoopSpec

(* The count is between the smallest and the largest number of matches     *)
(* while it was made: for every batch size and however many pages.         *)
THEOREM CountsAreBetween == LoopSpec => []CountIsBetween
<1>1. LoopInv => CountIsBetween
  BY DEF LoopInv
<1>2. QED
  BY <1>1, LoopIsSafe, PTL

-----------------------------------------------------------------------------
(* GetProjects: for any number of projects that come, go and move while it *)
(* collects.                                                               *)

AtMost(n, S) == IsFiniteSet(S) /\ Cardinality(S) <= n

LEMMA SubsetAtMost ==
  ASSUME NEW n \in Nat, NEW T, AtMost(n, T), NEW S \in SUBSET T
  PROVE  AtMost(n, S)
<1>1. IsFiniteSet(S) /\ Cardinality(S) <= Cardinality(T)
  BY FS_Subset DEF AtMost
<1>2. Cardinality(S) \in Nat /\ Cardinality(T) \in Nat
  BY <1>1, FS_CardinalityType DEF AtMost
<1>3. QED
  BY <1>1, <1>2 DEF AtMost

LEMMA OneMore ==
  ASSUME NEW n \in Nat, NEW T, AtMost(n, T), NEW y, NEW S \in SUBSET (T \cup {y})
  PROVE  AtMost(n + 1, S)
<1>1. /\ IsFiniteSet(T \cup {y})
      /\ Cardinality(T \cup {y}) = Cardinality(T)
           \/ Cardinality(T \cup {y}) = Cardinality(T) + 1
  BY FS_AddElement DEF AtMost
<1>2. Cardinality(T) \in Nat
  BY FS_CardinalityType DEF AtMost
<1>3. AtMost(n + 1, T \cup {y})
  BY <1>1, <1>2 DEF AtMost
<1>4. QED
  BY <1>3, SubsetAtMost

-----------------------------------------------------------------------------
(* The items of the list that the loop does not reach any more, and the    *)
(* projects among them that it should have seen.                           *)
Behind == {list[i] : i \in 1..Lesser(skip, Len(list))}
Lost == (Behind \cap always) \ seen

(* A creation puts nothing but the new project behind the loop, ... *)
LEMMA CreatedBehind ==
  ASSUME list \in Seq(Items), skip \in Nat, skip' = skip,
         NEW i \in 1..(Len(list) + 1), NEW p \in Items, ItemAppears(i, p)
  PROVE  /\ Behind' \subseteq Behind \cup {p}
         /\ Range(list) \subseteq Range(list')
<1>1. /\ Len(list) \in Nat
      /\ list' = InsertAt(list, i, p)
      /\ list' \in Seq(Items) /\ Len(list') = Len(list) + 1
      /\ \A k \in 1..(Len(list) + 1) :
           list'[k] = IF k < i THEN list[k] ELSE IF k = i THEN p ELSE list[k - 1]
  <2>1. list' = InsertAt(list, i, p)
    BY DEF ItemAppears, Changed
  <2>2. QED
    BY <2>1, InsertAtFacts
<1>2. ASSUME NEW k \in 1..Lesser(skip, Len(list'))
      PROVE  list'[k] \in Behind \cup {p}
  <2>1. k \in Nat /\ k >= 1 /\ k <= skip /\ k <= Len(list) + 1
    BY <1>1, <1>2 DEF Lesser
  <2>2. CASE k < i
    BY <1>1, <2>1, <2>2 DEF Behind, Lesser
  <2>3. CASE k = i
    BY <1>1, <2>1, <2>3
  <2>4. CASE k > i
    BY <1>1, <2>1, <2>4 DEF Behind, Lesser
  <2>5. QED
    BY <2>1, <2>2, <2>3, <2>4
<1>3. ASSUME NEW k \in 1..Len(list)
      PROVE  \E m \in 1..Len(list') : list'[m] = list[k]
  <2>1. CASE k < i
    BY <1>1, <2>1
  <2>2. CASE k >= i
    <3>1. k + 1 \in 1..Len(list') /\ (k + 1) - 1 = k
      BY <1>1
    <3>2. list'[k + 1] = list[k]
      BY <1>1, <2>2, <3>1
    <3>3. QED
      BY <3>1, <3>2
  <2>3. QED
    BY <1>1, <2>1, <2>2
<1>4. Behind' \subseteq Behind \cup {p}
  BY <1>2 DEF Behind
<1>5. Range(list) \subseteq Range(list')
  BY <1>1, <1>3, RangeEquality
<1>6. QED
  BY <1>4, <1>5

(* ... a deletion one project that was in front of it, ... *)
LEMMA DeletedBehind ==
  ASSUME list \in Seq(Items), skip \in Nat, skip' = skip,
         NEW i \in 1..Len(list), ItemGoes(i)
  PROVE  /\ Behind' \subseteq Behind \cup {list[skip + 1]}
         /\ Range(list) \ {list[i]} \subseteq Range(list')
<1>1. /\ Len(list) \in Nat
      /\ list' \in Seq(Items) /\ Len(list') = Len(list) - 1
      /\ \A k \in 1..(Len(list) - 1) :
           list'[k] = IF k < i THEN list[k] ELSE list[k + 1]
  BY RemoveAtFacts DEF ItemGoes, Changed
<1>2. ASSUME NEW k \in 1..Lesser(skip, Len(list'))
      PROVE  list'[k] \in Behind \cup {list[skip + 1]}
  <2>1. k \in Nat /\ k >= 1 /\ k <= skip /\ k <= Len(list) - 1
    BY <1>1, <1>2 DEF Lesser
  <2>2. CASE k < i \/ k < skip
    BY <1>1, <2>1, <2>2 DEF Behind, Lesser
  <2>3. CASE k >= i /\ k = skip
    BY <1>1, <2>1, <2>3
  <2>4. QED
    BY <2>1, <2>2, <2>3
<1>3. ASSUME NEW k \in 1..Len(list), list[k] # list[i]
      PROVE  \E m \in 1..Len(list') : list'[m] = list[k]
  <2>1. CASE k < i
    BY <1>1, <2>1
  <2>2. CASE k > i
    <3>1. k - 1 \in 1..Len(list') /\ list'[k - 1] = list[k]
      BY <1>1, <2>2
    <3>2. QED
      BY <3>1
  <2>3. k # i
    BY <1>3
  <2>4. QED
    BY <1>1, <2>1, <2>2, <2>3
<1>4. Behind' \subseteq Behind \cup {list[skip + 1]}
  BY <1>2 DEF Behind
<1>5. Range(list) \ {list[i]} \subseteq Range(list')
  BY <1>1, <1>3, RangeEquality
<1>6. QED
  BY <1>4, <1>5

(* ... and so does a renaming. *)
LEMMA RenamedBehind ==
  ASSUME list \in Seq(Items), skip \in Nat, skip' = skip,
         NEW i \in 1..Len(list), NEW j \in 1..Len(list), ItemMoves(i, j)
  PROVE  /\ \E y : Behind' \subseteq Behind \cup {y}
         /\ Range(list) \subseteq Range(list')
<1> DEFINE rest == RemoveAt(list, i)
           moved == list[i]
<1>1. /\ Len(list) \in Nat /\ moved \in Items
      /\ rest \in Seq(Items) /\ Len(rest) = Len(list) - 1
      /\ \A k \in 1..(Len(list) - 1) : rest[k] = IF k < i THEN list[k] ELSE list[k + 1]
  BY RemoveAtFacts
<1>2. list' = InsertAt(rest, j, moved)
  BY DEF ItemMoves, Changed
<1> HIDE DEF rest, moved
<1>3. /\ list' \in Seq(Items) /\ Len(list') = Len(list)
      /\ \A k \in 1..Len(list) :
           list'[k] = IF k < j THEN rest[k] ELSE IF k = j THEN moved ELSE rest[k - 1]
  <2>1. j \in 1..(Len(rest) + 1) /\ Len(rest) + 1 = Len(list)
    BY <1>1
  <2>2. /\ InsertAt(rest, j, moved) \in Seq(Items)
        /\ Len(InsertAt(rest, j, moved)) = Len(rest) + 1
        /\ \A k \in 1..(Len(rest) + 1) :
             InsertAt(rest, j, moved)[k] =
               IF k < j THEN rest[k] ELSE IF k = j THEN moved ELSE rest[k - 1]
    BY <1>1, <2>1, InsertAtFacts
  <2>3. QED
    BY <1>2, <2>1, <2>2
<1>4. ASSUME NEW k \in 1..Lesser(skip, Len(list'))
      PROVE  list'[k] \in Behind \cup {IF j <= skip THEN moved ELSE list[skip + 1]}
  <2>1. k \in Nat /\ k >= 1 /\ k <= skip /\ k <= Len(list)
    BY <1>1, <1>3, <1>4 DEF Lesser
  <2>2. CASE k < j
    <3>1. list'[k] = list[k] \/ list'[k] = list[k + 1]
      BY <1>1, <1>3, <2>1, <2>2
    <3>2. list[k] \in Behind
      BY <1>1, <2>1 DEF Behind, Lesser
    <3>3. CASE k < skip
      BY <1>1, <2>1, <2>2, <3>1, <3>2, <3>3 DEF Behind, Lesser
    <3>4. CASE k = skip
      BY <1>1, <2>1, <2>2, <3>1, <3>2, <3>4
    <3>5. QED
      BY <2>1, <3>3, <3>4
  <2>3. CASE k = j
    BY <1>3, <2>1, <2>3
  <2>4. CASE k > j
    <3>1. k - 1 \in 1..(Len(list) - 1)
      BY <1>1, <2>1, <2>4
    <3>2. list'[k] = list[k - 1] \/ list'[k] = list[k]
      BY <1>1, <1>3, <2>1, <2>4, <3>1
    <3>3. QED
      BY <1>1, <2>1, <3>1, <3>2 DEF Behind, Lesser
  <2>5. QED
    BY <2>1, <2>2, <2>3, <2>4
<1>5. ASSUME NEW k \in 1..Len(list)
      PROVE  \E m \in 1..Len(list') : list'[m] = list[k]
  <2>1. CASE k = i
    BY <1>1, <1>3, <2>1 DEF moved
  <2>2. ASSUME NEW r \in 1..(Len(list) - 1), rest[r] = list[k]
        PROVE  \E m \in 1..Len(list') : list'[m] = list[k]
    <3>1. CASE r < j
      <4>1. r \in 1..Len(list) /\ list'[r] = rest[r]
        BY <1>1, <1>3, <3>1
      <4>2. QED
        BY <1>3, <2>2, <4>1
    <3>2. CASE r >= j
      <4>1. r + 1 \in 1..Len(list) /\ r + 1 > j /\ (r + 1) - 1 = r
        BY <1>1, <3>2
      <4>2. list'[r + 1] = rest[r]
        BY <1>1, <1>3, <4>1
      <4>3. QED
        BY <1>3, <2>2, <4>1, <4>2
    <3>3. QED
      BY <3>1, <3>2
  <2>3. CASE k < i
    <3>1. k \in 1..(Len(list) - 1) /\ rest[k] = list[k]
      BY <1>1, <2>3
    <3>2. QED
      BY <2>2, <3>1
  <2>4. CASE k > i
    <3>1. k - 1 \in 1..(Len(list) - 1) /\ rest[k - 1] = list[k]
      BY <1>1, <2>4
    <3>2. QED
      BY <2>2, <3>1
  <2>5. QED
    BY <2>1, <2>3, <2>4
<1>6. Behind' \subseteq Behind \cup {IF j <= skip THEN moved ELSE list[skip + 1]}
  BY <1>4 DEF Behind
<1>7. Range(list) \subseteq Range(list')
  <2>1. /\ Range(list) = {list[k] : k \in 1..Len(list)}
        /\ Range(list') = {list'[k] : k \in 1..Len(list')}
    BY <1>3, RangeEquality
  <2>2. QED
    BY <1>5, <2>1
<1> HIDE DEF Behind
<1>8. QED
  BY <1>6, <1>7

-----------------------------------------------------------------------------
(* The invariant: no more is lost than there were deletions and renamings. *)
LossInv ==
  /\ ProjectListTypeOK
  /\ LoopInv
  /\ EachProjectOnce
  /\ at = "asking" => AtMost(shifts, Lost)
  /\ at = "done" => AtMost(shifts, Missed)

LEMMA LossInvInit == ProjectsInit => LossInv
<1> SUFFICES ASSUME ProjectsInit PROVE LossInv
  OBVIOUS
<1>1. LoopInv
  BY LoopInvInit DEF ProjectsInit
<1>2. at = "idle"
  BY DEF ProjectsInit, PageLoopInit
<1>3. ProjectListTypeOK
  BY <1>1, MaxShiftsAssumption DEF ProjectsInit, LoopInv, ProjectListTypeOK
<1>4. EachProjectOnce
  BY DEF ProjectsInit, EachProjectOnce, EmptyBag
<1>5. QED
  BY <1>1, <1>2, <1>3, <1>4 DEF LossInv

LEMMA GetProjectsKeepsInv == LossInv /\ GetProjects => LossInv'
<1> SUFFICES ASSUME LossInv, GetProjects PROVE LossInv'
  OBVIOUS
<1>1. Begin /\ LoopInv'
  BY BeginKeepsInv DEF GetProjects, LossInv
<1>2. at' = "asking" /\ skip' = 0 /\ list' = list
  BY <1>1 DEF Begin
<1>3. seen' = {} /\ always' = Range(list) /\ shifts' = 0
  BY DEF GetProjects
<1>4. ProjectListTypeOK'
  BY <1>1, <1>2, <1>3, MaxShiftsAssumption DEF LoopInv, ProjectListTypeOK
<1>5. 1..Lesser(skip', Len(list')) = {}
  BY <1>1, <1>2 DEF Lesser, LoopInv, PageLoopTypeOK
<1>6. Lost' = {}
  BY <1>5 DEF Lost, Behind
<1>7. AtMost(shifts, Lost)'
  BY <1>3, <1>6, FS_EmptySet DEF AtMost
<1>8. EachProjectOnce'
  BY <1>3 DEF GetProjects, EachProjectOnce, EmptyBag
<1>9. QED
  BY <1>1, <1>2, <1>4, <1>7, <1>8 DEF LossInv

(* Bags of what was collected and what was not yet. *)
LEMMA OnceAndOnce ==
  ASSUME NEW S, NEW T
  PROVE  SetToBag(S) (+) SetToBag(T \ S) = SetToBag(S \cup T)
<1>1. /\ DOMAIN SetToBag(S) = S /\ DOMAIN SetToBag(T \ S) = T \ S
      /\ \A e \in S : SetToBag(S)[e] = 1
      /\ \A e \in T \ S : SetToBag(T \ S)[e] = 1
  BY DEF SetToBag
<1>2. S \cup (T \ S) = S \cup T
  OBVIOUS
<1>3. SetToBag(S) (+) SetToBag(T \ S) =
        [e \in S \cup T |-> (IF e \in S THEN SetToBag(S)[e] ELSE 0)
                            + (IF e \in T \ S THEN SetToBag(T \ S)[e] ELSE 0)]
  BY <1>1, <1>2 DEF (+)
<1>4. ASSUME NEW e \in S \cup T
      PROVE  (IF e \in S THEN SetToBag(S)[e] ELSE 0)
               + (IF e \in T \ S THEN SetToBag(T \ S)[e] ELSE 0) = 1
  BY <1>1
<1>5. QED
  BY <1>3, <1>4 DEF SetToBag

LEMMA CollectKeepsInv == LossInv /\ Collect => LossInv'
<1> SUFFICES ASSUME LossInv, Collect PROVE LossInv'
  OBVIOUS
<1>1. NextPage /\ LoopInv'
  BY NextPageKeepsInv DEF Collect, LossInv
<1>2. /\ list \in Seq(Items) /\ Len(list) \in Nat /\ skip \in Nat
      /\ PageSize \in Nat /\ PageSize > 0 /\ shifts \in Nat
      /\ at = "asking" /\ list' = list
      /\ seen' = seen \cup Range(Page) /\ UNCHANGED <<always, shifts>>
  BY <1>1, PageSizeAssumption, MaxShiftsAssumption
     DEF LossInv, ProjectListTypeOK, PageLoopTypeOK, Collect, NextPage
<1>3. /\ Page \in Seq(Items)
      /\ Len(Page) = IF skip < Len(list)
                        THEN Lesser(skip + PageSize, Len(list)) - skip ELSE 0
      /\ \A k \in 1..Len(Page) : Page[k] = list[skip + k]
  BY PageFacts DEF LossInv, ProjectListTypeOK
<1>4. Range(Page) \subseteq Items
  BY <1>3 DEF Range
<1>5. ProjectListTypeOK' /\ EachProjectOnce'
  <2>1. ProjectListTypeOK'
    BY <1>1, <1>2, <1>4 DEF LossInv, LoopInv, ProjectListTypeOK
  <2>2. all' = SetToBag(seen) (+) SetToBag(Range(Page) \ seen)
    BY DEF Collect, LossInv, EachProjectOnce
  <2>3. EachProjectOnce'
    BY <1>2, <2>2, OnceAndOnce DEF EachProjectOnce
  <2>4. QED
    BY <2>1, <2>3
<1>6. AtMost(shifts, Lost)
  BY <1>2 DEF LossInv
<1>7. ASSUME NEW k \in (skip + 1)..(skip + Len(Page))
      PROVE  list[k] \in Range(Page)
  <2>1. Len(Page) \in Nat
    BY <1>3
  <2>2. k - skip \in 1..Len(Page) /\ skip + (k - skip) = k
    BY <1>2, <1>7, <2>1
  <2>3. Page[k - skip] = list[k]
    BY <1>3, <2>2
  <2>4. QED
    BY <1>3, <2>2, <2>3 DEF Range
<1>8. CASE LastPage
  <2>1. at' = "done"
    BY <1>1, <1>8 DEF NextPage
  <2>2. ASSUME NEW k \in 1..Len(list)
        PROVE  list[k] \in Behind \/ list[k] \in Range(Page)
    <3>1. CASE k <= skip
      BY <1>2, <3>1 DEF Behind, Lesser
    <3>2. CASE k > skip
      <4>1. skip + Len(Page) = Len(list)
        BY <1>2, <1>3, <1>8, <3>2 DEF LastPage, Lesser
      <4>2. k \in (skip + 1)..(skip + Len(Page))
        BY <1>2, <3>2, <4>1
      <4>3. QED
        BY <1>7, <4>2
    <3>3. QED
      BY <1>2, <3>1, <3>2
  <2>3. always \subseteq Range(list)
    BY DEF LossInv, ProjectListTypeOK
  <2>4. always \ seen' \subseteq Lost
    BY <1>2, <2>2, <2>3 DEF Lost, Range
  <2>5. AtMost(shifts, Missed)'
    BY <1>2, <1>6, <2>4, SubsetAtMost DEF Missed
  <2>6. QED
    BY <1>1, <1>5, <2>1, <2>5 DEF LossInv
<1>9. CASE ~LastPage
  <2>1. skip + PageSize <= Len(list) /\ Len(Page) = PageSize
    BY <1>2, <1>3, <1>9 DEF LastPage, Lesser
  <2>2. at' = "asking" /\ skip' = skip + PageSize
    BY <1>1, <1>2, <1>9 DEF NextPage
  <2>3. ASSUME NEW k \in 1..Lesser(skip', Len(list'))
        PROVE  list[k] \in Behind \/ list[k] \in Range(Page)
    <3>1. k <= skip + PageSize
      BY <1>2, <2>1, <2>2, <2>3 DEF Lesser
    <3>2. CASE k <= skip
      BY <1>2, <2>1, <3>2 DEF Behind, Lesser
    <3>3. CASE k > skip
      <4>1. k \in (skip + 1)..(skip + Len(Page))
        BY <1>2, <2>1, <3>1, <3>3
      <4>2. QED
        BY <1>7, <4>1
    <3>4. QED
      BY <1>2, <3>2, <3>3
  <2>4. Lost' \subseteq Lost
    BY <1>2, <2>3 DEF Lost, Behind
  <2>5. AtMost(shifts, Lost)'
    BY <1>2, <1>6, <2>4, SubsetAtMost
  <2>6. QED
    BY <1>1, <1>5, <2>2, <2>5 DEF LossInv
<1>10. QED
  BY <1>8, <1>9

LEMMA GiveUpKeepsInv == LossInv /\ GiveUp => LossInv'
<1> SUFFICES ASSUME LossInv, GiveUp PROVE LossInv'
  OBVIOUS
<1>1. LoopInv'
  BY PageFailsKeepsInv DEF GiveUp, LossInv
<1>2. at' = "failed" /\ list' = list /\ seen' = {} /\ UNCHANGED <<always, shifts>>
  BY DEF GiveUp, PageFails
<1>3. ProjectListTypeOK'
  BY <1>1, <1>2 DEF LossInv, LoopInv, ProjectListTypeOK
<1>4. EachProjectOnce'
  BY <1>2 DEF GiveUp, EachProjectOnce, EmptyBag
<1>5. QED
  BY <1>1, <1>2, <1>3, <1>4 DEF LossInv

-----------------------------------------------------------------------------
LEMMA ChangesKeepLossInv == LossInv /\ ProjectsChange => LossInv'
<1> SUFFICES ASSUME LossInv, ProjectsChange PROVE LossInv'
  OBVIOUS
<1>1. /\ list \in Seq(Items) /\ Len(list) \in Nat /\ skip \in Nat
      /\ shifts \in Nat /\ shifts \in 0..MaxShifts /\ MaxShifts \in Nat
      /\ seen \subseteq Items /\ always \subseteq Range(list)
  BY MaxShiftsAssumption DEF LossInv, ProjectListTypeOK, PageLoopTypeOK
<1>2. UNCHANGED <<at, skip, fetched, seen>> /\ EachProjectOnce'
  BY DEF ProjectsChange, LossInv, EachProjectOnce
<1>3. ListChanges => LoopInv'
  BY <1>2, ChangesKeepInv DEF LossInv, answerVars
<1>4. ASSUME NEW i \in 1..(Len(list) + 1), NEW p \in Items, ProjectCreated(i, p)
      PROVE  LossInv'
  <2>1. ItemAppears(i, p) /\ p \notin Range(list) /\ UNCHANGED <<always, shifts>>
    BY <1>4 DEF ProjectCreated, ItemAppears
  <2>2. Behind' \subseteq Behind \cup {p} /\ Range(list) \subseteq Range(list')
    BY <1>1, <1>2, <2>1, CreatedBehind
  <2>3. LoopInv'
    BY <1>3, <2>1 DEF ListChanges
  <2>4. ProjectListTypeOK'
    BY <1>1, <1>2, <2>1, <2>2, <2>3 DEF LoopInv, ProjectListTypeOK
  <2>5. Lost' \subseteq Lost /\ Missed' = Missed
    BY <1>1, <1>2, <2>1, <2>2 DEF Lost, Missed
  <2>6. QED
    BY <1>1, <1>2, <2>1, <2>3, <2>4, <2>5, SubsetAtMost DEF LossInv
<1>5. ASSUME NEW y, Behind' \subseteq Behind \cup {y}, shifts < MaxShifts,
             shifts' = shifts + 1, always' \subseteq always,
             always' \subseteq Range(list'), ListChanges
      PROVE  LossInv'
  <2>1. ProjectListTypeOK'
    BY <1>1, <1>2, <1>3, <1>5 DEF LoopInv, ProjectListTypeOK
  <2>2. Lost' \subseteq Lost \cup {y} /\ Missed' \subseteq Missed \cup {y}
    BY <1>2, <1>5 DEF Lost, Missed
  <2>3. at = "asking" => AtMost(shifts + 1, Lost')
    BY <1>1, <2>2, OneMore DEF LossInv
  <2>4. at = "done" => AtMost(shifts + 1, Missed')
    BY <1>1, <2>2, OneMore DEF LossInv
  <2>5. QED
    BY <1>2, <1>3, <1>5, <2>1, <2>3, <2>4 DEF LossInv
<1>6. ASSUME NEW i \in 1..Len(list), ProjectDeleted(i)
      PROVE  LossInv'
  <2>1. /\ Behind' \subseteq Behind \cup {list[skip + 1]}
        /\ Range(list) \ {list[i]} \subseteq Range(list')
    BY <1>1, <1>2, <1>6, DeletedBehind DEF ProjectDeleted
  <2>2. always' \subseteq always /\ always' \subseteq Range(list')
    BY <1>1, <1>6, <2>1 DEF ProjectDeleted
  <2>3. QED
    BY <1>5, <1>6, <2>1, <2>2 DEF ProjectDeleted, ListChanges
<1>7. ASSUME NEW i \in 1..Len(list), NEW j \in 1..Len(list), ProjectRenamed(i, j)
      PROVE  LossInv'
  <2>1. /\ \E y : Behind' \subseteq Behind \cup {y}
        /\ Range(list) \subseteq Range(list')
    BY <1>1, <1>2, <1>7, RenamedBehind DEF ProjectRenamed
  <2>2. PICK y : Behind' \subseteq Behind \cup {y}
    BY <2>1
  <2>3. always' \subseteq always /\ always' \subseteq Range(list')
    BY <1>1, <1>7, <2>1 DEF ProjectRenamed
  <2>4. QED
    BY <1>5, <1>7, <2>2, <2>3 DEF ProjectRenamed, ListChanges
<1>8. QED
  BY <1>4, <1>6, <1>7 DEF ProjectsChange

-----------------------------------------------------------------------------
(* Collecting keeps its invariant. *)
THEOREM CollectingIsSafe == ProjectsSpec => []LossInv
<1>1. LossInv /\ UNCHANGED projectsVars => LossInv'
  BY DEF projectsVars, LossInv, LoopInv, ProjectListTypeOK, PageLoopTypeOK,
         CountIsBetween, EachProjectOnce, Lost, Behind, Missed
<1>2. LossInv /\ [ProjectsNext]_projectsVars => LossInv'
  BY <1>1, GetProjectsKeepsInv, CollectKeepsInv, GiveUpKeepsInv, ChangesKeepLossInv
     DEF ProjectsNext
<1>3. QED
  BY <1>2, LossInvInit, PTL DEF ProjectsSpec

(* No project is in the answer of GetProjects twice, and all that were on  *)
(* a page are in it, whatever happens to the list between the pages.       *)
THEOREM ProjectsAreDistinct == ProjectsSpec => []EachProjectOnce
<1>1. LossInv => EachProjectOnce
  BY DEF LossInv
<1>2. QED
  BY <1>1, CollectingIsSafe, PTL

(* A list that is collected misses no more of the projects that were there *)
(* all the time than projects were deleted or renamed meanwhile.           *)
THEOREM LossesAreExplained == ProjectsSpec => []EachLossExplained
<1>1. LossInv => EachLossExplained
  BY DEF LossInv, EachLossExplained, AtMost
<1>2. QED
  BY <1>1, CollectingIsSafe, PTL

-----------------------------------------------------------------------------
(* A client that reads a search: for any number of issues, any cap, any    *)
(* maxResults, any batch size of the counts, and whatever fails.           *)

(* What YouTrack finds for the request. *)
LEMMA GetIssuesFacts ==
  ASSUME SearchPagingTypeOK
  PROVE  /\ GetIssues \in Seq(Items)
         /\ Len(GetIssues) = IF startAt < Len(list)
                                THEN Lesser(startAt + maxResults, Len(list)) - startAt
                                ELSE 0
         /\ \A k \in 1..Len(GetIssues) : GetIssues[k] = list[startAt + k]
         /\ Len(GetIssues) <= maxResults
         /\ startAt \in Nat /\ maxResults \in Nat
<1>1. /\ Len(list) \in Nat /\ startAt \in Nat /\ list \in Seq(Items)
      /\ maxResults \in Nat
  BY CapAssumption, MaxAskAssumption
     DEF SearchPagingTypeOK, PageLoopTypeOK, startAt, maxResults, Lesser
<1> DEFINE last == Lesser(startAt + maxResults, Len(list))
<1>2. last \in Nat /\ last <= Len(list) /\ last <= startAt + maxResults
  BY <1>1 DEF Lesser
<1>3. \A k \in (startAt + 1)..last : list[k] \in Items
  BY <1>1, <1>2
<1>4. startAt < Len(list) => startAt <= last
  BY <1>1 DEF Lesser
<1>5. GetIssues = SubSeq(list, startAt + 1, last)
  BY DEF GetIssues
<1> HIDE DEF last, startAt, maxResults
<1>6. /\ GetIssues \in Seq(Items)
      /\ Len(GetIssues) = IF startAt + 1 <= last THEN last - startAt ELSE 0
      /\ \A k \in 1..(last - startAt) : GetIssues[k] = list[startAt + k]
  BY <1>1, <1>2, <1>3, <1>5, SubSeqProperties
<1>7. Len(GetIssues) = IF startAt < Len(list) THEN last - startAt ELSE 0
  BY <1>1, <1>2, <1>4, <1>6
<1>8. QED
  BY <1>1, <1>2, <1>6, <1>7 DEF last

-----------------------------------------------------------------------------
(* A sequence is what the list holds behind its first n items. *)
IsAt(s, n) ==
  /\ n + Len(s) <= Len(list)
  /\ \A k \in 1..Len(s) : s[k] = list[n + k]

(* The invariant: what the client has and the page being counted follow    *)
(* each other in the list, and no count began below the expected number.   *)
SearchInv ==
  /\ SearchPagingTypeOK
  /\ LoopInv
  /\ steady => IsAt(got, 0) /\ expected <= Len(list)
  /\ steady /\ phase = "counting" => IsAt(page, Len(got)) /\ expected <= smallest
  /\ SyncIsComplete

LEMMA NothingIsAt ==
  ASSUME list \in Seq(Items)
  PROVE  IsAt(<< >>, 0)
<1>1. Len(<< >>) = 0 /\ Len(list) \in Nat /\ Len(list) >= 0
  BY EmptySeq
<1>2. 1..Len(<< >>) = {}
  BY <1>1
<1>3. QED
  BY <1>1, <1>2 DEF IsAt

LEMMA SearchInvInit == PagingInit => SearchInv
<1> SUFFICES ASSUME PagingInit PROVE SearchInv
  OBVIOUS
<1>1. LoopInv
  BY LoopInvInit DEF PagingInit
<1>2. << >> \in Seq(Items) /\ Len(<< >>) = 0 /\ IsAt(<< >>, 0)
  BY <1>1, EmptySeq, NothingIsAt DEF LoopInv, PageLoopTypeOK
<1>3. SearchPagingTypeOK
  <2>1. PageLoopTypeOK /\ asked \in 0..MaxAsk /\ expected \in Nat
    BY <1>1, MaxAskAssumption DEF PagingInit, LoopInv
  <2>2. phase = "idle" /\ at = "idle"
    BY DEF PagingInit, PageLoopInit
  <2>3. page \in Seq(Items) /\ got \in Seq(Items) /\ size \in Nat /\ total \in Nat
    BY <1>2 DEF PagingInit
  <2>4. failed \in BOOLEAN /\ steady \in BOOLEAN
    BY DEF PagingInit
  <2>5. QED
    BY <2>1, <2>2, <2>3, <2>4 DEF SearchPagingTypeOK, Phases
<1>4. Len(list) \in Nat
  BY <1>1 DEF LoopInv, PageLoopTypeOK
<1>5. /\ IsAt(got, 0) /\ expected <= Len(list)
      /\ phase = "idle"
  BY <1>2, <1>4 DEF PagingInit
<1>6. QED
  BY <1>1, <1>3, <1>5 DEF SearchInv, SyncIsComplete

-----------------------------------------------------------------------------
(* The steps of the client that have no answer. *)
LEMMA StartSyncKeepsInv == SearchInv /\ StartSync => SearchInv'
<1> SUFFICES ASSUME SearchInv, StartSync PROVE SearchInv'
  OBVIOUS
<1>1. << >> \in Seq(Items) /\ IsAt(<< >>, 0)
  BY EmptySeq, NothingIsAt DEF SearchInv, LoopInv, PageLoopTypeOK
<1>2. LoopInv'
  BY DEF StartSync, countVars, SearchInv, LoopInv, PageLoopTypeOK, CountIsBetween
<1>3. Len(list) \in Nat
  BY DEF SearchInv, LoopInv, PageLoopTypeOK
<1>4. SearchPagingTypeOK'
  BY <1>1, <1>2, <1>3
     DEF StartSync, countVars, SearchInv, LoopInv, SearchPagingTypeOK, Phases
<1>5. IsAt(got, 0)'
  BY <1>1 DEF StartSync, IsAt
<1>6. expected' <= Len(list') /\ phase' = "ready"
  BY <1>3 DEF StartSync
<1>7. QED
  BY <1>2, <1>4, <1>5, <1>6 DEF SearchInv, SyncIsComplete

LEMMA AskForKeepsInv ==
  ASSUME SearchInv, NEW m \in 1..MaxAsk, AskFor(m)
  PROVE  SearchInv'
<1>1. LoopInv'
  BY DEF AskFor, countVars, SearchInv, LoopInv, PageLoopTypeOK, CountIsBetween
<1>2. QED
  BY <1>1, MaxAskAssumption
     DEF AskFor, countVars, historyVars, SearchInv, LoopInv, SearchPagingTypeOK,
         PageLoopTypeOK, Phases, IsAt, SyncIsComplete

LEMMA SearchBusyKeepsInv == SearchInv /\ SearchBusy => SearchInv'
<1> SUFFICES ASSUME SearchInv, SearchBusy PROVE SearchInv'
  OBVIOUS
<1>1. LoopInv'
  BY DEF SearchBusy, countVars, SearchInv, LoopInv, PageLoopTypeOK, CountIsBetween
<1>2. QED
  BY <1>1
     DEF SearchBusy, countVars, historyVars, SearchInv, LoopInv, SearchPagingTypeOK,
         PageLoopTypeOK, Phases, IsAt, SyncIsComplete

-----------------------------------------------------------------------------
(* What the client has after an answer with issues that follow in the list. *)
LEMMA AnswerFacts ==
  ASSUME SearchInv, NEW issues \in Seq(Items), NEW n \in Nat, Answer(issues, n),
         UNCHANGED list
  PROVE  /\ got' \in Seq(Items) /\ page' \in Seq(Items)
         /\ Len(got') = Len(got) + Len(issues)
         /\ size' \in Nat /\ total' \in Nat
         /\ phase' = IF Len(got) + Len(issues) >= n THEN "finished" ELSE "ready"
         /\ IsAt(got, 0) /\ IsAt(issues, Len(got)) => IsAt(got, 0)'
<1>1. got \in Seq(Items) /\ Len(got) \in Nat /\ Len(issues) \in Nat
  BY DEF SearchInv, SearchPagingTypeOK
<1>2. /\ got \o issues \in Seq(Items)
      /\ Len(got \o issues) = Len(got) + Len(issues)
      /\ \A k \in 1..(Len(got) + Len(issues)) :
           (got \o issues)[k] = IF k <= Len(got) THEN got[k] ELSE issues[k - Len(got)]
  BY <1>1, ConcatProperties
<1>3. got' = got \o issues
  BY DEF Answer
<1>4. ASSUME IsAt(got, 0), IsAt(issues, Len(got))
      PROVE  IsAt(got, 0)'
  <2>1. Len(got') <= Len(list)
    BY <1>1, <1>2, <1>3, <1>4 DEF IsAt
  <2>2. ASSUME NEW k \in 1..Len(got')
        PROVE  got'[k] = list[k]
    <3>1. CASE k <= Len(got)
      BY <1>1, <1>2, <1>3, <1>4, <3>1 DEF IsAt
    <3>2. CASE k > Len(got)
      <4>1. k - Len(got) \in 1..Len(issues) /\ Len(got) + (k - Len(got)) = k
        BY <1>1, <1>2, <1>3, <3>2
      <4>2. issues[k - Len(got)] = list[Len(got) + (k - Len(got))]
        BY <1>4, <4>1 DEF IsAt
      <4>3. QED
        BY <1>1, <1>2, <1>3, <3>2, <4>1, <4>2
    <3>3. QED
      BY <1>1, <1>2, <1>3, <3>1, <3>2
  <2>3. QED
    BY <1>1, <1>2, <1>3, <2>1, <2>2 DEF IsAt
<1>5. QED
  BY <1>1, <1>2, <1>3, <1>4, EmptySeq DEF Answer

LEMMA AnswerShortPageKeepsInv == SearchInv /\ AnswerShortPage => SearchInv'
<1> SUFFICES ASSUME SearchInv, AnswerShortPage PROVE SearchInv'
  OBVIOUS
<1>1. /\ GetIssues \in Seq(Items)
      /\ Len(GetIssues) = IF startAt < Len(list)
                             THEN Lesser(startAt + maxResults, Len(list)) - startAt
                             ELSE 0
      /\ \A k \in 1..Len(GetIssues) : GetIssues[k] = list[startAt + k]
      /\ startAt \in Nat /\ maxResults \in Nat
  BY GetIssuesFacts DEF SearchInv
<1>2. /\ Len(list) \in Nat /\ Len(got) \in Nat /\ startAt = Len(got)
      /\ Len(GetIssues) \in Nat /\ expected \in Nat
  BY <1>1 DEF SearchInv, SearchPagingTypeOK, PageLoopTypeOK, startAt
<1>3. Answer(GetIssues, startAt + Len(GetIssues)) /\ UNCHANGED list
  BY DEF AnswerShortPage
<1>4. /\ got' \in Seq(Items) /\ page' \in Seq(Items)
      /\ Len(got') = Len(got) + Len(GetIssues)
      /\ size' \in Nat /\ total' \in Nat
      /\ phase' = "finished"
      /\ IsAt(got, 0) /\ IsAt(GetIssues, Len(got)) => IsAt(got, 0)'
  <2>1. startAt + Len(GetIssues) \in Nat
    BY <1>2
  <2> HIDE DEF IsAt, SearchInv
  <2>2. QED
    BY <1>1, <1>2, <1>3, <2>1, AnswerFacts
<1>5. steady => IsAt(GetIssues, Len(got)) /\ Len(got) + Len(GetIssues) = Len(list)
  BY <1>1, <1>2 DEF SearchInv, IsAt, AnswerShortPage, ShortPage, Lesser
<1>6. LoopInv'
  BY DEF AnswerShortPage, countVars, SearchInv, LoopInv, PageLoopTypeOK, CountIsBetween
<1>7. SearchPagingTypeOK'
  BY <1>4, <1>6 DEF AnswerShortPage, countVars, historyVars, SearchInv, LoopInv,
                    SearchPagingTypeOK, Phases
<1>8. steady' = steady /\ expected' = expected /\ list' = list
  BY DEF AnswerShortPage, historyVars
<1>9. steady => IsAt(got, 0)' /\ expected <= Len(list) /\ expected <= Len(got')
  BY <1>2, <1>4, <1>5 DEF SearchInv
<1>10. QED
  BY <1>4, <1>6, <1>7, <1>8, <1>9 DEF SearchInv, SyncIsComplete

LEMMA SearchFailsKeepsInv == SearchInv /\ SearchFails => SearchInv'
<1> SUFFICES ASSUME SearchInv, SearchFails PROVE SearchInv'
  OBVIOUS
<1>1. << >> \in Seq(Items) /\ Len(<< >>) = 0
  BY EmptySeq
<1>2. /\ got' = got /\ page' = << >> /\ size' = 0 /\ total' = 0
      /\ phase' = "finished" /\ failed' = TRUE
      /\ UNCHANGED <<list, countVars, asked, steady, expected>>
  <2>1. got \in Seq(Items) /\ Len(got) \in Nat
    BY DEF SearchInv, SearchPagingTypeOK
  <2>2. got \o << >> = got
    BY <2>1, ConcatEmptySeq
  <2>3. QED
    BY <1>1, <2>1, <2>2 DEF SearchFails, Answer
<1>3. LoopInv'
  BY <1>2 DEF countVars, SearchInv, LoopInv, PageLoopTypeOK, CountIsBetween
<1>4. SearchPagingTypeOK'
  BY <1>1, <1>2, <1>3
     DEF SearchFails, countVars, SearchInv, LoopInv, SearchPagingTypeOK, Phases
<1>5. QED
  BY <1>2, <1>3, <1>4 DEF SearchInv, IsAt, SyncIsComplete

-----------------------------------------------------------------------------
(* The steps of the count that accompanies a full page. *)
LEMMA CountFullPageKeepsInv == SearchInv /\ CountFullPage => SearchInv'
<1> SUFFICES ASSUME SearchInv, CountFullPage PROVE SearchInv'
  OBVIOUS
<1>1. /\ GetIssues \in Seq(Items)
      /\ Len(GetIssues) = IF startAt < Len(list)
                             THEN Lesser(startAt + maxResults, Len(list)) - startAt
                             ELSE 0
      /\ \A k \in 1..Len(GetIssues) : GetIssues[k] = list[startAt + k]
      /\ Len(GetIssues) <= maxResults
      /\ startAt \in Nat /\ maxResults \in Nat
  BY GetIssuesFacts DEF SearchInv
<1>2. /\ Len(list) \in Nat /\ Len(got) \in Nat /\ startAt = Len(got)
      /\ Len(GetIssues) \in Nat /\ expected \in Nat
  BY <1>1 DEF SearchInv, SearchPagingTypeOK, PageLoopTypeOK, startAt
<1>3. Begin /\ LoopInv'
  BY BeginKeepsInv DEF CountFullPage, SearchInv
<1>4. /\ page' = GetIssues /\ phase' = "counting" /\ at' = "asking"
      /\ smallest' = Len(list) /\ list' = list
      /\ UNCHANGED <<asked, got, size, total, historyVars>>
  BY DEF CountFullPage, Begin
<1>5. Len(GetIssues) = maxResults
  BY <1>1, <1>2 DEF CountFullPage, ShortPage
<1>6. SearchPagingTypeOK'
  BY <1>1, <1>3, <1>4, <1>5
     DEF historyVars, SearchInv, LoopInv, SearchPagingTypeOK, Phases, maxResults
<1>7. ASSUME steady
      PROVE  IsAt(GetIssues, Len(got))
  <2>1. Len(got) <= Len(list)
    BY <1>2, <1>7 DEF SearchInv, IsAt
  <2>2. Len(got) + Len(GetIssues) <= Len(list)
    BY <1>1, <1>2, <2>1 DEF Lesser
  <2>3. \A k \in 1..Len(GetIssues) : GetIssues[k] = list[Len(got) + k]
    BY <1>1, <1>2
  <2>4. QED
    BY <2>2, <2>3 DEF IsAt
<1>8. steady' = steady /\ expected' = expected /\ got' = got
  BY <1>4 DEF historyVars
<1>9. steady => IsAt(page, Len(got))' /\ IsAt(got, 0)'
  BY <1>4, <1>7, <1>8 DEF IsAt, SearchInv
<1>10. QED
  BY <1>3, <1>4, <1>6, <1>8, <1>9 DEF SearchInv, SyncIsComplete

LEMMA CountPageKeepsInv == SearchInv /\ CountPage => SearchInv'
<1> SUFFICES ASSUME SearchInv, CountPage PROVE SearchInv'
  OBVIOUS
<1>1. LoopInv'
  BY NextPageKeepsInv DEF CountPage, SearchInv
<1>2. UNCHANGED clientVars /\ UNCHANGED <<list, smallest>>
  BY DEF CountPage, NextPage
<1>3. at \in {"asking", "done"} /\ at' \in {"asking", "done"}
  BY DEF CountPage, NextPage
<1>4. QED
  BY <1>1, <1>2, <1>3
     DEF clientVars, SearchInv, LoopInv, SearchPagingTypeOK, IsAt, SyncIsComplete

LEMMA AnswerCountedKeepsInv == SearchInv /\ AnswerCounted => SearchInv'
<1> SUFFICES ASSUME SearchInv, AnswerCounted PROVE SearchInv'
  OBVIOUS
<1>1. /\ page \in Seq(Items) /\ Len(page) \in Nat /\ Len(got) \in Nat
      /\ fetched \in Nat /\ smallest \in Nat /\ expected \in Nat
      /\ smallest <= fetched
  BY DEF SearchInv, SearchPagingTypeOK, LoopInv, PageLoopTypeOK, CountIsBetween,
         AnswerCounted
<1>2. Answer(page, fetched) /\ UNCHANGED list
  BY DEF AnswerCounted
<1>3. /\ got' \in Seq(Items) /\ page' \in Seq(Items)
      /\ Len(got') = Len(got) + Len(page)
      /\ size' \in Nat /\ total' \in Nat
      /\ phase' = IF Len(got) + Len(page) >= fetched THEN "finished" ELSE "ready"
      /\ IsAt(got, 0) /\ IsAt(page, Len(got)) => IsAt(got, 0)'
  <2> HIDE DEF IsAt, SearchInv
  <2>1. QED
    BY <1>1, <1>2, AnswerFacts
<1>4. LoopInv'
  BY DEF AnswerCounted, SearchInv, LoopInv, PageLoopTypeOK, CountIsBetween
<1>5. SearchPagingTypeOK'
  BY <1>3, <1>4 DEF AnswerCounted, historyVars, SearchInv, LoopInv,
                    SearchPagingTypeOK, Phases
<1>6. phase = "counting" /\ steady' = steady /\ expected' = expected /\ list' = list
  BY DEF AnswerCounted, historyVars
<1>7. steady => IsAt(got, 0)' /\ expected <= Len(list) /\ expected <= fetched
  BY <1>1, <1>3, <1>6 DEF SearchInv
<1>8. phase' = "finished" => Len(got') >= fetched
  BY <1>1, <1>3
<1>9. QED
  BY <1>1, <1>3, <1>4, <1>5, <1>6, <1>7, <1>8 DEF SearchInv, SyncIsComplete

LEMMA CountFailsKeepsInv == SearchInv /\ CountFails => SearchInv'
<1> SUFFICES ASSUME SearchInv, CountFails PROVE SearchInv'
  OBVIOUS
<1>1. page \in Seq(Items) /\ startAt + Len(page) \in Nat
  BY DEF SearchInv, SearchPagingTypeOK, startAt
<1>2. Answer(page, startAt + Len(page)) /\ UNCHANGED list
  BY DEF CountFails, PageFails
<1>3. /\ got' \in Seq(Items) /\ page' \in Seq(Items)
      /\ size' \in Nat /\ total' \in Nat
      /\ phase' \in {"finished", "ready"}
      /\ IsAt(got, 0) /\ IsAt(page, Len(got)) => IsAt(got, 0)'
  <2> HIDE DEF IsAt, SearchInv
  <2>1. QED
    BY <1>1, <1>2, AnswerFacts
<1>4. LoopInv'
  BY PageFailsKeepsInv DEF CountFails, SearchInv
<1>5. SearchPagingTypeOK'
  BY <1>3, <1>4 DEF CountFails, PageFails, SearchInv, LoopInv, SearchPagingTypeOK, Phases
<1>6. /\ phase = "counting" /\ failed' = TRUE
      /\ steady' = steady /\ expected' = expected /\ list' = list
  BY DEF CountFails, PageFails, SearchInv, SearchPagingTypeOK
<1>7. steady => IsAt(got, 0)' /\ expected <= Len(list)
  BY <1>3, <1>6 DEF SearchInv
<1>8. QED
  BY <1>3, <1>4, <1>5, <1>6, <1>7 DEF SearchInv, SyncIsComplete

LEMMA CountBusyKeepsInv == SearchInv /\ CountBusy => SearchInv'
<1> SUFFICES ASSUME SearchInv, CountBusy PROVE SearchInv'
  OBVIOUS
<1>1. LoopInv'
  BY PageFailsKeepsInv DEF CountBusy, SearchInv
<1>2. << >> \in Seq(Items)
  BY EmptySeq
<1>3. /\ phase' = "ready" /\ at' = "failed" /\ list' = list
      /\ UNCHANGED <<asked, got, size, total, failed, steady, expected>>
  BY DEF CountBusy, PageFails, historyVars
<1>4. SearchPagingTypeOK'
  BY <1>1, <1>2, <1>3 DEF CountBusy, SearchInv, LoopInv, SearchPagingTypeOK, Phases
<1>5. QED
  BY <1>1, <1>3, <1>4 DEF SearchInv, IsAt, SyncIsComplete

-----------------------------------------------------------------------------
(* What others do to the issues. *)
LEMMA CreatedStaysAt ==
  ASSUME list \in Seq(Items), NEW x \in Items, IssueCreated(x),
         NEW s \in Seq(Items), NEW n \in Nat
  PROVE  /\ Len(list') = Len(list) + 1
         /\ IsAt(s, n) => n + Len(s) <= Len(list')
                          /\ \A k \in 1..Len(s) : s[k] = list'[n + k]
<1>1. /\ Len(list) \in Nat /\ Len(s) \in Nat
      /\ Len(list) + 1 \in 1..(Len(list) + 1)
  OBVIOUS
<1> DEFINE end == Len(list) + 1
           longer == InsertAt(list, end, x)
<1>2. /\ Len(longer) = Len(list) + 1
      /\ \A k \in 1..(Len(list) + 1) :
           longer[k] = IF k < end THEN list[k] ELSE IF k = end THEN x ELSE list[k - 1]
  <2>1. \A i \in 1..(Len(list) + 1) :
          /\ Len(InsertAt(list, i, x)) = Len(list) + 1
          /\ \A k \in 1..(Len(list) + 1) :
               InsertAt(list, i, x)[k] =
                 IF k < i THEN list[k] ELSE IF k = i THEN x ELSE list[k - 1]
    BY InsertAtFacts
  <2>2. QED
    BY <1>1, <2>1
<1>3. list' = longer
  BY DEF IssueCreated, ItemAppears, Changed
<1> HIDE DEF longer
<1>4. \A k \in 1..Len(list) : list'[k] = list[k]
  BY <1>1, <1>2, <1>3
<1>5. QED
  BY <1>1, <1>2, <1>3, <1>4 DEF IsAt

LEMMA ChangesKeepSearchInv == SearchInv /\ ResultChanges => SearchInv'
<1> SUFFICES ASSUME SearchInv, ResultChanges PROVE SearchInv'
  OBVIOUS
<1>1. /\ list \in Seq(Items) /\ Len(list) \in Nat
      /\ got \in Seq(Items) /\ page \in Seq(Items)
      /\ Len(got) \in Nat /\ expected \in Nat /\ smallest \in Nat
  BY DEF SearchInv, SearchPagingTypeOK, LoopInv, PageLoopTypeOK
<1>2. ListChanges
  <2>1. CASE ResultShifts
    <3>1. 1..Len(list) \subseteq 1..(Len(list) + 1)
      BY <1>1
    <3>2. QED
      BY <2>1, <3>1 DEF ResultShifts, ListChanges
  <2>2. ASSUME NEW x \in Items, IssueCreated(x)
        PROVE  ListChanges
    <3>1. Len(list) + 1 \in 1..(Len(list) + 1)
      BY <1>1
    <3>2. QED
      BY <2>2, <3>1 DEF IssueCreated, ListChanges
  <2>3. QED
    BY <2>1, <2>2 DEF ResultChanges
<1>3. LoopInv'
  BY <1>2, ChangesKeepInv DEF ResultChanges, answerVars, SearchInv
<1>4. UNCHANGED <<at, phase, asked, page, got, size, total, failed, expected>>
  BY DEF ResultChanges
<1>5. steady' \in BOOLEAN
  BY DEF ResultChanges, ResultShifts, IssueCreated, SearchInv, SearchPagingTypeOK
<1>6. SearchPagingTypeOK'
  BY <1>3, <1>4, <1>5 DEF SearchInv, LoopInv, SearchPagingTypeOK
<1>7. CASE ResultShifts
  <2>1. steady' = FALSE
    BY <1>7 DEF ResultShifts
  <2>2. QED
    BY <1>3, <1>6, <2>1 DEF SearchInv, SyncIsComplete
<1>8. ASSUME NEW x \in Items, IssueCreated(x)
      PROVE  SearchInv'
  <2>1. /\ Len(list') = Len(list) + 1
        /\ IsAt(got, 0) => IsAt(got, 0)'
        /\ IsAt(page, Len(got)) => IsAt(page, Len(got))'
    BY <1>1, <1>4, <1>8, CreatedStaysAt DEF IsAt
  <2>2. steady' = steady /\ Changed(list')
    BY <1>8 DEF IssueCreated, ItemAppears, Changed
  <2>3. phase = "counting" /\ steady => expected <= smallest'
    BY <1>1, <2>1, <2>2 DEF SearchInv, Changed, Lesser
  <2>4. QED
    BY <1>1, <1>3, <1>4, <1>6, <2>1, <2>2, <2>3 DEF SearchInv, SyncIsComplete
<1>9. QED
  BY <1>7, <1>8 DEF ResultChanges

-----------------------------------------------------------------------------
(* Paging keeps its invariant. *)
THEOREM PagingIsSafe == PagingSpec => []SearchInv
<1>1. SearchInv /\ UNCHANGED pagingVars => SearchInv'
  BY DEF pagingVars, SearchInv, LoopInv, SearchPagingTypeOK, PageLoopTypeOK,
         CountIsBetween, IsAt, SyncIsComplete
<1>2. SearchInv /\ [PagingNext]_pagingVars => SearchInv'
  BY <1>1, StartSyncKeepsInv, AskForKeepsInv, AnswerShortPageKeepsInv,
     CountFullPageKeepsInv, CountPageKeepsInv, AnswerCountedKeepsInv,
     SearchFailsKeepsInv, CountFailsKeepsInv, SearchBusyKeepsInv,
     CountBusyKeepsInv, ChangesKeepSearchInv
     DEF PagingNext
<1>3. QED
  BY <1>2, SearchInvInit, PTL DEF PagingSpec

(* The state of a search is of its type: a page that is being counted is   *)
(* full, and the count runs exactly while the client waits for it.         *)
THEOREM PagingIsTyped == PagingSpec => []SearchPagingTypeOK
<1>1. SearchInv => SearchPagingTypeOK
  BY DEF SearchInv
<1>2. QED
  BY <1>1, PagingIsSafe, PTL

(* As long as issues only come at the end, whatever fails: the pages make  *)
(* a gapless beginning of the list, without repetitions.                   *)
THEOREM PagesAreContiguous == PagingSpec => []NoGapsNoRepeats
<1>1. SearchInv => NoGapsNoRepeats
  <2> SUFFICES ASSUME SearchInv, steady PROVE IsPrefix(got, list)
    BY DEF NoGapsNoRepeats
  <2>1. /\ got \in Seq(Items) /\ list \in Seq(Items)
        /\ Len(got) <= Len(list)
        /\ \A k \in 1..Len(got) : got[k] = list[k]
    BY DEF SearchInv, SearchPagingTypeOK, PageLoopTypeOK, IsAt
  <2>2. SubSeq(got, 1, Len(got)) = [k \in 1..Len(got) |-> got[k]]
    BY <2>1, SubSeqRestrict
  <2>3. SubSeq(list, 1, Len(got)) = [k \in 1..Len(got) |-> list[k]]
    BY <2>1, SubSeqRestrict
  <2>4. SubSeq(got, 1, Len(got)) = SubSeq(list, 1, Len(got))
    BY <2>1, <2>2, <2>3
  <2>5. QED
    BY <2>1, <2>4 DEF IsPrefix
<1>2. QED
  BY <1>1, PagingIsSafe, PTL

(* If nothing failed either, a client that stops has all that was there    *)
(* when it began, however the counts were made.                            *)
THEOREM SyncsAreComplete == PagingSpec => []SyncIsComplete
<1>1. SearchInv => SyncIsComplete
  BY DEF SearchInv
<1>2. QED
  BY <1>1, PagingIsSafe, PTL
=============================================================================
