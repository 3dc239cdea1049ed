------------------------------ MODULE PageLoop ------------------------------
(***************************************************************************)
(* The loop of GetProjects and CountIssues (client/youtrack.go): pages of  *)
(* a list kept by YouTrack are asked for one after the other, by position, *)
(* until one is not full.  The list changes between the calls.  What is    *)
(* done with the items of a page is left to the modules that use this one. *)
(*                                                                         *)
(* Items are the IDs that may be in the list, PageSize is pageSize (100)   *)
(* of GetProjects or batch (10000) of CountIssues.                         *)
(***************************************************************************)
EXTENDS Naturals, Sequences, FiniteSets, SequencesExt

CONSTANTS Items, PageSize

ASSUME PageSizeAssumption == PageSize \in Nat \ {0}

VARIABLES
  list,      \* the list at YouTrack, in the order of its answers
  at,        \* where the loop is: "idle", "asking", "done", "failed"
  skip,      \* the number of items the next page skips
  fetched,   \* the items on all pages so far: the total of CountIssues
  smallest,  \* history: the smallest and the largest length of the list
  largest    \*   while the loop was asking

answerVars == <<at, skip, fetched>>
loopVars == <<list, at, skip, fetched, smallest, largest>>

Lesser(m, n) == IF m < n THEN m ELSE n
Greater(m, n) == IF m < n THEN n ELSE m

(* All pages but the last are full, so while asking skip counts them too. *)
PageLoopTypeOK ==
  /\ list \in Seq(Items)
  /\ at \in {"idle", "asking", "done", "failed"}
  /\ skip \in Nat /\ fetched \in Nat
  /\ smallest \in Nat /\ largest \in Nat
  /\ at = "asking" => /\ fetched = skip
                      /\ smallest <= Len(list) /\ Len(list) <= largest

-----------------------------------------------------------------------------
(* YouTrack's answer to $skip and $top; a page that is not full is the     *)
(* last.                                                                   *)
Page == SubSeq(list, skip + 1, Lesser(skip + PageSize, Len(list)))

(* Seeded fault: a full page is taken for the last one. *)
LastUnlessLonger == Len(Page) <= PageSize

LastPage == Len(Page) < PageSize

PageLoopInit ==
  /\ list = << >>
  /\ at = "idle" /\ skip = 0 /\ fetched = 0
  /\ smallest = 0 /\ largest = 0

Begin ==
  /\ at # "asking"
  /\ at' = "asking" /\ skip' = 0 /\ fetched' = 0
  /\ smallest' = Len(list) /\ largest' = Len(list)
  /\ UNCHANGED list

(* Seeded fault: pages are skipped by number. *)
NextPageByNumber ==
  /\ at = "asking"
  /\ fetched' = fetched + Len(Page)
  /\ IF LastPage THEN at' = "done" /\ UNCHANGED skip
                 ELSE skip' = skip + 1 /\ UNCHANGED at
  /\ UNCHANGED <<list, smallest, largest>>

NextPage ==
  /\ at = "asking"
  /\ fetched' = fetched + Len(Page)
  /\ IF LastPage THEN at' = "done" /\ UNCHANGED skip
                 ELSE skip' = skip + PageSize /\ UNCHANGED at
  /\ UNCHANGED <<list, smallest, largest>>

(* Seeded fault: after a failure the loop starts again. *)
PageFailsAgain ==
  /\ at = "asking"
  /\ skip' = 0 /\ fetched' = 0
  /\ UNCHANGED <<list, at, smallest, largest>>

(* A page that cannot be had or decoded ends the loop without a result. *)
PageFails ==
  /\ at = "asking"
  /\ at' = "failed" /\ fetched' = 0
  /\ UNCHANGED <<list, skip, smallest, largest>>

-----------------------------------------------------------------------------
(* Other users of YouTrack create, delete and rename: an item comes into   *)
(* the list before its i-th, the i-th goes, or it moves to place j.        *)
Changed(l) ==
  /\ list' = l
  /\ IF at = "asking"
       THEN /\ smallest' = Lesser(smallest, Len(l))
            /\ largest' = Greater(largest, Len(l))
       ELSE UNCHANGED <<smallest, largest>>

ItemAppears(i, x) == x \notin Range(list) /\ Changed(InsertAt(list, i, x))
ItemGoes(i) == Changed(RemoveAt(list, i))
ItemMoves(i, j) == Changed(InsertAt(RemoveAt(list, i), j, list[i]))

ListChanges ==
  \/ \E i \in 1..(Len(list) + 1), x \in Items : ItemAppears(i, x)
  \/ \E i \in 1..Len(list) : ItemGoes(i)
  \/ \E i \in 1..Len(list), j \in 1..Len(list) : ItemMoves(i, j)

LoopNext ==
  \/ Begin \/ NextPage \/ PageFails
  \/ ListChanges /\ UNCHANGED answerVars

LoopSpec == PageLoopInit /\ [][LoopNext]_loopVars

-----------------------------------------------------------------------------
(* The total that CountIssues returns is no less than the smallest and no  *)
(* more than the largest number of matching issues while it was counting,  *)
(* although no two of its pages need show the same list.                   *)
CountIsBetween ==
  at = "done" => smallest <= fetched /\ fetched <= largest

(* The loop comes to an end, however the list changes, as long as it does  *)
(* not grow for ever.                                                      *)
LoopEnds == at = "asking" ~> at # "asking"
=============================================================================
