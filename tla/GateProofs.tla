----------------------------- MODULE GateProofs -----------------------------
(***************************************************************************)
(* Proofs about the concurrency gate, for every finite set of callers and  *)
(* every YT_MAX_CONCURRENCY.  The inductive invariant is the conjunction   *)
(* of the invariants that TLC checks: accounting for the slots needs the   *)
(* list to hold exactly the blocked callers, and serving one waiter at a   *)
(* time needs that nobody waits while a slot is free.                      *)
(***************************************************************************)
EXTENDS GateRefinement, FiniteSetTheorems, SequenceTheorems, TLAPS

GateInv ==
  /\ GateTypeOK
  /\ SlotsAccounted
  /\ WorkConserving
  /\ ListIsTheBlocked

(* The slots s owes, and the relation of a waiter list q to s. *)
OwnersIn(s) == {c \in Callers : s[c] \in {"ready", "held"}}
ListMatches(q, s) ==
  /\ {q[i] : i \in 1..Len(q)} = {c \in Callers : s[c] = "queued"}
  /\ \A i, j \in 1..Len(q) : q[i] = q[j] => i = j

-----------------------------------------------------------------------------
(* Taking the i-th waiter out of a duplicate-free list leaves a            *)
(* duplicate-free list of all the other waiters.                           *)
LEMMA WithoutProperties ==
  ASSUME NEW q \in Seq(Callers), NEW i \in 1..Len(q),
         \A j, k \in 1..Len(q) : q[j] = q[k] => j = k
  PROVE  /\ Without(q, i) \in Seq(Callers)
         /\ Len(Without(q, i)) = Len(q) - 1
         /\ \A j, k \in 1..(Len(q) - 1) :
              Without(q, i)[j] = Without(q, i)[k] => j = k
         /\ {Without(q, i)[j] : j \in 1..(Len(q) - 1)}
              = {q[j] : j \in 1..Len(q)} \ {q[i]}
<1> DEFINE w == Without(q, i)
<1>1. /\ Len(q) \in Nat
      /\ \A j \in 1..Len(q) : q[j] \in Callers
  BY ElementOfSeq, LenProperties
<1>2. /\ w \in [1..(Len(q) - 1) -> Callers]
      /\ \A j \in 1..(Len(q) - 1) : w[j] = IF j < i THEN q[j] ELSE q[j + 1]
  BY <1>1 DEF Without
<1>3. w \in Seq(Callers) /\ Len(w) = Len(q) - 1
  BY <1>1, <1>2, SeqDef, LenProperties
<1>4. ASSUME NEW j \in 1..(Len(q) - 1), NEW k \in 1..(Len(q) - 1), w[j] = w[k]
      PROVE  j = k
  BY <1>1, <1>2, <1>4
<1>5. {w[j] : j \in 1..(Len(q) - 1)} \subseteq {q[j] : j \in 1..Len(q)} \ {q[i]}
  BY <1>1, <1>2
<1>6. ASSUME NEW j \in 1..Len(q), q[j] # q[i]
      PROVE  \E k \in 1..(Len(q) - 1) : w[k] = q[j]
  <2>1. CASE j < i
    BY <1>1, <1>2, <2>1
  <2>2. CASE j > i
    <3>1. j - 1 \in 1..(Len(q) - 1) /\ ~(j - 1 < i) /\ (j - 1) + 1 = j
      BY <1>1, <2>2
    <3>2. w[j - 1] = q[j]
      BY <1>2, <3>1
    <3> QED BY <3>1, <3>2
  <2> QED BY <1>1, <1>6, <2>1, <2>2
<1>7. {w[j] : j \in 1..(Len(q) - 1)} = {q[j] : j \in 1..Len(q)} \ {q[i]}
  <2> HIDE DEF w
  <2>1. \A x \in {q[j] : j \in 1..Len(q)} \ {q[i]} :
          x \in {w[j] : j \in 1..(Len(q) - 1)}
    BY <1>6
  <2> QED BY <1>5, <2>1
<1> QED BY <1>3, <1>4, <1>7

(* notifyWaiters restores the invariant when at most one slot became free. *)
LEMMA NotifyRestores ==
  ASSUME NEW n \in Nat, NEW q \in Seq(Callers), NEW s \in [Callers -> Slots],
         n <= MaxConcurrency,
         q # <<>> => MaxConcurrency - 1 <= n,
         n = Cardinality(OwnersIn(s)),
         ListMatches(q, s),
         NotifyWaiters(n, q, s)
  PROVE  /\ cur' \in Nat /\ waiters' \in Seq(Callers)
         /\ slot' \in [Callers -> Slots]
         /\ SlotsAccounted'
         /\ WorkConserving'
         /\ ListIsTheBlocked'
         /\ \A c \in Callers : slot'[c] = s[c] \/ slot'[c] = "ready"
<1> DEFINE k == Served(n, q)
<1>1. Len(q) \in Nat /\ MaxConcurrency \in Nat \ {0}
      /\ (q = <<>> <=> Len(q) = 0)
      /\ \A j \in 1..Len(q) : q[j] \in Callers
  BY EmptySeq, LenProperties, ElementOfSeq, MaxConcurrencyAssumption
<1>2. k \in {0, 1} /\ k <= Len(q) /\ n + k <= MaxConcurrency
      /\ (k = 0 => q = <<>> \/ n = MaxConcurrency)
      /\ (k = 1 => n + 1 = MaxConcurrency \/ Len(q) = 1)
      /\ (k = 1 => 1 \in 1..Len(q))
  <2>1. CASE Len(q) = 0
    <3>1. k = 0
      BY <1>1, <2>1 DEF Served
    <3> QED BY <1>1, <2>1, <3>1
  <2>2. CASE Len(q) # 0 /\ n = MaxConcurrency
    <3>1. k = 0
      BY <1>1, <2>2 DEF Served
    <3> QED BY <1>1, <2>2, <3>1
  <2>3. CASE Len(q) # 0 /\ n # MaxConcurrency
    <3>1. n + 1 = MaxConcurrency /\ Len(q) >= 1
      BY <1>1, <2>3
    <3>2. k = IF 1 < Len(q) THEN 1 ELSE Len(q)
      <4>1. MaxConcurrency - n = 1
        BY <1>1, <3>1
      <4> QED BY <4>1 DEF Served
    <3>3. k = 1
      <4> HIDE DEF k
      <4>1. 1 < Len(q) \/ Len(q) = 1
        <5>1. \A m \in Nat : m >= 1 => 1 < m \/ m = 1
          OBVIOUS
        <5>2. Len(q) \in Nat /\ Len(q) >= 1
          BY <1>1, <3>1
        <5> QED BY <5>1, <5>2
      <4>2. CASE 1 < Len(q)
        BY <3>2, <4>2
      <4>3. CASE Len(q) = 1
        BY <3>2, <4>3
      <4> QED BY <4>1, <4>2, <4>3
    <3> QED BY <1>1, <3>1, <3>3
  <2> QED BY <2>1, <2>2, <2>3
<1>3. /\ cur' = n + k
      /\ waiters' = SubSeq(q, k + 1, Len(q))
      /\ slot' = [d \in Callers |-> IF \E i \in 1..k : q[i] = d
                                    THEN "ready" ELSE s[d]]
  BY DEF NotifyWaiters
<1>4. /\ waiters' \in Seq(Callers)
      /\ Len(waiters') = Len(q) - k
      /\ \A i \in 1..(Len(q) - k) : waiters'[i] = q[i + k]
  <2>1. k + 1 \in Int /\ Len(q) \in Int
        /\ \A i \in (k + 1)..Len(q) : q[i] \in Callers
    BY <1>1, <1>2
  <2>2. /\ SubSeq(q, k + 1, Len(q)) \in Seq(Callers)
        /\ Len(SubSeq(q, k + 1, Len(q)))
             = IF k + 1 <= Len(q) THEN Len(q) - (k + 1) + 1 ELSE 0
        /\ \A i \in 1..(Len(q) - (k + 1) + 1) :
             SubSeq(q, k + 1, Len(q))[i] = q[(k + 1) + i - 1]
    BY <2>1, SubSeqProperties
  <2> HIDE DEF k
  <2>3. Len(waiters') = Len(q) - k /\ Len(q) - (k + 1) + 1 = Len(q) - k
    BY <1>1, <1>2, <1>3, <2>2
  <2>4. ASSUME NEW i \in 1..(Len(q) - k) PROVE waiters'[i] = q[i + k]
    <3>1. (k + 1) + i - 1 = i + k
      BY <1>1, <1>2
    <3> QED BY <1>3, <2>2, <2>3, <3>1
  <2> QED BY <1>3, <2>2, <2>3, <2>4
<1>5. slot' \in [Callers -> Slots]
      /\ \A c \in Callers : slot'[c] = s[c] \/ slot'[c] = "ready"
  BY <1>3 DEF Slots, Waiting
<1>6. IsFiniteSet(OwnersIn(s))
  BY CallersAssumption, FS_Subset DEF OwnersIn
<1>7. SlotsAccounted'
  <2>1. CASE k = 0
    <3>1. Owners' = OwnersIn(s)
      BY <1>3, <2>1 DEF Owners, OwnersIn
    <3> QED BY <1>2, <1>3, <2>1, <3>1 DEF SlotsAccounted
  <2>2. CASE k = 1
    <3>1. q[1] \in Callers /\ s[q[1]] = "queued"
      BY <1>1, <1>2, <2>2 DEF ListMatches
    <3>2. Owners' = OwnersIn(s) \cup {q[1]} /\ q[1] \notin OwnersIn(s)
      <4>1. \A d \in Callers :
              slot'[d] = IF q[1] = d THEN "ready" ELSE s[d]
        BY <1>3, <2>2
      <4> QED BY <3>1, <4>1 DEF Owners, OwnersIn
    <3>3. Cardinality(Owners') = n + 1
      BY <1>6, <3>2, FS_AddElement
    <3> QED BY <1>2, <1>3, <2>2, <3>3 DEF SlotsAccounted
  <2> QED BY <1>2, <2>1, <2>2
<1>8. WorkConserving'
  <2>1. waiters' # <<>> => Len(waiters') # 0
    BY <1>4, EmptySeq
  <2> QED BY <1>1, <1>2, <1>3, <1>4, <2>1 DEF WorkConserving
<1>9. ListIsTheBlocked'
  <2>1. CASE k = 0
    <3>1. /\ \A c \in Callers : slot'[c] = s[c]
          /\ Len(waiters') = Len(q)
          /\ \A i \in 1..Len(q) : waiters'[i] = q[i]
      BY <1>1, <1>3, <1>4, <2>1
    <3> QED BY <3>1 DEF ListMatches, ListIsTheBlocked
  <2>2. CASE k = 1
    <3>1. \A d \in Callers : slot'[d] = IF q[1] = d THEN "ready" ELSE s[d]
      BY <1>3, <2>2
    <3>2. /\ Len(waiters') = Len(q) - 1
          /\ \A i \in 1..(Len(q) - 1) : waiters'[i] = q[i + 1]
      BY <1>4, <2>2
    <3>3. \A i, j \in 1..Len(waiters') : waiters'[i] = waiters'[j] => i = j
      <4>1. \A i \in 1..Len(waiters') :
              i + 1 \in 1..Len(q) /\ waiters'[i] = q[i + 1] /\ i \in Int
        BY <1>1, <1>2, <2>2, <3>2
      <4> QED BY <4>1 DEF ListMatches
    <3>4. \A i \in 1..Len(waiters') :
            waiters'[i] \in Callers /\ slot'[waiters'[i]] = "queued"
      <4> TAKE i \in 1..Len(waiters')
      <4>1. i + 1 \in 1..Len(q) /\ waiters'[i] = q[i + 1] /\ i + 1 # 1
        BY <1>1, <1>2, <2>2, <3>2
      <4>2. q[i + 1] # q[1]
        BY <1>2, <2>2, <4>1 DEF ListMatches
      <4>3. q[i + 1] \in Callers /\ s[q[i + 1]] = "queued"
        BY <1>1, <4>1 DEF ListMatches
      <4> QED BY <3>1, <4>1, <4>2, <4>3
    <3>5. ASSUME NEW c \in Callers, slot'[c] = "queued"
          PROVE  \E i \in 1..Len(waiters') : waiters'[i] = c
      <4>1. s[c] = "queued" /\ q[1] # c
        BY <3>1, <3>5
      <4>2. PICK j \in 1..Len(q) : q[j] = c
        BY <4>1 DEF ListMatches
      <4>3. j - 1 \in 1..(Len(q) - 1) /\ (j - 1) + 1 = j
        BY <1>1, <4>1, <4>2
      <4> QED BY <3>2, <4>2, <4>3
    <3> QED BY <3>3, <3>4, <3>5 DEF ListIsTheBlocked
  <2> QED BY <1>2, <2>1, <2>2
<1> QED BY <1>2, <1>3, <1>4, <1>5, <1>7, <1>8, <1>9

-----------------------------------------------------------------------------
(* The initial state satisfies the invariant. *)
LEMMA InitInv == GateInit => GateInv
<1> SUFFICES ASSUME GateInit PROVE GateInv
  OBVIOUS
<1>1. GateTypeOK
  BY EmptySeq DEF GateInit, GateTypeOK, Slots
<1>2. Owners = {} /\ cur = 0
  BY DEF GateInit, Owners
<1>3. SlotsAccounted
  BY <1>2, FS_EmptySet, MaxConcurrencyAssumption DEF SlotsAccounted
<1>4. WorkConserving /\ ListIsTheBlocked
  BY DEF GateInit, WorkConserving, ListIsTheBlocked
<1> QED BY <1>1, <1>3, <1>4 DEF GateInv

(* A caller that gives a slot back, by release or because its timer fired  *)
(* first, leaves the premises of NotifyRestores.                           *)
LEMMA GiveBack ==
  ASSUME GateInv, NEW c \in Callers, slot[c] \in {"ready", "held"},
         NotifyWaiters(cur - 1, waiters, Leave(c)),
         CancelTimer(c)
  PROVE  GateInv'
<1> DEFINE s == Leave(c)
<1> USE DEF GateInv
<1>1. cur \in Nat /\ cur = Cardinality(Owners) /\ cur <= MaxConcurrency
  BY DEF GateTypeOK, SlotsAccounted
<1>2. IsFiniteSet(Owners) /\ c \in Owners
  BY CallersAssumption, FS_Subset DEF Owners
<1>3. s \in [Callers -> Slots] /\ OwnersIn(s) = Owners \ {c}
  BY DEF GateTypeOK, Leave, Slots, OwnersIn, Owners
<1>4. Cardinality(OwnersIn(s)) = cur - 1
  BY <1>1, <1>2, <1>3, FS_RemoveElement
<1>5. cur - 1 \in Nat
  BY <1>2, <1>3, <1>4, FS_Subset, FS_CardinalityType, FS_RemoveElement
<1>6. ListMatches(waiters, s)
  <2>1. {d \in Callers : s[d] = "queued"} = {d \in Callers : slot[d] = "queued"}
    BY DEF GateTypeOK, Leave
  <2> QED BY <2>1 DEF ListMatches, ListIsTheBlocked
<1>7. cur - 1 <= MaxConcurrency
      /\ (waiters # <<>> => MaxConcurrency - 1 <= cur - 1)
  BY <1>1, MaxConcurrencyAssumption DEF WorkConserving
<1>8. /\ cur' \in Nat /\ waiters' \in Seq(Callers)
      /\ slot' \in [Callers -> Slots]
      /\ SlotsAccounted' /\ WorkConserving' /\ ListIsTheBlocked'
  BY <1>3, <1>4, <1>5, <1>6, <1>7, NotifyRestores DEF GateTypeOK
<1>9. late' \in [Callers -> BOOLEAN]
  BY DEF CancelTimer, GateTypeOK
<1> QED BY <1>8, <1>9 DEF GateTypeOK

(* A step that moves one caller that is neither queued nor an owner to     *)
(* another such place, or only touches the timers, preserves the invariant.*)
LEMMA BookkeepingKeeps ==
  ASSUME GateInv, UNCHANGED <<cur, waiters>>,
         slot' \in [Callers -> Slots], late' \in [Callers -> BOOLEAN],
         \A d \in Callers :
            \/ slot'[d] = slot[d]
            \/ {slot[d], slot'[d]} \subseteq {"idle", "entering"}
            \/ {slot[d], slot'[d]} \subseteq {"ready", "held"}
  PROVE  GateInv'
<1>1. Owners' = Owners
  BY DEF Owners
<1>2. {d \in Callers : slot'[d] = "queued"} = {d \in Callers : slot[d] = "queued"}
  OBVIOUS
<1>3. GateTypeOK'
  BY DEF GateInv, GateTypeOK
<1>4. SlotsAccounted' /\ WorkConserving'
  BY <1>1 DEF GateInv, SlotsAccounted, WorkConserving
<1>5. ListIsTheBlocked'
  BY <1>2 DEF GateInv, ListIsTheBlocked
<1> QED BY <1>3, <1>4, <1>5 DEF GateInv

(* Every action preserves the invariant. *)
LEMMA NextInv == GateInv /\ [GateNext]_gateVars => GateInv'
<1> SUFFICES ASSUME GateInv, [GateNext]_gateVars PROVE GateInv'
  OBVIOUS
<1> USE DEF GateInv
<1>0. /\ cur \in Nat /\ waiters \in Seq(Callers)
      /\ slot \in [Callers -> Slots] /\ late \in [Callers -> BOOLEAN]
      /\ Len(waiters) \in Nat
  BY LenProperties DEF GateTypeOK
<1>1. ASSUME NEW c \in Callers, Enter(c) PROVE GateInv'
  BY <1>0, <1>1, BookkeepingKeeps DEF Enter, Slots, Waiting
<1>2. ASSUME NEW c \in Callers, QueueTimer(c) PROVE GateInv'
  BY <1>0, <1>2, BookkeepingKeeps DEF QueueTimer
<1>3. ASSUME NEW c \in Callers, RefuseAtEntry(c) PROVE GateInv'
  BY <1>0, <1>3, BookkeepingKeeps
     DEF RefuseAtEntry, Leave, CancelTimer, Slots
<1>4. ASSUME NEW c \in Callers, TakeFreeSlot(c) PROVE GateInv'
  <2> USE <1>4 DEF TakeFreeSlot
  <2>1. Owners' = Owners \cup {c} /\ c \notin Owners
    BY <1>0 DEF Owners
  <2>2. IsFiniteSet(Owners)
    BY CallersAssumption, FS_Subset DEF Owners
  <2>3. SlotsAccounted'
    <3>1. Cardinality(Owners') = Cardinality(Owners) + 1
      BY <2>1, <2>2, FS_AddElement
    <3> QED BY <1>0, <3>1, MaxConcurrencyAssumption DEF SlotsAccounted
  <2>4. {d \in Callers : slot'[d] = "queued"} = {d \in Callers : slot[d] = "queued"}
    BY <1>0
  <2>5. ListIsTheBlocked' /\ WorkConserving'
    BY <2>4 DEF ListIsTheBlocked, WorkConserving
  <2>6. GateTypeOK'
    BY <1>0 DEF GateTypeOK, Slots
  <2> QED BY <2>3, <2>5, <2>6
<1>5. ASSUME NEW c \in Callers, Enqueue(c) PROVE GateInv'
  <2> USE <1>5 DEF Enqueue
  <2>1. /\ waiters' \in Seq(Callers) /\ Len(waiters') = Len(waiters) + 1
        /\ \A i \in 1..Len(waiters) : waiters'[i] = waiters[i]
        /\ waiters'[Len(waiters) + 1] = c
    BY <1>0, AppendProperties
  <2>2. slot' = [slot EXCEPT ![c] = "queued"] /\ slot[c] = "entering"
    OBVIOUS
  <2>3. GateTypeOK'
    BY <1>0, <2>1 DEF GateTypeOK, Slots, Waiting
  <2>4. Owners' = Owners
    BY <1>0, <2>2 DEF Owners
  <2>5. SlotsAccounted'
    BY <2>4 DEF SlotsAccounted
  <2>6. WorkConserving'
    BY <1>0, MaxConcurrencyAssumption DEF WorkConserving, SlotsAccounted
  <2>7. \A i \in 1..Len(waiters) : waiters[i] # c
    BY <2>2 DEF ListIsTheBlocked
  <2>8. \A i, j \in 1..Len(waiters') : waiters'[i] = waiters'[j] => i = j
    BY <1>0, <2>1, <2>7 DEF ListIsTheBlocked
  <2>9. {waiters'[i] : i \in 1..Len(waiters')}
          = {waiters[i] : i \in 1..Len(waiters)} \cup {c}
    BY <1>0, <2>1
  <2>10. {d \in Callers : slot'[d] = "queued"}
           = {d \in Callers : slot[d] = "queued"} \cup {c}
    BY <1>0, <2>2
  <2> QED BY <2>3, <2>5, <2>6, <2>8, <2>9, <2>10 DEF ListIsTheBlocked
<1>6. ASSUME NEW c \in Callers, Admit(c) PROVE GateInv'
  BY <1>0, <1>6, BookkeepingKeeps DEF Admit, Slots
<1>7. ASSUME NEW c \in Callers, Abandon(c) PROVE GateInv'
  <2>0. slot[c] = "queued" /\ CancelTimer(c)
    BY <1>7 DEF Abandon
  <2>1. PICK i \in 1..Len(waiters) :
          /\ waiters[i] = c
          /\ IF i = 1 /\ cur < MaxConcurrency
             THEN NotifyWaiters(cur, Without(waiters, i), Leave(c))
             ELSE /\ waiters' = Without(waiters, i)
                  /\ slot' = Leave(c)
                  /\ cur' = cur
    BY <1>7 DEF Abandon
  <2>2. ~(i = 1 /\ cur < MaxConcurrency)
    <3>1. waiters # <<>>
      BY <1>0, <2>1, EmptySeq
    <3> QED BY <3>1, MaxConcurrencyAssumption DEF WorkConserving
  <2>3. waiters' = Without(waiters, i) /\ slot' = Leave(c) /\ cur' = cur
    BY <2>1, <2>2
  <2>4. \A j, k \in 1..Len(waiters) : waiters[j] = waiters[k] => j = k
    BY DEF ListIsTheBlocked
  <2>5. /\ waiters' \in Seq(Callers)
        /\ Len(waiters') = Len(waiters) - 1
        /\ \A j, k \in 1..(Len(waiters) - 1) : waiters'[j] = waiters'[k] => j = k
        /\ {waiters'[j] : j \in 1..(Len(waiters) - 1)}
             = {waiters[j] : j \in 1..Len(waiters)} \ {c}
    <3> DEFINE w == Without(waiters, i)
    <3>1. /\ w \in Seq(Callers)
          /\ Len(w) = Len(waiters) - 1
          /\ \A j, k \in 1..(Len(waiters) - 1) : w[j] = w[k] => j = k
          /\ {w[j] : j \in 1..(Len(waiters) - 1)}
               = {waiters[j] : j \in 1..Len(waiters)} \ {waiters[i]}
      BY <1>0, <2>4, WithoutProperties
    <3>2. waiters' = w /\ waiters[i] = c
      BY <2>1, <2>3
    <3> HIDE DEF w
    <3> QED BY <3>1, <3>2
  <2>6. GateTypeOK'
    BY <1>0, <2>0, <2>3, <2>5 DEF GateTypeOK, Leave, CancelTimer, Slots
  <2>7. Owners' = Owners
    BY <1>0, <2>0, <2>3 DEF Owners, Leave
  <2>8. SlotsAccounted'
    BY <2>3, <2>7 DEF SlotsAccounted
  <2>9. WorkConserving'
    <3>1. waiters # <<>>
      BY <1>0, <2>1, EmptySeq
    <3> QED BY <2>3, <3>1 DEF WorkConserving
  <2>10. {d \in Callers : slot'[d] = "queued"}
           = {d \in Callers : slot[d] = "queued"} \ {c}
    BY <1>0, <2>0, <2>3 DEF Leave
  <2>11. ListIsTheBlocked'
    BY <2>5, <2>10 DEF ListIsTheBlocked
  <2> QED BY <2>6, <2>8, <2>9, <2>11
<1>8. ASSUME NEW c \in Callers, PutBack(c) PROVE GateInv'
  BY <1>8, GiveBack DEF PutBack
<1>9. ASSUME NEW c \in Callers, Release(c) PROVE GateInv'
  BY <1>9, GiveBack DEF Release
<1>10. CASE UNCHANGED gateVars
  BY <1>0, <1>10, BookkeepingKeeps DEF gateVars
<1> QED
  BY <1>1, <1>2, <1>3, <1>4, <1>5, <1>6, <1>7, <1>8, <1>9, <1>10 DEF GateNext

-----------------------------------------------------------------------------
(* For every number of callers and every YT_MAX_CONCURRENCY, slots are     *)
(* neither lost nor duplicated, a free slot never leaves a caller waiting, *)
(* and the waiter list holds exactly the blocked callers.                  *)
THEOREM GateIsSafe == GateSpec => []GateInv
<1> QED BY InitInv, NextInv, PTL DEF GateSpec

(* The semaphore's count is the number of slot owners, at most             *)
(* YT_MAX_CONCURRENCY of them, whatever timers fire and calls return.      *)
THEOREM SlotsAreAccounted == GateSpec => []SlotsAccounted
<1>1. GateInv => SlotsAccounted
  BY DEF GateInv
<1> QED BY <1>1, GateIsSafe, PTL

(* No caller waits while a slot is free. *)
THEOREM GateIsWorkConserving == GateSpec => []WorkConserving
<1>1. GateInv => WorkConserving
  BY DEF GateInv
<1> QED BY <1>1, GateIsSafe, PTL

-----------------------------------------------------------------------------
(* notifyWaiters turns queued callers into ready ones and nothing else, so *)
(* it changes neither who is asking nor who is calling.                    *)
LEMMA NotifyOnlyReadies ==
  ASSUME NEW n \in Nat, NEW s \in [Callers -> Slots], n <= MaxConcurrency,
         waiters \in Seq(Callers),
         NEW q \in Seq(Callers), ListMatches(q, s), NotifyWaiters(n, q, s)
  PROVE  \A d \in Callers :
           slot'[d] = s[d] \/ (s[d] = "queued" /\ slot'[d] = "ready")
<1>1. Len(q) \in Nat /\ MaxConcurrency \in Nat
  BY LenProperties, MaxConcurrencyAssumption
<1>2. Served(n, q) \in Int /\ Served(n, q) <= Len(q)
  BY <1>1 DEF Served
<1>3. ASSUME NEW i \in 1..Served(n, q) PROVE s[q[i]] = "queued"
  <2>1. i \in 1..Len(q)
    BY <1>1, <1>2
  <2> QED BY <2>1 DEF ListMatches
<1> QED BY <1>3 DEF NotifyWaiters

(* Giving back a slot takes c, and nobody else, out of asking and calling. *)
LEMMA GiveBackOnlyMoves ==
  ASSUME GateInv, NEW c \in Callers, slot[c] \in {"ready", "held"},
         NotifyWaiters(cur - 1, waiters, Leave(c))
  PROVE  Asking' = Asking \ {c} /\ Calling' = Calling \ {c}
<1> USE DEF GateInv
<1>1. /\ waiters \in Seq(Callers) /\ slot \in [Callers -> Slots]
      /\ cur \in Nat /\ cur = Cardinality(Owners) /\ cur <= MaxConcurrency
  BY DEF GateTypeOK, SlotsAccounted
<1>2. cur - 1 \in Nat
  <2>1. IsFiniteSet(Owners) /\ c \in Owners
    BY CallersAssumption, FS_Subset DEF Owners
  <2>2. cur # 0
    BY <1>1, <2>1, FS_EmptySet
  <2> QED BY <1>1, <2>2
<1>3. Leave(c) \in [Callers -> Slots] /\ ListMatches(waiters, Leave(c))
  <2>1. {d \in Callers : Leave(c)[d] = "queued"} = {d \in Callers : slot[d] = "queued"}
    BY <1>1 DEF Leave
  <2> QED BY <1>1, <2>1 DEF ListMatches, ListIsTheBlocked, Leave, Slots
<1>4. \A d \in Callers :
        \/ slot'[d] = Leave(c)[d]
        \/ Leave(c)[d] = "queued" /\ slot'[d] = "ready"
  <2>1. cur - 1 <= MaxConcurrency
    BY <1>1, MaxConcurrencyAssumption
  <2> QED BY <1>1, <1>2, <1>3, <2>1, NotifyOnlyReadies
<1> QED BY <1>1, <1>4 DEF Leave, Asking, Calling, Waiting

(* A caller that gives up wakes nobody: it was not blocked by a free slot. *)
LEMMA AbandonOnlyLeaves ==
  ASSUME GateInv, NEW c \in Callers, Abandon(c)
  PROVE  slot' = Leave(c)
<1>1. PICK i \in 1..Len(waiters) :
        IF i = 1 /\ cur < MaxConcurrency
        THEN NotifyWaiters(cur, Without(waiters, i), Leave(c))
        ELSE slot' = Leave(c)
  BY DEF Abandon
<1>2. ~(cur < MaxConcurrency)
  <2>1. Len(waiters) \in Nat /\ waiters # <<>>
    BY <1>1, EmptySeq, LenProperties DEF GateInv, GateTypeOK
  <2> QED BY <2>1, MaxConcurrencyAssumption DEF GateInv, WorkConserving
<1> QED BY <1>1, <1>2

(* Whoever leaves the gate, served or refused, is outside it afterwards,   *)
(* draws nobody in who was outside, and takes no slot from another.        *)
LEMMA LeavingIsPrivate ==
  ASSUME GateInv, NEW c \in Callers, Refuse(c) \/ Release(c)
  PROVE  /\ slot'[c] = "idle"
         /\ \A d \in Callers : slot[d] = "idle" => slot'[d] = "idle"
         /\ \A d \in Callers \ {c} : slot[d] = "held" => slot'[d] = "held"
<1>1. slot \in [Callers -> Slots] /\ slot' \in [Callers -> Slots]
  <2>1. GateNext
    BY DEF GateNext, Refuse
  <2> QED BY <2>1, NextInv DEF GateInv, GateTypeOK
<1>2. CASE RefuseAtEntry(c) \/ Abandon(c)
  BY <1>1, <1>2, AbandonOnlyLeaves DEF RefuseAtEntry, Leave
<1>3. CASE PutBack(c) \/ Release(c)
  <2>1. Asking' = Asking \ {c} /\ Calling' = Calling \ {c}
    BY <1>3, GiveBackOnlyMoves DEF PutBack, Release
  <2> QED BY <1>1, <2>1 DEF Asking, Calling, Waiting, Slots
<1> QED BY <1>2, <1>3 DEF Refuse

(* With a slot of its own, not yet noticed or about to be taken, a caller  *)
(* finds fewer than MaxConcurrency calls in progress.                      *)
LEMMA RoomForOneMore ==
  ASSUME GateInv, NEW c \in Callers,
         slot[c] = "ready" \/ cur < MaxConcurrency
  PROVE  Cardinality(Calling) < MaxConcurrency
<1>1. /\ IsFiniteSet(Owners) /\ IsFiniteSet(Calling)
      /\ Calling \subseteq Owners
  BY CallersAssumption, FS_Subset DEF Owners, Calling
<1>2. /\ cur \in Nat /\ cur = Cardinality(Owners) /\ cur <= MaxConcurrency
      /\ MaxConcurrency \in Nat
  BY MaxConcurrencyAssumption DEF GateInv, GateTypeOK, SlotsAccounted
<1>3. Cardinality(Calling) \in Nat /\ Cardinality(Calling) <= cur
  BY <1>1, <1>2, FS_Subset, FS_CardinalityType
<1>4. CASE slot[c] = "ready"
  <2>1. c \in Owners /\ c \notin Calling
    BY <1>4 DEF Owners, Calling
  <2>2. Cardinality(Calling) # cur
    BY <1>1, <1>2, <2>1, FS_Subset
  <2> QED BY <1>2, <1>3, <2>2
<1>5. CASE cur < MaxConcurrency
  BY <1>2, <1>3, <1>5
<1> QED BY <1>4, <1>5

(* The instance of FiniteSets inside Bounded counts as FiniteSets does. *)
LEMMA SameCardinality ==
  ASSUME NEW S
  PROVE  Bounded!Cardinality(S) = Cardinality(S)
BY Zenon DEF Bounded!Cardinality, Cardinality

(* The gate implements the safety part of BoundedCalls for every set of    *)
(* callers: at most YT_MAX_CONCURRENCY upstream calls run at a time.       *)
THEOREM GateImplementsBoundedCalls == GateSpec => Bounded!Safety
<1>1. GateInit => Bounded!Init
  BY DEF GateInit, Bounded!Init, Asking, Calling, Waiting
<1>2. ASSUME GateInv, [GateNext]_gateVars
      PROVE  [Bounded!Next]_(Bounded!vars)
  <2> USE DEF GateInv
  <2>0. /\ waiters \in Seq(Callers) /\ slot \in [Callers -> Slots]
    BY <1>2 DEF GateTypeOK
  <2> DEFINE Stutter == Asking' = Asking /\ Calling' = Calling
  <2>1. ASSUME NEW c \in Callers, Enter(c) PROVE Bounded!Ask(c)
    BY <2>0, <2>1 DEF Enter, Bounded!Ask, Asking, Calling, Waiting
  <2>2. ASSUME NEW c \in Callers, QueueTimer(c) PROVE Stutter
    BY <2>2 DEF QueueTimer, Asking, Calling
  <2>3. ASSUME NEW c \in Callers, RefuseAtEntry(c) PROVE Bounded!Reject(c)
    BY <2>0, <2>3 DEF RefuseAtEntry, Leave, Bounded!Reject, Asking, Calling, Waiting
  <2>4. ASSUME NEW c \in Callers, TakeFreeSlot(c) PROVE Bounded!Begin(c)
    <3>1. Cardinality(Calling) < MaxConcurrency
      BY <1>2, <2>4, RoomForOneMore DEF TakeFreeSlot
    <3> QED BY <2>0, <2>4, <3>1, SameCardinality
            DEF TakeFreeSlot, Bounded!Begin, Asking, Calling, Waiting
  <2>5. ASSUME NEW c \in Callers, Enqueue(c) PROVE Stutter
    BY <2>0, <2>5 DEF Enqueue, Asking, Calling, Waiting
  <2>6. ASSUME NEW c \in Callers, Admit(c) PROVE Bounded!Begin(c)
    <3>1. Cardinality(Calling) < MaxConcurrency
      BY <1>2, <2>6, RoomForOneMore DEF Admit
    <3> QED BY <2>0, <2>6, <3>1, SameCardinality
            DEF Admit, Bounded!Begin, Asking, Calling, Waiting
  <2>7. ASSUME NEW c \in Callers, Abandon(c) PROVE Bounded!Reject(c)
    <3>1. slot' = Leave(c) /\ slot[c] = "queued"
      BY <1>2, <2>7, AbandonOnlyLeaves DEF Abandon
    <3> QED BY <2>0, <3>1 DEF Leave, Bounded!Reject, Asking, Calling, Waiting
  <2>8. ASSUME NEW c \in Callers, PutBack(c) PROVE Bounded!Reject(c)
    <3>1. Asking' = Asking \ {c} /\ Calling' = Calling \ {c}
      BY <1>2, <2>8, GiveBackOnlyMoves DEF PutBack
    <3>2. c \in Asking /\ c \notin Calling
      BY <2>8 DEF PutBack, Asking, Calling, Waiting
    <3> QED BY <3>1, <3>2 DEF Bounded!Reject
  <2>9. ASSUME NEW c \in Callers, Release(c) PROVE Bounded!Finish(c)
    <3>1. Asking' = Asking \ {c} /\ Calling' = Calling \ {c}
      BY <1>2, <2>9, GiveBackOnlyMoves DEF Release
    <3>2. c \in Calling /\ c \notin Asking
      BY <2>9 DEF Release, Asking, Calling, Waiting
    <3> QED BY <3>1, <3>2 DEF Bounded!Finish
  <2>10. CASE UNCHANGED gateVars
    BY <2>10 DEF gateVars, Asking, Calling, Bounded!vars
  <2>11. ASSUME NEW c \in Callers, QueueTimer(c) \/ Enqueue(c)
         PROVE  UNCHANGED Bounded!vars
    BY <2>2, <2>5, <2>11 DEF Bounded!vars
  <2> QED BY <1>2, <2>1, <2>3, <2>4, <2>6, <2>7, <2>8, <2>9, <2>10, <2>11
          DEF GateNext, Bounded!Next
<1> QED BY <1>1, <1>2, GateIsSafe, PTL DEF GateSpec, Bounded!Safety

-----------------------------------------------------------------------------
(* The state of the gate is of its type. *)
THEOREM GateIsTyped == GateSpec => []GateTypeOK
<1>1. GateInv => GateTypeOK
  BY DEF GateInv
<1> QED BY <1>1, GateIsSafe, PTL

(* The list holds each blocked caller once: none is woken after it left.   *)
THEOREM ListIsAccurate == GateSpec => []ListIsTheBlocked
<1>1. GateInv => ListIsTheBlocked
  BY DEF GateInv
<1> QED BY <1>1, GateIsSafe, PTL

(* A caller that was blocked and stays blocked while a slot is given back  *)
(* is behind every caller that gets one.                                   *)
LEMMA GivenInOrder ==
  ASSUME GateInv, NEW e \in Callers, slot[e] \in {"ready", "held"},
         NotifyWaiters(cur - 1, waiters, Leave(e)),
         NEW c \in Callers, slot[c] = "queued", slot'[c] = "queued",
         NEW d \in Callers, d \in Owners' \ Owners
  PROVE  \E i, j \in 1..Len(waiters) : i < j /\ waiters[i] = d /\ waiters[j] = c
<1> DEFINE k == Served(cur - 1, waiters)
<1>1. /\ waiters \in Seq(Callers) /\ slot \in [Callers -> Slots] /\ cur \in Nat
      /\ Len(waiters) \in Nat
  BY LenProperties DEF GateInv, GateTypeOK
<1>2. k \in Int /\ k <= Len(waiters)
  BY <1>1, MaxConcurrencyAssumption DEF Served
<1>3. slot' = [x \in Callers |-> IF \E i \in 1..k : waiters[i] = x
                                 THEN "ready" ELSE Leave(e)[x]]
  BY DEF NotifyWaiters
<1> HIDE DEF k
<1>4. PICK j \in 1..Len(waiters) : waiters[j] = c
  BY DEF GateInv, ListIsTheBlocked
<1>5. ~(j \in 1..k)
  BY <1>3, <1>4
<1>6. PICK i \in 1..k : waiters[i] = d
  <2>1. d \in Callers /\ slot'[d] \in {"ready", "held"} /\ slot[d] \notin {"ready", "held"}
    BY DEF Owners
  <2>2. Leave(e)[d] \notin {"ready", "held"}
    BY <1>1, <2>1 DEF Leave
  <2>3. QED
    BY <1>3, <2>1, <2>2
<1>7. i \in 1..Len(waiters) /\ i < j
  BY <1>1, <1>2, <1>4, <1>5, <1>6
<1> QED BY <1>4, <1>6, <1>7

(* Slots are given out in the order of arrival, whoever gives up, puts     *)
(* back or releases in between.                                            *)
THEOREM GateIsFair == GateSpec => FirstComeFirstServed
<1> DEFINE InOrder(c, d) ==
      \E i, j \in 1..Len(waiters) : i < j /\ waiters[i] = d /\ waiters[j] = c
<1>1. ASSUME GateInv, [GateNext]_gateVars, NEW c \in Callers, NEW d \in Callers,
             slot[c] = "queued", slot'[c] = "queued", d \in Owners' \ Owners
      PROVE  InOrder(c, d)
  <2>0. slot \in [Callers -> Slots] /\ waiters \in Seq(Callers)
    BY <1>1 DEF GateInv, GateTypeOK
  <2>1. ASSUME NEW e \in Callers,
               Enter(e) \/ QueueTimer(e) \/ RefuseAtEntry(e) \/ Enqueue(e) \/ Admit(e)
        PROVE  FALSE
    BY <1>1, <2>0, <2>1
       DEF Enter, QueueTimer, RefuseAtEntry, Enqueue, Admit, Owners, Leave
  <2>2. ASSUME NEW e \in Callers, TakeFreeSlot(e)
        PROVE  FALSE
    <3>1. \E j \in 1..Len(waiters) : waiters[j] = c
      BY <1>1 DEF GateInv, ListIsTheBlocked
    <3>2. Len(waiters) = 0
      BY <2>2, EmptySeq DEF TakeFreeSlot
    <3> QED BY <3>1, <3>2
  <2>3. ASSUME NEW e \in Callers, Abandon(e)
        PROVE  FALSE
    <3>1. slot' = Leave(e)
      BY <1>1, <2>3, AbandonOnlyLeaves
    <3> QED BY <1>1, <2>0, <3>1 DEF Leave, Owners
  <2>4. ASSUME NEW e \in Callers, PutBack(e) \/ Release(e)
        PROVE  InOrder(c, d)
    <3>1. slot[e] \in {"ready", "held"} /\ NotifyWaiters(cur - 1, waiters, Leave(e))
      BY <2>4 DEF PutBack, Release
    <3> QED BY <1>1, <3>1, GivenInOrder
  <2>5. ~UNCHANGED gateVars
    BY <1>1 DEF gateVars, Owners
  <2> QED BY <1>1, <2>1, <2>2, <2>3, <2>4, <2>5 DEF GateNext
<1>2. GateInv /\ [GateNext]_gateVars
      => [\A c, d \in Callers :
            (/\ slot[c] = "queued" /\ slot'[c] = "queued"
             /\ d \in Owners' \ Owners)
            => InOrder(c, d)]_gateVars
  <2> HIDE DEF InOrder
  <2> QED BY <1>1
<1> QED BY <1>2, GateIsSafe, PTL DEF GateSpec, FirstComeFirstServed
=============================================================================
