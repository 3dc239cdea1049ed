------------------------- MODULE FieldValuesProofs -------------------------
(***************************************************************************)
(* Proofs about the numbers of IDs, for fields of any widths (those of the *)
(* code are beyond what TLC can count), and then about the values that     *)
(* clients know by them.                                                   *)
(***************************************************************************)
EXTENDS FieldValues, TLAPS

(* A number and the field below it. *)
LEMMA FieldsApart ==
  ASSUME NEW a \in Nat, NEW q \in Capacity, NEW b \in 0..(q - 1)
  PROVE  /\ a * q + b \in Nat
         /\ (a * q + b) \div q = a
         /\ (a * q + b) % q = b
  BY Z3T(30) DEF Capacity

LEMMA FieldsTogether ==
  ASSUME NEW n \in Nat, NEW q \in Capacity
  PROVE  /\ n \div q \in Nat
         /\ n % q \in 0..(q - 1)
         /\ n = (n \div q) * q + (n % q)
  BY Z3T(30) DEF Capacity

(* A field of capacity p above one of capacity q has p * q values. *)
LEMMA FieldsFit ==
  ASSUME NEW p \in Capacity, NEW q \in Capacity,
         NEW a \in 0..(p - 1), NEW b \in 0..(q - 1)
  PROVE  a * q + b \in 0..(p * q - 1)
  BY Z3T(30) DEF Capacity

LEMMA CapacitiesMultiply ==
  ASSUME NEW p \in Capacity, NEW q \in Capacity
  PROVE  p * q \in Capacity
  BY Z3 DEF Capacity

(* Division by two capacities, one after the other. *)
LEMMA DivTwice ==
  ASSUME NEW n \in Nat, NEW p \in Capacity, NEW q \in Capacity
  PROVE  n \div (p * q) = (n \div q) \div p
  BY Z3T(30) DEF Capacity
-----------------------------------------------------------------------------
LEMMA FlagFacts == Flag \in Capacity
  BY CapacityAssumption, Z3T(30) DEF Flag, Capacity

(* A base ID: its number is below the flag. *)
LEMMA BaseReturns ==
  ASSUME NEW i \in Ids, ~i.isActivity, Fits(i)
  PROVE  Encode(i) \in 0..(Flag - 1) /\ Decode(Encode(i)) = i
<1>1. /\ i.type \in 0..(BaseTypes - 1) /\ i.seq \in 0..(BaseSeqs - 1)
      /\ i = BaseId(i.type, i.seq)
  BY CapacityAssumption DEF Ids, Fits, BaseId, Capacity
<1> DEFINE t == i.type
           s == i.seq
           n == t * BaseSeqs + s
<1>2. Encode(i) = n
  BY DEF Encode, Pack
<1> HIDE DEF t, s
<1>3. t \in Nat /\ t \in 0..(BaseTypes - 1) /\ s \in 0..(BaseSeqs - 1)
  BY <1>1 DEF t, s
<1>4. n \in 0..(Flag - 1)
  BY <1>3, FieldsFit, CapacityAssumption DEF Flag
<1>5. n \div BaseSeqs = t /\ n % BaseSeqs = s
  BY <1>3, FieldsApart, CapacityAssumption
<1> HIDE DEF n
<1>6. n \div Flag = 0
  <2>1. n = 0 * Flag + n
    BY <1>4, FlagFacts DEF Capacity
  <2>2. (0 * Flag + n) \div Flag = 0
    BY <1>4, FlagFacts, FieldsApart
  <2>3. QED
    BY <2>1, <2>2
<1>7. t % BaseTypes = t
  <2>1. t = 0 * BaseTypes + t
    BY <1>3, CapacityAssumption DEF Capacity
  <2>2. (0 * BaseTypes + t) % BaseTypes = t
    BY <1>3, CapacityAssumption, FieldsApart
  <2>3. QED
    BY <2>1, <2>2
<1>8. Decode(n) = BaseId(t, s)
  <2>1. (n \div Flag) % 2 = 0
    BY <1>6
  <2>2. QED
    BY <2>1, <1>5, <1>7 DEF Decode
<1>9. QED
  BY <1>1, <1>2, <1>4, <1>8 DEF t, s

(* The ID of an activity: its number is the flag and all of its fields.    *)
LEMMA ActivityReturns ==
  ASSUME NEW i \in Ids, i.isActivity, Fits(i)
  PROVE  Encode(i) \in Flag..(2 * Flag - 1) /\ Decode(Encode(i)) = i
<1>1. /\ i.type \in 0..(ActTypes - 1) /\ i.seq \in 0..(ActSeqs - 1)
      /\ i.cat \in 0..(Cats - 1) /\ i.event \in 0..(Events - 1)
      /\ i = ActivityId(i.type, i.seq, i.cat, i.event)
  BY CapacityAssumption DEF Ids, Fits, ActivityId, Capacity
<1> DEFINE t == i.type
           s == i.seq
           c == i.cat
           e == i.event
           ts == t * ActSeqs + s
           tsc == ts * Cats + c
           n == Flag + (tsc * Events + e)
<1>2. Encode(i) = n
  BY DEF Encode, Pack
<1> HIDE DEF t, s, c, e
<1>3. /\ t \in 0..(ActTypes - 1) /\ s \in 0..(ActSeqs - 1)
      /\ c \in 0..(Cats - 1) /\ e \in 0..(Events - 1)
  BY <1>1 DEF t, s, c, e
<1>4. n \in Flag..(2 * Flag - 1)
  <2>1. ts \in 0..(ActTypes * ActSeqs - 1) /\ ActTypes * ActSeqs \in Capacity
    BY <1>3, FieldsFit, CapacityAssumption, Z3 DEF Capacity
  <2>2. tsc \in 0..((ActTypes * ActSeqs) * Cats - 1)
        /\ (ActTypes * ActSeqs) * Cats \in Capacity
    <3> HIDE DEF ts
    <3> QED BY <1>3, <2>1, FieldsFit, CapacityAssumption, Z3 DEF Capacity
  <2>3. tsc * Events + e \in 0..(((ActTypes * ActSeqs) * Cats) * Events - 1)
    <3> HIDE DEF tsc
    <3> QED BY <1>3, <2>2, FieldsFit, CapacityAssumption
  <2>4. ((ActTypes * ActSeqs) * Cats) * Events = Flag
    BY CapacityAssumption, SameWidthAssumption, Z3 DEF Capacity
  <2>5. QED
    <3> HIDE DEF tsc
    <3> QED BY <2>3, <2>4, FlagFacts DEF Capacity
<1> DEFINE a == 1 * ActTypes + t
           b == a * ActSeqs + s
           d == b * Cats + c
<1>5. n = d * Events + e
  BY <1>3, CapacityAssumption, SameWidthAssumption, Z3T(30) DEF Capacity
<1>6. (n \div Flag) % 2 = 1
  <2> DEFINE r == n - Flag
  <2>1. r \in 0..(Flag - 1) /\ n = 1 * Flag + r
    BY <1>4, FlagFacts DEF Capacity
  <2>2. (1 * Flag + r) \div Flag = 1
    BY <2>1, FlagFacts, FieldsApart
  <2>3. QED
    BY <2>1, <2>2
<1> HIDE DEF n
<1>7. a \in Nat /\ a % ActTypes = t
  BY <1>3, FieldsApart, CapacityAssumption
<1>8. b \in Nat /\ b \div ActSeqs = a /\ b % ActSeqs = s
  <2> HIDE DEF a
  <2> QED BY <1>3, <1>7, FieldsApart, CapacityAssumption
<1>9. d \in Nat /\ d \div Cats = b /\ d % Cats = c
  <2> HIDE DEF b
  <2> QED BY <1>3, <1>8, FieldsApart, CapacityAssumption
<1> HIDE DEF a, b, d
<1>10. n \in Nat /\ n \div Events = d /\ n % Events = e
  BY <1>3, <1>5, <1>9, FieldsApart, CapacityAssumption
<1>11. n \div (Cats * Events) = b /\ Cats * Events \in Capacity
  BY <1>9, <1>10, DivTwice, CapacitiesMultiply, CapacityAssumption
<1>12. n \div (ActSeqs * (Cats * Events)) = a
  BY <1>8, <1>10, <1>11, DivTwice, CapacityAssumption
<1>13. Decode(n) = ActivityId(t, s, c, e)
  BY <1>6, <1>7, <1>8, <1>9, <1>10, <1>11, <1>12 DEF Decode
<1>14. QED
  BY <1>1, <1>2, <1>4, <1>13 DEF t, s, c, e

(* Every number is the number of the ID it is decoded to. *)
LEMMA NumbersReturn ==
  ASSUME NEW n \in 0..(2 * Flag - 1)
  PROVE  Decode(n) \in Ids /\ Fits(Decode(n)) /\ Encode(Decode(n)) = n
<1>1. n \in Nat /\ Flag \in Capacity
  BY FlagFacts DEF Capacity
<1> DEFINE f == n \div Flag
           r == n % Flag
<1>2. f \in Nat /\ r \in 0..(Flag - 1) /\ n = f * Flag + r
  BY <1>1, FieldsTogether
<1>3. f \in {0, 1} /\ f % 2 = f
  <2>1. f < 2
    <3> HIDE DEF f, r
    <3> QED BY <1>1, <1>2, Z3T(30) DEF Capacity
  <2>2. QED
    <3> HIDE DEF f
    <3> QED BY <1>2, <2>1
<1>4. CASE f = 0
  <2> DEFINE h == n \div BaseSeqs
             s == n % BaseSeqs
             t == h % BaseTypes
             g == h \div BaseTypes
  <2>1. h \in Nat /\ s \in 0..(BaseSeqs - 1) /\ n = h * BaseSeqs + s
    BY <1>1, FieldsTogether, CapacityAssumption
  <2>2. g \in Nat /\ t \in 0..(BaseTypes - 1) /\ h = g * BaseTypes + t
    BY <2>1, FieldsTogether, CapacityAssumption
  <2>3. g = 0
    BY <1>1, <1>4, <2>1, DivTwice, CapacityAssumption DEF Flag
  <2>4. Decode(n) = BaseId(t, s)
    BY <1>3, <1>4 DEF Decode
  <2> HIDE DEF h, s, t, g
  <2>5. h = t
    BY <2>2, <2>3, CapacityAssumption DEF Capacity
  <2>6. BaseId(t, s) \in Ids /\ Fits(BaseId(t, s)) /\ Pack(BaseId(t, s)) = n
    BY <2>1, <2>2, <2>5, CapacityAssumption DEF BaseId, Ids, Fits, Pack, Capacity
  <2>7. QED
    BY <2>4, <2>6 DEF Encode
<1>5. CASE f = 1
  <2> DEFINE d == n \div Events
             e == n % Events
             b == d \div Cats
             c == d % Cats
             a == b \div ActSeqs
             s == b % ActSeqs
             g == a \div ActTypes
             t == a % ActTypes
  <2>1. d \in Nat /\ e \in 0..(Events - 1) /\ n = d * Events + e
    BY <1>1, FieldsTogether, CapacityAssumption
  <2>2. b \in Nat /\ c \in 0..(Cats - 1) /\ d = b * Cats + c
    BY <2>1, FieldsTogether, CapacityAssumption
  <2>3. a \in Nat /\ s \in 0..(ActSeqs - 1) /\ b = a * ActSeqs + s
    BY <2>2, FieldsTogether, CapacityAssumption
  <2>4. g \in Nat /\ t \in 0..(ActTypes - 1) /\ a = g * ActTypes + t
    BY <2>3, FieldsTogether, CapacityAssumption
  <2>5. n \div (Cats * Events) = b /\ Cats * Events \in Capacity
    BY <1>1, DivTwice, CapacitiesMultiply, CapacityAssumption
  <2>6. n \div (ActSeqs * (Cats * Events)) = a
        /\ ActSeqs * (Cats * Events) \in Capacity
    BY <1>1, <2>5, DivTwice, CapacitiesMultiply, CapacityAssumption
  <2>7. g = 1
    BY <1>1, <1>5, <2>6, DivTwice, CapacityAssumption, SameWidthAssumption
  <2>8. Decode(n) = ActivityId(t, s, c, e)
    BY <1>3, <1>5, <2>5, <2>6 DEF Decode
  <2> HIDE DEF a, b, c, d, e, g, s, t
  <2>9. n = Flag + (((t * ActSeqs + s) * Cats + c) * Events + e)
    BY <2>1, <2>2, <2>3, <2>4, <2>7, CapacityAssumption, SameWidthAssumption,
       Z3T(30) DEF Capacity
  <2> DEFINE i == ActivityId(t, s, c, e)
  <2>10. i \in Ids /\ Fits(i)
    BY <2>1, <2>2, <2>3, <2>4, CapacityAssumption
       DEF ActivityId, Ids, Fits, Capacity
  <2>11. Pack(i) = n
    BY <2>9 DEF ActivityId, Pack
  <2>12. QED
    BY <2>8, <2>10, <2>11 DEF Encode
<1>6. QED
  BY <1>3, <1>4, <1>5

-----------------------------------------------------------------------------
(* Every ID that fits and its number determine each other, for fields of   *)
(* any width: the numbers of boards, filters, issues and statuses never    *)
(* collide, and every number that a client may send is that of one ID      *)
(* (Encode and Decode, idmap/idmap.go:61-118).                             *)
THEOREM NumbersAreReversible ==
  /\ \A i \in Ids : Fits(i) => Decode(Encode(i)) = i
  /\ \A n \in 0..(2 * Flag - 1) :
       Decode(n) \in Ids /\ Fits(Decode(n)) /\ Encode(Decode(n)) = n
  BY BaseReturns, ActivityReturns, NumbersReturn

(* No number needs the sign of an int64, and the flag tells the IDs of     *)
(* activities from all others; only an ID that fits no field is refused.   *)
THEOREM NumbersFitInt64 ==
  \A i \in Ids :
    IF Fits(i)
      THEN Encode(i) \in IF i.isActivity THEN Flag..(2 * Flag - 1) ELSE 0..(Flag - 1)
      ELSE Encode(i) = Unencodable
  BY BaseReturns, ActivityReturns DEF Encode

-----------------------------------------------------------------------------
LEMMA EncodeIsInjective ==
  ASSUME NEW v \in Values, NEW w \in Values, Fits(v), Fits(w), Encode(v) = Encode(w)
  PROVE  v = w
  BY NumbersAreReversible, FieldAssumption

(* The ID of a value is its number, of one that fits none YouTrack's own.  *)
IsNumbered(e) == e.of \in Values /\ Fits(e.of) /\ e.id = Number(e.of)
IsGenuine(e) == IsNumbered(e) \/ e.id = Raw(e.of)

LEMMA PairsDiffer ==
  ASSUME NEW a, NEW b, NEW c, NEW d, <<a, b>> = <<c, d>>
  PROVE  a = c /\ b = d
<1>1. <<a, b>>[1] = <<c, d>>[1] /\ <<a, b>>[2] = <<c, d>>[2]
  OBVIOUS
<1>2. QED
  BY <1>1

LEMMA GenuineIdsDiffer ==
  ASSUME NEW e, NEW f, IsGenuine(e), IsGenuine(f), e.id = f.id
  PROVE  e.of = f.of
<1>1. CASE IsNumbered(e) /\ IsNumbered(f)
  <2>1. <<"number", Encode(e.of)>> = <<"number", Encode(f.of)>>
    BY <1>1, Zenon DEF IsNumbered, Number
  <2>2. Encode(e.of) = Encode(f.of)
    BY <2>1, PairsDiffer, Zenon
  <2>3. QED
    BY <1>1, <2>2, EncodeIsInjective DEF IsNumbered
<1>2. CASE e.id = Raw(e.of) /\ f.id = Raw(f.of)
  <2>1. <<"raw", e.of>> = <<"raw", f.of>>
    BY <1>2, Zenon DEF Raw
  <2>2. QED
    BY <2>1, PairsDiffer, Zenon
<1>3. ASSUME NEW v, NEW w PROVE Number(v) # Raw(w)
  <2>1. "number" # "raw"
    OBVIOUS
  <2>2. QED
    BY <2>1, PairsDiffer, Zenon DEF Number, Raw
<1>4. ~(IsNumbered(e) /\ f.id = Raw(f.of)) /\ ~(e.id = Raw(e.of) /\ IsNumbered(f))
  <2>1. Number(e.of) # Raw(f.of) /\ Number(f.of) # Raw(e.of)
    BY <1>3
  <2>2. QED
    BY <2>1, Zenon DEF IsNumbered
<1>5. QED
  BY <1>1, <1>2, <1>4, Zenon DEF IsGenuine

(* Entries are genuine; a list, made or in the making, has a value once,   *)
(* and all of those of the projects read if it is complete; an issue is    *)
(* shown with the value it has.                                            *)
Once(entries) == \A a, b \in entries : a.of = b.of => a = b
Covers(entries, projects) ==
  \A p \in projects : \A v \in offered[p] : \E e \in entries : e.of = v
ValuesInv ==
  /\ FieldValuesTypeOK
  /\ Once(found)
  /\ complete => Covers(found, Projects \ todo)
  /\ Once(list.entries) /\ \A e \in list.entries : IsNumbered(e)
  /\ list.complete /\ list.status = "ok" => Covers(list.entries, Projects)
  /\ \A e \in shown \cup allowed \cup kept : IsGenuine(e)
  /\ \A s \in shown : s = [id |-> ValueId(value), of |-> value]

LEMMA ValuesInvInit == Init => ValuesInv
<1> SUFFICES ASSUME Init PROVE ValuesInv
  OBVIOUS
<1>1. /\ list.status = "none" /\ list.entries = {} /\ list.complete = FALSE
      /\ complete = FALSE /\ found = {} /\ todo = {} /\ listing = FALSE
      /\ shown = {} /\ allowed = {} /\ kept = {}
  BY DEF Init, NoList
<1>2. FieldValuesTypeOK
  BY <1>1 DEF Init, FieldValuesTypeOK
<1>3. QED
  BY <1>1, <1>2 DEF ValuesInv, Once

LEMMA HandleListKeepsInv == ValuesInv /\ HandleList => ValuesInv'
  BY DEF HandleList, tracker, answers, ValuesInv, FieldValuesTypeOK, Once, Covers,
         IsNumbered, IsGenuine, ValueId, Number, Raw

LEMMA ReadProjectKeepsInv ==
  ASSUME ValuesInv, NEW p \in Projects, ReadProject(p)
  PROVE  ValuesInv'
<1> DEFINE new == {[of |-> v, name |-> name[v]] : v \in Unseen(p)}
<1>1. /\ p \in todo /\ todo' = todo \ {p} /\ found' = found \cup new
      /\ UNCHANGED <<tracker, listing, complete, answers, kept>>
  BY DEF ReadProject
<1>2. /\ new \subseteq [of : Values, name : Names]
      /\ \A f \in new : f.of \in Unseen(p) /\ f = [of |-> f.of, name |-> name[f.of]]
      /\ \A v \in Unseen(p) : \E f \in new : f.of = v
  <2>1. Unseen(p) \subseteq Values /\ name \in [Values -> Names]
    BY DEF ValuesInv, FieldValuesTypeOK, Unseen
  <2>2. \A v \in Unseen(p) : [of |-> v, name |-> name[v]] \in [of : Values, name : Names]
    BY <2>1
  <2>3. \A f \in new : \E v \in Unseen(p) : f = [of |-> v, name |-> name[v]]
    OBVIOUS
  <2>4. \A v \in Unseen(p) : [of |-> v, name |-> name[v]] \in new
    OBVIOUS
  <2> HIDE DEF new
  <2>5. new \subseteq [of : Values, name : Names]
    BY <2>2, <2>3, Zenon
  <2>6. \A f \in new : f.of \in Unseen(p) /\ f = [of |-> f.of, name |-> name[f.of]]
    BY <2>3
  <2>7. \A v \in Unseen(p) : \E f \in new : f.of = v
    BY <2>4
  <2>8. QED
    BY <2>5, <2>6, <2>7
<1>3. FieldValuesTypeOK'
  <2> HIDE DEF new
  <2> QED BY <1>1, <1>2 DEF ValuesInv, FieldValuesTypeOK, tracker, answers
<1>4. Once(found')
  <2> HIDE DEF new
  <2> QED BY <1>1, <1>2 DEF ValuesInv, Once, Unseen
<1>5. complete' => Covers(found, Projects \ todo)'
  <2> HIDE DEF new
  <2>1. SUFFICES ASSUME complete, NEW q \in Projects \ todo', NEW v \in offered[q]
                 PROVE  \E e \in found' : e.of = v
    <3> HIDE DEF new
    <3> QED BY <1>1 DEF Covers, tracker
  <2>2. CASE q = p
    BY <1>1, <1>2, <2>1, <2>2 DEF Unseen
  <2>3. CASE q # p
    BY <1>1, <2>1, <2>3 DEF ValuesInv, Covers
  <2>4. QED
    BY <2>2, <2>3
<1>6. QED
  BY <1>1, <1>3, <1>4, <1>5
     DEF ValuesInv, tracker, answers, Once, Covers, IsNumbered, IsGenuine, ValueId,
         Number, Raw

LEMMA SkipProjectKeepsInv ==
  ASSUME ValuesInv, NEW p \in Projects, SkipProject(p)
  PROVE  ValuesInv'
  BY DEF SkipProject, tracker, answers, ValuesInv, FieldValuesTypeOK, Once, Covers,
         IsNumbered, IsGenuine, ValueId, Number, Raw

LEMMA ListedKeepsInv == ValuesInv /\ Listed => ValuesInv'
<1> SUFFICES ASSUME ValuesInv, Listed PROVE ValuesInv'
  OBVIOUS
<1> DEFINE entries ==
             {[id |-> Number(f.of), of |-> f.of, name |-> f.name] : f \in found}
           given == {[id |-> Number(f.of), of |-> f.of] : f \in found}
<1>1. /\ \A f \in found : Fits(f.of) /\ f.of \in Values /\ f.name \in Names
      /\ found \subseteq [of : Values, name : Names]
  BY DEF Listed, ValuesInv, FieldValuesTypeOK
<1>2. /\ listing /\ todo = {}
      /\ listing' = FALSE /\ found' = {} /\ complete' = FALSE
      /\ list' = [status |-> "ok", entries |-> entries, complete |-> complete]
      /\ UNCHANGED <<tracker, todo, shown, allowed>>
      /\ kept' \in {kept} \cup {{e} : e \in given}
  BY DEF Listed, AnswerList, Keep
<1>3. /\ entries \subseteq [id : TextIds, of : Values, name : Names]
      /\ \A e \in entries : IsNumbered(e)
  BY <1>1 DEF IsNumbered, TextIds
<1>4. Once(entries)
  <2>1. \A e \in entries : \E f \in found :
          e.of = f.of /\ e = [id |-> Number(f.of), of |-> f.of, name |-> f.name]
    OBVIOUS
  <2> HIDE DEF entries
  <2>2. QED
    BY <2>1 DEF ValuesInv, Once
<1>5. complete => Covers(entries, Projects)
  <2>1. \A f \in found :
          [id |-> Number(f.of), of |-> f.of, name |-> f.name] \in entries
    OBVIOUS
  <2> HIDE DEF entries
  <2>2. QED
    BY <1>2, <2>1 DEF ValuesInv, Covers
<1>6. /\ given \subseteq Entries
      /\ \A e \in given : IsGenuine(e)
  BY <1>1 DEF IsGenuine, IsNumbered, Entries, TextIds
<1> HIDE DEF entries, given
<1>7. kept' \subseteq Entries /\ \A e \in kept' : IsGenuine(e)
  BY <1>2, <1>6 DEF ValuesInv, FieldValuesTypeOK
<1>8. FieldValuesTypeOK'
  BY <1>2, <1>3, <1>7 DEF ValuesInv, FieldValuesTypeOK, tracker
<1>9. QED
  BY <1>2, <1>3, <1>4, <1>5, <1>7, <1>8
     DEF ValuesInv, tracker, Once, Covers, IsNumbered, IsGenuine, ValueId, Number, Raw

LEMMA ListFailsKeepsInv == ValuesInv /\ ListFails => ValuesInv'
<1> SUFFICES ASSUME ValuesInv, ListFails PROVE ValuesInv'
  OBVIOUS
<1>1. /\ listing' = FALSE /\ found' = {} /\ complete' = FALSE /\ todo = {}
      /\ list'.status = "failed" /\ list'.entries = {} /\ list'.complete = complete
      /\ UNCHANGED <<tracker, todo, shown, allowed, kept>>
  BY DEF ListFails, AnswerList
<1>2. FieldValuesTypeOK'
  BY <1>1 DEF ValuesInv, FieldValuesTypeOK, tracker
<1>3. QED
  BY <1>1, <1>2
     DEF ValuesInv, tracker, Once, IsNumbered, IsGenuine, ValueId, Number, Raw

LEMMA HandleGetIssueKeepsInv == ValuesInv /\ HandleGetIssue => ValuesInv'
<1> SUFFICES ASSUME ValuesInv, HandleGetIssue PROVE ValuesInv'
  OBVIOUS
<1> DEFINE entry == [id |-> ValueId(value), of |-> value]
<1>1. /\ shown' = {entry} /\ kept' \in {kept, {entry}}
      /\ UNCHANGED <<tracker, progress, list, allowed>>
  BY DEF HandleGetIssue, Keep
<1>2. entry \in Entries /\ IsGenuine(entry)
  BY DEF ValuesInv, FieldValuesTypeOK, ValueId, Entries, TextIds, IsGenuine, IsNumbered
<1>3. FieldValuesTypeOK'
  <2> HIDE DEF entry
  <2> QED BY <1>1, <1>2 DEF ValuesInv, FieldValuesTypeOK, tracker, progress
<1>4. shown' = {[id |-> ValueId(value'), of |-> value']}
  BY <1>1 DEF tracker
<1> HIDE DEF entry
<1>5. \A e \in shown' \cup allowed' \cup kept' : IsGenuine(e)
  BY <1>1, <1>2 DEF ValuesInv
<1>6. QED
  BY <1>1, <1>3, <1>4, <1>5
     DEF ValuesInv, tracker, progress, Once, Covers, IsNumbered, IsGenuine, ValueId,
         Number, Raw

LEMMA HandleGetIssueEditMetaKeepsInv == ValuesInv /\ HandleGetIssueEditMeta => ValuesInv'
<1> SUFFICES ASSUME ValuesInv, HandleGetIssueEditMeta PROVE ValuesInv'
  OBVIOUS
<1> DEFINE entries == {[id |-> Raw(v), of |-> v] : v \in offered[Home]}
<1>1. /\ allowed' = entries /\ kept' \in {kept} \cup {{e} : e \in entries}
      /\ UNCHANGED <<tracker, progress, list, shown>>
  BY DEF HandleGetIssueEditMeta, Keep
<1>2. entries \subseteq Entries /\ \A e \in entries : IsGenuine(e)
  BY FieldAssumption DEF ValuesInv, FieldValuesTypeOK, Entries, TextIds, IsGenuine
<1> HIDE DEF entries
<1>3. kept' \subseteq Entries /\ \A e \in kept' : IsGenuine(e)
  BY <1>1, <1>2 DEF ValuesInv, FieldValuesTypeOK
<1>4. FieldValuesTypeOK'
  BY <1>1, <1>2, <1>3 DEF ValuesInv, FieldValuesTypeOK, tracker, progress
<1>5. QED
  BY <1>1, <1>2, <1>3, <1>4
     DEF ValuesInv, tracker, progress, Once, Covers, IsNumbered, IsGenuine, ValueId,
         Number, Raw

LEMMA YouTrackChangesKeepsInv == ValuesInv /\ YouTrackChanges => ValuesInv'
<1> SUFFICES ASSUME ValuesInv, YouTrackChanges PROVE ValuesInv'
  OBVIOUS
<1>1. /\ complete' = FALSE /\ list' = NoList /\ shown' = {} /\ allowed' = {}
      /\ UNCHANGED <<listing, todo, found, kept>>
  BY DEF YouTrackChanges
<1>2. /\ name' \in [Values -> Names] /\ offered' \in [Projects -> SUBSET Values]
      /\ value' \in Values \cup {NoValue}
  BY FieldAssumption DEF YouTrackChanges, ValuesInv, FieldValuesTypeOK
<1>3. FieldValuesTypeOK'
  BY <1>1, <1>2 DEF ValuesInv, FieldValuesTypeOK, NoList
<1>4. QED
  BY <1>1, <1>3 DEF ValuesInv, NoList, Once, IsGenuine, IsNumbered, Number, Raw

THEOREM ValuesAreSafe == Spec => []ValuesInv
<1>1. ValuesInv /\ [Next]_vars => ValuesInv'
  <2> SUFFICES ASSUME ValuesInv, [Next]_vars PROVE ValuesInv'
    OBVIOUS
  <2>1. CASE Next
    BY <2>1, HandleListKeepsInv, ReadProjectKeepsInv, SkipProjectKeepsInv,
       ListedKeepsInv, ListFailsKeepsInv, HandleGetIssueKeepsInv,
       HandleGetIssueEditMetaKeepsInv, YouTrackChangesKeepsInv DEF Next
  <2>2. CASE UNCHANGED vars
    BY <2>2 DEF vars, tracker, progress, answers, ValuesInv, FieldValuesTypeOK, Once,
       Covers, IsNumbered, IsGenuine, ValueId, Number, Raw
  <2>3. QED
    BY <2>1, <2>2
<1>2. QED
  BY <1>1, ValuesInvInit, PTL DEF Spec

(* No ID ever stands for two values, in fields of any widths, for any      *)
(* projects and values and however they change, and no list has one twice. *)
THEOREM IdsAreUnambiguous == Spec => []IdsStandForOneValue
<1>1. ValuesInv => IdsStandForOneValue
  <2> SUFFICES ASSUME ValuesInv PROVE IdsStandForOneValue
    OBVIOUS
  <2>1. /\ \A e \in kept : IsGenuine(e)
        /\ \A f \in list.entries \cup shown \cup allowed : IsGenuine(f)
        /\ Once(list.entries)
    BY DEF ValuesInv, IsGenuine
  <2>2. \A e \in kept : \A f \in list.entries \cup shown \cup allowed :
          e.id = f.id => e.of = f.of
    BY <2>1, GenuineIdsDiffer
  <2>3. \A a, b \in list.entries : a.id = b.id => a = b
    BY <2>1, GenuineIdsDiffer DEF Once
  <2>4. QED
    BY <2>2, <2>3 DEF IdsStandForOneValue
<1>2. QED
  BY <1>1, ValuesAreSafe, PTL

(* The value of an issue is in every complete list, by the same ID.        *)
THEOREM IssuesMatchLists == Spec => []IssueValueIsListed
<1>1. ValuesInv => IssueValueIsListed
  <2> SUFFICES ASSUME ValuesInv, list.complete, list.status = "ok",
                      value \in offered[Home], NEW s \in shown
               PROVE  \E e \in list.entries : e.id = s.id
    BY DEF IssueValueIsListed
  <2>1. PICK e \in list.entries : e.of = value
    BY FieldAssumption DEF ValuesInv, Covers
  <2>2. IsNumbered(e) /\ s.id = ValueId(value)
    BY DEF ValuesInv
  <2>3. QED
    BY <2>1, <2>2, FieldAssumption DEF IsNumbered, ValueId
<1>2. QED
  BY <1>1, ValuesAreSafe, PTL
=============================================================================
