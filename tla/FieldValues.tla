---------------------------- MODULE FieldValues ----------------------------
(***************************************************************************)
(* The values of one of YouTrack's fields (Type or State) as clients see   *)
(* them: in the list of issue types or statuses (handler/pickers.go), in   *)
(* an issue, and in the form to edit one (service/converter_read.go).  A   *)
(* client puts the three together by ID, while administrators rename       *)
(* values and offer them in more projects or in fewer, and users change    *)
(* the issue.  A list reads the projects one after the other; the client   *)
(* waits for each answer.                                                  *)
(*                                                                         *)
(* YouTrack answers with the ID of each value, since every call asks for   *)
(* it; what the converter makes of a value without one (a slug of the      *)
(* name) does not arise.                                                   *)
(***************************************************************************)
EXTENDS IdMap

CONSTANTS Projects,
          Home,     \* the project of the issue
          Values,   \* the IDs of the field's values
          NoValue,  \* no value
          Names

ASSUME FieldAssumption ==
  Home \in Projects /\ Values \subseteq Ids /\ NoValue \notin Values

VARIABLES
  name,      \* YouTrack: the names of the values
  offered,   \* YouTrack: the values in each project's bundle
  value,     \* YouTrack: the value of the issue, which is in project Home
  listing,   \* whether a list is being made
  todo,      \* the projects the list has not read yet
  found,     \* the values the list has found, [of, name]
  list,      \* the last list: its status, its entries, and whether every
             \* project is in it and nothing changed while it was made
  shown,     \* the issue's value as last shown
  allowed,   \* the form as last shown
  complete,  \* history: of the list being made, what list.complete will be
  kept       \* history: an entry of any earlier answer

tracker == <<name, offered, value>>
progress == <<listing, todo, found, complete>>
answers == <<list, shown, allowed>>
vars == <<tracker, progress, answers, kept>>

(* The text of an ID: a number, YouTrack's own, or that of no value.  A    *)
(* number has digits only (FormatID), the others have not.                 *)
Number(v) == <<"number", Encode(v)>>
Raw(v) == <<"raw", v>>
TextIds == {Number(v) : v \in Values} \cup {Raw(v) : v \in Values \cup {NoValue}}

(* An ID in an answer, with the value it stands for. *)
Entries == [id : TextIds, of : Values \cup {NoValue}]
NoList == [status |-> "none", entries |-> {}, complete |-> FALSE]

FieldValuesTypeOK ==
  /\ name \in [Values -> Names] /\ offered \in [Projects -> SUBSET Values]
  /\ value \in Values \cup {NoValue}
  /\ listing \in BOOLEAN /\ todo \subseteq Projects /\ complete \in BOOLEAN
  /\ found \subseteq [of : Values, name : Names]
  /\ ~listing => todo = {} /\ found = {}
  /\ list.status \in {"none", "ok", "failed"} /\ list.complete \in BOOLEAN
  /\ list.entries \subseteq [id : TextIds, of : Values, name : Names]
  /\ shown \subseteq Entries /\ allowed \subseteq Entries /\ kept \subseteq Entries

Init ==
  /\ name \in [Values -> Names] /\ offered \in [Projects -> SUBSET Values]
  /\ value \in Values \cup {NoValue}
  /\ listing = FALSE /\ todo = {} /\ found = {} /\ complete = FALSE
  /\ list = NoList /\ shown = {} /\ allowed = {} /\ kept = {}

-----------------------------------------------------------------------------
HandleList ==
  /\ ~listing
  /\ listing' = TRUE /\ todo' = Projects /\ found' = {} /\ complete' = TRUE
  /\ UNCHANGED <<tracker, answers, kept>>

(* Seeded fault: a value is told from the others by its name. *)
UnseenByName(p) == {v \in offered[p] : \A f \in found : f.name # name[v]}

(* The values of a project that were not found before.                     *)
Unseen(p) == {v \in offered[p] : \A f \in found : f.of # v}

ReadProject(p) ==
  /\ p \in todo
  /\ todo' = todo \ {p}
  /\ found' = found \cup {[of |-> v, name |-> name[v]] : v \in Unseen(p)}
  /\ UNCHANGED <<tracker, listing, complete, answers, kept>>

(* A project whose fields cannot be read is left out.                      *)
SkipProject(p) ==
  /\ p \in todo
  /\ todo' = todo \ {p} /\ complete' = FALSE
  /\ UNCHANGED <<tracker, listing, found, answers, kept>>

AnswerList(status, entries) ==
  /\ listing /\ todo = {}
  /\ listing' = FALSE /\ found' = {} /\ complete' = FALSE
  /\ list' = [status |-> status, entries |-> entries, complete |-> complete]
  /\ UNCHANGED <<tracker, todo, shown, allowed>>

(* One entry of the answers is kept, or the one kept before. *)
Keep(given) == kept' \in {kept} \cup {{e} : e \in given}

Listed ==
  /\ \A f \in found : Fits(f.of)
  /\ AnswerList("ok", {[id |-> Number(f.of), of |-> f.of, name |-> f.name] : f \in found})
  /\ Keep({[id |-> Number(f.of), of |-> f.of] : f \in found})

(* One value whose ID fits no number makes the answer a 500.               *)
ListFails ==
  /\ \E f \in found : ~Fits(f.of)
  /\ AnswerList("failed", {})
  /\ UNCHANGED kept

-----------------------------------------------------------------------------
(* The ID of an issue's status or type: YouTrack's own if it fits no       *)
(* number, "unknown" without a value.                                      *)
ValueId(v) == IF v # NoValue /\ Fits(v) THEN Number(v) ELSE Raw(v)

HandleGetIssue ==
  /\ ~listing
  /\ shown' = {[id |-> ValueId(value), of |-> value]}
  /\ Keep(shown')
  /\ UNCHANGED <<tracker, progress, list, allowed>>

HandleGetIssueEditMeta ==
  /\ ~listing
  /\ allowed' = {[id |-> Raw(v), of |-> v] : v \in offered[Home]}
  /\ Keep(allowed')
  /\ UNCHANGED <<tracker, progress, list, shown>>

-----------------------------------------------------------------------------
(* YouTrack's administrators and users.  Answers are compared with each    *)
(* other until something changes, and with the entry kept ever after.      *)
YouTrackChanges ==
  /\ \/ /\ \E v \in Values, n \in Names : name' = [name EXCEPT ![v] = n]
        /\ UNCHANGED <<offered, value>>
     \/ /\ \E p \in Projects, v \in Values :
             \/ offered' = [offered EXCEPT ![p] = @ \cup {v}]
             \/ /\ offered' = [offered EXCEPT ![p] = @ \ {v}]
                /\ p = Home => v # value
        /\ UNCHANGED <<name, value>>
     \/ /\ value' \in offered[Home] \cup {NoValue}
        /\ UNCHANGED <<name, offered>>
  /\ tracker' # tracker
  /\ complete' = FALSE
  /\ list' = NoList /\ shown' = {} /\ allowed' = {}
  /\ UNCHANGED <<listing, todo, found, kept>>

Next ==
  \/ HandleList
  \/ \E p \in Projects : ReadProject(p) \/ SkipProject(p)
  \/ Listed \/ ListFails
  \/ HandleGetIssue \/ HandleGetIssueEditMeta
  \/ YouTrackChanges

Spec == Init /\ [][Next]_vars

-----------------------------------------------------------------------------
(* An ID stands for one value, in every answer and for good: not even a    *)
(* value that was renamed, or one that fits no number, is ever taken for   *)
(* another (handler/pickers.go:43-56, converter_read.go:188-230); and no   *)
(* list has it twice, although a value that projects share may be renamed  *)
(* between the readings (pickers.go:104-108).                              *)
IdsStandForOneValue ==
  /\ \A e \in kept : \A f \in list.entries \cup shown \cup allowed :
       e.id = f.id => e.of = f.of
  /\ \A a, b \in list.entries : a.id = b.id => a = b

(* The value of an issue is found by its ID in a list, if no project was   *)
(* left out and nothing changed since the list was begun, whatever the     *)
(* projects share (pickers.go:72-76).                                      *)
IssueValueIsListed ==
  list.complete /\ list.status = "ok" /\ value \in offered[Home] =>
    \A s \in shown : \E e \in list.entries : e.id = s.id

-----------------------------------------------------------------------------
(* What is written about this code and is not so: no run checks it, and    *)
(* TLC finds the counterexample within the bounds of the runs (README.md). *)

(* README.md:107 says of the values of Type and Priority that "their IDs   *)
(* are deterministic numeric encodings of the YouTrack bundle value IDs":  *)
(* then the form allows the value that an issue has.  The issue's ID is a  *)
(* number, the form's are YouTrack's own (converter_read.go:400-416).      *)
FormAllowsTheValue ==
  allowed # {} /\ value \in offered[Home] => shown \subseteq allowed

(* README.md:131: if an ID exceeds the bounds, "the encoding will fail and *)
(* the entity will be skipped with a warning log".  The code fails the     *)
(* whole list (handler/pickers.go:51-56 and 110-116).                      *)
TooLargeIsSkipped == list.status # "failed"
=============================================================================
