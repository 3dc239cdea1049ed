-------------------------------- MODULE JQL --------------------------------
(***************************************************************************)
(* The translation of JQL to a YouTrack query (service/jql.go), on the     *)
(* tokens that stripParentheses leaves (Parentheses): connectors, lists of *)
(* keys, and the other clauses, each with the value it compares with (a    *)
(* project, a filter, a time).                                             *)
(*                                                                         *)
(* A filter is a project's, and has its number (BoardSync shows how).      *)
(***************************************************************************)
EXTENDS Parentheses, FiniteSetsExt

CONSTANTS YouTrackIssues

Connectors == {Token("and", 0), Token("or", 0)}
ClauseKinds == {"project", "created", "updated", "filter"}
Absent == 0

ASSUME IssuesAssumption ==
  YouTrackIssues \subseteq [project : Nat, created : Nat, updated : Nat, key : Nat]

(* A project has a name.  The filter with the number 0 is no filter to the *)
(* code (issues.go:42): what comes of it is shown in BoardSync.            *)
ASSUME ProjectsAssumption ==
  \A f \in Fragments : \A k \in DOMAIN f :
    f[k].kind \in {"project", "filter"} => f[k].value # Absent

-----------------------------------------------------------------------------
(* The first match of a clause counts, all matches are removed. *)
First(t, kind, positions) ==
  LET found == {k \in positions : t[k].kind = kind}
  IN  IF found = {} THEN Absent ELSE t[Min(found)].value

(* "issue in (", and what comes before the next ")".  Of those that end    *)
(* with the same ")" the first is matched, and contains the others.        *)
ListAt(t, i, j) ==
  /\ i + 1 < j
  /\ t[i] = In /\ t[i + 1] = Open /\ t[j] = Close
  /\ \A k \in (i + 2)..(j - 1) : t[k] # Close
ListsIn(t) == {l \in (DOMAIN t) \X (DOMAIN t) : ListAt(t, l[1], l[2])}
FirstList(t) == CHOOSE l \in ListsIn(t) : \A m \in ListsIn(t) : l[1] <= m[1]

(* What is taken for keys: when lists are looked for, all but the filter   *)
(* has been removed.                                                       *)
Keys(t) ==
  IF ListsIn(t) = {} THEN {}
  ELSE {k \in (FirstList(t)[1] + 2)..(FirstList(t)[2] - 1) :
          t[k].kind \notin ClauseKinds \ {"filter"}}

OutsideLists(t) == {k \in DOMAIN t : \A l \in ListsIn(t) : k < l[1] \/ l[2] < k}

(* ORDER BY is taken off the end; elsewhere it is left over. *)
OrderLast(t) == t # << >> /\ t[Len(t)].kind = "order by"
Rest(t) == IF OrderLast(t) THEN SubSeq(t, 1, Len(t) - 1) ELSE t

ParseJQL ==
  LET rest == Rest(result)
      others == OutsideLists(rest)
  IN  [ok |-> /\ verdict = "accepted"
              /\ \A k \in Keys(rest) : rest[k].kind = "key"
              /\ \A k \in others : rest[k].kind \in ClauseKinds \/ rest[k] \in Connectors,
       project |-> First(rest, "project", DOMAIN rest),
       created |-> First(rest, "created", DOMAIN rest),
       updated |-> First(rest, "updated", DOMAIN rest),
       keys |-> {rest[k].value : k \in Keys(rest)},
       filter |-> First(rest, "filter", others)]

(* The query of HandleSearchIssues, the filter resolved: an explicit       *)
(* project takes precedence.                                               *)
Project(parsed) == IF parsed.project # Absent THEN parsed.project ELSE parsed.filter

(* Seeded fault: the clause on updates is not translated. *)
QueryWithoutUpdates(parsed) ==
  {x \in YouTrackIssues :
     /\ Project(parsed) \in {Absent, x.project}
     /\ x.created >= parsed.created
     /\ parsed.keys = {} \/ x.key \in parsed.keys}

(* The issues that match ToYouTrackQuery's query. *)
ToYouTrackQuery(parsed) ==
  {x \in YouTrackIssues :
     /\ Project(parsed) \in {Absent, x.project}
     /\ x.created >= parsed.created
     /\ x.updated >= parsed.updated
     /\ parsed.keys = {} \/ x.key \in parsed.keys}

-----------------------------------------------------------------------------
(* What JQL means, for queries of the supported clauses: these, and lists  *)
(* of keys, with connectors between them and parentheses around them.      *)
WholeList(t, i, j) ==
  /\ i + 2 < j
  /\ t[i] = In /\ t[i + 1] = Open /\ t[j] = Close
  /\ \A k \in (i + 2)..(j - 1) : t[k].kind = "key"
Inside(t, k) == \E i, j \in DOMAIN t : i < k /\ k <= j /\ WholeList(t, i, j)
Operand(t, k) == t[k].kind \in ClauseKinds \/ \E j \in DOMAIN t : WholeList(t, k, j)

IsQuery(t) ==
  /\ t # << >> /\ t[Len(t)] \notin Connectors
  /\ Balanced(t)
  /\ \A k \in DOMAIN t \ {l \in DOMAIN t : Inside(t, l)} :
       /\ \/ Operand(t, k) \/ t[k] \in Connectors \cup {Open, Close}
          \/ k = Len(t) /\ t[k].kind = "order by"
       /\ Operand(t, k) \/ t[k] = Open <=> k = 1 \/ t[k - 1] \in Connectors \cup {Open}

OnlyAnd(t) == \A k \in DOMAIN t : t[k] # Token("or", 0)

(* No list ends between these two. *)
NoneCloses(t, i, k) == \A m \in i..k : t[m] # Close

Matches(x, t) ==
  \A i \in DOMAIN t :
    CASE t[i].kind \in {"project", "filter"} -> x.project = t[i].value
      [] t[i].kind = "created" -> x.created >= t[i].value
      [] t[i].kind = "updated" -> x.updated >= t[i].value
      [] t[i] = In -> \E k \in DOMAIN t : /\ k > i /\ NoneCloses(t, i, k)
                                          /\ t[k].kind = "key" /\ x.key = t[k].value
      [] OTHER -> TRUE

Once(kinds, t) == Cardinality({i \in DOMAIN t : t[i].kind \in kinds}) <= 1
EachOnce(t) ==
  /\ Once({"created"}, t) /\ Once({"updated"}, t)
  /\ Once({"project", "filter"}, t) /\ Once({"issue in"}, t)

(* A list that begins within a list. *)
ListInList(t) ==
  \E i, k \in DOMAIN t :
    /\ i < k /\ k < Len(t)
    /\ t[i] = In /\ t[i + 1] = Open /\ t[k] = In /\ t[k + 1] = Open
    /\ NoneCloses(t, i, k)

Decided == verdict \in {"accepted", "refused"}

(* No query of supported clauses is refused, however it is nested, and of  *)
(* everything else, nothing is answered of which a list is left open,      *)
(* unless it is in a list.  If all connectors are AND, no issue that the   *)
(* JQL asks for is lost, and if no kind of clause comes twice, no other is *)
(* found: connectors and parentheses may be dropped as the code does.      *)
QueriesAreAnswered ==
  Decided =>
    LET parsed == ParseJQL
        found == ToYouTrackQuery(parsed)
        wanted == {x \in YouTrackIssues : Matches(x, jql)}
    IN  /\ parsed.ok /\ ~ListInList(result) => Balanced(result)
        /\ IsQuery(jql) => parsed.ok
        /\ IsQuery(jql) /\ OnlyAnd(jql) =>
             /\ wanted \subseteq found
             /\ EachOnce(jql) => found = wanted

-----------------------------------------------------------------------------
(* What is written about this code and is not so: no run checks it, and    *)
(* TLC finds the counterexample within the bounds of the runs (README.md). *)

(* "For any combination of supported JQL clauses [...] a YouTrack query    *)
(* string containing the corresponding YouTrack fragment for each clause   *)
(* present in the input" (service/jql_property_test.go).                   *)
EveryClauseTranslated ==
  Decided /\ IsQuery(jql) =>
    \A i \in DOMAIN jql :
      /\ jql[i].kind = "project" => ParseJQL.project = jql[i].value
      /\ jql[i].kind = "created" => ParseJQL.created = jql[i].value
      /\ jql[i].kind = "key" => jql[i].value \in ParseJQL.keys
=============================================================================
