---------------------------- MODULE Parentheses -----------------------------
(***************************************************************************)
(* stripParentheses (service/jql.go) on the tokens of a query: it goes     *)
(* through the query once and writes what it keeps.  Grouping parentheses  *)
(* are dropped, those of an "issue in (...)" list are kept; which of them  *)
(* one is depends on what has been written so far.                         *)
(*                                                                         *)
(* A client writes queries out of at most MaxFragments Fragments, which    *)
(* are sequences of tokens: parentheses, the keyword of a list, and others *)
(* of which only JQL says what they are.  Tokens are separated by spaces.  *)
(***************************************************************************)
EXTENDS Naturals, Sequences, FiniteSets

CONSTANTS Fragments, MaxFragments

VARIABLES
  jql,
  fragments,    \* the number of those that the client has written
  verdict,      \* none yet: "writing" and "scanning"; "accepted" or "refused"
  scanned,      \* the tokens behind the scanner
  result,       \* what it has kept of them
  depth,        \* the open parentheses that group
  inListDepth   \* the open lists

scanVars == <<scanned, result, depth, inListDepth>>
parenthesesVars == <<jql, fragments, verdict, scanVars>>

Tokens == [kind : STRING, value : Nat]
Token(kind, value) == [kind |-> kind, value |-> value]
Open == Token("(", 0)
Close == Token(")", 0)
In == Token("issue in", 0)

ASSUME FragmentsAssumption == Fragments \subseteq Seq(Tokens)
ASSUME MaxFragmentsAssumption == MaxFragments \in Nat

-----------------------------------------------------------------------------
NothingScanned == scanned = 0 /\ result = << >> /\ depth = 0 /\ inListDepth = 0

ParenthesesInit == jql = << >> /\ fragments = 0 /\ verdict = "writing" /\ NothingScanned

Write(f) ==
  /\ verdict = "writing" /\ fragments < MaxFragments
  /\ jql' = jql \o f
  /\ fragments' = fragments + 1
  /\ UNCHANGED <<verdict, scanVars>>

Search ==
  /\ verdict = "writing"
  /\ verdict' = "scanning"
  /\ UNCHANGED <<jql, fragments, scanVars>>

StartOver ==
  /\ verdict \in {"accepted", "refused"}
  /\ jql' = << >> /\ fragments' = 0 /\ verdict' = "writing"
  /\ scanned' = 0 /\ result' = << >> /\ depth' = 0 /\ inListDepth' = 0

-----------------------------------------------------------------------------
(* The scanner is before this token. *)
Before(token) == verdict = "scanning" /\ scanned < Len(jql) /\ jql[scanned + 1] = token

Skip == scanned' = scanned + 1 /\ UNCHANGED <<jql, fragments, verdict, result>>
Keep ==
  /\ scanned' = scanned + 1
  /\ result' = Append(result, jql[scanned + 1])
  /\ UNCHANGED <<jql, fragments, verdict>>
Refuse == verdict' = "refused" /\ UNCHANGED <<jql, fragments, scanVars>>

isInKeywordBefore == result # << >> /\ result[Len(result)] = In
EmptyGroupAt(i) == i + 1 <= Len(jql) /\ jql[i] = Open /\ jql[i + 1] = Close

OpenList ==
  /\ Before(Open) /\ isInKeywordBefore
  /\ inListDepth' = inListDepth + 1
  /\ Keep /\ UNCHANGED depth

OpenGroup ==
  /\ Before(Open) /\ ~isInKeywordBefore /\ ~EmptyGroupAt(scanned + 1)
  /\ depth' = depth + 1
  /\ Skip /\ UNCHANGED inListDepth

RefuseEmptyGroup ==
  Before(Open) /\ ~isInKeywordBefore /\ EmptyGroupAt(scanned + 1) /\ Refuse

CloseList ==
  /\ Before(Close) /\ inListDepth > 0
  /\ inListDepth' = inListDepth - 1
  /\ Keep /\ UNCHANGED depth

CloseGroup ==
  /\ Before(Close) /\ inListDepth = 0 /\ depth > 0
  /\ depth' = depth - 1
  /\ Skip /\ UNCHANGED inListDepth

RefuseClose == Before(Close) /\ inListDepth = 0 /\ depth = 0 /\ Refuse

KeepToken ==
  /\ verdict = "scanning" /\ scanned < Len(jql)
  /\ jql[scanned + 1] \notin {Open, Close}
  /\ Keep /\ UNCHANGED <<depth, inListDepth>>

(* Seeded fault: groups that are left open are not noticed. *)
OpenIsFine == depth \in Nat

(* What is left open at the end is an error, a list is not. *)
NothingLeftOpen == depth = 0

Finish ==
  /\ verdict = "scanning" /\ scanned = Len(jql)
  /\ verdict' = IF NothingLeftOpen THEN "accepted" ELSE "refused"
  /\ UNCHANGED <<jql, fragments, scanVars>>

Scan ==
  \/ OpenList \/ OpenGroup \/ RefuseEmptyGroup
  \/ CloseList \/ CloseGroup \/ RefuseClose
  \/ KeepToken \/ Finish

ParenthesesNext == Search \/ StartOver \/ Scan \/ \E f \in Fragments : Write(f)
ParenthesesSpec == ParenthesesInit /\ [][ParenthesesNext]_parenthesesVars

-----------------------------------------------------------------------------
ParenthesesTypeOK ==
  /\ jql \in Seq(Tokens) /\ result \in Seq(Tokens)
  /\ fragments \in 0..MaxFragments
  /\ verdict \in {"writing", "scanning", "accepted", "refused"}
  /\ scanned \in 0..Len(jql)
  /\ depth \in Nat /\ inListDepth \in Nat

(* How often a token is among the first n. *)
Count(t, n, token) == Cardinality({i \in 1..n : t[i] = token})
Opened(t, n) == \A m \in 0..n : Count(t, m, Close) <= Count(t, m, Open)
Balanced(t) == Opened(t, Len(t)) /\ Count(t, Len(t), Open) = Count(t, Len(t), Close)

(* A query is refused only if a group is empty or the parentheses do not   *)
(* match.  Of one that is accepted every closed parenthesis was open, only *)
(* those of lists are kept, and what is left has parentheses that match if *)
(* and only if those of the query do: although the scanner takes the next  *)
(* ")" for the end of a list, whatever has been opened within it.          *)
ParenthesesDecide ==
  /\ verdict = "refused" => ~Balanced(jql) \/ \E i \in DOMAIN jql : EmptyGroupAt(i)
  /\ verdict = "accepted" =>
       /\ Opened(jql, Len(jql))
       /\ Balanced(jql) <=> Balanced(result)
       /\ \A k \in DOMAIN result : result[k] = Open => k > 1 /\ result[k - 1] = In

-----------------------------------------------------------------------------
(* What is written about this code and is not so: no run checks it, and    *)
(* TLC finds the counterexample within the bounds of the runs (README.md). *)

(* "Returns an error for empty "()" or unbalanced parentheses"             *)
(* (service/jql.go:52-53).                                                 *)
UnbalancedIsRefused == verdict = "accepted" => Balanced(jql)
=============================================================================
