------------------------------ MODULE Grammar -------------------------------
(***************************************************************************)
(* The grammar of the JQL that the proxy supports (service/jql.go): clauses *)
(* and lists of keys, with connectors between them and parentheses around  *)
(* them, and ORDER BY at the end.  It is recursive; JQL says of each token *)
(* what stands before it, so that it can be proved about, and TLC checks   *)
(* that these are the same queries, of all that are written out of at most *)
(* MaxWritten fragments.  TranslationProofs proves it of all queries, with *)
(* the grammar as the least set that has the conditions it writes.         *)
(***************************************************************************)
EXTENDS JQL

CONSTANTS MaxWritten

Inner(t) == SubSeq(t, 2, Len(t) - 1)

RECURSIVE IsExpression(_)
IsExpression(t) ==
  \/ Len(t) = 1 /\ t[1].kind \in ClauseKinds
  \/ WholeList(t, 1, Len(t))
  \/ Len(t) > 2 /\ t[1] = Open /\ t[Len(t)] = Close /\ IsExpression(Inner(t))
  \/ \E i \in 2..(Len(t) - 1) :
       /\ t[i] \in Connectors
       /\ IsExpression(SubSeq(t, 1, i - 1)) /\ IsExpression(SubSeq(t, i + 1, Len(t)))

Written[n \in 0..MaxWritten] ==
  IF n = 0 THEN {<< >>}
  ELSE Written[n - 1] \cup {t \o f : t \in Written[n - 1], f \in Fragments}

ASSUME QueriesAreExpressions ==
  \A t \in Written[MaxWritten] : IsQuery(t) <=> IsExpression(Rest(t))
=============================================================================
