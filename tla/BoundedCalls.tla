---------------------------- MODULE BoundedCalls ----------------------------
(***************************************************************************)
(* What the concurrency gate promises to the rest of the proxy, without    *)
(* the semaphore: at most MaxConcurrency upstream calls run at a time, and *)
(* a caller that asks for a slot is admitted or refused, never forgotten.  *)
(***************************************************************************)
EXTENDS Naturals, FiniteSets

CONSTANTS Callers, MaxConcurrency

VARIABLES asking,   \* callers inside acquireSemaphore
          calling   \* callers with an upstream call in progress

vars == <<asking, calling>>

Init == asking = {} /\ calling = {}

Ask(c) ==
  /\ c \notin asking \cup calling
  /\ asking' = asking \cup {c}
  /\ UNCHANGED calling

Begin(c) ==
  /\ c \in asking
  /\ Cardinality(calling) < MaxConcurrency
  /\ asking' = asking \ {c}
  /\ calling' = calling \cup {c}

Reject(c) ==
  /\ c \in asking
  /\ asking' = asking \ {c}
  /\ UNCHANGED calling

Finish(c) ==
  /\ c \in calling
  /\ calling' = calling \ {c}
  /\ UNCHANGED asking

Next == \E c \in Callers : Ask(c) \/ Begin(c) \/ Reject(c) \/ Finish(c)

Safety == Init /\ [][Next]_vars

Spec ==
  /\ Safety
  /\ \A c \in Callers : /\ WF_vars(Begin(c) \/ Reject(c))
                        /\ WF_vars(Finish(c))
=============================================================================
