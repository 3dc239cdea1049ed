-------------------------------- MODULE Gate --------------------------------
(***************************************************************************)
(* The concurrency gate of internal/client/youtrack.go: every call to      *)
(* YouTrack first takes one slot of a golang.org/x/sync semaphore with     *)
(* acquireSemaphore, waiting at most QueueTimeout for it, and gives the    *)
(* slot back in a deferred release.                                        *)
(*                                                                         *)
(* A caller is a goroutine about to make one upstream call.  It is "idle"  *)
(* outside acquireSemaphore..release, "entering" once the context with the *)
(* queue timeout exists, "queued" while its waiter is in the semaphore's   *)
(* list, "ready" when the semaphore has handed it a slot it has not yet    *)
(* noticed, and "held" from the return of acquireSemaphore to release.     *)
(***************************************************************************)
EXTENDS Naturals, Sequences, FiniteSets

CONSTANTS Callers,         \* goroutines that call YouTrack
          MaxConcurrency   \* YT_MAX_CONCURRENCY, clamped to [1, 100]

ASSUME MaxConcurrencyAssumption == MaxConcurrency \in Nat \ {0}
ASSUME CallersAssumption == IsFiniteSet(Callers)

VARIABLES cur,       \* the semaphore's count of slots handed out
          waiters,   \* the semaphore's list of waiters, oldest first
          slot,      \* where each caller is
          late       \* whether the caller's queue-timeout context is done

gateVars == <<cur, waiters, slot, late>>

Waiting == {"entering", "queued", "ready"}
Slots == {"idle", "held"} \cup Waiting

GateTypeOK ==
  /\ cur \in Nat
  /\ waiters \in Seq(Callers)
  /\ slot \in [Callers -> Slots]
  /\ late \in [Callers -> BOOLEAN]

GateInit ==
  /\ cur = 0
  /\ waiters = <<>>
  /\ slot = [c \in Callers |-> "idle"]
  /\ late = [c \in Callers |-> FALSE]

-----------------------------------------------------------------------------
(* How many waiters of q notifyWaiters serves when n slots are in use. *)
Served(n, q) ==
  IF MaxConcurrency - n < Len(q) THEN MaxConcurrency - n ELSE Len(q)

(* Seeded fault: the newest waiters are served first. *)
NotifyNewest(n, q, s) ==
  LET k == Served(n, q)
  IN /\ cur' = n + k
     /\ waiters' = SubSeq(q, 1, Len(q) - k)
     /\ slot' = [d \in Callers |-> IF \E i \in 1..k : q[Len(q) + 1 - i] = d
                                   THEN "ready" ELSE s[d]]

(* notifyWaiters: the oldest waiters get the free slots, in order. *)
NotifyWaiters(n, q, s) ==
  LET k == Served(n, q)
  IN /\ cur' = n + k
     /\ waiters' = SubSeq(q, k + 1, Len(q))
     /\ slot' = [d \in Callers |-> IF \E i \in 1..k : q[i] = d
                                   THEN "ready" ELSE s[d]]

(* The list without its i-th waiter. *)
Without(q, i) == [j \in 1..(Len(q) - 1) |-> IF j < i THEN q[j] ELSE q[j + 1]]

Leave(c) == [slot EXCEPT ![c] = "idle"]
CancelTimer(c) == late' = [late EXCEPT ![c] = FALSE]

-----------------------------------------------------------------------------
(* acquireSemaphore creates the context that carries the queue timeout. *)
Enter(c) ==
  /\ slot[c] = "idle"
  /\ slot' = [slot EXCEPT ![c] = "entering"]
  /\ UNCHANGED <<cur, waiters, late>>

(* The queue timeout elapses before the caller got through. *)
QueueTimer(c) ==
  /\ slot[c] \in Waiting
  /\ ~late[c]
  /\ late' = [late EXCEPT ![c] = TRUE]
  /\ UNCHANGED <<cur, waiters, slot>>

(* Acquire with a context that is already done fails without queueing. *)
RefuseAtEntry(c) ==
  /\ slot[c] = "entering"
  /\ late[c]
  /\ slot' = Leave(c)
  /\ CancelTimer(c)
  /\ UNCHANGED <<cur, waiters>>

(* Seeded fault: one slot more than configured. *)
TakeOneTooMany(c) ==
  /\ slot[c] = "entering"
  /\ ~late[c]
  /\ cur <= MaxConcurrency /\ waiters = <<>>
  /\ cur' = cur + 1
  /\ slot' = [slot EXCEPT ![c] = "held"]
  /\ UNCHANGED <<waiters, late>>

(* Acquire with a free slot and nobody queued takes the slot at once. *)
TakeFreeSlot(c) ==
  /\ slot[c] = "entering"
  /\ ~late[c]
  /\ cur < MaxConcurrency /\ waiters = <<>>
  /\ cur' = cur + 1
  /\ slot' = [slot EXCEPT ![c] = "held"]
  /\ UNCHANGED <<waiters, late>>

(* Otherwise Acquire appends a waiter to the list and blocks. *)
Enqueue(c) ==
  /\ slot[c] = "entering"
  /\ ~late[c]
  /\ ~(cur < MaxConcurrency /\ waiters = <<>>)
  /\ waiters' = Append(waiters, c)
  /\ slot' = [slot EXCEPT ![c] = "queued"]
  /\ UNCHANGED <<cur, late>>

(* A blocked caller sees that it was handed a slot in time. *)
Admit(c) ==
  /\ slot[c] = "ready"
  /\ ~late[c]
  /\ slot' = [slot EXCEPT ![c] = "held"]
  /\ UNCHANGED <<cur, waiters, late>>

(* Seeded fault: the waiter stays in the list of a caller that gave up. *)
AbandonInList(c) ==
  /\ slot[c] = "queued"
  /\ late[c]
  /\ slot' = Leave(c)
  /\ UNCHANGED <<cur, waiters>>
  /\ CancelTimer(c)

(* A blocked caller whose context is done leaves the list; if it was the   *)
(* oldest and slots are free, the next waiters are notified.               *)
Abandon(c) ==
  /\ slot[c] = "queued"
  /\ late[c]
  /\ \E i \in 1..Len(waiters) :
       /\ waiters[i] = c
       /\ LET q == Without(waiters, i)
          IN IF i = 1 /\ cur < MaxConcurrency
             THEN NotifyWaiters(cur, q, Leave(c))
             ELSE waiters' = q /\ slot' = Leave(c) /\ cur' = cur
  /\ CancelTimer(c)

(* Seeded fault: the slot handed over too late is not put back. *)
PutBackNothing(c) ==
  /\ slot[c] = "ready"
  /\ late[c]
  /\ slot' = Leave(c)
  /\ UNCHANGED <<cur, waiters>>
  /\ CancelTimer(c)

(* A slot handed over after the timeout goes back, and on to the others. *)
PutBack(c) ==
  /\ slot[c] = "ready"
  /\ late[c]
  /\ NotifyWaiters(cur - 1, waiters, Leave(c))
  /\ CancelTimer(c)

(* Seeded faults: release wakes nobody; runs twice; is forgotten. *)
ReleaseUnnotified(c) ==
  /\ slot[c] = "held"
  /\ cur' = cur - 1
  /\ slot' = Leave(c)
  /\ CancelTimer(c)
  /\ UNCHANGED waiters

ReleaseTwice(c) ==
  /\ slot[c] = "held"
  /\ NotifyWaiters(cur - 2, waiters, Leave(c))
  /\ CancelTimer(c)

ReleaseForgotten(c) ==
  /\ slot[c] = "held"
  /\ UNCHANGED gateVars

(* The deferred release of acquireSemaphore, run on every return path. *)
Release(c) ==
  /\ slot[c] = "held"
  /\ NotifyWaiters(cur - 1, waiters, Leave(c))
  /\ CancelTimer(c)

(* acquireSemaphore returns ErrQueueTimeout. *)
Refuse(c) == RefuseAtEntry(c) \/ Abandon(c) \/ PutBack(c)

(* acquireSemaphore returns a release function. *)
Grant(c) == TakeFreeSlot(c) \/ Admit(c)

GateNext ==
  \E c \in Callers :
    \/ Enter(c)
    \/ QueueTimer(c)
    \/ RefuseAtEntry(c)
    \/ TakeFreeSlot(c)
    \/ Enqueue(c)
    \/ Admit(c)
    \/ Abandon(c)
    \/ PutBack(c)
    \/ Release(c)

GateSpec == GateInit /\ [][GateNext]_gateVars

(* The timer of a context fires, the runtime resumes a goroutine that can  *)
(* go on, and RequestTimeout ends every upstream call, so release runs.    *)
GateFairness ==
  \A c \in Callers :
    /\ WF_gateVars(QueueTimer(c))
    /\ WF_gateVars(Refuse(c) \/ Grant(c) \/ Enqueue(c))
    /\ WF_gateVars(Release(c))

FairGateSpec == GateSpec /\ GateFairness

-----------------------------------------------------------------------------
(* Callers that own a slot, noticed or not. *)
Owners == {c \in Callers : slot[c] \in {"ready", "held"}}

(* No slot is lost and none is handed out twice: the semaphore's count is  *)
(* the number of its owners, on every path through timeouts, hand-overs    *)
(* and releases, and never above YT_MAX_CONCURRENCY.                       *)
SlotsAccounted == cur = Cardinality(Owners) /\ cur <= MaxConcurrency

(* Nobody waits while a slot is free: a release, or a waiter that gives up *)
(* its place or puts back its slot, always wakes the next waiter.          *)
WorkConserving == waiters # <<>> => cur = MaxConcurrency

(* The waiter list holds each blocked caller once and no one else, so a    *)
(* caller that timed out can never be handed a slot later.                 *)
ListIsTheBlocked ==
  /\ {waiters[i] : i \in 1..Len(waiters)} = {c \in Callers : slot[c] = "queued"}
  /\ \A i, j \in 1..Len(waiters) : waiters[i] = waiters[j] => i = j

(* Slots are handed out in arrival order: when a step gives d a slot, no   *)
(* caller that was queued before d, or before d arrived, is left queued.   *)
FirstComeFirstServed ==
  [][\A c, d \in Callers :
       (/\ slot[c] = "queued" /\ slot'[c] = "queued"
        /\ d \in Owners' \ Owners)
       => \E i, j \in 1..Len(waiters) :
            i < j /\ waiters[i] = d /\ waiters[j] = c]_gateVars

(* Every call gets through the gate: it is served or refused, and a served *)
(* one gives its slot back.                                                *)
EveryCallEnds == \A c \in Callers : slot[c] # "idle" ~> slot[c] = "idle"
=============================================================================
