---------------------------- MODULE OrdersProps ----------------------------
(***************************************************************************)
(* Properties of the order service.                                        *)
(***************************************************************************)
EXTENDS Orders

(* The contract, with the time stamps of the order events forgotten.       *)
Lifecycle == INSTANCE OrderLifecycle WITH
  history <- [o \in Order |->
                [i \in DOMAIN events[o] |-> [old |-> events[o][i].old,
                                             new |-> events[o][i].new]]]

(* Whatever the requests in flight, an order the log shows COMPLETED was   *)
(* READY before, and ACCEPTED before that: a stale read can damage an      *)
(* order's status but never lets anyone skip the kitchen.                  *)
CompletedThroughReady ==
  \A o \in Order : \A k \in DOMAIN events[o] :
    events[o][k].new = "COMPLETED" =>
      \E j \in 1..(k - 1) : /\ events[o][j].new = "READY"
                            /\ \E i \in 1..(j - 1) : events[o][i].new = "ACCEPTED"

(* The row and its log cannot drift apart for good: the status of an order *)
(* is the one set by the last logged change that changed anything, for any *)
(* interleaving of transactions that read stale statuses.                  *)
Effective(e) == e.old # e.new

StatusIsLastEffectiveEvent ==
  \A o \in Order :
    LET log == events[o] IN
    \/ /\ status[o] = "PENDING"
       /\ \A i \in DOMAIN log : ~Effective(log[i])
    \/ \E i \in DOMAIN log :
         /\ Effective(log[i])
         /\ status[o] = log[i].new
         /\ \A j \in (i + 1)..Len(log) : ~Effective(log[j])

(* Transactional outbox: every logged change has its notification queued   *)
(* in the same order, none is queued for a change that was rolled back.    *)
OutboxMatchesLog == outbox = events

(* ready_at, which the analytics read, is set exactly on the orders whose  *)
(* log shows READY.                                                        *)
ReadyStamped ==
  \A o \in Order : ready_at[o] <=> \E i \in DOMAIN events[o] : events[o][i].new = "READY"

(* No request waits for ever, neither for a row lock nor for a holder that *)
(* has gone.                                                               *)
RequestsFinish == \A r \in Request : req[r] # Idle ~> req[r] = Idle

(* When no two requests touch one order at the same time, its log is one   *)
(* unbroken chain from PENDING to the status it has.                       *)
HistoryChain == Lifecycle!HistoryChain

(* ... and the service implements the life cycle it documents.             *)
ImplementsLifecycle == Lifecycle!Init /\ [][Lifecycle!Next]_(Lifecycle!vars)

(* GET /orders/{id}/events sorts by created_at; the sort is the order in   *)
(* which the changes were committed.                                       *)
HistorySorted ==
  \A o \in Order : \A i, j \in DOMAIN events[o] :
    i < j => events[o][i].at < events[o][j].at

(* The history an administrator reads is whole and in order.               *)
HistoryIntact == HistoryChain /\ HistorySorted
=============================================================================
