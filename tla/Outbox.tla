------------------------------- MODULE Outbox -------------------------------
(***************************************************************************)
(* The transactional outbox.  Services insert PENDING rows of              *)
(* outbox_events in the transaction that changes an order; worker          *)
(* processes poll the table every few seconds, publish a batch to          *)
(* RabbitMQ, and commit what became of every row of it.  Rows are read     *)
(* without a lock, so two workers may hold the same row.                   *)
(*                                                                         *)
(* Abstracted: payloads and routing keys; attempts and last_error, which   *)
(* nothing reads but the length of the delay; time, of which remains       *)
(* whether next_attempt_at has passed.                                     *)
(***************************************************************************)
EXTENDS Naturals, FiniteSets

CONSTANTS
  NumEvents,      \* rows ever enqueued; their numbers are in created_at order
  Worker,         \* worker processes
  BatchLimit,     \* limit of the SELECT
  MaxFaults,      \* bound: ticks that fail and confirmations that are lost
  MaxOutages      \* bound: times the broker goes away

ASSUME OutboxAssumption ==
  /\ NumEvents \in Nat /\ MaxFaults \in Nat /\ MaxOutages \in Nat
  /\ BatchLimit \in Nat \ {0}
  /\ IsFiniteSet(Worker)

VARIABLES
  row,            \* status of each row, "none" until its insert is committed
  due,            \* next_attempt_at has passed
  task,           \* batch of each worker
  up,             \* the broker accepts messages
  sent,           \* messages of each row that the broker accepted
  faults, outages

outbox_vars == <<row, due, task, up, sent, faults, outages>>

-----------------------------------------------------------------------------
Event == 1..NumEvents

(* A worker sleeps, or holds a batch: rows still to publish, published     *)
(* and failed ones.                                                        *)
Task == [todo : SUBSET Event, ok : SUBSET Event, failed : SUBSET Event]
Sleeping == [todo |-> {}, ok |-> {}, failed |-> {}]

OutboxTypeOK ==
  /\ row \in [Event -> {"none", "PENDING", "PUBLISHED"}]
  /\ due \in [Event -> BOOLEAN]
  /\ task \in [Worker -> Task]
  /\ up \in BOOLEAN
  /\ sent \in [Event -> Nat]
  /\ faults \in Nat /\ outages \in Nat

OutboxInit ==
  /\ row = [e \in Event |-> "none"]
  /\ due = [e \in Event |-> TRUE]
  /\ task = [w \in Worker |-> Sleeping]
  /\ up = TRUE
  /\ sent = [e \in Event |-> 0]
  /\ faults = 0 /\ outages = 0

-----------------------------------------------------------------------------
(* created_at is the start of the transaction that inserts the row, so     *)
(* rows appear in any order.                                               *)
Enqueue(e) ==
  /\ row[e] = "none"
  /\ row' = [row EXCEPT ![e] = "PENDING"]
  /\ UNCHANGED <<due, task, up, sent, faults, outages>>

(* Definitions named Mistake_X are plausible bugs in X; nothing uses them  *)
(* but the runs that show a property notices.                              *)
Mistake_Due == {e \in Event : row[e] # "none" /\ due[e]}

Due == {e \in Event : row[e] = "PENDING" /\ due[e]}

(* The oldest rows that are due, no more than the limit.                   *)
IsBatch(B) ==
  /\ B \subseteq Due
  /\ \A e \in B, f \in Due \ B : e < f
  /\ Cardinality(B) = BatchLimit \/ (B = Due /\ Cardinality(B) < BatchLimit)

Poll(w) ==
  /\ task[w] = Sleeping
  /\ Due # {}
  /\ \E B \in SUBSET Due : IsBatch(B) /\ task' = [task EXCEPT ![w].todo = B]
  /\ UNCHANGED <<row, due, up, sent, faults, outages>>

(* The rows are published one by one, the oldest first.                    *)
NextInBatch(w, e) == e \in task[w].todo /\ \A f \in task[w].todo : e <= f

MarkOk(w, e) ==
  task' = [task EXCEPT ![w] = [todo |-> @.todo \ {e}, ok |-> @.ok \cup {e},
                               failed |-> @.failed]]

MarkFailed(w, e) ==
  task' = [task EXCEPT ![w] = [todo |-> @.todo \ {e}, ok |-> @.ok,
                               failed |-> @.failed \cup {e}]]

(* The broker confirms: it has the message.                                *)
PublishConfirmed(w, e) ==
  /\ NextInBatch(w, e) /\ up
  /\ sent' = [sent EXCEPT ![e] = @ + 1]
  /\ MarkOk(w, e)
  /\ UNCHANGED <<row, due, up, faults, outages>>

(* It has the message, but the connection is lost before the confirmation. *)
PublishUnconfirmed(w, e) ==
  /\ NextInBatch(w, e) /\ up /\ faults < MaxFaults
  /\ sent' = [sent EXCEPT ![e] = @ + 1]
  /\ faults' = faults + 1
  /\ MarkFailed(w, e)
  /\ UNCHANGED <<row, due, up, outages>>

Mistake_PublishFailed(w, e) ==
  /\ NextInBatch(w, e) /\ ~up
  /\ MarkOk(w, e)
  /\ UNCHANGED <<row, due, up, sent, faults, outages>>

PublishFailed(w, e) ==
  /\ NextInBatch(w, e) /\ ~up
  /\ MarkFailed(w, e)
  /\ UNCHANGED <<row, due, up, sent, faults, outages>>

Mistake_RowAfter(w, e) ==
  IF e \in task[w].ok THEN "PUBLISHED"
  ELSE IF e \in task[w].failed THEN "PENDING" ELSE row[e]

Mistake_GivesUp(w, e) ==
  IF e \in task[w].ok THEN "PUBLISHED"
  ELSE IF e \in task[w].failed THEN "FAILED" ELSE row[e]

(* Only the columns an event object changed are written: a failed row      *)
(* keeps the status the table has by now.                                  *)
RowAfter(w, e) == IF e \in task[w].ok THEN "PUBLISHED" ELSE row[e]

CommitBatch(w) ==
  /\ task[w].todo = {} /\ task[w] # Sleeping
  /\ row' = [e \in Event |-> RowAfter(w, e)]
  /\ due' = [e \in Event |-> due[e] /\ e \notin task[w].failed]
  /\ task' = [task EXCEPT ![w] = Sleeping]
  /\ UNCHANGED <<up, sent, faults, outages>>

(* The tick raises (the database fails) or the process dies: what it       *)
(* learned of its batch is forgotten, and the next tick starts afresh.     *)
TickFails(w) ==
  /\ task[w] # Sleeping
  /\ faults < MaxFaults
  /\ faults' = faults + 1
  /\ task' = [task EXCEPT ![w] = Sleeping]
  /\ UNCHANGED <<row, due, up, sent, outages>>

DelayPasses(e) ==
  /\ ~due[e]
  /\ due' = [due EXCEPT ![e] = TRUE]
  /\ UNCHANGED <<row, task, up, sent, faults, outages>>

BrokerDown ==
  /\ up /\ outages < MaxOutages
  /\ up' = FALSE
  /\ outages' = outages + 1
  /\ UNCHANGED <<row, due, task, sent, faults>>

BrokerUp ==
  /\ ~up
  /\ up' = TRUE
  /\ UNCHANGED <<row, due, task, sent, faults, outages>>

Publish(w, e) == PublishConfirmed(w, e) \/ PublishUnconfirmed(w, e) \/ PublishFailed(w, e)

OutboxNext ==
  \/ \E e \in Event : Enqueue(e) \/ DelayPasses(e)
  \/ \E w \in Worker : Poll(w) \/ CommitBatch(w) \/ TickFails(w)
  \/ \E w \in Worker, e \in Event : Publish(w, e)
  \/ BrokerDown \/ BrokerUp

(* The worker polls for ever, its delays end, and the broker comes back;   *)
(* no one is obliged to fail or to enqueue.                                *)
OutboxFairness ==
  /\ \A w \in Worker :
       /\ WF_outbox_vars(Poll(w)) /\ WF_outbox_vars(CommitBatch(w))
       /\ WF_outbox_vars(\E e \in Event : PublishConfirmed(w, e) \/ PublishFailed(w, e))
  /\ \A e \in Event : WF_outbox_vars(DelayPasses(e))
  /\ WF_outbox_vars(BrokerUp)

OutboxSpec == OutboxInit /\ [][OutboxNext]_outbox_vars /\ OutboxFairness
=============================================================================
