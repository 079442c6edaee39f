------------------------------- MODULE Orders -------------------------------
(***************************************************************************)
(* The order service: requests of staff, customers and administrators that *)
(* change the status of an order.  A request is one database transaction   *)
(* in READ COMMITTED without SELECT ... FOR UPDATE: it reads the order,    *)
(* validates the status it read, and later updates the row by its id.      *)
(* Nothing rereads the status in between; the UPDATE takes the row lock    *)
(* and keeps it until commit.                                              *)
(*                                                                         *)
(* Abstracted: who owns the order and which staff may touch it (a request  *)
(* that fails those checks changes nothing), the texts and times stored    *)
(* with a status, and the response.                                        *)
(***************************************************************************)
EXTENDS Naturals, Sequences

CONSTANTS
  Order,          \* orders already placed
  Request,        \* request slots: transactions that may be in flight at once
  NoRequest,      \* holder of a free row lock
  Routed,         \* service operations reachable from the API
  OneAtATime,     \* TRUE: no two requests on one order are ever in flight
  MaxRequests     \* bound: requests begun in a behaviour

Operation == {"change_status", "complete", "cancel", "force_cancel"}

ASSUME OrdersAssumption ==
  /\ NoRequest \notin Request
  /\ Routed \subseteq Operation
  /\ OneAtATime \in BOOLEAN
  /\ MaxRequests \in Nat

VARIABLES
  status,         \* orders.status, committed
  ready_at,       \* orders.ready_at is set
  events,         \* rows of order_events per order, in commit order
  outbox,         \* OrderStatusChanged rows of outbox_events, in commit order
  lock,           \* holder of the row lock of each order
  req,            \* request in each slot
  begun           \* requests begun so far: the clock of func.now()

vars == <<status, ready_at, events, outbox, lock, req, begun>>

-----------------------------------------------------------------------------
Status == {"PENDING", "ACCEPTED", "READY", "COMPLETED", "CANCELLED"}

ALLOWED_TRANSITIONS ==
  [s \in Status |->
     CASE s = "PENDING"  -> {"ACCEPTED"}
       [] s = "ACCEPTED" -> {"READY"}
       [] s = "READY"    -> {"COMPLETED"}
       [] OTHER          -> {}]

CANCELLABLE_STATUSES == {"PENDING", "ACCEPTED"}

(* What a request asks for.  ready_time: the body carries                  *)
(* estimated_ready_at or estimated_ready_in_minutes.                       *)
Command ==
  [op : {"change_status"}, target : Status, ready_time : BOOLEAN]
    \cup [op : {"complete"}, target : {"COMPLETED"}, ready_time : {FALSE}]
    \cup [op : {"cancel", "force_cancel"}, target : {"CANCELLED"}, ready_time : {FALSE}]

(* Definitions named Mistake_X are plausible bugs in X; nothing uses them  *)
(* but the runs that show a property notices.                              *)
Mistake_ChangeAllowed(seen, c) == c.target = "ACCEPTED" => c.ready_time

Mistake_Permitted(seen, c) == seen \in CANCELLABLE_STATUSES \cup {"READY"}

(* The checks of the four service functions, on the status they read.      *)
ChangeAllowed(seen, c) ==
  /\ c.target \in ALLOWED_TRANSITIONS[seen]
  /\ c.target = "ACCEPTED" => c.ready_time

Permitted(seen, c) ==
  \/ c.op = "change_status" /\ ChangeAllowed(seen, c)
  \/ c.op = "complete"      /\ seen = "READY"
  \/ c.op = "cancel"        /\ seen \in CANCELLABLE_STATUSES
  \/ c.op = "force_cancel"

Event == [old : Status, new : Status, at : Nat]

Stage == {"load", "flush", "commit", "publish_status", "publish_board"}
Idle == [stage |-> "idle"]
InFlight == [stage : Stage, order : Order, cmd : Command, seen : Status, at : Nat]

TypeOK ==
  /\ status \in [Order -> Status]
  /\ ready_at \in [Order -> BOOLEAN]
  /\ events \in [Order -> Seq(Event)]
  /\ outbox \in [Order -> Seq(Event)]
  /\ lock \in [Order -> Request \cup {NoRequest}]
  /\ req \in [Request -> InFlight \cup {Idle}]
  /\ begun \in Nat

Init ==
  /\ status = [o \in Order |-> "PENDING"]
  /\ ready_at = [o \in Order |-> FALSE]
  /\ events = [o \in Order |-> <<>>]
  /\ outbox = [o \in Order |-> <<>>]
  /\ lock = [o \in Order |-> NoRequest]
  /\ req = [r \in Request |-> Idle]
  /\ begun = 0

-----------------------------------------------------------------------------
Busy(o) == \E r \in Request : req[r] # Idle /\ req[r].order = o

Goto(r, s) == req' = [req EXCEPT ![r].stage = s]
Finish(r) == req' = [req EXCEPT ![r] = Idle]

(* func.now(): the start of the transaction that inserts the row.          *)
Now == begun + 1

(* The first query of the request, authentication, opens the transaction.  *)
Begin(r) ==
  /\ req[r] = Idle
  /\ begun < MaxRequests
  /\ \E o \in Order, c \in {d \in Command : d.op \in Routed} :
       /\ OneAtATime => ~Busy(o)
       /\ req' = [req EXCEPT ![r] = [stage |-> "load", order |-> o, cmd |-> c,
                                     seen |-> "PENDING", at |-> Now]]
  /\ begun' = begun + 1
  /\ UNCHANGED <<status, ready_at, events, outbox, lock>>

(* SELECT of the order, then the checks on the status read: no await lies  *)
(* between the check and the attribute writes.                             *)
Load(r) ==
  /\ req[r].stage = "load"
  /\ LET seen == status[req[r].order]
     IN  \/ /\ Permitted(seen, req[r].cmd)
            /\ req' = [req EXCEPT ![r] = [@ EXCEPT !.stage = "flush", !.seen = seen]]
         \/ /\ ~Permitted(seen, req[r].cmd)
            /\ Finish(r)
  /\ UNCHANGED <<status, ready_at, events, outbox, lock, begun>>

(* update_order_status flushes UPDATE orders ... WHERE id = :id, which     *)
(* waits for the row lock; the insert of the order event follows.          *)
Flush(r) ==
  /\ req[r].stage = "flush"
  /\ lock[req[r].order] = NoRequest
  /\ lock' = [lock EXCEPT ![req[r].order] = r]
  /\ Goto(r, "commit")
  /\ UNCHANGED <<status, ready_at, events, outbox, begun>>

(* The name of the operation logged in place of the status.                *)

(* The old status taken after the attribute was overwritten.               *)
Mistake_NewEvent(r) ==
  [old |-> req[r].cmd.target, new |-> req[r].cmd.target, at |-> req[r].at]

(* UPDATE ... WHERE status = :old, its row count ignored.                  *)
Mistake_UpdateStatus(o, e) ==
  status' = IF status[o] = e.old THEN [status EXCEPT ![o] = e.new] ELSE status

(* The stamp cleared by the next change.                                   *)
Mistake_StampReady(o, e) == ready_at' = [ready_at EXCEPT ![o] = e.new = "READY"]

(* A notification only for a change that changes something.                *)
Mistake_EnqueueEvent(o, e) ==
  outbox' = IF e.new # e.old THEN [outbox EXCEPT ![o] = Append(@, e)] ELSE outbox

(* What the transaction wrote.  SQLAlchemy writes only the attributes that *)
(* changed since the load: a forced cancel that read CANCELLED leaves the  *)
(* status column out of its UPDATE.                                        *)
NewEvent(r) == [old |-> req[r].seen, new |-> req[r].cmd.target, at |-> req[r].at]

UpdateStatus(o, e) ==
  status' = IF e.new # e.old THEN [status EXCEPT ![o] = e.new] ELSE status

StampReady(o, e) == ready_at' = [ready_at EXCEPT ![o] = @ \/ e.new = "READY"]

EnqueueEvent(o, e) == outbox' = [outbox EXCEPT ![o] = Append(@, e)]

(* session.commit() makes the row, its event and the outbox row visible    *)
(* together and frees the row.                                             *)
Commit(r) ==
  LET o == req[r].order
      e == NewEvent(r)
  IN  /\ req[r].stage = "commit"
      /\ UpdateStatus(o, e)
      /\ StampReady(o, e)
      /\ events' = [events EXCEPT ![o] = Append(@, e)]
      /\ EnqueueEvent(o, e)
      /\ lock' = [lock EXCEPT ![o] = NoRequest]
      /\ Goto(r, "publish_status")
      /\ UNCHANGED begun

(* The two Redis messages that follow the commit.                          *)
PublishStatus(r) ==
  /\ req[r].stage = "publish_status"
  /\ Goto(r, "publish_board")
  /\ UNCHANGED <<status, ready_at, events, outbox, lock, begun>>

PublishBoard(r) ==
  /\ req[r].stage = "publish_board"
  /\ Finish(r)
  /\ UNCHANGED <<status, ready_at, events, outbox, lock, begun>>

Mistake_Release(r) == UNCHANGED lock

Release(r) ==
  lock' = [o \in Order |-> IF lock[o] = r THEN NoRequest ELSE lock[o]]

(* A database or Redis error, a statement timeout or the death of the      *)
(* process: the session closes, an open transaction is rolled back.        *)
Abort(r) ==
  /\ req[r] # Idle
  /\ Release(r)
  /\ Finish(r)
  /\ UNCHANGED <<status, ready_at, events, outbox, begun>>

Step(r) ==
  Load(r) \/ Flush(r) \/ Commit(r) \/ PublishStatus(r) \/ PublishBoard(r)

Next == \E r \in Request : Begin(r) \/ Step(r) \/ Abort(r)

(* A request that can run runs; PostgreSQL queues waiters of a row lock    *)
(* in order, so a waiter is not passed over for ever.                      *)
Fairness == \A r \in Request : WF_vars(Step(r)) /\ SF_vars(Flush(r))

Spec == Init /\ [][Next]_vars /\ Fairness
=============================================================================
