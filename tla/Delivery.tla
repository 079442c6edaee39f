------------------------------ MODULE Delivery ------------------------------
(***************************************************************************)
(* From the outbox to the user: the topic exchange copies every message to *)
(* each queue bound to it; the worker turns the messages of its queue into *)
(* rows of notifications and a Redis message, the Telegram bot sends those *)
(* of its own.  The queues of one event type are modelled; the other type  *)
(* has two more of the same kind.                                          *)
(*                                                                         *)
(* Both consumers hold many messages at once and settle them in any order, *)
(* so a queue is the number of its messages in each state.                 *)
(***************************************************************************)
EXTENDS Outbox

CONSTANTS
  RetryLimit,     \* the literal 3 of the bot's _process
  MaxCuts         \* bound: messages given back by a consumer that went away

ASSUME DeliveryAssumption == RetryLimit \in Nat /\ MaxCuts \in Nat

Queue == {"inapp", "bot"}

(* retry: the x-retry-count header.  ready: in the queue; taken: with the  *)
(* consumer; handled: its effect is there, the ack is not; copied: the bot *)
(* has published its retry.                                                *)
Message == [event : Event, retry : 0..RetryLimit,
            at : {"ready", "taken", "handled", "copied"}]

VARIABLES
  bound,          \* queues declared and bound: durable, so for good
  msgs,           \* number of messages of each queue in each state
  shown,          \* in-app notifications stored for each event
  told,           \* events the bot's handler finished with
  dead,           \* events in the bot's dead letter queue
  swallowed,      \* events whose in-app handler raised
  routed,         \* history: events each queue was given by the outbox
  cuts

delivery_vars == <<bound, msgs, shown, told, dead, swallowed, routed, cuts>>
vars == <<outbox_vars, delivery_vars>>

TypeOK ==
  /\ OutboxTypeOK
  /\ bound \in [Queue -> BOOLEAN]
  /\ msgs \in [Queue -> [Message -> Nat]]
  /\ shown \in [Event -> Nat]
  /\ told \subseteq Event /\ dead \subseteq Event /\ swallowed \subseteq Event
  /\ routed \in [Queue -> SUBSET Event]
  /\ cuts \in Nat

Init ==
  /\ OutboxInit
  /\ bound = [q \in Queue |-> FALSE]
  /\ msgs = [q \in Queue |-> [m \in Message |-> 0]]
  /\ shown = [e \in Event |-> 0]
  /\ told = {} /\ dead = {} /\ swallowed = {}
  /\ routed = [q \in Queue |-> {}]
  /\ cuts = 0

-----------------------------------------------------------------------------
InQueue(q, m) == msgs[q][m] > 0
Msg(e, n, s) == [event |-> e, retry |-> n, at |-> s]
Shift(m, s) == [m EXCEPT !.at = s]

Without(f, m) == [f EXCEPT ![m] = @ - 1]
With(f, m) == [f EXCEPT ![m] = @ + 1]

Move(q, m, s) == msgs' = [msgs EXCEPT ![q] = With(Without(@, m), Shift(m, s))]
Remove(q, m) == msgs' = [msgs EXCEPT ![q] = Without(@, m)]

(* The exchange gives a message to the queues bound now; a message without *)
(* a queue is returned to a publisher that does not look at it.            *)
Route(m) ==
  /\ msgs' = [q \in Queue |-> IF bound[q] THEN With(msgs[q], m) ELSE msgs[q]]
  /\ routed' = [q \in Queue |-> IF bound[q] THEN routed[q] \cup {m.event} ELSE routed[q]]

(* start_consuming and start_notification_consumer at their first start.   *)
(* The worker starts its outbox publisher before it binds.                 *)
Bind(q) ==
  /\ ~bound[q]
  /\ bound' = [bound EXCEPT ![q] = TRUE]
  /\ UNCHANGED <<outbox_vars, msgs, shown, told, dead, swallowed, routed, cuts>>

(* The steps of the outbox; those the broker accepts are routed.           *)
PublishRouted(w, e) ==
  /\ PublishConfirmed(w, e) \/ PublishUnconfirmed(w, e)
  /\ Route(Msg(e, 0, "ready"))
  /\ UNCHANGED <<bound, shown, told, dead, swallowed, cuts>>

OutboxStep ==
  /\ \/ \E e \in Event : Enqueue(e) \/ DelayPasses(e)
     \/ \E w \in Worker : Poll(w) \/ CommitBatch(w) \/ TickFails(w)
     \/ \E w \in Worker, e \in Event : PublishFailed(w, e)
     \/ BrokerDown \/ BrokerUp
  /\ UNCHANGED delivery_vars

Take(q, m) ==
  /\ m.at = "ready" /\ InQueue(q, m) /\ up
  /\ Move(q, m, "taken")
  /\ UNCHANGED <<outbox_vars, bound, shown, told, dead, swallowed, routed, cuts>>

(* _notify_user commits the notification; the Redis message after it may   *)
(* fail, which is swallowed like any error of the handler.                 *)
Show(m) ==
  /\ m.at = "taken" /\ InQueue("inapp", m)
  /\ shown' = [shown EXCEPT ![m.event] = @ + 1]
  /\ Move("inapp", m, "handled")
  /\ UNCHANGED <<outbox_vars, bound, told, dead, swallowed, routed, cuts>>

(* The handler raises before its commit: logged, and acked all the same.   *)
Swallow(m) ==
  /\ m.at = "taken" /\ InQueue("inapp", m) /\ faults < MaxFaults
  /\ faults' = faults + 1
  /\ swallowed' = swallowed \cup {m.event}
  /\ Move("inapp", m, "handled")
  /\ UNCHANGED <<row, due, task, up, sent, outages, bound, shown, told, dead, routed, cuts>>

(* The handler returns: the user was told, has no Telegram, has blocked    *)
(* the bot, or Telegram refused; an error of send_message is only logged.  *)
Tell(m) ==
  /\ m.at = "taken" /\ InQueue("bot", m)
  /\ told' = told \cup {m.event}
  /\ Move("bot", m, "handled")
  /\ UNCHANGED <<outbox_vars, bound, shown, dead, swallowed, routed, cuts>>

(* exchange.publish(new_message, routing_key): a copy with one more retry  *)
(* for every queue bound to the key, not for the bot's alone.              *)
Copy(m) ==
  LET copy == Msg(m.event, m.retry + 1, "ready") IN
  msgs' = [q \in Queue |->
             LET f == IF q = "bot" THEN With(Without(msgs[q], m), Shift(m, "copied"))
                      ELSE msgs[q]
             IN  IF bound[q] THEN With(f, copy) ELSE f]

(* The handler raises (Redis does not answer): the bot retries, ...        *)
Retry(m) ==
  /\ m.at = "taken" /\ InQueue("bot", m) /\ m.retry < RetryLimit
  /\ up /\ faults < MaxFaults
  /\ faults' = faults + 1
  /\ Copy(m)
  /\ UNCHANGED <<row, due, task, up, sent, outages, bound, shown, told, dead,
                 swallowed, routed, cuts>>

(* Definitions named Mistake_X are plausible bugs in X; nothing uses them  *)
(* but the runs that show a property notices.  Here: the message is        *)
(* rejected, then settled once more on leaving its context.                *)

(* ... or has retried enough and rejects, to the dead letter queue.        *)
Reject(m) ==
  /\ m.at = "taken" /\ InQueue("bot", m) /\ m.retry = RetryLimit
  /\ faults < MaxFaults
  /\ faults' = faults + 1
  /\ dead' = dead \cup {m.event}
  /\ Remove("bot", m)
  /\ UNCHANGED <<row, due, task, up, sent, outages, bound, shown, told, swallowed,
                 routed, cuts>>

(* Acked before the handler runs.                                          *)
Mistake_Acked == {"taken", "handled", "copied"}

Acked == {"handled", "copied"}

(* requeue=True.                                                           *)
Mistake_Ack(q, m) ==
  /\ m.at \in Acked /\ InQueue(q, m) /\ up
  /\ Move(q, m, "ready")
  /\ UNCHANGED <<outbox_vars, bound, shown, told, dead, swallowed, routed, cuts>>

Ack(q, m) ==
  /\ m.at \in Acked /\ InQueue(q, m) /\ up
  /\ Remove(q, m)
  /\ UNCHANGED <<outbox_vars, bound, shown, told, dead, swallowed, routed, cuts>>

(* The consumer or its connection goes away before the ack, or the copy of *)
(* a retry cannot be published: the broker gives the message again.        *)
Redeliver(q, m) ==
  /\ m.at # "ready" /\ InQueue(q, m) /\ cuts < MaxCuts
  /\ cuts' = cuts + 1
  /\ Move(q, m, "ready")
  /\ UNCHANGED <<outbox_vars, bound, shown, told, dead, swallowed, routed>>

Handle(m) == Show(m) \/ Tell(m)

Next ==
  \/ OutboxStep
  \/ \E w \in Worker, e \in Event : PublishRouted(w, e)
  \/ \E q \in Queue : Bind(q)
  \/ \E m \in Message : Handle(m) \/ Swallow(m) \/ Retry(m) \/ Reject(m)
  \/ \E q \in Queue, m \in Message : Take(q, m) \/ Ack(q, m) \/ Redeliver(q, m)

(* The broker pushes what it has to the consumers, who handle it; only     *)
(* faults, of which there are finitely many, lead elsewhere.               *)
Fairness ==
  /\ WF_vars(OutboxStep /\ BrokerUp)
  /\ \A q \in Queue, m \in Message : WF_vars(Take(q, m)) /\ WF_vars(Ack(q, m))
  /\ \A m \in Message : WF_vars(Show(m)) /\ WF_vars(Tell(m))

Spec == Init /\ [][Next]_vars /\ Fairness
=============================================================================
