---------------------------- MODULE DeliveryProps ---------------------------
(***************************************************************************)
(* Properties of the way from the outbox to the user.                      *)
(***************************************************************************)
EXTENDS Delivery

Waiting(q, e) == \E m \in Message : m.event = e /\ InQueue(q, m)

(* Nothing a queue was given is lost by retries, redelivery or crashes     *)
(* between effect and ack: it is still there, or had its effect, or its    *)
(* loss is on record, in the dead letter queue or as a swallowed error.    *)
AcceptedIsAccounted ==
  /\ \A e \in routed["inapp"] : Waiting("inapp", e) \/ shown[e] > 0 \/ e \in swallowed
  /\ \A e \in routed["bot"] : Waiting("bot", e) \/ e \in told \/ e \in dead

(* No retry for ever: once faults end, both queues run empty, whatever     *)
(* copies the retries made.                                                *)
QueuesDrain ==
  \A q \in Queue, e \in Event : e \in routed[q] ~> ~Waiting(q, e)

(* Only the event's own message, a redelivery of it, or a retry of the bot *)
(* stores one more notification: duplicates are bounded by the faults.     *)
ShownHasCause ==
  \A e \in Event : shown[e] <= sent[e] + cuts + faults

(* No event is lost on the way, and none is shown for nothing.             *)
DeliveryAccounted == TypeOK /\ AcceptedIsAccounted /\ ShownHasCause
=============================================================================
