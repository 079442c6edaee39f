----------------------------- MODULE OutboxProps ----------------------------
(***************************************************************************)
(* Properties of the transactional outbox.                                 *)
(***************************************************************************)
EXTENDS Outbox

(* A row is PUBLISHED only when the broker has accepted its message: not   *)
(* when an outage falls between poll and publish, nor when another worker  *)
(* held the same row.                                                      *)
PublishedWasSent == \A e \in Event : row[e] = "PUBLISHED" => sent[e] > 0

(* A worker that failed to publish a row, with its stale copy of it, never *)
(* takes back what another worker achieved.                                *)
PublishedIsFinal ==
  [][\A e \in Event : row[e] = "PUBLISHED" => row'[e] = "PUBLISHED"]_outbox_vars

(* At least once, but not without end: every copy of a message beyond the  *)
(* first has its cause, another worker that held the row or a tick or      *)
(* confirmation that was lost.                                             *)
CopiesHaveCause == \A e \in Event : sent[e] <= Cardinality(Worker) + faults

(* README.md:86-87: no notification is lost while the broker is away.  A   *)
(* committed row is published, after however many outages and restarts.    *)
EveryRowPublished ==
  \A e \in Event : row[e] = "PENDING" ~> row[e] = "PUBLISHED"
=============================================================================
