--------------------------- MODULE TrackingProps ----------------------------
(***************************************************************************)
(* Properties of the live views.                                           *)
(***************************************************************************)
EXTENDS Tracking

Waits(p) == p.open /\ p.todo = <<>>
Current(p) == \A o \in Watched(p) : p.view[o] = Picture(p)[o]

(* Something is on its way that will make the socket read again.           *)
NewsComing(p) == p.inbox > 0 \/ \E r \in Request : Owes(r, p)

Excused(p) == "lost" \in p.missed \/ "late" \in p.missed

(* The page of an order subscribes before it reads: whatever is committed  *)
(* during its start or by racing requests, an old status on it will be     *)
(* replaced, unless the process that made the change died before it told,  *)
(* or told while the subscription was still on its way to Redis.           *)
TrackerInSync ==
  \A k \in Page : LET p == page[k] IN
    p.kind = "tracking" /\ Waits(p) => Current(p) \/ NewsComing(p) \/ Excused(p)

(* The pickup screen rereads all orders on any message; it is old only     *)
(* while news is coming, after such a death, or for a change published     *)
(* between its first read and the moment Redis has its subscription.       *)
BoardInSync ==
  \A k \in Page : LET p == page[k] IN
    p.kind = "board" /\ Waits(p) => Current(p) \/ NewsComing(p) \/ p.missed # {}

(* What the live pages show is the orders as they are.                     *)
PagesInSync == TrackingTypeOK /\ TrackerInSync /\ BoardInSync

(* No open socket stays behind for ever with its messages unread.          *)
SocketCatchesUp ==
  \A k \in Page : []<>(~page[k].open \/ Current(page[k]) \/ page[k].missed # {})

Over(p) == p.kind = "tracking" /\ status[p.order] \in Terminal

(* No socket and no subscription are kept for an order that has ended,     *)
(* unless its end was missed for one of the two reasons.                   *)
SocketsEnd ==
  \A k \in Page :
    page[k].open /\ Over(page[k]) ~>
      ~page[k].open \/ ~Over(page[k]) \/ Excused(page[k])
=============================================================================
