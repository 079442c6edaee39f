----------------------------- MODULE OrderViews -----------------------------
(***************************************************************************)
(* What a customer sees of an order: the page of one order, the same in    *)
(* the web client and in the Mini App, and the Mini App's banner of the    *)
(* active order.  Both keep one record in the order store and write it     *)
(* from two sides, the answers to GET requests and the messages of a       *)
(* ReliableWebSocket, whose first message is what the server has.  The     *)
(* view is chosen at the start.                                            *)
(*                                                                         *)
(* Abstracted: of an order only its status; the server sends a status as   *)
(* soon as it changes (Tracking has the rest); the heartbeat (Socket).     *)
(***************************************************************************)
EXTENDS Integers, Sequences

CONSTANTS
    Order,       \* a set of integers, the later order the greater
    Inbound,     \* bound: requests in flight at once
    MaxTaps,     \* bound: things the user starts
    MaxDrops     \* bound: connections that break

ASSUME OrderViewsAssumption ==
    /\ Order \subseteq Nat \ {0}
    /\ Inbound \in Nat \ {0} /\ MaxTaps \in Nat /\ MaxDrops \in Nat

VARIABLES
    view,        \* "page" or "banner"
    actual,      \* the status of each order; "absent" before it is placed
    route,       \* the order whose page is open, 0 if none
    shown,       \* currentOrder; of the banner, activeOrder
    sock,        \* the socket of the view
    http,        \* the requests in flight
    busy,        \* of "complete" and "cancel", those that wait for an answer
    seen,        \* order_seen_ keys of local storage
    taps, drops,
    mishap       \* what has gone wrong so far, for the properties

pageVars == <<route, busy, seen>>
viewVars == <<view, actual, pageVars, shown, sock, http, taps, drops, mishap>>

Status == {"PENDING", "ACCEPTED", "READY", "COMPLETED", "CANCELLED"}
Terminal == {"COMPLETED", "CANCELLED"}
Rank == [PENDING |-> 1, ACCEPTED |-> 2, READY |-> 3, COMPLETED |-> 4, CANCELLED |-> 4, none |-> 0]

None == [id |-> 0, status |-> "none"]
Record == [id : Order, status : Status] \union {None}
Over(r) == r.status \in Terminal
Silent == [id |-> 0, line |-> "down", wire |-> <<>>]
Channel == [id : Order, line : {"down", "up", "given up"}, wire : Seq(Status)]
Slot == 1 .. Inbound
Free == [phase |-> "free"]
Ongoing == [phase : {"sent", "answered"}, what : {"get", "list", "complete", "cancel"},
            id : Order \union {0}, for : {"load", "complete", "cancel"},
            got : Record]
Mishap == {"lost", "overtaken", "crossed", "stale", "second"}

ViewTypeOK ==
    /\ view \in {"page", "banner"}
    /\ actual \in [Order -> Status \union {"absent"}]
    /\ route \in Order \union {0}
    /\ shown \in Record
    /\ sock \in Channel \union {Silent}
    /\ http \in [Slot -> Ongoing \union {Free}]
    /\ busy \subseteq {"complete", "cancel"}
    /\ seen \subseteq Order
    /\ taps \in 0 .. MaxTaps /\ drops \in 0 .. MaxDrops
    /\ mishap \subseteq Mishap
    /\ view = "page" => sock.id = route
    /\ view = "banner" => sock.id = shown.id

Active == {o \in Order : actual[o] \in {"PENDING", "ACCEPTED", "READY"}}
Used(s) == http[s].phase # "free"
Spare == {s \in Slot : ~Used(s)}
NextSlot == CHOOSE s \in Spare : TRUE
Ask(what, id, for) ==
    [phase |-> "sent", what |-> what, id |-> id, for |-> for, got |-> None]
Dial(o) == IF o = 0 THEN Silent ELSE [id |-> o, line |-> "down", wire |-> <<>>]

(* For the page the first order is ready, the others are new.  The banner  *)
(* starts with a request for the list.                                       *)
ViewInit ==
    /\ view \in {"page", "banner"}
    /\ IF view = "page"
       THEN actual = [o \in Order |-> IF \A p \in Order : o <= p THEN "READY" ELSE "PENDING"]
       ELSE actual \in [Order -> {"PENDING", "absent"}]
    /\ route = 0 /\ shown = None /\ sock = Silent /\ busy = {} /\ seen = {}
    /\ http = [s \in Slot |->
                 IF view = "banner" /\ s = 1 THEN Ask("list", 0, "load") ELSE Free]
    /\ taps = 0 /\ drops = 0
    /\ mishap = IF \E o, p \in Active : view = "banner" /\ o # p
                THEN {"second"} ELSE {}

---------------------------------------------------------------------------
(* The server. *)
Informed(o, s) ==
    IF sock.id = o /\ sock.line = "up"
    THEN [sock EXCEPT !.wire = Append(@, s)] ELSE sock

Becomes(o, s) ==
    /\ actual' = [actual EXCEPT ![o] = s]
    /\ sock' = Informed(o, s)

(* Staff move an order on. *)
StaffMoves(o) ==
    /\ \/ actual[o] = "PENDING" /\ \E s \in {"ACCEPTED", "CANCELLED"} : Becomes(o, s)
       \/ actual[o] = "ACCEPTED" /\ Becomes(o, "READY")
       \/ actual[o] = "READY" /\ Becomes(o, "COMPLETED")
    /\ UNCHANGED <<view, pageVars, shown, http, taps, drops, mishap>>

(* The answer to the list has the latest of the active orders, or none. *)
Latest == IF Active = {} THEN {None}
          ELSE {[id |-> o, status |-> actual[o]] :
                  o \in {p \in Active : \A q \in Active : q <= p}}

May(what, s) ==
    IF what = "complete" THEN s = "READY" ELSE s \in {"PENDING", "ACCEPTED"}

Answer(s, got) ==
    http' = [http EXCEPT ![s] = [@ EXCEPT !.phase = "answered", !.got = got]]

ServeRequest(s) ==
    /\ http[s].phase = "sent"
    /\ LET q == http[s] IN
       CASE q.what = "get" ->
              /\ Answer(s, [id |-> q.id, status |-> actual[q.id]])
              /\ UNCHANGED <<actual, sock>>
         [] q.what = "list" -> (\E r \in Latest : Answer(s, r)) /\ UNCHANGED <<actual, sock>>
         [] OTHER ->
              IF May(q.what, actual[q.id])
              THEN LET next == IF q.what = "complete" THEN "COMPLETED" ELSE "CANCELLED"
                   IN Becomes(q.id, next) /\ Answer(s, [id |-> q.id, status |-> next])
              ELSE Answer(s, None) /\ UNCHANGED <<actual, sock>>
    /\ UNCHANGED <<view, pageVars, shown, taps, drops, mishap>>

---------------------------------------------------------------------------
(* The store gets another record, and the view follows. *)

(* A record that says COMPLETED is celebrated once on the page that shows   *)
(* it, whichever order it is of.                                            *)
Celebrated(r, o) ==
    IF o # 0 /\ r.status = "COMPLETED" THEN seen \union {o} ELSE seen

(* The banner dials again for every record it gets: the socket's effect     *)
(* depends on the record.                                                    *)
Follow(r) == Dial(r.id)

Shows(r) ==
    /\ shown' = r
    /\ IF view = "page"
       THEN seen' = Celebrated(r, route) /\ UNCHANGED sock
       ELSE sock' = Follow(r) /\ UNCHANGED seen

(* The socket is open: the server sends what it has.  It may break.         *)
Greeting(o) == <<actual[o]>>

SockOpens ==
    /\ sock.id # 0 /\ sock.line = "down"
    /\ sock' = [sock EXCEPT !.line = "up", !.wire = Greeting(sock.id)]
    /\ UNCHANGED <<view, actual, pageVars, shown, http, taps, drops, mishap>>

SockDrops ==
    /\ sock.line = "up" /\ drops < MaxDrops
    /\ sock' = [sock EXCEPT !.line = "down", !.wire = <<>>]
    /\ drops' = drops + 1
    /\ UNCHANGED <<view, actual, pageVars, shown, http, taps, mishap>>

Mistake_ToldReady(s) ==
    IF s \in Terminal \union {"READY"} THEN None ELSE [id |-> shown.id, status |-> s]
Told(s) == IF s \in Terminal THEN None ELSE [id |-> shown.id, status |-> s]

Deliver ==
    /\ sock.wire # <<>>
    /\ LET s == Head(sock.wire) IN
       IF view = "page"
       THEN /\ shown' = [id |-> sock.id, status |-> s]
            /\ seen' = Celebrated([id |-> sock.id, status |-> s], route)
            /\ sock' = [sock EXCEPT !.wire = Tail(@)]
       ELSE Shows(Told(s))
    /\ UNCHANGED <<view, actual, route, busy, http, taps, drops, mishap>>

---------------------------------------------------------------------------
(* The page: its route changes, to another order or away.  Closing the      *)
(* socket of the old one calls its onClose, which loads the old order again  *)
(* unless the store has one that is over.                                    *)
Loads(o) == IF o = 0 THEN {} ELSE {o}

Leaving == IF route # 0 /\ ~Over(shown) THEN {route} ELSE {}

Go(o) ==
    /\ view = "page" /\ o # route /\ taps < MaxTaps
    /\ \E s, t \in Slot :
         /\ s < t /\ Spare \intersect 1 .. t = {s, t}
         /\ http' = [u \in Slot |->
              IF u = s /\ Leaving # {} THEN Ask("get", route, "load")
              ELSE IF u = t /\ Loads(o) # {} THEN Ask("get", o, "load")
              ELSE IF Used(u) /\ o = 0 THEN [http[u] EXCEPT !.for = "load"]
              ELSE http[u]]
    /\ route' = o
    /\ sock' = Dial(o)
    /\ seen' = Celebrated(shown, o)
    /\ busy' = IF o = 0 THEN {} ELSE busy
    /\ taps' = taps + 1
    /\ mishap' = mishap \union
         IF o # 0 /\ shown.id \notin {0, o} THEN {"stale"} ELSE {}
    /\ UNCHANGED <<view, actual, shown, drops>>

(* The buttons go by the record shown, the request by the route. *)
Button(what) ==
    /\ shown.status = IF what = "complete" THEN "READY" ELSE "PENDING"
    /\ what \notin busy

Tap(what) ==
    /\ view = "page" /\ route # 0 /\ taps < MaxTaps /\ Spare # {}
    /\ Button(what)
    /\ http' = [http EXCEPT ![NextSlot] = Ask(what, route, what)]
    /\ busy' = busy \union {what}
    /\ taps' = taps + 1
    /\ UNCHANGED <<view, actual, route, seen, shown, sock, drops, mishap>>

(* The socket of a page gives up: the order is loaded a last time. *)
GivesUp ==
    /\ view = "page" /\ sock.id # 0 /\ sock.line = "down"
    /\ drops < MaxDrops /\ Spare # {}
    /\ sock' = [sock EXCEPT !.line = "given up"]
    /\ http' = IF Over(shown) THEN http
               ELSE [http EXCEPT ![NextSlot] = Ask("get", route, "load")]
    /\ drops' = drops + 1
    /\ UNCHANGED <<view, actual, pageVars, shown, taps, mishap>>

(* The banner's page places an order: it becomes the active one. *)
Place(o) ==
    /\ view = "banner" /\ actual[o] = "absent"
    /\ \A p \in Order : p < o => actual[p] # "absent"
    /\ actual' = [actual EXCEPT ![o] = "PENDING"]
    /\ Shows([id |-> o, status |-> "PENDING"])
    /\ mishap' = mishap \union (IF Active # {} THEN {"second"} ELSE {})
                        \union (IF \E s \in Slot : http[s].phase = "answered"
                                THEN {"overtaken"} ELSE {})
    /\ UNCHANGED <<view, route, busy, http, taps, drops>>

---------------------------------------------------------------------------
(* Answers. *)
Settled(q) == busy \ {q.for}

Older(r) == r.id = shown.id /\ Rank[r.status] < Rank[shown.status]

ReceiveGet(s) ==
    /\ http[s].what = "get"
    /\ LET r == http[s].got IN
       /\ Shows(r)
       /\ mishap' = mishap \union (IF r.id # route THEN {"crossed"} ELSE {})
                           \union (IF Older(r) THEN {"overtaken"} ELSE {})
    /\ busy' = Settled(http[s])
    /\ http' = [http EXCEPT ![s] = Free]

ReceiveList(s) ==
    /\ http[s].what = "list"
    /\ Shows(http[s].got)
    /\ http' = [http EXCEPT ![s] = Free]
    /\ UNCHANGED <<busy, mishap>>

ReceiveDone(s) ==
    /\ http[s].what \in {"complete", "cancel"} /\ http[s].got # None
    /\ http' = [http EXCEPT ![s] = Ask("get", http[s].id, http[s].for)]
    /\ UNCHANGED <<shown, sock, seen, busy, mishap>>

ReceiveRefused(s) ==
    /\ http[s].what \in {"complete", "cancel"} /\ http[s].got = None
    /\ http' = [http EXCEPT ![s] = Free]
    /\ busy' = Settled(http[s])
    /\ UNCHANGED <<shown, sock, seen, mishap>>

ReceiveAnswer(s) ==
    /\ http[s].phase = "answered"
    /\ ReceiveGet(s) \/ ReceiveList(s) \/ ReceiveDone(s) \/ ReceiveRefused(s)
    /\ UNCHANGED <<view, actual, route, taps, drops>>

LoseRequest(s) ==
    /\ Used(s)
    /\ http' = [http EXCEPT ![s] = Free]
    /\ busy' = Settled(http[s])
    /\ mishap' = mishap \union {"lost"}
    /\ UNCHANGED <<view, actual, route, seen, shown, sock, taps, drops>>

---------------------------------------------------------------------------
ViewNext ==
    \/ \E o \in Order : StaffMoves(o) \/ Place(o)
    \/ \E o \in Order \union {0} : Go(o)
    \/ \E what \in {"complete", "cancel"} : Tap(what)
    \/ SockOpens \/ SockDrops \/ Deliver \/ GivesUp
    \/ \E s \in Slot : ServeRequest(s) \/ ReceiveAnswer(s) \/ LoseRequest(s)

ViewSpec == ViewInit /\ [][ViewNext]_viewVars
===========================================================================
