------------------------------ MODULE Tracking ------------------------------
(***************************************************************************)
(* Live views of orders: the WebSockets of one order's page and of the     *)
(* pickup screen of the restaurant, on top of the order service.  Redis    *)
(* channels carry no state: a message only makes the socket read the       *)
(* database again and send what it finds.  A message published while a     *)
(* socket is not subscribed is gone.                                       *)
(*                                                                         *)
(* Abstracted: authentication (a refused socket is one that drops), pings, *)
(* the texts of messages, orders placed after the start, the comparison    *)
(* that spares a page a status it has.  A lost Redis connection raises out *)
(* of get_message and so drops the socket.                                 *)
(***************************************************************************)
EXTENDS Orders

CONSTANTS
  Page,           \* pages that keep a ReliableWebSocket
  MaxConnects     \* bound: connections opened in a behaviour

ASSUME TrackingAssumption == MaxConnects \in Nat

VARIABLES
  page,           \* each page and its socket
  connects        \* connections opened so far

tvars == <<vars, page, connects>>

-----------------------------------------------------------------------------
Terminal == {"COMPLETED", "CANCELLED"}
Columns == {"cooking", "ready", "absent"}

(* Statuses sent as they are.                                              *)

(* _build_display_board, and the query that leaves terminal orders out.    *)
Column(s) ==
  CASE s \in {"PENDING", "ACCEPTED"} -> "cooking"
    [] s = "READY"                   -> "ready"
    [] OTHER                         -> "absent"

(* The page of an order started like the screen.                           *)
Mistake_Script ==
  [tracking |-> <<"read", "subscribe">>, board |-> <<"read", "subscribe">>]

(* What a handler does before it loops.                                    *)
Script == [tracking |-> <<"subscribe", "read">>, board |-> <<"read", "subscribe">>]
Kind == DOMAIN Script

(* channel: subscribe() sends the command and does not wait for its        *)
(* confirmation, so a socket has "asked" before Redis has it "on".         *)
(* view: what was last sent for each order.  missed: why a message did not *)
(* come since the last read (a history variable): "lost", its publisher    *)
(* died before publishing; "gap", the socket had not subscribed; "late",   *)
(* Redis had not seen its subscription.                                    *)
PageType ==
  [kind : Kind, order : Order, open : BOOLEAN, todo : Seq({"subscribe", "read"}),
   channel : {"off", "asked", "on"}, inbox : Nat,
   view : [Order -> Status \cup Columns \cup {"nothing"}],
   missed : SUBSET {"lost", "gap", "late"}]

Closed(p) == [p EXCEPT !.open = FALSE, !.todo = <<>>, !.channel = "off",
                       !.inbox = 0, !.missed = {}]

Watched(p) == IF p.kind = "board" THEN Order ELSE {p.order}

Picture(p) ==
  [o \in Order |-> IF p.kind = "board" THEN Column(status[o])
                   ELSE IF o = p.order THEN status[o] ELSE "nothing"]

TrackingTypeOK ==
  /\ page \in [Page -> PageType]
  /\ \A k \in Page : page[k].kind = "board" =>
       page[k].view \in [Order -> Columns \cup {"nothing"}]
  /\ connects \in 0..MaxConnects

NewPage(kind, o) ==
  [kind |-> kind, order |-> o, open |-> FALSE, todo |-> <<>>,
   channel |-> "off", inbox |-> 0, view |-> [p \in Order |-> "nothing"], missed |-> {}]

TrackingInit ==
  /\ Init
  /\ page \in [Page -> {NewPage(kind, o) : kind \in Kind, o \in Order}]
  /\ connects = 0

-----------------------------------------------------------------------------
(* A socket's handler.                                                     *)
Connect(k) ==
  /\ ~page[k].open
  /\ connects < MaxConnects
  /\ connects' = connects + 1
  /\ page' = [page EXCEPT ![k].open = TRUE, ![k].todo = Script[page[k].kind]]
  /\ UNCHANGED vars

Due(k, step) == page[k].todo # <<>> /\ Head(page[k].todo) = step

Subscribe(k) ==
  /\ Due(k, "subscribe")
  /\ page' = [page EXCEPT ![k].channel = "asked", ![k].todo = Tail(page[k].todo)]
  /\ UNCHANGED <<vars, connects>>

(* Redis sees the subscription.                                            *)
SubscribeArrives(k) ==
  /\ page[k].channel = "asked"
  /\ page' = [page EXCEPT ![k].channel = "on"]
  /\ UNCHANGED <<vars, connects>>

(* Cancelled orders forgotten.                                             *)
Mistake_Ends(p) == p.kind = "tracking" /\ p.view[p.order] = "COMPLETED"

(* order_status_ws returns once it has sent a terminal status.             *)
Ends(p) == p.kind = "tracking" /\ p.view[p.order] \in Terminal

Read(k) ==
  /\ Due(k, "read")
  /\ LET p == [page[k] EXCEPT !.todo = Tail(page[k].todo), !.missed = {},
                              !.view = Picture(page[k])]
     IN  page' = [page EXCEPT ![k] = IF Ends(p) THEN Closed(p) ELSE p]
  /\ UNCHANGED <<vars, connects>>

(* The message handed on without a look at the database.                   *)
Mistake_Take(k) ==
  /\ page[k].open /\ page[k].todo = <<>> /\ page[k].inbox > 0
  /\ page' = [page EXCEPT ![k].inbox = @ - 1]
  /\ UNCHANGED <<vars, connects>>

(* get_message returns a message: the next thing is to read again.         *)
Take(k) ==
  /\ page[k].open /\ page[k].todo = <<>> /\ page[k].inbox > 0
  /\ page' = [page EXCEPT ![k].inbox = @ - 1, ![k].todo = <<"read">>]
  /\ UNCHANGED <<vars, connects>>

(* The client leaves, the network, Redis or the process fails.             *)
Drop(k) ==
  /\ page[k].open
  /\ page' = [page EXCEPT ![k] = Closed(page[k])]
  /\ UNCHANGED <<vars, connects>>

-----------------------------------------------------------------------------
(* The publishing side: the Redis calls of the order service.              *)
Heard(p) ==
  CASE ~p.open             -> p
    [] p.channel = "on"    -> [p EXCEPT !.inbox = @ + 1]
    [] p.channel = "asked" -> [p EXCEPT !.missed = @ \cup {"late"}]
    [] OTHER               -> [p EXCEPT !.missed = @ \cup {"gap"}]

(* The screen is told of nothing but orders to pick up.                    *)

Told(kind, r) ==
  page' = [k \in Page |->
             IF page[k].kind = kind /\ req[r].order \in Watched(page[k])
             THEN Heard(page[k]) ELSE page[k]]

TellTracking(r) == PublishStatus(r) /\ Told("tracking", r) /\ UNCHANGED connects
TellBoard(r)    == PublishBoard(r) /\ Told("board", r) /\ UNCHANGED connects

(* The channels a request in this stage has yet to publish to.             *)
Owes(r, p) ==
  /\ req[r] # Idle
  /\ req[r].order \in Watched(p)
  /\ \/ req[r].stage = "publish_status"
     \/ req[r].stage = "publish_board" /\ p.kind = "board"

Fails(r) ==
  /\ Abort(r)
  /\ page' = [k \in Page |->
                IF page[k].open /\ Owes(r, page[k])
                THEN [page[k] EXCEPT !.missed = @ \cup {"lost"}] ELSE page[k]]
  /\ UNCHANGED connects

Works(r) == (Begin(r) \/ Load(r) \/ Flush(r) \/ Commit(r)) /\ UNCHANGED <<page, connects>>

TrackingNext ==
  \/ \E k \in Page : Connect(k) \/ Subscribe(k) \/ SubscribeArrives(k) \/ Read(k) \/ Take(k) \/ Drop(k)
  \/ \E r \in Request : Works(r) \/ TellTracking(r) \/ TellBoard(r) \/ Fails(r)

(* A handler loops as long as its socket is open; a request goes on.       *)
(* Nobody has to connect, and nothing has to fail.                         *)
TrackingFairness ==
  /\ \A k \in Page : WF_tvars(Subscribe(k) \/ Read(k) \/ Take(k))
                     /\ WF_tvars(SubscribeArrives(k))
  /\ \A r \in Request : WF_tvars(TellTracking(r) \/ TellBoard(r))

TrackingSpec == TrackingInit /\ [][TrackingNext]_tvars /\ TrackingFairness
=============================================================================
