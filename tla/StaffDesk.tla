----------------------------- MODULE StaffDesk -----------------------------
(***************************************************************************)
(* The board of a restaurant's staff (StaffDashboardPage): the orders as   *)
(* the server has them, the board loaded whole by each GET, the socket     *)
(* whose messages only say "something changed", the one slot for the       *)
(* button that waits, the card that is dragged and the order whose time is *)
(* asked for, both as they were then; and the stop list with its one dish. *)
(*                                                                         *)
(* Abstracted: of an order only its status; a commit and its message are   *)
(* one step (Tracking has them apart); the profile is loaded.              *)
(***************************************************************************)
EXTENDS Integers

CONSTANTS
    Ticket,        \* the orders of the restaurant, integers above 0
    Lines,         \* bound: requests in flight at once
    MaxClicks,     \* bound: what the staff and the customers start
    MaxOutages     \* bound: connections that break, requests that fail

ASSUME StaffDeskAssumption ==
    /\ Ticket \subseteq Nat \ {0} /\ Lines \in Nat \ {0}
    /\ MaxClicks \in Nat /\ MaxOutages \in Nat

VARIABLES
    ticket,        \* the status of each order at the server
    tab,
    feed, nudges,  \* the socket, and how many messages are on the way
    board, known,  \* orders, prevOrderIds
    alert,         \* newOrderAlert
    ever,          \* the orders the board has ever had
    updating,      \* the order whose button waits, 0 if none
    held, asked,   \* draggingOrderRef, etaOrder
    dish, dishShown, \* is_available at the server and on the page
    lines,         \* the requests in flight
    clicks, outages,
    fault          \* why the board may be behind

deskPage == <<tab, board, known, alert, ever, updating, held, asked, dishShown>>
deskVars == <<ticket, deskPage, feed, nudges, dish, lines, clicks, outages, fault>>

TicketStatus == {"PENDING", "ACCEPTED", "READY", "COMPLETED", "CANCELLED"}
NEXT_STATUS == [PENDING |-> "ACCEPTED", ACCEPTED |-> "READY", READY |-> "COMPLETED"]
Absent == "absent"
Nothing == [id |-> 0, status |-> Absent]
Card == [id : Ticket, status : TicketStatus] \union {Nothing}
Line == 1 .. Lines
Hung == [at |-> "hung"]
OnLine == [at : {"sent", "answered", "refused"}, what : {"get", "set", "dish"},
           id : Ticket \union {0}, to : TicketStatus \union {"on", "off"},
           for : Ticket \union {0}, got : [Ticket -> TicketStatus \union {Absent}]]
Fault == {"unheard", "overtaken", "lost", "shared", "twice"}

DeskTypeOK ==
    /\ ticket \in [Ticket -> TicketStatus \union {Absent}]
    /\ tab \in {"orders", "menu"}
    /\ feed \in {"closed", "down", "on"} /\ nudges \in Nat
    /\ board \in [Ticket -> (TicketStatus \ {"COMPLETED"}) \union {Absent}]
    /\ known = {t \in Ticket : board[t] # Absent}
    /\ alert \in BOOLEAN /\ ever \subseteq Ticket
    /\ updating \in Ticket \union {0}
    /\ held \in Card /\ asked \in Card
    /\ dish \in {"on", "off"} /\ dishShown \in {"on", "off"}
    /\ lines \in [Line -> OnLine \union {Hung}]
    /\ clicks \in 0 .. MaxClicks /\ outages \in 0 .. MaxOutages
    /\ fault \subseteq Fault
    /\ feed = "closed" <=> tab = "menu"

Busy(what) == {l \in Line : lines[l].at # "hung" /\ lines[l].what \in what}
FreeLines == {l \in Line : lines[l].at = "hung"}
NextLine == CHOOSE l \in FreeLines : TRUE
Query(what, id, to) ==
    [at |-> "sent", what |-> what, id |-> id, to |-> to, for |-> id,
     got |-> [t \in Ticket |-> Absent]]
Dialled(what, id, to) == [lines EXCEPT ![NextLine] = Query(what, id, to)]

(* The page has its profile: the tab of the orders is opened. *)
DeskInit ==
    /\ ticket \in [Ticket -> {"PENDING", Absent}]
    /\ \A t, u \in Ticket : t < u /\ ticket[t] = Absent => ticket[u] = Absent
    /\ tab = "orders"
    /\ feed = "down" /\ nudges = 0
    /\ board = [t \in Ticket |-> Absent] /\ known = {} /\ alert = FALSE /\ ever = {}
    /\ updating = 0 /\ held = Nothing /\ asked = Nothing
    /\ dish = "on" /\ dishShown = "on"
    /\ lines = [l \in Line |-> IF l = 1 THEN Query("get", 0, "on") ELSE Hung]
    /\ clicks = 0 /\ outages = 0 /\ fault = {}

---------------------------------------------------------------------------
(* The server. *)
Click == clicks < MaxClicks /\ clicks' = clicks + 1

Nudged == IF feed = "on" THEN nudges + 1 ELSE nudges

Turns(t, s) ==
    /\ ticket' = [ticket EXCEPT ![t] = s]
    /\ nudges' = Nudged
    /\ fault' = IF feed = "on" THEN fault ELSE fault \union {"unheard"}

(* A customer places an order, cancels it or takes it. *)
Elsewhere(t) ==
    /\ \/ ticket[t] = Absent /\ Turns(t, "PENDING")
       \/ ticket[t] = "PENDING" /\ Turns(t, "CANCELLED")
       \/ ticket[t] = "READY" /\ Turns(t, "COMPLETED")
    /\ Click
    /\ UNCHANGED <<deskPage, feed, dish, lines, outages>>

Allows(t, s) ==
    IF s = "CANCELLED" THEN ticket[t] \in {"PENDING", "ACCEPTED"}
    ELSE ticket[t] \in DOMAIN NEXT_STATUS /\ NEXT_STATUS[ticket[t]] = s

ServeLine(l) ==
    LET q == lines[l] IN
    /\ q.at = "sent"
    /\ \/ /\ q.what = "get"
          /\ lines' = [lines EXCEPT ![l].at = "answered", ![l].got = ticket]
          /\ UNCHANGED <<ticket, nudges, dish, fault>>
       \/ /\ q.what = "set" /\ Allows(q.id, q.to)
          /\ Turns(q.id, q.to)
          /\ lines' = [lines EXCEPT ![l].at = "answered"]
          /\ UNCHANGED dish
       \/ /\ q.what = "set" /\ ~Allows(q.id, q.to)
          /\ lines' = [lines EXCEPT ![l].at = "refused"]
          /\ UNCHANGED <<ticket, nudges, dish, fault>>
       \/ /\ q.what = "dish"
          /\ dish' = q.to
          /\ lines' = [lines EXCEPT ![l].at = "answered"]
          /\ UNCHANGED <<ticket, nudges, fault>>
    /\ UNCHANGED <<deskPage, feed, clicks, outages>>

LoseLine(l) ==
    /\ lines[l].at \in {"sent", "answered"} /\ outages < MaxOutages
    /\ lines' = [lines EXCEPT ![l].at = "refused"]
    /\ outages' = outages + 1
    /\ fault' = IF lines[l].at = "answered" \/ lines[l].what = "get"
                THEN fault \union {"lost"} ELSE fault
    /\ UNCHANGED <<ticket, deskPage, feed, nudges, dish, clicks>>

---------------------------------------------------------------------------
(* The socket.  What changes before it is on is heard of by nobody, and its   *)
(* opening loads nothing.                                                       *)
FeedOpens ==
    /\ feed = "down"
    /\ feed' = "on"
    /\ UNCHANGED <<ticket, deskPage, nudges, dish, lines, clicks, outages, fault>>

FeedBreaks ==
    /\ feed = "on" /\ outages < MaxOutages
    /\ feed' = "down" /\ nudges' = 0 /\ outages' = outages + 1
    /\ fault' = IF nudges > 0 THEN fault \union {"unheard"} ELSE fault
    /\ UNCHANGED <<ticket, deskPage, dish, lines, clicks>>

(* Whatever it says, a message loads the board again. *)
Nudge ==
    /\ nudges > 0 /\ FreeLines # {}
    /\ nudges' = nudges - 1
    /\ lines' = Dialled("get", 0, "on")
    /\ UNCHANGED <<ticket, deskPage, feed, dish, clicks, outages, fault>>

---------------------------------------------------------------------------
(* The staff. *)
(* The tabs: the orders are loaded and listened to while theirs is open. *)
OpenOrders ==
    /\ tab = "menu" /\ Click /\ FreeLines # {}
    /\ tab' = "orders" /\ feed' = "down" /\ lines' = Dialled("get", 0, "on")
    /\ UNCHANGED <<ticket, board, known, alert, ever, updating, held, asked,
                   dish, dishShown, nudges, outages, fault>>

OpenMenu ==
    /\ tab = "orders" /\ Click
    /\ tab' = "menu" /\ feed' = "closed" /\ nudges' = 0 /\ held' = Nothing
    /\ fault' = IF nudges > 0 THEN fault \union {"unheard"} ELSE fault
    /\ UNCHANGED <<ticket, board, known, alert, ever, updating, asked,
                   dish, dishShown, lines, outages>>

(* The slot of the waiting button is one for all orders. *)
AskForStatus(t, s) ==
    /\ FreeLines # {}
    /\ lines' = Dialled("set", t, s)
    /\ updating' = t
    /\ fault' = fault \union
         (IF \E l \in Line : lines[l].at # "hung" /\ lines[l].for # 0 THEN {"shared"} ELSE {})

(* A new order is accepted at once, or its time is asked for first, as the     *)
(* box "autoEta" says, which may be ticked at any time.                         *)
TriggerCooking(card) ==
    \/ AskForStatus(card.id, "ACCEPTED") /\ UNCHANGED asked
    \/ asked' = card /\ UNCHANGED <<lines, updating, fault>>

CanPress(t) == tab = "orders" /\ updating # t /\ Click

Advance(t) ==
    /\ board[t] \in DOMAIN NEXT_STATUS /\ CanPress(t)
    /\ IF board[t] = "PENDING"
       THEN TriggerCooking([id |-> t, status |-> board[t]])
       ELSE AskForStatus(t, NEXT_STATUS[board[t]]) /\ UNCHANGED asked
    /\ UNCHANGED <<ticket, tab, feed, nudges, board, known, alert, ever, held,
                   dish, dishShown, outages>>

CancelCard(t) ==
    /\ board[t] \in {"PENDING", "ACCEPTED"} /\ CanPress(t)
    /\ AskForStatus(t, "CANCELLED")
    /\ UNCHANGED <<ticket, tab, feed, nudges, board, known, alert, ever, held,
                   asked, dish, dishShown, outages>>

(* The card that is dragged keeps the status it had; a drop asks no button. *)
Drag(t) ==
    /\ tab = "orders" /\ held = Nothing /\ board[t] \in {"PENDING", "ACCEPTED"} /\ Click
    /\ held' = [id |-> t, status |-> board[t]]
    /\ UNCHANGED <<ticket, tab, feed, nudges, board, known, alert, ever, updating,
                   asked, dish, dishShown, lines, outages, fault>>

Drop ==
    /\ held # Nothing
    /\ held' = Nothing
    /\ \/ held.status = "PENDING" /\ TriggerCooking(held)
       \/ held.status = "ACCEPTED" /\ AskForStatus(held.id, "READY") /\ UNCHANGED asked
       \/ UNCHANGED <<asked, lines, updating, fault>>
    /\ UNCHANGED <<ticket, tab, feed, nudges, board, known, alert, ever,
                   dish, dishShown, clicks, outages>>

(* The time is given, or not. *)
ConfirmEta ==
    /\ asked # Nothing /\ updating # asked.id /\ Click
    /\ asked' = Nothing
    /\ AskForStatus(asked.id, "ACCEPTED")
    /\ UNCHANGED <<ticket, tab, feed, nudges, board, known, alert, ever, held,
                   dish, dishShown, outages>>

DismissEta ==
    /\ asked # Nothing
    /\ asked' = Nothing
    /\ UNCHANGED <<ticket, tab, feed, nudges, board, known, alert, ever, held,
                   updating, dish, dishShown, lines, clicks, outages, fault>>

DismissAlert ==
    /\ alert
    /\ alert' = FALSE
    /\ UNCHANGED <<ticket, tab, feed, nudges, board, known, ever, held, updating,
                   asked, dish, dishShown, lines, clicks, outages, fault>>

(* A dish is switched on the page at once. *)
ToggleDish ==
    /\ tab = "menu" /\ Click /\ FreeLines # {}
    /\ LET to == IF dishShown = "on" THEN "off" ELSE "on" IN
       dishShown' = to /\ lines' = Dialled("dish", 0, to)
    /\ fault' = IF Busy({"dish"}) # {} THEN fault \union {"twice"} ELSE fault
    /\ UNCHANGED <<ticket, tab, feed, nudges, board, known, alert, ever, held,
                   updating, asked, dish, outages>>

---------------------------------------------------------------------------
(* Answers.  Whatever arrives is the board, all but what is completed. *)
Shown(got) == [t \in Ticket |-> IF got[t] = "COMPLETED" THEN Absent ELSE got[t]]

(* A board that had orders alerts to one it did not have. *)
Alerted(ids) == alert \/ (known # {} /\ ~(ids \subseteq known))

ShowBoard(got) ==
    LET list == Shown(got)
        ids == {t \in Ticket : list[t] # Absent} IN
    /\ board' = list
    /\ known' = ids
    /\ ever' = ever \union ids
    /\ alert' = Alerted(ids)

(* A board as the server has it, with no other on the way, is whole again. *)
After(l) ==
    IF lines[l].got = ticket /\ nudges = 0 /\ Busy({"get", "set"}) = {l}
    THEN fault \ {"unheard", "overtaken"}
    ELSE IF lines[l].got # ticket THEN fault \union {"overtaken"} ELSE fault

Mistake_Freed(l) == IF lines[l].for # 0 /\ lines[l].at = "answered" THEN 0 ELSE updating
Freed(l) == IF lines[l].for # 0 THEN 0 ELSE updating

ReceiveBoard(l) ==
    /\ lines[l].what = "get" /\ lines[l].at = "answered"
    /\ ShowBoard(lines[l].got)
    /\ fault' = After(l)
    /\ updating' = Freed(l)
    /\ lines' = [lines EXCEPT ![l] = Hung]
    /\ UNCHANGED dishShown

(* What was changed is loaded; the button waits for that as well. *)
ReceiveSet(l) ==
    /\ lines[l].what = "set" /\ lines[l].at = "answered"
    /\ lines' = [lines EXCEPT ![l] = [Query("get", 0, "on") EXCEPT !.for = lines[l].id]]
    /\ UNCHANGED <<board, known, alert, ever, updating, dishShown, fault>>

(* Errors change nothing but the button: the board stays as it is. *)
ReceiveFailure(l) ==
    /\ lines[l].at = "refused" /\ lines[l].what # "dish"
    /\ updating' = Freed(l)
    /\ lines' = [lines EXCEPT ![l] = Hung]
    /\ UNCHANGED <<board, known, alert, ever, dishShown, fault>>

DishAfter(q) == IF q.at = "answered" THEN dishShown ELSE IF q.to = "on" THEN "off" ELSE "on"

ReceiveDish(l) ==
    /\ lines[l].what = "dish" /\ lines[l].at # "sent"
    /\ dishShown' = DishAfter(lines[l])
    /\ lines' = [lines EXCEPT ![l] = Hung]
    /\ UNCHANGED <<board, known, alert, ever, updating, fault>>

ReceiveLine(l) ==
    /\ lines[l].at \in {"answered", "refused"}
    /\ ReceiveBoard(l) \/ ReceiveSet(l) \/ ReceiveFailure(l) \/ ReceiveDish(l)
    /\ UNCHANGED <<ticket, tab, feed, nudges, held, asked, dish, clicks, outages>>

---------------------------------------------------------------------------
DeskNext ==
    \/ \E t \in Ticket : Elsewhere(t) \/ Advance(t) \/ CancelCard(t) \/ Drag(t)
    \/ \E l \in Line : ServeLine(l) \/ LoseLine(l) \/ ReceiveLine(l)
    \/ FeedOpens \/ FeedBreaks \/ Nudge
    \/ OpenOrders \/ OpenMenu \/ Drop \/ ConfirmEta \/ DismissEta \/ DismissAlert
    \/ ToggleDish

DeskSpec == DeskInit /\ [][DeskNext]_deskVars
===========================================================================
