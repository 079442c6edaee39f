------------------------------ MODULE Checkout ------------------------------
(***************************************************************************)
(* The cart and the placing of an order, as a browser sees them: the order *)
(* store (useOrderStore), the cart drawer with the page that owns it, and  *)
(* the cart the server keeps as one value per user.  The store changes its *)
(* own cart first and sends the whole of it; answers come back in any      *)
(* order, or not at all.  The order assistant of the web client changes    *)
(* the same server cart.                                                   *)
(***************************************************************************)
EXTENDS Integers, FiniteSets

CONSTANTS
    App,         \* the clients to look at, of {"web", "mini"}
    Item,        \* dishes with their options: the lines a cart can have
    Restaurant,
    Home,        \* the restaurant of a line
    None,
    Slot,        \* bound: requests in flight at once
    MaxQty,      \* bound: quantity of each line
    MaxSends     \* bound: things the user starts

ASSUME CheckoutAssumption ==
    /\ App \subseteq {"web", "mini"} /\ App # {}
    /\ Home \in [Item -> Restaurant] /\ None \notin Item \union Restaurant
    /\ Slot # {} /\ MaxQty \in [Item -> Nat \ {0}] /\ MaxSends \in Nat

VARIABLES
    app,         \* which client this is
    cart, rest,  \* cart and cartRestaurantId of the store
    saved,       \* the cart the server keeps
    call,        \* the requests in flight
    clock,       \* requests sent so far, their time stamps
    newest,      \* the stamp of the last request that the store's cart went out
                 \* with, or came in with
    drawer,      \* the cart drawer is open
    sheet,       \* the line shown in the drawer's product sheet
    asking,      \* the line the Mini App asks about: replace the cart?
    promo,       \* the restaurant of the applied promo code
    placing,     \* isLoading of the checkout
    error,       \* the checkout shows an error
    attempt,     \* the stamp of the last attempt to place an order
    agent,       \* the order assistant
    placed,      \* orders the server has placed
    round,       \* carts filled so far: an emptied cart starts the next
    sends,
    past         \* what has gone wrong so far, for the properties

store == <<cart, rest, promo, round>>
page == <<drawer, sheet, asking, placing, error, attempt>>
checkoutVars == <<app, store, saved, call, clock, newest, page, agent, placed, sends, past>>

Bag == {b \in [Item -> Nat] : \A i \in Item : b[i] <= MaxQty[i]}
Empty == [i \in Item |-> 0]
Stored == [items : Bag, rest : Restaurant \union {None}]
Nothing == [items |-> Empty, rest |-> None]

Kind == {"get", "put", "delete", "repeat", "order", "finish", "check"}
Writes == {"put", "delete", "repeat", "finish"}
Idle == [phase |-> "idle"]
Call ==
    [phase : {"sent", "answered"}, kind : Kind, body : Stored, n : Nat,
     ok : BOOLEAN, own : BOOLEAN, deaf : BOOLEAN, round : Nat]

Event == {"lost", "overtaken", "agent", "order lost", "clear lost", "reloaded",
          "reopened", "edited", "switched", "late check"}

CheckoutTypeOK ==
    /\ app \in App
    /\ cart \in Bag /\ rest \in Restaurant \union {None}
    /\ rest = None <=> cart = Empty
    /\ saved \in Stored
    /\ call \in [Slot -> Call \union {Idle}]
    /\ clock \in Nat /\ newest \in 0 .. clock /\ attempt \in 0 .. clock
    /\ drawer \in BOOLEAN /\ placing \in BOOLEAN /\ error \in BOOLEAN
    /\ sheet \in Item \union {None} /\ asking \in Item \union {None}
    /\ promo \in Restaurant \union {None}
    /\ agent \in {Idle, [phase |-> "working"], [phase |-> "placed"]} \union
                 [phase : {"read"}, seen : Stored]
    /\ placed \subseteq [n : Nat, round : Nat, items : Bag, rest : Restaurant]
    /\ round \in Nat /\ sends \in 0 .. MaxSends
    /\ past \subseteq Event

Busy(c) == call[c].phase # "idle"
Ordering(c) == Busy(c) /\ call[c].kind = "order"
Local == [items |-> cart, rest |-> rest]
Only(i) == [Empty EXCEPT ![i] = 1]
AtMost(a, b) == \A i \in Item : a[i] <= b[i]

---------------------------------------------------------------------------
(* The page has just loaded and asks for the cart. *)
Request(kind, body, n) ==
    [phase |-> "sent", kind |-> kind, body |-> body, n |-> n, ok |-> FALSE,
     own |-> TRUE, deaf |-> FALSE, round |-> 0]

CheckoutInit ==
    /\ app \in App
    /\ cart = Empty /\ rest = None
    /\ saved \in {Nothing} \union {[items |-> Only(i), rest |-> Home[i]] : i \in Item}
    /\ \E first \in Slot :
         call = [c \in Slot |-> IF c = first THEN Request("get", Nothing, 1) ELSE Idle]
    /\ clock = 1 /\ newest = 0 /\ attempt = 0
    /\ drawer = FALSE /\ sheet = None /\ asking = None /\ promo = None
    /\ placing = FALSE /\ error = FALSE
    /\ agent = Idle
    /\ placed = {} /\ round = 0 /\ sends = 0 /\ past = {}

(* A request goes out in slot c. *)
SendIn(c, kind, body) ==
    /\ call' = [call EXCEPT ![c] = Request(kind, body, clock + 1)]
    /\ clock' = clock + 1
    /\ newest' = IF kind \in Writes THEN clock + 1 ELSE newest

(* The store gets another cart.  The drawer forgets the promo code when the *)
(* restaurant changes.                                                       *)
Holds(items, r) ==
    /\ cart' = items /\ rest' = r
    /\ promo' = IF r = rest THEN promo ELSE None
    /\ round' = IF items = Empty /\ cart # Empty THEN round + 1 ELSE round

Edited == IF \E c \in Slot : Ordering(c) THEN {"edited"} ELSE {}

(* The drawer shows nothing when the cart is empty. *)
Shown == drawer /\ cart # Empty

(* The user may act: no dialog is in the way and the bound is not reached.  *)
Free(c) == ~Busy(c) /\ sends < MaxSends /\ asking = None

---------------------------------------------------------------------------
(* The store: addToCart, removeFromCart, clearCart, repeatOrder. *)
Joins(i, r) == rest \in {None, r}

AddToCart(c, i, r) ==
    /\ LET items == IF Joins(i, r) THEN [cart EXCEPT ![i] = @ + 1] ELSE Only(i)
       IN /\ items[i] <= MaxQty[i]
          /\ Holds(items, r)
          /\ SendIn(c, "put", [items |-> items, rest |-> r])
    /\ past' = past \union Edited \union
               (IF Home[i] # r THEN {"switched"} ELSE {})

Counted(c) ==
    /\ Free(c)
    /\ sends' = sends + 1
    /\ UNCHANGED <<app, saved, agent, placed>>

(* From the page of a restaurant.  The web client replaces a cart of        *)
(* another restaurant, the Mini App asks first.                              *)
AddFromMenu(c, i) ==
    /\ Counted(c) /\ ~Shown
    /\ app = "web" \/ Joins(i, Home[i])
    /\ AddToCart(c, i, Home[i])
    /\ UNCHANGED page

AskToReplace(i) ==
    /\ app = "mini" /\ ~Shown /\ asking = None /\ sends < MaxSends
    /\ ~Joins(i, Home[i])
    /\ asking' = i
    /\ UNCHANGED <<app, store, saved, call, clock, newest, drawer, sheet, placing,
                   error, attempt, agent, placed, sends, past>>

AnswerReplace(c, confirmed) ==
    /\ asking # None
    /\ asking' = None
    /\ IF confirmed
       THEN /\ ~Busy(c)
            /\ Holds(Only(asking), Home[asking])
            /\ SendIn(c, "put", [items |-> Only(asking), rest |-> Home[asking]])
            /\ sends' = sends + 1
            /\ past' = past \union Edited
       ELSE UNCHANGED <<store, call, clock, newest, sends, past>>
    /\ UNCHANGED <<app, saved, drawer, sheet, placing, error, attempt, agent, placed>>

(* The drawer's own buttons. *)
More(c, i) ==
    /\ Counted(c) /\ Shown /\ sheet = None
    /\ cart[i] > 0
    /\ AddToCart(c, i, rest)
    /\ UNCHANGED page

Left(items) == IF items = Empty THEN None ELSE rest

(* _syncCart has nothing to send for a cart of no restaurant: the last line *)
(* removed clears the server's cart.                                         *)
Sync(c, items, r) ==
    IF r = None THEN UNCHANGED <<call, clock, newest>>
    ELSE SendIn(c, "put", [items |-> items, rest |-> r])
SyncLess(c, items, r) ==
    IF items = Empty THEN SendIn(c, "delete", Nothing) ELSE Sync(c, items, r)

Less(c, i) ==
    /\ Counted(c) /\ Shown /\ sheet = None
    /\ cart[i] > 0
    /\ LET items == [cart EXCEPT ![i] = @ - 1]
       IN Holds(items, Left(items)) /\ SyncLess(c, items, Left(items))
    /\ past' = past \union Edited
    /\ UNCHANGED page

ClearCart(c) ==
    /\ Counted(c) /\ Shown /\ sheet = None
    /\ Holds(Empty, None)
    /\ SendIn(c, "delete", Nothing)
    /\ past' = past \union Edited
    /\ UNCHANGED page

(* The web drawer offers other lines of the same menu. *)
OpenSheet(i) ==
    /\ app = "web" /\ Shown /\ sheet = None
    /\ Home[i] = rest /\ cart[i] = 0
    /\ sheet' = i
    /\ UNCHANGED <<app, store, saved, call, clock, newest, drawer, asking, placing,
                   error, attempt, agent, placed, sends, past>>

(* The sheet adds to whatever restaurant the cart is now of. *)
AddFromSheet(c) ==
    /\ Counted(c) /\ Shown /\ sheet # None
    /\ AddToCart(c, sheet, rest)
    /\ sheet' = None
    /\ UNCHANGED <<drawer, asking, placing, error, attempt>>

(* The server's cart becomes what an old order had; then it is fetched. *)
RepeatOrder(c, i) ==
    /\ Counted(c) /\ ~Shown
    /\ SendIn(c, "repeat", [items |-> Only(i), rest |-> Home[i]])
    /\ UNCHANGED <<store, page, past>>

---------------------------------------------------------------------------
(* The drawer and the checkout. *)
Open ==
    /\ cart # Empty /\ ~drawer /\ asking = None
    /\ drawer' = TRUE
    /\ UNCHANGED <<app, store, saved, call, clock, newest, sheet, asking, placing,
                   error, attempt, agent, placed, sends, past>>

(* The code and the sheet live in the drawer; in the Mini App the state of  *)
(* the checkout as well, so that a running one no longer counts.             *)
Close ==
    /\ drawer
    /\ drawer' = FALSE /\ sheet' = None
    /\ promo' = None
    /\ call' = [c \in Slot |->
                  IF Busy(c) /\ (call[c].kind = "check" \/ app = "mini")
                  THEN [call[c] EXCEPT !.own = FALSE] ELSE call[c]]
    /\ IF app = "web" THEN UNCHANGED <<placing, error>>
                      ELSE placing' = FALSE /\ error' = FALSE
    /\ past' = past \union IF app = "mini" /\ placing THEN {"reopened"} ELSE {}
    /\ UNCHANGED <<app, cart, rest, round, saved, clock, newest, asking, attempt,
                   agent, placed, sends>>

(* handleApplyPromo: the Enter key asks although a check is running. *)
ApplyPromo(c) ==
    /\ Counted(c) /\ Shown /\ promo = None
    /\ SendIn(c, "check", [items |-> Empty, rest |-> rest])
    /\ UNCHANGED <<store, page, past>>

RemovePromo ==
    /\ Shown /\ sheet = None /\ promo # None
    /\ promo' = None
    /\ UNCHANGED <<app, cart, rest, round, saved, call, clock, newest, page, agent, placed,
                   sends, past>>

Mistake_MayPlace == Shown
MayPlace == Shown /\ ~placing

Told == FALSE

Mistake_Ordered == [i \in Item |-> IF cart[i] > 0 THEN 1 ELSE 0]
Ordered == cart

PlaceOrder(c) ==
    /\ Counted(c) /\ MayPlace
    /\ call' = [call EXCEPT ![c] =
                  [Request("order", [items |-> Ordered, rest |-> rest], clock + 1)
                   EXCEPT !.round = round]]
    /\ clock' = clock + 1 /\ attempt' = clock + 1
    /\ placing' = TRUE /\ error' = Told
    /\ UNCHANGED <<store, newest, drawer, sheet, asking, past>>

---------------------------------------------------------------------------
(* The server. *)
Overtaken(c) ==
    IF \E d \in Slot : /\ Busy(d) /\ call[d].kind \in Writes
                       /\ call[d].phase = "sent" /\ call[d].n < call[c].n
    THEN {"overtaken"} ELSE {}

Answered(c, body, ok) ==
    call' = [call EXCEPT ![c] =
               IF @.deaf \/ @.kind \in {"put", "delete"} THEN Idle
               ELSE [phase |-> "answered", kind |-> @.kind, body |-> body, n |-> @.n,
                     ok |-> ok, own |-> @.own, deaf |-> FALSE, round |-> @.round]]

Serve(c) ==
    /\ call[c].phase = "sent"
    /\ LET q == call[c] IN
       CASE q.kind = "get" ->
              /\ Answered(c, saved, TRUE)
              /\ past' = past \union Overtaken(c)
              /\ UNCHANGED <<saved, placed>>
         [] q.kind \in Writes ->
              /\ saved' = IF q.kind \in {"delete", "finish"} THEN Nothing ELSE q.body
              /\ Answered(c, q.body, TRUE)
              /\ past' = past \union Overtaken(c)
              /\ UNCHANGED placed
         [] q.kind = "order" ->
              \/ /\ placed' = placed \union
                      {[n |-> q.n, round |-> q.round, items |-> q.body.items,
                        rest |-> q.body.rest]}
                 /\ Answered(c, q.body, TRUE)
                 /\ UNCHANGED <<saved, past>>
              \/ /\ Answered(c, q.body, FALSE)
                 /\ UNCHANGED <<saved, placed, past>>
         [] q.kind = "check" ->
              /\ \E ok \in BOOLEAN : Answered(c, q.body, ok)
              /\ UNCHANGED <<saved, placed, past>>
    /\ UNCHANGED <<app, store, clock, newest, page, agent, sends>>

---------------------------------------------------------------------------
(* What the client makes of an answer. *)
Done(c) == call' = [call EXCEPT ![c] = Idle] /\ UNCHANGED <<clock, newest>>

(* The end of the checkout, unless the drawer that started it is gone. *)
Ended(c, failed) ==
    IF call[c].own
    THEN placing' = FALSE /\ error' = failed
    ELSE UNCHANGED <<placing, error>>

ReceiveCart(c) ==
    /\ call[c].kind = "get"
    /\ call' = [call EXCEPT ![c] = Idle] /\ UNCHANGED clock
    /\ newest' = IF newest > call[c].n THEN newest ELSE call[c].n
    /\ Holds(call[c].body.items, call[c].body.rest)
    /\ past' = past \union Edited \union
               (IF newest > call[c].n THEN {"overtaken"} ELSE {})
    /\ UNCHANGED page

ReceiveRepeat(c) ==
    /\ call[c].kind = "repeat"
    /\ SendIn(c, "get", Nothing)
    /\ UNCHANGED <<store, page, past>>

ReceiveOrder(c) ==
    /\ call[c].kind = "order" /\ call[c].ok
    /\ Holds(Empty, None)
    /\ call' = [call EXCEPT ![c] =
                  [Request("finish", Nothing, clock + 1) EXCEPT !.own = call[c].own]]
    /\ clock' = clock + 1 /\ newest' = clock + 1
    /\ past' = past \union
               IF \E d \in Slot \ {c} : Ordering(d) THEN {"edited"} ELSE {}
    /\ UNCHANGED page

ReceiveRefusal(c) ==
    /\ call[c].kind = "order" /\ ~call[c].ok
    /\ Done(c)
    /\ Ended(c, TRUE)
    /\ UNCHANGED <<store, drawer, sheet, asking, attempt, past>>

(* The order is shown: the drawer closes. *)
ReceiveFinish(c) ==
    /\ call[c].kind = "finish"
    /\ Done(c)
    /\ Ended(c, FALSE)
    /\ drawer' = FALSE /\ sheet' = None /\ promo' = None
    /\ UNCHANGED <<cart, rest, round, asking, attempt, past>>

ReceiveCheck(c) ==
    /\ call[c].kind = "check"
    /\ Done(c)
    /\ promo' = IF ~call[c].own THEN promo
                ELSE IF call[c].ok THEN call[c].body.rest ELSE None
    /\ past' = past \union
               IF call[c].body.rest # rest THEN {"late check"} ELSE {}
    /\ UNCHANGED <<cart, rest, round, page>>

Receive(c) ==
    /\ call[c].phase = "answered"
    /\ \/ ReceiveCart(c) \/ ReceiveRepeat(c) \/ ReceiveOrder(c) \/ ReceiveRefusal(c)
       \/ ReceiveFinish(c) \/ ReceiveCheck(c)
    /\ UNCHANGED <<app, saved, agent, placed, sends>>

(* The network loses a request or its answer; the server is back to its     *)
(* cart of a moment ago only for those it never got.                         *)
Rejected(c) ==
    /\ Done(c)
    /\ IF call[c].kind \in {"order", "finish"} THEN Ended(c, TRUE)
       ELSE UNCHANGED <<placing, error>>

Lose(c) ==
    /\ Busy(c)
    /\ Rejected(c)
    /\ past' = past \union
               (CASE call[c].kind = "order" -> {"order lost"}
                  [] call[c].kind = "finish" -> {"lost", "clear lost"}
                  [] call[c].kind = "check" -> {}
                  [] OTHER -> {"lost"})
    /\ UNCHANGED <<app, store, saved, drawer, sheet, asking, attempt, agent, placed,
                   sends>>

---------------------------------------------------------------------------
(* The page is loaded again; what it had asked for may still be served. *)
Reload(c) ==
    /\ ~Busy(c) /\ sends < MaxSends
    /\ cart' = Empty /\ rest' = None /\ promo' = None /\ UNCHANGED round
    /\ call' = [d \in Slot |->
                  IF d = c THEN Request("get", Nothing, clock + 1)
                  ELSE IF call[d].phase = "sent" THEN [call[d] EXCEPT !.deaf = TRUE, !.own = FALSE]
                  ELSE Idle]
    /\ clock' = clock + 1
    /\ drawer' = FALSE /\ sheet' = None /\ asking' = None
    /\ placing' = FALSE /\ error' = FALSE
    /\ agent' = Idle
    /\ past' = past \union
               (IF \E d \in Slot : Ordering(d) THEN {"reloaded"} ELSE {}) \union
               (IF \E d \in Slot : Busy(d) /\ call[d].kind \in Writes
                THEN {"lost"} ELSE {})
    /\ sends' = sends + 1
    /\ UNCHANGED <<app, saved, newest, attempt, placed>>

---------------------------------------------------------------------------
(* The order assistant reads the server's cart and writes it back changed. *)
Hire ==
    /\ app = "web" /\ agent = Idle /\ sends < MaxSends
    /\ agent' = [phase |-> "working"]
    /\ sends' = sends + 1
    /\ past' = past \union {"agent"}
    /\ UNCHANGED <<app, store, saved, call, clock, newest, page, placed>>

AgentReads ==
    /\ agent.phase = "working"
    /\ agent' = [phase |-> "read", seen |-> saved]
    /\ UNCHANGED <<app, store, saved, call, clock, newest, page, placed, sends, past>>

AgentMayAdd(i, seen) == seen.rest \in {None, Home[i]}

AgentWrites ==
    /\ agent.phase = "read" /\ sends < MaxSends
    /\ sends' = sends + 1
    /\ agent' = [phase |-> "working"]
    /\ LET seen == agent.seen IN
       \/ \E i \in Item :
            /\ AgentMayAdd(i, seen) /\ seen.items[i] < MaxQty[i]
            /\ saved' = [items |-> [seen.items EXCEPT ![i] = @ + 1], rest |-> Home[i]]
       \/ \E i \in Item :
            LET left == [seen.items EXCEPT ![i] = 0] IN
            /\ saved' = IF left = Empty THEN Nothing
                        ELSE [items |-> left, rest |-> seen.rest]
    /\ UNCHANGED <<app, store, call, clock, newest, page, placed, past>>

(* It orders what it read, then clears the cart; the clearing may fail.     *)
AgentPlaces ==
    /\ agent.phase = "read" /\ sends < MaxSends
    /\ agent.seen.items # Empty
    /\ sends' = sends + 1
    /\ agent' = [phase |-> "placed"]
    /\ placed' = placed \union {[n |-> 0, round |-> round, items |-> agent.seen.items,
                                 rest |-> agent.seen.rest]}
    /\ UNCHANGED <<app, store, saved, call, clock, newest, page, past>>

AgentClears ==
    /\ agent.phase = "placed"
    /\ agent' = [phase |-> "working"]
    /\ saved' = Nothing \/ UNCHANGED saved
    /\ UNCHANGED <<app, store, call, clock, newest, page, placed, sends, past>>

(* However the stream ends, the cart is fetched. *)
AgentEnds(c) ==
    /\ agent # Idle /\ ~Busy(c)
    /\ agent' = Idle
    /\ SendIn(c, "get", Nothing)
    /\ UNCHANGED <<app, store, saved, page, placed, sends, past>>

---------------------------------------------------------------------------
Progress(c) == Serve(c) \/ Receive(c) \/ Lose(c)

CheckoutNext ==
    \/ \E c \in Slot, i \in Item :
         AddFromMenu(c, i) \/ More(c, i) \/ Less(c, i) \/ RepeatOrder(c, i)
    \/ \E c \in Slot :
         ClearCart(c) \/ AddFromSheet(c) \/ ApplyPromo(c) \/ PlaceOrder(c) \/ Reload(c)
    \/ \E i \in Item : AskToReplace(i) \/ OpenSheet(i)
    \/ \E c \in Slot, confirmed \in BOOLEAN : AnswerReplace(c, confirmed)
    \/ Open \/ Close \/ RemovePromo
    \/ Hire \/ AgentReads \/ AgentWrites \/ AgentPlaces \/ AgentClears
    \/ \E c \in Slot : AgentEnds(c)
    \/ \E c \in Slot : Progress(c)

CheckoutSpec == CheckoutInit /\ [][CheckoutNext]_checkoutVars
===========================================================================
