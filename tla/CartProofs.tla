----------------------------- MODULE CartProofs -----------------------------
(***************************************************************************)
(* Proofs about the cart and its checkout, for any menu and any number of   *)
(* requests under way, and about the answers kept for strangers, for any    *)
(* addresses, any lifetime and any number of requests and changes.          *)
(***************************************************************************)
EXTENDS CheckoutProps, ResponseCache, FiniteSetTheorems, TLAPS

---------------------------------------------------------------------------
(* The cart and the checkout: what the steps preserve. *)

Sent(c) == call[c].phase = "sent"
Writing(c) == Busy(c) /\ call[c].kind \in Writes
Granted(c) == call[c].phase = "answered" /\ call[c].ok

(* A cart is of no restaurant if and only if it is empty. *)
Whole(b) == b.rest = None <=> b.items = Empty

(* What the parts of a request tell of one another: a check names a restaurant *)
(* only, an order has something in it, what clears the cart carries none; a     *)
(* page that is gone gets no answer; a request is granted by its answer.         *)
Fits(q) ==
    /\ q.kind # "check" => Whole(q.body)
    /\ q.kind = "order" => q.body.items # Empty
    /\ q.kind \in {"delete", "finish"} => q.body = Nothing
    /\ q.phase = "answered" => ~q.deaf /\ q.kind \notin {"put", "delete"}
    /\ q.phase = "sent" => ~q.ok
    /\ q.own => ~q.deaf

TypedInv ==
    /\ CheckoutTypeOK
    /\ Whole(saved)
    /\ agent.phase = "read" => Whole(agent.seen)
    /\ \A c \in Slot : Busy(c) => Fits(call[c])
    /\ asking # None => app = "mini" /\ sends < MaxSends
    /\ agent # Idle => app = "web"

(* The stamps of requests and orders: none comes twice. *)
Stamps ==
    /\ \A c \in Slot : Busy(c) => call[c].n \in 1 .. clock
    /\ \A c, d \in Slot : Busy(c) /\ Busy(d) /\ call[c].n = call[d].n => c = d
    /\ \A c \in Slot : Busy(c) => IF Writing(c) THEN call[c].n <= newest
                                              ELSE call[c].n # newest
    /\ \A o \in placed : o.n <= clock

(* The page has one checkout under way at most, the last attempt of it. *)
OwnCheckout(c) == Busy(c) /\ call[c].own /\ call[c].kind \in {"order", "finish"}
OneCheckout ==
    /\ \A c, d \in Slot : OwnCheckout(c) /\ OwnCheckout(d) => c = d
    /\ \A c \in Slot : OwnCheckout(c) =>
         placing /\ ~error /\ (call[c].kind = "order" => call[c].n = attempt)
    /\ placing => \E c \in Slot : OwnCheckout(c)

(* An order that is not granted is not placed, or not yet; once the error is *)
(* shown, the attempt is over. *)
NotPlacedYet ==
    \A c \in Slot : Ordering(c) /\ ~Granted(c) => \A o \in placed : o.n # call[c].n
ErrorOver ==
    error /\ past \intersect {"order lost", "clear lost"} = {} =>
      attempt # 0 /\ \A c \in Slot : Ordering(c) => call[c].n # attempt

(* Undisturbed, the round of an order is over once its answer came in, and    *)
(* until then no other order of the round is sent. *)
Doubtful == {"order lost", "reloaded", "reopened", "agent"}
RoundsOver ==
    past \intersect Doubtful = {} =>
      /\ \A c \in Slot : Ordering(c) =>
           /\ call[c].own
           /\ call[c].round <= round /\ (call[c].round = round => cart # Empty)
           /\ ~Granted(c) => \A o \in placed : o.round # call[c].round
      /\ \A o \in placed : \/ o.round < round
                           \/ \E c \in Slot : /\ Ordering(c) /\ Granted(c)
                                              /\ o.round = call[c].round
AgentTold == agent # Idle => "agent" \in past

(* Every cart under way, and the one the assistant has read, is of one        *)
(* restaurant. *)
OneKitchen ==
    "switched" \notin past =>
      /\ FromOne(Local) /\ FromOne(saved) /\ \A o \in placed : FromOne(o)
      /\ \A c \in Slot : Busy(c) => FromOne(call[c].body)
      /\ agent.phase = "read" => FromOne(agent.seen)

(* Undisturbed, the carts here and there will agree: the assistant's end       *)
(* fetches the cart, or a fetch or a repetition is under way, or the last of     *)
(* the snapshots is, or there is nothing more to come. *)
Settling(c) ==
    /\ Busy(c) /\ ~call[c].deaf
    /\ call[c].kind = "repeat" \/ (call[c].kind = "get" /\ call[c].n > newest)
LastWrite(c) ==
    Writing(c) /\ Sent(c) /\ call[c].n = newest /\ call[c].body = Local
Settles ==
    past \intersect {"lost", "overtaken"} = {} =>
      \/ agent # Idle
      \/ \E c \in Slot : Settling(c) \/ LastWrite(c)
      \/ Local = saved /\ ~\E c \in Slot : Writing(c) /\ Sent(c)

(* And the last of the carts that were fetched is the one that is kept. *)
FetchedWell ==
    past \intersect {"lost", "overtaken"} = {} =>
      \A c \in Slot : Settling(c) /\ call[c].kind = "get" /\ call[c].phase = "answered" =>
        \/ agent # Idle
        \/ \E d \in Slot : Settling(d) /\ (call[d].kind = "repeat" \/ call[d].n > call[c].n)
        \/ call[c].body = saved /\ ~\E d \in Slot : Writing(d) /\ Sent(d)
NoDeafWrites == "lost" \notin past => \A c \in Slot : Writing(c) => ~call[c].deaf

(* What is ordered is what is in the cart, unless that was changed. *)
OrderedCart ==
    "edited" \notin past =>
      \A c \in Slot : Ordering(c) /\ ~call[c].deaf => cart = call[c].body.items

CheckoutInv ==
    /\ TypedInv /\ Stamps
    /\ OneCheckout /\ NotPlacedYet /\ ErrorOver /\ ErrorMeansNoOrder
    /\ RoundsOver /\ AgentTold /\ NoDoubleOrder
    /\ OneKitchen /\ PromoOfThisCart
    /\ Settles /\ FetchedWell /\ NoDeafWrites /\ OrderedCart

---------------------------------------------------------------------------
LEMMA BagFacts ==
  /\ Empty \in Bag
  /\ \A i \in Item : Only(i) \in Bag /\ Only(i) # Empty
  /\ \A b \in Bag, i \in Item : b[i] \in Nat /\ b[i] <= MaxQty[i]
  /\ \A b \in Bag, i \in Item : [b EXCEPT ![i] = @ + 1][i] <= MaxQty[i] =>
       [b EXCEPT ![i] = @ + 1] \in Bag /\ [b EXCEPT ![i] = @ + 1] # Empty
  /\ \A b \in Bag, i \in Item : b[i] > 0 => [b EXCEPT ![i] = @ - 1] \in Bag
  /\ \A b \in Bag, i \in Item : [b EXCEPT ![i] = 0] \in Bag
  /\ \A b \in Bag : b = Empty <=> \A i \in Item : b[i] = 0
<1> USE CheckoutAssumption
<1>1. Empty \in Bag
  BY DEF Empty, Bag
<1>2. ASSUME NEW i \in Item PROVE Only(i) \in Bag /\ Only(i) # Empty
  <2>1. MaxQty[i] \in Nat \ {0}
    OBVIOUS
  <2>2. /\ Only(i) \in [Item -> Nat] /\ Only(i)[i] = 1
        /\ \A j \in Item : j # i => Only(i)[j] = 0
    BY DEF Only, Empty
  <2>3. Empty[i] = 0
    BY DEF Empty
  <2> QED BY <2>1, <2>2, <2>3 DEF Bag
<1>3. \A b \in Bag, i \in Item : b[i] \in Nat /\ b[i] <= MaxQty[i]
  BY DEF Bag
<1>4. ASSUME NEW b \in Bag, NEW i \in Item, [b EXCEPT ![i] = @ + 1][i] <= MaxQty[i]
      PROVE  [b EXCEPT ![i] = @ + 1] \in Bag /\ [b EXCEPT ![i] = @ + 1] # Empty
  <2> DEFINE d == [b EXCEPT ![i] = @ + 1]
  <2>1. /\ d \in [Item -> Nat] /\ d[i] = b[i] + 1
        /\ \A j \in Item : j # i => d[j] = b[j]
    BY DEF Bag
  <2>2. Empty[i] = 0 /\ b[i] \in Nat
    BY DEF Empty, Bag
  <2> HIDE DEF d
  <2>3. d \in Bag
    BY <1>3, <1>4, <2>1 DEF Bag, d
  <2>4. d # Empty
    BY <2>1, <2>2
  <2> QED BY <2>3, <2>4 DEF d
<1>5. ASSUME NEW b \in Bag, NEW i \in Item, b[i] > 0
      PROVE  [b EXCEPT ![i] = @ - 1] \in Bag
  BY <1>5 DEF Bag
<1>6. \A b \in Bag, i \in Item : [b EXCEPT ![i] = 0] \in Bag
  BY DEF Bag
<1>7. \A b \in Bag : b = Empty <=> \A i \in Item : b[i] = 0
  BY DEF Bag, Empty
<1> QED BY <1>1, <1>2, <1>3, <1>4, <1>5, <1>6, <1>7

LEMMA RequestFacts ==
  ASSUME NEW kind \in Kind, NEW body \in Stored, NEW n \in Nat
  PROVE  /\ Request(kind, body, n) \in Call
         /\ Request(kind, body, n).phase = "sent" /\ Request(kind, body, n).kind = kind
         /\ Request(kind, body, n).body = body /\ Request(kind, body, n).n = n
         /\ Request(kind, body, n).ok = FALSE /\ Request(kind, body, n).own = TRUE
         /\ Request(kind, body, n).deaf = FALSE /\ Request(kind, body, n).round = 0
  BY DEF Request, Call

LEMMA CallShape ==
  ASSUME CheckoutTypeOK, NEW c \in Slot
  PROVE  /\ call[c] \in Call \union {Idle}
         /\ Busy(c) <=> call[c] # Idle
         /\ Busy(c) => /\ call[c] \in Call /\ call[c].phase \in {"sent", "answered"}
                       /\ call[c].kind \in Kind
                       /\ call[c].body \in Stored /\ call[c].n \in Nat
                       /\ call[c].ok \in BOOLEAN /\ call[c].own \in BOOLEAN
                       /\ call[c].deaf \in BOOLEAN /\ call[c].round \in Nat
                       /\ call[c].body.items \in Bag
                       /\ call[c].body.rest \in Restaurant \union {None}
  BY DEF CheckoutTypeOK, Busy, Call, Idle, Stored

(* A slot gets another request, or is freed. *)
LEMMA SlotFacts ==
  ASSUME CheckoutTypeOK, NEW c \in Slot, NEW q \in Call \union {Idle},
         call' = [call EXCEPT ![c] = q]
  PROVE  /\ call' \in [Slot -> Call \union {Idle}]
         /\ call'[c] = q /\ \A d \in Slot \ {c} : call'[d] = call[d]
  BY DEF CheckoutTypeOK

LEMMA SlotTyped ==
  ASSUME TypedInv, NEW c \in Slot, NEW q \in Call \union {Idle},
         q = Idle \/ Fits(q), call' = [call EXCEPT ![c] = q]
  PROVE  /\ call' \in [Slot -> Call \union {Idle}]
         /\ \A d \in Slot : Busy(d)' => Fits(call'[d])
<1>1. /\ call' \in [Slot -> Call \union {Idle}]
      /\ call'[c] = q /\ \A d \in Slot \ {c} : call'[d] = call[d]
  BY SlotFacts DEF TypedInv
<1>2. ASSUME NEW d \in Slot, Busy(d)'
      PROVE  Fits(call'[d])
  <2>1. CASE d = c
    BY <2>1, <1>1, <1>2 DEF Busy, Idle
  <2>2. CASE d # c
    BY <2>2, <1>1, <1>2 DEF TypedInv, Busy
  <2> QED BY <2>1, <2>2
<1> QED BY <1>1, <1>2

LEMMA NothingFacts ==
  /\ Nothing \in Stored /\ Whole(Nothing)
  /\ \A b \in Bag, r \in Restaurant \union {None} :
       /\ [items |-> b, rest |-> r] \in Stored
       /\ [items |-> b, rest |-> r].items = b /\ [items |-> b, rest |-> r].rest = r
       /\ (r = None <=> b = Empty) => Whole([items |-> b, rest |-> r])
  /\ \A s \in Stored : s.items \in Bag /\ s.rest \in Restaurant \union {None}
                       /\ s = [items |-> s.items, rest |-> s.rest]
  /\ Idle \notin Call
BY BagFacts DEF Nothing, Stored, Whole, Idle, Call

LEMMA RequestFits ==
  ASSUME NEW kind \in Kind, NEW body \in Stored, NEW n \in Nat,
         kind = "check" \/ Whole(body), kind = "order" => body.items # Empty,
         kind \in {"delete", "finish"} => body = Nothing
  PROVE  Fits(Request(kind, body, n))
BY DEF Request, Fits

---------------------------------------------------------------------------
(* The kinds of steps there are, by what they do to the cart and the requests. *)

(* The store's cart changes and the whole of it goes out, or that it is gone. *)
StoreEdit(c) ==
    \E b \in Bag, r \in Restaurant \union {None}, kind \in {"put", "delete"} :
      /\ ~Busy(c)
      /\ r = None <=> b = Empty
      /\ kind = "delete" => b = Empty
      /\ Holds(b, r)
      /\ call' = [call EXCEPT ![c] = Request(kind, [items |-> b, rest |-> r], clock + 1)]
      /\ clock' = clock + 1 /\ newest' = clock + 1
      /\ past \union Edited \subseteq past' /\ past' \subseteq Event
      /\ FromOne(Local) /\ "switched" \notin past' => FromOne([items |-> b, rest |-> r])
      /\ sheet' \in {sheet, None} /\ asking' = None /\ sends' \in 0 .. MaxSends
      /\ UNCHANGED <<app, saved, agent, placed, placing, error, attempt, drawer>>

LEMMA AddIsEdit ==
  ASSUME TypedInv, NEW c \in Slot, NEW i \in Item, NEW r \in Restaurant,
         Counted(c), AddToCart(c, i, r), sheet' \in {sheet, None},
         UNCHANGED <<asking, placing, error, attempt, drawer>>
  PROVE  StoreEdit(c)
<1> USE CheckoutAssumption
<1> DEFINE b == IF Joins(i, r) THEN [cart EXCEPT ![i] = @ + 1] ELSE Only(i)
<1>1. cart \in Bag /\ past \subseteq Event /\ (rest = None <=> cart = Empty)
  BY DEF TypedInv, CheckoutTypeOK
<1>2. /\ b[i] <= MaxQty[i] /\ Holds(b, r)
      /\ call' = [call EXCEPT ![c] = Request("put", [items |-> b, rest |-> r], clock + 1)]
      /\ clock' = clock + 1 /\ newest' = clock + 1
      /\ past' = past \union Edited \union (IF Home[i] # r THEN {"switched"} ELSE {})
  BY DEF AddToCart, SendIn, Writes
<1>3. b \in Bag /\ b # Empty
  <2>1. CASE Joins(i, r)
    <3>1. b = [cart EXCEPT ![i] = @ + 1]
      BY <2>1
    <3>2. b[i] <= MaxQty[i]
      BY <1>2
    <3> HIDE DEF b
    <3> QED BY <3>1, <3>2, <1>1, BagFacts
  <2>2. CASE ~Joins(i, r)
    BY <2>2, BagFacts
  <2> QED BY <2>1, <2>2
<1>4. r # None
  OBVIOUS
<1>5. ~Busy(c) /\ asking' = None /\ sends' \in 0 .. MaxSends
      /\ UNCHANGED <<app, saved, agent, placed>>
  BY DEF Counted, Free, TypedInv, CheckoutTypeOK
<1>6. past \union Edited \subseteq past' /\ past' \subseteq Event
  <2>1. Edited \subseteq {"edited"}
    BY DEF Edited
  <2>2. past' = past \union Edited \/ past' = past \union Edited \union {"switched"}
    BY <1>2
  <2> QED BY <2>1, <2>2, <1>1 DEF Event
<1>7. FromOne(Local) /\ "switched" \notin past' => FromOne([items |-> b, rest |-> r])
  <2>1. SUFFICES ASSUME FromOne(Local), Home[i] = r, NEW j \in Item, b[j] > 0
                 PROVE  Home[j] = r
    BY <1>2 DEF FromOne
  <2>2. \A k \in Item : cart[k] > 0 => Home[k] = rest
    BY <2>1 DEF FromOne, Local
  <2>3. CASE Joins(i, r)
    <3>1. j # i => cart[j] > 0
      BY <2>1, <2>3, <1>1 DEF Bag
    <3>2. j # i => rest = r
      <4>1. j # i => cart # Empty
        BY <3>1, <1>1, BagFacts
      <4> QED BY <4>1, <1>1, <2>3 DEF Joins
    <3> QED BY <2>1, <2>2, <3>1, <3>2
  <2>4. CASE ~Joins(i, r)
    <3>1. j # i => b[j] = 0
      BY <2>4 DEF Only, Empty
    <3> QED BY <3>1, <2>1
  <2> QED BY <2>3, <2>4
<1> HIDE DEF b
<1> QED BY <1>2, <1>3, <1>4, <1>5, <1>6, <1>7 DEF StoreEdit

LEMMA EditSteps ==
  ASSUME TypedInv, NEW c \in Slot,
         \/ \E i \in Item : AddFromMenu(c, i) \/ More(c, i) \/ Less(c, i)
         \/ ClearCart(c) \/ AddFromSheet(c) \/ AnswerReplace(c, TRUE)
  PROVE  StoreEdit(c)
<1> USE CheckoutAssumption
<1>1. /\ cart \in Bag /\ past \subseteq Event /\ rest \in Restaurant \union {None}
      /\ rest = None <=> cart = Empty
      /\ sheet \in Item \union {None} /\ asking \in Item \union {None}
      /\ sends \in 0 .. MaxSends
  BY DEF TypedInv, CheckoutTypeOK
<1>2. ASSUME NEW i \in Item, AddFromMenu(c, i)
      PROVE  StoreEdit(c)
  <2>1. Home[i] \in Restaurant
    OBVIOUS
  <2> QED BY <2>1, <1>2, AddIsEdit DEF AddFromMenu, page
<1>3. ASSUME NEW i \in Item, More(c, i)
      PROVE  StoreEdit(c)
  <2>1. rest \in Restaurant
    BY <1>1, <1>3 DEF More, Shown
  <2> QED BY <2>1, <1>3, AddIsEdit DEF More, page
<1>4. ASSUME NEW i \in Item, Less(c, i)
      PROVE  StoreEdit(c)
  <2> DEFINE b == [cart EXCEPT ![i] = @ - 1]
  <2>1. b \in Bag
    BY <1>1, <1>4, BagFacts DEF Less
  <2>2. /\ Holds(b, Left(b)) /\ SyncLess(c, b, Left(b)) /\ ~Busy(c)
        /\ past' = past \union Edited /\ rest # None
        /\ asking' = None /\ sends' \in 0 .. MaxSends
        /\ UNCHANGED <<app, saved, agent, placed, placing, error, attempt, drawer, sheet>>
    BY <1>1, <1>4 DEF Less, Counted, Free, Shown, page
  <2>3. Left(b) \in Restaurant \union {None} /\ (Left(b) = None <=> b = Empty)
    BY <1>1, <2>2 DEF Left
  <2>4. FromOne(Local) => FromOne([items |-> b, rest |-> Left(b)])
    <3>1. \A j \in Item : b[j] > 0 => cart[j] > 0
      BY <1>1, <2>1, BagFacts DEF Bag
    <3>2. \A j \in Item : b[j] > 0 => b # Empty
      BY DEF Empty
    <3> QED BY <3>1, <3>2 DEF FromOne, Local, Left
  <2>5. past' \subseteq Event
    BY <1>1, <2>2 DEF Edited, Event
  <2> DEFINE r == Left(b)
             kind == IF b = Empty THEN "delete" ELSE "put"
  <2>6. /\ call' = [call EXCEPT ![c] = Request(kind, [items |-> b, rest |-> r], clock + 1)]
        /\ clock' = clock + 1 /\ newest' = clock + 1
    BY <2>2, <2>3 DEF SyncLess, Sync, SendIn, Writes, Left, Nothing
  <2>7. kind \in {"put", "delete"} /\ (kind = "delete" => b = Empty)
    OBVIOUS
  <2> HIDE DEF b, r, kind
  <2> QED BY <2>1, <2>2, <2>3, <2>4, <2>5, <2>6, <2>7 DEF StoreEdit, r
<1>5. CASE ClearCart(c)
  <2>1. /\ call' = [call EXCEPT ![c] =
                      Request("delete", [items |-> Empty, rest |-> None], clock + 1)]
        /\ clock' = clock + 1 /\ newest' = clock + 1
        /\ Holds(Empty, None) /\ ~Busy(c) /\ past' = past \union Edited
        /\ asking' = None /\ sends' \in 0 .. MaxSends
        /\ UNCHANGED <<app, saved, agent, placed, placing, error, attempt, drawer, sheet>>
    BY <1>1, <1>5 DEF ClearCart, SendIn, Writes, Counted, Free, page, Nothing
  <2>2. FromOne([items |-> Empty, rest |-> None])
    BY DEF FromOne, Empty
  <2>3. past' \subseteq Event
    BY <1>1, <2>1 DEF Edited, Event
  <2> QED BY <2>1, <2>2, <2>3, BagFacts DEF StoreEdit
<1>6. CASE AddFromSheet(c)
  <2>1. rest \in Restaurant /\ sheet \in Item
    BY <1>1, <1>6 DEF AddFromSheet, Shown
  <2> QED BY <2>1, <1>6, AddIsEdit DEF AddFromSheet
<1>7. CASE AnswerReplace(c, TRUE)
  <2>1. /\ asking \in Item /\ Home[asking] \in Restaurant /\ sends < MaxSends
    BY <1>1, <1>7 DEF AnswerReplace, TypedInv
  <2> DEFINE b == Only(asking)
             r == Home[asking]
  <2>2. /\ call' = [call EXCEPT ![c] = Request("put", [items |-> b, rest |-> r], clock + 1)]
        /\ clock' = clock + 1 /\ newest' = clock + 1
        /\ Holds(b, r) /\ ~Busy(c) /\ past' = past \union Edited
        /\ asking' = None /\ sends' \in 0 .. MaxSends
        /\ UNCHANGED <<app, saved, agent, placed, placing, error, attempt, drawer, sheet>>
    BY <1>1, <1>7, <2>1 DEF AnswerReplace, SendIn, Writes
  <2>3. b \in Bag /\ b # Empty /\ r # None
    BY <2>1, BagFacts
  <2>4. FromOne([items |-> b, rest |-> r])
    BY <2>1 DEF FromOne, Only, Empty
  <2>5. past' \subseteq Event
    BY <1>1, <2>2 DEF Edited, Event
  <2> HIDE DEF b, r
  <2>6. r \in Restaurant
    BY <2>1 DEF r
  <2> QED BY <2>2, <2>3, <2>4, <2>5, <2>6 DEF StoreEdit
<1> QED BY <1>2, <1>3, <1>4, <1>5, <1>6, <1>7

---------------------------------------------------------------------------
LEMMA EditInv ==
  ASSUME CheckoutInv, NEW c \in Slot, StoreEdit(c)
  PROVE  CheckoutInv'
<1> USE CheckoutAssumption
<1>1. TypedInv /\ CheckoutTypeOK
  BY DEF CheckoutInv, TypedInv
<1>2. PICK b \in Bag, r \in Restaurant \union {None}, kind \in {"put", "delete"} :
      /\ ~Busy(c)
      /\ r = None <=> b = Empty
      /\ kind = "delete" => b = Empty
      /\ Holds(b, r)
      /\ call' = [call EXCEPT ![c] = Request(kind, [items |-> b, rest |-> r], clock + 1)]
      /\ clock' = clock + 1 /\ newest' = clock + 1
      /\ past \union Edited \subseteq past' /\ past' \subseteq Event
      /\ FromOne(Local) /\ "switched" \notin past' => FromOne([items |-> b, rest |-> r])
      /\ sheet' \in {sheet, None} /\ asking' = None /\ sends' \in 0 .. MaxSends
      /\ UNCHANGED <<app, saved, agent, placed, placing, error, attempt, drawer>>
  BY DEF StoreEdit
<1> DEFINE body == [items |-> b, rest |-> r]
           q == Request(kind, body, clock + 1)
<1>3. body \in Stored /\ Whole(body) /\ (kind = "delete" => body = Nothing)
  BY <1>2, NothingFacts DEF Nothing
<1>4. clock \in Nat /\ newest \in 0 .. clock /\ attempt \in 0 .. clock /\ round \in Nat
  BY <1>1 DEF CheckoutTypeOK
<1>5. kind \in Kind /\ kind \notin {"check", "order", "finish", "get", "repeat"}
      /\ kind \in Writes
  BY DEF Kind, Writes
<1>6. body.items = b /\ body.rest = r
  OBVIOUS
<1>7. Local' = body
  BY <1>2 DEF Local, Holds
<1>8. call' = [call EXCEPT ![c] = q]
  BY <1>2
<1> HIDE DEF body
<1>9. /\ q \in Call /\ Fits(q)
      /\ q.phase = "sent" /\ q.kind = kind /\ q.body = body /\ q.n = clock + 1
      /\ q.own /\ ~q.deaf
  <2>1. clock + 1 \in Nat
    BY <1>4
  <2>2. Fits(q)
    BY <1>3, <1>5, <2>1, RequestFits
  <2>3. q \in Call
    BY <1>3, <1>5, <2>1, RequestFacts
  <2>4. /\ q.phase = "sent" /\ q.kind = kind /\ q.body = body /\ q.n = clock + 1
        /\ q.own /\ ~q.deaf
    BY DEF Request
  <2> QED BY <2>2, <2>3, <2>4
<1> HIDE DEF q
<1>10. /\ call' \in [Slot -> Call \union {Idle}]
       /\ call'[c] = q /\ \A d \in Slot \ {c} : call'[d] = call[d]
       /\ \A d \in Slot : Busy(d)' => Fits(call'[d])
  BY <1>1, <1>8, <1>9, SlotFacts, SlotTyped
<1>11. TypedInv'
  <2>1. CheckoutTypeOK'
    BY <1>1, <1>2, <1>4, <1>10 DEF CheckoutTypeOK, Holds
  <2> QED BY <2>1, <1>1, <1>2, <1>10 DEF TypedInv, Whole
<1>12. /\ ~Ordering(c)' /\ ~Ordering(c) /\ ~OwnCheckout(c) /\ ~OwnCheckout(c)'
       /\ \A d \in Slot : /\ Ordering(d)' <=> Ordering(d)
                          /\ OwnCheckout(d)' <=> OwnCheckout(d)
                          /\ d # c => (Writing(d)' <=> Writing(d)) /\ (Granted(d)' <=> Granted(d))
  BY <1>2, <1>5, <1>9, <1>10 DEF Ordering, OwnCheckout, Writing, Granted, Busy
<1>13. Stamps'
  <2>1. \A d \in Slot : Busy(d) => call[d].n \in 1 .. clock
    BY DEF CheckoutInv, Stamps
  <2>2. \A d \in Slot : Busy(d)' => call'[d].n \in 1 .. clock'
    BY <2>1, <1>2, <1>4, <1>9, <1>10 DEF Busy
  <2>3. \A d, e \in Slot : Busy(d)' /\ Busy(e)' /\ call'[d].n = call'[e].n => d = e
    BY <2>1, <1>4, <1>9, <1>10 DEF CheckoutInv, Stamps, Busy
  <2>4. \A d \in Slot : Busy(d)' => IF Writing(d)' THEN call'[d].n <= newest'
                                                   ELSE call'[d].n # newest'
    <3>1. \A d \in Slot \ {c} : Busy(d)' => call'[d].n \in 1 .. clock
      BY <2>1, <1>10 DEF Busy
    <3>2. Writing(c)' /\ call'[c].n = clock + 1
      BY <1>5, <1>9, <1>10 DEF Writing, Busy
    <3> QED BY <2>2, <3>1, <3>2, <1>2, <1>4
  <2>5. \A o \in placed' : o.n <= clock'
    BY <1>1, <1>2, <1>4 DEF CheckoutInv, Stamps, CheckoutTypeOK
  <2> QED BY <2>2, <2>3, <2>4, <2>5 DEF Stamps
<1>14. OneCheckout' /\ NotPlacedYet' /\ ErrorOver' /\ ErrorMeansNoOrder'
  BY <1>2, <1>10, <1>12
     DEF CheckoutInv, OneCheckout, NotPlacedYet, ErrorOver, ErrorMeansNoOrder
<1>15. AgentTold' /\ NoDoubleOrder'
  BY <1>2 DEF CheckoutInv, AgentTold, NoDoubleOrder
<1>16. RoundsOver'
  <2> SUFFICES ASSUME past' \intersect Doubtful = {} PROVE RoundsOver'
    BY DEF RoundsOver
  <2>1. past \intersect Doubtful = {}
    BY <1>2
  <2>2. /\ round' \in Nat /\ round <= round'
        /\ round' = round => cart' # Empty \/ cart = Empty
    BY <1>2, <1>4 DEF Holds
  <2>3. ASSUME NEW d \in Slot, Ordering(d)
        PROVE  /\ call[d].own
               /\ call[d].round <= round /\ (call[d].round = round => cart # Empty)
               /\ ~Granted(d) => \A o \in placed : o.round # call[d].round
               /\ call'[d] = call[d] /\ call[d].round \in Nat /\ d # c
    BY <2>1, <2>3, <1>1, <1>10, <1>12, CallShape DEF CheckoutInv, RoundsOver, Ordering
  <2>4. ASSUME NEW d \in Slot, Ordering(d)'
        PROVE  /\ call'[d].own
               /\ call'[d].round <= round' /\ (call'[d].round = round' => cart' # Empty)
               /\ ~Granted(d)' => \A o \in placed' : o.round # call'[d].round
    BY <2>2, <2>3, <2>4, <1>2, <1>4, <1>12
  <2>5. ASSUME NEW o \in placed'
        PROVE  \/ o.round < round'
               \/ \E d \in Slot : Ordering(d)' /\ Granted(d)' /\ o.round = call'[d].round
    <3>1. \/ o.round < round
          \/ \E d \in Slot : Ordering(d) /\ Granted(d) /\ o.round = call[d].round
      BY <2>1, <1>2 DEF CheckoutInv, RoundsOver
    <3>2. o.round \in Nat
      BY <1>1, <1>2 DEF CheckoutTypeOK
    <3> QED BY <3>1, <3>2, <2>2, <2>3, <1>4, <1>12
  <2> QED BY <2>4, <2>5 DEF RoundsOver
<1>17. OneKitchen' /\ PromoOfThisCart'
  <2>1. ASSUME "switched" \notin past'
        PROVE  /\ FromOne(Local') /\ FromOne(saved') /\ \A o \in placed' : FromOne(o)
               /\ \A d \in Slot : Busy(d)' => FromOne(call'[d].body)
               /\ agent'.phase = "read" => FromOne(agent'.seen)
    BY <2>1, <1>2, <1>7, <1>9, <1>10 DEF CheckoutInv, OneKitchen, Busy, body
  <2> QED BY <2>1, <1>2 DEF OneKitchen, PromoOfThisCart, CheckoutInv, Holds
<1>18. Settles' /\ FetchedWell' /\ NoDeafWrites'
  <2>1. LastWrite(c)'
    BY <1>2, <1>5, <1>7, <1>9, <1>10 DEF LastWrite, Writing, Sent, Busy
  <2>2. NoDeafWrites'
    BY <1>2, <1>9, <1>10, <1>12 DEF CheckoutInv, NoDeafWrites, Writing
  <2>3. \A d \in Slot : ~(Settling(d)' /\ call'[d].kind = "get")
    <3>1. \A d \in Slot : Busy(d)' => call'[d].n \in 1 .. newest'
      BY <1>2, <1>13 DEF Stamps
    <3>2. newest' \in Nat
      BY <1>2, <1>4
    <3> QED BY <3>1, <3>2 DEF Settling, Writing
  <2> QED BY <2>1, <2>2, <2>3 DEF Settles, FetchedWell
<1>19. OrderedCart'
  <2>1. ASSUME "edited" \notin past', NEW d \in Slot, Ordering(d)' PROVE FALSE
    BY <2>1, <1>2, <1>12 DEF Edited
  <2> QED BY <2>1 DEF OrderedCart
<1> QED BY <1>11, <1>13, <1>14, <1>15, <1>16, <1>17, <1>18, <1>19 DEF CheckoutInv

(* Steps that leave the cart, the requests and the checkout alone. *)
Aside ==
    /\ app' = app
    /\ UNCHANGED <<cart, rest, round, saved, call, clock, newest, placing, error, attempt,
                   placed>>
    /\ drawer' \in BOOLEAN /\ sheet' \in Item \union {None}
    /\ asking' \in Item \union {None} /\ promo' \in {promo, None} /\ sends' \in 0 .. MaxSends
    /\ asking' # None => app = "mini" /\ sends' < MaxSends
    /\ past \subseteq past' /\ past' \subseteq Event
    /\ \/ agent' = agent
       \/ agent' = [phase |-> "working"] /\ app = "web" /\ "agent" \in past'
       \/ agent # Idle /\ agent' = [phase |-> "read", seen |-> saved]

LEMMA AsideSteps ==
  ASSUME TypedInv,
         \/ \E i \in Item : AskToReplace(i) \/ OpenSheet(i)
         \/ \E c \in Slot : AnswerReplace(c, FALSE)
         \/ Open \/ RemovePromo \/ Hire \/ AgentReads
  PROVE  Aside
<1>1. /\ sheet \in Item \union {None} /\ asking \in Item \union {None}
      /\ sends \in 0 .. MaxSends /\ drawer \in BOOLEAN /\ past \subseteq Event
      /\ asking # None => app = "mini" /\ sends < MaxSends
      /\ MaxSends \in Nat
  BY CheckoutAssumption DEF TypedInv, CheckoutTypeOK
<1>2. ASSUME NEW i \in Item, AskToReplace(i)
      PROVE  Aside
  BY <1>1, <1>2 DEF AskToReplace, Aside, store
<1>3. ASSUME NEW c \in Slot, AnswerReplace(c, FALSE)
      PROVE  Aside
  BY <1>1, <1>3 DEF AnswerReplace, Aside, store
<1>4. ASSUME NEW i \in Item, OpenSheet(i)
      PROVE  Aside
  BY <1>1, <1>4 DEF OpenSheet, Aside, store
<1>7. CASE Open \/ RemovePromo
  BY <1>1, <1>7 DEF Open, RemovePromo, Aside, store, page
<1>5. CASE Hire
  <2>1. "agent" \in past' /\ past \subseteq past' /\ past' \subseteq Event
    BY <1>1, <1>5 DEF Hire, Event
  <2>2. asking = None
    BY <1>1, <1>5 DEF Hire
  <2> QED BY <1>1, <1>5, <2>1, <2>2 DEF Hire, Aside, store, page
<1>6. CASE AgentReads
  BY <1>1, <1>6 DEF AgentReads, Aside, store, page, Idle
<1> QED BY <1>2, <1>3, <1>4, <1>5, <1>6, <1>7

LEMMA AsideInv ==
  ASSUME CheckoutInv, Aside
  PROVE  CheckoutInv'
<1> USE CheckoutAssumption
<1>1. TypedInv /\ CheckoutTypeOK
  BY DEF CheckoutInv, TypedInv
<1>2. /\ agent # Idle => agent' # Idle
      /\ agent' # Idle => app = "web" /\ "agent" \in past'
      /\ agent'.phase = "read" => agent' = agent \/ agent'.seen = saved
  BY <1>1 DEF Aside, TypedInv, CheckoutInv, AgentTold, Idle
<1>3. /\ agent' \in {Idle, [phase |-> "working"], [phase |-> "placed"]} \union
                      [phase : {"read"}, seen : Stored]
      /\ promo' \in Restaurant \union {None}
  BY <1>1 DEF Aside, CheckoutTypeOK
<1>4. /\ UNCHANGED <<app, cart, rest, round, saved, call, clock, newest, placing, error,
                     attempt, placed>>
      /\ past \subseteq past' /\ past' \subseteq Event /\ promo' \in {promo, None}
      /\ drawer' \in BOOLEAN /\ sheet' \in Item \union {None} /\ sends' \in 0 .. MaxSends
      /\ asking' \in Item \union {None} /\ (asking' # None => app = "mini" /\ sends' < MaxSends)
  BY DEF Aside
<1>5. TypedInv'
  <2>1. CheckoutTypeOK'
    BY <1>1, <1>3, <1>4 DEF CheckoutTypeOK
  <2>2. agent'.phase = "read" => Whole(agent'.seen)
    BY <1>1, <1>2 DEF TypedInv
  <2> QED BY <2>1, <2>2, <1>1, <1>2, <1>4 DEF TypedInv, Busy, Whole
<1>6. Stamps' /\ OneCheckout' /\ NotPlacedYet' /\ ErrorOver' /\ ErrorMeansNoOrder'
  BY <1>4 DEF CheckoutInv, Stamps, OneCheckout, NotPlacedYet, ErrorOver, ErrorMeansNoOrder,
     OwnCheckout, Ordering, Granted, Writing, Busy
<1>7. RoundsOver' /\ AgentTold' /\ NoDoubleOrder'
  <2>1. RoundsOver'
    BY <1>4 DEF CheckoutInv, RoundsOver, Ordering, Granted, Busy
  <2>2. AgentTold'
    BY <1>2, <1>4 DEF CheckoutInv, AgentTold
  <2>3. NoDoubleOrder'
    BY <1>4 DEF CheckoutInv, NoDoubleOrder
  <2> QED BY <2>1, <2>2, <2>3
<1>8. OneKitchen' /\ PromoOfThisCart'
  BY <1>2, <1>4 DEF CheckoutInv, OneKitchen, PromoOfThisCart, Busy, Local
<1>9. Settles' /\ FetchedWell' /\ NoDeafWrites' /\ OrderedCart'
  BY <1>2, <1>4 DEF CheckoutInv, Settles, FetchedWell, Settling, LastWrite, NoDeafWrites,
     OrderedCart, Ordering, Writing, Sent, Busy, Local
<1> QED BY <1>5, <1>6, <1>7, <1>8, <1>9 DEF CheckoutInv

(* A request that changes no cart goes out: a fetch, a repetition, a check. *)
Asking(c) ==
    \E kind \in {"get", "repeat", "check"}, body \in Stored :
      /\ ~Busy(c) \/ (call[c].phase = "answered" /\ call[c].kind = "repeat" /\ kind = "get")
      /\ kind # "check" => Whole(body)
      /\ FromOne(body)
      /\ call' = [call EXCEPT ![c] = Request(kind, body, clock + 1)]
      /\ clock' = clock + 1
      /\ newest' = IF kind = "repeat" THEN clock + 1 ELSE newest
      /\ agent' \in {agent, Idle} /\ (agent' # agent => kind = "get")
      /\ sends' \in 0 .. MaxSends /\ asking' = asking
      /\ asking # None => sends' = sends
      /\ UNCHANGED <<app, store, saved, drawer, sheet, placing, error, attempt, placed, past>>

LEMMA AskingSteps ==
  ASSUME TypedInv, NEW c \in Slot,
         \/ \E i \in Item : RepeatOrder(c, i)
         \/ ApplyPromo(c) \/ AgentEnds(c)
         \/ Receive(c) /\ ReceiveRepeat(c)
  PROVE  Asking(c)
<1> USE CheckoutAssumption
<1>1. /\ sends \in 0 .. MaxSends /\ rest \in Restaurant \union {None}
  BY DEF TypedInv, CheckoutTypeOK
<1>2. /\ Nothing \in Stored /\ Whole(Nothing) /\ FromOne(Nothing)
      /\ Nothing.items = Empty
  BY NothingFacts DEF FromOne, Nothing, Empty
<1>3. ASSUME NEW i \in Item, RepeatOrder(c, i)
      PROVE  Asking(c)
  <2> DEFINE body == [items |-> Only(i), rest |-> Home[i]]
  <2>1. Home[i] \in Restaurant /\ Home[i] # None
    OBVIOUS
  <2>2. body \in Stored /\ Whole(body)
    BY <2>1, BagFacts, NothingFacts
  <2>3. FromOne(body)
    BY DEF FromOne, Only, Empty
  <2>4. /\ call' = [call EXCEPT ![c] = Request("repeat", body, clock + 1)]
        /\ clock' = clock + 1 /\ newest' = clock + 1 /\ ~Busy(c) /\ agent' = agent
        /\ asking' = asking /\ asking = None /\ sends' \in 0 .. MaxSends
        /\ UNCHANGED <<app, store, saved, drawer, sheet, placing, error, attempt, placed, past>>
    BY <1>1, <1>3 DEF RepeatOrder, SendIn, Writes, Counted, Free, page
  <2> HIDE DEF body
  <2> QED BY <2>2, <2>3, <2>4 DEF Asking
<1>4. CASE ApplyPromo(c)
  <2> DEFINE body == [items |-> Empty, rest |-> rest]
  <2>1. body \in Stored
    BY <1>1, BagFacts, NothingFacts
  <2>2. FromOne(body)
    BY DEF FromOne, Empty
  <2>3. /\ call' = [call EXCEPT ![c] = Request("check", body, clock + 1)]
        /\ clock' = clock + 1 /\ newest' = newest /\ ~Busy(c) /\ agent' = agent
        /\ asking' = asking /\ asking = None /\ sends' \in 0 .. MaxSends
        /\ UNCHANGED <<app, store, saved, drawer, sheet, placing, error, attempt, placed, past>>
    BY <1>1, <1>4 DEF ApplyPromo, SendIn, Writes, Counted, Free, page
  <2> HIDE DEF body
  <2> QED BY <2>1, <2>2, <2>3 DEF Asking
<1>5. CASE AgentEnds(c)
  <2>1. /\ call' = [call EXCEPT ![c] = Request("get", Nothing, clock + 1)]
        /\ clock' = clock + 1 /\ newest' = newest /\ ~Busy(c) /\ agent' = Idle
        /\ asking' = asking /\ sends' = sends
        /\ UNCHANGED <<app, store, saved, drawer, sheet, placing, error, attempt, placed, past>>
    BY <1>5 DEF AgentEnds, SendIn, Writes, page
  <2> HIDE DEF Nothing
  <2> QED BY <1>1, <1>2, <2>1 DEF Asking
<1>6. CASE Receive(c) /\ ReceiveRepeat(c)
  <2>1. /\ call' = [call EXCEPT ![c] = Request("get", Nothing, clock + 1)]
        /\ clock' = clock + 1 /\ newest' = newest
        /\ call[c].phase = "answered" /\ call[c].kind = "repeat" /\ agent' = agent
        /\ asking' = asking /\ sends' = sends
        /\ UNCHANGED <<app, store, saved, drawer, sheet, placing, error, attempt, placed, past>>
    BY <1>6 DEF Receive, ReceiveRepeat, SendIn, Writes, page
  <2> HIDE DEF Nothing
  <2> QED BY <1>1, <1>2, <2>1 DEF Asking
<1> QED BY <1>3, <1>4, <1>5, <1>6

LEMMA AskingInv ==
  ASSUME CheckoutInv, NEW c \in Slot, Asking(c)
  PROVE  CheckoutInv'
<1> USE CheckoutAssumption
<1>1. TypedInv /\ CheckoutTypeOK
  BY DEF CheckoutInv, TypedInv
<1>2. PICK kind \in {"get", "repeat", "check"}, body \in Stored :
      /\ ~Busy(c) \/ (call[c].phase = "answered" /\ call[c].kind = "repeat" /\ kind = "get")
      /\ kind # "check" => Whole(body)
      /\ FromOne(body)
      /\ call' = [call EXCEPT ![c] = Request(kind, body, clock + 1)]
      /\ clock' = clock + 1
      /\ newest' = IF kind = "repeat" THEN clock + 1 ELSE newest
      /\ agent' \in {agent, Idle} /\ (agent' # agent => kind = "get")
      /\ sends' \in 0 .. MaxSends /\ asking' = asking
      /\ asking # None => sends' = sends
      /\ UNCHANGED <<app, store, saved, drawer, sheet, placing, error, attempt, placed, past>>
  BY DEF Asking
<1> DEFINE q == Request(kind, body, clock + 1)
<1>3. clock \in Nat /\ newest \in 0 .. clock /\ attempt \in 0 .. clock
  BY <1>1 DEF CheckoutTypeOK
<1>4. kind \in Kind /\ (kind \in Writes <=> kind = "repeat")
  BY DEF Kind, Writes
<1>5. /\ q \in Call /\ Fits(q)
      /\ q.phase = "sent" /\ q.kind = kind /\ q.body = body /\ q.n = clock + 1 /\ ~q.deaf
  <2>1. clock + 1 \in Nat
    BY <1>3
  <2>2. Fits(q)
    BY <1>2, <1>4, <2>1, RequestFits
  <2>3. q \in Call
    BY <1>4, <2>1, RequestFacts
  <2> QED BY <2>2, <2>3 DEF Request
<1>6. call' = [call EXCEPT ![c] = q]
  BY <1>2
<1> HIDE DEF q
<1>7. /\ call' \in [Slot -> Call \union {Idle}]
      /\ call'[c] = q /\ \A d \in Slot \ {c} : call'[d] = call[d]
      /\ \A d \in Slot : Busy(d)' => Fits(call'[d])
  BY <1>1, <1>5, <1>6, SlotFacts, SlotTyped
<1>8. /\ UNCHANGED <<app, cart, rest, promo, round, saved, drawer, sheet, placing, error,
                     attempt, placed, past, asking>>
      /\ Local' = Local
  BY <1>2 DEF store, Local
<1>9. TypedInv'
  <2>1. /\ agent' \in {Idle, [phase |-> "working"], [phase |-> "placed"]} \union
                       [phase : {"read"}, seen : Stored]
        /\ agent'.phase = "read" => agent' = agent
        /\ agent' # Idle => app = "web"
    BY <1>1, <1>2 DEF CheckoutTypeOK, TypedInv, Idle
  <2>2. clock' \in Nat /\ newest' \in 0 .. clock' /\ attempt' \in 0 .. clock'
    BY <1>2, <1>3, <1>8
  <2>3. CheckoutTypeOK'
    BY <2>1, <2>2, <1>1, <1>2, <1>7, <1>8 DEF CheckoutTypeOK
  <2>4. asking' # None => app' = "mini" /\ sends' < MaxSends
    BY <1>1, <1>2, <1>8 DEF TypedInv
  <2> QED BY <2>1, <2>3, <2>4, <1>1, <1>7, <1>8 DEF TypedInv, Whole
<1>10. /\ ~Ordering(c)' /\ ~Ordering(c) /\ ~OwnCheckout(c) /\ ~OwnCheckout(c)'
       /\ \A d \in Slot : /\ Ordering(d)' <=> Ordering(d)
                          /\ OwnCheckout(d)' <=> OwnCheckout(d)
                          /\ d # c => (Writing(d)' <=> Writing(d)) /\ (Granted(d)' <=> Granted(d))
       /\ Writing(c)' => kind = "repeat"
  BY <1>2, <1>4, <1>5, <1>7 DEF Ordering, OwnCheckout, Writing, Granted, Busy
<1>11. Stamps'
  <2>1. \A d \in Slot : Busy(d) => call[d].n \in 1 .. clock
    BY DEF CheckoutInv, Stamps
  <2>2. \A d \in Slot : Busy(d)' => call'[d].n \in 1 .. clock'
    BY <2>1, <1>2, <1>3, <1>5, <1>7 DEF Busy
  <2>3. \A d, e \in Slot : Busy(d)' /\ Busy(e)' /\ call'[d].n = call'[e].n => d = e
    BY <2>1, <1>3, <1>5, <1>7 DEF CheckoutInv, Stamps, Busy
  <2>4. ASSUME NEW d \in Slot, Busy(d)'
        PROVE  IF Writing(d)' THEN call'[d].n <= newest' ELSE call'[d].n # newest'
    <3>1. CASE d = c
      <4>1. call'[d].n = clock + 1 /\ (Writing(d)' <=> kind = "repeat")
        BY <3>1, <2>4, <1>4, <1>5, <1>7 DEF Writing
      <4> QED BY <4>1, <1>2, <1>3
    <3>2. CASE d # c
      <4>1. /\ Busy(d) /\ call'[d] = call[d] /\ (Writing(d)' <=> Writing(d))
            /\ call[d].n \in 1 .. clock
            /\ IF Writing(d) THEN call[d].n <= newest ELSE call[d].n # newest
        BY <3>2, <2>4, <1>7, <1>10 DEF CheckoutInv, Stamps, Busy
      <4> QED BY <4>1, <1>2, <1>3
    <3> QED BY <3>1, <3>2
  <2>5. \A o \in placed' : o.n <= clock'
    BY <1>1, <1>2, <1>3, <1>8 DEF CheckoutInv, Stamps, CheckoutTypeOK
  <2> QED BY <2>2, <2>3, <2>4, <2>5 DEF Stamps
<1>12. OneCheckout' /\ NotPlacedYet' /\ ErrorOver' /\ ErrorMeansNoOrder'
  BY <1>7, <1>8, <1>10
     DEF CheckoutInv, OneCheckout, NotPlacedYet, ErrorOver, ErrorMeansNoOrder
<1>13. AgentTold' /\ NoDoubleOrder' /\ RoundsOver' /\ PromoOfThisCart' /\ OrderedCart'
  <2>1. AgentTold' /\ NoDoubleOrder' /\ PromoOfThisCart'
    BY <1>2, <1>8 DEF CheckoutInv, AgentTold, NoDoubleOrder, PromoOfThisCart
  <2>2. RoundsOver'
    BY <1>7, <1>8, <1>10 DEF CheckoutInv, RoundsOver
  <2>3. OrderedCart'
    BY <1>7, <1>8, <1>10 DEF CheckoutInv, OrderedCart
  <2> QED BY <2>1, <2>2, <2>3
<1>14. OneKitchen'
  <2>1. agent'.phase = "read" => agent' = agent
    BY <1>2 DEF Idle
  <2> QED BY <2>1, <1>2, <1>5, <1>7, <1>8 DEF CheckoutInv, OneKitchen, Busy
<1>15. NoDeafWrites'
  BY <1>5, <1>7, <1>8, <1>10 DEF CheckoutInv, NoDeafWrites
<1>16. Settles'
  <2> SUFFICES ASSUME past \intersect {"lost", "overtaken"} = {}
               PROVE  \/ agent' # Idle
                      \/ \E d \in Slot : Settling(d)' \/ LastWrite(d)'
                      \/ Local' = saved' /\ ~\E d \in Slot : Writing(d)' /\ Sent(d)'
    BY <1>8 DEF Settles
  <2>1. CASE kind \in {"get", "repeat"}
    <3>1. Settling(c)'
      BY <2>1, <1>2, <1>3, <1>5, <1>7 DEF Settling, Busy
    <3> QED BY <3>1
  <2>2. CASE kind = "check"
    <3>1. newest' = newest /\ agent' = agent /\ ~Busy(c) /\ ~Writing(c)'
      BY <2>2, <1>2, <1>10
    <3>2. ~LastWrite(c)
      BY <3>1 DEF LastWrite, Writing
    <3>3. \A d \in Slot : (Writing(d)' /\ Sent(d)') => (Writing(d) /\ Sent(d))
      BY <3>1, <1>7, <1>10 DEF Sent
    <3>4. \A d \in Slot : Settling(d) => Settling(d)'
      BY <3>1, <1>7 DEF Settling, Busy
    <3>5. \A d \in Slot : LastWrite(d) => LastWrite(d)'
      BY <3>1, <3>2, <1>7, <1>8, <1>10 DEF LastWrite, Sent
    <3> QED BY <3>1, <3>3, <3>4, <3>5, <1>8 DEF CheckoutInv, Settles
  <2> QED BY <2>1, <2>2
<1>17. FetchedWell'
  <2> SUFFICES ASSUME past \intersect {"lost", "overtaken"} = {},
                      NEW d \in Slot, Settling(d)', call'[d].kind = "get",
                      call'[d].phase = "answered"
               PROVE  \/ agent' # Idle
                      \/ \E e \in Slot : Settling(e)' /\
                            (call'[e].kind = "repeat" \/ call'[e].n > call'[d].n)
                      \/ /\ call'[d].body = saved'
                         /\ ~\E e \in Slot : Writing(e)' /\ Sent(e)'
    BY <1>8 DEF FetchedWell
  <2>1. d # c /\ call'[d] = call[d] /\ Busy(d)
    BY <1>5, <1>7 DEF Settling, Busy
  <2>2. call[d].n \in 1 .. clock
    BY <2>1 DEF CheckoutInv, Stamps
  <2>3. CASE kind = "get"
    <3>1. Settling(c)' /\ call'[c].n > call'[d].n
      BY <2>1, <2>2, <2>3, <1>2, <1>3, <1>5, <1>7 DEF Settling, Busy
    <3> QED BY <3>1
  <2>4. CASE kind = "repeat"
    <3>1. newest' = clock + 1
      BY <2>4, <1>2
    <3> QED BY <3>1, <2>1, <2>2, <1>3 DEF Settling
  <2>5. CASE kind = "check"
    <3>1. newest' = newest /\ agent' = agent /\ ~Busy(c) /\ ~Writing(c)'
      BY <2>5, <1>2, <1>10
    <3>2. Settling(d)
      BY <2>1, <3>1 DEF Settling
    <3>3. \A e \in Slot : (Writing(e)' /\ Sent(e)') => (Writing(e) /\ Sent(e))
      BY <3>1, <1>7, <1>10 DEF Sent
    <3>4. \A e \in Slot : Settling(e) => Settling(e)' /\ call'[e] = call[e]
      BY <3>1, <1>7 DEF Settling, Busy
    <3> QED BY <3>1, <3>2, <3>3, <3>4, <2>1, <1>8 DEF CheckoutInv, FetchedWell
  <2> QED BY <2>3, <2>4, <2>5
<1> QED BY <1>9, <1>11, <1>12, <1>13, <1>14, <1>15, <1>16, <1>17 DEF CheckoutInv

LEMMA PlaceOrderInv ==
  ASSUME CheckoutInv, NEW c \in Slot, PlaceOrder(c)
  PROVE  CheckoutInv'
<1> USE CheckoutAssumption
<1>1. TypedInv /\ CheckoutTypeOK
  BY DEF CheckoutInv, TypedInv
<1> DEFINE body == [items |-> cart, rest |-> rest]
           q == [Request("order", body, clock + 1) EXCEPT !.round = round]
<1>2. /\ ~Busy(c) /\ asking = None /\ cart # Empty /\ ~placing
      /\ call' = [call EXCEPT ![c] = q]
      /\ clock' = clock + 1 /\ attempt' = clock + 1
      /\ placing' = TRUE /\ error' = FALSE
      /\ sends' \in 0 .. MaxSends
      /\ UNCHANGED <<app, saved, agent, placed, store, newest, drawer, sheet, asking, past>>
  BY <1>1 DEF PlaceOrder, Counted, Free, MayPlace, Shown, Ordered, Told, CheckoutTypeOK
<1>3. /\ clock \in Nat /\ newest \in 0 .. clock /\ round \in Nat
      /\ cart \in Bag /\ rest \in Restaurant /\ rest # None
  BY <1>1, <1>2 DEF CheckoutTypeOK
<1>4. body \in Stored /\ Whole(body) /\ body = Local /\ body.items = cart
  BY <1>2, <1>3, NothingFacts DEF Local
<1> HIDE DEF body
<1>5. /\ q \in Call /\ Fits(q) /\ q # Idle
      /\ q.phase = "sent" /\ q.kind = "order" /\ q.body = body /\ q.n = clock + 1
      /\ ~q.deaf /\ q.own /\ q.round = round
  <2> DEFINE p == Request("order", body, clock + 1)
  <2>1. p \in Call
    <3>1. "order" \in Kind /\ clock + 1 \in Nat
      BY <1>3 DEF Kind
    <3> QED BY <3>1, <1>4, RequestFacts
  <2>2. /\ p.phase = "sent" /\ p.kind = "order" /\ p.body = body /\ p.n = clock + 1
        /\ ~p.deaf /\ p.own /\ ~p.ok
    BY DEF Request
  <2> HIDE DEF p
  <2>3. /\ q \in Call /\ q.round = round
        /\ q.phase = p.phase /\ q.kind = p.kind /\ q.body = p.body /\ q.n = p.n
        /\ q.deaf = p.deaf /\ q.own = p.own /\ q.ok = p.ok
    BY <2>1, <1>3 DEF Call, p
  <2> HIDE DEF q
  <2> QED BY <2>2, <2>3, <1>2, <1>4 DEF Fits, Idle
<1> HIDE DEF q
<1>6. /\ call' \in [Slot -> Call \union {Idle}]
      /\ call'[c] = q /\ \A d \in Slot \ {c} : call'[d] = call[d]
      /\ \A d \in Slot : Busy(d)' => Fits(call'[d])
  BY <1>1, <1>2, <1>5, SlotFacts, SlotTyped
<1>7. UNCHANGED <<cart, rest, promo, round, Local>>
  BY <1>2 DEF store, Local
<1>8. TypedInv'
  <2>1. clock' \in Nat /\ newest' \in 0 .. clock' /\ attempt' \in 0 .. clock'
    BY <1>2, <1>3
  <2>2. CheckoutTypeOK'
    BY <2>1, <1>1, <1>2, <1>6, <1>7 DEF CheckoutTypeOK
  <2> QED BY <2>2, <1>1, <1>2, <1>6, <1>7 DEF TypedInv, Whole
<1>9. /\ Ordering(c)' /\ ~Granted(c)' /\ OwnCheckout(c)' /\ ~Writing(c)' /\ ~Writing(c)
      /\ \A d \in Slot \ {c} : /\ Ordering(d)' <=> Ordering(d)
                               /\ OwnCheckout(d)' <=> OwnCheckout(d)
                               /\ Writing(d)' <=> Writing(d)
                               /\ Granted(d)' <=> Granted(d)
                               /\ Sent(d)' <=> Sent(d)
  BY <1>2, <1>5, <1>6 DEF Ordering, OwnCheckout, Writing, Granted, Sent, Busy, Writes
<1>10. \A d \in Slot : ~OwnCheckout(d)
  BY <1>2 DEF CheckoutInv, OneCheckout
<1>11. Stamps'
  <2>1. \A d \in Slot : Busy(d) => call[d].n \in 1 .. clock
    BY DEF CheckoutInv, Stamps
  <2>2. \A d \in Slot : Busy(d)' => call'[d].n \in 1 .. clock'
    BY <2>1, <1>2, <1>3, <1>5, <1>6 DEF Busy
  <2>3. \A d, e \in Slot : Busy(d)' /\ Busy(e)' /\ call'[d].n = call'[e].n => d = e
    BY <2>1, <1>3, <1>5, <1>6 DEF CheckoutInv, Stamps, Busy
  <2>4. \A d \in Slot : Busy(d)' => IF Writing(d)' THEN call'[d].n <= newest'
                                                   ELSE call'[d].n # newest'
    BY <1>2, <1>3, <1>5, <1>6, <1>9 DEF CheckoutInv, Stamps, Busy
  <2>5. \A o \in placed' : o.n <= clock'
    BY <1>1, <1>2, <1>3 DEF CheckoutInv, Stamps, CheckoutTypeOK
  <2> QED BY <2>2, <2>3, <2>4, <2>5 DEF Stamps
<1>12. OneCheckout' /\ ErrorOver' /\ ErrorMeansNoOrder'
  BY <1>2, <1>5, <1>6, <1>9, <1>10 DEF OneCheckout, ErrorOver, ErrorMeansNoOrder
<1>13. NotPlacedYet'
  <2>1. \A o \in placed : o.n # clock + 1
    BY <1>1, <1>3 DEF CheckoutInv, Stamps, CheckoutTypeOK
  <2> QED BY <2>1, <1>2, <1>5, <1>6, <1>9 DEF CheckoutInv, NotPlacedYet
<1>14. AgentTold' /\ NoDoubleOrder' /\ PromoOfThisCart'
  BY <1>2, <1>7 DEF CheckoutInv, AgentTold, NoDoubleOrder, PromoOfThisCart
<1>15. RoundsOver'
  <2> SUFFICES ASSUME past \intersect Doubtful = {} PROVE RoundsOver'
    BY <1>2 DEF RoundsOver
  <2>1. \A d \in Slot : ~Ordering(d)
    BY <1>10 DEF CheckoutInv, RoundsOver, OwnCheckout, Ordering
  <2>2. \A o \in placed : o.round < round /\ o.round \in Nat
    BY <2>1, <1>1 DEF CheckoutInv, RoundsOver, CheckoutTypeOK
  <2> QED BY <2>1, <2>2, <1>2, <1>3, <1>5, <1>6, <1>7, <1>9 DEF RoundsOver
<1>16. OneKitchen'
  BY <1>2, <1>4, <1>5, <1>6, <1>7 DEF CheckoutInv, OneKitchen, Busy
<1>17. OrderedCart'
  BY <1>2, <1>4, <1>5, <1>6, <1>7, <1>9 DEF CheckoutInv, OrderedCart
<1>18. NoDeafWrites'
  BY <1>2, <1>6, <1>9 DEF CheckoutInv, NoDeafWrites
<1>19. Settles'
  <2>1. \A d \in Slot : Settling(d) => Settling(d)'
    BY <1>2, <1>6, <1>9 DEF Settling, Busy
  <2>2. \A d \in Slot : LastWrite(d) => LastWrite(d)'
    BY <1>2, <1>6, <1>7, <1>9 DEF LastWrite
  <2> QED BY <2>1, <2>2, <1>2, <1>7, <1>9 DEF CheckoutInv, Settles
<1>20. FetchedWell'
  <2>1. ~Settling(c) /\ ~Settling(c)'
    BY <1>2, <1>5, <1>6 DEF Settling
  <2>2. ASSUME NEW d \in Slot, d # c
        PROVE  Settling(d)' <=> Settling(d)
    BY <2>2, <1>2, <1>6 DEF Settling, Busy
  <2>3. \A d \in Slot : (Writing(d)' /\ Sent(d)') <=> (Writing(d) /\ Sent(d))
    BY <1>9
  <2> QED BY <2>1, <2>2, <2>3, <1>2, <1>6 DEF CheckoutInv, FetchedWell
<1> QED BY <1>8, <1>11, <1>12, <1>13, <1>14, <1>15, <1>16, <1>17, <1>18, <1>19, <1>20
     DEF CheckoutInv

---------------------------------------------------------------------------
(* The server has answered c with p: what stays as it was. *)
Served(c, p) ==
    /\ Sent(c)
    /\ p \in Call \union {Idle} /\ call' = [call EXCEPT ![c] = p]
    /\ p = Idle <=> call[c].deaf \/ call[c].kind \in {"put", "delete"}
    /\ p # Idle => /\ p.phase = "answered" /\ p.kind = call[c].kind /\ p.n = call[c].n
                   /\ p.own = call[c].own /\ p.round = call[c].round /\ ~p.deaf
                   /\ p.kind # "check" => Whole(p.body)
                   /\ p.kind = "order" => p.body.items # Empty
                   /\ p.kind = "finish" => p.body = Nothing
    /\ UNCHANGED <<app, store, clock, newest, page, agent, sends>>

LEMMA AnsweredFacts ==
  ASSUME CheckoutInv, NEW c \in Slot, Sent(c), NEW body \in Stored, NEW ok \in BOOLEAN,
         Answered(c, body, ok), UNCHANGED <<app, store, clock, newest, page, agent, sends>>,
         body = call[c].body \/ (call[c].kind = "get" /\ body = saved)
  PROVE  \E p \in Call \union {Idle} :
           Served(c, p) /\ (p # Idle => p.body = body /\ p.ok = ok)
<1>1. TypedInv /\ CheckoutTypeOK /\ Busy(c)
  BY DEF CheckoutInv, TypedInv, Sent, Busy
<1>2. /\ call[c] \in Call /\ Fits(call[c])
      /\ call[c].kind \in Kind /\ call[c].n \in Nat /\ call[c].own \in BOOLEAN
      /\ call[c].round \in Nat
  BY <1>1, CallShape DEF TypedInv
<1> DEFINE r == [phase |-> "answered", kind |-> call[c].kind, body |-> body, n |-> call[c].n,
                 ok |-> ok, own |-> call[c].own, deaf |-> FALSE, round |-> call[c].round]
           p == IF call[c].deaf \/ call[c].kind \in {"put", "delete"} THEN Idle ELSE r
<1>3. r \in Call /\ r # Idle
  BY <1>2 DEF Call, Idle
<1>4. call' = [call EXCEPT ![c] = p]
  BY DEF Answered
<1>5. p \in Call \union {Idle} /\ (p # Idle => p = r)
  BY <1>3
<1>6. p = Idle <=> call[c].deaf \/ call[c].kind \in {"put", "delete"}
  BY <1>3
<1>7. p # Idle => p.body = body /\ p.ok = ok
  BY <1>5
<1>8. p # Idle => /\ p.phase = "answered" /\ p.kind = call[c].kind /\ p.n = call[c].n
                  /\ p.own = call[c].own /\ p.round = call[c].round /\ ~p.deaf
  BY <1>5
<1> HIDE DEF p, r
<1>9. p # Idle => /\ p.kind # "check" => Whole(p.body)
                  /\ p.kind = "order" => p.body.items # Empty
                  /\ p.kind = "finish" => p.body = Nothing
  BY <1>1, <1>2, <1>7, <1>8 DEF Fits, TypedInv
<1> QED BY <1>4, <1>5, <1>6, <1>7, <1>8, <1>9 DEF Served

LEMMA ServedFacts ==
  ASSUME CheckoutInv, NEW c \in Slot, NEW p, Served(c, p)
  PROVE  /\ call' \in [Slot -> Call \union {Idle}]
         /\ \A d \in Slot : Busy(d)' => Fits(call'[d])
         /\ call'[c] = p /\ \A d \in Slot \ {c} : call'[d] = call[d]
         /\ UNCHANGED <<cart, rest, promo, round, app, clock, newest, agent, sends, drawer,
                        sheet, asking, placing, error, attempt, Local>>
         /\ \A d \in Slot :
              /\ Busy(d)' => /\ Busy(d) /\ call'[d].kind = call[d].kind
                             /\ call'[d].n = call[d].n /\ call'[d].own = call[d].own
                             /\ call'[d].round = call[d].round
                             /\ call'[d].deaf = call[d].deaf
              /\ Ordering(d)' => Ordering(d)
              /\ Writing(d)' => Writing(d)
              /\ Busy(d)' => (Writing(d)' <=> Writing(d))
              /\ OwnCheckout(d)' <=> OwnCheckout(d)
              /\ (Writing(d) /\ Sent(d))' <=> d # c /\ Writing(d) /\ Sent(d)
              /\ d # c => (Granted(d)' <=> Granted(d))
         /\ ~Granted(c)
<1>1. TypedInv /\ CheckoutTypeOK /\ Busy(c)
  BY DEF CheckoutInv, TypedInv, Served, Sent, Busy
<1>2. call[c] \in Call /\ Fits(call[c]) /\ call[c].deaf \in BOOLEAN
  BY <1>1, CallShape DEF TypedInv
<1>3. p = Idle \/ Fits(p)
  BY DEF Served, Fits
<1>4. /\ call' \in [Slot -> Call \union {Idle}]
      /\ call'[c] = p /\ \A d \in Slot \ {c} : call'[d] = call[d]
      /\ \A d \in Slot : Busy(d)' => Fits(call'[d])
  BY <1>1, <1>3, SlotFacts, SlotTyped DEF Served
<1>5. Idle.phase = "idle"
  BY DEF Idle
<1>6. Busy(c)' => /\ p # Idle /\ p.phase = "answered" /\ p.kind = call[c].kind
                  /\ p.n = call[c].n /\ p.own = call[c].own /\ p.round = call[c].round
                  /\ p.deaf = call[c].deaf
  <2>1. p # Idle => ~p.deaf /\ ~call[c].deaf /\ p \in Call
    BY DEF Served
  <2>2. p # Idle => p.deaf = call[c].deaf
    BY <2>1, <1>2 DEF Call
  <2> QED BY <2>2, <1>4, <1>5 DEF Served, Busy
<1>7. ~Sent(c)' /\ ~Granted(c)
  BY <1>4, <1>5 DEF Served, Sent, Granted
<1>8. OwnCheckout(c)' <=> OwnCheckout(c)
  <2>1. OwnCheckout(c) => p # Idle /\ Busy(c)'
    <3>1. OwnCheckout(c) => p # Idle
      BY <1>2 DEF OwnCheckout, Served, Fits
    <3> QED BY <3>1, <1>4 DEF Served, Busy
  <2> QED BY <2>1, <1>1, <1>4, <1>6 DEF OwnCheckout
<1>9. ASSUME NEW d \in Slot \ {c}
      PROVE  /\ Busy(d)' <=> Busy(d)
             /\ Ordering(d)' <=> Ordering(d)
             /\ Writing(d)' <=> Writing(d)
             /\ OwnCheckout(d)' <=> OwnCheckout(d)
             /\ Sent(d)' <=> Sent(d)
             /\ Granted(d)' <=> Granted(d)
  BY <1>4 DEF Busy, Ordering, Writing, OwnCheckout, Sent, Granted
<1>10. /\ Ordering(c)' => Ordering(c)
       /\ Writing(c)' => Writing(c)
       /\ Busy(c)' => (Writing(c)' <=> Writing(c))
  BY <1>1, <1>4, <1>6 DEF Ordering, Writing
<1>11. UNCHANGED <<cart, rest, promo, round, app, clock, newest, agent, sends, drawer,
                   sheet, asking, placing, error, attempt, Local>>
  BY DEF Served, store, page, Local
<1>12. ASSUME NEW d \in Slot, d # c, Busy(d)'
       PROVE  /\ Busy(d) /\ call'[d].kind = call[d].kind
              /\ call'[d].n = call[d].n /\ call'[d].own = call[d].own
              /\ call'[d].round = call[d].round
              /\ call'[d].deaf = call[d].deaf
  BY <1>4, <1>9, <1>12
<1>13. ASSUME NEW d \in Slot
       PROVE  /\ Busy(d)' => /\ Busy(d) /\ call'[d].kind = call[d].kind
                             /\ call'[d].n = call[d].n /\ call'[d].own = call[d].own
                             /\ call'[d].round = call[d].round
                             /\ call'[d].deaf = call[d].deaf
              /\ Ordering(d)' => Ordering(d)
              /\ Writing(d)' => Writing(d)
              /\ Busy(d)' => (Writing(d)' <=> Writing(d))
              /\ OwnCheckout(d)' <=> OwnCheckout(d)
              /\ (Writing(d) /\ Sent(d))' <=> d # c /\ Writing(d) /\ Sent(d)
              /\ d # c => (Granted(d)' <=> Granted(d))
  <2>1. CASE d = c
    BY <2>1, <1>1, <1>4, <1>6, <1>7, <1>8, <1>10
  <2>2. CASE d # c
    BY <2>2, <1>9, <1>12
  <2> QED BY <2>1, <2>2
<1> QED BY <1>4, <1>7, <1>11, <1>13

(* Whatever an answer is, unless it places an order. *)
LEMMA ServedKeeps ==
  ASSUME CheckoutInv, NEW c \in Slot, NEW p, Served(c, p),
         p # Idle /\ p.kind = "order" => p.body = call[c].body,
         saved' \in Stored, Whole(saved'), past \subseteq past', past' \subseteq Event
  PROVE  /\ placed' \subseteq [n : Nat, round : Nat, items : Bag, rest : Restaurant] => TypedInv'
         /\ OneCheckout' /\ ErrorOver' /\ AgentTold' /\ PromoOfThisCart'
         /\ OrderedCart' /\ NoDeafWrites'
         /\ placed' = placed =>
              Stamps' /\ NotPlacedYet' /\ ErrorMeansNoOrder' /\ NoDoubleOrder' /\ RoundsOver'
<1> USE CheckoutAssumption
<1>1. TypedInv /\ CheckoutTypeOK
  BY DEF CheckoutInv, TypedInv
<1>2. /\ call' \in [Slot -> Call \union {Idle}]
      /\ \A d \in Slot : Busy(d)' => Fits(call'[d])
      /\ call'[c] = p /\ \A d \in Slot \ {c} : call'[d] = call[d]
      /\ UNCHANGED <<cart, rest, promo, round, app, clock, newest, agent, sends, drawer,
                     sheet, asking, placing, error, attempt, Local>>
      /\ \A d \in Slot :
           /\ Busy(d)' => /\ Busy(d) /\ call'[d].kind = call[d].kind
                          /\ call'[d].n = call[d].n /\ call'[d].own = call[d].own
                          /\ call'[d].round = call[d].round
                          /\ call'[d].deaf = call[d].deaf
           /\ Ordering(d)' => Ordering(d)
           /\ Writing(d)' => Writing(d)
           /\ Busy(d)' => (Writing(d)' <=> Writing(d))
           /\ OwnCheckout(d)' <=> OwnCheckout(d)
           /\ d # c => (Granted(d)' <=> Granted(d))
      /\ ~Granted(c)
  BY ServedFacts
<1>3. ASSUME placed' \subseteq [n : Nat, round : Nat, items : Bag, rest : Restaurant]
      PROVE  TypedInv'
  <2>1. CheckoutTypeOK'
    BY <1>1, <1>2, <1>3 DEF CheckoutTypeOK
  <2> QED BY <2>1, <1>1, <1>2 DEF TypedInv, Whole
<1>4. OneCheckout'
  <2>1. \A d \in Slot : OwnCheckout(d)' => call'[d].kind = call[d].kind /\ call'[d].n = call[d].n
    BY <1>2 DEF OwnCheckout
  <2> QED BY <2>1, <1>2 DEF CheckoutInv, OneCheckout
<1>5. ErrorOver' /\ AgentTold' /\ PromoOfThisCart'
  <2>1. \A d \in Slot : Ordering(d)' => Ordering(d) /\ call'[d].n = call[d].n
    BY <1>2 DEF Ordering
  <2> QED BY <2>1, <1>2 DEF CheckoutInv, ErrorOver, AgentTold, PromoOfThisCart
<1>6. OrderedCart'
  <2>1. ASSUME NEW d \in Slot, Ordering(d)'
        PROVE  call'[d].body = call[d].body /\ call'[d].deaf = call[d].deaf /\ Ordering(d)
    BY <2>1, <1>2 DEF Ordering, Busy, Idle
  <2> QED BY <2>1, <1>2 DEF CheckoutInv, OrderedCart
<1>7. NoDeafWrites'
  <2>1. \A d \in Slot : Writing(d)' => Writing(d) /\ call'[d].deaf = call[d].deaf
    BY <1>2 DEF Writing
  <2> QED BY <2>1, <1>2 DEF CheckoutInv, NoDeafWrites
<1>8. ASSUME placed' = placed
      PROVE  Stamps' /\ NotPlacedYet' /\ ErrorMeansNoOrder' /\ NoDoubleOrder' /\ RoundsOver'
  <2>1. Stamps'
    <3>1. \A d \in Slot : Busy(d)' => call'[d].n \in 1 .. clock'
      BY <1>2 DEF CheckoutInv, Stamps
    <3>2. \A d, e \in Slot : Busy(d)' /\ Busy(e)' /\ call'[d].n = call'[e].n => d = e
      BY <1>2 DEF CheckoutInv, Stamps
    <3>3. \A d \in Slot : Busy(d)' => IF Writing(d)' THEN call'[d].n <= newest'
                                                     ELSE call'[d].n # newest'
      BY <1>2 DEF CheckoutInv, Stamps
    <3> QED BY <3>1, <3>2, <3>3, <1>2, <1>8 DEF CheckoutInv, Stamps
  <2>2. NotPlacedYet'
    <3>1. \A d \in Slot : (Ordering(d) /\ ~Granted(d))' =>
            Ordering(d) /\ ~Granted(d) /\ call'[d].n = call[d].n
      BY <1>2 DEF Ordering
    <3> QED BY <3>1, <1>8 DEF CheckoutInv, NotPlacedYet
  <2>3. ErrorMeansNoOrder' /\ NoDoubleOrder'
    BY <1>2, <1>8 DEF CheckoutInv, ErrorMeansNoOrder, NoDoubleOrder
  <2>4. RoundsOver'
    <3> SUFFICES ASSUME past' \intersect Doubtful = {} PROVE RoundsOver'
      BY DEF RoundsOver
    <3>1. past \intersect Doubtful = {}
      OBVIOUS
    <3>2. ASSUME NEW d \in Slot, Ordering(d)'
          PROVE  /\ call'[d].own
                 /\ call'[d].round <= round' /\ (call'[d].round = round' => cart' # Empty)
                 /\ ~Granted(d)' => \A o \in placed' : o.round # call'[d].round
      <4>1. Ordering(d) /\ call'[d].own = call[d].own /\ call'[d].round = call[d].round
            /\ (~Granted(d)' => ~Granted(d))
        BY <3>2, <1>2 DEF Ordering
      <4> QED BY <4>1, <3>1, <1>2, <1>8 DEF CheckoutInv, RoundsOver
    <3>3. ASSUME NEW o \in placed'
          PROVE  \/ o.round < round'
                 \/ \E d \in Slot : Ordering(d)' /\ Granted(d)' /\ o.round = call'[d].round
      <4>1. \/ o.round < round
            \/ \E d \in Slot : Ordering(d) /\ Granted(d) /\ o.round = call[d].round
        BY <3>1, <1>8 DEF CheckoutInv, RoundsOver
      <4>2. ASSUME NEW d \in Slot, Ordering(d), Granted(d)
            PROVE  Ordering(d)' /\ Granted(d)' /\ call'[d] = call[d]
        BY <4>2, <1>2 DEF Ordering, Busy
      <4> QED BY <4>1, <4>2, <1>2
    <3> QED BY <3>2, <3>3 DEF RoundsOver
  <2> QED BY <2>1, <2>2, <2>3, <2>4
<1> QED BY <1>3, <1>4, <1>5, <1>6, <1>7, <1>8

(* And unless it changes the server's cart. *)
LEMMA ServedSettling ==
  ASSUME CheckoutInv, NEW c \in Slot, NEW p, Served(c, p)
  PROVE  \A d \in Slot : /\ Settling(d)' <=> Settling(d)
                         /\ Settling(d) => call'[d].n = call[d].n /\ call'[d].kind = call[d].kind
<1>1. /\ call'[c] = p /\ \A d \in Slot \ {c} : call'[d] = call[d]
      /\ newest' = newest
      /\ \A d \in Slot : Busy(d)' => /\ Busy(d) /\ call'[d].kind = call[d].kind
                                     /\ call'[d].n = call[d].n
                                     /\ call'[d].deaf = call[d].deaf
  BY ServedFacts
<1>2. \A d \in Slot : Settling(d)' => Settling(d)
  BY <1>1 DEF Settling
<1>3. ASSUME NEW d \in Slot, Settling(d) PROVE Busy(d)'
  <2>1. CASE d = c
    <3>1. p # Idle /\ p.phase = "answered"
      BY <2>1, <1>3 DEF Settling, Served
    <3> QED BY <3>1, <2>1, <1>1 DEF Busy
  <2>2. CASE d # c
    BY <2>2, <1>1, <1>3 DEF Settling, Busy
  <2> QED BY <2>1, <2>2
<1>4. \A d \in Slot : Settling(d) => Settling(d)'
  BY <1>1, <1>3 DEF Settling
<1> QED BY <1>1, <1>2, <1>3, <1>4

LEMMA ServedSettles ==
  ASSUME CheckoutInv, NEW c \in Slot, NEW p, Served(c, p), ~Writing(c), saved' = saved,
         past \union Overtaken(c) \subseteq past' \/ call[c].kind # "get",
         past \subseteq past', call[c].kind = "get" /\ p # Idle => p.body = saved
  PROVE  Settles' /\ FetchedWell'
<1>1. /\ call'[c] = p /\ \A d \in Slot \ {c} : call'[d] = call[d]
      /\ UNCHANGED <<newest, agent, Local>>
      /\ \A d \in Slot : (Writing(d) /\ Sent(d))' <=> d # c /\ Writing(d) /\ Sent(d)
  BY ServedFacts
<1>2. TypedInv /\ CheckoutTypeOK
  BY DEF CheckoutInv, TypedInv
<1> SUFFICES ASSUME past' \intersect {"lost", "overtaken"} = {} PROVE Settles' /\ FetchedWell'
  BY DEF Settles, FetchedWell
<1>3. past \intersect {"lost", "overtaken"} = {}
  OBVIOUS
<1>4. \A d \in Slot : /\ Settling(d)' <=> Settling(d)
                      /\ Settling(d) => call'[d].n = call[d].n /\ call'[d].kind = call[d].kind
  BY ServedSettling
<1>5. ASSUME NEW d \in Slot, LastWrite(d) PROVE LastWrite(d)'
  <2>1. d # c
    BY <1>5 DEF LastWrite
  <2> QED BY <2>1, <1>1, <1>5 DEF LastWrite
<1>6. Settles'
  BY <1>1, <1>3, <1>4, <1>5 DEF CheckoutInv, Settles
<1>7. FetchedWell'
  <2> SUFFICES ASSUME NEW d \in Slot, Settling(d)', call'[d].kind = "get",
                      call'[d].phase = "answered"
               PROVE  \/ agent' # Idle
                      \/ \E e \in Slot : Settling(e)' /\
                            (call'[e].kind = "repeat" \/ call'[e].n > call'[d].n)
                      \/ /\ call'[d].body = saved'
                         /\ ~\E e \in Slot : (Writing(e) /\ Sent(e))'
    BY DEF FetchedWell
  <2>1. Settling(d) /\ call[d].kind = "get"
    BY <1>4
  <2>2. CASE d = c
    <3>1. Busy(c) /\ call[c].kind = "get" /\ call[c].n > newest
      BY <2>1, <2>2 DEF Settling
    <3>2. call'[d].body = saved'
      BY <2>2, <3>1, <1>1 DEF Idle
    <3>3. ASSUME NEW e \in Slot, Writing(e), Sent(e) PROVE FALSE
      <4>1. call[e].n <= newest /\ call[e].n \in Nat /\ call[c].n \in Nat /\ newest \in Nat
        BY <3>1, <3>3, <1>2, CallShape DEF CheckoutInv, Stamps, Writing, CheckoutTypeOK
      <4>2. call[e].n < call[c].n
        BY <4>1, <3>1
      <4> QED BY <4>2, <3>1, <3>3 DEF Overtaken, Writing, Sent
    <3> QED BY <3>2, <3>3, <1>1
  <2>3. CASE d # c
    <3>1. \/ agent # Idle
          \/ \E e \in Slot : Settling(e) /\ (call[e].kind = "repeat" \/ call[e].n > call[d].n)
          \/ call[d].body = saved /\ ~\E e \in Slot : Writing(e) /\ Sent(e)
      BY <2>1, <2>3, <1>1, <1>3 DEF CheckoutInv, FetchedWell
    <3>2. call'[d] = call[d]
      BY <2>3, <1>1
    <3> QED BY <3>1, <3>2, <1>1, <1>4
  <2> QED BY <2>2, <2>3
<1> QED BY <1>6, <1>7

LEMMA ServedOneKitchen ==
  ASSUME CheckoutInv, NEW c \in Slot, NEW p, Served(c, p), past \subseteq past',
         p # Idle => p.body \in {call[c].body, saved}, saved' \in {saved, call[c].body},
         \A o \in placed' \ placed : FromOne(call[c].body) => FromOne(o)
  PROVE  OneKitchen'
<1>1. /\ call'[c] = p /\ \A d \in Slot \ {c} : call'[d] = call[d]
      /\ UNCHANGED <<agent, Local>>
      /\ \A d \in Slot : Busy(d)' => Busy(d)
  BY ServedFacts
<1>2. Busy(c)
  BY DEF Served, Sent, Busy
<1> SUFFICES ASSUME "switched" \notin past' PROVE OneKitchen'
  BY DEF OneKitchen
<1>3. /\ FromOne(Local) /\ FromOne(saved) /\ \A o \in placed : FromOne(o)
      /\ \A d \in Slot : Busy(d) => FromOne(call[d].body)
      /\ agent.phase = "read" => FromOne(agent.seen)
  BY DEF CheckoutInv, OneKitchen
<1>4. FromOne(call[c].body)
  BY <1>2, <1>3
<1>5. FromOne(saved') /\ \A o \in placed' : FromOne(o)
  BY <1>3, <1>4
<1>6. ASSUME NEW d \in Slot, Busy(d)' PROVE FromOne(call'[d].body)
  <2>1. CASE d = c
    BY <2>1, <1>1, <1>3, <1>4, <1>6 DEF Busy, Idle
  <2>2. CASE d # c
    BY <2>2, <1>1, <1>3, <1>6
  <2> QED BY <2>1, <2>2
<1> QED BY <1>1, <1>3, <1>5, <1>6 DEF OneKitchen

LEMMA OvertakenFacts ==
  ASSUME NEW c \in Slot, past \subseteq Event, past' = past \union Overtaken(c)
  PROVE  past \subseteq past' /\ past' \subseteq Event
BY DEF Overtaken, Event

LEMMA ServeGetInv ==
  ASSUME CheckoutInv, NEW c \in Slot, Serve(c), call[c].kind = "get"
  PROVE  CheckoutInv'
<1>1. TypedInv /\ CheckoutTypeOK /\ Sent(c)
  BY DEF CheckoutInv, TypedInv, Serve, Sent
<1>2. /\ Answered(c, saved, TRUE) /\ past' = past \union Overtaken(c)
      /\ UNCHANGED <<saved, placed>>
      /\ UNCHANGED <<app, store, clock, newest, page, agent, sends>>
  BY DEF Serve, Writes
<1>3. saved \in Stored /\ past \subseteq Event /\ Whole(saved)
      /\ placed \subseteq [n : Nat, round : Nat, items : Bag, rest : Restaurant]
  BY <1>1 DEF CheckoutTypeOK, TypedInv
<1>4. PICK p \in Call \union {Idle} : Served(c, p) /\ (p # Idle => p.body = saved)
  BY <1>1, <1>2, <1>3, AnsweredFacts
<1>5. p # Idle => p.kind = "get"
  BY <1>4 DEF Served
<1>6. past \subseteq past' /\ past' \subseteq Event
  BY <1>2, <1>3, OvertakenFacts
<1>7. /\ TypedInv' /\ OneCheckout' /\ ErrorOver' /\ AgentTold' /\ PromoOfThisCart'
      /\ OrderedCart' /\ NoDeafWrites'
      /\ Stamps' /\ NotPlacedYet' /\ ErrorMeansNoOrder' /\ NoDoubleOrder' /\ RoundsOver'
  BY <1>2, <1>3, <1>4, <1>5, <1>6, ServedKeeps
<1>8. Settles' /\ FetchedWell'
  BY <1>2, <1>4, <1>6, ServedSettles DEF Writing, Writes
<1>9. OneKitchen'
  BY <1>2, <1>4, <1>6, ServedOneKitchen
<1> QED BY <1>7, <1>8, <1>9 DEF CheckoutInv

LEMMA ServeCheckInv ==
  ASSUME CheckoutInv, NEW c \in Slot, Serve(c), call[c].kind = "check"
  PROVE  CheckoutInv'
<1>1. TypedInv /\ CheckoutTypeOK /\ Sent(c) /\ Busy(c)
  BY DEF CheckoutInv, TypedInv, Serve, Sent, Busy
<1>2. PICK ok \in BOOLEAN : Answered(c, call[c].body, ok)
  BY DEF Serve, Writes
<1>3. UNCHANGED <<saved, placed, past, app, store, clock, newest, page, agent, sends>>
  BY DEF Serve, Writes
<1>4. saved \in Stored /\ past \subseteq Event /\ Whole(saved) /\ call[c].body \in Stored
      /\ placed \subseteq [n : Nat, round : Nat, items : Bag, rest : Restaurant]
  BY <1>1, CallShape DEF CheckoutTypeOK, TypedInv
<1>5. PICK p \in Call \union {Idle} : Served(c, p) /\ (p # Idle => p.body = call[c].body)
  BY <1>1, <1>2, <1>3, <1>4, AnsweredFacts
<1>6. p # Idle => p.kind = "check"
  BY <1>5 DEF Served
<1>7. /\ TypedInv' /\ OneCheckout' /\ ErrorOver' /\ AgentTold' /\ PromoOfThisCart'
      /\ OrderedCart' /\ NoDeafWrites'
      /\ Stamps' /\ NotPlacedYet' /\ ErrorMeansNoOrder' /\ NoDoubleOrder' /\ RoundsOver'
  <2>1. Whole(saved')
    BY <1>3, <1>4
  <2> QED BY <2>1, <1>3, <1>4, <1>5, <1>6, ServedKeeps
<1>8. Settles' /\ FetchedWell'
  BY <1>3, <1>5, ServedSettles DEF Writing, Writes
<1>9. OneKitchen'
  BY <1>3, <1>5, ServedOneKitchen
<1> QED BY <1>7, <1>8, <1>9 DEF CheckoutInv

LEMMA ServeWriteInv ==
  ASSUME CheckoutInv, NEW c \in Slot, Serve(c), call[c].kind \in Writes
  PROVE  CheckoutInv'
<1>1. TypedInv /\ CheckoutTypeOK /\ Sent(c) /\ Busy(c) /\ Fits(call[c])
  BY DEF CheckoutInv, TypedInv, Serve, Sent, Busy
<1>2. /\ saved' = IF call[c].kind \in {"delete", "finish"} THEN Nothing ELSE call[c].body
      /\ Answered(c, call[c].body, TRUE) /\ past' = past \union Overtaken(c)
      /\ UNCHANGED <<placed, app, store, clock, newest, page, agent, sends>>
  BY DEF Serve, Writes
<1>3. saved' = call[c].body
  BY <1>1, <1>2 DEF Fits
<1>4. past \subseteq Event /\ call[c].body \in Stored
      /\ placed \subseteq [n : Nat, round : Nat, items : Bag, rest : Restaurant]
  BY <1>1, CallShape DEF CheckoutTypeOK
<1>5. call[c].kind \notin {"get", "order", "check"}
  BY DEF Writes
<1>6. PICK p \in Call \union {Idle} : Served(c, p) /\ (p # Idle => p.body = call[c].body)
  <2>1. /\ Sent(c) /\ call[c].body \in Stored /\ Answered(c, call[c].body, TRUE)
        /\ UNCHANGED <<app, store, clock, newest, page, agent, sends>>
    BY <1>1, <1>2, <1>4
  <2>2. \E p \in Call \union {Idle} :
          Served(c, p) /\ (p # Idle => p.body = call[c].body /\ p.ok = TRUE)
    BY <2>1, AnsweredFacts
  <2> QED BY <2>2
<1>7. past \subseteq past' /\ past' \subseteq Event
  BY <1>2, <1>4, OvertakenFacts
<1>8. Whole(saved')
  BY <1>1, <1>3, <1>5 DEF Fits
<1>9. /\ TypedInv' /\ OneCheckout' /\ ErrorOver' /\ AgentTold' /\ PromoOfThisCart'
      /\ OrderedCart' /\ NoDeafWrites'
      /\ Stamps' /\ NotPlacedYet' /\ ErrorMeansNoOrder' /\ NoDoubleOrder' /\ RoundsOver'
  BY <1>2, <1>3, <1>4, <1>6, <1>7, <1>8, ServedKeeps
<1>10. OneKitchen'
  BY <1>2, <1>3, <1>6, <1>7, ServedOneKitchen
<1>11. Settles' /\ FetchedWell'
  <2> SUFFICES ASSUME past' \intersect {"lost", "overtaken"} = {}
               PROVE  Settles' /\ FetchedWell'
    BY DEF Settles, FetchedWell
  <2>1. past \intersect {"lost", "overtaken"} = {} /\ "overtaken" \notin Overtaken(c)
    BY <1>2
  <2>2. /\ call'[c] = p /\ \A d \in Slot \ {c} : call'[d] = call[d]
        /\ UNCHANGED <<newest, agent, Local>>
        /\ \A d \in Slot : (Writing(d) /\ Sent(d))' <=> d # c /\ Writing(d) /\ Sent(d)
    BY <1>6, ServedFacts
  <2>3. Writing(c) /\ Sent(c)
    BY <1>1 DEF Writing
  <2>4. \/ agent # Idle
        \/ \E d \in Slot : Settling(d) \/ LastWrite(d)
    BY <2>1, <2>3 DEF CheckoutInv, Settles
  <2>5. CASE agent # Idle
    BY <2>5, <2>2 DEF Settles, FetchedWell
  <2>6. ASSUME NEW d \in Slot, Settling(d) PROVE Settles'
    <3>1. Settling(d)'
      BY <2>6, <1>6, ServedSettling
    <3> QED BY <3>1 DEF Settles
  <2>7. ASSUME NEW d \in Slot, LastWrite(d) PROVE Settles'
    <3>1. CASE d = c
      <4>1. ASSUME NEW e \in Slot, e # c, Writing(e), Sent(e) PROVE FALSE
        <5>1. call[e].n <= newest /\ call[e].n # newest /\ call[c].n = newest
          BY <4>1, <2>7, <3>1 DEF CheckoutInv, Stamps, LastWrite, Writing
        <5>2. call[e].n \in Nat /\ newest \in Nat
          BY <4>1, <1>1, CallShape DEF Writing, CheckoutTypeOK
        <5>3. call[e].n < call[c].n
          BY <5>1, <5>2
        <5> QED BY <5>3, <4>1, <2>1 DEF Overtaken, Writing, Sent
      <4>2. Local' = saved'
        BY <2>2, <2>7, <3>1, <1>3 DEF LastWrite
      <4>3. ~\E e \in Slot : (Writing(e) /\ Sent(e))'
        BY <4>1, <2>2
      <4> QED BY <4>2, <4>3 DEF Settles
    <3>2. CASE d # c
      <4>1. LastWrite(d)'
        BY <3>2, <2>2, <2>7 DEF LastWrite
      <4> QED BY <4>1 DEF Settles
    <3> QED BY <3>1, <3>2
  <2>8. FetchedWell'
    <3> SUFFICES ASSUME NEW d \in Slot, Settling(d)', call'[d].kind = "get",
                        call'[d].phase = "answered"
                 PROVE  \/ agent' # Idle
                        \/ \E e \in Slot : Settling(e)' /\
                              (call'[e].kind = "repeat" \/ call'[e].n > call'[d].n)
      BY DEF FetchedWell
    <3>1. \A e \in Slot : /\ Settling(e)' <=> Settling(e)
                          /\ Settling(e) => call'[e].n = call[e].n /\ call'[e].kind = call[e].kind
      BY <1>6, ServedSettling
    <3>2. d # c
      BY <3>1, <1>5
    <3>3. \/ agent # Idle
          \/ \E e \in Slot : Settling(e) /\ (call[e].kind = "repeat" \/ call[e].n > call[d].n)
      BY <2>1, <2>2, <2>3, <3>1, <3>2 DEF CheckoutInv, FetchedWell
    <3> QED BY <3>1, <3>2, <3>3, <2>2
  <2> QED BY <2>4, <2>5, <2>6, <2>7, <2>8
<1> QED BY <1>9, <1>10, <1>11 DEF CheckoutInv

LEMMA ServeOrderInv ==
  ASSUME CheckoutInv, NEW c \in Slot, Serve(c), call[c].kind = "order"
  PROVE  CheckoutInv'
<1>1. TypedInv /\ CheckoutTypeOK /\ Sent(c) /\ Busy(c) /\ Fits(call[c]) /\ Ordering(c)
  BY DEF CheckoutInv, TypedInv, Serve, Sent, Busy, Ordering
<1>2. UNCHANGED <<saved, past, app, store, clock, newest, page, agent, sends>>
  BY DEF Serve, Writes
<1> DEFINE q == call[c]
           o == [n |-> q.n, round |-> q.round, items |-> q.body.items, rest |-> q.body.rest]
<1>3. \/ placed' = placed \union {o} /\ Answered(c, q.body, TRUE)
      \/ placed' = placed /\ Answered(c, q.body, FALSE)
  BY DEF Serve, Writes
<1>4. /\ saved \in Stored /\ past \subseteq Event /\ Whole(saved) /\ q.body \in Stored
      /\ placed \subseteq [n : Nat, round : Nat, items : Bag, rest : Restaurant]
      /\ q.n \in Nat /\ q.round \in Nat /\ q.body.items \in Bag
      /\ q.body.rest \in Restaurant
      /\ clock \in Nat
  <2>1. Whole(q.body) /\ q.body.items # Empty
    BY <1>1 DEF Fits
  <2> QED BY <2>1, <1>1, CallShape DEF CheckoutTypeOK, TypedInv, Whole
<1>5. PICK p \in Call \union {Idle} :
        /\ Served(c, p) /\ (p # Idle => p.body = q.body)
        /\ p # Idle /\ placed' # placed => p.ok
  <2>1. CASE placed' = placed \union {o} /\ Answered(c, q.body, TRUE)
    BY <2>1, <1>1, <1>2, <1>4, AnsweredFacts
  <2>2. CASE placed' = placed /\ Answered(c, q.body, FALSE)
    BY <2>2, <1>1, <1>2, <1>4, AnsweredFacts
  <2> QED BY <1>3, <2>1, <2>2
<1>6. o \in [n : Nat, round : Nat, items : Bag, rest : Restaurant]
      /\ o.n = q.n /\ o.round = q.round
  BY <1>4
<1>7. Whole(saved')
  BY <1>2, <1>4
<1>8. Settles' /\ FetchedWell'
  BY <1>2, <1>1, <1>5, ServedSettles DEF Writing, Writes
<1>9. OneKitchen'
  <2>1. FromOne(q.body) => FromOne(o)
    BY DEF FromOne
  <2> HIDE DEF q, o
  <2> QED BY <2>1, <1>2, <1>3, <1>5, ServedOneKitchen DEF q
<1> HIDE DEF o
<1>10. CASE placed' = placed
  BY <1>10, <1>2, <1>4, <1>5, <1>7, <1>8, <1>9, ServedKeeps DEF CheckoutInv
<1>11. CASE placed' # placed
  <2>1. placed' = placed \union {o} /\ (p # Idle => p.ok)
    BY <1>3, <1>5, <1>11
  <2>2. /\ TypedInv' /\ OneCheckout' /\ ErrorOver' /\ AgentTold' /\ PromoOfThisCart'
        /\ OrderedCart' /\ NoDeafWrites'
    BY <2>1, <1>2, <1>4, <1>5, <1>6, <1>7, ServedKeeps
  <2>3. /\ call'[c] = p /\ \A d \in Slot \ {c} : call'[d] = call[d]
        /\ UNCHANGED <<cart, round, clock, newest, attempt, error, past>>
        /\ \A d \in Slot :
             /\ Busy(d)' => /\ Busy(d) /\ call'[d].kind = call[d].kind
                            /\ call'[d].n = call[d].n /\ call'[d].own = call[d].own
                            /\ call'[d].round = call[d].round
             /\ Ordering(d)' => Ordering(d)
             /\ Busy(d)' => (Writing(d)' <=> Writing(d))
             /\ d # c => (Granted(d)' <=> Granted(d))
        /\ ~Granted(c)
    BY <1>2, <1>5, ServedFacts
  <2>4. p # Idle => Granted(c)' /\ Ordering(c)'
    BY <2>1, <2>3, <1>5 DEF Served, Granted, Ordering, Busy
  <2>5. Stamps'
    <3>1. \A d \in Slot : Busy(d)' => call'[d].n \in 1 .. clock'
      BY <2>3 DEF CheckoutInv, Stamps
    <3>2. \A d, e \in Slot : Busy(d)' /\ Busy(e)' /\ call'[d].n = call'[e].n => d = e
      BY <2>3 DEF CheckoutInv, Stamps
    <3>3. \A d \in Slot : Busy(d)' => IF Writing(d)' THEN call'[d].n <= newest'
                                                     ELSE call'[d].n # newest'
      BY <2>3 DEF CheckoutInv, Stamps
    <3>4. q.n \in 1 .. clock
      BY <1>1 DEF CheckoutInv, Stamps
    <3>5. \A r \in placed' : r.n <= clock'
      BY <2>1, <2>3, <3>4, <1>4, <1>6 DEF CheckoutInv, Stamps
    <3> QED BY <3>1, <3>2, <3>3, <3>5 DEF Stamps
  <2>6. NotPlacedYet'
    <3> SUFFICES ASSUME NEW d \in Slot, Ordering(d)', ~Granted(d)', NEW r \in placed'
                 PROVE  r.n # call'[d].n
      BY DEF NotPlacedYet
    <3>1. d # c
      BY <2>3, <2>4 DEF Ordering, Busy, Idle
    <3>2. Ordering(d) /\ ~Granted(d) /\ call'[d].n = call[d].n
      BY <3>1, <2>3 DEF Ordering
    <3>3. call[d].n # q.n
      BY <3>1, <3>2, <1>1 DEF CheckoutInv, Stamps, Ordering
    <3> QED BY <3>2, <3>3, <2>1, <1>6 DEF CheckoutInv, NotPlacedYet
  <2>7. ErrorMeansNoOrder'
    <3>1. error /\ past \intersect {"order lost", "clear lost"} = {} => q.n # attempt
      BY <1>1 DEF CheckoutInv, ErrorOver
    <3> QED BY <3>1, <2>1, <2>3, <1>6 DEF CheckoutInv, ErrorMeansNoOrder
  <2>8. ASSUME past \intersect Doubtful = {}
        PROVE  /\ q.own /\ \A r \in placed : r.round # q.round
               /\ p # Idle
               /\ \A d \in Slot : Ordering(d) => d = c
    <3>1. q.own /\ \A r \in placed : r.round # q.round
      BY <2>3, <2>8, <1>1 DEF CheckoutInv, RoundsOver
    <3>2. p # Idle
      BY <3>1, <1>1, <1>5 DEF Served, Fits
    <3>3. \A d \in Slot : Ordering(d) => OwnCheckout(d)
      BY <2>8 DEF CheckoutInv, RoundsOver, OwnCheckout, Ordering
    <3> QED BY <3>1, <3>2, <3>3, <1>1 DEF CheckoutInv, OneCheckout
  <2>9. NoDoubleOrder'
    <3> SUFFICES ASSUME past \intersect Doubtful = {}, NEW r \in placed', NEW t \in placed',
                        r.round = t.round
                 PROVE  r = t
      BY <2>3 DEF NoDoubleOrder, Doubtful
    <3>1. \A u, w \in placed : u.round = w.round => u = w
      BY DEF CheckoutInv, NoDoubleOrder, Doubtful
    <3> QED BY <3>1, <2>1, <2>8, <1>6
  <2>10. RoundsOver'
    <3> SUFFICES ASSUME past \intersect Doubtful = {} PROVE RoundsOver'
      BY <2>3 DEF RoundsOver
    <3>1. /\ call'[c].own /\ call'[c].round <= round'
          /\ (call'[c].round = round' => cart' # Empty) /\ call'[c].round = q.round
      BY <2>3, <2>4, <2>8, <1>1 DEF CheckoutInv, RoundsOver, Ordering
    <3>2. \A d \in Slot : Ordering(d)' => d = c
      BY <2>3, <2>8
    <3>3. ASSUME NEW r \in placed'
          PROVE  \/ r.round < round'
                 \/ \E d \in Slot : Ordering(d)' /\ Granted(d)' /\ r.round = call'[d].round
      <4>1. CASE r = o
        BY <4>1, <3>1, <2>4, <2>8, <1>6
      <4>2. CASE r \in placed
        <5>1. \A d \in Slot : ~(Ordering(d) /\ Granted(d))
          BY <2>3, <2>8
        <5>2. r.round < round
          BY <5>1, <4>2 DEF CheckoutInv, RoundsOver
        <5> QED BY <5>2, <2>3
      <4> QED BY <4>1, <4>2, <2>1
    <3> QED BY <3>1, <3>2, <3>3, <2>4, <2>8 DEF RoundsOver
  <2> QED BY <2>2, <2>5, <2>6, <2>7, <2>9, <2>10, <1>8, <1>9 DEF CheckoutInv
<1> QED BY <1>10, <1>11

LEMMA ServeInv ==
  ASSUME CheckoutInv, NEW c \in Slot, Serve(c)
  PROVE  CheckoutInv'
<1>1. Busy(c) /\ call[c].kind \in Kind
  <2>1. Busy(c) /\ CheckoutTypeOK
    BY DEF Serve, Busy, CheckoutInv, TypedInv
  <2> QED BY <2>1, CallShape
<1>2. \/ call[c].kind = "get" \/ call[c].kind = "check" \/ call[c].kind = "order"
      \/ call[c].kind \in Writes
  BY <1>1 DEF Kind, Writes
<1> QED BY <1>2, ServeGetInv, ServeCheckInv, ServeOrderInv, ServeWriteInv

---------------------------------------------------------------------------
(* A request is over. *)
LEMMA FreedFacts ==
  ASSUME CheckoutInv, NEW c \in Slot, call' = [call EXCEPT ![c] = Idle]
  PROVE  /\ call' \in [Slot -> Call \union {Idle}]
         /\ \A d \in Slot : Busy(d)' => Fits(call'[d])
         /\ \A d \in Slot : /\ Busy(d)' <=> d # c /\ Busy(d)
                            /\ Ordering(d)' <=> d # c /\ Ordering(d)
                            /\ OwnCheckout(d)' <=> d # c /\ OwnCheckout(d)
                            /\ Writing(d)' <=> d # c /\ Writing(d)
                            /\ Sent(d)' <=> d # c /\ Sent(d)
                            /\ Granted(d)' <=> d # c /\ Granted(d)
                            /\ d # c => call'[d] = call[d]
<1>1. TypedInv /\ CheckoutTypeOK
  BY DEF CheckoutInv, TypedInv
<1>2. Idle.phase = "idle" /\ Idle \in Call \union {Idle}
  BY DEF Idle
<1>3. /\ call' \in [Slot -> Call \union {Idle}]
      /\ call'[c] = Idle /\ \A d \in Slot \ {c} : call'[d] = call[d]
      /\ \A d \in Slot : Busy(d)' => Fits(call'[d])
  BY <1>1, <1>2, SlotFacts, SlotTyped
<1>4. ASSUME NEW d \in Slot
      PROVE  /\ Busy(d)' <=> d # c /\ Busy(d)
             /\ Ordering(d)' <=> d # c /\ Ordering(d)
             /\ OwnCheckout(d)' <=> d # c /\ OwnCheckout(d)
             /\ Writing(d)' <=> d # c /\ Writing(d)
             /\ Sent(d)' <=> d # c /\ Sent(d)
             /\ Granted(d)' <=> d # c /\ Granted(d)
  <2>1. CASE d = c
    BY <2>1, <1>2, <1>3 DEF Busy, Ordering, OwnCheckout, Writing, Sent, Granted
  <2>2. CASE d # c
    BY <2>2, <1>3 DEF Busy, Ordering, OwnCheckout, Writing, Sent, Granted
  <2> QED BY <2>1, <2>2
<1> QED BY <1>3, <1>4

(* What else the end of a request does: it may change the cart, and end the *)
(* page's checkout, with an error only if the order was refused or lost. *)
Ending(c) ==
    /\ Busy(c) /\ call' = [call EXCEPT ![c] = Idle]
    /\ UNCHANGED <<saved, agent, placed, clock, attempt>> /\ past \subseteq past'
    /\ round' \in Nat /\ round <= round' /\ (round' = round => cart' # Empty \/ cart = Empty)
    /\ cart' = cart \/ Edited \subseteq past'
    /\ ~Ordering(c) \/ ~Granted(c) \/ "order lost" \in past'
    /\ IF OwnCheckout(c)
       THEN /\ ~placing'
            /\ error' => \/ Ordering(c) /\ ~Granted(c)
                         \/ past' \intersect {"order lost", "clear lost"} # {}
       ELSE placing' = placing /\ error' = error

LEMMA FreedKeeps ==
  ASSUME CheckoutInv, NEW c \in Slot, Ending(c)
  PROVE  /\ newest' = newest => Stamps'
         /\ OneCheckout' /\ NotPlacedYet' /\ ErrorOver' /\ ErrorMeansNoOrder'
         /\ RoundsOver' /\ AgentTold' /\ NoDoubleOrder'
         /\ ("switched" \notin past' => FromOne(Local')) => OneKitchen'
         /\ NoDeafWrites' /\ OrderedCart'
<1>1. TypedInv /\ CheckoutTypeOK
  BY DEF CheckoutInv, TypedInv
<1>2. \A d \in Slot : /\ Busy(d)' <=> d # c /\ Busy(d)
                      /\ Ordering(d)' <=> d # c /\ Ordering(d)
                      /\ OwnCheckout(d)' <=> d # c /\ OwnCheckout(d)
                      /\ Writing(d)' <=> d # c /\ Writing(d)
                      /\ Granted(d)' <=> d # c /\ Granted(d)
                      /\ d # c => call'[d] = call[d]
  BY FreedFacts DEF Ending
<1>3. newest' = newest => Stamps'
  BY <1>2 DEF Ending, CheckoutInv, Stamps
<1>4. OneCheckout'
  <2>1. CASE OwnCheckout(c)
    <3>1. \A d \in Slot : ~OwnCheckout(d)'
      BY <2>1, <1>2 DEF CheckoutInv, OneCheckout
    <3> QED BY <3>1, <2>1 DEF Ending, OneCheckout
  <2>2. CASE ~OwnCheckout(c)
    BY <2>2, <1>2 DEF Ending, CheckoutInv, OneCheckout
  <2> QED BY <2>1, <2>2
<1>5. NotPlacedYet' /\ AgentTold' /\ NoDoubleOrder'
  BY <1>2 DEF Ending, CheckoutInv, NotPlacedYet, AgentTold, NoDoubleOrder
<1>11. \A k \in 1 .. clock : k # 0
  BY <1>1 DEF CheckoutTypeOK
<1>6. ErrorOver' /\ ErrorMeansNoOrder'
  <2> SUFFICES ASSUME error', past' \intersect {"order lost", "clear lost"} = {}
               PROVE  /\ attempt # 0
                      /\ \A d \in Slot : d # c /\ Ordering(d) => call[d].n # attempt
                      /\ ~\E o \in placed : o.n = attempt
    BY <1>2 DEF Ending, ErrorOver, ErrorMeansNoOrder
  <2>1. CASE OwnCheckout(c)
    <3>1. Ordering(c) /\ ~Granted(c)
      BY <2>1 DEF Ending
    <3>2. call[c].n = attempt /\ call[c].n \in 1 .. clock
      BY <2>1, <3>1 DEF CheckoutInv, OneCheckout, Ordering, Stamps
    <3>3. \A d \in Slot : d # c /\ Ordering(d) => call[d].n # call[c].n
      BY <3>1 DEF CheckoutInv, Stamps, Ordering
    <3>4. \A o \in placed : o.n # call[c].n
      BY <3>1 DEF CheckoutInv, NotPlacedYet
    <3>5. attempt # 0
      BY <3>2, <1>11
    <3> QED BY <3>2, <3>3, <3>4, <3>5
  <2>2. CASE ~OwnCheckout(c)
    BY <2>2 DEF Ending, CheckoutInv, ErrorOver, ErrorMeansNoOrder
  <2> QED BY <2>1, <2>2
<1>7. RoundsOver'
  <2> SUFFICES ASSUME past' \intersect Doubtful = {} PROVE RoundsOver'
    BY DEF RoundsOver
  <2>1. past \intersect Doubtful = {} /\ (~Ordering(c) \/ ~Granted(c))
    BY DEF Ending, Doubtful
  <2>4. /\ round \in Nat /\ round' \in Nat /\ round <= round'
        /\ round' = round => cart' # Empty \/ cart = Empty
    BY <1>1 DEF Ending, CheckoutTypeOK
  <2>5. \A k \in Nat : k <= round => k <= round' /\ (k = round' => k = round /\ round' = round)
    BY <2>4
  <2>6. \A k \in Nat : k < round => k < round'
    BY <2>4
  <2>2. ASSUME NEW d \in Slot, Ordering(d)'
        PROVE  /\ call'[d].own
               /\ call'[d].round <= round' /\ (call'[d].round = round' => cart' # Empty)
               /\ ~Granted(d)' => \A o \in placed' : o.round # call'[d].round
    <3>1. /\ Ordering(d) /\ call'[d] = call[d] /\ (Granted(d)' <=> Granted(d))
          /\ call[d].round \in Nat /\ round \in Nat
      BY <2>2, <1>1, <1>2, CallShape DEF Ordering, CheckoutTypeOK
    <3>2. /\ call[d].own
          /\ call[d].round <= round /\ (call[d].round = round => cart # Empty)
          /\ ~Granted(d) => \A o \in placed : o.round # call[d].round
      BY <3>1, <2>1 DEF CheckoutInv, RoundsOver
    <3>4. UNCHANGED placed
      BY DEF Ending
    <3>3. /\ call[d].round <= round' /\ (call[d].round = round' => cart' # Empty)
      BY <3>1, <3>2, <2>4, <2>5
    <3> QED BY <3>1, <3>2, <3>3, <3>4
  <2>3. ASSUME NEW o \in placed'
        PROVE  \/ o.round < round'
               \/ \E d \in Slot : Ordering(d)' /\ Granted(d)' /\ o.round = call'[d].round
    <3>1. o.round \in Nat /\ round \in Nat
      BY <1>1 DEF Ending, CheckoutTypeOK
    <3>2. \/ o.round < round
          \/ \E d \in Slot : Ordering(d) /\ Granted(d) /\ o.round = call[d].round
      BY <2>1 DEF Ending, CheckoutInv, RoundsOver
    <3>3. CASE o.round < round
      BY <3>1, <3>3, <2>6
    <3>4. ASSUME NEW d \in Slot, Ordering(d), Granted(d), o.round = call[d].round
          PROVE  Ordering(d)' /\ Granted(d)' /\ o.round = call'[d].round
      BY <3>4, <2>1, <1>2
    <3> QED BY <3>2, <3>3, <3>4
  <2> QED BY <2>2, <2>3 DEF RoundsOver
<1>8. ASSUME "switched" \notin past' => FromOne(Local')
      PROVE  OneKitchen'
  BY <1>2, <1>8 DEF Ending, CheckoutInv, OneKitchen
<1>9. NoDeafWrites'
  BY <1>2 DEF Ending, CheckoutInv, NoDeafWrites
<1>10. OrderedCart'
  <2> SUFFICES ASSUME "edited" \notin past', NEW d \in Slot, Ordering(d)', ~call'[d].deaf
               PROVE  cart' = call'[d].body.items
    BY DEF OrderedCart
  <2>1. Ordering(d) /\ call'[d] = call[d]
    BY <1>2
  <2>2. cart' = cart
    BY <2>1 DEF Ending, Edited
  <2> QED BY <2>1, <2>2 DEF Ending, CheckoutInv, OrderedCart
<1> QED BY <1>3, <1>4, <1>5, <1>6, <1>7, <1>8, <1>9, <1>10

(* The end of a request that was no fetch and no unanswered write settles      *)
(* nothing. *)
LEMMA FreedSettles ==
  ASSUME CheckoutInv, NEW c \in Slot, call' = [call EXCEPT ![c] = Idle], Busy(c),
         UNCHANGED <<saved, agent, newest, Local>>, past \subseteq past',
         call[c].kind \notin {"get", "repeat"}, ~(Writing(c) /\ Sent(c))
  PROVE  Settles' /\ FetchedWell'
<1>1. \A d \in Slot : /\ Busy(d)' <=> d # c /\ Busy(d)
                      /\ Writing(d)' <=> d # c /\ Writing(d)
                      /\ Sent(d)' <=> d # c /\ Sent(d)
                      /\ d # c => call'[d] = call[d]
  BY FreedFacts
<1>2. ~Settling(c) /\ ~LastWrite(c)
  BY DEF Settling, LastWrite
<1>3. \A d \in Slot : /\ Settling(d)' <=> Settling(d)
                      /\ Settling(d) => call'[d] = call[d]
  BY <1>1, <1>2 DEF Settling
<1>4. \A d \in Slot : LastWrite(d) => LastWrite(d)'
  BY <1>1, <1>2 DEF LastWrite
<1>5. \A d \in Slot : (Writing(d)' /\ Sent(d)') <=> (Writing(d) /\ Sent(d))
  BY <1>1
<1>6. Settles'
  BY <1>3, <1>4, <1>5 DEF CheckoutInv, Settles
<1>7. FetchedWell'
  BY <1>3, <1>5 DEF CheckoutInv, FetchedWell
<1> QED BY <1>6, <1>7

LEMMA FreedTyped ==
  ASSUME CheckoutInv, NEW c \in Slot, call' = [call EXCEPT ![c] = Idle],
         UNCHANGED <<app, saved, agent, placed, clock, attempt, asking, sends>>,
         cart' \in Bag, rest' \in Restaurant \union {None}, rest' = None <=> cart' = Empty,
         newest' \in 0 .. clock, round' \in Nat, past' \subseteq Event,
         drawer' \in BOOLEAN, placing' \in BOOLEAN, error' \in BOOLEAN,
         sheet' \in Item \union {None}, promo' \in Restaurant \union {None}
  PROVE  TypedInv'
<1>1. TypedInv /\ CheckoutTypeOK
  BY DEF CheckoutInv, TypedInv
<1>2. /\ call' \in [Slot -> Call \union {Idle}]
      /\ \A d \in Slot : Busy(d)' => Fits(call'[d])
  BY FreedFacts
<1>3. CheckoutTypeOK'
  BY <1>1, <1>2 DEF CheckoutTypeOK
<1> QED BY <1>1, <1>2, <1>3 DEF TypedInv, Whole

LEMMA ReceiveCartInv ==
  ASSUME CheckoutInv, NEW c \in Slot, Receive(c), ReceiveCart(c)
  PROVE  CheckoutInv'
<1> USE CheckoutAssumption
<1>1. TypedInv /\ CheckoutTypeOK
  BY DEF CheckoutInv, TypedInv
<1> DEFINE n == call[c].n
           b == call[c].body
<1>2. /\ Busy(c) /\ call[c].kind = "get" /\ call[c].phase = "answered"
      /\ call' = [call EXCEPT ![c] = Idle]
      /\ newest' = IF newest > n THEN newest ELSE n
      /\ Holds(b.items, b.rest)
      /\ past' = past \union Edited \union (IF newest > n THEN {"overtaken"} ELSE {})
      /\ UNCHANGED <<app, saved, agent, placed, clock, attempt, asking, sends, drawer, sheet,
                     placing, error>>
  BY DEF Receive, ReceiveCart, Busy, page
<1>3. /\ b \in Stored /\ Whole(b) /\ ~call[c].deaf /\ b.items \in Bag
      /\ b.rest \in Restaurant \union {None}
  BY <1>1, <1>2, CallShape DEF TypedInv, Fits
<1>4. ~Writing(c) /\ ~OwnCheckout(c) /\ ~Ordering(c)
  BY <1>2 DEF Writing, Writes, OwnCheckout, Ordering
<1>5. n \in 1 .. clock /\ n # newest /\ clock \in Nat /\ newest \in 0 .. clock /\ round \in Nat
  BY <1>1, <1>2, <1>4 DEF CheckoutInv, Stamps, CheckoutTypeOK
<1>6. /\ newest' \in 0 .. clock /\ newest <= newest' /\ n <= newest'
      /\ newest' = newest \/ newest' = n
  BY <1>2, <1>5
<1>7. cart' = b.items /\ rest' = b.rest /\ Local' = b
  BY <1>2, <1>3, NothingFacts DEF Holds, Local
<1>8. /\ round' \in Nat /\ round <= round' /\ (round' = round => cart' # Empty \/ cart = Empty)
  BY <1>2, <1>5 DEF Holds
<1>9. promo' = IF rest' = rest THEN promo ELSE None
  BY <1>2 DEF Holds
<1>10. Edited \subseteq {"edited"} /\ past \subseteq past' /\ past' \subseteq Event
       /\ Edited \subseteq past'
  <2>1. Edited \subseteq {"edited"} /\ past \subseteq Event
    BY <1>1 DEF Edited, CheckoutTypeOK
  <2> QED BY <2>1, <1>2 DEF Event
<1> HIDE DEF b
<1>11. TypedInv'
  <2>1. promo' \in Restaurant \union {None}
    BY <1>1, <1>9 DEF CheckoutTypeOK
  <2>2. drawer' \in BOOLEAN /\ placing' \in BOOLEAN /\ error' \in BOOLEAN
        /\ sheet' \in Item \union {None}
    BY <1>1, <1>2 DEF CheckoutTypeOK
  <2>3. rest' = None <=> cart' = Empty
    BY <1>3, <1>7 DEF Whole
  <2> QED BY <2>1, <2>2, <2>3, <1>2, <1>3, <1>6, <1>7, <1>8, <1>10, FreedTyped
<1>12. Ending(c)
  BY <1>2, <1>4, <1>8, <1>10 DEF Ending
<1>13. /\ OneCheckout' /\ NotPlacedYet' /\ ErrorOver' /\ ErrorMeansNoOrder'
       /\ RoundsOver' /\ AgentTold' /\ NoDoubleOrder'
       /\ ("switched" \notin past' => FromOne(Local')) => OneKitchen'
       /\ NoDeafWrites' /\ OrderedCart'
  BY <1>12, FreedKeeps
<1>14. OneKitchen'
  <2>1. "switched" \notin past' => FromOne(b)
    BY <1>2, <1>10 DEF CheckoutInv, OneKitchen, b
  <2> QED BY <2>1, <1>7, <1>13
<1>15. PromoOfThisCart'
  BY <1>9, <1>10 DEF CheckoutInv, PromoOfThisCart
<1>16. \A d \in Slot : /\ Busy(d)' <=> d # c /\ Busy(d)
                       /\ Writing(d)' <=> d # c /\ Writing(d)
                       /\ Sent(d)' <=> d # c /\ Sent(d)
                       /\ d # c => call'[d] = call[d]
  BY <1>2, FreedFacts
<1>17. \A d \in Slot : Busy(d) => call[d].n \in 1 .. clock
  BY DEF CheckoutInv, Stamps
<1>18. Stamps'
  <2>1. ASSUME NEW d \in Slot, Busy(d)'
        PROVE  IF Writing(d)' THEN call'[d].n <= newest' ELSE call'[d].n # newest'
    <3>1. /\ d # c /\ Busy(d) /\ call'[d] = call[d] /\ (Writing(d)' <=> Writing(d))
          /\ call[d].n \in 1 .. clock /\ call[d].n # n
          /\ IF Writing(d) THEN call[d].n <= newest ELSE call[d].n # newest
      BY <2>1, <1>2, <1>16 DEF CheckoutInv, Stamps
    <3> QED BY <3>1, <1>5, <1>6
  <2> QED BY <2>1, <1>2, <1>16 DEF CheckoutInv, Stamps
<1>19. ASSUME past' \intersect {"lost", "overtaken"} = {}
       PROVE  /\ past \intersect {"lost", "overtaken"} = {} /\ newest < n /\ newest' = n
              /\ Settling(c)
  <2>1. past \intersect {"lost", "overtaken"} = {} /\ ~(newest > n)
    BY <1>2, <1>10, <1>19
  <2>2. newest < n /\ newest' = n
    BY <2>1, <1>2, <1>5
  <2> QED BY <2>1, <2>2, <1>2, <1>3 DEF Settling
<1>20. \A d \in Slot : (Writing(d)' /\ Sent(d)') => Writing(d) /\ Sent(d)
  BY <1>16
<1>21. Settles'
  <2> SUFFICES ASSUME past' \intersect {"lost", "overtaken"} = {} PROVE Settles'
    BY DEF Settles
  <2>1. \/ agent # Idle
        \/ \E d \in Slot : Settling(d) /\ (call[d].kind = "repeat" \/ call[d].n > n)
        \/ b = saved /\ ~\E d \in Slot : Writing(d) /\ Sent(d)
    BY <1>2, <1>19 DEF CheckoutInv, FetchedWell, b
  <2>2. ASSUME NEW d \in Slot, Settling(d), call[d].kind = "repeat" \/ call[d].n > n
        PROVE  Settling(d)'
    <3>1. d # c
      BY <2>2, <1>2, <1>5
    <3> QED BY <3>1, <2>2, <1>16, <1>19 DEF Settling
  <2> QED BY <2>1, <2>2, <1>2, <1>7, <1>20 DEF Settles
<1>22. FetchedWell'
  <2> SUFFICES ASSUME past' \intersect {"lost", "overtaken"} = {},
                      NEW e \in Slot, Settling(e)', call'[e].kind = "get",
                      call'[e].phase = "answered"
               PROVE  \/ agent' # Idle
                      \/ \E d \in Slot : Settling(d)' /\
                            (call'[d].kind = "repeat" \/ call'[d].n > call'[e].n)
                      \/ /\ call'[e].body = saved'
                         /\ ~\E d \in Slot : Writing(d)' /\ Sent(d)'
    BY DEF FetchedWell
  <2>1. /\ e # c /\ Busy(e) /\ call'[e] = call[e] /\ call[e].n > n /\ ~call[e].deaf
        /\ call[e].n \in 1 .. clock
    BY <1>16, <1>17, <1>19 DEF Settling
  <2>2. Settling(e)
    BY <2>1, <1>5, <1>19 DEF Settling
  <2>3. \/ agent # Idle
        \/ \E d \in Slot : Settling(d) /\ (call[d].kind = "repeat" \/ call[d].n > call[e].n)
        \/ call[e].body = saved /\ ~\E d \in Slot : Writing(d) /\ Sent(d)
    BY <2>1, <2>2, <1>19 DEF CheckoutInv, FetchedWell
  <2>4. ASSUME NEW d \in Slot, Settling(d), call[d].kind = "repeat" \/ call[d].n > call[e].n
        PROVE  Settling(d)' /\ (call'[d].kind = "repeat" \/ call'[d].n > call'[e].n)
    <3>1. call[d].n \in 1 .. clock
      BY <2>4, <1>17 DEF Settling
    <3>2. d # c
      BY <3>1, <2>1, <2>4, <1>2, <1>5
    <3>3. call[d].kind = "repeat" \/ call[d].n > n
      BY <3>1, <2>1, <2>4, <1>5
    <3> QED BY <3>2, <3>3, <2>1, <2>4, <1>16, <1>19 DEF Settling
  <2> QED BY <2>1, <2>3, <2>4, <1>2, <1>20
<1> QED BY <1>11, <1>13, <1>14, <1>15, <1>18, <1>21, <1>22 DEF CheckoutInv

(* The ends of a request that change no cart. *)
LEMMA EndInv ==
  ASSUME CheckoutInv, NEW c \in Slot, Ending(c),
         UNCHANGED <<app, cart, rest, round, newest, asking, sends>>,
         past' \subseteq Event, drawer' \in BOOLEAN, placing' \in BOOLEAN, error' \in BOOLEAN,
         sheet' \in Item \union {None}, promo' \in Restaurant \union {None},
         promo' \in {None, promo, rest} \/ "late check" \in past',
         \/ "lost" \in past'
         \/ call[c].kind \notin {"get", "repeat"} /\ ~(Writing(c) /\ Sent(c))
  PROVE  CheckoutInv'
<1>1. TypedInv /\ CheckoutTypeOK
  BY DEF CheckoutInv, TypedInv
<1>2. /\ call' = [call EXCEPT ![c] = Idle] /\ Busy(c) /\ past \subseteq past'
      /\ UNCHANGED <<saved, agent, placed, clock, attempt>>
  BY DEF Ending
<1>3. TypedInv'
  <2>1. /\ cart' \in Bag /\ rest' \in Restaurant \union {None} /\ (rest' = None <=> cart' = Empty)
        /\ newest' \in 0 .. clock /\ round' \in Nat
    BY <1>1 DEF CheckoutTypeOK
  <2> QED BY <2>1, <1>2, FreedTyped
<1>4. Local' = Local
  BY DEF Local
<1>5. /\ Stamps' /\ OneCheckout' /\ NotPlacedYet' /\ ErrorOver' /\ ErrorMeansNoOrder'
      /\ RoundsOver' /\ AgentTold' /\ NoDoubleOrder'
      /\ ("switched" \notin past' => FromOne(Local')) => OneKitchen'
      /\ NoDeafWrites' /\ OrderedCart'
  BY FreedKeeps
<1>6. OneKitchen'
  BY <1>2, <1>4, <1>5 DEF CheckoutInv, OneKitchen
<1>7. PromoOfThisCart'
  BY <1>2 DEF CheckoutInv, PromoOfThisCart
<1>8. Settles' /\ FetchedWell'
  <2>1. CASE "lost" \in past'
    BY <2>1 DEF Settles, FetchedWell
  <2>2. CASE call[c].kind \notin {"get", "repeat"} /\ ~(Writing(c) /\ Sent(c))
    BY <2>2, <1>2, <1>4, FreedSettles
  <2> QED BY <2>1, <2>2
<1> QED BY <1>3, <1>5, <1>6, <1>7, <1>8 DEF CheckoutInv

LEMMA EndSteps ==
  ASSUME CheckoutInv, NEW c \in Slot,
         \/ Receive(c) /\ (ReceiveRefusal(c) \/ ReceiveFinish(c) \/ ReceiveCheck(c))
         \/ Lose(c)
  PROVE  CheckoutInv'
<1>1. TypedInv /\ CheckoutTypeOK
  BY DEF CheckoutInv, TypedInv
<1>2. /\ round \in Nat /\ promo \in Restaurant \union {None} /\ rest \in Restaurant \union {None}
      /\ drawer \in BOOLEAN /\ sheet \in Item \union {None}
      /\ placing \in BOOLEAN /\ error \in BOOLEAN /\ past \subseteq Event
      /\ round <= round
  BY <1>1 DEF CheckoutTypeOK
<1>3. Busy(c) /\ call[c].own \in BOOLEAN
  <2>1. Busy(c)
    BY DEF Receive, Lose, Busy
  <2> QED BY <2>1, <1>1, CallShape
<1>4. OwnCheckout(c) <=> call[c].own /\ call[c].kind \in {"order", "finish"}
  BY <1>3 DEF OwnCheckout
<1>5. CASE Receive(c) /\ ReceiveRefusal(c)
  <2>1. /\ call[c].kind = "order" /\ ~call[c].ok /\ call' = [call EXCEPT ![c] = Idle]
        /\ Ended(c, TRUE)
        /\ UNCHANGED <<app, saved, agent, placed, sends, store, drawer, sheet, asking, attempt,
                       past, clock, newest>>
    BY <1>5 DEF Receive, ReceiveRefusal, Done
  <2>2. Ordering(c) /\ ~Granted(c) /\ ~Writing(c)
    BY <2>1, <1>3 DEF Ordering, Granted, Writing, Writes
  <2>3. IF OwnCheckout(c) THEN placing' = FALSE /\ error' = TRUE
                          ELSE placing' = placing /\ error' = error
    BY <2>1, <1>4 DEF Ended
  <2>4. Ending(c)
    BY <2>1, <2>2, <2>3, <1>2, <1>3 DEF Ending, store
  <2>5. /\ UNCHANGED <<app, cart, rest, round, newest, asking, sends, promo, drawer, sheet, past>>
        /\ placing' \in BOOLEAN /\ error' \in BOOLEAN
        /\ call[c].kind \notin {"get", "repeat"}
    BY <2>1, <2>3, <1>2 DEF store
  <2> QED BY <2>2, <2>4, <2>5, <1>2, EndInv
<1>6. CASE Receive(c) /\ ReceiveFinish(c)
  <2>1. /\ call[c].kind = "finish" /\ call[c].phase = "answered"
        /\ call' = [call EXCEPT ![c] = Idle]
        /\ Ended(c, FALSE) /\ drawer' = FALSE /\ sheet' = None /\ promo' = None
        /\ UNCHANGED <<app, saved, agent, placed, sends, cart, rest, round, asking, attempt,
                       past, clock, newest>>
    BY <1>6 DEF Receive, ReceiveFinish, Done
  <2>2. ~Ordering(c) /\ ~Sent(c)
    BY <2>1 DEF Ordering, Sent
  <2>3. IF OwnCheckout(c) THEN placing' = FALSE /\ error' = FALSE
                          ELSE placing' = placing /\ error' = error
    BY <2>1, <1>4 DEF Ended
  <2>4. Ending(c)
    BY <2>1, <2>2, <2>3, <1>2, <1>3 DEF Ending
  <2>5. /\ placing' \in BOOLEAN /\ error' \in BOOLEAN
        /\ call[c].kind \notin {"get", "repeat"}
    BY <2>1, <2>3, <1>2
  <2> QED BY <2>1, <2>2, <2>4, <2>5, <1>2, EndInv
<1>7. CASE Receive(c) /\ ReceiveCheck(c)
  <2>1. /\ call[c].kind = "check" /\ call[c].phase = "answered"
        /\ call' = [call EXCEPT ![c] = Idle]
        /\ promo' = IF ~call[c].own THEN promo
                    ELSE IF call[c].ok THEN call[c].body.rest ELSE None
        /\ past' = past \union IF call[c].body.rest # rest THEN {"late check"} ELSE {}
        /\ UNCHANGED <<app, saved, agent, placed, sends, cart, rest, round, drawer, sheet, asking,
                       placing, error, attempt, clock, newest>>
    BY <1>7 DEF Receive, ReceiveCheck, Done, page
  <2>2. ~Ordering(c) /\ ~Sent(c) /\ ~OwnCheckout(c)
    BY <2>1 DEF Ordering, Sent, OwnCheckout
  <2>3. past' \subseteq Event /\ past \subseteq past'
    BY <2>1, <1>2 DEF Event
  <2>4. Ending(c)
    BY <2>1, <2>2, <2>3, <1>2, <1>3 DEF Ending
  <2>5. promo' \in Restaurant \union {None}
    <3>1. call[c].body.rest \in Restaurant \union {None}
      BY <1>1, <1>3, CallShape
    <3> QED BY <3>1, <2>1, <1>2
  <2>6. promo' \in {None, promo, rest} \/ "late check" \in past'
    BY <2>1
  <2>7. call[c].kind \notin {"get", "repeat"}
    BY <2>1
  <2> QED BY <2>1, <2>2, <2>3, <2>4, <2>5, <2>6, <2>7, <1>2, EndInv
<1>8. CASE Lose(c)
  <2>1. /\ call' = [call EXCEPT ![c] = Idle]
        /\ IF call[c].kind \in {"order", "finish"} THEN Ended(c, TRUE)
           ELSE UNCHANGED <<placing, error>>
        /\ past' = past \union
                     (CASE call[c].kind = "order" -> {"order lost"}
                        [] call[c].kind = "finish" -> {"lost", "clear lost"}
                        [] call[c].kind = "check" -> {}
                        [] OTHER -> {"lost"})
        /\ UNCHANGED <<app, saved, agent, placed, sends, store, drawer, sheet, asking, attempt,
                       clock, newest>>
    BY <1>8 DEF Lose, Rejected, Done
  <2>2. IF OwnCheckout(c) THEN placing' = FALSE /\ error' = TRUE
                          ELSE placing' = placing /\ error' = error
    BY <2>1, <1>4 DEF Ended
  <2>3. /\ past \subseteq past' /\ past' \subseteq Event
        /\ call[c].kind = "order" => "order lost" \in past'
        /\ call[c].kind = "finish" => "clear lost" \in past'
        /\ call[c].kind \notin {"order", "check"} => "lost" \in past'
    <3>1. CASE call[c].kind = "order"
      BY <3>1, <2>1, <1>2 DEF Event
    <3>2. CASE call[c].kind = "finish"
      BY <3>2, <2>1, <1>2 DEF Event
    <3>3. CASE call[c].kind = "check"
      BY <3>3, <2>1, <1>2 DEF Event
    <3>4. CASE call[c].kind \notin {"order", "finish", "check"}
      BY <3>4, <2>1, <1>2 DEF Event
    <3> QED BY <3>1, <3>2, <3>3, <3>4
  <2>4. Ordering(c) => "order lost" \in past'
    BY <2>3 DEF Ordering
  <2>5. OwnCheckout(c) => past' \intersect {"order lost", "clear lost"} # {}
    BY <2>3, <1>4
  <2>6. Ending(c)
    BY <2>1, <2>2, <2>3, <2>4, <2>5, <1>2, <1>3 DEF Ending, store
  <2>7. /\ UNCHANGED <<app, cart, rest, round, newest, asking, sends, promo, drawer, sheet>>
        /\ placing' \in BOOLEAN /\ error' \in BOOLEAN
    BY <2>1, <2>2, <1>2 DEF store
  <2>8. \/ "lost" \in past'
        \/ call[c].kind \notin {"get", "repeat"} /\ ~(Writing(c) /\ Sent(c))
    BY <2>3 DEF Writing, Writes
  <2> QED BY <2>3, <2>6, <2>7, <2>8, <1>2, EndInv
<1> QED BY <1>5, <1>6, <1>7, <1>8

(* The order was taken: the page's cart is gone, the server's is cleared. *)
LEMMA ReceiveOrderInv ==
  ASSUME CheckoutInv, NEW c \in Slot, Receive(c), ReceiveOrder(c)
  PROVE  CheckoutInv'
<1> USE CheckoutAssumption
<1>1. TypedInv /\ CheckoutTypeOK
  BY DEF CheckoutInv, TypedInv
<1> DEFINE p == Request("finish", Nothing, clock + 1)
           q == [p EXCEPT !.own = call[c].own]
<1>2. /\ Ordering(c) /\ Granted(c) /\ Busy(c)
      /\ Holds(Empty, None)
      /\ call' = [call EXCEPT ![c] = q]
      /\ clock' = clock + 1 /\ newest' = clock + 1
      /\ past' = past \union IF \E d \in Slot \ {c} : Ordering(d) THEN {"edited"} ELSE {}
      /\ UNCHANGED <<app, saved, agent, placed, sends, drawer, sheet, asking, placing, error,
                     attempt>>
  BY DEF Receive, ReceiveOrder, Ordering, Granted, Busy, page
<1>3. /\ clock \in Nat /\ newest \in 0 .. clock /\ attempt \in 0 .. clock /\ round \in Nat
      /\ call[c].own \in BOOLEAN /\ past \subseteq Event
  BY <1>1, <1>2, CallShape DEF CheckoutTypeOK
<1>4. /\ cart' = Empty /\ rest' = None /\ Local' = Nothing
      /\ promo' = (IF None = rest THEN promo ELSE None)
      /\ round' = (IF cart # Empty THEN round + 1 ELSE round)
  BY <1>2 DEF Holds, Local, Nothing
<1>5. past \subseteq past' /\ past' \subseteq Event
  BY <1>2, <1>3 DEF Event
<1>6. /\ q \in Call /\ Fits(q)
      /\ q.phase = "sent" /\ q.kind = "finish" /\ q.body = Nothing /\ q.n = clock + 1
      /\ ~q.deaf /\ (q.own <=> call[c].own)
  <2>1. p \in Call
    <3>1. "finish" \in Kind /\ clock + 1 \in Nat
      BY <1>3 DEF Kind
    <3> QED BY <3>1, NothingFacts, RequestFacts
  <2>2. /\ p.phase = "sent" /\ p.kind = "finish" /\ p.body = Nothing /\ p.n = clock + 1
        /\ ~p.deaf /\ ~p.ok
    BY DEF Request
  <2> HIDE DEF p
  <2>3. /\ q \in Call /\ q.own = call[c].own
        /\ q.phase = p.phase /\ q.kind = p.kind /\ q.body = p.body /\ q.n = p.n
        /\ q.deaf = p.deaf /\ q.ok = p.ok
    BY <2>1, <1>3 DEF Call, p
  <2> HIDE DEF q
  <2> QED BY <2>2, <2>3, NothingFacts DEF Fits
<1> HIDE DEF p, q
<1>7. /\ call' \in [Slot -> Call \union {Idle}]
      /\ call'[c] = q /\ \A d \in Slot \ {c} : call'[d] = call[d]
      /\ \A d \in Slot : Busy(d)' => Fits(call'[d])
  BY <1>1, <1>2, <1>6, SlotFacts, SlotTyped
<1>8. TypedInv'
  <2>1. /\ clock' \in Nat /\ newest' \in 0 .. clock' /\ attempt' \in 0 .. clock' /\ round' \in Nat
        /\ promo' \in Restaurant \union {None} /\ cart' \in Bag
        /\ rest' \in Restaurant \union {None} /\ (rest' = None <=> cart' = Empty)
    BY <1>1, <1>2, <1>3, <1>4, BagFacts DEF CheckoutTypeOK
  <2>2. CheckoutTypeOK'
    BY <2>1, <1>1, <1>2, <1>5, <1>7 DEF CheckoutTypeOK
  <2> QED BY <2>2, <1>1, <1>2, <1>7 DEF TypedInv, Whole
<1>9. /\ ~Ordering(c)' /\ Writing(c)' /\ Sent(c)' /\ Busy(c)'
      /\ OwnCheckout(c)' <=> OwnCheckout(c)
  BY <1>2, <1>6, <1>7 DEF Ordering, OwnCheckout, Writing, Sent, Busy, Writes
<1>10. \A d \in Slot : d # c => /\ Busy(d)' <=> Busy(d)
                                /\ Ordering(d)' <=> Ordering(d)
                                /\ OwnCheckout(d)' <=> OwnCheckout(d)
                                /\ Writing(d)' <=> Writing(d)
                                /\ Granted(d)' <=> Granted(d)
                                /\ call'[d] = call[d]
  BY <1>7 DEF Ordering, OwnCheckout, Writing, Granted, Busy
<1>11. \A d \in Slot : Busy(d) => call[d].n \in 1 .. clock
  BY DEF CheckoutInv, Stamps
<1>12. Stamps'
  <2>1. \A d \in Slot : Busy(d)' => call'[d].n \in 1 .. clock'
    BY <1>2, <1>3, <1>6, <1>7, <1>10, <1>11
  <2>2. \A d, e \in Slot : Busy(d)' /\ Busy(e)' /\ call'[d].n = call'[e].n => d = e
    BY <1>3, <1>6, <1>7, <1>10, <1>11 DEF CheckoutInv, Stamps
  <2>3. ASSUME NEW d \in Slot, Busy(d)'
        PROVE  IF Writing(d)' THEN call'[d].n <= newest' ELSE call'[d].n # newest'
    <3>1. CASE d = c
      BY <3>1, <1>2, <1>3, <1>6, <1>7, <1>9
    <3>2. CASE d # c
      <4>1. call'[d].n \in 1 .. clock
        BY <3>2, <2>3, <1>10, <1>11
      <4> QED BY <4>1, <1>2, <1>3
    <3> QED BY <3>1, <3>2
  <2>4. \A o \in placed' : o.n <= clock'
    BY <1>1, <1>2, <1>3 DEF CheckoutInv, Stamps, CheckoutTypeOK
  <2> QED BY <2>1, <2>2, <2>3, <2>4 DEF Stamps
<1>13. OneCheckout'
  <2>1. \A d \in Slot : OwnCheckout(d)' <=> OwnCheckout(d)
    BY <1>9, <1>10
  <2>2. ASSUME NEW d \in Slot, OwnCheckout(d)'
        PROVE  call'[d].kind = "order" => call'[d].n = attempt
    BY <2>1, <2>2, <1>6, <1>7, <1>10 DEF CheckoutInv, OneCheckout
  <2> QED BY <2>1, <2>2, <1>2 DEF CheckoutInv, OneCheckout
<1>14. NotPlacedYet' /\ ErrorOver' /\ ErrorMeansNoOrder'
  BY <1>2, <1>5, <1>9, <1>10
     DEF CheckoutInv, NotPlacedYet, ErrorOver, ErrorMeansNoOrder
<1>15. AgentTold' /\ NoDoubleOrder'
  BY <1>2, <1>5 DEF CheckoutInv, AgentTold, NoDoubleOrder
<1>16. RoundsOver'
  <2> SUFFICES ASSUME past \intersect Doubtful = {} PROVE RoundsOver'
    BY <1>5 DEF RoundsOver
  <2>1. \A d \in Slot : Ordering(d) => OwnCheckout(d)
    BY DEF CheckoutInv, RoundsOver, OwnCheckout, Ordering
  <2>2. \A d \in Slot : Ordering(d) => d = c
    BY <2>1, <1>2 DEF CheckoutInv, OneCheckout
  <2>3. \A d \in Slot : ~Ordering(d)'
    BY <2>2, <1>9, <1>10
  <2>4. call[c].round <= round /\ (call[c].round = round => cart # Empty)
        /\ call[c].round \in Nat
    BY <1>1, <1>2, CallShape DEF CheckoutInv, RoundsOver
  <2>5. ASSUME NEW o \in placed'
        PROVE  o.round < round'
    <3>1. o.round < round \/ o.round = call[c].round
      BY <2>2, <1>2 DEF CheckoutInv, RoundsOver
    <3>2. o.round \in Nat
      BY <1>1, <1>2 DEF CheckoutTypeOK
    <3> QED BY <3>1, <3>2, <2>4, <1>3, <1>4
  <2> QED BY <2>3, <2>5 DEF RoundsOver
<1>17. OneKitchen'
  <2>1. FromOne(Nothing)
    BY DEF FromOne, Nothing, Empty
  <2> QED BY <2>1, <1>2, <1>4, <1>5, <1>6, <1>7, <1>10 DEF CheckoutInv, OneKitchen
<1>18. PromoOfThisCart'
  BY <1>4, <1>5 DEF CheckoutInv, PromoOfThisCart
<1>19. Settles' /\ FetchedWell'
  <2>1. LastWrite(c)'
    BY <1>2, <1>4, <1>6, <1>7, <1>9 DEF LastWrite
  <2>2. \A d \in Slot : Busy(d)' => call'[d].n \in 1 .. newest'
    BY <1>2, <1>12 DEF Stamps
  <2>3. newest' \in Nat
    BY <1>2, <1>3
  <2>4. \A d \in Slot : ~(Settling(d)' /\ call'[d].kind = "get")
    BY <2>2, <2>3 DEF Settling
  <2> QED BY <2>1, <2>4 DEF Settles, FetchedWell
<1>20. NoDeafWrites'
  BY <1>5, <1>6, <1>7, <1>10 DEF CheckoutInv, NoDeafWrites
<1>21. OrderedCart'
  <2>1. ASSUME "edited" \notin past', NEW d \in Slot, Ordering(d)' PROVE FALSE
    BY <2>1, <1>2, <1>9, <1>10
  <2> QED BY <2>1 DEF OrderedCart
<1> QED BY <1>8, <1>12, <1>13, <1>14, <1>15, <1>16, <1>17, <1>18, <1>19, <1>20, <1>21
     DEF CheckoutInv

---------------------------------------------------------------------------
(* The page is loaded again: its requests no longer count. *)
LEMMA ReloadInv ==
  ASSUME CheckoutInv, NEW c \in Slot, Reload(c)
  PROVE  CheckoutInv'
<1> USE CheckoutAssumption
<1>1. TypedInv /\ CheckoutTypeOK
  BY DEF CheckoutInv, TypedInv
<1> DEFINE q == Request("get", Nothing, clock + 1)
           gone(d) == [call[d] EXCEPT !.deaf = TRUE, !.own = FALSE]
<1>2. /\ ~Busy(c) /\ cart' = Empty /\ rest' = None /\ promo' = None /\ round' = round
      /\ call' = [d \in Slot |-> IF d = c THEN q
                                 ELSE IF call[d].phase = "sent" THEN gone(d) ELSE Idle]
      /\ clock' = clock + 1 /\ newest' = newest /\ attempt' = attempt
      /\ drawer' = FALSE /\ sheet' = None /\ asking' = None
      /\ placing' = FALSE /\ error' = FALSE /\ agent' = Idle
      /\ UNCHANGED <<app, saved, placed>>
  BY DEF Reload
<1>3. /\ past \subseteq past' /\ past' \subseteq Event /\ sends' \in 0 .. MaxSends
      /\ (\E d \in Slot : Ordering(d)) => "reloaded" \in past'
      /\ (\E d \in Slot : Writing(d)) => "lost" \in past'
  <2>1. sends < MaxSends /\ sends' = sends + 1
    BY DEF Reload
  <2>2. past' = past \union
                  (IF \E d \in Slot : Ordering(d) THEN {"reloaded"} ELSE {}) \union
                  (IF \E d \in Slot : Writing(d) THEN {"lost"} ELSE {})
    BY DEF Reload, Writing
  <2>3. past \subseteq Event /\ sends \in 0 .. MaxSends
    BY <1>1 DEF CheckoutTypeOK
  <2>4. sends' \in 0 .. MaxSends
    BY <2>1, <2>3
  <2> QED BY <2>2, <2>3, <2>4 DEF Event
<1>4. clock \in Nat /\ newest \in 0 .. clock /\ attempt \in 0 .. clock /\ round \in Nat
  BY <1>1 DEF CheckoutTypeOK
<1>5. /\ q \in Call /\ Fits(q) /\ q.phase = "sent" /\ q.kind = "get" /\ q.body = Nothing
      /\ q.n = clock + 1 /\ ~q.deaf
  <2>1. clock + 1 \in Nat /\ "get" \in Kind
    BY <1>4 DEF Kind
  <2>2. Fits(q)
    BY <2>1, NothingFacts, RequestFits
  <2>3. q \in Call
    BY <2>1, NothingFacts, RequestFacts
  <2> QED BY <2>2, <2>3 DEF Request
<1>6. ASSUME NEW d \in Slot, Sent(d)
      PROVE  /\ gone(d) \in Call /\ Fits(gone(d)) /\ gone(d).phase = "sent"
             /\ gone(d).kind = call[d].kind /\ gone(d).body = call[d].body
             /\ gone(d).n = call[d].n /\ gone(d).deaf /\ ~gone(d).own
  <2>1. call[d] \in Call /\ Fits(call[d])
    BY <1>1, <1>6, CallShape DEF TypedInv, Sent, Busy
  <2>2. /\ gone(d) \in Call /\ gone(d).phase = call[d].phase
        /\ gone(d).kind = call[d].kind /\ gone(d).body = call[d].body
        /\ gone(d).n = call[d].n /\ gone(d).ok = call[d].ok
        /\ gone(d).deaf = TRUE /\ gone(d).own = FALSE
    BY <2>1 DEF Call
  <2> HIDE DEF gone
  <2> QED BY <2>1, <2>2, <1>6 DEF Fits, Sent
<1> HIDE DEF q, gone
<1>7. /\ call'[c] = q
      /\ \A d \in Slot : d # c => call'[d] = IF Sent(d) THEN gone(d) ELSE Idle
  BY <1>2 DEF Sent
<1>8. call' \in [Slot -> Call \union {Idle}]
  <2>1. \A d \in Slot : call'[d] \in Call \union {Idle}
    BY <1>5, <1>6, <1>7
  <2> QED BY <2>1, <1>2
<1>9. /\ Busy(c)' /\ ~Ordering(c)' /\ ~OwnCheckout(c)' /\ ~Writing(c)'
  BY <1>5, <1>7 DEF Busy, Ordering, OwnCheckout, Writing, Writes
<1>10. ASSUME NEW d \in Slot, d # c, Busy(d)'
       PROVE  /\ Busy(d) /\ Sent(d) /\ call'[d] = gone(d)
              /\ ~OwnCheckout(d)' /\ call'[d].deaf /\ ~Granted(d)
              /\ call'[d].n = call[d].n /\ call'[d].body = call[d].body
              /\ Ordering(d)' <=> Ordering(d)
              /\ Writing(d)' <=> Writing(d)
              /\ call'[d].phase = "sent"
  <2>1. Sent(d)
    BY <1>7, <1>10 DEF Busy, Idle
  <2>2. call'[d] = gone(d)
    BY <2>1, <1>7, <1>10
  <2> QED BY <2>1, <2>2, <1>6 DEF Busy, Sent, Granted, OwnCheckout, Ordering, Writing
<1>11. TypedInv'
  <2>1. \A d \in Slot : Busy(d)' => Fits(call'[d])
    BY <1>5, <1>6, <1>7, <1>10
  <2>2. clock' \in Nat /\ newest' \in 0 .. clock' /\ attempt' \in 0 .. clock'
    BY <1>2, <1>4
  <2>3. CheckoutTypeOK'
    BY <2>2, <1>1, <1>2, <1>3, <1>8, BagFacts DEF CheckoutTypeOK
  <2> QED BY <2>1, <2>3, <1>1, <1>2, NothingFacts DEF TypedInv, Whole, Idle
<1>12. Stamps'
  <2>1. \A d \in Slot : Busy(d) => call[d].n \in 1 .. clock
    BY DEF CheckoutInv, Stamps
  <2>2. ASSUME NEW d \in Slot, d # c, Busy(d)'
        PROVE  call'[d].n \in 1 .. clock' /\ call'[d].n # clock + 1
    <3>1. call'[d].n \in 1 .. clock
      BY <2>1, <2>2, <1>10
    <3> QED BY <3>1, <1>2, <1>4
  <2>3. call'[c].n = clock + 1 /\ clock + 1 \in 1 .. clock' /\ clock + 1 # newest
    BY <1>2, <1>4, <1>5, <1>7
  <2>4. \A d, e \in Slot : Busy(d)' /\ Busy(e)' /\ call'[d].n = call'[e].n => d = e
    BY <2>2, <2>3, <1>10 DEF CheckoutInv, Stamps
  <2>5. \A d \in Slot : Busy(d)' => IF Writing(d)' THEN call'[d].n <= newest'
                                                   ELSE call'[d].n # newest'
    BY <2>3, <1>2, <1>9, <1>10 DEF CheckoutInv, Stamps
  <2>6. \A o \in placed' : o.n <= clock'
    BY <1>1, <1>2, <1>4 DEF CheckoutInv, Stamps, CheckoutTypeOK
  <2> QED BY <2>2, <2>3, <2>4, <2>5, <2>6 DEF Stamps
<1>13. OneCheckout'
  <2>1. \A d \in Slot : ~OwnCheckout(d)'
    BY <1>9, <1>10 DEF OwnCheckout
  <2> QED BY <2>1, <1>2 DEF OneCheckout
<1>14. \A d \in Slot : Ordering(d)' => /\ d # c /\ Ordering(d) /\ ~Granted(d)
                                       /\ call'[d].n = call[d].n /\ call'[d].deaf
  BY <1>9, <1>10 DEF Ordering
<1>15. NotPlacedYet' /\ ErrorOver' /\ ErrorMeansNoOrder'
  <2>1. NotPlacedYet'
    BY <1>2, <1>14 DEF CheckoutInv, NotPlacedYet
  <2>2. ErrorOver'
    BY <1>2, <1>14 DEF CheckoutInv, ErrorOver
  <2>3. ErrorMeansNoOrder'
    BY <1>2 DEF CheckoutInv, ErrorMeansNoOrder
  <2> QED BY <2>1, <2>2, <2>3
<1>16. RoundsOver'
  <2> SUFFICES ASSUME past' \intersect Doubtful = {} PROVE RoundsOver'
    BY DEF RoundsOver
  <2>1. past \intersect Doubtful = {} /\ \A d \in Slot : ~Ordering(d)
    BY <1>3 DEF Doubtful
  <2> QED BY <2>1, <1>2, <1>14 DEF CheckoutInv, RoundsOver
<1>17. AgentTold' /\ NoDoubleOrder' /\ PromoOfThisCart'
  BY <1>2, <1>3 DEF CheckoutInv, AgentTold, NoDoubleOrder, PromoOfThisCart
<1>18. OneKitchen'
  <2>1. FromOne(Nothing) /\ Local' = Nothing
    BY <1>2 DEF FromOne, Nothing, Empty, Local
  <2>2. ASSUME "switched" \notin past', NEW d \in Slot, Busy(d)' PROVE FromOne(call'[d].body)
    <3>1. CASE d = c
      BY <3>1, <2>1, <1>5, <1>7
    <3>2. CASE d # c
      BY <3>2, <2>2, <1>3, <1>10 DEF CheckoutInv, OneKitchen
    <3> QED BY <3>1, <3>2
  <2> QED BY <2>1, <2>2, <1>2, <1>3 DEF CheckoutInv, OneKitchen, Idle
<1>19. Settles'
  <2>1. Settling(c)'
    BY <1>2, <1>4, <1>5, <1>7, <1>9 DEF Settling
  <2> QED BY <2>1 DEF Settles
<1>20. FetchedWell'
  <2>1. \A d \in Slot : ~(Settling(d)' /\ call'[d].phase = "answered")
    BY <1>5, <1>7, <1>10 DEF Settling
  <2> QED BY <2>1 DEF FetchedWell
<1>21. NoDeafWrites'
  <2>1. \A d \in Slot : Writing(d)' => Writing(d)
    BY <1>9, <1>10 DEF Writing
  <2> QED BY <2>1, <1>3 DEF NoDeafWrites
<1>22. OrderedCart'
  BY <1>14 DEF OrderedCart
<1> QED BY <1>11, <1>12, <1>13, <1>15, <1>16, <1>17, <1>18, <1>19, <1>20, <1>21, <1>22
     DEF CheckoutInv

(* The drawer closes: a check, and in the Mini App the checkout, is no longer its own. *)
LEMMA CloseInv ==
  ASSUME CheckoutInv, Close
  PROVE  CheckoutInv'
<1>1. TypedInv /\ CheckoutTypeOK
  BY DEF CheckoutInv, TypedInv
<1> DEFINE left(d) == [call[d] EXCEPT !.own = FALSE]
           Left1(d) == Busy(d) /\ (call[d].kind = "check" \/ app = "mini")
<1>2. /\ drawer' = FALSE /\ sheet' = None /\ promo' = None
      /\ call' = [d \in Slot |-> IF Left1(d) THEN left(d) ELSE call[d]]
      /\ UNCHANGED <<app, cart, rest, round, saved, clock, newest, asking, attempt,
                     agent, placed, sends>>
      /\ Local' = Local
  BY DEF Close, Local
<1>3. /\ past \subseteq past' /\ past' \subseteq Event
      /\ app = "mini" => ~placing' /\ ~error' /\ (placing => "reopened" \in past')
      /\ app # "mini" => UNCHANGED <<placing, error>>
      /\ placing' \in BOOLEAN /\ error' \in BOOLEAN
  <2>1. app \in {"web", "mini"} /\ past \subseteq Event /\ placing \in BOOLEAN /\ error \in BOOLEAN
    BY <1>1, CheckoutAssumption DEF CheckoutTypeOK
  <2> QED BY <2>1 DEF Close, Event
<1>4. ASSUME NEW d \in Slot, Busy(d)
      PROVE  /\ left(d) \in Call /\ Fits(left(d))
             /\ left(d).phase = call[d].phase /\ left(d).kind = call[d].kind
             /\ left(d).body = call[d].body /\ left(d).n = call[d].n
             /\ left(d).ok = call[d].ok /\ left(d).deaf = call[d].deaf
             /\ left(d).round = call[d].round /\ ~left(d).own
  <2>1. call[d] \in Call /\ Fits(call[d])
    BY <1>1, <1>4, CallShape DEF TypedInv
  <2>2. /\ left(d) \in Call
        /\ left(d).phase = call[d].phase /\ left(d).kind = call[d].kind
        /\ left(d).body = call[d].body /\ left(d).n = call[d].n
        /\ left(d).ok = call[d].ok /\ left(d).deaf = call[d].deaf
        /\ left(d).round = call[d].round /\ left(d).own = FALSE
    BY <2>1 DEF Call
  <2> HIDE DEF left
  <2> QED BY <2>1, <2>2 DEF Fits
<1>5. \A d \in Slot : call'[d] = IF Left1(d) THEN left(d) ELSE call[d]
  BY <1>2
<1> HIDE DEF left
<1>6. ASSUME NEW d \in Slot
      PROVE  /\ call'[d].phase = call[d].phase
             /\ Busy(d) => /\ call'[d].kind = call[d].kind
                           /\ call'[d].body = call[d].body /\ call'[d].n = call[d].n
                           /\ call'[d].ok = call[d].ok /\ call'[d].deaf = call[d].deaf
                           /\ call'[d].round = call[d].round
                           /\ Fits(call'[d])
             /\ call'[d] \in Call \union {Idle}
  <2>1. CASE Left1(d)
    <3>1. call'[d] = left(d) /\ Busy(d)
      BY <2>1, <1>5
    <3> QED BY <3>1, <1>4
  <2>2. CASE ~Left1(d)
    <3>1. call'[d] = call[d]
      BY <2>2, <1>5
    <3> QED BY <3>1, <1>1 DEF TypedInv, CheckoutTypeOK
  <2> QED BY <2>1, <2>2
<1>7. ASSUME NEW d \in Slot
      PROVE  /\ Busy(d)' <=> Busy(d)
             /\ Ordering(d)' <=> Ordering(d)
             /\ Writing(d)' <=> Writing(d)
             /\ Sent(d)' <=> Sent(d)
             /\ Ordering(d) => (Granted(d)' <=> Granted(d))
             /\ Settling(d)' <=> Settling(d)
             /\ LastWrite(d)' <=> LastWrite(d)
  <2>1. Busy(d)' <=> Busy(d)
    BY <1>6 DEF Busy
  <2>2. /\ Ordering(d)' <=> Ordering(d)
        /\ Writing(d)' <=> Writing(d)
        /\ Sent(d)' <=> Sent(d)
        /\ Ordering(d) => (Granted(d)' <=> Granted(d))
    BY <2>1, <1>6 DEF Ordering, Writing, Sent, Granted
  <2>3. Settling(d)' <=> Settling(d)
    BY <2>1, <1>2, <1>6 DEF Settling
  <2>4. LastWrite(d)' <=> LastWrite(d)
    BY <2>1, <2>2, <1>2, <1>6 DEF LastWrite, Writing
  <2> QED BY <2>1, <2>2, <2>3, <2>4
<1>8. ASSUME app = "mini"
      PROVE  OneCheckout' /\ ErrorOver' /\ ErrorMeansNoOrder' /\ RoundsOver'
  <2>1. \A d \in Slot : ~OwnCheckout(d)'
    <3>1. \A d \in Slot : Busy(d) => call'[d] = left(d)
      BY <1>5, <1>8
    <3> QED BY <3>1, <1>4, <1>7 DEF OwnCheckout
  <2>2. OneCheckout' /\ ErrorOver' /\ ErrorMeansNoOrder'
    BY <2>1, <1>3, <1>8 DEF OneCheckout, ErrorOver, ErrorMeansNoOrder
  <2>3. RoundsOver'
    <3> SUFFICES ASSUME past' \intersect Doubtful = {} PROVE RoundsOver'
      BY DEF RoundsOver
    <3>1. past \intersect Doubtful = {} /\ ~placing
      BY <1>3, <1>8 DEF Doubtful
    <3>2. \A d \in Slot : ~OwnCheckout(d)
      BY <3>1 DEF CheckoutInv, OneCheckout
    <3>3. \A d \in Slot : ~Ordering(d)
      BY <3>1, <3>2 DEF CheckoutInv, RoundsOver, OwnCheckout, Ordering
    <3> QED BY <3>1, <3>3, <1>2, <1>7 DEF CheckoutInv, RoundsOver
  <2> QED BY <2>2, <2>3
<1>9. ASSUME app # "mini"
      PROVE  OneCheckout' /\ ErrorOver' /\ ErrorMeansNoOrder' /\ RoundsOver'
  <2>1. ASSUME NEW d \in Slot, Ordering(d) \/ OwnCheckout(d) PROVE call'[d] = call[d]
    BY <2>1, <1>5, <1>9 DEF Ordering, OwnCheckout
  <2>2. \A d \in Slot : OwnCheckout(d)' <=> OwnCheckout(d)
    <3>1. ASSUME NEW d \in Slot, OwnCheckout(d) PROVE OwnCheckout(d)'
      BY <2>1, <3>1 DEF OwnCheckout, Busy
    <3>2. ASSUME NEW d \in Slot, OwnCheckout(d)' PROVE OwnCheckout(d)
      <4>1. Busy(d) /\ call[d].kind # "check"
        BY <3>2, <1>6, <1>7 DEF OwnCheckout
      <4>2. call'[d] = call[d]
        BY <4>1, <1>5, <1>9
      <4> QED BY <4>2, <3>2 DEF OwnCheckout, Busy
    <3> QED BY <3>1, <3>2
  <2>3. OneCheckout'
    BY <2>1, <2>2, <1>2, <1>3, <1>9 DEF CheckoutInv, OneCheckout
  <2>4. ErrorOver' /\ ErrorMeansNoOrder'
    <3>1. \A d \in Slot : Ordering(d)' => Ordering(d) /\ call'[d].n = call[d].n
      BY <2>1, <1>7
    <3>2. UNCHANGED <<error, attempt, placed>> /\ past \subseteq past'
      BY <1>2, <1>3, <1>9
    <3>3. ErrorOver'
      BY <3>1, <3>2 DEF CheckoutInv, ErrorOver
    <3> QED BY <3>2, <3>3 DEF CheckoutInv, ErrorMeansNoOrder
  <2>5. RoundsOver'
    BY <2>1, <1>2, <1>3, <1>7 DEF CheckoutInv, RoundsOver
  <2> QED BY <2>3, <2>4, <2>5
<1>10. TypedInv'
  <2>1. call' \in [Slot -> Call \union {Idle}]
    BY <1>2, <1>6
  <2>2. CheckoutTypeOK'
    BY <2>1, <1>1, <1>2, <1>3 DEF CheckoutTypeOK
  <2> QED BY <2>2, <1>1, <1>2, <1>6, <1>7 DEF TypedInv, Whole
<1>11. Stamps'
  BY <1>2, <1>6, <1>7 DEF CheckoutInv, Stamps
<1>12. NotPlacedYet'
  <2>1. \A d \in Slot : Ordering(d) => call'[d].n = call[d].n
    BY <1>6 DEF Ordering
  <2> QED BY <2>1, <1>2, <1>7 DEF CheckoutInv, NotPlacedYet
<1>13. AgentTold' /\ NoDoubleOrder' /\ PromoOfThisCart'
  BY <1>2, <1>3 DEF CheckoutInv, AgentTold, NoDoubleOrder, PromoOfThisCart
<1>14. OneKitchen'
  BY <1>2, <1>3, <1>6, <1>7 DEF CheckoutInv, OneKitchen
<1>15. Settles'
  BY <1>2, <1>3, <1>7 DEF CheckoutInv, Settles
<1>16. FetchedWell'
  <2>1. \A d \in Slot : Settling(d) => /\ call'[d].kind = call[d].kind /\ call'[d].n = call[d].n
                                       /\ call'[d].body = call[d].body
                                       /\ call'[d].phase = call[d].phase
    BY <1>6 DEF Settling
  <2> QED BY <2>1, <1>2, <1>3, <1>7 DEF CheckoutInv, FetchedWell
<1>17. NoDeafWrites' /\ OrderedCart'
  <2>1. \A d \in Slot : Ordering(d) \/ Writing(d) =>
          call'[d].deaf = call[d].deaf /\ call'[d].body = call[d].body
    BY <1>6 DEF Ordering, Writing
  <2> QED BY <2>1, <1>2, <1>3, <1>7 DEF CheckoutInv, NoDeafWrites, OrderedCart
<1> QED BY <1>8, <1>9, <1>10, <1>11, <1>12, <1>13, <1>14, <1>15, <1>16, <1>17 DEF CheckoutInv

(* The assistant changes the server's cart, or orders it. *)
LEMMA AgentInv ==
  ASSUME CheckoutInv, AgentWrites \/ AgentPlaces \/ AgentClears
  PROVE  CheckoutInv'
<1> USE CheckoutAssumption
<1>1. TypedInv /\ CheckoutTypeOK
  BY DEF CheckoutInv, TypedInv
<1>2. /\ UNCHANGED <<app, cart, rest, promo, round, call, clock, newest, drawer, sheet, asking,
                     placing, error, attempt, past>>
      /\ Local' = Local
      /\ agent # Idle /\ agent' \in {[phase |-> "working"], [phase |-> "placed"]}
      /\ agent' # Idle /\ agent'.phase # "read"
  BY DEF AgentWrites, AgentPlaces, AgentClears, store, page, Local, Idle
<1>3. sends' \in 0 .. MaxSends /\ (asking = None \/ sends' = sends)
  <2>1. sends \in 0 .. MaxSends
    BY <1>1 DEF CheckoutTypeOK
  <2>2. app = "web"
    BY <1>1, <1>2 DEF TypedInv
  <2>3. asking = None
    BY <1>1, <2>2 DEF TypedInv
  <2>4. sends' = sends \/ (sends < MaxSends /\ sends' = sends + 1)
    BY DEF AgentWrites, AgentPlaces, AgentClears
  <2> QED BY <2>1, <2>3, <2>4
<1>4. "agent" \in past
  BY <1>2 DEF CheckoutInv, AgentTold
<1>5. agent.phase = "read" => agent.seen \in Stored /\ Whole(agent.seen)
  BY <1>1 DEF TypedInv, CheckoutTypeOK, Idle
<1>6. /\ saved' \in Stored /\ Whole(saved')
      /\ "switched" \notin past => FromOne(saved')
  <2>1. CASE saved' = saved
    BY <2>1, <1>1 DEF CheckoutInv, OneKitchen, TypedInv, CheckoutTypeOK, Whole
  <2>2. CASE saved' = Nothing
    BY <2>2, NothingFacts DEF FromOne, Nothing, Empty
  <2>3. CASE AgentWrites /\ saved' # Nothing
    <3> DEFINE s == agent.seen
    <3>1. agent.phase = "read" /\ s \in Stored /\ Whole(s)
      BY <2>3, <1>5 DEF AgentWrites
    <3>2. s.items \in Bag /\ s.rest \in Restaurant \union {None}
          /\ (s.rest = None <=> \A j \in Item : s.items[j] = 0)
      BY <3>1, NothingFacts, BagFacts DEF Whole
    <3>3. "switched" \notin past => \A j \in Item : s.items[j] > 0 => Home[j] = s.rest
      BY <3>1 DEF CheckoutInv, OneKitchen, FromOne
    <3>4. PICK i \in Item :
            \/ /\ AgentMayAdd(i, s) /\ s.items[i] < MaxQty[i]
               /\ saved' = [items |-> [s.items EXCEPT ![i] = @ + 1], rest |-> Home[i]]
            \/ /\ saved' = [items |-> [s.items EXCEPT ![i] = 0], rest |-> s.rest]
               /\ [s.items EXCEPT ![i] = 0] # Empty
      BY <2>3 DEF AgentWrites
    <3> HIDE DEF s
    <3>5. CASE /\ AgentMayAdd(i, s) /\ s.items[i] < MaxQty[i]
               /\ saved' = [items |-> [s.items EXCEPT ![i] = @ + 1], rest |-> Home[i]]
      <4> DEFINE b == [s.items EXCEPT ![i] = @ + 1]
      <4>1. s.items[i] \in Nat /\ MaxQty[i] \in Nat /\ b[i] = s.items[i] + 1
        BY <3>2, BagFacts DEF Bag
      <4>2. b[i] <= MaxQty[i]
        BY <4>1, <3>5
      <4>3. b \in Bag /\ b # Empty
        BY <4>2, <3>2, BagFacts
      <4>4. \A j \in Item : j # i => b[j] = s.items[j]
        BY <3>2 DEF Bag
      <4>5. saved' = [items |-> b, rest |-> Home[i]] /\ Home[i] \in Restaurant /\ Home[i] # None
        BY <3>5
      <4>6. \A j \in Item : s.items[j] \in Nat
        BY <3>2, BagFacts
      <4> HIDE DEF b
      <4>7. saved' \in Stored /\ Whole(saved')
        BY <4>3, <4>5, NothingFacts
      <4>8. ASSUME "switched" \notin past, NEW j \in Item, b[j] > 0
            PROVE  Home[j] = Home[i]
        <5>1. CASE j # i
          <6>1. s.items[j] > 0 /\ s.items[j] # 0
            BY <5>1, <4>4, <4>6, <4>8
          <6>2. s.rest = Home[j] /\ s.rest # None
            BY <6>1, <4>8, <3>2, <3>3
          <6> QED BY <6>2, <3>5 DEF AgentMayAdd
        <5> QED BY <5>1
      <4> QED BY <4>5, <4>7, <4>8 DEF FromOne
    <3>6. CASE /\ saved' = [items |-> [s.items EXCEPT ![i] = 0], rest |-> s.rest]
               /\ [s.items EXCEPT ![i] = 0] # Empty
      <4> DEFINE b == [s.items EXCEPT ![i] = 0]
      <4>1. b \in Bag /\ b # Empty /\ saved' = [items |-> b, rest |-> s.rest]
        BY <3>2, <3>6, BagFacts
      <4>2. \A j \in Item : b[j] > 0 => s.items[j] > 0
        BY <3>2 DEF Bag
      <4>3. \E j \in Item : b[j] # 0
        BY <4>1, BagFacts
      <4>4. \A j \in Item : s.items[j] = 0 => b[j] = 0
        BY <3>2 DEF Bag
      <4> HIDE DEF b
      <4>5. s.rest # None
        BY <4>3, <4>4, <3>2
      <4>6. saved' \in Stored /\ Whole(saved')
        BY <4>1, <4>5, <3>2, NothingFacts
      <4> QED BY <4>1, <4>2, <4>6, <3>3 DEF FromOne
    <3> QED BY <3>4, <3>5, <3>6
  <2> QED BY <2>1, <2>2, <2>3 DEF AgentWrites, AgentPlaces, AgentClears
<1>7. placed \subseteq placed'
  BY DEF AgentWrites, AgentPlaces, AgentClears
<1>8. ASSUME NEW o \in placed' \ placed
      PROVE  /\ o \in [n : Nat, round : Nat, items : Bag, rest : Restaurant]
             /\ o.n = 0 /\ ("switched" \notin past => FromOne(o))
  <2> DEFINE s == agent.seen
             p == [n |-> 0, round |-> round, items |-> s.items, rest |-> s.rest]
  <2>1. agent.phase = "read" /\ s.items # Empty /\ o = p
    BY <1>8 DEF AgentWrites, AgentPlaces, AgentClears
  <2>2. s \in Stored /\ s.rest # None
    BY <2>1, <1>5 DEF Whole
  <2>3. s.items \in Bag /\ s.rest \in Restaurant /\ round \in Nat
    BY <2>2, <1>1, NothingFacts DEF CheckoutTypeOK
  <2>4. "switched" \notin past => FromOne(s)
    BY <2>1 DEF CheckoutInv, OneKitchen
  <2> HIDE DEF s
  <2> QED BY <2>1, <2>3, <2>4 DEF FromOne
<1>9. TypedInv'
  <2>1. placed' \subseteq [n : Nat, round : Nat, items : Bag, rest : Restaurant]
    BY <1>1, <1>8 DEF CheckoutTypeOK
  <2>2. asking' # None => app' = "mini" /\ sends' < MaxSends
    BY <1>1, <1>2, <1>3 DEF TypedInv
  <2>3. CheckoutTypeOK'
    BY <2>1, <1>1, <1>2, <1>3, <1>6 DEF CheckoutTypeOK
  <2> QED BY <2>2, <2>3, <1>1, <1>2, <1>6 DEF TypedInv, Whole, Busy
<1>10. Stamps'
  <2>1. clock \in Nat
    BY <1>1 DEF CheckoutTypeOK
  <2>2. \A o \in placed' : o.n <= clock
    BY <2>1, <1>8 DEF CheckoutInv, Stamps
  <2> QED BY <2>2, <1>2 DEF CheckoutInv, Stamps, Busy, Writing
<1>11. OneCheckout' /\ ErrorOver' /\ PromoOfThisCart' /\ AgentTold' /\ NoDeafWrites' /\ OrderedCart'
  BY <1>2, <1>4 DEF CheckoutInv, OneCheckout, ErrorOver, PromoOfThisCart, AgentTold, NoDeafWrites,
     OrderedCart, OwnCheckout, Ordering, Writing, Busy
<1>12. NotPlacedYet'
  <2>1. \A d \in Slot : Busy(d) => call[d].n # 0
    <3>1. clock \in Nat
      BY <1>1 DEF CheckoutTypeOK
    <3> QED BY <3>1 DEF CheckoutInv, Stamps
  <2> QED BY <2>1, <1>2, <1>8 DEF CheckoutInv, NotPlacedYet, Ordering, Granted, Busy
<1>13. ErrorMeansNoOrder'
  <2>1. error /\ past \intersect {"order lost", "clear lost"} = {} => attempt # 0
    BY DEF CheckoutInv, ErrorOver
  <2> QED BY <2>1, <1>2, <1>8 DEF CheckoutInv, ErrorMeansNoOrder
<1>14. NoDoubleOrder' /\ RoundsOver'
  BY <1>2, <1>4 DEF NoDoubleOrder, RoundsOver, Doubtful
<1>15. OneKitchen'
  BY <1>2, <1>6, <1>8 DEF CheckoutInv, OneKitchen, Busy
<1>16. Settles' /\ FetchedWell'
  BY <1>2 DEF Settles, FetchedWell
<1> QED BY <1>9, <1>10, <1>11, <1>12, <1>13, <1>14, <1>15, <1>16 DEF CheckoutInv

---------------------------------------------------------------------------
LEMMA CheckoutInitInv == CheckoutInit => CheckoutInv
<1> USE CheckoutAssumption
<1> SUFFICES ASSUME CheckoutInit PROVE CheckoutInv
  OBVIOUS
<1> DEFINE q == Request("get", Nothing, 1)
<1>1. PICK first \in Slot : call = [c \in Slot |-> IF c = first THEN q ELSE Idle]
  BY DEF CheckoutInit
<1>2. /\ app \in App /\ cart = Empty /\ rest = None
      /\ clock = 1 /\ newest = 0 /\ attempt = 0
      /\ drawer = FALSE /\ sheet = None /\ asking = None /\ promo = None
      /\ placing = FALSE /\ error = FALSE /\ agent = Idle
      /\ placed = {} /\ round = 0 /\ sends = 0 /\ past = {}
  BY DEF CheckoutInit
<1>3. saved \in Stored /\ Whole(saved) /\ FromOne(saved)
  <2>1. CASE saved = Nothing
    BY <2>1, NothingFacts DEF FromOne, Nothing, Empty
  <2>2. ASSUME NEW i \in Item, saved = [items |-> Only(i), rest |-> Home[i]]
        PROVE  saved \in Stored /\ Whole(saved) /\ FromOne(saved)
    <3>1. Home[i] \in Restaurant /\ Home[i] # None
      OBVIOUS
    <3>2. saved \in Stored /\ Whole(saved)
      BY <2>2, <3>1, BagFacts, NothingFacts
    <3>3. FromOne(saved)
      BY <2>2 DEF FromOne, Only, Empty
    <3> QED BY <3>2, <3>3
  <2> QED BY <2>1, <2>2 DEF CheckoutInit
<1>4. /\ q \in Call /\ Fits(q) /\ q.phase = "sent" /\ q.kind = "get" /\ q.body = Nothing
      /\ q.n = 1 /\ ~q.deaf
  <2>1. "get" \in Kind /\ 1 \in Nat
    BY DEF Kind
  <2>2. Fits(q)
    BY <2>1, NothingFacts, RequestFits
  <2>3. q \in Call
    BY <2>1, NothingFacts, RequestFacts
  <2> QED BY <2>2, <2>3 DEF Request
<1> HIDE DEF q
<1>5. /\ Busy(first) /\ ~Ordering(first) /\ ~OwnCheckout(first) /\ ~Writing(first)
      /\ call[first] = q
      /\ \A d \in Slot : d # first => ~Busy(d)
  BY <1>1, <1>4 DEF Busy, Ordering, OwnCheckout, Writing, Writes, Idle
<1>6. TypedInv
  <2>1. call \in [Slot -> Call \union {Idle}]
    BY <1>1, <1>4
  <2>2. CheckoutTypeOK
    <3>1. /\ clock \in Nat /\ newest \in 0 .. clock /\ attempt \in 0 .. clock
          /\ sends \in 0 .. MaxSends /\ round \in Nat
      BY <1>2
    <3> QED BY <2>1, <3>1, <1>2, <1>3, BagFacts DEF CheckoutTypeOK
  <2> QED BY <2>2, <1>2, <1>3, <1>4, <1>5 DEF TypedInv, Idle
<1>7. Stamps
  BY <1>2, <1>4, <1>5 DEF Stamps
<1>8. \A d \in Slot : ~Ordering(d) /\ ~OwnCheckout(d) /\ ~Writing(d)
  BY <1>5 DEF Ordering, OwnCheckout, Writing
<1>9. /\ OneCheckout /\ NotPlacedYet /\ ErrorOver /\ ErrorMeansNoOrder /\ RoundsOver
      /\ AgentTold /\ NoDoubleOrder /\ PromoOfThisCart /\ NoDeafWrites /\ OrderedCart
  BY <1>2, <1>8 DEF OneCheckout, NotPlacedYet, ErrorOver, ErrorMeansNoOrder, RoundsOver,
     AgentTold, NoDoubleOrder, PromoOfThisCart, NoDeafWrites, OrderedCart
<1>10. OneKitchen
  <2>1. FromOne(Local) /\ FromOne(Nothing)
    BY <1>2 DEF FromOne, Local, Nothing, Empty
  <2> QED BY <2>1, <1>2, <1>3, <1>4, <1>5 DEF OneKitchen, Idle
<1>11. Settles /\ FetchedWell
  <2>1. Settling(first) /\ call[first].phase = "sent"
    BY <1>2, <1>4, <1>5 DEF Settling
  <2>2. \A d \in Slot : Settling(d) => d = first
    BY <1>5 DEF Settling
  <2> QED BY <2>1, <2>2 DEF Settles, FetchedWell
<1> QED BY <1>6, <1>7, <1>9, <1>10, <1>11 DEF CheckoutInv

LEMMA CheckoutNextInv == CheckoutInv /\ [CheckoutNext]_checkoutVars => CheckoutInv'
<1> SUFFICES ASSUME CheckoutInv, [CheckoutNext]_checkoutVars PROVE CheckoutInv'
  OBVIOUS
<1>1. TypedInv
  BY DEF CheckoutInv
<1>2. ASSUME NEW c \in Slot, NEW i \in Item,
             AddFromMenu(c, i) \/ More(c, i) \/ Less(c, i) \/ RepeatOrder(c, i)
      PROVE  CheckoutInv'
  <2>1. CASE RepeatOrder(c, i)
    BY <2>1, <1>1, AskingSteps, AskingInv
  <2>2. CASE AddFromMenu(c, i) \/ More(c, i) \/ Less(c, i)
    BY <2>2, <1>1, EditSteps, EditInv
  <2> QED BY <1>2, <2>1, <2>2
<1>3. ASSUME NEW c \in Slot,
             ClearCart(c) \/ AddFromSheet(c) \/ ApplyPromo(c) \/ PlaceOrder(c) \/ Reload(c)
      PROVE  CheckoutInv'
  <2>1. CASE ClearCart(c) \/ AddFromSheet(c)
    BY <2>1, <1>1, EditSteps, EditInv
  <2>2. CASE ApplyPromo(c)
    BY <2>2, <1>1, AskingSteps, AskingInv
  <2>3. CASE PlaceOrder(c) \/ Reload(c)
    BY <2>3, PlaceOrderInv, ReloadInv
  <2> QED BY <1>3, <2>1, <2>2, <2>3
<1>4. ASSUME NEW i \in Item, AskToReplace(i) \/ OpenSheet(i) PROVE CheckoutInv'
  BY <1>1, <1>4, AsideSteps, AsideInv
<1>5. ASSUME NEW c \in Slot, NEW confirmed \in BOOLEAN, AnswerReplace(c, confirmed)
      PROVE  CheckoutInv'
  BY <1>1, <1>5, EditSteps, EditInv, AsideSteps, AsideInv
<1>6. CASE Open \/ RemovePromo \/ Hire \/ AgentReads
  BY <1>1, <1>6, AsideSteps, AsideInv
<1>7. CASE Close \/ AgentWrites \/ AgentPlaces \/ AgentClears
  BY <1>7, CloseInv, AgentInv
<1>8. ASSUME NEW c \in Slot, AgentEnds(c) PROVE CheckoutInv'
  BY <1>1, <1>8, AskingSteps, AskingInv
<1>9. ASSUME NEW c \in Slot, Progress(c) PROVE CheckoutInv'
  <2>1. CASE Serve(c)
    BY <2>1, ServeInv
  <2>2. CASE Receive(c)
    BY <2>2, <1>1, ReceiveCartInv, ReceiveOrderInv, EndSteps, AskingSteps, AskingInv DEF Receive
  <2>3. CASE Lose(c)
    BY <2>3, EndSteps
  <2> QED BY <1>9, <2>1, <2>2, <2>3 DEF Progress
<1>10. CASE UNCHANGED checkoutVars
  <2>1. UNCHANGED <<app, cart, rest, promo, round, saved, call, clock, newest, drawer, sheet,
                    asking, placing, error, attempt, agent, placed, sends, past>>
    BY <1>10 DEF checkoutVars, store, page
  <2>2. TypedInv'
    BY <1>1, <2>1 DEF TypedInv, CheckoutTypeOK, Whole, Busy
  <2>3. /\ Stamps' /\ OneCheckout' /\ NotPlacedYet' /\ ErrorOver' /\ ErrorMeansNoOrder'
        /\ RoundsOver' /\ AgentTold' /\ NoDoubleOrder'
    BY <2>1 DEF CheckoutInv, Stamps, OneCheckout, NotPlacedYet, ErrorOver, ErrorMeansNoOrder,
       RoundsOver, AgentTold, NoDoubleOrder, OwnCheckout, Ordering, Writing, Granted, Busy
  <2>4. OneKitchen' /\ PromoOfThisCart' /\ NoDeafWrites' /\ OrderedCart'
    BY <2>1 DEF CheckoutInv, OneKitchen, PromoOfThisCart, NoDeafWrites, OrderedCart, Local,
       Ordering, Writing, Busy
  <2>5. Settles' /\ FetchedWell'
    BY <2>1 DEF CheckoutInv, Settles, FetchedWell, Settling, LastWrite, Writing, Sent, Local, Busy
  <2> QED BY <2>2, <2>3, <2>4, <2>5 DEF CheckoutInv
<1> QED BY <1>2, <1>3, <1>4, <1>5, <1>6, <1>7, <1>8, <1>9, <1>10 DEF CheckoutNext

LEMMA CheckoutInvariant == CheckoutSpec => []CheckoutInv
BY CheckoutInitInv, CheckoutNextInv, PTL DEF CheckoutSpec

LEMMA CheckoutSoundness == CheckoutInv => CheckoutSound
<1> SUFFICES ASSUME CheckoutInv PROVE CheckoutSound
  OBVIOUS
<1>1. CheckoutTypeOK
  BY DEF CheckoutInv, TypedInv
<1>2. CartsAgree
  <2> SUFFICES ASSUME Quiet, past \intersect {"lost", "overtaken"} = {} PROVE Local = saved
    BY DEF CartsAgree
  <2>1. agent = Idle /\ \A c \in Slot : ~Settling(c) /\ ~LastWrite(c)
    BY DEF Quiet, Settling, LastWrite, Writing
  <2> QED BY <2>1 DEF CheckoutInv, Settles
<1>3. OneRestaurant
  BY DEF CheckoutInv, OneKitchen, OneRestaurant
<1>4. BusyWhileOrdering
  BY DEF CheckoutInv, OneCheckout, OwnCheckout, BusyWhileOrdering
<1> QED BY <1>1, <1>2, <1>3, <1>4 DEF CheckoutInv, CheckoutSound

(* For every menu and whatever number of requests is under way: the store's    *)
(* cart, the server's and the code applied agree, a cart is ordered once, an     *)
(* error shown means that nothing was ordered, and the order button comes free.  *)
THEOREM CartAndCheckoutSound == CheckoutSpec => []CheckoutSound
BY CheckoutInvariant, CheckoutSoundness, PTL

(* An order takes out of the cart what was ordered: nothing was added since. *)
THEOREM OrderTakesItsCart == CheckoutSpec => OrderTakesItsItems
<1>1. CheckoutInv /\ [CheckoutNext]_checkoutVars =>
        [\A c \in Slot : call[c].phase = "answered" /\ ReceiveOrder(c) =>
            cart = call[c].body.items \/ "edited" \in past]_checkoutVars
  <2> SUFFICES ASSUME CheckoutInv, NEW c \in Slot, call[c].phase = "answered", ReceiveOrder(c),
                      "edited" \notin past
               PROVE  cart = call[c].body.items
    OBVIOUS
  <2>1. Ordering(c) /\ Fits(call[c])
    BY DEF ReceiveOrder, Ordering, Busy, CheckoutInv, TypedInv
  <2>2. ~call[c].deaf
    BY <2>1 DEF Fits
  <2> QED BY <2>1, <2>2 DEF CheckoutInv, OrderedCart
<1> QED BY <1>1, CheckoutInvariant, PTL DEF CheckoutSpec, OrderTakesItsItems

---------------------------------------------------------------------------
(* The answers kept for strangers. *)

(* The requests under way. *)
Active == {v \in DOMAIN visits : visits[v] # Gone}

(* A request that was told the tag knows every key tagged since, but for    *)
(* those tagged across it. *)
TagKnown ==
    \A v \in DOMAIN visits : visits[v].at = "read" =>
      \A a \in tag \ visits[v].keys : gap[a] # {}

(* What is kept and not yet tagged was kept after the last emptying, or the  *)
(* emptying is marked on it. *)
LateTagCrossed ==
    \A v \in DOMAIN visits : visits[v].at = "set" =>
      LET a == visits[v].address
      IN shelf[a] # Bare /\ shelf[a].purges < purges => "crossed" \in gap[a]

(* What is kept was made at most a lifetime ago; if it is not late, every     *)
(* change it does not show came while it was kept. *)
KeptInTime ==
    \A a \in Address : shelf[a] # Bare =>
      /\ tick < shelf[a].until /\ shelf[a].until <= tick + Lifetime
      /\ shelf[a].shows <= Len(edits)
      /\ ~shelf[a].late =>
           \A i \in (shelf[a].shows + 1) .. Len(edits) : edits[i] >= shelf[a].until - Lifetime

(* An answer shows only changes that were made. *)
ShownPast ==
    /\ \A v \in DOMAIN visits : visits[v] # Gone => visits[v].shows <= Len(edits)
    /\ \A i \in 1 .. Len(edits) : edits[i] <= tick

(* Every emptying was a request's, and no request empties twice. *)
PurgesCounted == purges + Cardinality(Active) <= begun

CacheInv ==
    /\ CacheTypeOK /\ KeptIsTagged /\ EmptyingForgets
    /\ TagKnown /\ LateTagCrossed /\ KeptInTime /\ ShownPast /\ PurgesCounted

---------------------------------------------------------------------------
LEMMA VisitShape ==
  ASSUME CacheTypeOK, NEW v \in DOMAIN visits
  PROVE  /\ v \in 1 .. Visits
         /\ visits[v] \in Visit \union {Gone}
         /\ visits[v] # Gone <=> visits[v].at # "gone"
         /\ visits[v] # Gone => /\ visits[v] \in Visit
                                /\ visits[v].address \in Address
                                /\ visits[v].shows \in 0 .. MaxEdits
                                /\ visits[v].keys \in SUBSET Address
  BY DEF CacheTypeOK, Visit, Gone

(* The requests under way are finitely many, and counted as they come and go. *)
LEMMA EntryOf ==
  ASSUME NEW S, NEW s \in Seq(S), NEW i \in 1 .. Len(s)
  PROVE  s[i] \in S
  OBVIOUS

LEMMA CacheNumbers ==
  ASSUME CacheTypeOK
  PROVE  /\ Visits \in Int /\ Lifetime \in Nat /\ MaxVisits \in Nat
         /\ tick \in Nat /\ purges \in Nat /\ begun \in Nat /\ begun <= MaxVisits
         /\ edits \in Seq(0 .. MaxTicks) /\ Len(edits) \in Nat
         /\ \A i \in 1 .. Len(edits) : edits[i] \in Nat
<1>1. /\ tick \in 0 .. MaxTicks /\ purges \in 0 .. MaxVisits /\ begun \in 0 .. MaxVisits
      /\ edits \in Seq(0 .. MaxTicks)
  BY DEF CacheTypeOK
<1>2. /\ Lifetime \in Nat /\ Visits \in Int /\ MaxTicks \in Nat /\ MaxVisits \in Nat
  BY ResponseCacheAssumption
<1>3. Len(edits) \in Nat
  BY <1>1
<1>4. ASSUME NEW i \in 1 .. Len(edits) PROVE edits[i] \in Nat
  <2>1. edits \in Seq(0 .. MaxTicks) /\ i \in 1 .. Len(edits)
    BY <1>1, <1>4
  <2>2. edits[i] \in 0 .. MaxTicks
    BY <2>1, EntryOf
  <2> QED BY <2>2
<1> QED BY <1>1, <1>2, <1>3, <1>4

LEMMA EntryNumbers ==
  ASSUME CacheTypeOK, NEW a \in Address, shelf[a] # Bare
  PROVE  /\ shelf[a] \in CacheEntry /\ shelf[a].shows \in Nat
         /\ shelf[a].until \in Nat /\ shelf[a].purges \in Nat
<1>1. shelf[a] \in CacheEntry
  BY DEF CacheTypeOK
<1> QED BY <1>1 DEF CacheEntry

(* The count of the requests against that of the emptyings. *)
LEMMA CountsOn ==
  ASSUME NEW p \in Nat, NEW q \in Nat, NEW n \in Nat, NEW m \in Nat,
         NEW k \in Nat, NEW l \in Nat,
         p + n <= k, \/ q = p /\ l = k /\ m <= n
                     \/ q = p + 1 /\ l = k /\ m = n - 1
                     \/ q = p /\ l = k + 1 /\ m = n + 1
  PROVE  q + m <= l
  OBVIOUS

LEMMA ActiveFinite ==
  ASSUME CacheTypeOK
  PROVE  IsFiniteSet(Active) /\ Cardinality(Active) \in Nat
<1>1. IsFiniteSet(1 .. Visits)
  BY FS_Interval, CacheNumbers
<1>2. Active \subseteq 1 .. Visits
  BY DEF CacheTypeOK, Active
<1> QED BY <1>1, <1>2, FS_Subset, FS_CardinalityType

LEMMA ProceedFacts ==
  ASSUME CacheTypeOK, NEW v \in DOMAIN visits, visits[v] # Gone,
         NEW q \in Visit \union {Gone}, visits' = [visits EXCEPT ![v] = q]
  PROVE  /\ visits' \in [1 .. Visits -> Visit \union {Gone}]
         /\ DOMAIN visits' = DOMAIN visits
         /\ visits'[v] = q
         /\ \A w \in DOMAIN visits \ {v} : visits'[w] = visits[w]
         /\ Cardinality(Active') \in Nat
         /\ Cardinality(Active') <= Cardinality(Active)
         /\ q = Gone => Cardinality(Active') = Cardinality(Active) - 1
<1>1. /\ visits' \in [1 .. Visits -> Visit \union {Gone}]
      /\ DOMAIN visits' = DOMAIN visits
      /\ visits'[v] = q
      /\ \A w \in DOMAIN visits \ {v} : visits'[w] = visits[w]
  BY DEF CacheTypeOK
<1>2. IsFiniteSet(Active) /\ Cardinality(Active) \in Nat
  BY ActiveFinite
<1>3. Active' = IF q = Gone THEN Active \ {v} ELSE Active
  BY <1>1 DEF Active
<1>4. v \in Active
  BY DEF Active
<1>5. Cardinality(Active \ {v}) = Cardinality(Active) - 1 /\ IsFiniteSet(Active \ {v})
  BY <1>2, <1>4, FS_RemoveElement
<1>6. Cardinality(Active \ {v}) \in Nat
  BY <1>5, FS_CardinalityType
<1> QED BY <1>1, <1>2, <1>3, <1>5, <1>6

---------------------------------------------------------------------------
LEMMA CacheInitInv == CacheInit => CacheInv
<1> SUFFICES ASSUME CacheInit PROVE CacheInv
  OBVIOUS
<1> USE ResponseCacheAssumption
<1>1. CacheTypeOK
  BY DEF CacheInit, CacheTypeOK
<1>2. Active = {}
  BY DEF CacheInit, Active
<1>3. PurgesCounted
  BY <1>2, FS_EmptySet DEF CacheInit, PurgesCounted
<1> QED BY <1>1, <1>3 DEF CacheInit, CacheInv, KeptIsTagged, EmptyingForgets, TagKnown,
     LateTagCrossed, KeptInTime, ShownPast, Gone

LEMMA ComesInv ==
  ASSUME CacheInv, Comes
  PROVE  CacheInv'
<1> USE ResponseCacheAssumption
<1>1. PICK v \in DOMAIN visits, how \in {"get", "other"}, a \in Address :
        /\ visits[v] = Gone
        /\ visits' = [visits EXCEPT ![v] =
                        [at |-> how, address |-> a, shows |-> 0, keys |-> {}]]
  BY DEF Comes
<1> DEFINE q == [at |-> how, address |-> a, shows |-> 0, keys |-> {}]
<1>2. q \in Visit /\ q # Gone /\ q.at \in {"get", "other"} /\ q.shows = 0
  BY DEF Visit, Gone
<1>3. /\ begun < MaxVisits /\ begun' = begun + 1
      /\ UNCHANGED <<tick, edits, shelf, tag, purges, silences, gap>>
  BY DEF Comes
<1>4. CacheTypeOK
  BY DEF CacheInv
<1> HIDE DEF q
<1>5. /\ visits' \in [1 .. Visits -> Visit \union {Gone}]
      /\ DOMAIN visits' = DOMAIN visits
      /\ visits'[v] = q
      /\ \A w \in DOMAIN visits \ {v} : visits'[w] = visits[w]
  BY <1>1, <1>2, <1>4 DEF CacheTypeOK, q
<1>6. CacheTypeOK'
  BY <1>3, <1>4, <1>5 DEF CacheTypeOK
<1>7. PurgesCounted'
  <2>1. v \notin Active
    BY <1>1 DEF Active
  <2>2. Active' = Active \union {v}
    BY <1>2, <1>5 DEF Active
  <2>3. Cardinality(Active') = Cardinality(Active) + 1
    BY <2>1, <2>2, <1>4, ActiveFinite, FS_AddElement
  <2>4. purges + Cardinality(Active) <= begun
    BY DEF CacheInv, PurgesCounted
  <2>5. /\ purges \in Nat /\ begun \in Nat /\ Cardinality(Active) \in Nat
        /\ begun + 1 \in Nat /\ Cardinality(Active) + 1 \in Nat
    BY <1>4, CacheNumbers, ActiveFinite
  <2> QED BY <2>3, <2>4, <2>5, <1>3, CountsOn DEF PurgesCounted
<1>8. visits[v].at = "gone"
  BY <1>1 DEF Gone
<1>9. KeptIsTagged'
  BY <1>3, <1>5, <1>8 DEF CacheInv, KeptIsTagged
<1>10. EmptyingForgets' /\ TagKnown' /\ LateTagCrossed'
  BY <1>2, <1>3, <1>5 DEF CacheInv, EmptyingForgets, TagKnown, LateTagCrossed
<1>11. KeptInTime' /\ ShownPast'
  BY <1>2, <1>3, <1>4, <1>5 DEF CacheInv, CacheTypeOK, KeptInTime, ShownPast
<1> QED BY <1>6, <1>7, <1>9, <1>10, <1>11 DEF CacheInv

(* The steps of a request under way that touch nothing but itself. *)
LEMMA QuietInv ==
  ASSUME CacheInv, NEW v \in DOMAIN visits, visits[v] # Gone,
         NEW q \in Visit \union {Gone}, visits' = [visits EXCEPT ![v] = q],
         visits[v].at # "set", q.at # "set",
         q.at = "read" => tag \subseteq q.keys,
         q # Gone => q.shows <= Len(edits),
         UNCHANGED <<tick, edits, shelf, tag, purges, begun, gap>>,
         silences' \in 0 .. MaxSilences
  PROVE  CacheInv'
<1> USE ResponseCacheAssumption
<1>1. CacheTypeOK
  BY DEF CacheInv
<1>2. /\ visits' \in [1 .. Visits -> Visit \union {Gone}]
      /\ DOMAIN visits' = DOMAIN visits
      /\ visits'[v] = q
      /\ \A w \in DOMAIN visits \ {v} : visits'[w] = visits[w]
      /\ Cardinality(Active') \in Nat
      /\ Cardinality(Active') <= Cardinality(Active)
  BY <1>1, ProceedFacts
<1>3. CacheTypeOK'
  BY <1>1, <1>2 DEF CacheTypeOK
<1>4. PurgesCounted'
  <2>1. /\ purges + Cardinality(Active) <= begun
        /\ purges \in Nat /\ begun \in Nat /\ Cardinality(Active) \in Nat
    BY <1>1, CacheNumbers, ActiveFinite DEF CacheInv, PurgesCounted
  <2> QED BY <2>1, <1>2, CountsOn DEF PurgesCounted
<1>5. KeptIsTagged' /\ EmptyingForgets' /\ TagKnown' /\ LateTagCrossed'
  BY <1>2 DEF CacheInv, KeptIsTagged, EmptyingForgets, TagKnown, LateTagCrossed
<1>6. KeptInTime' /\ ShownPast'
  BY <1>2 DEF CacheInv, KeptInTime, ShownPast
<1> QED BY <1>3, <1>4, <1>5, <1>6 DEF CacheInv

LEMMA QuietSteps ==
  ASSUME CacheInv, NEW v \in DOMAIN visits, LookIn(v) \/ MakeAnswer(v) \/ ReadTag(v)
  PROVE  CacheInv'
<1>1. CacheTypeOK
  BY DEF CacheInv
<1>2. visits[v] # Gone
  BY DEF LookIn, MakeAnswer, ReadTag, Gone
<1>3. visits[v] \in Visit
  BY <1>1, <1>2, VisitShape
<1>4. /\ silences' \in 0 .. MaxSilences
      /\ UNCHANGED <<tick, edits, shelf, tag, purges, begun, gap>>
  BY <1>1 DEF LookIn, MakeAnswer, ReadTag, CacheTypeOK
<1>5. Len(edits) \in 0 .. MaxEdits /\ tag \subseteq Address
  BY <1>1, ResponseCacheAssumption DEF CacheTypeOK
<1>6. visits[v].shows <= Len(edits)
  BY <1>2 DEF CacheInv, ShownPast
<1>7. CASE LookIn(v)
  <2> DEFINE q == IF shelf[visits[v].address] = Bare
                  THEN [visits[v] EXCEPT !.at = "missed"] ELSE Gone
  <2>1. visits' = [visits EXCEPT ![v] = q] /\ visits[v].at = "get"
    BY <1>7 DEF LookIn, Proceeds
  <2>2. q \in Visit \union {Gone} /\ q.at \in {"missed", "gone"}
        /\ (q # Gone => q.shows = visits[v].shows)
    BY <1>3 DEF Visit, Gone
  <2> HIDE DEF q
  <2> QED BY <2>1, <2>2, <1>2, <1>4, <1>6, QuietInv
<1>8. CASE MakeAnswer(v)
  <2> DEFINE q == [visits[v] EXCEPT !.at = "loaded", !.shows = Len(edits)]
  <2>1. visits' = [visits EXCEPT ![v] = q] /\ visits[v].at = "missed"
    BY <1>8 DEF MakeAnswer, Proceeds
  <2>2. q \in Visit \union {Gone} /\ q.at = "loaded" /\ q.shows <= Len(edits)
    <3> DEFINE r == [visits[v] EXCEPT !.at = "loaded"]
    <3>1. r \in Visit /\ r.at = "loaded"
      BY <1>3 DEF Visit
    <3>2. q = [r EXCEPT !.shows = Len(edits)] /\ Len(edits) \in Int
      BY <1>5, ResponseCacheAssumption
    <3> HIDE DEF q, r
    <3> QED BY <3>1, <3>2, <1>5 DEF Visit
  <2> HIDE DEF q
  <2> QED BY <2>1, <2>2, <1>2, <1>4, <1>5, QuietInv
<1>9. CASE ReadTag(v)
  <2> DEFINE q == [visits[v] EXCEPT !.at = "read", !.keys = tag]
  <2>1. visits' = [visits EXCEPT ![v] = q] /\ visits[v].at = "other"
    BY <1>9 DEF ReadTag, Proceeds
  <2>2. /\ q \in Visit \union {Gone} /\ q.at = "read" /\ q.keys = tag
        /\ q.shows = visits[v].shows
    BY <1>3, <1>5 DEF Visit
  <2> HIDE DEF q
  <2> QED BY <2>1, <2>2, <1>2, <1>4, <1>6, QuietInv
<1> QED BY <1>7, <1>8, <1>9

LEMMA KeepAnswerInv ==
  ASSUME CacheInv, NEW v \in DOMAIN visits, KeepAnswer(v)
  PROVE  CacheInv'
<1> USE ResponseCacheAssumption
<1> DEFINE a == visits[v].address
           q == [visits[v] EXCEPT !.at = "set"]
           e == KeptAnswer(visits[v], tick + Lifetime)
           g == IF Emptying THEN {"crossed"} ELSE {}
<1>1. CacheTypeOK /\ visits[v] # Gone /\ visits[v].at = "loaded"
  BY DEF CacheInv, KeepAnswer, Gone
<1>2. /\ visits[v] \in Visit /\ a \in Address
      /\ visits[v].shows \in 0 .. MaxEdits /\ visits[v].shows <= Len(edits)
  BY <1>1, VisitShape DEF CacheInv, ShownPast
<1>3. /\ visits' = [visits EXCEPT ![v] = q]
      /\ shelf' = [shelf EXCEPT ![a] = e]
      /\ gap' = [gap EXCEPT ![a] = g]
      /\ UNCHANGED <<tick, edits, tag, purges, begun, silences>>
  BY DEF KeepAnswer, Proceeds, Keep
<1>4. q \in Visit /\ q # Gone /\ q.at = "set" /\ q.address = a
      /\ q.shows = visits[v].shows
  BY <1>2 DEF Visit, Gone
<1>5. /\ e \in CacheEntry /\ e # Bare
      /\ e.shows = visits[v].shows /\ e.until = tick + Lifetime /\ e.purges = purges
      /\ (e.late <=> visits[v].shows < Len(edits))
  <2>1. /\ (visits[v].shows < Len(edits)) \in BOOLEAN
        /\ tick + Lifetime \in 0 .. (MaxTicks + Lifetime)
        /\ purges \in 0 .. MaxVisits
    <3>1. tick \in 0 .. MaxTicks /\ purges \in 0 .. MaxVisits
      BY <1>1 DEF CacheTypeOK
    <3>2. MaxTicks \in Nat /\ Lifetime \in Nat
      OBVIOUS
    <3> QED BY <3>1, <3>2
  <2> QED BY <2>1, <1>2 DEF KeptAnswer, CacheEntry, Bare
<1>6. g \in SUBSET {"untagged", "crossed"} /\ (Emptying => g = {"crossed"})
  OBVIOUS
<1> HIDE DEF q, e, g, a
<1>7. /\ visits' \in [1 .. Visits -> Visit \union {Gone}]
      /\ DOMAIN visits' = DOMAIN visits
      /\ visits'[v] = q
      /\ \A w \in DOMAIN visits \ {v} : visits'[w] = visits[w]
      /\ Cardinality(Active') \in Nat
      /\ Cardinality(Active') <= Cardinality(Active)
  BY <1>1, <1>3, <1>4, ProceedFacts
<1>8. /\ shelf' \in [Address -> CacheEntry \union {Bare}]
      /\ shelf'[a] = e /\ \A b \in Address \ {a} : shelf'[b] = shelf[b]
      /\ gap' \in [Address -> SUBSET {"untagged", "crossed"}]
      /\ gap'[a] = g /\ \A b \in Address \ {a} : gap'[b] = gap[b]
  BY <1>1, <1>2, <1>3, <1>5, <1>6 DEF CacheTypeOK
<1>9. CacheTypeOK'
  BY <1>1, <1>3, <1>7, <1>8 DEF CacheTypeOK
<1>10. PurgesCounted'
  BY <1>1, <1>3, <1>7, ActiveFinite DEF CacheInv, CacheTypeOK, PurgesCounted
<1>11. KeptIsTagged'
  <2> SUFFICES ASSUME NEW b \in Address, shelf'[b] # Bare
               PROVE  \/ b \in tag' \/ gap'[b] # {}
                      \/ \E w \in DOMAIN visits' :
                           visits'[w].at = "set" /\ visits'[w].address = b
    BY DEF KeptIsTagged
  <2>1. CASE b = a
    BY <2>1, <1>4, <1>7
  <2>2. CASE b # a
    BY <2>2, <1>1, <1>3, <1>7, <1>8 DEF CacheInv, KeptIsTagged
  <2> QED BY <2>1, <2>2
<1>12. EmptyingForgets'
  BY <1>1, <1>3, <1>5, <1>8 DEF CacheInv, CacheTypeOK, EmptyingForgets
<1>13. TagKnown'
  <2> SUFFICES ASSUME NEW w \in DOMAIN visits', visits'[w].at = "read",
                      NEW b \in tag' \ visits'[w].keys
               PROVE  gap'[b] # {}
    BY DEF TagKnown
  <2>1. w # v /\ w \in DOMAIN visits /\ visits'[w] = visits[w] /\ b \in Address
    BY <1>1, <1>3, <1>4, <1>7 DEF CacheTypeOK
  <2>2. gap[b] # {} /\ Emptying
    BY <2>1, <1>3 DEF CacheInv, TagKnown, Emptying
  <2> QED BY <2>1, <2>2, <1>6, <1>8
<1>14. LateTagCrossed'
  <2> SUFFICES ASSUME NEW w \in DOMAIN visits', visits'[w].at = "set",
                      NEW b, b = visits'[w].address,
                      shelf'[b] # Bare, shelf'[b].purges < purges'
               PROVE  "crossed" \in gap'[b]
    BY DEF LateTagCrossed
  <2>1. CASE b = a
    BY <2>1, <1>1, <1>3, <1>5, <1>8 DEF CacheTypeOK
  <2>2. CASE b # a
    <3>1. w # v /\ w \in DOMAIN visits /\ visits'[w] = visits[w]
      BY <2>2, <1>4, <1>7
    <3>2. b \in Address
      BY <3>1, <1>1, VisitShape DEF Gone
    <3> QED BY <3>1, <3>2, <2>2, <1>3, <1>8 DEF CacheInv, LateTagCrossed
  <2> QED BY <2>1, <2>2
<1>15. KeptInTime'
  <2> SUFFICES ASSUME NEW b \in Address, shelf'[b] # Bare
               PROVE  /\ tick' < shelf'[b].until /\ shelf'[b].until <= tick' + Lifetime
                      /\ shelf'[b].shows <= Len(edits')
                      /\ ~shelf'[b].late =>
                           \A i \in (shelf'[b].shows + 1) .. Len(edits') :
                              edits'[i] >= shelf'[b].until - Lifetime
    BY DEF KeptInTime
  <2>1. CASE b = a
    <3>1. shelf'[b] = e /\ Len(edits) \in Nat /\ tick \in Nat
      BY <2>1, <1>1, <1>8 DEF CacheTypeOK
    <3>2. ~e.late => (e.shows + 1) .. Len(edits) = {}
      BY <3>1, <1>2, <1>5
    <3> QED BY <3>1, <3>2, <1>2, <1>3, <1>5
  <2>2. CASE b # a
    BY <2>2, <1>3, <1>8 DEF CacheInv, KeptInTime
  <2> QED BY <2>1, <2>2
<1>16. ShownPast'
  BY <1>2, <1>3, <1>4, <1>7 DEF CacheInv, ShownPast
<1> QED BY <1>9, <1>10, <1>11, <1>12, <1>13, <1>14, <1>15, <1>16 DEF CacheInv

LEMMA TagKeyInv ==
  ASSUME CacheInv, NEW v \in DOMAIN visits, TagKey(v)
  PROVE  CacheInv'
<1> USE ResponseCacheAssumption
<1> DEFINE a == visits[v].address
           g == (gap[a] \ {"untagged"}) \union (IF Emptying THEN {"crossed"} ELSE {})
<1>1. CacheTypeOK /\ visits[v] # Gone /\ visits[v].at = "set"
  BY DEF CacheInv, TagKey, Gone
<1>2. a \in Address
  BY <1>1, VisitShape
<1>3. /\ visits' = [visits EXCEPT ![v] = Gone]
      /\ tag' = tag \union {a}
      /\ gap' = [gap EXCEPT ![a] = g]
      /\ UNCHANGED <<tick, edits, shelf, purges, begun, silences>>
  BY <1>1, <1>2 DEF TagKey, Proceeds, CacheTypeOK
<1>4. /\ g \in SUBSET {"untagged", "crossed"} /\ (Emptying => g # {})
      /\ "crossed" \in gap[a] => "crossed" \in g
  BY <1>1, <1>2 DEF CacheTypeOK
<1> HIDE DEF a, g
<1>5. /\ visits' \in [1 .. Visits -> Visit \union {Gone}]
      /\ DOMAIN visits' = DOMAIN visits
      /\ visits'[v] = Gone
      /\ \A w \in DOMAIN visits \ {v} : visits'[w] = visits[w]
      /\ Cardinality(Active') \in Nat
      /\ Cardinality(Active') <= Cardinality(Active)
  BY <1>1, <1>3, ProceedFacts
<1>6. /\ gap' \in [Address -> SUBSET {"untagged", "crossed"}]
      /\ gap'[a] = g /\ \A b \in Address \ {a} : gap'[b] = gap[b]
  BY <1>1, <1>2, <1>3, <1>4 DEF CacheTypeOK
<1>7. Gone.at = "gone"
  BY DEF Gone
<1>8. CacheTypeOK'
  BY <1>1, <1>2, <1>3, <1>5, <1>6 DEF CacheTypeOK
<1>9. PurgesCounted'
  BY <1>1, <1>3, <1>5, ActiveFinite DEF CacheInv, CacheTypeOK, PurgesCounted
<1>10. KeptIsTagged'
  <2> SUFFICES ASSUME NEW b \in Address, shelf'[b] # Bare, b # a
               PROVE  \/ b \in tag' \/ gap'[b] # {}
                      \/ \E w \in DOMAIN visits' :
                           visits'[w].at = "set" /\ visits'[w].address = b
    BY <1>3 DEF KeptIsTagged
  <2>1. \/ b \in tag \/ gap[b] # {}
        \/ \E w \in DOMAIN visits : visits[w].at = "set" /\ visits[w].address = b
    BY <1>3 DEF CacheInv, KeptIsTagged
  <2>2. ASSUME NEW w \in DOMAIN visits, visits[w].at = "set", visits[w].address = b
        PROVE  visits'[w].at = "set" /\ visits'[w].address = b
    BY <2>2, <1>5 DEF a
  <2> QED BY <2>1, <2>2, <1>3, <1>5, <1>6
<1>11. EmptyingForgets'
  BY <1>1, <1>3, <1>4, <1>6 DEF CacheInv, EmptyingForgets, LateTagCrossed, a
<1>12. TagKnown'
  <2> SUFFICES ASSUME NEW w \in DOMAIN visits', visits'[w].at = "read",
                      NEW b \in tag' \ visits'[w].keys
               PROVE  gap'[b] # {}
    BY DEF TagKnown
  <2>1. w # v /\ w \in DOMAIN visits /\ visits'[w] = visits[w] /\ Emptying
    BY <1>5, <1>7 DEF Emptying
  <2>2. b \in tag \/ b = a
    BY <1>3
  <2>3. b # a => b \in Address /\ gap[b] # {}
    BY <2>1, <2>2, <1>1 DEF CacheInv, TagKnown, CacheTypeOK
  <2> QED BY <2>1, <2>2, <2>3, <1>4, <1>6
<1>13. LateTagCrossed'
  <2> SUFFICES ASSUME NEW w \in DOMAIN visits', visits'[w].at = "set",
                      NEW b, b = visits'[w].address,
                      shelf'[b] # Bare, shelf'[b].purges < purges'
               PROVE  "crossed" \in gap'[b]
    BY DEF LateTagCrossed
  <2>1. w \in DOMAIN visits /\ visits'[w] = visits[w]
    BY <1>5, <1>7
  <2>2. b \in Address /\ "crossed" \in gap[b]
    BY <2>1, <1>1, <1>3, VisitShape DEF CacheInv, LateTagCrossed, Gone
  <2> QED BY <2>2, <1>4, <1>6
<1>14. KeptInTime' /\ ShownPast'
  BY <1>3, <1>5, <1>7 DEF CacheInv, KeptInTime, ShownPast, Gone
<1> QED BY <1>8, <1>9, <1>10, <1>11, <1>12, <1>13, <1>14 DEF CacheInv

LEMMA EmptyTagInv ==
  ASSUME CacheInv, NEW v \in DOMAIN visits, EmptyTag(v)
  PROVE  CacheInv'
<1> USE ResponseCacheAssumption
<1>1. CacheTypeOK /\ visits[v] # Gone /\ visits[v].at = "read"
  BY DEF CacheInv, EmptyTag, Gone
<1>2. /\ visits' = [visits EXCEPT ![v] = Gone]
      /\ tag' = {} /\ purges' = purges + 1
      /\ UNCHANGED <<tick, edits, begun, silences>>
  BY DEF EmptyTag, Proceeds
<1>3. /\ shelf' \in [Address -> CacheEntry \union {Bare}]
      /\ \A b \in Address : shelf'[b] # Bare =>
           b \notin visits[v].keys /\ shelf'[b] = shelf[b]
  BY <1>1 DEF EmptyTag, Forgotten, CacheTypeOK
<1>4. /\ gap' \in [Address -> SUBSET {"untagged", "crossed"}]
      /\ \A b \in Address : gap[b] \subseteq gap'[b]
      /\ \A w \in DOMAIN visits : visits[w].at = "set" /\ visits[w].address \in Address =>
           "crossed" \in gap'[visits[w].address]
  BY <1>1 DEF EmptyTag, CacheTypeOK
<1>5. /\ visits' \in [1 .. Visits -> Visit \union {Gone}]
      /\ DOMAIN visits' = DOMAIN visits
      /\ visits'[v] = Gone
      /\ \A w \in DOMAIN visits \ {v} : visits'[w] = visits[w]
      /\ Cardinality(Active') \in Nat
      /\ Cardinality(Active') = Cardinality(Active) - 1
  BY <1>1, <1>2, ProceedFacts
<1>6. Gone.at = "gone"
  BY DEF Gone
<1>7. PurgesCounted' /\ purges' \in 0 .. MaxVisits
  <2>1. /\ purges + Cardinality(Active) <= begun /\ begun <= MaxVisits
        /\ purges \in Nat /\ begun \in Nat /\ MaxVisits \in Nat
        /\ Cardinality(Active) \in Nat
    BY <1>1, CacheNumbers, ActiveFinite DEF CacheInv, PurgesCounted
  <2>2. purges + 1 \in Nat
    BY <2>1
  <2>3. PurgesCounted'
    BY <2>1, <2>2, <1>2, <1>5, CountsOn DEF PurgesCounted
  <2>4. purges + 1 <= begun
    BY <2>1, <1>2, <1>5
  <2> QED BY <2>1, <2>3, <2>4, <1>2
<1>8. CacheTypeOK'
  BY <1>1, <1>2, <1>3, <1>4, <1>5, <1>7 DEF CacheTypeOK
<1>9. ASSUME NEW b \in Address, shelf'[b] # Bare
      PROVE  gap'[b] # {}
  <2>1. b \notin visits[v].keys /\ shelf[b] # Bare
    BY <1>3, <1>9
  <2>2. \/ b \in tag \/ gap[b] # {}
        \/ \E w \in DOMAIN visits : visits[w].at = "set" /\ visits[w].address = b
    BY <2>1 DEF CacheInv, KeptIsTagged
  <2>3. b \in tag => gap[b] # {}
    BY <2>1, <1>1 DEF CacheInv, TagKnown
  <2> QED BY <2>2, <2>3, <1>4
<1>10. KeptIsTagged' /\ EmptyingForgets'
  BY <1>9 DEF KeptIsTagged, EmptyingForgets
<1>11. TagKnown'
  BY <1>2 DEF TagKnown
<1>12. LateTagCrossed'
  <2> SUFFICES ASSUME NEW w \in DOMAIN visits', visits'[w].at = "set"
               PROVE  "crossed" \in gap'[visits'[w].address]
    BY DEF LateTagCrossed
  <2>1. w \in DOMAIN visits /\ visits'[w] = visits[w]
    BY <1>5, <1>6
  <2>2. visits[w].address \in Address
    BY <2>1, <1>1, VisitShape
  <2> QED BY <2>1, <2>2, <1>4
<1>13. KeptInTime' /\ ShownPast'
  BY <1>2, <1>3, <1>5, <1>6 DEF CacheInv, KeptInTime, ShownPast, Gone
<1> QED BY <1>7, <1>8, <1>10, <1>11, <1>12, <1>13 DEF CacheInv

LEMMA SilenceInv ==
  ASSUME CacheInv, NEW v \in DOMAIN visits, Silence(v)
  PROVE  CacheInv'
<1> USE ResponseCacheAssumption
<1>1. CacheTypeOK /\ visits[v] # Gone
  BY DEF CacheInv, Silence
<1>2. /\ visits' = [visits EXCEPT ![v] = Gone]
      /\ silences < MaxSilences /\ silences' = silences + 1
      /\ UNCHANGED <<tick, edits, shelf, tag, purges, begun>>
  BY DEF Silence, Proceeds
<1>3. /\ gap' \in [Address -> SUBSET {"untagged", "crossed"}]
      /\ \A b \in Address : gap[b] \subseteq gap'[b]
      /\ visits[v].at = "set" => gap'[visits[v].address] # {}
  BY <1>1, VisitShape DEF Silence, CacheTypeOK
<1>4. /\ visits' \in [1 .. Visits -> Visit \union {Gone}]
      /\ DOMAIN visits' = DOMAIN visits
      /\ visits'[v] = Gone
      /\ \A w \in DOMAIN visits \ {v} : visits'[w] = visits[w]
      /\ Cardinality(Active') \in Nat
      /\ Cardinality(Active') <= Cardinality(Active)
  BY <1>1, <1>2, ProceedFacts
<1>5. Gone.at = "gone"
  BY DEF Gone
<1>6. CacheTypeOK'
  BY <1>1, <1>2, <1>3, <1>4 DEF CacheTypeOK
<1>7. PurgesCounted'
  BY <1>1, <1>2, <1>4, ActiveFinite DEF CacheInv, CacheTypeOK, PurgesCounted
<1>8. KeptIsTagged'
  <2> SUFFICES ASSUME NEW b \in Address, shelf'[b] # Bare
               PROVE  \/ b \in tag' \/ gap'[b] # {}
                      \/ \E w \in DOMAIN visits' :
                           visits'[w].at = "set" /\ visits'[w].address = b
    BY DEF KeptIsTagged
  <2>1. \/ b \in tag \/ gap[b] # {}
        \/ \E w \in DOMAIN visits : visits[w].at = "set" /\ visits[w].address = b
    BY <1>2 DEF CacheInv, KeptIsTagged
  <2>2. ASSUME NEW w \in DOMAIN visits, visits[w].at = "set", visits[w].address = b
        PROVE  gap'[b] # {} \/ (visits'[w].at = "set" /\ visits'[w].address = b)
    BY <2>2, <1>3, <1>4
  <2> QED BY <2>1, <2>2, <1>2, <1>3, <1>4
<1>9. EmptyingForgets'
  BY <1>2, <1>3 DEF CacheInv, EmptyingForgets
<1>10. TagKnown'
  <2> SUFFICES ASSUME NEW w \in DOMAIN visits', visits'[w].at = "read",
                      NEW b \in tag' \ visits'[w].keys
               PROVE  gap'[b] # {}
    BY DEF TagKnown
  <2>1. w \in DOMAIN visits /\ visits'[w] = visits[w] /\ b \in Address /\ b \in tag
    BY <1>1, <1>2, <1>4, <1>5 DEF CacheTypeOK
  <2> QED BY <2>1, <1>3 DEF CacheInv, TagKnown
<1>11. LateTagCrossed'
  <2> SUFFICES ASSUME NEW w \in DOMAIN visits', visits'[w].at = "set",
                      NEW b, b = visits'[w].address,
                      shelf'[b] # Bare, shelf'[b].purges < purges'
               PROVE  "crossed" \in gap'[b]
    BY DEF LateTagCrossed
  <2>1. w \in DOMAIN visits /\ visits'[w] = visits[w]
    BY <1>4, <1>5
  <2>2. b \in Address /\ "crossed" \in gap[b]
    BY <2>1, <1>1, <1>2, VisitShape DEF CacheInv, LateTagCrossed, Gone
  <2> QED BY <2>2, <1>3
<1>12. KeptInTime' /\ ShownPast'
  BY <1>2, <1>4, <1>5 DEF CacheInv, KeptInTime, ShownPast, Gone
<1> QED BY <1>6, <1>7, <1>8, <1>9, <1>10, <1>11, <1>12 DEF CacheInv

(* Arithmetic of instants. *)
LEMMA Instants ==
  /\ Lifetime \in Nat /\ Lifetime > 0
  /\ \A t, u \in Int : u <= t + Lifetime => t >= u - Lifetime
  /\ \A t, u, x \in Int : t < u /\ x >= u - Lifetime => t - x < Lifetime
BY ResponseCacheAssumption

LEMMA ChangeInv ==
  ASSUME CacheInv, ChangeWhatIsShown
  PROVE  CacheInv'
<1> USE ResponseCacheAssumption
<1>1. CacheTypeOK
  BY DEF CacheInv
<1>2. /\ Len(edits) < MaxEdits /\ edits' = Append(edits, tick)
      /\ UNCHANGED <<tick, shelf, tag, visits, purges, begun, silences, gap>>
  BY DEF ChangeWhatIsShown
<1>3. /\ edits \in Seq(0 .. MaxTicks) /\ tick \in 0 .. MaxTicks
      /\ Len(edits) \in Nat
  BY <1>1 DEF CacheTypeOK
<1>4. /\ edits' \in Seq(0 .. MaxTicks)
      /\ Len(edits') = Len(edits) + 1
      /\ \A i \in 1 .. Len(edits) : edits'[i] = edits[i]
      /\ edits'[Len(edits) + 1] = tick
  BY <1>2, <1>3
<1>5. CacheTypeOK'
  BY <1>1, <1>2, <1>4 DEF CacheTypeOK
<1>6. /\ KeptIsTagged' /\ EmptyingForgets' /\ TagKnown' /\ LateTagCrossed'
  BY <1>2 DEF CacheInv, KeptIsTagged, EmptyingForgets, TagKnown, LateTagCrossed
<1>7. PurgesCounted'
  <2>1. Active' = Active
    BY <1>2 DEF Active
  <2> QED BY <2>1, <1>2 DEF CacheInv, PurgesCounted
<1>8. KeptInTime'
  <2> SUFFICES ASSUME NEW a \in Address, shelf'[a] # Bare
               PROVE  /\ tick' < shelf'[a].until /\ shelf'[a].until <= tick' + Lifetime
                      /\ shelf'[a].shows <= Len(edits')
                      /\ ~shelf'[a].late =>
                           \A i \in (shelf'[a].shows + 1) .. Len(edits') :
                              edits'[i] >= shelf'[a].until - Lifetime
    BY DEF KeptInTime
  <2>1. /\ tick < shelf[a].until /\ shelf[a].until <= tick + Lifetime
        /\ shelf[a].shows <= Len(edits)
        /\ ~shelf[a].late => \A i \in (shelf[a].shows + 1) .. Len(edits) :
                               edits[i] >= shelf[a].until - Lifetime
    BY <1>2 DEF CacheInv, KeptInTime
  <2>2. shelf[a].shows \in Nat /\ shelf[a].until \in Nat
    BY <1>1, <1>2 DEF CacheTypeOK, CacheEntry, Bare
  <2>3. ASSUME ~shelf[a].late, NEW i \in (shelf[a].shows + 1) .. (Len(edits) + 1)
        PROVE  edits'[i] >= shelf[a].until - Lifetime
    <3>1. CASE i = Len(edits) + 1
      <4>1. edits'[i] = tick /\ tick \in Int /\ shelf[a].until \in Int
        BY <3>1, <2>2, <1>3, <1>4
      <4> QED BY <4>1, <2>1, Instants
    <3>2. CASE i # Len(edits) + 1
      <4>1. i \in (shelf[a].shows + 1) .. Len(edits) /\ i \in 1 .. Len(edits)
        <5>1. Len(edits) \in Nat /\ shelf[a].shows \in Nat
          BY <2>2, <1>3
        <5>2. \A n, k \in Nat : \A j \in (k + 1) .. (n + 1) :
                j # n + 1 => j \in (k + 1) .. n /\ j \in 1 .. n
          OBVIOUS
        <5> QED BY <5>1, <5>2, <3>2
      <4> QED BY <4>1, <2>1, <2>3, <1>4
    <3> QED BY <3>1, <3>2
  <2>4. Len(edits') = Len(edits) + 1 /\ shelf'[a] = shelf[a] /\ tick' = tick
    BY <1>2, <1>4
  <2>5. shelf[a].shows <= Len(edits) + 1
    BY <2>1, <2>2, <1>3
  <2> QED BY <2>1, <2>3, <2>4, <2>5
<1>9. ShownPast'
  <2>1. \A v \in DOMAIN visits : visits[v] # Gone => visits[v].shows <= Len(edits) + 1
    BY <1>1, <1>3, VisitShape DEF CacheInv, ShownPast
  <2>2. ASSUME NEW i \in 1 .. Len(edits) + 1
        PROVE  edits'[i] <= tick
    <3>1. CASE i = Len(edits) + 1
      <4>1. edits'[i] = tick
        BY <3>1, <1>4
      <4>2. tick \in Int
        BY <1>1, CacheNumbers
      <4> QED BY <4>1, <4>2
    <3>2. CASE i # Len(edits) + 1
      <4>1. i \in 1 .. Len(edits)
        <5>1. \A n \in Nat : \A j \in 1 .. n + 1 : j # n + 1 => j \in 1 .. n
          OBVIOUS
        <5> QED BY <5>1, <3>2, <1>3
      <4> QED BY <4>1, <1>4 DEF CacheInv, ShownPast
    <3> QED BY <3>1, <3>2
  <2> QED BY <2>1, <2>2, <1>2, <1>4 DEF ShownPast
<1> QED BY <1>5, <1>6, <1>7, <1>8, <1>9 DEF CacheInv

LEMMA TickInv ==
  ASSUME CacheInv, Tick
  PROVE  CacheInv'
<1> USE ResponseCacheAssumption
<1>1. CacheTypeOK
  BY DEF CacheInv
<1>2. /\ tick < MaxTicks /\ tick' = tick + 1
      /\ UNCHANGED <<edits, tag, visits, purges, begun, silences, gap>>
  BY DEF Tick
<1>3. /\ shelf' \in [Address -> CacheEntry \union {Bare}]
      /\ \A a \in Address : shelf'[a] # Bare =>
           shelf'[a] = shelf[a] /\ ~(shelf[a].until <= tick')
  BY <1>1 DEF Tick, CacheTypeOK
<1>4. CacheTypeOK'
  BY <1>1, <1>2, <1>3 DEF CacheTypeOK
<1>5. PurgesCounted'
  <2>1. Active' = Active
    BY <1>2 DEF Active
  <2> QED BY <2>1, <1>2 DEF CacheInv, PurgesCounted
<1>6. KeptIsTagged' /\ EmptyingForgets' /\ TagKnown'
  BY <1>2, <1>3 DEF CacheInv, KeptIsTagged, EmptyingForgets, TagKnown
<1>7. LateTagCrossed'
  <2> SUFFICES ASSUME NEW w \in DOMAIN visits, visits[w].at = "set",
                      NEW b, b = visits[w].address,
                      shelf'[b] # Bare, shelf'[b].purges < purges
               PROVE  "crossed" \in gap[b]
    BY <1>2 DEF LateTagCrossed
  <2>1. b \in Address
    BY <1>1, VisitShape DEF Gone
  <2> QED BY <2>1, <1>3 DEF CacheInv, LateTagCrossed
<1>8. KeptInTime'
  <2> SUFFICES ASSUME NEW a \in Address, shelf'[a] # Bare
               PROVE  /\ tick' < shelf'[a].until /\ shelf'[a].until <= tick' + Lifetime
                      /\ shelf'[a].shows <= Len(edits')
                      /\ ~shelf'[a].late =>
                           \A i \in (shelf'[a].shows + 1) .. Len(edits') :
                              edits'[i] >= shelf'[a].until - Lifetime
    BY DEF KeptInTime
  <2>1. shelf[a] = shelf'[a] /\ shelf[a] # Bare /\ ~(shelf[a].until <= tick + 1)
    BY <1>2, <1>3
  <2>2. /\ shelf[a].until \in Nat /\ tick \in Nat /\ Lifetime \in Nat
    BY <2>1, <1>1, EntryNumbers, CacheNumbers
  <2>3. /\ shelf[a].until <= tick + Lifetime /\ shelf[a].shows <= Len(edits)
        /\ ~shelf[a].late => \A i \in (shelf[a].shows + 1) .. Len(edits) :
                               edits[i] >= shelf[a].until - Lifetime
    BY <2>1 DEF CacheInv, KeptInTime
  <2>4. tick + 1 < shelf[a].until /\ shelf[a].until <= tick + 1 + Lifetime
    BY <2>1, <2>2, <2>3
  <2> QED BY <2>1, <2>3, <2>4, <1>2
<1>9. ShownPast'
  <2>1. \A i \in 1 .. Len(edits) : edits[i] <= tick + 1
    <3> SUFFICES ASSUME NEW i \in 1 .. Len(edits) PROVE edits[i] <= tick + 1
      OBVIOUS
    <3>1. edits[i] <= tick
      BY DEF CacheInv, ShownPast
    <3>2. edits[i] \in Nat /\ tick \in Nat
      BY <1>1, CacheNumbers
    <3> QED BY <3>1, <3>2
  <2>2. \A v \in DOMAIN visits : visits[v] # Gone => visits[v].shows <= Len(edits)
    BY DEF CacheInv, ShownPast
  <2> QED BY <2>1, <2>2, <1>2 DEF ShownPast
<1> QED BY <1>4, <1>5, <1>6, <1>7, <1>8, <1>9 DEF CacheInv

---------------------------------------------------------------------------
LEMMA CacheNextInv == CacheInv /\ [CacheNext]_cacheVars => CacheInv'
<1> SUFFICES ASSUME CacheInv, [CacheNext]_cacheVars PROVE CacheInv'
  OBVIOUS
<1>1. CASE UNCHANGED cacheVars
  <2>1. Active' = Active
    BY <1>1 DEF cacheVars, Active
  <2> QED BY <2>1, <1>1 DEF cacheVars, CacheInv, CacheTypeOK, KeptIsTagged, EmptyingForgets,
         TagKnown, LateTagCrossed, KeptInTime, ShownPast, PurgesCounted
<1>2. CASE CacheNext
  BY <1>2, ComesInv, QuietSteps, KeepAnswerInv, TagKeyInv, EmptyTagInv, SilenceInv,
     ChangeInv, TickInv DEF CacheNext
<1> QED BY <1>1, <1>2

(* The first change an answer does not show came while it was kept, and it  *)
(* is kept for less than a lifetime more. *)
LEMMA CacheInvSound == CacheInv => CacheSound
<1> SUFFICES ASSUME CacheInv, NEW a \in Address, shelf[a] # Bare,
                    shelf[a].shows < Len(edits), ~shelf[a].late
             PROVE  tick - edits[shelf[a].shows + 1] < Lifetime
  BY DEF CacheInv, CacheSound, StaleForALifetime
<1> USE ResponseCacheAssumption
<1>1. /\ shelf[a].shows \in Nat /\ shelf[a].until \in Nat /\ tick \in Nat
      /\ Len(edits) \in Nat /\ \A i \in 1 .. Len(edits) : edits[i] \in Nat
  BY EntryNumbers, CacheNumbers DEF CacheInv
<1>2. shelf[a].shows + 1 \in (shelf[a].shows + 1) .. Len(edits)
      /\ edits[shelf[a].shows + 1] \in Int
  <2>1. \A n, k \in Nat : k < n => k + 1 \in (k + 1) .. n /\ k + 1 \in 1 .. n
    OBVIOUS
  <2>2. shelf[a].shows + 1 \in (shelf[a].shows + 1) .. Len(edits)
        /\ shelf[a].shows + 1 \in 1 .. Len(edits)
    BY <2>1, <1>1
  <2>3. edits[shelf[a].shows + 1] \in Nat
    BY <2>2, <1>1
  <2> QED BY <2>2, <2>3
<1>3. /\ tick < shelf[a].until
      /\ edits[shelf[a].shows + 1] >= shelf[a].until - Lifetime
  BY <1>2 DEF CacheInv, KeptInTime
<1>4. tick \in Int /\ shelf[a].until \in Int
  BY <1>1
<1> QED BY <1>2, <1>3, <1>4, Instants

(* The cache of strangers' answers forgets what it should, when it should,  *)
(* but for the cases named - for any addresses and lifetime, however many    *)
(* requests overlap and whatever Redis fails (cache.py 82-116).               *)
THEOREM ResponseCacheSound == CacheSpec => []CacheSound
<1>1. CacheInit => CacheInv
  BY CacheInitInv
<1>2. CacheInv /\ [CacheNext]_cacheVars => CacheInv'
  BY CacheNextInv
<1>3. CacheInv => CacheSound
  BY CacheInvSound
<1> QED BY <1>1, <1>2, <1>3, PTL DEF CacheSpec

=============================================================================
