----------------------------- MODULE PlaceOrder -----------------------------
(***************************************************************************)
(* POST /orders: placing an order under an idempotency key, redeeming a    *)
(* promo code.  An attempt is one HTTP request.  Its work spans two        *)
(* transactions: the first writes the order, its items, the use of the     *)
(* promo, the OrderPlaced outbox row and an idempotency row without a      *)
(* response; the second stores the response in that row.  A client that    *)
(* got no answer sends its request again with the same key.                *)
(*                                                                         *)
(* Abstracted: items, prices, working hours and load, which decide only    *)
(* whether the order is refused; the text of the response, of which the    *)
(* order it names is kept.                                                 *)
(***************************************************************************)
EXTENDS Promos, Sequences

CONSTANTS
  User, Key,
  NoKey,          \* the Idempotency-Key header is absent
  Basket,         \* contents of an order, apart from its promo code
  NoCode,         \* the order names no promo code
  NoRow,          \* no committed row of idempotency_keys
  MaxAttempts     \* bound: attempts begun in a behaviour

ASSUME PlaceOrderAssumption ==
  /\ NoKey \notin Key
  /\ NoCode \notin Code
  /\ NoRow \notin [payload : [basket : Basket, code : Code \cup {NoCode}], response : Nat]
  /\ MaxAttempts \in Nat

VARIABLES
  orders,         \* orders, in commit order; the position is the id
  outbox,         \* OrderPlaced rows of outbox_events: ids of orders
  idem,           \* committed rows of idempotency_keys
  key_lock,       \* attempt whose insert of that row is not yet committed
  att,            \* attempt in each slot
  begun,          \* attempts begun so far
  answers         \* 201 answers sent, original and replayed

vars == <<promo_vars, orders, outbox, idem, key_lock, att, begun, answers>>

-----------------------------------------------------------------------------
Payload == [basket : Basket, code : Code \cup {NoCode}]

(* key is the header of the attempt that placed the order: no column       *)
(* holds it, no action reads it.                                           *)
PlacedOrder == [user : User, key : Key \cup {NoKey}, payload : Payload, cancelled : BOOLEAN]

(* response: the order named by response_json; 0 while it is NULL.  The    *)
(* code compares hashes of payloads, which differ when the payloads do.    *)
Row == [payload : Payload, response : Nat]

Answer == [user : User, key : Key \cup {NoKey}, payload : Payload, order : Nat]

Stage == {"lookup", "insert", "check", "promo", "increment", "commit", "store", "publish"}
Idle == [stage |-> "idle"]
InFlight == [stage : Stage, user : User, key : Key \cup {NoKey}, payload : Payload,
             first : BOOLEAN, order : Nat]

TypeOK ==
  /\ PromosTypeOK
  /\ orders \in Seq(PlacedOrder)
  /\ outbox \in Seq(Nat)
  /\ idem \in [User \X Key -> Row \cup {NoRow}]
  /\ key_lock \in [User \X Key -> Attempt \cup {NoAttempt}]
  /\ att \in [Attempt -> InFlight \cup {Idle}]
  /\ begun \in Nat
  /\ answers \subseteq Answer

Init ==
  /\ PromosInit
  /\ orders = <<>>
  /\ outbox = <<>>
  /\ idem = [uk \in User \X Key |-> NoRow]
  /\ key_lock = [uk \in User \X Key |-> NoAttempt]
  /\ att = [a \in Attempt |-> Idle]
  /\ begun = 0
  /\ answers = {}

-----------------------------------------------------------------------------
Slot(a) == <<att[a].user, att[a].key>>
Keyed(a) == att[a].key # NoKey
Redeems(a) == att[a].payload.code # NoCode

Goto(a, s) == att' = [att EXCEPT ![a].stage = s]
Finish(a) == att' = [att EXCEPT ![a] = Idle]

Tables == <<orders, outbox, idem>>

(* Any request, the repetition of an earlier one among them.               *)
Begin(a) ==
  /\ att[a] = Idle
  /\ begun < MaxAttempts
  /\ begun' = begun + 1
  /\ \E u \in User, k \in Key \cup {NoKey}, p \in Payload :
       att' = [att EXCEPT ![a] = [stage |-> "lookup", user |-> u, key |-> k, payload |-> p,
                                  first |-> FALSE, order |-> 0]]
  /\ UNCHANGED <<promo_vars, Tables, key_lock, answers>>

Mistake_Replayable(a, row) == row.response # 0

(* A row answers the attempt when it is for the same payload and has a     *)
(* response.                                                               *)
Replayable(a, row) == row.payload = att[a].payload /\ row.response # 0

(* SELECT of the row of this user and key: it is replayed, or refuses the  *)
(* attempt (another payload, or "still being processed").                  *)
Lookup(a) ==
  /\ att[a].stage = "lookup"
  /\ \/ /\ ~Keyed(a)
        /\ Goto(a, "check")
        /\ UNCHANGED answers
     \/ /\ Keyed(a) /\ idem[Slot(a)] = NoRow
        /\ Goto(a, "insert")
        /\ UNCHANGED answers
     \/ /\ Keyed(a) /\ idem[Slot(a)] # NoRow
        /\ Finish(a)
        /\ answers' = IF Replayable(a, idem[Slot(a)])
                      THEN answers \cup {[user |-> att[a].user, key |-> att[a].key,
                                          payload |-> att[a].payload,
                                          order |-> idem[Slot(a)].response]}
                      ELSE answers
  /\ UNCHANGED <<promo_vars, Tables, key_lock, begun>>

Mistake_InsertRow(a) == Goto(a, "check") /\ UNCHANGED key_lock

(* The flush of the new row meets the unique index: it waits for another   *)
(* insert of the key to commit or roll back, and fails if it committed.    *)
InsertRow(a) ==
  /\ key_lock[Slot(a)] = NoAttempt
  /\ \/ /\ idem[Slot(a)] = NoRow
        /\ key_lock' = [key_lock EXCEPT ![Slot(a)] = a]
        /\ Goto(a, "check")
     \/ /\ idem[Slot(a)] # NoRow
        /\ Finish(a)
        /\ UNCHANGED key_lock

Insert(a) ==
  /\ att[a].stage = "insert"
  /\ InsertRow(a)
  /\ UNCHANGED <<promo_vars, Tables, begun, answers>>

(* Orders of the user that count when a first order is asked for.          *)
IsFirst(u) == \A i \in DOMAIN orders : orders[i].user = u => orders[i].cancelled

(* The order passes validation (a refusal is Abort), the user's orders are *)
(* counted, the order and its items are flushed.                           *)
Check(a) ==
  /\ att[a].stage = "check"
  /\ att' = [att EXCEPT ![a] = [@ EXCEPT !.first = IsFirst(att[a].user),
                                         !.stage = IF Redeems(a) THEN "promo" ELSE "commit"]]
  /\ UNCHANGED <<promo_vars, Tables, key_lock, begun, answers>>

(* Commit and rollback free the index entry and the promo row.             *)
Unlock(a) ==
  /\ key_lock' = [uk \in User \X Key |-> IF key_lock[uk] = a THEN NoAttempt ELSE key_lock[uk]]
  /\ UnlockPromos(a)

(* apply_promo reads the code and validates it, ...                        *)
ReadPromo(a) ==
  /\ att[a].stage = "promo"
  /\ Redeemable(att[a].payload.code, att[a].first)
  /\ Goto(a, "increment")
  /\ UNCHANGED <<promo_vars, Tables, key_lock, begun, answers>>

(* ... and later counts the use, waiting for the row.                      *)
IncrementUse(a) ==
  /\ att[a].stage = "increment"
  /\ promo_lock[att[a].payload.code] = NoAttempt
  /\ IncrementMatches(att[a].payload.code)
  /\ LockPromo(a, att[a].payload.code)
  /\ Goto(a, "commit")
  /\ UNCHANGED <<promo, Tables, key_lock, begun, answers>>

(* The exception rolls everything back: the code is not redeemable, or its *)
(* last use went to another order.                                         *)
RefusePromo(a) ==
  /\ \/ att[a].stage = "promo" /\ ~Redeemable(att[a].payload.code, att[a].first)
     \/ /\ att[a].stage = "increment"
        /\ promo_lock[att[a].payload.code] = NoAttempt
        /\ ~IncrementMatches(att[a].payload.code)
  /\ Unlock(a)
  /\ Finish(a)
  /\ UNCHANGED <<promo, Tables, begun, answers>>

NewOrder(a) == [user |-> att[a].user, key |-> att[a].key, payload |-> att[a].payload,
                cancelled |-> FALSE]

Mistake_Announce(a) == outbox' = IF Keyed(a) THEN outbox ELSE Append(outbox, Len(orders) + 1)

(* enqueue_event(OrderPlacedEvent) in the same transaction.                *)
Announce(a) == outbox' = Append(outbox, Len(orders) + 1)

WriteRow(a) ==
  idem' = IF Keyed(a)
          THEN [idem EXCEPT ![Slot(a)] = [payload |-> att[a].payload, response |-> 0]]
          ELSE idem

(* The first session.commit(): order, use, outbox row and key together.    *)
Commit(a) ==
  /\ att[a].stage = "commit"
  /\ orders' = Append(orders, NewOrder(a))
  /\ CountUse({att[a].payload.code})
  /\ Announce(a)
  /\ WriteRow(a)
  /\ Unlock(a)
  /\ att' = [att EXCEPT ![a] = [@ EXCEPT !.order = Len(orders) + 1,
                                         !.stage = IF Keyed(a) THEN "store" ELSE "publish"]]
  /\ UNCHANGED <<begun, answers>>

(* The second session.commit(): the response becomes replayable.           *)
StoreResponse(a) ==
  /\ att[a].stage = "store"
  /\ idem' = [idem EXCEPT ![Slot(a)].response = att[a].order]
  /\ Goto(a, "publish")
  /\ UNCHANGED <<promo_vars, orders, outbox, key_lock, begun, answers>>

(* "new_order" is published to the restaurant; the client has its answer.  *)
Respond(a) ==
  /\ att[a].stage = "publish"
  /\ Finish(a)
  /\ answers' = answers \cup {[user |-> att[a].user, key |-> att[a].key,
                               payload |-> att[a].payload, order |-> att[a].order]}
  /\ UNCHANGED <<promo_vars, Tables, key_lock, begun>>

(* The connection goes back to the pool with its transaction open.         *)
Mistake_Abort(a) ==
  /\ att[a] # Idle
  /\ Finish(a)
  /\ UNCHANGED <<promo_vars, Tables, key_lock, begun, answers>>

(* Anything that ends the attempt early: an exception of the validation, a *)
(* database or Redis error, the death of the process.  The open            *)
(* transaction is rolled back, the committed one stays.                    *)
Abort(a) ==
  /\ att[a] # Idle
  /\ Unlock(a)
  /\ Finish(a)
  /\ UNCHANGED <<promo, Tables, begun, answers>>

(* An order is cancelled (Orders.tla); its use of a promo is not returned. *)
CancelPlaced(i) ==
  /\ ~orders[i].cancelled
  /\ orders' = [orders EXCEPT ![i].cancelled = TRUE]
  /\ UNCHANGED <<promo_vars, outbox, idem, key_lock, att, begun, answers>>

Vendor(c) ==
  /\ CreatePromo(c) \/ DeactivatePromo(c)
  /\ UNCHANGED <<Tables, key_lock, att, begun, answers>>

Step(a) ==
  \/ Lookup(a) \/ Insert(a) \/ Check(a)
  \/ ReadPromo(a) \/ IncrementUse(a) \/ RefusePromo(a)
  \/ Commit(a) \/ StoreResponse(a) \/ Respond(a)

Next ==
  \/ \E a \in Attempt : Begin(a) \/ Step(a) \/ Abort(a)
  \/ \E i \in DOMAIN orders : CancelPlaced(i)
  \/ \E c \in Code : Vendor(c)

(* An attempt that can run runs; PostgreSQL serves the waiters of a row or *)
(* of an index entry in order.                                             *)
Fairness ==
  \A a \in Attempt : WF_vars(Step(a)) /\ SF_vars(Insert(a))
                     /\ SF_vars(IncrementUse(a) \/ RefusePromo(a))

Spec == Init /\ [][Next]_vars /\ Fairness
=============================================================================
