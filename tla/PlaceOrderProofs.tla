-------------------------- MODULE PlaceOrderProofs --------------------------
(***************************************************************************)
(* Proofs about placing orders, for any users, keys, baskets, codes,       *)
(* attempts and bounds.                                                    *)
(***************************************************************************)
EXTENDS PlaceOrderProps, FiniteSetTheorems, TLAPS

LEMMA AttemptWhen ==
  ASSUME TypeOK, NEW a \in Attempt, att[a] # Idle
  PROVE  /\ att[a] \in InFlight
         /\ att[a].stage \in Stage
         /\ att[a].user \in User
         /\ att[a].key \in Key \cup {NoKey}
         /\ att[a].payload \in Payload
         /\ att[a].payload.code \in Code \cup {NoCode}
         /\ att[a].first \in BOOLEAN
         /\ att[a].order \in Nat
<1>1. att[a] \in InFlight
  BY DEF TypeOK
<1> QED BY <1>1 DEF InFlight, Payload

LEMMA StageNotIdle ==
  ASSUME NEW a \in Attempt, att[a].stage \in Stage
  PROVE  att[a] # Idle
  BY DEF Idle, Stage

LEMMA SlotIn ==
  ASSUME TypeOK, NEW a \in Attempt, att[a] # Idle, Keyed(a)
  PROVE  Slot(a) \in User \X Key
  BY AttemptWhen DEF Slot, Keyed

(* What the three ways of moving an attempt on leave as it was.            *)
LEMMA GotoEffect ==
  ASSUME TypeOK, NEW a \in Attempt, att[a] # Idle, NEW s \in Stage, Goto(a, s)
  PROVE  /\ att' \in [Attempt -> InFlight \cup {Idle}]
         /\ att'[a].stage = s
         /\ att'[a].user = att[a].user
         /\ att'[a].key = att[a].key
         /\ att'[a].payload = att[a].payload
         /\ att'[a].order = att[a].order
         /\ \A b \in Attempt \ {a} : att'[b] = att[b]
<1> DEFINE q == [att[a] EXCEPT !.stage = s]
<1>1. q \in InFlight
  BY AttemptWhen DEF InFlight
<1>2. /\ q.stage = s /\ q.user = att[a].user /\ q.key = att[a].key
      /\ q.payload = att[a].payload /\ q.order = att[a].order
  BY AttemptWhen DEF InFlight
<1>3. att \in [Attempt -> InFlight \cup {Idle}] /\ att' = [att EXCEPT ![a] = q]
  BY DEF TypeOK, Goto
<1> HIDE DEF q
<1> QED BY <1>1, <1>2, <1>3

LEMMA FinishEffect ==
  ASSUME TypeOK, NEW a \in Attempt, Finish(a)
  PROVE  /\ att' \in [Attempt -> InFlight \cup {Idle}]
         /\ att'[a] = Idle
         /\ att'[a].stage = "idle"
         /\ \A b \in Attempt \ {a} : att'[b] = att[b]
  BY DEF TypeOK, Finish, Idle

LEMMA CheckEffect ==
  ASSUME TypeOK, NEW a \in Attempt, Check(a)
  PROVE  /\ att' \in [Attempt -> InFlight \cup {Idle}]
         /\ att'[a].stage = IF Redeems(a) THEN "promo" ELSE "commit"
         /\ att'[a].user = att[a].user
         /\ att'[a].key = att[a].key
         /\ att'[a].payload = att[a].payload
         /\ \A b \in Attempt \ {a} : att'[b] = att[b]
<1> DEFINE s == IF Redeems(a) THEN "promo" ELSE "commit"
           f == IsFirst(att[a].user)
           q == [att[a] EXCEPT !.first = f, !.stage = s]
<1>1. att[a] # Idle
  BY StageNotIdle DEF Check, Stage
<1>2. s \in Stage
  BY DEF Stage
<1>3. f \in BOOLEAN
  BY DEF IsFirst
<1>4. att \in [Attempt -> InFlight \cup {Idle}] /\ att' = [att EXCEPT ![a] = q]
  BY DEF TypeOK, Check
<1> HIDE DEF s, f
<1>5. q \in InFlight
  BY <1>1, <1>2, <1>3, AttemptWhen DEF InFlight
<1>6. /\ q.stage = s /\ q.user = att[a].user /\ q.key = att[a].key
      /\ q.payload = att[a].payload
  BY <1>1, AttemptWhen DEF InFlight
<1> HIDE DEF q
<1> QED BY <1>4, <1>5, <1>6 DEF s

LEMMA CommitEffect ==
  ASSUME TypeOK, NEW a \in Attempt, Commit(a)
  PROVE  /\ att' \in [Attempt -> InFlight \cup {Idle}]
         /\ att'[a].stage = IF Keyed(a) THEN "store" ELSE "publish"
         /\ att'[a].user = att[a].user
         /\ att'[a].key = att[a].key
         /\ att'[a].payload = att[a].payload
         /\ att'[a].order = Len(orders) + 1
         /\ \A b \in Attempt \ {a} : att'[b] = att[b]
<1> DEFINE s == IF Keyed(a) THEN "store" ELSE "publish"
           n == Len(orders) + 1
           q == [att[a] EXCEPT !.order = n, !.stage = s]
<1>1. att[a] # Idle
  BY StageNotIdle DEF Commit, Stage
<1>2. s \in Stage
  BY DEF Stage
<1>3. n \in Nat
  BY DEF TypeOK
<1>4. att \in [Attempt -> InFlight \cup {Idle}] /\ att' = [att EXCEPT ![a] = q]
  BY DEF TypeOK, Commit
<1> HIDE DEF s, n
<1>5. q \in InFlight
  BY <1>1, <1>2, <1>3, AttemptWhen DEF InFlight
<1>6. /\ q.stage = s /\ q.user = att[a].user /\ q.key = att[a].key
      /\ q.payload = att[a].payload /\ q.order = n
  BY <1>1, AttemptWhen DEF InFlight
<1> HIDE DEF q
<1> QED BY <1>4, <1>5, <1>6 DEF s, n

LEMMA UnlockEffect ==
  ASSUME TypeOK, NEW a \in Attempt, Unlock(a)
  PROVE  /\ key_lock' \in [User \X Key -> Attempt \cup {NoAttempt}]
         /\ promo_lock' \in [Code -> Attempt \cup {NoAttempt}]
         /\ \A uk \in User \X Key : key_lock[uk] # a => key_lock'[uk] = key_lock[uk]
         /\ \A c \in Code : promo_lock[c] # a => promo_lock'[c] = promo_lock[c]
  BY DEF TypeOK, PromosTypeOK, Unlock, UnlockPromos

-----------------------------------------------------------------------------
(* An order keeps its user, key and payload, and its id.                   *)
SameOrder(i) == /\ orders'[i].user = orders[i].user
                /\ orders'[i].key = orders[i].key
                /\ orders'[i].payload = orders[i].payload

SameOrders == DOMAIN orders' = DOMAIN orders /\ \A i \in DOMAIN orders : SameOrder(i)

LEMMA OrderIn ==
  ASSUME TypeOK
  PROVE  /\ Len(orders) \in Nat
         /\ DOMAIN orders = 1..Len(orders)
         /\ \A i \in DOMAIN orders : orders[i] \in PlacedOrder
  BY DEF TypeOK

LEMMA CommitOrders ==
  ASSUME TypeOK, NEW a \in Attempt, Commit(a)
  PROVE  /\ orders' \in Seq(PlacedOrder)
         /\ DOMAIN orders' = 1..(Len(orders) + 1)
         /\ \A i \in DOMAIN orders : SameOrder(i) /\ orders'[i] = orders[i]
         /\ orders'[Len(orders) + 1].user = att[a].user
         /\ orders'[Len(orders) + 1].key = att[a].key
         /\ orders'[Len(orders) + 1].payload = att[a].payload
<1>1. att[a] # Idle
  BY StageNotIdle DEF Commit, Stage
<1>2. NewOrder(a) \in PlacedOrder
  BY <1>1, AttemptWhen DEF NewOrder, PlacedOrder
<1>3. /\ orders' = Append(orders, NewOrder(a)) /\ orders \in Seq(PlacedOrder)
  BY DEF Commit, TypeOK
<1>4. /\ orders' \in Seq(PlacedOrder)
      /\ DOMAIN orders' = 1..(Len(orders) + 1)
      /\ \A i \in DOMAIN orders : orders'[i] = orders[i]
      /\ orders'[Len(orders) + 1] = NewOrder(a)
  BY <1>2, <1>3
<1> QED BY <1>4 DEF SameOrder, NewOrder

LEMMA CancelOrders ==
  ASSUME TypeOK, NEW i \in DOMAIN orders, CancelPlaced(i)
  PROVE  orders' \in Seq(PlacedOrder) /\ SameOrders
<1> DEFINE q == [orders[i] EXCEPT !.cancelled = TRUE]
<1>1. orders[i] \in PlacedOrder
  BY OrderIn
<1>2. /\ q \in PlacedOrder /\ q.user = orders[i].user /\ q.key = orders[i].key
      /\ q.payload = orders[i].payload
  BY <1>1 DEF PlacedOrder
<1>3. orders' = [orders EXCEPT ![i] = q] /\ orders \in Seq(PlacedOrder)
  BY DEF CancelPlaced, TypeOK
<1> HIDE DEF q
<1> QED BY <1>2, <1>3 DEF SameOrders, SameOrder

-----------------------------------------------------------------------------
LEMMA TypeInit == Init => TypeOK
  BY DEF Init, PromosInit, TypeOK, PromosTypeOK, Promo, NoPromo

LEMMA PromoStep ==
  ASSUME TypeOK, NEW c \in Code, Vendor(c)
  PROVE  PromosTypeOK'
<1>1. CASE CreatePromo(c)
  <2>1. PICK l \in Limit, b \in BOOLEAN :
          promo' = [promo EXCEPT ![c] = [exists |-> TRUE, active |-> TRUE, used |-> 0,
                                         max |-> l, first_order_only |-> FALSE, asked |-> b]]
    BY <1>1 DEF CreatePromo
  <2> QED BY <1>1, <2>1 DEF CreatePromo, TypeOK, PromosTypeOK, Promo
<1>2. CASE DeactivatePromo(c)
  <2> DEFINE q == [promo[c] EXCEPT !.active = FALSE]
  <2>1. promo \in [Code -> Promo]
    BY DEF TypeOK, PromosTypeOK
  <2>2. q \in Promo
    BY <2>1 DEF Promo
  <2>3. promo' = [promo EXCEPT ![c] = q] /\ UNCHANGED promo_lock
    BY <1>2 DEF DeactivatePromo
  <2> HIDE DEF q
  <2>4. promo' \in [Code -> Promo]
    BY <2>1, <2>2, <2>3
  <2> QED BY <2>3, <2>4 DEF TypeOK, PromosTypeOK
<1> QED BY <1>1, <1>2 DEF Vendor

LEMMA CountUseEffect ==
  ASSUME PromosTypeOK, NEW S, CountUse(S)
  PROVE  /\ promo' \in [Code -> Promo]
         /\ \A c \in Code :
              /\ promo'[c].used = IF c \in S THEN promo[c].used + 1 ELSE promo[c].used
              /\ promo'[c].max = promo[c].max
              /\ promo'[c].exists = promo[c].exists
<1>1. \A c \in Code : promo[c] \in Promo
  BY DEF PromosTypeOK
<1>2. \A c \in Code : promo'[c] = IF c \in S THEN [promo[c] EXCEPT !.used = @ + 1]
                                  ELSE promo[c]
  BY DEF CountUse
<1>3. ASSUME NEW c \in Code
      PROVE  promo'[c] \in Promo
  <2> DEFINE q == [promo[c] EXCEPT !.used = @ + 1]
  <2>1. q \in Promo
    BY <1>1 DEF Promo
  <2>2. promo'[c] = IF c \in S THEN q ELSE promo[c]
    BY <1>2
  <2> HIDE DEF q
  <2> QED BY <1>1, <2>1, <2>2
<1>4. DOMAIN promo' = Code /\ promo' = [c \in Code |-> promo'[c]]
  BY DEF CountUse
<1>5. promo' \in [Code -> Promo]
  BY <1>3, <1>4
<1> QED BY <1>1, <1>2, <1>5 DEF Promo

(* The second transaction finds the row of the first: without this the     *)
(* type of idem is not inductive.                                          *)
StoreHasRow ==
  \A a \in Attempt : att[a].stage = "store" => Keyed(a) /\ idem[Slot(a)] # NoRow

TypeInv == TypeOK /\ StoreHasRow

LEMMA RowNotNoRow == NoRow \notin Row
  BY PlaceOrderAssumption DEF Row, Payload

LEMMA WriteRowEffect ==
  ASSUME TypeOK, NEW a \in Attempt, att[a] # Idle, WriteRow(a)
  PROVE  /\ idem' \in [User \X Key -> Row \cup {NoRow}]
         /\ Keyed(a) => /\ Slot(a) \in User \X Key
                        /\ idem'[Slot(a)] = [payload |-> att[a].payload, response |-> 0]
                        /\ idem'[Slot(a)] # NoRow
         /\ \A uk \in User \X Key :
              ~(Keyed(a) /\ uk = Slot(a)) => idem'[uk] = idem[uk]
<1> DEFINE q == [payload |-> att[a].payload, response |-> 0]
<1>1. q \in Row
  BY AttemptWhen DEF Row
<1>2. idem \in [User \X Key -> Row \cup {NoRow}]
  BY DEF TypeOK
<1>3. idem' = IF Keyed(a) THEN [idem EXCEPT ![Slot(a)] = q] ELSE idem
  BY DEF WriteRow
<1> HIDE DEF q
<1>4. CASE Keyed(a)
  BY <1>1, <1>2, <1>3, <1>4, SlotIn, RowNotNoRow DEF q
<1>5. CASE ~Keyed(a)
  BY <1>2, <1>3, <1>5
<1> QED BY <1>4, <1>5

LEMMA StoreEffect ==
  ASSUME TypeInv, NEW a \in Attempt, StoreResponse(a)
  PROVE  /\ att[a] # Idle /\ Keyed(a) /\ Slot(a) \in User \X Key
         /\ idem[Slot(a)] \in Row
         /\ idem' \in [User \X Key -> Row \cup {NoRow}]
         /\ idem'[Slot(a)] # NoRow
         /\ idem'[Slot(a)].payload = idem[Slot(a)].payload
         /\ idem'[Slot(a)].response = att[a].order
         /\ \A uk \in User \X Key : uk # Slot(a) => idem'[uk] = idem[uk]
<1>1. att[a] # Idle /\ Keyed(a) /\ idem[Slot(a)] # NoRow
  BY StageNotIdle DEF StoreResponse, Stage, TypeInv, StoreHasRow
<1>2. /\ Slot(a) \in User \X Key /\ att[a].order \in Nat
      /\ idem \in [User \X Key -> Row \cup {NoRow}]
  BY <1>1, SlotIn, AttemptWhen DEF TypeInv, TypeOK
<1>3. idem[Slot(a)] \in Row
  BY <1>1, <1>2
<1> DEFINE q == [idem[Slot(a)] EXCEPT !.response = att[a].order]
<1>4. q \in Row /\ q.payload = idem[Slot(a)].payload /\ q.response = att[a].order
  BY <1>2, <1>3 DEF Row
<1>5. idem' = [idem EXCEPT ![Slot(a)] = q]
  BY DEF StoreResponse
<1> HIDE DEF q
<1> QED BY <1>1, <1>2, <1>3, <1>4, <1>5, RowNotNoRow

(* One step per action; a step of the proof of TypeInv says which of the   *)
(* tables the action leaves alone and what becomes of the others.          *)
LEMMA TypeStep == TypeInv /\ [Next]_vars => TypeOK'
<1> SUFFICES ASSUME TypeInv, [Next]_vars
             PROVE  TypeOK'
  OBVIOUS
<1>0. TypeOK /\ PromosTypeOK
  BY DEF TypeInv, TypeOK
<1>1. ASSUME NEW a \in Attempt, Begin(a)
      PROVE  TypeOK'
  <2>1. PICK u \in User, k \in Key \cup {NoKey}, p \in Payload :
          att' = [att EXCEPT ![a] = [stage |-> "lookup", user |-> u, key |-> k, payload |-> p,
                                     first |-> FALSE, order |-> 0]]
    BY <1>1 DEF Begin
  <2>2. att' \in [Attempt -> InFlight \cup {Idle}]
    BY <1>0, <2>1 DEF TypeOK, InFlight, Stage
  <2>3. UNCHANGED <<promo_vars, Tables, key_lock, answers>> /\ begun' = begun + 1
    BY <1>1 DEF Begin
  <2> QED BY <1>0, <2>2, <2>3 DEF TypeOK, PromosTypeOK, promo_vars, Tables
<1>2. ASSUME NEW a \in Attempt, Lookup(a)
      PROVE  TypeOK'
  <2>1. att[a] # Idle
    BY <1>2, StageNotIdle DEF Lookup, Stage
  <2>2. UNCHANGED <<promo_vars, Tables, key_lock, begun>>
    BY <1>2 DEF Lookup
  <2>3. att' \in [Attempt -> InFlight \cup {Idle}]
    BY <1>0, <1>2, <2>1, GotoEffect, FinishEffect DEF Lookup, Stage
  <2>4. answers' \subseteq Answer
    <3>1. CASE UNCHANGED answers
      BY <1>0, <3>1 DEF TypeOK
    <3>2. CASE /\ Keyed(a) /\ idem[Slot(a)] # NoRow
               /\ answers' = answers \cup {[user |-> att[a].user, key |-> att[a].key,
                                            payload |-> att[a].payload,
                                            order |-> idem[Slot(a)].response]}
      <4>1. idem[Slot(a)] \in Row
        BY <1>0, <2>1, <3>2, SlotIn DEF TypeOK
      <4>2. idem[Slot(a)].response \in Nat
        BY <4>1 DEF Row
      <4> QED BY <1>0, <2>1, <3>2, <4>2, AttemptWhen DEF TypeOK, Answer
    <3> QED BY <1>2, <3>1, <3>2 DEF Lookup
  <2> QED BY <1>0, <2>2, <2>3, <2>4 DEF TypeOK, PromosTypeOK, promo_vars, Tables
<1>3. ASSUME NEW a \in Attempt, Insert(a)
      PROVE  TypeOK'
  <2>1. att[a] # Idle
    BY <1>3, StageNotIdle DEF Insert, Stage
  <2>2. UNCHANGED <<promo_vars, Tables, begun, answers>>
    BY <1>3 DEF Insert
  <2>3. /\ att' \in [Attempt -> InFlight \cup {Idle}]
        /\ key_lock' \in [User \X Key -> Attempt \cup {NoAttempt}]
    BY <1>0, <1>3, <2>1, GotoEffect, FinishEffect DEF Insert, InsertRow, Stage, TypeOK
  <2> QED BY <1>0, <2>2, <2>3 DEF TypeOK, PromosTypeOK, promo_vars, Tables
<1>4. ASSUME NEW a \in Attempt, Check(a)
      PROVE  TypeOK'
  <2>1. UNCHANGED <<promo_vars, Tables, key_lock, begun, answers>>
    BY <1>4 DEF Check
  <2>2. att' \in [Attempt -> InFlight \cup {Idle}]
    BY <1>0, <1>4, CheckEffect
  <2> QED BY <1>0, <2>1, <2>2 DEF TypeOK, PromosTypeOK, promo_vars, Tables
<1>5. ASSUME NEW a \in Attempt, ReadPromo(a)
      PROVE  TypeOK'
  <2>1. UNCHANGED <<promo_vars, Tables, key_lock, begun, answers>> /\ att[a] # Idle
    BY <1>5, StageNotIdle DEF ReadPromo, Stage
  <2>2. att' \in [Attempt -> InFlight \cup {Idle}]
    BY <1>0, <1>5, <2>1, GotoEffect DEF ReadPromo, Stage
  <2> QED BY <1>0, <2>1, <2>2 DEF TypeOK, PromosTypeOK, promo_vars, Tables
<1>6. ASSUME NEW a \in Attempt, IncrementUse(a)
      PROVE  TypeOK'
  <2>1. UNCHANGED <<promo, Tables, key_lock, begun, answers>> /\ att[a] # Idle
    BY <1>6, StageNotIdle DEF IncrementUse, Stage
  <2>2. att' \in [Attempt -> InFlight \cup {Idle}]
    BY <1>0, <1>6, <2>1, GotoEffect DEF IncrementUse, Stage
  <2>3. promo_lock' \in [Code -> Attempt \cup {NoAttempt}]
    BY <1>0, <1>6 DEF IncrementUse, LockPromo, PromosTypeOK
  <2> QED BY <1>0, <2>1, <2>2, <2>3 DEF TypeOK, PromosTypeOK, Tables
<1>7. ASSUME NEW a \in Attempt, RefusePromo(a) \/ Abort(a)
      PROVE  TypeOK'
  <2>1. UNCHANGED <<promo, Tables, begun, answers>> /\ Unlock(a) /\ Finish(a)
    BY <1>7 DEF RefusePromo, Abort
  <2> QED BY <1>0, <2>1, UnlockEffect, FinishEffect DEF TypeOK, PromosTypeOK, Tables
<1>8. ASSUME NEW a \in Attempt, Commit(a)
      PROVE  TypeOK'
  <2>1. att[a] # Idle /\ WriteRow(a) /\ Unlock(a) /\ CountUse({att[a].payload.code})
        /\ UNCHANGED <<begun, answers>>
    BY <1>8, StageNotIdle DEF Commit, Stage
  <2>2. outbox' \in Seq(Nat)
    BY <1>0, <1>8, OrderIn DEF Commit, Announce, TypeOK
  <2>3. promo' \in [Code -> Promo]
    BY <1>0, <2>1, CountUseEffect
  <2>4. /\ key_lock' \in [User \X Key -> Attempt \cup {NoAttempt}]
        /\ promo_lock' \in [Code -> Attempt \cup {NoAttempt}]
    BY <1>0, <2>1, UnlockEffect
  <2>5. idem' \in [User \X Key -> Row \cup {NoRow}]
    BY <1>0, <2>1, WriteRowEffect
  <2>6. orders' \in Seq(PlacedOrder) /\ att' \in [Attempt -> InFlight \cup {Idle}]
    BY <1>0, <1>8, CommitOrders, CommitEffect
  <2> QED BY <1>0, <2>1, <2>2, <2>3, <2>4, <2>5, <2>6 DEF TypeOK, PromosTypeOK
<1>9. ASSUME NEW a \in Attempt, StoreResponse(a)
      PROVE  TypeOK'
  <2>1. UNCHANGED <<promo_vars, orders, outbox, key_lock, begun, answers>>
        /\ Goto(a, "publish") /\ att[a] # Idle
    BY <1>9, StoreEffect DEF StoreResponse
  <2>2. att' \in [Attempt -> InFlight \cup {Idle}]
    BY <1>0, <2>1, GotoEffect DEF Stage
  <2>3. idem' \in [User \X Key -> Row \cup {NoRow}]
    BY <1>9, StoreEffect
  <2> QED BY <1>0, <2>1, <2>2, <2>3 DEF TypeOK, PromosTypeOK, promo_vars
<1>10. ASSUME NEW a \in Attempt, Respond(a)
       PROVE  TypeOK'
  <2>1. UNCHANGED <<promo_vars, Tables, key_lock, begun>> /\ Finish(a) /\ att[a] # Idle
    BY <1>10, StageNotIdle DEF Respond, Stage
  <2>2. answers' \subseteq Answer
    BY <1>0, <1>10, <2>1, AttemptWhen DEF Respond, TypeOK, Answer
  <2> QED BY <1>0, <2>1, <2>2, FinishEffect DEF TypeOK, PromosTypeOK, promo_vars, Tables
<1>11. ASSUME NEW i \in DOMAIN orders, CancelPlaced(i)
       PROVE  TypeOK'
  <2>1. UNCHANGED <<promo_vars, outbox, idem, key_lock, att, begun, answers>>
    BY <1>11 DEF CancelPlaced
  <2> QED BY <1>0, <1>11, <2>1, CancelOrders DEF TypeOK, PromosTypeOK, promo_vars
<1>12. ASSUME NEW c \in Code, Vendor(c)
       PROVE  TypeOK'
  <2>1. UNCHANGED <<Tables, key_lock, att, begun, answers>>
    BY <1>12 DEF Vendor
  <2>2. PromosTypeOK'
    BY <1>0, <1>12, PromoStep
  <2> QED BY <1>0, <2>1, <2>2 DEF TypeOK, Tables
<1>13. CASE UNCHANGED vars
  BY <1>0, <1>13 DEF vars, TypeOK, PromosTypeOK, promo_vars
<1> QED BY <1>1, <1>2, <1>3, <1>4, <1>5, <1>6, <1>7, <1>8, <1>9, <1>10, <1>11, <1>12, <1>13
    DEF Next, Step

LEMMA StoreHasRowStep == TypeInv /\ [Next]_vars => StoreHasRow'
<1> SUFFICES ASSUME TypeInv, [Next]_vars, NEW b \in Attempt, att'[b].stage = "store"
             PROVE  Keyed(b)' /\ idem'[Slot(b)'] # NoRow
  BY DEF StoreHasRow
<1>0. TypeOK
  BY DEF TypeInv
<1>1. /\ att'[b].user \in User /\ att'[b].key \in Key \cup {NoKey}
      /\ Keyed(b)' => Slot(b)' \in User \X Key
  <2>1. TypeOK'
    BY TypeStep
  <2>2. att'[b] \in InFlight
    BY <2>1 DEF TypeOK, Idle
  <2> QED BY <2>2 DEF InFlight, Keyed, Slot
<1>2. ASSUME NEW a \in Attempt, Commit(a)
      PROVE  Keyed(b)' /\ idem'[Slot(b)'] # NoRow
  <2>1. att[a] # Idle /\ WriteRow(a)
    BY <1>2, StageNotIdle DEF Commit, Stage
  <2>2. CASE a = b
    <3>1. Keyed(b) /\ Keyed(b)' /\ Slot(b)' = Slot(b)
      BY <1>0, <1>2, <2>2, CommitEffect DEF Keyed, Slot
    <3> QED BY <1>0, <2>1, <2>2, <3>1, WriteRowEffect
  <2>3. CASE a # b
    <3>1. Keyed(b) /\ Keyed(b)' /\ Slot(b)' = Slot(b) /\ idem[Slot(b)] # NoRow
      BY <1>0, <1>2, <2>3, CommitEffect DEF Keyed, Slot, TypeInv, StoreHasRow
    <3> QED BY <1>0, <1>1, <2>1, <3>1, WriteRowEffect
  <2> QED BY <2>2, <2>3
<1>3. ASSUME NEW a \in Attempt, StoreResponse(a)
      PROVE  Keyed(b)' /\ idem'[Slot(b)'] # NoRow
  <2>1. a # b /\ att'[b] = att[b]
    BY <1>0, <1>3, StoreEffect, GotoEffect DEF StoreResponse, Stage
  <2>2. Keyed(b) /\ Keyed(b)' /\ Slot(b)' = Slot(b) /\ idem[Slot(b)] # NoRow
    BY <2>1 DEF Keyed, Slot, TypeInv, StoreHasRow
  <2> QED BY <1>1, <1>3, <2>2, StoreEffect
<1>4. CASE idem' = idem /\ att'[b] = att[b]
  BY <1>4 DEF TypeInv, StoreHasRow, Keyed, Slot
<1>5. ASSUME NEW a \in Attempt, idem' = idem, a # b =>  att'[b] = att[b],
             att'[a].stage # "store"
      PROVE  Keyed(b)' /\ idem'[Slot(b)'] # NoRow
  BY <1>4, <1>5
<1>6. ASSUME NEW a \in Attempt, Begin(a)
      PROVE  Keyed(b)' /\ idem'[Slot(b)'] # NoRow
  BY <1>0, <1>5, <1>6 DEF Begin, TypeOK, Tables
<1>7. ASSUME NEW a \in Attempt,
             Lookup(a) \/ Insert(a) \/ ReadPromo(a) \/ IncrementUse(a) \/ Check(a)
             \/ RefusePromo(a) \/ Respond(a) \/ Abort(a)
      PROVE  Keyed(b)' /\ idem'[Slot(b)'] # NoRow
  <2>1. att[a] # Idle /\ idem' = idem
    BY <1>7, StageNotIdle
       DEF Lookup, Insert, ReadPromo, IncrementUse, Check, RefusePromo, Respond, Abort,
           Stage, Tables
  <2>2. Check(a) \/ Finish(a) \/ \E s \in Stage \ {"store"} : Goto(a, s)
    BY <1>7
       DEF Lookup, Insert, InsertRow, ReadPromo, IncrementUse, RefusePromo, Respond, Abort,
           Stage
  <2>3. (a # b => att'[b] = att[b]) /\ att'[a].stage # "store"
    BY <1>0, <2>1, <2>2, GotoEffect, FinishEffect, CheckEffect
  <2> QED BY <1>5, <2>1, <2>3
<1>8. CASE UNCHANGED <<idem, att>>
  BY <1>4, <1>8
<1> QED BY <1>2, <1>3, <1>6, <1>7, <1>8
    DEF Next, Step, CancelPlaced, Vendor, Tables, vars

LEMMA TypeInvStep == TypeInv /\ [Next]_vars => TypeInv'
  BY TypeStep, StoreHasRowStep DEF TypeInv

LEMMA TypeInvInit == Init => TypeInv
<1> SUFFICES ASSUME Init
             PROVE  StoreHasRow
  BY TypeInit DEF TypeInv
<1> QED BY DEF Init, StoreHasRow, Idle

(* The tables, locks and attempts keep their types in every behaviour.     *)
THEOREM PlaceOrderTypeCorrect == Spec => []TypeOK
<1>1. TypeInv => TypeOK
  BY DEF TypeInv
<1> QED BY <1>1, TypeInvInit, TypeInvStep, PTL DEF Spec

-----------------------------------------------------------------------------
(* Between its insert and its commit an attempt owns the index entry of    *)
(* its key, and no row of that key is committed.                           *)
Holding == {"check", "promo", "increment", "commit"}

Owns(a) ==
  /\ att[a].stage = "insert" => Keyed(a)
  /\ att[a].stage \in Holding /\ Keyed(a) => key_lock[Slot(a)] = a /\ idem[Slot(a)] = NoRow

KeysOwned == \A a \in Attempt : Owns(a)

LEMMA OwnsElsewhere ==
  ASSUME TypeInv, KeysOwned, NEW a \in Attempt, NEW b \in Attempt \ {a}, att'[b] = att[b],
         \/ UNCHANGED key_lock
         \/ Unlock(a)
         \/ /\ att[a] # Idle /\ Keyed(a) /\ key_lock[Slot(a)] = NoAttempt
            /\ key_lock' = [key_lock EXCEPT ![Slot(a)] = a],
         \/ UNCHANGED idem
         \/ StoreResponse(a)
         \/ att[a].stage = "commit" /\ WriteRow(a)
  PROVE  Owns(b)'
<1>0. TypeOK
  BY DEF TypeInv
<1> SUFFICES ASSUME att[b].stage \in Holding, Keyed(b)
             PROVE  key_lock'[Slot(b)] = b /\ idem'[Slot(b)] = NoRow
  BY DEF KeysOwned, Owns, Slot, Keyed
<1>1. /\ att[b] # Idle /\ Slot(b) \in User \X Key
      /\ key_lock[Slot(b)] = b /\ idem[Slot(b)] = NoRow
  BY <1>0, StageNotIdle, SlotIn DEF KeysOwned, Owns, Holding, Stage
<1>2. key_lock'[Slot(b)] = b
  <2>1. CASE UNCHANGED key_lock
    BY <1>1, <2>1
  <2>2. CASE Unlock(a)
    BY <1>0, <1>1, <2>2, UnlockEffect
  <2>3. CASE /\ att[a] # Idle /\ Keyed(a) /\ key_lock[Slot(a)] = NoAttempt
             /\ key_lock' = [key_lock EXCEPT ![Slot(a)] = a]
    BY <1>0, <1>1, <2>3, SlotIn, PromosAssumption DEF TypeOK
  <2> QED BY <2>1, <2>2, <2>3
<1>3. idem'[Slot(b)] = NoRow
  <2>1. CASE UNCHANGED idem
    BY <1>1, <2>1
  <2>2. CASE StoreResponse(a)
    BY <1>1, <2>2, StoreEffect, RowNotNoRow
  <2>3. CASE att[a].stage = "commit" /\ WriteRow(a)
    <3>1. att[a] # Idle
      BY <2>3, StageNotIdle DEF Stage
    <3>2. Keyed(a) => key_lock[Slot(a)] = a
      BY <2>3 DEF KeysOwned, Owns, Holding
    <3> QED BY <1>0, <1>1, <2>3, <3>1, <3>2, WriteRowEffect
  <2> QED BY <2>1, <2>2, <2>3
<1> QED BY <1>2, <1>3

LEMMA KeysOwnedStep == TypeInv /\ KeysOwned /\ [Next]_vars => KeysOwned'
<1> SUFFICES ASSUME TypeInv, KeysOwned, [Next]_vars, NEW b \in Attempt
             PROVE  Owns(b)'
  BY DEF KeysOwned
<1>0. TypeOK
  BY DEF TypeInv
<1>1. ASSUME NEW a \in Attempt, Begin(a)
      PROVE  Owns(b)'
  <2>1. UNCHANGED <<key_lock, idem>> /\ (a # b => att'[b] = att[b])
    BY <1>0, <1>1 DEF Begin, TypeOK, Tables
  <2>2. CASE a = b
    BY <1>0, <1>1, <2>2 DEF Begin, TypeOK, Owns, Holding
  <2> QED BY <2>1, <2>2, OwnsElsewhere
<1>2. ASSUME NEW a \in Attempt, Lookup(a)
      PROVE  Owns(b)'
  <2>1. UNCHANGED <<key_lock, idem>> /\ att[a] # Idle
    BY <1>2, StageNotIdle DEF Lookup, Tables, Stage
  <2>2. CASE ~Keyed(a) /\ Goto(a, "check")
    <3>1. /\ a # b => att'[b] = att[b]
          /\ att'[a].stage = "check" /\ att'[a].key = att[a].key
      BY <1>0, <2>1, <2>2, GotoEffect DEF Stage
    <3> QED BY <2>1, <2>2, <3>1, OwnsElsewhere DEF Owns, Keyed
  <2>3. CASE Keyed(a) /\ Goto(a, "insert")
    <3>1. /\ a # b => att'[b] = att[b]
          /\ att'[a].stage = "insert" /\ att'[a].key = att[a].key
      BY <1>0, <2>1, <2>3, GotoEffect DEF Stage
    <3> QED BY <2>1, <2>3, <3>1, OwnsElsewhere DEF Owns, Keyed, Holding
  <2>4. CASE Finish(a)
    <3>1. (a # b => att'[b] = att[b]) /\ att'[a].stage = "idle"
      BY <1>0, <2>4, FinishEffect
    <3> QED BY <2>1, <3>1, OwnsElsewhere DEF Owns, Holding
  <2> QED BY <1>2, <2>2, <2>3, <2>4 DEF Lookup
<1>3. ASSUME NEW a \in Attempt, Insert(a)
      PROVE  Owns(b)'
  <2>1. UNCHANGED idem /\ att[a] # Idle /\ Keyed(a)
    BY <1>3, StageNotIdle DEF Insert, Tables, Stage, KeysOwned, Owns
  <2>2. CASE Finish(a) /\ UNCHANGED key_lock
    <3>1. (a # b => att'[b] = att[b]) /\ att'[a].stage = "idle"
      BY <1>0, <2>2, FinishEffect
    <3> QED BY <2>1, <2>2, <3>1, OwnsElsewhere DEF Owns, Holding
  <2>3. CASE /\ key_lock[Slot(a)] = NoAttempt /\ idem[Slot(a)] = NoRow
             /\ key_lock' = [key_lock EXCEPT ![Slot(a)] = a] /\ Goto(a, "check")
    <3>1. /\ a # b => att'[b] = att[b]
          /\ att'[a].user = att[a].user /\ att'[a].key = att[a].key
          /\ att'[a].stage = "check"
      BY <1>0, <2>1, <2>3, GotoEffect DEF Stage
    <3>2. CASE a # b
      BY <1>3, <2>1, <2>3, <3>1, <3>2, OwnsElsewhere
    <3>3. CASE a = b
      <4>1. Slot(a)' = Slot(a) /\ Slot(a) \in User \X Key
        BY <1>0, <1>3, <2>1, <3>1, SlotIn DEF Slot
      <4> QED BY <1>0, <2>1, <2>3, <3>1, <3>3, <4>1 DEF Owns, TypeOK
    <3> QED BY <3>2, <3>3
  <2> QED BY <1>3, <2>2, <2>3 DEF Insert, InsertRow
<1>4. ASSUME NEW a \in Attempt, Check(a) \/ ReadPromo(a) \/ IncrementUse(a)
      PROVE  Owns(b)'
  <2>1. UNCHANGED <<key_lock, idem>> /\ att[a] # Idle /\ att[a].stage \in Holding
    BY <1>4, StageNotIdle DEF Check, ReadPromo, IncrementUse, Tables, Stage, Holding
  <2>2. /\ a # b => att'[b] = att[b]
        /\ att'[a].user = att[a].user /\ att'[a].key = att[a].key
        /\ att'[a].stage # "insert"
    BY <1>0, <1>4, <2>1, CheckEffect, GotoEffect DEF ReadPromo, IncrementUse, Stage
  <2>3. CASE a = b
    BY <2>1, <2>2, <2>3 DEF KeysOwned, Owns, Keyed, Slot
  <2> QED BY <2>1, <2>2, <2>3, OwnsElsewhere
<1>5. ASSUME NEW a \in Attempt, RefusePromo(a) \/ Abort(a)
      PROVE  Owns(b)'
  <2>1. UNCHANGED idem /\ Unlock(a) /\ Finish(a)
    BY <1>5 DEF RefusePromo, Abort, Tables
  <2>2. (a # b => att'[b] = att[b]) /\ att'[a].stage = "idle"
    BY <1>0, <2>1, FinishEffect
  <2> QED BY <2>1, <2>2, OwnsElsewhere DEF Owns, Holding
<1>6. ASSUME NEW a \in Attempt, Commit(a)
      PROVE  Owns(b)'
  <2>1. att[a].stage = "commit" /\ WriteRow(a) /\ Unlock(a)
    BY <1>6 DEF Commit
  <2>2. (a # b => att'[b] = att[b]) /\ att'[a].stage \in {"store", "publish"}
    BY <1>0, <1>6, CommitEffect
  <2> QED BY <2>1, <2>2, OwnsElsewhere DEF Owns, Holding
<1>7. ASSUME NEW a \in Attempt, StoreResponse(a)
      PROVE  Owns(b)'
  <2>1. UNCHANGED key_lock /\ Goto(a, "publish") /\ att[a] # Idle
    BY <1>7, StoreEffect DEF StoreResponse
  <2>2. (a # b => att'[b] = att[b]) /\ att'[a].stage = "publish"
    BY <1>0, <2>1, GotoEffect DEF Stage
  <2> QED BY <1>7, <2>1, <2>2, OwnsElsewhere DEF Owns, Holding
<1>8. ASSUME NEW a \in Attempt, Respond(a)
      PROVE  Owns(b)'
  <2>1. UNCHANGED <<key_lock, idem>> /\ Finish(a)
    BY <1>8 DEF Respond, Tables
  <2>2. (a # b => att'[b] = att[b]) /\ att'[a].stage = "idle"
    BY <1>0, <2>1, FinishEffect
  <2> QED BY <2>1, <2>2, OwnsElsewhere DEF Owns, Holding
<1>9. CASE UNCHANGED <<key_lock, idem, att>>
  BY <1>9 DEF KeysOwned, Owns, Keyed, Slot
<1> QED BY <1>1, <1>2, <1>3, <1>4, <1>5, <1>6, <1>7, <1>8, <1>9
    DEF Next, Step, CancelPlaced, Vendor, Tables, vars

-----------------------------------------------------------------------------
(* An attempt past its commit knows its order; every answer names an order *)
(* of the attempt it answers.                                              *)
Names(u, k, p, i) ==
  /\ i \in DOMAIN orders
  /\ orders[i].user = u /\ orders[i].key = k /\ orders[i].payload = p

OrderKnown ==
  \A a \in Attempt : att[a].stage \in {"store", "publish"} =>
    Names(att[a].user, att[a].key, att[a].payload, att[a].order)

AnswersKnown == \A x \in answers : Names(x.user, x.key, x.payload, x.order)

LEMMA OrdersStep ==
  ASSUME TypeInv, [Next]_vars
  PROVE  \/ \E a \in Attempt : Commit(a)
         \/ SameOrders
<1>0. TypeOK
  BY DEF TypeInv
<1>1. ASSUME NEW i \in DOMAIN orders, CancelPlaced(i)
      PROVE  SameOrders
  BY <1>0, <1>1, CancelOrders
<1>2. CASE UNCHANGED orders
  BY <1>2 DEF SameOrders, SameOrder
<1> QED BY <1>1, <1>2
    DEF Next, Step, Begin, Lookup, Insert, Check, ReadPromo, IncrementUse, RefusePromo,
        StoreResponse, Respond, Abort, Vendor, Tables, vars

LEMMA NamesStable ==
  ASSUME TypeInv, [Next]_vars, NEW u, NEW k, NEW p, NEW i, Names(u, k, p, i)
  PROVE  Names(u, k, p, i)'
<1>1. CASE SameOrders
  BY <1>1 DEF SameOrders, SameOrder, Names
<1>2. ASSUME NEW a \in Attempt, Commit(a)
      PROVE  Names(u, k, p, i)'
  <2>1. /\ DOMAIN orders = 1..Len(orders) /\ Len(orders) \in Nat
        /\ DOMAIN orders' = 1..(Len(orders) + 1)
        /\ SameOrder(i)
    BY <1>2, CommitOrders, OrderIn DEF TypeInv, Names
  <2> QED BY <2>1 DEF SameOrder, Names
<1> QED BY <1>1, <1>2, OrdersStep

LEMMA OrderKnownStep == TypeInv /\ OrderKnown /\ [Next]_vars => OrderKnown'
<1> SUFFICES ASSUME TypeInv, OrderKnown, [Next]_vars, NEW b \in Attempt,
                    att'[b].stage \in {"store", "publish"}
             PROVE  Names(att[b].user, att[b].key, att[b].payload, att[b].order)'
  BY DEF OrderKnown
<1>0. TypeOK
  BY DEF TypeInv
<1>1. CASE /\ att[b].stage \in {"store", "publish"}
           /\ att'[b].user = att[b].user /\ att'[b].key = att[b].key
           /\ att'[b].payload = att[b].payload /\ att'[b].order = att[b].order
  <2>1. Names(att[b].user, att[b].key, att[b].payload, att[b].order)
    BY <1>1 DEF OrderKnown
  <2>2. \A u, k, p, i : Names(u, k, p, i) => Names(u, k, p, i)'
    BY NamesStable
  <2> QED BY <1>1, <2>1, <2>2 DEF Names
<1>2. CASE att'[b] = att[b]
  BY <1>1, <1>2
<1>3. ASSUME NEW a \in Attempt, Commit(a)
      PROVE  Names(att[b].user, att[b].key, att[b].payload, att[b].order)'
  <2>1. a # b => att'[b] = att[b]
    BY <1>0, <1>3, CommitEffect
  <2>2. CASE a = b
    <3>1. /\ att'[a].user = att[a].user /\ att'[a].key = att[a].key
          /\ att'[a].payload = att[a].payload /\ att'[a].order = Len(orders) + 1
      BY <1>0, <1>3, CommitEffect
    <3>2. /\ Len(orders) + 1 \in DOMAIN orders'
          /\ orders'[Len(orders) + 1].user = att[a].user
          /\ orders'[Len(orders) + 1].key = att[a].key
          /\ orders'[Len(orders) + 1].payload = att[a].payload
      BY <1>0, <1>3, CommitOrders, OrderIn
    <3> QED BY <2>2, <3>1, <3>2 DEF Names
  <2> QED BY <1>2, <2>1, <2>2
<1>4. ASSUME NEW a \in Attempt, StoreResponse(a)
      PROVE  Names(att[b].user, att[b].key, att[b].payload, att[b].order)'
  <2>1. att[a] # Idle /\ att[a].stage = "store" /\ Goto(a, "publish")
    BY <1>4, StoreEffect DEF StoreResponse
  <2>2. a # b => att'[b] = att[b]
    BY <1>0, <2>1, GotoEffect DEF Stage
  <2>3. /\ att'[a].user = att[a].user /\ att'[a].key = att[a].key
        /\ att'[a].payload = att[a].payload /\ att'[a].order = att[a].order
    BY <1>0, <2>1, GotoEffect DEF Stage
  <2> QED BY <1>1, <1>2, <2>1, <2>2, <2>3
<1>5. ASSUME NEW a \in Attempt, Begin(a)
      PROVE  Names(att[b].user, att[b].key, att[b].payload, att[b].order)'
  BY <1>0, <1>2, <1>5 DEF Begin, TypeOK
<1>6. ASSUME NEW a \in Attempt,
             Lookup(a) \/ Insert(a) \/ ReadPromo(a) \/ IncrementUse(a) \/ Check(a)
             \/ RefusePromo(a) \/ Respond(a) \/ Abort(a)
      PROVE  Names(att[b].user, att[b].key, att[b].payload, att[b].order)'
  <2>1. att[a] # Idle
    BY <1>6, StageNotIdle
       DEF Lookup, Insert, ReadPromo, IncrementUse, Check, RefusePromo, Respond, Abort, Stage
  <2>2. Check(a) \/ Finish(a) \/ \E s \in Stage \ {"store", "publish"} : Goto(a, s)
    BY <1>6
       DEF Lookup, Insert, InsertRow, ReadPromo, IncrementUse, RefusePromo, Respond, Abort,
           Stage
  <2>3. (a # b => att'[b] = att[b]) /\ att'[a].stage \notin {"store", "publish"}
    BY <1>0, <2>1, <2>2, GotoEffect, FinishEffect, CheckEffect
  <2> QED BY <1>2, <2>3
<1>7. CASE UNCHANGED att
  BY <1>2, <1>7
<1> QED BY <1>3, <1>4, <1>5, <1>6, <1>7 DEF Next, Step, CancelPlaced, Vendor, vars

-----------------------------------------------------------------------------
KeyInv == TypeInv /\ KeysOwned /\ OrderKnown /\ OneOrderPerKey

(* What OneOrderPerKey says of one key.                                    *)
OneOrder(u, k) ==
  LET row == idem[<<u, k>>] IN
  IF row = NoRow THEN OrdersUnder(u, k) = {}
  ELSE \E i \in DOMAIN orders :
         /\ OrdersUnder(u, k) = {i}
         /\ row.payload = orders[i].payload
         /\ row.response \in {0, i}

LEMMA OneOrderKept ==
  ASSUME SameOrders, NEW u \in User, NEW k \in Key, OneOrder(u, k),
         idem'[<<u, k>>] = idem[<<u, k>>]
  PROVE  OneOrder(u, k)'
<1>1. OrdersUnder(u, k)' = OrdersUnder(u, k)
  BY DEF SameOrders, SameOrder, OrdersUnder
<1> QED BY <1>1 DEF OneOrder, SameOrders, SameOrder

LEMMA OneOrderCommit ==
  ASSUME KeyInv, NEW a \in Attempt, Commit(a), NEW u \in User, NEW k \in Key
  PROVE  OneOrder(u, k)'
<1>0. TypeOK /\ OneOrder(u, k) /\ NoKey # k
  BY PlaceOrderAssumption DEF KeyInv, TypeInv, OneOrderPerKey, OneOrder
<1>1. att[a] # Idle /\ att[a].stage = "commit" /\ WriteRow(a)
  BY StageNotIdle DEF Commit, Stage
<1> DEFINE n == Len(orders) + 1
<1>2. /\ DOMAIN orders' = DOMAIN orders \cup {n} /\ n \notin DOMAIN orders
      /\ \A i \in DOMAIN orders : SameOrder(i)
      /\ orders'[n].user = att[a].user /\ orders'[n].key = att[a].key
      /\ orders'[n].payload = att[a].payload
  <2>1. DOMAIN orders' = 1..n /\ DOMAIN orders = 1..Len(orders) /\ Len(orders) \in Nat
    BY <1>0, CommitOrders, OrderIn
  <2>2. 1..n = (1..Len(orders)) \cup {n} /\ n \notin 1..Len(orders)
    BY <2>1
  <2> QED BY <1>0, <2>1, <2>2, CommitOrders
<1> HIDE DEF n
<1>3. CASE att[a].user = u /\ att[a].key = k
  <2>1. Keyed(a) /\ Slot(a) = <<u, k>>
    BY <1>0, <1>3 DEF Keyed, Slot
  <2>2. idem[<<u, k>>] = NoRow
    BY <1>1, <2>1 DEF KeyInv, KeysOwned, Owns, Holding
  <2>3. OrdersUnder(u, k) = {}
    BY <1>0, <2>2 DEF OneOrder
  <2>4. OrdersUnder(u, k)' = {n}
    BY <1>2, <1>3, <2>3 DEF OrdersUnder, SameOrder
  <2>5. /\ idem'[<<u, k>>] = [payload |-> att[a].payload, response |-> 0]
        /\ idem'[<<u, k>>] # NoRow
    BY <1>0, <1>1, <2>1, WriteRowEffect
  <2> QED BY <1>2, <2>4, <2>5 DEF OneOrder
<1>4. CASE ~(att[a].user = u /\ att[a].key = k)
  <2>1. ~(Keyed(a) /\ <<u, k>> = Slot(a))
    BY <1>4 DEF Slot
  <2>2. idem'[<<u, k>>] = idem[<<u, k>>]
    BY <1>0, <1>1, <2>1, WriteRowEffect
  <2>3. OrdersUnder(u, k)' = OrdersUnder(u, k)
    BY <1>2, <1>4 DEF OrdersUnder, SameOrder
  <2> QED BY <1>0, <1>2, <2>2, <2>3 DEF OneOrder, SameOrder
<1> QED BY <1>3, <1>4

LEMMA OneOrderStore ==
  ASSUME KeyInv, NEW a \in Attempt, StoreResponse(a), NEW u \in User, NEW k \in Key
  PROVE  OneOrder(u, k)'
<1>0. TypeInv /\ OneOrder(u, k)
  BY DEF KeyInv, OneOrderPerKey, OneOrder
<1>1. SameOrders /\ UNCHANGED orders
  BY DEF StoreResponse, SameOrders, SameOrder
<1>2. CASE Slot(a) = <<u, k>>
  <2>1. att[a].user = u /\ att[a].key = k /\ att[a].order \in OrdersUnder(u, k)
    BY <1>2 DEF KeyInv, OrderKnown, Names, OrdersUnder, Slot, StoreResponse
  <2>2. /\ idem[<<u, k>>] # NoRow /\ idem'[<<u, k>>] # NoRow
        /\ idem'[<<u, k>>].payload = idem[<<u, k>>].payload
        /\ idem'[<<u, k>>].response = att[a].order
    BY <1>0, <1>2, StoreEffect, RowNotNoRow
  <2>3. PICK i \in DOMAIN orders : /\ OrdersUnder(u, k) = {i}
                                  /\ idem[<<u, k>>].payload = orders[i].payload
    BY <1>0, <2>2 DEF OneOrder
  <2>4. OrdersUnder(u, k)' = {i} /\ att[a].order = i
    BY <1>1, <2>1, <2>3 DEF OrdersUnder
  <2> QED BY <1>1, <2>2, <2>3, <2>4 DEF OneOrder
<1>3. CASE Slot(a) # <<u, k>>
  <2>1. idem'[<<u, k>>] = idem[<<u, k>>]
    BY <1>0, <1>3, StoreEffect
  <2> QED BY <1>0, <1>1, <2>1, OneOrderKept
<1> QED BY <1>2, <1>3

LEMMA KeyInvStep == KeyInv /\ [Next]_vars => KeyInv'
<1> SUFFICES ASSUME KeyInv, [Next]_vars, NEW u \in User, NEW k \in Key
             PROVE  OneOrder(u, k)'
  BY TypeInvStep, KeysOwnedStep, OrderKnownStep DEF KeyInv, OneOrderPerKey, OneOrder
<1>1. OneOrder(u, k) /\ TypeInv
  BY DEF KeyInv, OneOrderPerKey, OneOrder
<1>2. ASSUME UNCHANGED idem, SameOrders
      PROVE  OneOrder(u, k)'
  BY <1>1, <1>2, OneOrderKept
<1>3. \/ \E a \in Attempt : Commit(a) \/ StoreResponse(a)
      \/ UNCHANGED idem
  BY DEF Next, Step, Begin, Lookup, Insert, Check, ReadPromo, IncrementUse, RefusePromo,
         Respond, Abort, CancelPlaced, Vendor, Tables, vars
<1> QED BY <1>1, <1>2, <1>3, OrdersStep, OneOrderCommit, OneOrderStore

LEMMA KeyInvInit == Init => KeyInv
<1> SUFFICES ASSUME Init
             PROVE  KeysOwned /\ OrderKnown /\ OneOrderPerKey
  BY TypeInvInit DEF KeyInv
<1>1. DOMAIN orders = {}
  BY DEF Init
<1> QED BY <1>1
    DEF Init, KeysOwned, Owns, Holding, OrderKnown, Idle, OneOrderPerKey, OrdersUnder

(* Exactly one order per key, for any number of users, keys and            *)
(* overlapping, repeated or dying attempts.                                *)
THEOREM PlaceOrderOneOrderPerKey == Spec => []OneOrderPerKey
<1>1. KeyInv => OneOrderPerKey
  BY DEF KeyInv
<1> QED BY <1>1, KeyInvInit, KeyInvStep, PTL DEF Spec

LEMMA AnswersKnownStep == KeyInv /\ AnswersKnown /\ [Next]_vars => AnswersKnown'
<1> SUFFICES ASSUME KeyInv, AnswersKnown, [Next]_vars, NEW x \in answers'
             PROVE  Names(x.user, x.key, x.payload, x.order)'
  BY DEF AnswersKnown
<1>0. TypeInv /\ TypeOK
  BY DEF KeyInv, TypeInv
<1>1. CASE Names(x.user, x.key, x.payload, x.order)
  BY <1>0, <1>1, NamesStable DEF Names
<1>2. CASE x \in answers
  BY <1>1, <1>2 DEF AnswersKnown
<1>3. ASSUME NEW a \in Attempt, Lookup(a), x \notin answers
      PROVE  Names(x.user, x.key, x.payload, x.order)
  <2>1. /\ att[a] # Idle /\ Keyed(a) /\ idem[Slot(a)] # NoRow /\ Replayable(a, idem[Slot(a)])
        /\ x = [user |-> att[a].user, key |-> att[a].key, payload |-> att[a].payload,
                order |-> idem[Slot(a)].response]
    BY <1>3, StageNotIdle DEF Lookup, Stage
  <2>2. att[a].user \in User /\ att[a].key \in Key /\ Slot(a) = <<att[a].user, att[a].key>>
    BY <1>0, <2>1, AttemptWhen DEF Keyed, Slot
  <2>3. PICK i \in DOMAIN orders :
          /\ OrdersUnder(att[a].user, att[a].key) = {i}
          /\ idem[Slot(a)].payload = orders[i].payload
          /\ idem[Slot(a)].response \in {0, i}
    BY <2>1, <2>2 DEF KeyInv, OneOrderPerKey
  <2> QED BY <2>1, <2>3 DEF Replayable, Names, OrdersUnder
<1>4. ASSUME NEW a \in Attempt, Respond(a), x \notin answers
      PROVE  Names(x.user, x.key, x.payload, x.order)
  BY <1>4 DEF Respond, KeyInv, OrderKnown
<1>5. \/ \E a \in Attempt : Lookup(a) \/ Respond(a)
      \/ answers' = answers
  BY DEF Next, Step, Begin, Insert, Check, ReadPromo, IncrementUse, RefusePromo, Commit,
         StoreResponse, Abort, CancelPlaced, Vendor, vars
<1> QED BY <1>1, <1>2, <1>3, <1>4, <1>5

(* A repeated request is answered with its own order, whichever attempt    *)
(* placed it, and never with two different ones.                           *)
THEOREM PlaceOrderAnswersAgree == Spec => []AnswersAgree
<1>1. Init => KeyInv /\ AnswersKnown
  BY KeyInvInit DEF Init, AnswersKnown
<1>2. KeyInv /\ AnswersKnown /\ [Next]_vars => (KeyInv /\ AnswersKnown)'
  BY KeyInvStep, AnswersKnownStep
<1>3. ASSUME KeyInv, AnswersKnown
      PROVE  AnswersAgree
  <2> SUFFICES ASSUME NEW x \in answers, NEW y \in answers,
                      x.user = y.user, x.key = y.key, x.key # NoKey
               PROVE  x.order = y.order
    BY <1>3 DEF AnswersAgree, AnswersKnown, Names
  <2>1. x.user \in User /\ x.key \in Key
    BY <1>3 DEF KeyInv, TypeInv, TypeOK, Answer
  <2>2. x.order \in OrdersUnder(x.user, x.key) /\ y.order \in OrdersUnder(x.user, x.key)
    BY <1>3 DEF AnswersKnown, Names, OrdersUnder
  <2>3. idem[<<x.user, x.key>>] # NoRow => \E i : OrdersUnder(x.user, x.key) = {i}
    BY <1>3, <2>1 DEF KeyInv, OneOrderPerKey
  <2>4. idem[<<x.user, x.key>>] = NoRow => OrdersUnder(x.user, x.key) = {}
    BY <1>3, <2>1 DEF KeyInv, OneOrderPerKey
  <2> QED BY <2>2, <2>3, <2>4
<1>4. KeyInv /\ AnswersKnown => AnswersAgree
  BY <1>3
<1> QED BY <1>1, <1>2, <1>4, PTL DEF Spec

-----------------------------------------------------------------------------
(* An order that counted its use but is not yet committed holds the row of *)
(* its code, so the use that was left stays left.                          *)
CodeHeld(a) ==
  att[a].stage \in {"increment", "commit"} /\ Redeems(a) =>
    /\ promo[att[a].payload.code].exists
    /\ att[a].stage = "commit" => /\ promo_lock[att[a].payload.code] = a
                                  /\ UsesLeft(promo[att[a].payload.code])

CodesHeld == \A a \in Attempt : CodeHeld(a)

Unused == \A c \in Code : ~promo[c].exists => promo[c].used = 0

LEMMA RedeemedCodeIn ==
  ASSUME TypeOK, NEW a \in Attempt, att[a] # Idle, Redeems(a)
  PROVE  att[a].payload.code \in Code
  BY AttemptWhen DEF Redeems

LEMMA CodesHeldStep == TypeInv /\ CodesHeld /\ [Next]_vars => CodesHeld'
<1> SUFFICES ASSUME TypeInv, CodesHeld, [Next]_vars, NEW b \in Attempt
             PROVE  CodeHeld(b)'
  BY DEF CodesHeld
<1>0. TypeOK /\ PromosTypeOK
  BY DEF TypeInv, TypeOK
<1> DEFINE c == att[b].payload.code
<1>1. ASSUME att'[b] = att[b], att[b].stage \in {"increment", "commit"}, Redeems(b)
      PROVE  /\ att[b] # Idle /\ c \in Code /\ promo[c].exists
             /\ att[b].stage = "commit" => promo_lock[c] = b /\ UsesLeft(promo[c])
  BY <1>0, <1>1, StageNotIdle, RedeemedCodeIn DEF CodesHeld, CodeHeld, Stage
<1>2. CASE /\ att'[b] = att[b]
           /\ att[b].stage \in {"increment", "commit"} /\ Redeems(b) =>
                /\ promo'[c].exists
                /\ att[b].stage = "commit" => promo_lock'[c] = b /\ UsesLeft(promo'[c])
  BY <1>2 DEF CodeHeld, Redeems, UsesLeft
<1>3. CASE att'[b].stage \notin {"increment", "commit"}
  BY <1>3 DEF CodeHeld
<1>4. ASSUME NEW a \in Attempt, Begin(a)
      PROVE  CodeHeld(b)'
  BY <1>0, <1>1, <1>2, <1>3, <1>4 DEF Begin, TypeOK, promo_vars
<1>5. ASSUME NEW a \in Attempt, Lookup(a) \/ Insert(a) \/ StoreResponse(a) \/ Respond(a)
      PROVE  CodeHeld(b)'
  <2>1. att[a] # Idle /\ UNCHANGED promo_vars
    BY <1>5, StageNotIdle DEF Lookup, Insert, StoreResponse, Respond, Stage
  <2>2. Finish(a) \/ \E s \in Stage \ {"increment", "commit"} : Goto(a, s)
    BY <1>5 DEF Lookup, Insert, InsertRow, StoreResponse, Respond, Stage
  <2>3. /\ a # b => att'[b] = att[b]
        /\ att'[a].stage \notin {"increment", "commit"}
    BY <1>0, <2>1, <2>2, GotoEffect, FinishEffect
  <2> QED BY <1>1, <1>2, <1>3, <2>1, <2>3 DEF promo_vars
<1>6. ASSUME NEW a \in Attempt, Check(a)
      PROVE  CodeHeld(b)'
  <2>1. /\ a # b => att'[b] = att[b]
        /\ att'[a].stage = IF Redeems(a) THEN "promo" ELSE "commit"
        /\ att'[a].payload = att[a].payload /\ UNCHANGED promo_vars
    BY <1>0, <1>6, CheckEffect DEF Check
  <2>2. CASE a = b
    BY <2>1, <2>2 DEF CodeHeld, Redeems
  <2> QED BY <1>1, <1>2, <2>1, <2>2 DEF promo_vars
<1>7. ASSUME NEW a \in Attempt, ReadPromo(a)
      PROVE  CodeHeld(b)'
  <2>1. /\ att[a] # Idle /\ Goto(a, "increment") /\ UNCHANGED promo_vars
        /\ promo[att[a].payload.code].exists
    BY <1>7, StageNotIdle DEF ReadPromo, Redeemable, Stage
  <2>2. /\ a # b => att'[b] = att[b]
        /\ att'[a].stage = "increment" /\ att'[a].payload = att[a].payload
    BY <1>0, <2>1, GotoEffect DEF Stage
  <2>3. CASE a = b
    BY <2>1, <2>2, <2>3 DEF CodeHeld, promo_vars
  <2> QED BY <1>1, <1>2, <2>1, <2>2, <2>3 DEF promo_vars
<1>8. ASSUME NEW a \in Attempt, IncrementUse(a)
      PROVE  CodeHeld(b)'
  <2> DEFINE d == att[a].payload.code
  <2>1. /\ att[a] # Idle /\ Goto(a, "commit") /\ UNCHANGED promo
        /\ att[a].stage = "increment" /\ promo_lock[d] = NoAttempt
        /\ UsesLeft(promo[d]) /\ promo_lock' = [promo_lock EXCEPT ![d] = a]
    BY <1>8, StageNotIdle DEF IncrementUse, IncrementMatches, LockPromo, Stage
  <2>2. /\ a # b => att'[b] = att[b]
        /\ att'[a].stage = "commit" /\ att'[a].payload = att[a].payload
    BY <1>0, <2>1, GotoEffect DEF Stage
  <2>3. CASE a = b
    <3> SUFFICES ASSUME Redeems(a)
                 PROVE  /\ promo'[d].exists /\ promo_lock'[d] = a /\ UsesLeft(promo'[d])
      BY <2>2, <2>3 DEF CodeHeld, Redeems, UsesLeft
    <3>1. d \in Code /\ promo[d].exists
      BY <1>0, <2>1, RedeemedCodeIn DEF CodesHeld, CodeHeld
    <3> QED BY <1>0, <2>1, <3>1 DEF PromosTypeOK
  <2>4. CASE a # b
    <3>1. att[b].stage = "commit" /\ Redeems(b) => c # d
      BY <1>1, <2>1, <2>2, <2>4, PromosAssumption
    <3>2. c # d => promo_lock'[c] = promo_lock[c]
      BY <2>1
    <3> HIDE DEF c, d
    <3> QED BY <1>1, <1>2, <2>1, <2>2, <2>4, <3>1, <3>2
  <2> QED BY <2>3, <2>4
<1>9. ASSUME NEW a \in Attempt, RefusePromo(a) \/ Abort(a)
      PROVE  CodeHeld(b)'
  <2>1. UNCHANGED promo /\ Unlock(a) /\ Finish(a)
    BY <1>9 DEF RefusePromo, Abort
  <2>2. (a # b => att'[b] = att[b]) /\ att'[a].stage = "idle"
    BY <1>0, <2>1, FinishEffect
  <2>3. CASE a # b
    <3>1. promo_lock[c] = b /\ c \in Code => promo_lock'[c] = b
      BY <1>0, <2>1, <2>3, UnlockEffect
    <3> QED BY <1>1, <1>2, <2>1, <2>2, <2>3, <3>1
  <2> QED BY <1>3, <2>2, <2>3
<1>10. ASSUME NEW a \in Attempt, Commit(a)
       PROVE  CodeHeld(b)'
  <2> DEFINE d == att[a].payload.code
  <2>1. att[a].stage = "commit" /\ CountUse({d}) /\ Unlock(a)
    BY <1>10 DEF Commit
  <2>2. /\ a # b => att'[b] = att[b]
        /\ att'[a].stage \notin {"increment", "commit"}
    BY <1>0, <1>10, CommitEffect
  <2>3. CASE a # b
    <3>1. c \in Code /\ promo_lock[c] = b => promo_lock'[c] = b /\ c # d
      <4>1. c \in Code /\ c = d => promo_lock[c] = a
        BY <2>1, PlaceOrderAssumption DEF CodesHeld, CodeHeld, Redeems
      <4> QED BY <1>0, <2>1, <2>3, <4>1, UnlockEffect
    <3>2. c \in Code =>
            /\ promo'[c].exists = promo[c].exists /\ promo'[c].max = promo[c].max
            /\ c # d => promo'[c].used = promo[c].used
      BY <1>0, <2>1, CountUseEffect
    <3> HIDE DEF c, d
    <3> QED BY <1>1, <1>2, <2>2, <2>3, <3>1, <3>2 DEF UsesLeft
  <2> QED BY <1>3, <2>2, <2>3
<1>11. ASSUME NEW e \in Code, Vendor(e)
       PROVE  CodeHeld(b)'
  <2>1. UNCHANGED <<att, promo_lock>>
    BY <1>11 DEF Vendor, CreatePromo, DeactivatePromo
  <2>2. CASE CreatePromo(e)
    <3>1. \A f \in Code : promo[f].exists => promo'[f] = promo[f]
      BY <1>0, <2>2 DEF CreatePromo, PromosTypeOK
    <3> QED BY <1>1, <1>2, <2>1, <3>1
  <2>3. CASE DeactivatePromo(e)
    <3>1. \A f \in Code : promo'[f].exists = promo[f].exists
      BY <1>0, <2>3 DEF DeactivatePromo, PromosTypeOK, Promo
    <3>2. \A f \in Code : promo_lock[f] # NoAttempt => promo'[f] = promo[f]
      BY <1>0, <2>3 DEF DeactivatePromo, PromosTypeOK
    <3> QED BY <1>1, <1>2, <2>1, <3>1, <3>2, PromosAssumption
  <2> QED BY <1>11, <2>2, <2>3 DEF Vendor
<1>12. CASE UNCHANGED <<att, promo, promo_lock>>
  BY <1>1, <1>2, <1>12
<1> QED BY <1>4, <1>5, <1>6, <1>7, <1>8, <1>9, <1>10, <1>11, <1>12
    DEF Next, Step, CancelPlaced, vars, promo_vars

PromoInv == TypeInv /\ CodesHeld /\ Unused /\ PromoAccounting

(* The orders that count as uses of a code.                                *)
UsedBy(c) == {i \in DOMAIN orders : orders[i].payload.code = c}

LEMMA UsedByFinite ==
  ASSUME TypeOK, NEW c
  PROVE  IsFiniteSet(UsedBy(c)) /\ Cardinality(UsedBy(c)) \in Nat
<1>1. IsFiniteSet(1..Len(orders)) /\ UsedBy(c) \in SUBSET (1..Len(orders))
  BY OrderIn, FS_Interval DEF UsedBy
<1>2. IsFiniteSet(UsedBy(c))
  BY <1>1, FS_Subset
<1> QED BY <1>2, FS_CardinalityType

LEMMA UsedByCommit ==
  ASSUME TypeOK, NEW a \in Attempt, Commit(a), NEW c
  PROVE  Cardinality(UsedBy(c))' = IF c = att[a].payload.code THEN Cardinality(UsedBy(c)) + 1
                                   ELSE Cardinality(UsedBy(c))
<1> DEFINE n == Len(orders) + 1
<1>1. /\ DOMAIN orders' = DOMAIN orders \cup {n} /\ n \notin DOMAIN orders
      /\ \A i \in DOMAIN orders : orders'[i] = orders[i]
      /\ orders'[n].payload = att[a].payload
  <2>1. DOMAIN orders' = 1..n /\ DOMAIN orders = 1..Len(orders) /\ Len(orders) \in Nat
    BY CommitOrders, OrderIn
  <2>2. 1..n = (1..Len(orders)) \cup {n} /\ n \notin 1..Len(orders)
    BY <2>1
  <2> QED BY <2>1, <2>2, CommitOrders
<1> HIDE DEF n
<1>2. CASE c = att[a].payload.code
  <2>1. UsedBy(c)' = UsedBy(c) \cup {n} /\ n \notin UsedBy(c)
    BY <1>1, <1>2 DEF UsedBy
  <2>2. Cardinality(UsedBy(c) \cup {n}) = Cardinality(UsedBy(c)) + 1
    BY <2>1, UsedByFinite, FS_AddElement
  <2> QED BY <1>2, <2>1, <2>2
<1>3. CASE c # att[a].payload.code
  <2>1. UsedBy(c)' = UsedBy(c)
    BY <1>1, <1>3 DEF UsedBy
  <2> QED BY <1>3, <2>1
<1> QED BY <1>2, <1>3

LEMMA UsedBySame ==
  ASSUME SameOrders, NEW c
  PROVE  UsedBy(c)' = UsedBy(c)
  BY DEF SameOrders, SameOrder, UsedBy

(* What PromoAccounting and Unused say of one code.                        *)
Accounted(c) ==
  /\ promo[c].used = Cardinality(UsedBy(c))
  /\ promo[c].max # NoLimit => promo[c].used <= promo[c].max
  /\ ~promo[c].exists => promo[c].used = 0

LEMMA AccountedCommit ==
  ASSUME TypeInv, CodesHeld, NEW a \in Attempt, Commit(a), NEW c \in Code, Accounted(c)
  PROVE  Accounted(c)'
<1>0. TypeOK /\ PromosTypeOK /\ att[a] # Idle
  BY StageNotIdle DEF TypeInv, TypeOK, Commit, Stage
<1> DEFINE d == att[a].payload.code
<1>1. /\ promo'[c].used = IF c = d THEN promo[c].used + 1 ELSE promo[c].used
      /\ promo'[c].max = promo[c].max /\ promo'[c].exists = promo[c].exists
  BY <1>0, CountUseEffect DEF Commit
<1>2. Cardinality(UsedBy(c))' = IF c = d THEN Cardinality(UsedBy(c)) + 1
                                ELSE Cardinality(UsedBy(c))
  BY <1>0, UsedByCommit
<1>3. c = d => promo[c].exists /\ UsesLeft(promo[c])
  BY PlaceOrderAssumption DEF CodesHeld, CodeHeld, Redeems, Commit
<1>4. promo[c].used \in Nat /\ promo[c].max \in Nat \cup {NoLimit}
  BY <1>0, PromosAssumption DEF PromosTypeOK, Promo
<1> HIDE DEF d
<1>5. promo'[c].used = Cardinality(UsedBy(c))'
  BY <1>1, <1>2 DEF Accounted
<1>6. promo'[c].max # NoLimit => promo'[c].used <= promo'[c].max
  BY <1>1, <1>3, <1>4 DEF Accounted, UsesLeft
<1>7. ~promo'[c].exists => promo'[c].used = 0
  BY <1>1, <1>3 DEF Accounted
<1> QED BY <1>5, <1>6, <1>7 DEF Accounted

LEMMA AccountedVendor ==
  ASSUME TypeInv, NEW e \in Code, Vendor(e), NEW c \in Code, Accounted(c)
  PROVE  Accounted(c)'
<1>0. PromosTypeOK /\ promo[c] \in Promo
  BY DEF TypeInv, TypeOK, PromosTypeOK
<1>1. UsedBy(c)' = UsedBy(c)
  BY DEF Vendor, Tables, UsedBy
<1>2. CASE promo'[c] = promo[c]
  BY <1>1, <1>2 DEF Accounted
<1>3. CASE CreatePromo(e) /\ e = c
  <2>1. PICK l \in Limit, b \in BOOLEAN :
          promo' = [promo EXCEPT ![c] = [exists |-> TRUE, active |-> TRUE, used |-> 0,
                                         max |-> l, first_order_only |-> FALSE, asked |-> b]]
    BY <1>3 DEF CreatePromo
  <2>2. promo'[c].used = 0 /\ promo'[c].max = l /\ promo'[c].exists
    BY <1>0, <2>1 DEF PromosTypeOK
  <2>3. promo[c].used = 0
    BY <1>3 DEF CreatePromo, Accounted
  <2> QED BY <1>1, <2>2, <2>3, PromosAssumption DEF Accounted
<1>4. CASE DeactivatePromo(e)
  <2>1. /\ promo'[c].used = promo[c].used /\ promo'[c].max = promo[c].max
        /\ promo'[c].exists = promo[c].exists
    BY <1>0, <1>4 DEF DeactivatePromo, PromosTypeOK, Promo
  <2> QED BY <1>1, <2>1 DEF Accounted
<1>5. CASE CreatePromo(e) /\ e # c
  BY <1>0, <1>2, <1>5 DEF CreatePromo, PromosTypeOK
<1> QED BY <1>3, <1>4, <1>5 DEF Vendor

LEMMA PromoInvStep == PromoInv /\ [Next]_vars => PromoInv'
<1> SUFFICES ASSUME PromoInv, [Next]_vars, NEW c \in Code
             PROVE  Accounted(c)'
  BY TypeInvStep, CodesHeldStep DEF PromoInv, Unused, PromoAccounting, Accounted, UsedBy
<1>1. TypeInv /\ CodesHeld /\ Accounted(c)
  BY DEF PromoInv, Unused, PromoAccounting, Accounted, UsedBy
<1>2. CASE UNCHANGED promo /\ SameOrders
  BY <1>1, <1>2, UsedBySame DEF Accounted
<1>3. \/ \E a \in Attempt : Commit(a)
      \/ \E e \in Code : Vendor(e)
      \/ UNCHANGED promo
  BY DEF Next, Step, Begin, Lookup, Insert, Check, ReadPromo, IncrementUse, RefusePromo,
         StoreResponse, Respond, Abort, CancelPlaced, promo_vars, vars
<1> QED BY <1>1, <1>2, <1>3, OrdersStep, AccountedCommit, AccountedVendor

LEMMA PromoInvInit == Init => PromoInv
<1> SUFFICES ASSUME Init
             PROVE  CodesHeld /\ Unused /\ PromoAccounting
  BY TypeInvInit DEF PromoInv
<1>1. \A c \in Code : promo[c] = NoPromo
  BY DEF Init, PromosInit
<1>2. \A c : {i \in DOMAIN orders : orders[i].payload.code = c} = {}
  BY DEF Init
<1>3. CodesHeld
  BY DEF Init, CodesHeld, CodeHeld, Idle
<1>4. Cardinality({}) = 0
  BY FS_EmptySet
<1> QED BY <1>1, <1>2, <1>3, <1>4 DEF Unused, PromoAccounting, NoPromo

(* However orders race for the last use of a code, roll back or are        *)
(* cancelled, used_count is the number of orders with it and stays within  *)
(* max_uses.                                                               *)
THEOREM PlaceOrderPromoAccounting == Spec => []PromoAccounting
<1>1. PromoInv => PromoAccounting
  BY DEF PromoInv
<1> QED BY <1>1, PromoInvInit, PromoInvStep, PTL DEF Spec

-----------------------------------------------------------------------------
LEMMA AnnouncedStep == TypeInv /\ Announced /\ [Next]_vars => Announced'
<1> SUFFICES ASSUME TypeInv, Announced, [Next]_vars
             PROVE  Announced'
  OBVIOUS
<1>0. TypeOK /\ outbox \in Seq(Nat) /\ Len(orders) \in Nat
  BY OrderIn DEF TypeInv, TypeOK
<1>1. outbox = [i \in 1..Len(orders) |-> i]
  BY <1>0, OrderIn DEF Announced
<1>2. ASSUME NEW a \in Attempt, Commit(a)
      PROVE  Announced'
  <2>1. DOMAIN orders' = 1..(Len(orders) + 1) /\ outbox' = Append(outbox, Len(orders) + 1)
    BY <1>0, <1>2, CommitOrders DEF Commit, Announce
  <2>2. Len(outbox) = Len(orders)
    BY <1>0, <1>1
  <2>3. outbox' = [i \in 1..(Len(orders) + 1) |-> i]
    BY <1>0, <1>1, <2>1, <2>2
  <2> QED BY <2>1, <2>3 DEF Announced
<1>3. CASE SameOrders /\ UNCHANGED outbox
  BY <1>3 DEF Announced, SameOrders
<1>4. \/ \E a \in Attempt : Commit(a)
      \/ UNCHANGED outbox
  BY DEF Next, Step, Begin, Lookup, Insert, Check, ReadPromo, IncrementUse, RefusePromo,
         StoreResponse, Respond, Abort, CancelPlaced, Vendor, Tables, vars
<1> QED BY <1>2, <1>3, <1>4, OrdersStep

(* Every order is announced exactly once, in the order of the commits.     *)
THEOREM PlaceOrderAnnounced == Spec => []Announced
<1>1. Init => TypeInv /\ Announced
  BY TypeInvInit DEF Init, Announced
<1>2. TypeInv /\ Announced /\ [Next]_vars => (TypeInv /\ Announced)'
  BY TypeInvStep, AnnouncedStep
<1> QED BY <1>1, <1>2, PTL DEF Spec


-----------------------------------------------------------------------------
(* The contract.  Its orders are those of the table without what a          *)
(* cancellation changes, its limits those of the codes that exist.          *)
PlacedOrders == [i \in DOMAIN orders |-> [user |-> orders[i].user, key |-> orders[i].key,
                                          payload |-> orders[i].payload]]
Limits == [c \in Code |-> IF promo[c].exists THEN promo[c].max ELSE NotOffered]

LEMMA DeskSteps ==
  ASSUME TypeInv, [Next]_vars
  PROVE  \/ \E a \in Attempt : Commit(a)
         \/ \E c \in Code : Vendor(c)
         \/ SameOrders /\ UNCHANGED promo
<1>1. UNCHANGED promo \/ (\E a \in Attempt : Commit(a)) \/ (\E c \in Code : Vendor(c))
  BY DEF Next, Step, Begin, Lookup, Insert, Check, ReadPromo, IncrementUse, RefusePromo,
         StoreResponse, Respond, Abort, CancelPlaced, promo_vars, vars
<1> QED BY <1>1, OrdersStep

LEMMA SameDesk ==
  ASSUME SameOrders
  PROVE  PlacedOrders' = PlacedOrders
  BY DEF SameOrders, SameOrder, PlacedOrders

LEMMA DeskUses ==
  ASSUME NEW c
  PROVE  Desk!Uses(c) = Cardinality(UsedBy(c))
<1>1. {i \in DOMAIN PlacedOrders : CodeIn(PlacedOrders[i].payload) = c} = UsedBy(c)
  BY DEF PlacedOrders, CodeIn, UsedBy
<1>2. ASSUME NEW S
      PROVE  Desk!Cardinality(S) = Cardinality(S)
  BY DEF Cardinality, Desk!Cardinality
<1> QED BY <1>1, <1>2 DEF Desk!Uses, PlacedOrders, CodeIn

(* A commit is the contract's step: the key was free and the code had room.  *)
LEMMA CommitPlaces ==
  ASSUME KeyInv, PromoInv, NEW a \in Attempt, Commit(a)
  PROVE  Desk!Next
<1> DEFINE u == att[a].user
           k == att[a].key
           p == att[a].payload
<1>0. /\ TypeInv /\ TypeOK /\ PromosTypeOK /\ att[a] # Idle
      /\ CodesHeld /\ PromoAccounting
  BY StageNotIdle DEF KeyInv, PromoInv, TypeInv, TypeOK, Commit, Stage
<1>1. u \in User /\ k \in Key \cup {NoKey} /\ p \in Payload /\ p.code \in Code \cup {NoCode}
  BY <1>0, AttemptWhen
<1>2. ASSUME k # NoKey
      PROVE  ~Desk!PlacedBefore(u, k)
  <2>1. idem[<<u, k>>] = NoRow
    BY <1>0, <1>2 DEF KeyInv, KeysOwned, Owns, Holding, Commit, Keyed, Slot
  <2>2. OrdersUnder(u, k) = {}
    BY <1>1, <1>2, <2>1 DEF KeyInv, OneOrderPerKey
  <2> QED BY <2>2 DEF Desk!PlacedBefore, OrdersUnder
<1>3. ASSUME p.code \in Code
      PROVE  Desk!MayRedeem(p.code)
  <2>1. promo[p.code].exists /\ UsesLeft(promo[p.code])
    BY <1>0, <1>3, PlaceOrderAssumption DEF CodesHeld, CodeHeld, Redeems, Commit
  <2>2. promo[p.code].max \in Limit \cup {NoLimit}
    BY <1>0, <1>3 DEF PromosTypeOK, Promo
  <2>3. promo[p.code].max # NotOffered
    BY <2>2, NotOfferedAssumption
  <2>4. promo[p.code].used = Desk!Uses(p.code)
    BY <1>0, <1>3, DeskUses DEF PromoAccounting, UsedBy
  <2>5. Limits[p.code] = promo[p.code].max
    BY <1>3, <2>1 DEF Limits
  <2> QED BY <2>1, <2>3, <2>4, <2>5 DEF Desk!MayRedeem, Limits, UsesLeft
<1>4. PlacedOrders' = Append(PlacedOrders, [user |-> u, key |-> k, payload |-> p])
  <2> DEFINE e == [user |-> u, key |-> k, payload |-> p]
             n == Len(orders)
  <2>1. n \in Nat /\ DOMAIN orders = 1..n /\ DOMAIN orders' = 1..(n + 1)
    BY <1>0, OrderIn, CommitOrders
  <2>2. \A i \in 1..n : orders'[i] = orders[i]
    BY <1>0, <2>1, CommitOrders
  <2>3. orders'[n + 1].user = u /\ orders'[n + 1].key = k /\ orders'[n + 1].payload = p
    BY <1>0, CommitOrders
  <2> DEFINE f == PlacedOrders
             g == PlacedOrders'
  <2>4. f = [i \in 1..n |-> f[i]] /\ Len(f) = n
    BY <2>1 DEF PlacedOrders
  <2>5. g = [i \in 1..(n + 1) |-> IF i = n + 1 THEN e ELSE f[i]]
    <3>1. g = [i \in 1..(n + 1) |-> g[i]]
      BY <2>1 DEF PlacedOrders
    <3>2. g[n + 1] = e
      BY <2>1, <2>3 DEF PlacedOrders
    <3>3. \A i \in 1..n : g[i] = f[i]
      BY <2>1, <2>2 DEF PlacedOrders
    <3> HIDE DEF e, f, g
    <3> QED BY <2>1, <3>1, <3>2, <3>3
  <2> HIDE DEF e, f, g, n
  <2>6. g = Append(f, e)
    BY <2>1, <2>4, <2>5
  <2> QED BY <2>6 DEF e, f, g
<1>5. Limits' = Limits
  BY <1>0, CountUseEffect DEF Limits, Commit
<1>6. ASSUME NEW v \in User, NEW j \in Key \cup {NoKey}, NEW q \in Payload,
             j # NoKey => ~Desk!PlacedBefore(v, j),
             q.code \in Code => Desk!MayRedeem(q.code),
             PlacedOrders' = Append(PlacedOrders, [user |-> v, key |-> j, payload |-> q])
      PROVE  Desk!Next
  BY <1>5, <1>6 DEF Desk!Next, Desk!Place, CodeIn, PlacedOrders, Limits
<1> HIDE DEF u, k, p
<1> QED BY <1>1, <1>2, <1>3, <1>4, <1>6

(* What a vendor does is an offer, or is not seen.                           *)
LEMMA VendorOffers ==
  ASSUME TypeInv, NEW e \in Code, Vendor(e)
  PROVE  [Desk!Next]_(Desk!vars)
<1>0. PromosTypeOK /\ promo[e] \in Promo
  BY DEF TypeInv, TypeOK, PromosTypeOK
<1>1. PlacedOrders' = PlacedOrders
  BY DEF Vendor, Tables, PlacedOrders
<1>2. CASE CreatePromo(e)
  <2>1. PICK l \in Limit, b \in BOOLEAN :
          promo' = [promo EXCEPT ![e] = [exists |-> TRUE, active |-> TRUE, used |-> 0,
                                         max |-> l, first_order_only |-> FALSE, asked |-> b]]
    BY <1>2 DEF CreatePromo
  <2>2. promo'[e].exists /\ promo'[e].max = l /\ \A c \in Code \ {e} : promo'[c] = promo[c]
    BY <1>0, <2>1 DEF PromosTypeOK
  <2>3. ~promo[e].exists
    BY <1>2 DEF CreatePromo
  <2>4. Limits[e] = NotOffered /\ Limits' = [Limits EXCEPT ![e] = l]
    <3>1. /\ DOMAIN Limits = Code /\ Limits = [c \in Code |-> Limits[c]]
          /\ DOMAIN Limits' = Code /\ Limits' = [c \in Code |-> Limits'[c]]
      BY DEF Limits
    <3>2. Limits[e] = NotOffered /\ Limits'[e] = l
      BY <2>2, <2>3 DEF Limits
    <3>3. \A c \in Code \ {e} : Limits'[c] = Limits[c]
      BY <2>2 DEF Limits
    <3> QED BY <3>1, <3>2, <3>3
  <2>5. Desk!Offer(e)
    BY <1>1, <2>4 DEF Desk!Offer, Limits, PlacedOrders
  <2> QED BY <2>5 DEF Desk!Next
<1>3. CASE DeactivatePromo(e)
  <2>1. \A c \in Code : promo'[c].exists = promo[c].exists /\ promo'[c].max = promo[c].max
    BY <1>0, <1>3 DEF DeactivatePromo, PromosTypeOK, Promo
  <2>2. Limits' = Limits
    BY <2>1 DEF Limits
  <2> QED BY <1>1, <2>2 DEF Desk!vars, Limits, PlacedOrders
<1> QED BY <1>2, <1>3 DEF Vendor

(* The service places orders as its contract says, for any number of users, keys,  *)
(* attempts and codes: a commit is one placing, an offer one offer, and nothing else *)
(* is seen.                                                                         *)
THEOREM PlaceOrderImplementsDesk == Spec => ImplementsDesk
<1>1. Init => Desk!Init
  <2> SUFFICES ASSUME Init PROVE Desk!Init
    OBVIOUS
  <2>1. PlacedOrders = <<>>
    BY DEF Init, PlacedOrders
  <2>2. Limits = [c \in Code |-> NotOffered]
    BY DEF Init, PromosInit, Limits, NoPromo
  <2> QED BY <2>1, <2>2 DEF Desk!Init, PlacedOrders, Limits
<1>2. KeyInv /\ PromoInv /\ [Next]_vars => [Desk!Next]_(Desk!vars)
  <2> SUFFICES ASSUME KeyInv, PromoInv, [Next]_vars
               PROVE  [Desk!Next]_(Desk!vars)
    OBVIOUS
  <2>1. TypeInv
    BY DEF KeyInv
  <2>2. ASSUME SameOrders, UNCHANGED promo
        PROVE  UNCHANGED Desk!vars
    BY <2>2, SameDesk DEF Desk!vars, PlacedOrders
  <2> QED BY <2>1, <2>2, DeskSteps, CommitPlaces, VendorOffers
<1> QED BY <1>1, <1>2, KeyInvInit, KeyInvStep, PromoInvInit, PromoInvStep, PTL
    DEF Spec, ImplementsDesk

=============================================================================
