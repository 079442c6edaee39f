-------------------------- MODULE PlaceOrderProps ---------------------------
(***************************************************************************)
(* Properties of placing an order.                                         *)
(***************************************************************************)
EXTENDS PlaceOrder, FiniteSets

CONSTANT NotOffered     \* a promo code that does not exist

ASSUME NotOfferedAssumption == NotOffered \notin Limit \cup {NoLimit}

CodeIn(p) == p.code

Desk == INSTANCE OrderDesk WITH
  CodeOf <- CodeIn,
  placed <- [i \in DOMAIN orders |-> [user |-> orders[i].user, key |-> orders[i].key,
                                      payload |-> orders[i].payload]],
  limit <- [c \in Code |-> IF promo[c].exists THEN promo[c].max ELSE NotOffered]

OrdersUnder(u, k) == {i \in DOMAIN orders : orders[i].user = u /\ orders[i].key = k}

(* However often a request is repeated, overlaps itself or dies between    *)
(* its two commits: a key of a user with no row has placed nothing, a key  *)
(* with a row has placed exactly the one order the row answers with.       *)
OneOrderPerKey ==
  \A u \in User, k \in Key :
    LET row == idem[<<u, k>>] IN
    IF row = NoRow THEN OrdersUnder(u, k) = {}
    ELSE \E i \in DOMAIN orders :
           /\ OrdersUnder(u, k) = {i}
           /\ row.payload = orders[i].payload
           /\ row.response \in {0, i}

(* Every 201 answer names an order that exists, is the caller's and is the *)
(* one asked for; two answers to one key name the same order.              *)
AnswersAgree ==
  \A x \in answers :
    /\ x.order \in DOMAIN orders
    /\ orders[x.order].user = x.user
    /\ orders[x.order].payload = x.payload
    /\ \A y \in answers :
         x.user = y.user /\ x.key = y.key /\ x.key # NoKey => x.order = y.order

(* used_count is the number of orders placed with the code, cancelled ones *)
(* included, and never exceeds max_uses: no interleaving of redemptions,   *)
(* rollbacks and deactivation loses or invents a use.                      *)
PromoAccounting ==
  \A c \in Code :
    /\ promo[c].used = Cardinality({i \in DOMAIN orders : orders[i].payload.code = c})
    /\ promo[c].max # NoLimit => promo[c].used <= promo[c].max

(* Every order is announced to the restaurant's staff once, in the order   *)
(* of the commits, and a rolled back attempt or a replay announces none.   *)
Announced == outbox = [i \in DOMAIN orders |-> i]

(* No attempt waits for ever for a key or a promo row.                     *)
AttemptsEnd == \A a \in Attempt : att[a] # Idle ~> att[a] = Idle

(* The service places orders as its contract says.                         *)
ImplementsDesk == Desk!Init /\ [][Desk!Next]_(Desk!vars)

=============================================================================
