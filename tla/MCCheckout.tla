---------------------------- MODULE MCCheckout ----------------------------
(* From the menu to the order, in one run: the answers kept for strangers, and *)
(* the cart with what orders it.  They share no state, so `part` says which of   *)
(* them moves while the other rests as it started.                                *)
EXTENDS CheckoutProps, ResponseCache, TLC

VARIABLE part

(* Two dishes of one restaurant and one of another. *)
Kitchen == [i \in Item |-> IF i = "b1" THEN "b" ELSE "a"]
Limits == [i \in Item |-> IF i = "a1" THEN 2 ELSE 1]

Slots == Permutations(Slot)

Moving(i) == part = i

VisitInit ==
    /\ part \in {"cart", "cache"}
    /\ CheckoutInit /\ CacheInit
    /\ app = "web" => saved.items = Only("a1")     \* on the web a cart is already kept,
    /\ app = "mini" => saved = Nothing /\ Moving("cart")      \* in the Mini App none

Rests(i, vars) == IF Moving(i) THEN TRUE ELSE UNCHANGED vars
OthersRest ==
    /\ Rests("cart", checkoutVars)
    /\ Rests("cache", cacheVars)

VisitNext ==
    /\ UNCHANGED part
    /\ \/ Moving("cart") /\ CheckoutNext
       \/ Moving("cache") /\ CacheNext
    /\ OthersRest

VisitSpec ==
    VisitInit /\ [][VisitNext]_<<part, checkoutVars, cacheVars>>
=============================================================================
