--------------------------- MODULE CheckoutProps ---------------------------
(* What a customer may expect of the cart and of the checkout.             *)
EXTENDS Checkout

Quiet == agent = Idle /\ \A c \in Slot : ~Busy(c)

(* When nothing is under way, the cart on the screen is the cart the server *)
(* keeps, whatever was added, removed, ordered or repeated - unless a       *)
(* request was lost, or one went past an earlier write: the store sends     *)
(* snapshots without an order (useOrderStore.js 47-76, 131-157, 190-191).   *)
CartsAgree == Quiet => Local = saved \/ past \intersect {"lost", "overtaken"} # {}

(* A cart holds dishes of one restaurant only, here and on the server, and  *)
(* so does every order - unless the product sheet of the web drawer was     *)
(* open while the cart became one of another restaurant (99-127;            *)
(* CartDrawer.jsx 656-661 adds to the restaurant of the moment).            *)
FromOne(c) == \A i \in Item : c.items[i] > 0 => Home[i] = c.rest
OneRestaurant ==
    (FromOne(Local) /\ FromOne(saved) /\ \A o \in placed : FromOne(o))
        \/ "switched" \in past

(* The same cart is ordered once, although every attempt carries a new      *)
(* idempotency key (218-220): twice only if an answer was lost or its page  *)
(* reloaded, the Mini App's drawer was closed on a running attempt, or the  *)
(* assistant orders as well.                                                *)
NoDoubleOrder ==
    \/ \A o, p \in placed : o.round = p.round => o = p
    \/ past \intersect {"order lost", "reloaded", "reopened", "agent"} # {}

(* The answer to an order empties the cart of what was ordered and nothing  *)
(* else, unless the cart was changed in the meantime (221-227).             *)
OrderTakesItsItems ==
    [][\A c \in Slot : call[c].phase = "answered" /\ ReceiveOrder(c) =>
          cart = call[c].body.items \/ "edited" \in past]_checkoutVars

(* A checkout that shows an error placed no order, unless the answer was    *)
(* lost or only clearing the server's cart failed (MainLayout.jsx 71-81).   *)
ErrorMeansNoOrder ==
    error => \/ ~\E o \in placed : o.n = attempt
             \/ past \intersect {"order lost", "clear lost"} # {}

(* An applied promo code is one of the restaurant the cart is of, unless    *)
(* its check was answered for another cart (CartDrawer.jsx 65-72, 98-116).  *)
PromoOfThisCart == promo \in {None, rest} \/ "late check" \in past

(* The order button is busy only while the order it sent, or the clearing   *)
(* after it, is under way: whatever becomes of them, it is free again.      *)
BusyWhileOrdering ==
    placing => \E c \in Slot : /\ Busy(c) /\ call[c].own
                               /\ call[c].kind \in {"order", "finish"}

(* The cart here, the cart there and the code applied to it agree; a cart is    *)
(* ordered once, what is reported of it is true, and the customer may go on.     *)
CheckoutSound ==
    /\ CheckoutTypeOK
    /\ CartsAgree
    /\ OneRestaurant
    /\ PromoOfThisCart
    /\ NoDoubleOrder
    /\ ErrorMeansNoOrder
    /\ BusyWhileOrdering
===========================================================================
