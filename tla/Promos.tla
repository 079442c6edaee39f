------------------------------- MODULE Promos -------------------------------
(***************************************************************************)
(* Promo codes: a vendor creates and deactivates them, an order redeems    *)
(* one.  Redeeming spans three steps of the order's transaction: the row   *)
(* is read and validated, UPDATE ... WHERE used_count < max_uses takes its *)
(* lock, the commit of the order makes the new count visible and frees it. *)
(*                                                                         *)
(* Abstracted: the discount, and the restaurant a code belongs to (one     *)
(* restaurant is modelled; an order elsewhere is refused like any other    *)
(* order that fails validation).                                           *)
(***************************************************************************)
EXTENDS Naturals

CONSTANTS
  Code,           \* promo codes
  Limit,          \* values of max_uses that vendors choose
  NoLimit,        \* max_uses is NULL
  Attempt,        \* transactions that may hold the lock of a promo row
  NoAttempt       \* holder of a free lock

ASSUME PromosAssumption ==
  /\ Limit \subseteq (Nat \ {0}) \cup {NoLimit}
  /\ NoLimit \notin Nat
  /\ NoAttempt \notin Attempt

VARIABLES
  promo,          \* row of each code
  promo_lock      \* holder of the lock of that row

promo_vars == <<promo, promo_lock>>

(* first_order_only is the column; asked is what the vendor's request said *)
(* and is read by no action.                                               *)
Promo == [exists : BOOLEAN, active : BOOLEAN, used : Nat, max : Limit \cup {NoLimit},
          first_order_only : BOOLEAN, asked : BOOLEAN]

NoPromo == [exists |-> FALSE, active |-> FALSE, used |-> 0, max |-> NoLimit,
            first_order_only |-> FALSE, asked |-> FALSE]

PromosTypeOK ==
  /\ promo \in [Code -> Promo]
  /\ promo_lock \in [Code -> Attempt \cup {NoAttempt}]

PromosInit ==
  /\ promo = [c \in Code |-> NoPromo]
  /\ promo_lock = [c \in Code |-> NoAttempt]

-----------------------------------------------------------------------------
(* crud.create_promo copies six fields of the request: first_order_only    *)
(* is not among them and keeps its default.  A second code of the same     *)
(* name is refused, by the SELECT or by the unique index.                  *)
CreatePromo(c) ==
  /\ ~promo[c].exists
  /\ \E l \in Limit, b \in BOOLEAN :
       promo' = [promo EXCEPT ![c] =
                   [exists |-> TRUE, active |-> TRUE, used |-> 0, max |-> l,
                    first_order_only |-> FALSE, asked |-> b]]
  /\ UNCHANGED promo_lock

(* The UPDATE waits for an order that is redeeming the code.               *)
DeactivatePromo(c) ==
  /\ promo[c].exists /\ promo[c].active
  /\ promo_lock[c] = NoAttempt
  /\ promo' = [promo EXCEPT ![c].active = FALSE]
  /\ UNCHANGED promo_lock

UsesLeft(p) == IF p.max = NoLimit THEN TRUE ELSE p.used < p.max

(* _validate_promo_active, on the row as it was read.                      *)
Redeemable(c, first) ==
  /\ promo[c].exists
  /\ promo[c].active
  /\ UsesLeft(promo[c])
  /\ promo[c].first_order_only => first

(* Definitions named Mistake_X are plausible bugs in X; nothing uses them  *)
(* but the runs that show a property notices.                              *)
Mistake_IncrementMatches(c) == TRUE

(* The WHERE clause of increment_used_count, which PostgreSQL evaluates    *)
(* again on the committed row once it has the lock.                        *)
IncrementMatches(c) == UsesLeft(promo[c])

LockPromo(a, c) == promo_lock' = [promo_lock EXCEPT ![c] = a]

UnlockPromos(a) ==
  promo_lock' = [c \in Code |-> IF promo_lock[c] = a THEN NoAttempt ELSE promo_lock[c]]

(* The increment of an object the session does not hold.                   *)
Mistake_CountUse(codes) == UNCHANGED promo

(* used_count + 1 becomes visible; codes is what the order redeems, one    *)
(* code or none.                                                           *)
CountUse(codes) ==
  promo' = [c \in Code |-> IF c \in codes THEN [promo[c] EXCEPT !.used = @ + 1]
                           ELSE promo[c]]
=============================================================================
