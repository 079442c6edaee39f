----------------------------- MODULE OrderDesk ------------------------------
(***************************************************************************)
(* What placing orders promises: a request placed under a key is placed    *)
(* once, however often its client repeats it, and a promo code is redeemed *)
(* no more often than its vendor allowed.  PlaceOrder.tla is the code;     *)
(* this module is the contract it is measured by.                          *)
(***************************************************************************)
EXTENDS Naturals, Sequences, FiniteSets

CONSTANTS
  User, Key, NoKey, Payload,
  Code,                   \* promo codes
  CodeOf(_),              \* the code a payload redeems, or none
  Limit, NoLimit,         \* how often a code may be redeemed
  NotOffered              \* the code does not exist

VARIABLES
  placed,                 \* the orders, oldest first
  limit                   \* limit of each code

vars == <<placed, limit>>

Init == placed = <<>> /\ limit = [c \in Code |-> NotOffered]

Offer(c) ==
  /\ limit[c] = NotOffered
  /\ \E l \in Limit \cup {NoLimit} : limit' = [limit EXCEPT ![c] = l]
  /\ UNCHANGED placed

Uses(c) == Cardinality({i \in DOMAIN placed : CodeOf(placed[i].payload) = c})

MayRedeem(c) ==
  /\ limit[c] # NotOffered
  /\ limit[c] = NoLimit \/ Uses(c) < limit[c]

PlacedBefore(u, k) == \E i \in DOMAIN placed : placed[i].user = u /\ placed[i].key = k

Place(u, k, p) ==
  /\ k # NoKey => ~PlacedBefore(u, k)
  /\ CodeOf(p) \in Code => MayRedeem(CodeOf(p))
  /\ placed' = Append(placed, [user |-> u, key |-> k, payload |-> p])
  /\ UNCHANGED limit

Next ==
  \/ \E c \in Code : Offer(c)
  \/ \E u \in User, k \in Key \cup {NoKey}, p \in Payload : Place(u, k, p)

Spec == Init /\ [][Next]_vars
=============================================================================
