---------------------------- MODULE MCPlaceOrder ----------------------------
EXTENDS PlaceOrderProps, TLC

(* Users, slots and baskets are interchangeable; safety runs only.         *)
Alike == Permutations(User) \cup Permutations(Attempt) \cup Permutations(Basket)
=============================================================================
