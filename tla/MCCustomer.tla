----------------------------- MODULE MCCustomer -----------------------------
(* What a customer meets in one run: the pages of his orders, the inbox, the *)
(* hearts and the reviews.  They share no state, so `part` says which of them  *)
(* moves while the others rest as they started.                                 *)
EXTENDS CustomerProps, Reviews

VARIABLE part

Moving(i) == part = i
AReader == CHOOSE u \in Reader : TRUE

(* The restaurant starts with no review, or with one of each of two readers. *)
FewReviews ==
    /\ Len(review) # 1
    /\ \A i \in DOMAIN review : review[i].stars = Min(Stars) /\ (i = 1 => review[i].by = AReader)

CustomerInit ==
    /\ part \in {"views", "inbox", "hearts", "reviews"}
    /\ ViewInit /\ (Moving("views") \/ view = "page")
    /\ InboxInit /\ Cardinality(Unread) = (IF side = "bell" THEN 1 ELSE 2)
    /\ Moving("inbox") \/ side = "bell"
    /\ FavouritesInit /\ (Moving("hearts") \/ kept = {})
    /\ ReviewsInit /\ (IF Moving("reviews") THEN FewReviews ELSE review = <<>>)

Rests(i, vars) == IF Moving(i) THEN TRUE ELSE UNCHANGED vars
OthersRest ==
    /\ Rests("views", viewVars)
    /\ Rests("inbox", inboxVars)
    /\ Rests("hearts", heartVars)
    /\ Rests("reviews", reviewsVars)

CustomerNext ==
    /\ UNCHANGED part
    /\ \/ Moving("views") /\ ViewNext
       \/ Moving("inbox") /\ InboxNext
       \/ Moving("hearts") /\ FavouritesNext
       \/ Moving("reviews") /\ ReviewsNext
    /\ OthersRest

CustomerSpec ==
    CustomerInit
      /\ [][CustomerNext]_<<part, viewVars, inboxVars, heartVars, reviewsVars>>
=============================================================================
