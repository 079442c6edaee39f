----------------------------- MODULE Favourites -----------------------------
(***************************************************************************)
(* The hearts: the favourites of one user at the server, the store's set   *)
(* that a tap changes at once and a failed request puts back, and the page *)
(* that lists them.  The web client and the Mini App have the same store.  *)
(* A request may be overtaken by a later one, and it or its answer lost.   *)
(*                                                                         *)
(* Abstracted: pages of the list (all favourites fit in one).              *)
(***************************************************************************)
EXTENDS Integers

CONSTANTS
    Diner,         \* the restaurants
    Posts,         \* bound: requests in flight at once
    MaxHearts,     \* bound: taps on a heart
    MaxFaults      \* bound: requests and answers that are lost

ASSUME FavouritesAssumption ==
    0 \notin Diner /\ Posts \in Nat \ {0} /\ MaxHearts \in Nat /\ MaxFaults \in Nat

VARIABLES
    kept,          \* the table
    hearts,        \* favoriteIds
    album,         \* favorites of the page; Closed when it is not open
    posts,         \* the requests in flight
    tapped, faults,
    cause          \* why the copies may differ from the table

heartVars == <<kept, hearts, album, posts, tapped, faults, cause>>

Closed == {0}
Post == 1 .. Posts
NoPost == [leg |-> "none"]
Posted == [leg : {"out", "ok", "failed"}, verb : {"add", "remove", "all"},
           place : Diner \union Closed, for : {"store", "page", "gone"},
           before : SUBSET Diner, reply : SUBSET Diner]
Cause == {"lost", "undone", "swapped", "early", "dropped"}

FavouritesTypeOK ==
    /\ kept \subseteq Diner /\ hearts \subseteq Diner
    /\ album \in (SUBSET Diner) \union {Closed}
    /\ posts \in [Post -> Posted \union {NoPost}]
    /\ tapped \in 0 .. MaxHearts /\ faults \in 0 .. MaxFaults
    /\ cause \subseteq Cause

Open(verbs) == {p \in Post : posts[p].leg # "none" /\ posts[p].verb \in verbs}
Unused == {p \in Post : posts[p].leg = "none"}
NextPost == CHOOSE p \in Unused : TRUE
Mail(verb, place, for) ==
    posts' = [posts EXCEPT ![NextPost] =
      [leg |-> "out", verb |-> verb, place |-> place, for |-> for,
       before |-> hearts, reply |-> {}]]

(* The application asks for the favourites when it starts. *)
FavouritesInit ==
    /\ kept \in SUBSET Diner
    /\ hearts = {} /\ album = Closed
    /\ posts = [p \in Post |-> IF p = 1
         THEN [leg |-> "out", verb |-> "all", place |-> 0, for |-> "store",
               before |-> {}, reply |-> {}]
         ELSE NoPost]
    /\ tapped = 0 /\ faults = 0 /\ cause = {}

---------------------------------------------------------------------------
(* A tap changes the set at once and sends what makes it true. *)
Flipped(d) == IF d \in hearts THEN hearts \ {d} ELSE hearts \union {d}

Toggle(d, for) ==
    /\ Unused # {} /\ tapped < MaxHearts
    /\ hearts' = Flipped(d)
    /\ Mail(IF d \in hearts THEN "remove" ELSE "add", d, for)
    /\ tapped' = tapped + 1
    /\ cause' = cause
         \union (IF \E p \in Open({"add", "remove"}) : posts[p].place = d
                 THEN {"swapped"} ELSE {})
         \union (IF Open({"all"}) # {} THEN {"early"} ELSE {})
    /\ UNCHANGED <<kept, faults>>

TapHeart(d) == album = Closed /\ Toggle(d, "store") /\ UNCHANGED album

(* The page takes its entry away when the toggle is done, however it ended.  *)
TapOnPage(d) == album # Closed /\ d \in album /\ Toggle(d, "page") /\ UNCHANGED album

OpenAlbum ==
    /\ album = Closed /\ Unused # {}
    /\ album' = {} /\ Mail("all", 0, "page")
    /\ cause' = cause \union (IF Open({"add", "remove"}) # {} THEN {"early"} ELSE {})
    /\ UNCHANGED <<kept, hearts, tapped, faults>>

(* Answers that a closed page waits for are of no use to the next one. *)
CloseAlbum ==
    /\ album # Closed
    /\ album' = Closed
    /\ posts' = [p \in Post |-> IF posts[p].leg # "none" /\ posts[p].for = "page"
                               THEN [posts[p] EXCEPT !.for = "gone"] ELSE posts[p]]
    /\ cause' = cause \ {"dropped"}
    /\ UNCHANGED <<kept, hearts, tapped, faults>>

---------------------------------------------------------------------------
(* The server refuses to add what is there and to remove what is not. *)
Serves(q) == CASE q.verb = "add" -> q.place \notin kept
               [] q.verb = "remove" -> q.place \in kept
               [] OTHER -> TRUE

Outcome(q) == CASE q.verb = "add" -> kept \union {q.place}
                [] q.verb = "remove" -> kept \ {q.place}
                [] OTHER -> kept

ServePost(p) ==
    /\ posts[p].leg = "out"
    /\ IF Serves(posts[p])
       THEN /\ kept' = Outcome(posts[p])
            /\ posts' = [posts EXCEPT ![p] = [@ EXCEPT !.leg = "ok", !.reply = kept]]
       ELSE /\ posts' = [posts EXCEPT ![p] = [@ EXCEPT !.leg = "failed"]]
            /\ UNCHANGED kept
    /\ UNCHANGED <<hearts, album, tapped, faults, cause>>

LosePost(p) ==
    /\ posts[p].leg \in {"out", "ok"} /\ faults < MaxFaults
    /\ posts' = [posts EXCEPT ![p] = [@ EXCEPT !.leg = "failed"]]
    /\ faults' = faults + 1
    /\ cause' = IF posts[p].leg = "ok" \/ posts[p].verb = "all"
                THEN cause \union {"lost"} ELSE cause
    /\ UNCHANGED <<kept, hearts, album, tapped>>

---------------------------------------------------------------------------
(* A failed request puts back the set as it was before its tap: whatever      *)
(* else was tapped since is undone on the screen.                              *)
Mistake_PutBack(q) == hearts
PutBack(q) == q.before

Loaded(q) ==
    /\ hearts' = IF q.for = "store" /\ q.leg = "ok" THEN q.reply ELSE hearts
    /\ album' = IF q.for = "page" /\ q.leg = "ok" THEN q.reply ELSE album
    /\ UNCHANGED cause

Done(q) ==
    /\ hearts' = IF q.leg = "ok" THEN hearts ELSE PutBack(q)
    /\ album' = IF q.for = "page" THEN album \ {q.place} ELSE album
    /\ cause' = cause \union
         (IF q.leg = "failed" /\ q.before # Flipped(q.place)
          THEN {"undone"} ELSE {})
         \union (IF q.leg = "failed" /\ q.for = "page" THEN {"dropped"} ELSE {})

ReceivePost(p) ==
    /\ posts[p].leg \in {"ok", "failed"}
    /\ IF posts[p].verb = "all" THEN Loaded(posts[p]) ELSE Done(posts[p])
    /\ posts' = [posts EXCEPT ![p] = NoPost]
    /\ UNCHANGED <<kept, tapped, faults>>

FavouritesNext ==
    \/ \E d \in Diner : TapHeart(d) \/ TapOnPage(d)
    \/ OpenAlbum \/ CloseAlbum
    \/ \E p \in Post : ServePost(p) \/ LosePost(p) \/ ReceivePost(p)

FavouritesSpec == FavouritesInit /\ [][FavouritesNext]_heartVars
===========================================================================
