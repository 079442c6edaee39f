--------------------------- MODULE CustomerProofs ---------------------------
(***************************************************************************)
(* Proofs about what a customer's pages show, for any orders, restaurants, *)
(* readers and requests in flight.                                         *)
(***************************************************************************)
EXTENDS CustomerProps, Reviews, FiniteSetTheorems, TLAPS

-----------------------------------------------------------------------------
(* Favourites.  While nothing has gone wrong ("dropped" only keeps the     *)
(* album from being the table), requests that change are of different      *)
(* places, none is open beside a load, and each heart is the table's       *)
(* but for the change that is on its way.                                  *)
Edits == Open({"add", "remove"})
(* A change is of a restaurant, and a page that waits is open.             *)
PostsWell ==
  \A p \in Post : posts[p].leg # "none" =>
    /\ posts[p].verb \in {"add", "remove"} => posts[p].place \in Diner
    /\ posts[p].for = "page" => album # Closed

Adds(p) == posts[p].verb = "add"

OneChangeEach == \A p, q \in Edits : posts[p].place = posts[q].place => p = q

LoadsAlone == Open({"all"}) = {} \/ Edits = {}

LoadsTrue ==
  \A p \in Open({"all"}) : posts[p].leg # "failed" /\ (posts[p].leg = "ok" => posts[p].reply = kept)

ChangesShown ==
  \A p \in Edits :
    /\ Adds(p) <=> posts[p].place \in hearts
    /\ Adds(p) <=> (IF posts[p].leg = "ok" THEN posts[p].place \in kept
                    ELSE posts[p].place \notin kept)

Untouched(d) == \A p \in Edits : posts[p].place # d

HeartsAgree ==
  (\A p \in Open({"all"}) : posts[p].for # "store") =>
    \A d \in Diner : Untouched(d) => (d \in hearts <=> d \in kept)

(* On the open album only its own removals are on their way; an entry      *)
(* stays until the answer.                                                 *)
AlbumOwn == album # Closed => \A p \in Edits : posts[p].for = "page"

AlbumAgrees ==
  album # Closed /\ cause = {} =>
    /\ \A p \in Edits : posts[p].verb = "remove"
    /\ (\A p \in Open({"all"}) : posts[p].for # "page") =>
         \A d \in Diner : d \in album <=>
           d \in kept \/ \E p \in Edits : posts[p].place = d /\ posts[p].leg = "ok"

Orderly ==
  /\ OneChangeEach /\ LoadsAlone /\ LoadsTrue /\ ChangesShown
  /\ HeartsAgree /\ AlbumOwn /\ AlbumAgrees

FavouritesInv ==
  /\ FavouritesTypeOK /\ PostsWell
  /\ cause \subseteq {"dropped"} => Orderly

LEMMA PostShape ==
  ASSUME FavouritesTypeOK, NEW p \in Post, posts[p].leg # "none"
  PROVE  /\ posts[p] \in Posted
         /\ posts[p].leg \in {"out", "ok", "failed"}
         /\ posts[p].verb \in {"add", "remove", "all"}
         /\ posts[p].place \in Diner \union Closed
         /\ posts[p].for \in {"store", "page", "gone"}
         /\ posts[p].before \in SUBSET Diner /\ posts[p].reply \in SUBSET Diner
         /\ posts[p].verb \in {"add", "remove"} <=> p \in Edits
         /\ posts[p].verb = "all" <=> p \in Open({"all"})
<1>1. posts[p] \in Posted
  BY DEF FavouritesTypeOK, NoPost
<1> QED BY <1>1 DEF Posted, Edits, Open

LEMMA OpenPosts ==
  /\ \A p \in Edits : p \in Post /\ posts[p].leg # "none" /\ posts[p].verb \in {"add", "remove"}
  /\ \A p \in Open({"all"}) : p \in Post /\ posts[p].leg # "none" /\ posts[p].verb = "all"
  BY DEF Edits, Open

(* What is sent takes a place that was free.                               *)
LEMMA MailEffect ==
  ASSUME FavouritesTypeOK, Unused # {}, NEW v \in Posted,
         posts' = [posts EXCEPT ![NextPost] = v]
  PROVE  \E n \in Post : /\ posts[n].leg = "none"
                         /\ posts' \in [Post -> Posted \union {NoPost}]
                         /\ posts'[n] = v
                         /\ \A p \in Post : p # n => posts'[p] = posts[p]
<1>1. NextPost \in Unused
  BY DEF NextPost
<1> QED BY <1>1 DEF Unused, FavouritesTypeOK

LEMMA FavouritesTypeInit == FavouritesInit => FavouritesTypeOK /\ PostsWell
<1> SUFFICES ASSUME FavouritesInit PROVE FavouritesTypeOK /\ PostsWell
  OBVIOUS
<1> DEFINE v == [leg |-> "out", verb |-> "all", place |-> 0, for |-> "store",
                 before |-> {}, reply |-> {}]
<1>1. v \in Posted
  BY DEF Posted, Closed
<1>2. posts \in [Post -> Posted \union {NoPost}]
  BY <1>1 DEF FavouritesInit
<1>3. FavouritesTypeOK
  <2>1. tapped \in 0 .. MaxHearts /\ faults \in 0 .. MaxFaults
    BY FavouritesAssumption DEF FavouritesInit
  <2>2. kept \subseteq Diner /\ hearts \subseteq Diner /\ cause \subseteq Cause
        /\ album \in (SUBSET Diner) \union {Closed}
    BY DEF FavouritesInit
  <2> QED BY <1>2, <2>1, <2>2 DEF FavouritesTypeOK
<1>4. PostsWell
  BY DEF FavouritesInit, PostsWell, NoPost
<1> QED BY <1>3, <1>4

LEMMA FavouritesTypeStep ==
  FavouritesTypeOK /\ PostsWell /\ [FavouritesNext]_heartVars => FavouritesTypeOK' /\ PostsWell'
<1> SUFFICES ASSUME FavouritesTypeOK, PostsWell, [FavouritesNext]_heartVars
             PROVE  FavouritesTypeOK' /\ PostsWell'
  OBVIOUS
<1>0. album = Closed => album \notin SUBSET Diner
  BY FavouritesAssumption DEF Closed
<1>1. ASSUME NEW d \in Diner, NEW for \in {"store", "page"}, Toggle(d, for), album' = album,
             for = "page" => album # Closed
      PROVE  FavouritesTypeOK' /\ PostsWell'
  <2> DEFINE v == [leg |-> "out", verb |-> IF d \in hearts THEN "remove" ELSE "add",
                   place |-> d, for |-> for, before |-> hearts, reply |-> {}]
  <2>1. v \in Posted /\ v.place = d /\ v.for = for
    BY DEF Posted, FavouritesTypeOK
  <2>a. posts' = [posts EXCEPT ![NextPost] = v] /\ Unused # {}
    BY <1>1 DEF Toggle, Mail
  <2> HIDE DEF v
  <2>b. PICK n \in Post : /\ posts' \in [Post -> Posted \union {NoPost}]
                         /\ posts'[n] = v
                         /\ \A p \in Post : p # n => posts'[p] = posts[p]
    BY <2>1, <2>a, MailEffect
  <2>2. hearts' \subseteq Diner /\ cause' \subseteq Cause /\ tapped' \in 0 .. MaxHearts
    BY <1>1, FavouritesAssumption DEF Toggle, Flipped, FavouritesTypeOK, Cause
  <2>3. FavouritesTypeOK'
    BY <1>1, <2>b, <2>2 DEF Toggle, FavouritesTypeOK
  <2>4. PostsWell'
    BY <1>1, <2>1, <2>b DEF PostsWell
  <2> QED BY <2>3, <2>4
<1>2. CASE OpenAlbum
  <2> DEFINE v == [leg |-> "out", verb |-> "all", place |-> 0, for |-> "page",
                   before |-> hearts, reply |-> {}]
  <2>1. v \in Posted /\ v.verb = "all"
    BY DEF Posted, FavouritesTypeOK, Closed
  <2>a. posts' = [posts EXCEPT ![NextPost] = v] /\ Unused # {}
    BY <1>2 DEF OpenAlbum, Mail
  <2> HIDE DEF v
  <2>b. PICK n \in Post : /\ posts' \in [Post -> Posted \union {NoPost}]
                         /\ posts'[n] = v
                         /\ \A p \in Post : p # n => posts'[p] = posts[p]
    BY <2>1, <2>a, MailEffect
  <2>2. album' = {} /\ {} # Closed
    BY <1>2 DEF OpenAlbum, Closed
  <2>3. FavouritesTypeOK'
    BY <1>2, <2>b DEF OpenAlbum, FavouritesTypeOK, Cause
  <2>4. PostsWell'
    BY <2>1, <2>2, <2>b DEF PostsWell
  <2> QED BY <2>3, <2>4
<1>3. CASE CloseAlbum
  <2>1. ASSUME NEW p \in Post, posts[p].leg # "none"
        PROVE  /\ [posts[p] EXCEPT !.for = "gone"] \in Posted
               /\ [posts[p] EXCEPT !.for = "gone"].verb = posts[p].verb
               /\ [posts[p] EXCEPT !.for = "gone"].place = posts[p].place
               /\ [posts[p] EXCEPT !.for = "gone"].for = "gone"
    <3>1. posts[p] \in Posted
      BY <2>1, PostShape
    <3> QED BY <3>1 DEF Posted
  <2>2. posts' \in [Post -> Posted \union {NoPost}]
    BY <1>3, <2>1 DEF CloseAlbum, FavouritesTypeOK
  <2>3. FavouritesTypeOK'
    <3>1. album' = Closed /\ cause' \subseteq Cause /\ UNCHANGED <<kept, hearts, tapped, faults>>
      BY <1>3 DEF CloseAlbum, FavouritesTypeOK
    <3> QED BY <2>2, <3>1 DEF FavouritesTypeOK
  <2>4. \A p \in Post : posts'[p].leg # "none" =>
          /\ posts[p].leg # "none"
          /\ posts'[p].verb = posts[p].verb /\ posts'[p].place = posts[p].place
          /\ posts'[p].for # "page"
    <3> SUFFICES ASSUME NEW p \in Post, posts'[p].leg # "none"
                 PROVE  /\ posts[p].leg # "none"
                        /\ posts'[p].verb = posts[p].verb /\ posts'[p].place = posts[p].place
                        /\ posts'[p].for # "page"
      OBVIOUS
    <3>1. posts'[p] = IF posts[p].leg # "none" /\ posts[p].for = "page"
                      THEN [posts[p] EXCEPT !.for = "gone"] ELSE posts[p]
      BY <1>3 DEF CloseAlbum
    <3> QED BY <2>1, <3>1
  <2>5. PostsWell'
    BY <2>4 DEF PostsWell
  <2> QED BY <2>3, <2>5
<1>4. ASSUME NEW p \in Post, ServePost(p)
      PROVE  FavouritesTypeOK' /\ PostsWell'
  <2>1. posts[p] \in Posted /\ kept \subseteq Diner /\ posts[p].leg # "none"
        /\ posts[p].verb \in {"add", "remove", "all"}
        /\ (posts[p].verb \in {"add", "remove"} => posts[p].place \in Diner)
    BY <1>4, PostShape DEF ServePost, FavouritesTypeOK, PostsWell
  <2>2. \E v \in Posted : /\ posts' = [posts EXCEPT ![p] = v]
                          /\ v.verb = posts[p].verb /\ v.place = posts[p].place
                          /\ v.for = posts[p].for
    <3>1. /\ [posts[p] EXCEPT !.leg = "ok", !.reply = kept] \in Posted
          /\ [posts[p] EXCEPT !.leg = "failed"] \in Posted
      BY <2>1 DEF Posted
    <3>2. CASE Serves(posts[p])
      <4> DEFINE v == [posts[p] EXCEPT !.leg = "ok", !.reply = kept]
      <4>1. posts' = [posts EXCEPT ![p] = v]
        BY <1>4, <3>2 DEF ServePost
      <4>2. v.verb = posts[p].verb /\ v.place = posts[p].place /\ v.for = posts[p].for
        BY <2>1 DEF Posted
      <4> QED BY <3>1, <4>1, <4>2
    <3>3. CASE ~Serves(posts[p])
      <4> DEFINE v == [posts[p] EXCEPT !.leg = "failed"]
      <4>1. posts' = [posts EXCEPT ![p] = v]
        BY <1>4, <3>3 DEF ServePost
      <4>2. v.verb = posts[p].verb /\ v.place = posts[p].place /\ v.for = posts[p].for
        BY <2>1 DEF Posted
      <4> QED BY <3>1, <4>1, <4>2
    <3> QED BY <3>2, <3>3
  <2>3. kept' \subseteq Diner
    <3>1. Outcome(posts[p]) \subseteq Diner
      <4>1. CASE posts[p].verb = "add"
        <5>1. Outcome(posts[p]) = kept \union {posts[p].place}
          BY <4>1 DEF Outcome
        <5> QED BY <2>1, <4>1, <5>1
      <4>2. CASE posts[p].verb = "remove"
        <5>1. Outcome(posts[p]) = kept \ {posts[p].place}
          BY <4>2 DEF Outcome
        <5> QED BY <2>1, <5>1
      <4>3. CASE posts[p].verb = "all"
        <5>1. Outcome(posts[p]) = kept
          BY <4>3 DEF Outcome
        <5> QED BY <2>1, <5>1
      <4> QED BY <2>1, <4>1, <4>2, <4>3
    <3>2. kept' = Outcome(posts[p]) \/ kept' = kept
      BY <1>4 DEF ServePost
    <3> QED BY <2>1, <3>1, <3>2
  <2>4. FavouritesTypeOK'
    BY <1>4, <2>2, <2>3 DEF ServePost, FavouritesTypeOK
  <2>5. PostsWell'
    BY <1>4, <2>1, <2>2 DEF ServePost, FavouritesTypeOK, PostsWell
  <2> QED BY <2>4, <2>5
<1>5. ASSUME NEW p \in Post, LosePost(p)
      PROVE  FavouritesTypeOK' /\ PostsWell'
  <2>1. posts[p] \in Posted /\ posts[p].leg # "none"
    BY <1>5, PostShape DEF LosePost
  <2>2. \E v \in Posted : /\ posts' = [posts EXCEPT ![p] = v]
                          /\ v.verb = posts[p].verb /\ v.place = posts[p].place
                          /\ v.for = posts[p].for
    <3> DEFINE v == [posts[p] EXCEPT !.leg = "failed"]
    <3>1. posts' = [posts EXCEPT ![p] = v]
      BY <1>5 DEF LosePost
    <3>2. v \in Posted /\ v.verb = posts[p].verb /\ v.place = posts[p].place /\ v.for = posts[p].for
      BY <2>1 DEF Posted
    <3> QED BY <3>1, <3>2
  <2>3. faults' \in 0 .. MaxFaults
    BY <1>5, FavouritesAssumption DEF LosePost, FavouritesTypeOK
  <2>4. FavouritesTypeOK'
    BY <1>5, <2>2, <2>3 DEF LosePost, FavouritesTypeOK, Cause
  <2>5. PostsWell'
    BY <1>5, <2>1, <2>2 DEF LosePost, FavouritesTypeOK, PostsWell
  <2> QED BY <2>4, <2>5
<1>6. ASSUME NEW p \in Post, ReceivePost(p)
      PROVE  FavouritesTypeOK' /\ PostsWell'
  <2>1. posts[p].leg # "none" /\ posts[p].before \in SUBSET Diner /\ posts[p].reply \in SUBSET Diner
        /\ (posts[p].for = "page" => album # Closed)
        /\ (posts[p].verb # "all" => posts[p].place \in Diner)
    BY <1>6, PostShape DEF ReceivePost, PostsWell
  <2>2. /\ posts' \in [Post -> Posted \union {NoPost}]
        /\ posts'[p] = NoPost /\ \A q \in Post : q # p => posts'[q] = posts[q]
    BY <1>6 DEF ReceivePost, FavouritesTypeOK
  <2>3. /\ kept' = kept /\ tapped' = tapped /\ faults' = faults
        /\ hearts' \subseteq Diner
        /\ album' \in (SUBSET Diner) \union {Closed}
        /\ album # Closed => album' # Closed
        /\ cause' \subseteq Cause
    <3>1. CASE posts[p].verb = "all"
      BY <1>0, <1>6, <2>1, <3>1, FavouritesAssumption
      DEF ReceivePost, Loaded, FavouritesTypeOK, Closed
    <3>2. CASE posts[p].verb # "all"
      <4>1. Done(posts[p]) /\ kept' = kept /\ tapped' = tapped /\ faults' = faults
        BY <1>6, <3>2 DEF ReceivePost
      <4>2. hearts' \subseteq Diner
        BY <2>1, <4>1 DEF Done, PutBack, FavouritesTypeOK
      <4>3. /\ album' \in (SUBSET Diner) \union {Closed}
            /\ album # Closed => album' # Closed
        <5>1. album' = IF posts[p].for = "page" THEN album \ {posts[p].place} ELSE album
          BY <4>1 DEF Done
        <5>2. album \in SUBSET Diner \/ album = Closed
          BY DEF FavouritesTypeOK
        <5>3. CASE posts[p].for = "page"
          <6>1. album' \in SUBSET Diner
            BY <2>1, <5>1, <5>2, <5>3
          <6>2. album' # Closed
            BY <6>1, FavouritesAssumption DEF Closed
          <6> QED BY <6>1, <6>2
        <5>4. CASE posts[p].for # "page"
          BY <5>1, <5>2, <5>4
        <5> QED BY <5>3, <5>4
      <4>4. cause' \subseteq Cause
        BY <4>1 DEF Done, FavouritesTypeOK, Cause
      <4> QED BY <4>1, <4>2, <4>3, <4>4
    <3> QED BY <3>1, <3>2
  <2>4. FavouritesTypeOK'
    BY <2>2, <2>3 DEF FavouritesTypeOK
  <2>5. PostsWell'
    BY <2>2, <2>3 DEF PostsWell, NoPost
  <2> QED BY <2>4, <2>5
<1>7. CASE UNCHANGED heartVars
  BY <1>7 DEF heartVars, FavouritesTypeOK, PostsWell
<1> QED BY <1>1, <1>2, <1>3, <1>4, <1>5, <1>6, <1>7 DEF FavouritesNext, TapHeart, TapOnPage

(* A step that changes one request leaves the others open as they were.    *)
LEMMA OthersOpen ==
  ASSUME NEW p \in Post, \A q \in Post : q # p => posts'[q] = posts[q]
  PROVE  /\ \A q \in Post : q # p => /\ q \in Edits' <=> q \in Edits
                                     /\ q \in Open({"all"})' <=> q \in Open({"all"})
         /\ p \in Edits' <=> posts'[p].leg # "none" /\ posts'[p].verb \in {"add", "remove"}
         /\ p \in Open({"all"})' <=> posts'[p].leg # "none" /\ posts'[p].verb = "all"
         /\ Edits' \subseteq Post /\ Open({"all"})' \subseteq Post
  BY DEF Edits, Open

LEMMA OrderlyInit == FavouritesInit => Orderly
<1> SUFFICES ASSUME FavouritesInit PROVE Orderly
  OBVIOUS
<1>1. Edits = {}
  BY DEF FavouritesInit, Edits, Open, NoPost
<1>2. \A p \in Open({"all"}) : posts[p].leg = "out" /\ posts[p].for = "store"
  BY DEF FavouritesInit, Open, NoPost
<1>3. 1 \in Open({"all"})
  BY FavouritesAssumption DEF FavouritesInit, Open, Post
<1>4. OneChangeEach /\ LoadsAlone /\ ChangesShown
  BY <1>1 DEF OneChangeEach, LoadsAlone, ChangesShown
<1>5. LoadsTrue
  BY <1>2 DEF LoadsTrue
<1>6. HeartsAgree
  BY <1>2, <1>3 DEF HeartsAgree
<1>7. AlbumOwn /\ AlbumAgrees
  BY DEF FavouritesInit, AlbumOwn, AlbumAgrees
<1> QED BY <1>4, <1>5, <1>6, <1>7 DEF Orderly

LEMMA ToggleOrderly ==
  ASSUME FavouritesTypeOK, PostsWell, Orderly, NEW d \in Diner, NEW for \in {"store", "page"},
         Toggle(d, for), album' = album, cause' \subseteq {"dropped"},
         album # Closed => for = "page" /\ d \in album
  PROVE  Orderly'
<1> DEFINE v == [leg |-> "out", verb |-> IF d \in hearts THEN "remove" ELSE "add",
                 place |-> d, for |-> for, before |-> hearts, reply |-> {}]
<1>1. /\ v \in Posted /\ v.leg = "out" /\ v.place = d /\ v.for = for
      /\ v.verb \in {"add", "remove"} /\ (v.verb = "add" <=> d \notin hearts)
  BY DEF Posted, FavouritesTypeOK
<1>2. posts' = [posts EXCEPT ![NextPost] = v] /\ Unused # {}
  BY DEF Toggle, Mail
<1> HIDE DEF v
<1>3. PICK n \in Post : /\ posts[n].leg = "none" /\ posts'[n] = v
                       /\ \A p \in Post : p # n => posts'[p] = posts[p]
  BY <1>1, <1>2, MailEffect
<1>4. /\ hearts' = Flipped(d) /\ kept' = kept
      /\ Untouched(d) /\ Open({"all"}) = {} /\ (cause' = {} => cause = {})
  BY DEF Toggle, Untouched, Edits
<1>5. /\ n \notin Edits /\ Edits \subseteq Post
      /\ \A p : p \in Edits' <=> p = n \/ p \in Edits
      /\ Open({"all"})' = {}
      /\ \A p \in Edits : posts'[p] = posts[p]
  <2>1. n \notin Edits /\ Edits \subseteq Post
    BY <1>3 DEF Edits, Open
  <2>2. /\ \A q \in Post : q # n => /\ q \in Edits' <=> q \in Edits
                                    /\ q \in Open({"all"})' <=> q \in Open({"all"})
        /\ n \in Edits' /\ n \notin Open({"all"})'
        /\ Edits' \subseteq Post /\ Open({"all"})' \subseteq Post
    <3>1. posts'[n].leg # "none" /\ posts'[n].verb \in {"add", "remove"}
      BY <1>1, <1>3
    <3> QED BY <1>3, <3>1, OthersOpen
  <2>3. \A p : p \in Edits' <=> p = n \/ p \in Edits
    BY <2>1, <2>2
  <2>4. Open({"all"})' = {}
    BY <1>4, <2>2
  <2>5. \A p \in Edits : posts'[p] = posts[p]
    BY <1>3, <2>1
  <2> QED BY <2>1, <2>3, <2>4, <2>5
<1>6. \A e \in Diner : e # d => (e \in hearts' <=> e \in hearts)
  BY <1>4 DEF Flipped
<1>7. d \in hearts' <=> d \notin hearts
  BY <1>4 DEF Flipped
<1>8. d \in hearts <=> d \in kept
  BY <1>4 DEF Orderly, HeartsAgree
<1>9. \A p \in Edits : posts[p].place \in Diner /\ posts[p].place # d
  BY <1>4, OpenPosts DEF PostsWell, Untouched
<1>10. OneChangeEach' /\ LoadsAlone' /\ LoadsTrue'
  <2>1. OneChangeEach'
    BY <1>1, <1>3, <1>5, <1>9 DEF Orderly, OneChangeEach
  <2> QED BY <1>5, <2>1 DEF LoadsAlone, LoadsTrue
<1>11. ChangesShown'
  <2>1. ASSUME NEW p \in Edits
        PROVE  /\ Adds(p)' <=> posts'[p].place \in hearts'
               /\ Adds(p)' <=> (IF posts'[p].leg = "ok" THEN posts'[p].place \in kept'
                               ELSE posts'[p].place \notin kept')
    BY <1>4, <1>5, <1>6, <1>9 DEF Orderly, ChangesShown, Adds
  <2>2. /\ Adds(n)' <=> d \in hearts'
        /\ Adds(n)' <=> d \notin kept'
    BY <1>1, <1>3, <1>4, <1>7, <1>8 DEF Adds
  <2>3. ASSUME NEW p \in Edits'
        PROVE  /\ Adds(p)' <=> posts'[p].place \in hearts'
               /\ Adds(p)' <=> (IF posts'[p].leg = "ok" THEN posts'[p].place \in kept'
                               ELSE posts'[p].place \notin kept')
    BY <1>1, <1>3, <1>5, <2>1, <2>2
  <2> QED BY <2>3 DEF ChangesShown
<1>12. HeartsAgree'
  <2>1. ASSUME NEW e \in Diner, Untouched(e)' PROVE e \in hearts' <=> e \in kept'
    <3>1. Untouched(e) /\ e # d
      BY <1>1, <1>3, <1>5, <2>1 DEF Untouched
    <3> QED BY <1>4, <1>6, <3>1 DEF Orderly, HeartsAgree
  <2> QED BY <2>1 DEF HeartsAgree
<1>13. AlbumOwn'
  BY <1>1, <1>3, <1>5 DEF Orderly, AlbumOwn
<1>14. AlbumAgrees'
  <2> SUFFICES ASSUME album # Closed, cause = {}
               PROVE  /\ \A p \in Edits' : posts'[p].verb = "remove"
                      /\ \A e \in Diner : e \in album <=>
                           e \in kept \/ \E p \in Edits' : posts'[p].place = e
                                                       /\ posts'[p].leg = "ok"
    BY <1>4 DEF AlbumAgrees
  <2>1. /\ \A p \in Edits : posts[p].verb = "remove"
        /\ \A e \in Diner : e \in album <=>
             e \in kept \/ \E p \in Edits : posts[p].place = e /\ posts[p].leg = "ok"
    BY <1>4 DEF Orderly, AlbumAgrees
  <2>2. d \in hearts
    BY <1>8, <1>9, <2>1
  <2>3. posts'[n].verb = "remove" /\ posts'[n].leg # "ok"
    BY <1>1, <1>3, <2>2
  <2>4. \A p \in Edits' : posts'[p].verb = "remove"
    BY <1>5, <2>1, <2>3
  <2>5. ASSUME NEW e \in Diner
        PROVE  (\E p \in Edits' : posts'[p].place = e /\ posts'[p].leg = "ok")
                 <=> (\E p \in Edits : posts[p].place = e /\ posts[p].leg = "ok")
    BY <1>5, <2>3
  <2> QED BY <2>1, <2>4, <2>5
<1> QED BY <1>10, <1>11, <1>12, <1>13, <1>14 DEF Orderly

LEMMA OpenAlbumOrderly ==
  ASSUME FavouritesTypeOK, PostsWell, Orderly, OpenAlbum, cause' \subseteq {"dropped"}
  PROVE  Orderly'
<1> DEFINE v == [leg |-> "out", verb |-> "all", place |-> 0, for |-> "page",
                 before |-> hearts, reply |-> {}]
<1>1. v \in Posted /\ v.leg = "out" /\ v.verb = "all" /\ v.for = "page"
  BY DEF Posted, FavouritesTypeOK, Closed
<1>2. posts' = [posts EXCEPT ![NextPost] = v] /\ Unused # {}
  BY DEF OpenAlbum, Mail
<1> HIDE DEF v
<1>3. PICK n \in Post : /\ posts[n].leg = "none" /\ posts'[n] = v
                       /\ \A p \in Post : p # n => posts'[p] = posts[p]
  BY <1>1, <1>2, MailEffect
<1>4. UNCHANGED <<kept, hearts>> /\ Edits = {}
  BY DEF OpenAlbum, Edits
<1>5. /\ Edits' = {} /\ n \notin Open({"all"}) /\ Open({"all"}) \subseteq Post
      /\ \A p : p \in Open({"all"})' <=> p = n \/ p \in Open({"all"})
      /\ \A p \in Open({"all"}) : posts'[p] = posts[p]
  <2>1. n \notin Open({"all"}) /\ Open({"all"}) \subseteq Post
    BY <1>3 DEF Open
  <2>2. /\ \A q \in Post : q # n => /\ q \in Edits' <=> q \in Edits
                                    /\ q \in Open({"all"})' <=> q \in Open({"all"})
        /\ n \notin Edits' /\ n \in Open({"all"})'
        /\ Edits' \subseteq Post /\ Open({"all"})' \subseteq Post
    <3>1. posts'[n].leg # "none" /\ posts'[n].verb = "all"
      BY <1>1, <1>3
    <3> QED BY <1>3, <3>1, OthersOpen
  <2>3. \A p : p \in Open({"all"})' <=> p = n \/ p \in Open({"all"})
    BY <2>1, <2>2
  <2>4. Edits' = {}
    BY <1>4, <2>2
  <2>5. \A p \in Open({"all"}) : posts'[p] = posts[p]
    BY <1>3, <2>1
  <2> QED BY <2>1, <2>3, <2>4, <2>5
<1>6. OneChangeEach' /\ LoadsAlone' /\ ChangesShown' /\ AlbumOwn'
  BY <1>5 DEF OneChangeEach, LoadsAlone, ChangesShown, AlbumOwn
<1>7. LoadsTrue'
  BY <1>1, <1>3, <1>4, <1>5 DEF Orderly, LoadsTrue
<1>8. HeartsAgree'
  BY <1>4, <1>5 DEF Orderly, HeartsAgree, Untouched
<1>9. AlbumAgrees'
  BY <1>1, <1>3, <1>5 DEF AlbumAgrees
<1> QED BY <1>6, <1>7, <1>8, <1>9 DEF Orderly

LEMMA CloseAlbumOrderly ==
  ASSUME FavouritesTypeOK, PostsWell, Orderly, CloseAlbum
  PROVE  Orderly'
<1>1. ASSUME NEW p \in Post
      PROVE  /\ p \in Edits' <=> p \in Edits
             /\ p \in Open({"all"})' <=> p \in Open({"all"})
             /\ p \in Edits \union Open({"all"}) =>
                  /\ posts'[p].verb = posts[p].verb /\ posts'[p].place = posts[p].place
                  /\ posts'[p].leg = posts[p].leg /\ posts'[p].reply = posts[p].reply
                  /\ posts'[p].for = "store" <=> posts[p].for = "store"
  <2>1. posts'[p] = IF posts[p].leg # "none" /\ posts[p].for = "page"
                    THEN [posts[p] EXCEPT !.for = "gone"] ELSE posts[p]
    BY DEF CloseAlbum
  <2>2. posts[p].leg # "none" => posts[p] \in Posted
    BY PostShape
  <2>3. /\ posts'[p].leg = posts[p].leg
        /\ posts[p].leg # "none" =>
             /\ posts'[p].verb = posts[p].verb /\ posts'[p].place = posts[p].place
             /\ posts'[p].reply = posts[p].reply
             /\ posts'[p].for = "store" <=> posts[p].for = "store"
    BY <2>1, <2>2 DEF Posted
  <2> QED BY <2>3 DEF Edits, Open
<1>2. /\ Edits' = Edits /\ Open({"all"})' = Open({"all"})
      /\ Edits \subseteq Post /\ Open({"all"}) \subseteq Post
  <2>1. /\ Edits' \subseteq Post /\ Open({"all"})' \subseteq Post
        /\ Edits \subseteq Post /\ Open({"all"}) \subseteq Post
    BY DEF Edits, Open
  <2> QED BY <1>1, <2>1
<1>3. UNCHANGED <<kept, hearts>> /\ album' = Closed
  BY DEF CloseAlbum
<1>4. OneChangeEach' /\ LoadsAlone' /\ LoadsTrue'
  BY <1>1, <1>2, <1>3 DEF Orderly, OneChangeEach, LoadsAlone, LoadsTrue
<1>5. ChangesShown'
  BY <1>1, <1>2, <1>3 DEF Orderly, ChangesShown, Adds
<1>6. HeartsAgree'
  BY <1>1, <1>2, <1>3 DEF Orderly, HeartsAgree, Untouched
<1>7. AlbumOwn' /\ AlbumAgrees'
  BY <1>3 DEF AlbumOwn, AlbumAgrees
<1> QED BY <1>4, <1>5, <1>6, <1>7 DEF Orderly

LEMMA ServeOrderly ==
  ASSUME FavouritesTypeOK, PostsWell, Orderly, NEW p \in Post, ServePost(p)
  PROVE  Orderly'
<1>1. /\ posts[p] \in Posted /\ posts[p].leg = "out" /\ kept \subseteq Diner
      /\ posts[p].verb \in {"add", "remove", "all"}
      /\ (posts[p].verb \in {"add", "remove"} => posts[p].place \in Diner)
      /\ (p \in Edits <=> posts[p].verb # "all") /\ (p \in Open({"all"}) <=> posts[p].verb = "all")
  BY PostShape DEF ServePost, FavouritesTypeOK, PostsWell
<1>2. Serves(posts[p])
  <2>1. CASE p \in Edits
    BY <1>1, <2>1 DEF Orderly, ChangesShown, Adds, Serves
  <2>2. CASE posts[p].verb = "all"
    BY <2>2 DEF Serves
  <2> QED BY <1>1, <2>1, <2>2
<1> DEFINE v == [posts[p] EXCEPT !.leg = "ok", !.reply = kept]
<1>3. /\ v \in Posted /\ v.leg = "ok" /\ v.verb = posts[p].verb /\ v.place = posts[p].place
      /\ v.for = posts[p].for /\ v.reply = kept
  BY <1>1 DEF Posted
<1>4. /\ posts' = [posts EXCEPT ![p] = v] /\ kept' = Outcome(posts[p])
      /\ UNCHANGED <<hearts, album, cause>>
  BY <1>2 DEF ServePost
<1> HIDE DEF v
<1>5. posts'[p] = v /\ \A q \in Post : q # p => posts'[q] = posts[q]
  BY <1>4 DEF FavouritesTypeOK
<1>6. /\ Edits' = Edits /\ Open({"all"})' = Open({"all"})
      /\ Edits \subseteq Post /\ Open({"all"}) \subseteq Post
  <2>1. Edits \subseteq Post /\ Open({"all"}) \subseteq Post
    BY DEF Edits, Open
  <2>2. posts'[p].leg # "none" /\ posts'[p].verb = posts[p].verb
    BY <1>3, <1>5
  <2> QED BY <1>1, <1>5, <2>1, <2>2, OthersOpen
<1>7. /\ posts[p].verb = "all" => kept' = kept
      /\ posts[p].verb = "add" => kept' = kept \union {posts[p].place}
      /\ posts[p].verb = "remove" => kept' = kept \ {posts[p].place}
  BY <1>4 DEF Outcome
<1>8. \A q \in Edits : q # p => posts[q].place # posts[p].place \/ p \notin Edits
  BY DEF Orderly, OneChangeEach
<1>9. OneChangeEach' /\ LoadsAlone'
  <2>1. \A q \in Edits : posts'[q].place = posts[q].place
    BY <1>3, <1>5, <1>6
  <2> QED BY <1>6, <2>1 DEF Orderly, OneChangeEach, LoadsAlone
<1>10. LoadsTrue'
  <2> SUFFICES ASSUME NEW q \in Open({"all"})
               PROVE  posts'[q].leg # "failed" /\ (posts'[q].leg = "ok" => posts'[q].reply = kept')
    BY <1>6 DEF LoadsTrue
  <2>1. p \notin Edits
    BY DEF Orderly, LoadsAlone
  <2>2. kept' = kept
    BY <1>1, <1>7, <2>1
  <2>3. CASE q = p
    BY <1>3, <1>5, <2>2, <2>3
  <2>4. CASE q # p
    BY <1>5, <1>6, <2>2, <2>4 DEF Orderly, LoadsTrue
  <2> QED BY <2>3, <2>4
<1>11. ChangesShown'
  <2> SUFFICES ASSUME NEW q \in Edits
               PROVE  /\ Adds(q)' <=> posts'[q].place \in hearts'
                      /\ Adds(q)' <=> (IF posts'[q].leg = "ok" THEN posts'[q].place \in kept'
                                      ELSE posts'[q].place \notin kept')
    BY <1>6 DEF ChangesShown
  <2>1. /\ Adds(q) <=> posts[q].place \in hearts
        /\ Adds(q) <=> (IF posts[q].leg = "ok" THEN posts[q].place \in kept
                        ELSE posts[q].place \notin kept)
    BY DEF Orderly, ChangesShown
  <2>2. CASE q = p
    BY <1>1, <1>3, <1>4, <1>5, <1>7, <2>1, <2>2 DEF Adds
  <2>3. CASE q # p
    <3>1. posts[q].place \in kept' <=> posts[q].place \in kept
      BY <1>1, <1>7, <1>8, <2>3
    <3> QED BY <1>4, <1>5, <1>6, <2>1, <2>3, <3>1 DEF Adds
  <2> QED BY <2>2, <2>3
<1>12. HeartsAgree'
  <2> SUFFICES ASSUME \A q \in Open({"all"}) : posts'[q].for # "store",
                      NEW d \in Diner, Untouched(d)'
               PROVE  d \in hearts' <=> d \in kept'
    BY <1>6 DEF HeartsAgree
  <2>1. \A q \in Open({"all"}) : posts[q].for # "store"
    BY <1>3, <1>5, <1>6
  <2>2. Untouched(d)
    BY <1>3, <1>5, <1>6 DEF Untouched
  <2>3. d \in hearts <=> d \in kept
    BY <2>1, <2>2 DEF Orderly, HeartsAgree
  <2>4. d \in kept' <=> d \in kept
    BY <1>1, <1>7, <2>2 DEF Untouched
  <2> QED BY <1>4, <2>3, <2>4
<1>13. AlbumOwn'
  BY <1>3, <1>4, <1>5, <1>6 DEF Orderly, AlbumOwn
<1>14. AlbumAgrees'
  <2> SUFFICES ASSUME album # Closed, cause = {}
               PROVE  /\ \A q \in Edits : posts'[q].verb = "remove"
                      /\ (\A q \in Open({"all"}) : posts'[q].for # "page") =>
                           \A d \in Diner : d \in album <=>
                             d \in kept' \/ \E q \in Edits : posts'[q].place = d
                                                         /\ posts'[q].leg = "ok"
    BY <1>4, <1>6 DEF AlbumAgrees
  <2>1. /\ \A q \in Edits : posts[q].verb = "remove"
        /\ (\A q \in Open({"all"}) : posts[q].for # "page") =>
             \A d \in Diner : d \in album <=>
               d \in kept \/ \E q \in Edits : posts[q].place = d /\ posts[q].leg = "ok"
    BY DEF Orderly, AlbumAgrees
  <2>2. \A q \in Edits : posts'[q].verb = "remove"
    BY <1>3, <1>5, <1>6, <2>1
  <2>3. ASSUME \A q \in Open({"all"}) : posts'[q].for # "page", NEW d \in Diner
        PROVE  d \in album <=> d \in kept' \/ \E q \in Edits : posts'[q].place = d
                                                         /\ posts'[q].leg = "ok"
    <3>1. d \in album <=> d \in kept \/ \E q \in Edits : posts[q].place = d /\ posts[q].leg = "ok"
      <4>1. \A q \in Open({"all"}) : posts[q].for # "page"
        BY <1>3, <1>5, <1>6, <2>3
      <4> QED BY <2>1, <4>1
    <3>2. CASE p \in Edits /\ posts[p].place = d
      <4>1. d \in kept /\ posts'[p].place = d /\ posts'[p].leg = "ok"
        BY <1>1, <1>3, <1>5, <2>1, <3>2 DEF Orderly, ChangesShown, Adds
      <4> QED BY <3>1, <3>2, <4>1
    <3>3. CASE ~(p \in Edits /\ posts[p].place = d)
      <4>1. d \in kept' <=> d \in kept
        BY <1>1, <1>7, <3>3
      <4>2. (\E q \in Edits : posts'[q].place = d /\ posts'[q].leg = "ok")
              <=> (\E q \in Edits : posts[q].place = d /\ posts[q].leg = "ok")
        BY <1>3, <1>5, <1>6, <3>3
      <4> QED BY <3>1, <4>1, <4>2
    <3> QED BY <3>2, <3>3
  <2> QED BY <2>2, <2>3
<1> QED BY <1>9, <1>10, <1>11, <1>12, <1>13, <1>14 DEF Orderly

LEMMA LoseOrderly ==
  ASSUME FavouritesTypeOK, PostsWell, Orderly, NEW p \in Post, LosePost(p),
         cause' \subseteq {"dropped"}
  PROVE  Orderly'
<1>1. /\ posts[p] \in Posted /\ posts[p].leg = "out" /\ posts[p].verb \in {"add", "remove"}
      /\ p \in Edits
  BY PostShape DEF LosePost
<1> DEFINE v == [posts[p] EXCEPT !.leg = "failed"]
<1>2. /\ v.leg = "failed" /\ v.verb = posts[p].verb /\ v.place = posts[p].place
      /\ v.for = posts[p].for
  BY <1>1 DEF Posted
<1>3. posts' = [posts EXCEPT ![p] = v] /\ UNCHANGED <<kept, hearts, album>> /\ cause' = cause
  BY <1>1 DEF LosePost
<1> HIDE DEF v
<1>4. posts'[p] = v /\ \A q \in Post : q # p => posts'[q] = posts[q]
  BY <1>3 DEF FavouritesTypeOK
<1>5. /\ Edits' = Edits /\ Open({"all"})' = {} /\ Open({"all"}) = {} /\ Edits \subseteq Post
  <2>1. Edits \subseteq Post /\ Open({"all"}) = {}
    BY <1>1 DEF Edits, Open, Orderly, LoadsAlone
  <2>2. /\ p \in Edits' /\ p \notin Open({"all"})'
        /\ Edits' \subseteq Post /\ Open({"all"})' \subseteq Post
        /\ \A q \in Post : q # p => (q \in Edits' <=> q \in Edits)
        /\ \A q \in Post : q # p => q \notin Open({"all"})'
    <3>1. posts'[p].leg # "none" /\ posts'[p].verb \in {"add", "remove"}
      BY <1>1, <1>2, <1>4
    <3> QED BY <1>4, <2>1, <3>1, OthersOpen
  <2> QED BY <1>1, <2>1, <2>2
<1>6. \A q \in Edits : /\ posts'[q].verb = posts[q].verb /\ posts'[q].place = posts[q].place
                       /\ posts'[q].for = posts[q].for
                       /\ (posts'[q].leg = "ok" <=> posts[q].leg = "ok")
  BY <1>1, <1>2, <1>4, <1>5
<1>7. OneChangeEach' /\ LoadsAlone' /\ LoadsTrue'
  BY <1>5, <1>6 DEF Orderly, OneChangeEach, LoadsAlone, LoadsTrue
<1>8. ChangesShown'
  BY <1>3, <1>5, <1>6 DEF Orderly, ChangesShown, Adds
<1>9. HeartsAgree'
  BY <1>3, <1>5, <1>6 DEF Orderly, HeartsAgree, Untouched
<1>10. AlbumOwn'
  BY <1>3, <1>5, <1>6 DEF Orderly, AlbumOwn
<1>11. AlbumAgrees'
  BY <1>3, <1>5, <1>6 DEF Orderly, AlbumAgrees
<1> QED BY <1>7, <1>8, <1>9, <1>10, <1>11 DEF Orderly

LEMMA LoadedOrderly ==
  ASSUME FavouritesTypeOK, PostsWell, Orderly, NEW p \in Post, posts[p].verb = "all",
         ReceivePost(p)
  PROVE  Orderly'
<1>1. /\ p \in Open({"all"}) /\ posts[p].leg = "ok" /\ posts[p].reply = kept
      /\ Edits = {}
  BY DEF ReceivePost, Open, Orderly, LoadsTrue, LoadsAlone
<1>2. /\ hearts' = IF posts[p].for = "store" THEN kept ELSE hearts
      /\ album' = IF posts[p].for = "page" THEN kept ELSE album
      /\ kept' = kept /\ cause' = cause
  BY <1>1 DEF ReceivePost, Loaded
<1>3. posts'[p] = NoPost /\ \A q \in Post : q # p => posts'[q] = posts[q]
  BY DEF ReceivePost, FavouritesTypeOK
<1>4. /\ Edits' = {} /\ \A q \in Open({"all"})' : q # p /\ q \in Open({"all"}) /\ q \in Post
      /\ \A q \in Open({"all"}) : q # p => q \in Open({"all"})'
  <2>1. Open({"all"}) \subseteq Post /\ posts'[p].leg = "none"
    BY <1>3 DEF Open, NoPost
  <2> QED BY <1>1, <1>3, <2>1, OthersOpen
<1>5. OneChangeEach' /\ LoadsAlone' /\ ChangesShown' /\ AlbumOwn'
  BY <1>4 DEF OneChangeEach, LoadsAlone, ChangesShown, AlbumOwn
<1>6. LoadsTrue'
  BY <1>2, <1>3, <1>4 DEF Orderly, LoadsTrue
<1>7. HeartsAgree'
  <2>1. CASE posts[p].for = "store"
    BY <1>2, <2>1 DEF HeartsAgree
  <2>2. CASE posts[p].for # "store"
    <3> SUFFICES ASSUME \A q \in Open({"all"})' : posts'[q].for # "store", NEW d \in Diner
                 PROVE  d \in hearts' <=> d \in kept'
      BY DEF HeartsAgree
    <3>1. \A q \in Open({"all"}) : posts[q].for # "store"
      BY <1>3, <1>4, <2>2, OpenPosts
    <3> QED BY <1>1, <1>2, <2>2, <3>1 DEF Orderly, HeartsAgree, Untouched
  <2> QED BY <2>1, <2>2
<1>8. AlbumAgrees'
  <2>1. CASE posts[p].for = "page"
    BY <1>2, <1>4, <2>1 DEF AlbumAgrees
  <2>2. CASE posts[p].for # "page"
    <3> SUFFICES ASSUME album # Closed, cause = {},
                        \A q \in Open({"all"})' : posts'[q].for # "page", NEW d \in Diner
                 PROVE  d \in album <=> d \in kept
      BY <1>2, <1>4, <2>2 DEF AlbumAgrees
    <3>1. \A q \in Open({"all"}) : posts[q].for # "page"
      BY <1>3, <1>4, <2>2, OpenPosts
    <3> QED BY <1>1, <3>1 DEF Orderly, AlbumAgrees
  <2> QED BY <2>1, <2>2
<1> QED BY <1>5, <1>6, <1>7, <1>8 DEF Orderly

LEMMA DoneOrderly ==
  ASSUME FavouritesTypeOK, PostsWell, Orderly, NEW p \in Post, posts[p].verb # "all",
         ReceivePost(p), cause' \subseteq {"dropped"}
  PROVE  Orderly'
<1> DEFINE d == posts[p].place
<1>1. /\ posts[p].leg \in {"ok", "failed"} /\ p \in Edits /\ d \in Diner
      /\ posts[p].verb \in {"add", "remove"} /\ hearts \subseteq Diner
  BY PostShape DEF ReceivePost, PostsWell, FavouritesTypeOK
<1>2. /\ posts[p].leg = "ok" => hearts' = hearts
      /\ posts[p].leg = "failed" => hearts' = Flipped(d)
      /\ album' = IF posts[p].for = "page" THEN album \ {d} ELSE album
      /\ kept' = kept
      /\ cause' = {} => cause = {} /\ (posts[p].leg = "ok" \/ posts[p].for # "page")
  <2>1. Done(posts[p]) /\ kept' = kept
    BY DEF ReceivePost
  <2>2. posts[p].leg = "failed" => posts[p].before = Flipped(d)
    BY <2>1 DEF Done
  <2>3. cause' = {} => cause = {} /\ (posts[p].leg = "ok" \/ posts[p].for # "page")
    BY <1>1, <2>1 DEF Done
  <2>4. /\ hearts' = IF posts[p].leg = "ok" THEN hearts ELSE posts[p].before
        /\ album' = IF posts[p].for = "page" THEN album \ {d} ELSE album
    BY <2>1 DEF Done, PutBack
  <2> QED BY <2>1, <2>2, <2>3, <2>4
<1>3. posts'[p] = NoPost /\ \A q \in Post : q # p => posts'[q] = posts[q]
  BY DEF ReceivePost, FavouritesTypeOK
<1>4. /\ Open({"all"}) = {} /\ Open({"all"})' = {}
      /\ \A q \in Edits' : q # p /\ q \in Edits
      /\ \A q \in Edits : q # p => q \in Edits'
      /\ \A q \in Edits : q # p => posts'[q] = posts[q] /\ posts[q].place # d
  <2>1. Edits \subseteq Post /\ posts'[p].leg = "none"
    BY <1>3 DEF Edits, Open, NoPost
  <2>2. Open({"all"}) = {}
    BY <1>1 DEF Orderly, LoadsAlone
  <2>3. \A q \in Edits : q # p => posts'[q] = posts[q] /\ posts[q].place # d
    BY <1>1, <1>3, <2>1 DEF Orderly, OneChangeEach
  <2> QED BY <1>3, <2>1, <2>2, <2>3, OthersOpen
<1> HIDE DEF d
<1>5. \A e \in Diner : e # d => (e \in hearts' <=> e \in hearts)
  BY <1>1, <1>2 DEF Flipped
<1>6. d \in hearts' <=> d \in kept
  <2>1. /\ Adds(p) <=> d \in hearts
        /\ Adds(p) <=> (IF posts[p].leg = "ok" THEN d \in kept ELSE d \notin kept)
    BY <1>1 DEF Orderly, ChangesShown, d
  <2>2. CASE posts[p].leg = "ok"
    BY <1>2, <2>1, <2>2
  <2>3. CASE posts[p].leg = "failed"
    BY <1>1, <1>2, <2>1, <2>3 DEF Flipped
  <2> QED BY <1>1, <2>2, <2>3
<1>7. OneChangeEach' /\ LoadsAlone' /\ LoadsTrue'
  BY <1>4 DEF Orderly, OneChangeEach, LoadsAlone, LoadsTrue
<1>8. ChangesShown'
  <2>1. \A q \in Edits : posts[q].place \in Diner
    BY OpenPosts DEF PostsWell
  <2> QED BY <1>2, <1>4, <1>5, <2>1 DEF Orderly, ChangesShown, Adds
<1>9. HeartsAgree'
  <2>1. ASSUME NEW e \in Diner, Untouched(e)' PROVE e \in hearts' <=> e \in kept'
    <3>1. CASE e = d
      BY <1>2, <1>6, <3>1
    <3>2. CASE e # d
      <4>1. Untouched(e)
        BY <1>4, <2>1, <3>2 DEF Untouched, d
      <4> QED BY <1>2, <1>4, <1>5, <3>2, <4>1 DEF Orderly, HeartsAgree
    <3> QED BY <3>1, <3>2
  <2> QED BY <2>1 DEF HeartsAgree
<1>10. album = Closed => album' = Closed
  BY <1>2 DEF PostsWell, ReceivePost
<1>11. AlbumOwn'
  BY <1>4, <1>10 DEF Orderly, AlbumOwn
<1>12. AlbumAgrees'
  <2> SUFFICES ASSUME album' # Closed, cause' = {}
               PROVE  /\ \A q \in Edits' : posts'[q].verb = "remove"
                      /\ \A e \in Diner : e \in album' <=>
                           e \in kept' \/ \E q \in Edits' : posts'[q].place = e
                                                        /\ posts'[q].leg = "ok"
    BY <1>4 DEF AlbumAgrees
  <2>1. /\ \A q \in Edits : posts[q].verb = "remove"
        /\ \A e \in Diner : e \in album <=>
             e \in kept \/ \E q \in Edits : posts[q].place = e /\ posts[q].leg = "ok"
    BY <1>2, <1>4, <1>10 DEF Orderly, AlbumAgrees
  <2>2. posts[p].for = "page" /\ posts[p].leg = "ok" /\ posts[p].verb = "remove"
    BY <1>1, <1>2, <1>10, <2>1 DEF Orderly, AlbumOwn
  <2>3. album' = album \ {d} /\ d \notin kept
    BY <1>1, <1>2, <2>2 DEF Orderly, ChangesShown, Adds, d
  <2>4. ASSUME NEW e \in Diner
        PROVE  e \in album' <=> e \in kept' \/ \E q \in Edits' : posts'[q].place = e
                                                             /\ posts'[q].leg = "ok"
    <3>1. CASE e = d
      BY <1>2, <1>4, <2>3, <3>1
    <3>2. CASE e # d
      <4>1. (\E q \in Edits' : posts'[q].place = e /\ posts'[q].leg = "ok")
              <=> (\E q \in Edits : posts[q].place = e /\ posts[q].leg = "ok")
        BY <1>4, <3>2 DEF d
      <4> QED BY <1>2, <2>1, <2>3, <3>2, <4>1
    <3> QED BY <3>1, <3>2
  <2> QED BY <1>4, <2>1, <2>4
<1> QED BY <1>7, <1>8, <1>9, <1>11, <1>12 DEF Orderly

LEMMA FavouritesStep ==
  FavouritesInv /\ [FavouritesNext]_heartVars => FavouritesInv'
<1> SUFFICES ASSUME FavouritesInv, [FavouritesNext]_heartVars PROVE FavouritesInv'
  OBVIOUS
<1>1. /\ FavouritesTypeOK /\ PostsWell /\ FavouritesTypeOK' /\ PostsWell'
      /\ cause \subseteq {"dropped"} => Orderly
  BY FavouritesTypeStep DEF FavouritesInv
<1>2. ASSUME cause' \subseteq {"dropped"} PROVE Orderly'
  <2>1. ASSUME NEW d \in Diner, TapHeart(d) \/ TapOnPage(d) PROVE Orderly'
    <3>1. PICK for \in {"store", "page"} :
             /\ Toggle(d, for) /\ album' = album
             /\ album # Closed => for = "page" /\ d \in album
      BY <2>1 DEF TapHeart, TapOnPage
    <3>2. Orderly
      BY <1>1, <1>2, <3>1 DEF Toggle
    <3> QED BY <1>1, <1>2, <3>1, <3>2, ToggleOrderly
  <2>2. CASE OpenAlbum
    BY <1>1, <1>2, <2>2, OpenAlbumOrderly DEF OpenAlbum
  <2>3. CASE CloseAlbum
    BY <1>1, <1>2, <2>3, CloseAlbumOrderly DEF CloseAlbum
  <2>4. ASSUME NEW p \in Post, ServePost(p) PROVE Orderly'
    BY <1>1, <1>2, <2>4, ServeOrderly DEF ServePost
  <2>5. ASSUME NEW p \in Post, LosePost(p) PROVE Orderly'
    BY <1>1, <1>2, <2>5, LoseOrderly DEF LosePost
  <2>6. ASSUME NEW p \in Post, ReceivePost(p) PROVE Orderly'
    <3>1. cause \subseteq cause'
      BY <2>6 DEF ReceivePost, Loaded, Done
    <3> QED BY <1>1, <1>2, <2>6, <3>1, LoadedOrderly, DoneOrderly
  <2>7. CASE UNCHANGED heartVars
    BY <1>1, <1>2, <2>7
    DEF heartVars, Orderly, OneChangeEach, LoadsAlone, LoadsTrue, ChangesShown, HeartsAgree,
        AlbumOwn, AlbumAgrees, Edits, Open, Untouched, Adds
  <2> QED BY <2>1, <2>2, <2>3, <2>4, <2>5, <2>6, <2>7 DEF FavouritesNext
<1> QED BY <1>1, <1>2 DEF FavouritesInv

(* When nothing is on its way the hearts are the table and the open page   *)
(* lists it, but for the sequences FavouritesHonest names - whatever the   *)
(* taps, the losses and the order of the answers (useFavoriteStore.js      *)
(* 21-43, FavoritesPage.jsx 15-39).                                        *)
THEOREM FavouritesStayHonest == FavouritesSpec => []FavouritesHonest
<1>1. FavouritesInit => FavouritesInv
  BY FavouritesTypeInit, OrderlyInit DEF FavouritesInv
<1>2. FavouritesInv => FavouritesHonest
  <2> SUFFICES ASSUME FavouritesInv PROVE FavouritesHonest
    OBVIOUS
  <2>1. FavouritesTypeOK
    BY DEF FavouritesInv
  <2>2. HeartsQuiet => Edits = {} /\ Open({"all"}) = {}
    BY DEF HeartsQuiet, Unused, Edits, Open
  <2>3. HeartsHonest
    <3> SUFFICES ASSUME HeartsQuiet, cause \subseteq {"dropped"} PROVE hearts = kept
      BY DEF HeartsHonest
    <3>1. \A d \in Diner : d \in hearts <=> d \in kept
      BY <2>2 DEF FavouritesInv, Orderly, HeartsAgree, Untouched
    <3> QED BY <2>1, <3>1 DEF FavouritesTypeOK
  <2>4. AlbumHonest
    <3> SUFFICES ASSUME HeartsQuiet, album # Closed, cause = {} PROVE album = kept
      BY DEF AlbumHonest
    <3>1. \A d \in Diner : d \in album <=> d \in kept
      BY <2>2 DEF FavouritesInv, Orderly, AlbumAgrees
    <3>2. album \subseteq Diner
      BY <2>1 DEF FavouritesTypeOK
    <3> QED BY <2>1, <3>1, <3>2 DEF FavouritesTypeOK
  <2> QED BY <2>1, <2>3, <2>4 DEF FavouritesHonest
<1> QED BY <1>1, <1>2, FavouritesStep, PTL DEF FavouritesSpec

-----------------------------------------------------------------------------
(* Reviews: the kept average.  A request that runs alone has read the      *)
(* figures that are kept and counts the rows that will be; but for one     *)
(* between its two commits, and after doubt, the figures are right.        *)
Lone(t) == Inside(t) /\ tasks[t].alone

LoneIsAlone == \A t, s \in Task : Lone(t) /\ Inside(s) => s = t

LoneFigures ==
  \A t \in Task : Lone(t) =>
    /\ tasks[t].loaded = rating
    /\ tasks[t].at = "computed" => tasks[t].new = Tally(Edited(tasks[t]))

Halfway(t) ==
  /\ tasks[t] # Ended
  /\ tasks[t].at \in {"written", "computed"} /\ tasks[t].what \in {"create", "delete"}

FiguresKept == doubt = {} /\ (\A t \in Task : ~Halfway(t)) => rating = Tally(review)

(* What a request is about, and what it saw, is there; an edit or a        *)
(* removal is of a review of the reader who asked.                         *)
RequestWell(t) ==
  tasks[t] # Ended =>
    /\ tasks[t].got \subseteq DOMAIN review
    /\ Inside(t) => tasks[t].what \in Changing
    /\ \/ tasks[t].what = "delete"
       \/ tasks[t].what = "update" /\ tasks[t].at \in {"checked", "written", "computed"}
       => tasks[t].review \in DOMAIN review /\ review[tasks[t].review].by = tasks[t].by

RequestsWell == \A t \in Task : RequestWell(t)

(* A reader whose requests have not crossed has one in flight at most, and *)
(* creates only when he has none.                                          *)
Of(t, u) == tasks[t] # Ended /\ tasks[t].by = u

AtMostOne(u) == \A i, j \in Live({u}) : i = j

Uncrossed(u) == "crossed" \notin story[u]

Tidy(u) ==
  /\ "twin" \notin story[u] => AtMostOne(u)
  /\ Uncrossed(u) =>
       /\ "twin" \notin story[u]
       /\ \A s, t \in Task : Of(s, u) /\ Of(t, u) => s = t
       /\ \A t \in Task : Of(t, u) /\ tasks[t].what = "create" /\ tasks[t].at = "checked" =>
            Live({u}) = {}

(* The page of a reader with no mishap knows his review, and what is in    *)
(* flight for him will keep it so.                                         *)
Clean(u) == story[u] \intersect {"crossed", "died", "left out"} = {}

Knows(u, t) ==
  LET q == tasks[t] IN
  /\ q.at # "failed"
  /\ q.what = "list" /\ q.at = "answered" => {i \in q.got : review[i].by = u} = Live({u})
  /\ q.what = "create" /\ q.at \in {"sent", "loaded", "checked"} => Live({u}) = {}
  /\ q.what = "update" /\ q.at \in {"sent", "loaded"} => Live({u}) # {}
  /\ q.what = "delete" /\ q.at \in {"sent", "loaded", "checked"} =>
       q.review \in Live({u}) /\ Own(u) = Live({u})
  /\ q.what = "delete" /\ q.at \in {"written", "computed", "answered"} =>
       Own(u) \ {q.review} = Live({u})

Abreast(u) ==
  Clean(u) =>
    /\ "refused" \notin story[u]
    /\ (\A t \in Task : ~Of(t, u)) => Own(u) = Live({u})
    /\ \A t \in Task : Of(t, u) => Knows(u, t)

-----------------------------------------------------------------------------
(* The average of ratings is a rating.                                     *)
LEMMA Quotient ==
  ASSUME NEW a \in Nat, NEW n \in Nat, n # 0, a <= 500 * n
  PROVE  a \div n \in 0 .. 500
<1> DEFINE q == a \div n
<1>1. q \in Int /\ n * q <= a /\ a < n * (q + 1)
  OBVIOUS
<1> HIDE DEF q
<1>2. q >= 0
  <2> SUFFICES ASSUME q + 1 <= 0 PROVE FALSE
    BY <1>1
  <2>1. n * (q + 1) <= 0
    BY <1>1
  <2> QED BY <1>1, <2>1
<1>3. q <= 500
  <2> SUFFICES ASSUME q >= 501 PROVE FALSE
    BY <1>1
  <2>1. n * (q - 501) >= 0
    BY <1>1
  <2>2. n * q >= 501 * n
    BY <1>1, <2>1
  <2> QED BY <1>1, <2>2
<1>4. a \div n = q
  BY DEF q
<1> QED BY <1>1, <1>2, <1>3, <1>4

LEMMA RowsFinite ==
  ASSUME NEW rows \in Seq(Row)
  PROVE  /\ \A S \in SUBSET DOMAIN rows :
              IsFiniteSet(S) /\ Cardinality(S) \in Nat /\ Cardinality(S) <= Len(rows)
<1>1. DOMAIN rows = 1 .. Len(rows) /\ Len(rows) \in Nat
  OBVIOUS
<1>2. IsFiniteSet(1 .. Len(rows)) /\ Cardinality(1 .. Len(rows)) = Len(rows)
  BY <1>1, FS_Interval
<1> QED BY <1>1, <1>2, FS_Subset, FS_CardinalityType

LEMMA DisjointUnion ==
  ASSUME NEW S, IsFiniteSet(S), NEW T, IsFiniteSet(T), S \intersect T = {}
  PROVE  /\ IsFiniteSet(S \union T) /\ Cardinality(S) \in Nat /\ Cardinality(T) \in Nat
         /\ Cardinality(S \union T) = Cardinality(S) + Cardinality(T)
<1>1. Cardinality(S \intersect T) = 0
  BY FS_EmptySet
<1>2. Cardinality(S) \in Nat /\ Cardinality(T) \in Nat
  BY FS_CardinalityType
<1>3. /\ IsFiniteSet(S \union T)
      /\ Cardinality(S \union T) = Cardinality(S) + Cardinality(T) - Cardinality(S \intersect T)
  BY FS_Union
<1> QED BY <1>1, <1>2, <1>3

(* Each live row gives one to five stars.                                  *)
LEMMA StarsAddUp ==
  ASSUME NEW rows \in Seq(Row)
  PROVE  /\ \A s \in 1 .. 5 : Gives(rows, s) \in Nat
         /\ Cardinality({i \in DOMAIN rows : rows[i].live}) =
              Gives(rows, 1) + Gives(rows, 2) + Gives(rows, 3) + Gives(rows, 4) + Gives(rows, 5)
<1> DEFINE G(s) == {i \in DOMAIN rows : rows[i].live /\ rows[i].stars = s}
           L == {i \in DOMAIN rows : rows[i].live}
<1>1. \A s : IsFiniteSet(G(s)) /\ Cardinality(G(s)) \in Nat /\ Gives(rows, s) = Cardinality(G(s))
  BY RowsFinite DEF Gives
<1>2. \A r, s : r # s => G(r) \intersect G(s) = {}
  OBVIOUS
<1>3. L = (((G(1) \union G(2)) \union G(3)) \union G(4)) \union G(5)
  <2>1. \A i \in DOMAIN rows : rows[i].stars \in 1 .. 5
    <3> SUFFICES ASSUME NEW i \in DOMAIN rows PROVE rows[i].stars \in 1 .. 5
      OBVIOUS
    <3>1. rows[i] \in Row
      OBVIOUS
    <3>2. rows[i].stars \in Stars
      BY <3>1 DEF Row
    <3> QED BY <3>2, ReviewsAssumption
  <2> QED BY <2>1
<1> HIDE DEF G, L
<1> DEFINE g(s) == Cardinality(G(s))
           B == G(1) \union G(2)
           C == B \union G(3)
           D == C \union G(4)
<1>4. IsFiniteSet(B) /\ Cardinality(B) = g(1) + g(2)
  BY <1>1, <1>2, DisjointUnion
<1>5. B \intersect G(3) = {} /\ C \intersect G(4) = {} /\ D \intersect G(5) = {} /\ L = D \union G(5)
  BY <1>2, <1>3
<1> HIDE DEF B
<1>6. IsFiniteSet(C) /\ Cardinality(C) = Cardinality(B) + g(3)
  BY <1>1, <1>4, <1>5, DisjointUnion
<1> HIDE DEF C
<1>7. IsFiniteSet(D) /\ Cardinality(D) = Cardinality(C) + g(4)
  BY <1>1, <1>5, <1>6, DisjointUnion
<1> HIDE DEF D
<1>8. Cardinality(L) = Cardinality(D) + g(5)
  BY <1>1, <1>5, <1>7, DisjointUnion
<1>9. \A s : g(s) = Gives(rows, s) /\ g(s) \in Nat
  BY <1>1
<1> HIDE DEF g
<1>10. Cardinality(L) = g(1) + g(2) + g(3) + g(4) + g(5)
  BY <1>4, <1>6, <1>7, <1>8
<1> QED BY <1>9, <1>10 DEF L

LEMMA Weighted ==
  ASSUME NEW a \in Nat, NEW b \in Nat, NEW c \in Nat, NEW d \in Nat, NEW e \in Nat
  PROVE  /\ a + 2 * b + 3 * c + 4 * d + 5 * e \in Nat
         /\ a + 2 * b + 3 * c + 4 * d + 5 * e <= 5 * (a + b + c + d + e)
  OBVIOUS

LEMMA TallyIsFigures ==
  ASSUME NEW rows \in Seq(Row), Len(rows) <= MaxReviews
  PROVE  Tally(rows) \in Figures
<1> DEFINE n == Cardinality({i \in DOMAIN rows : rows[i].live})
           sum == Gives(rows, 1) + 2 * Gives(rows, 2) + 3 * Gives(rows, 3)
                    + 4 * Gives(rows, 4) + 5 * Gives(rows, 5)
<1>1. n \in Nat /\ n <= Len(rows)
  BY RowsFinite
<1>2. sum \in Nat /\ sum <= 5 * n
  <2>1. /\ Gives(rows, 1) \in Nat /\ Gives(rows, 2) \in Nat /\ Gives(rows, 3) \in Nat
        /\ Gives(rows, 4) \in Nat /\ Gives(rows, 5) \in Nat
    <3>1. 1 \in 1 .. 5 /\ 2 \in 1 .. 5 /\ 3 \in 1 .. 5 /\ 4 \in 1 .. 5 /\ 5 \in 1 .. 5
      OBVIOUS
    <3> QED BY <3>1, StarsAddUp
  <2>2. n = Gives(rows, 1) + Gives(rows, 2) + Gives(rows, 3) + Gives(rows, 4) + Gives(rows, 5)
    BY StarsAddUp
  <2> QED BY <2>1, <2>2, Weighted
<1>3. Tally(rows) = IF n = 0 THEN NoFigures ELSE [avg |-> (100 * sum) \div n, count |-> n]
  BY DEF Tally
<1> HIDE DEF n, sum
<1>4. n # 0 => (100 * sum) \div n \in 0 .. 500
  <2> SUFFICES ASSUME n # 0 PROVE (100 * sum) \div n \in 0 .. 500
    OBVIOUS
  <2>1. 100 * sum \in Nat /\ 100 * sum <= 500 * n
    BY <1>1, <1>2
  <2> QED BY <1>1, <2>1, Quotient
<1>5. n \in 0 .. MaxReviews /\ 0 \in 0 .. MaxReviews
  BY <1>1, ReviewsAssumption
<1> QED BY <1>3, <1>4, <1>5 DEF Figures, NoFigures

-----------------------------------------------------------------------------
(* Types. *)
LEMMA RequestIs ==
  ASSUME ReviewsTypeOK, NEW t \in Task, tasks[t] # Ended
  PROVE  /\ tasks[t] \in Request
         /\ tasks[t].at \in {"sent", "loaded", "checked", "written", "computed", "answered",
                             "failed"}
         /\ tasks[t].what \in {"create", "update", "delete", "list"}
         /\ tasks[t].by \in Reader /\ tasks[t].stars \in Stars
         /\ tasks[t].review \in 0 .. MaxReviews /\ tasks[t].leaf \in Leaf
         /\ tasks[t].loaded \in Figures /\ tasks[t].new \in Figures
         /\ tasks[t].alone \in BOOLEAN
         /\ tasks[t].got \in SUBSET (1 .. MaxReviews) /\ tasks[t].count \in 0 .. MaxReviews
<1>1. tasks[t] \in Request
  BY DEF ReviewsTypeOK
<1> QED BY <1>1 DEF Request

LEMMA NotEnded == \A q \in Request : q # Ended /\ q.at # "ended"
<1>1. Ended.at = "ended"
  BY DEF Ended
<1> QED BY <1>1 DEF Request

LEMMA Rows ==
  ASSUME ReviewsTypeOK
  PROVE  /\ review \in Seq(Row) /\ Len(review) \in Nat /\ Len(review) <= MaxReviews
         /\ DOMAIN review = 1 .. Len(review) /\ DOMAIN review \subseteq 1 .. MaxReviews
         /\ \A i \in DOMAIN review : /\ review[i] \in Row /\ review[i].by \in Reader
                                     /\ review[i].stars \in Stars /\ review[i].live \in BOOLEAN
         /\ MaxReviews \in Nat /\ MaxReviews # 0
<1>1. review \in Seq(Row) /\ Len(review) <= MaxReviews
  BY DEF ReviewsTypeOK
<1>2. \A i \in DOMAIN review : review[i] \in Row
  BY <1>1
<1> QED BY <1>1, <1>2, ReviewsAssumption DEF Row

LEMMA FewestStars == \A s \in Stars : Min(Stars) \in Stars
<1> SUFFICES ASSUME NEW s \in Stars PROVE Min(Stars) \in Stars
  OBVIOUS
<1>1. \E m \in Stars : \A x \in Stars : m <= x
  <2>1. Stars \subseteq 1 .. 5
    BY ReviewsAssumption
  <2>2. CASE 1 \in Stars
    BY <2>1, <2>2
  <2>3. CASE 1 \notin Stars /\ 2 \in Stars
    BY <2>1, <2>3
  <2>4. CASE 1 \notin Stars /\ 2 \notin Stars /\ 3 \in Stars
    BY <2>1, <2>4
  <2>5. CASE 1 \notin Stars /\ 2 \notin Stars /\ 3 \notin Stars /\ 4 \in Stars
    BY <2>1, <2>5
  <2>6. CASE 1 \notin Stars /\ 2 \notin Stars /\ 3 \notin Stars /\ 4 \notin Stars
    BY <2>1, <2>6
  <2> QED BY <2>2, <2>3, <2>4, <2>5, <2>6
<1> QED BY <1>1 DEF Min

(* The list on a page is of live reviews. *)
LEMMA LeafIs ==
  ASSUME ReviewsTypeOK, NEW page
  PROVE  /\ OnLeaf(page) \subseteq Live(Reader) /\ Live(Reader) \subseteq DOMAIN review
         /\ \A u \in Reader : /\ Live({u}) \subseteq DOMAIN review
                              /\ Live({u}) \subseteq OnLeaf(page) =>
                                   {i \in OnLeaf(page) : review[i].by = u} = Live({u})
         /\ Cardinality(Live(Reader)) \in 0 .. MaxReviews
<1>1. /\ OnLeaf(page) \subseteq Live(Reader) /\ Live(Reader) \subseteq DOMAIN review
      /\ \A u \in Reader : Live({u}) \subseteq DOMAIN review
  BY DEF OnLeaf, Live
<1>2. Cardinality(Live(Reader)) \in 0 .. MaxReviews
  BY <1>1, Rows, RowsFinite
<1>3. \A u \in Reader : Live({u}) \subseteq OnLeaf(page) =>
        {i \in OnLeaf(page) : review[i].by = u} = Live({u})
  BY <1>1 DEF Live
<1> QED BY <1>1, <1>2, <1>3

(* An edit changes the stars of its row, and nothing else.                 *)
LEMMA EditedIs ==
  ASSUME ReviewsTypeOK, NEW q \in Request, q.what = "update" => q.review \in DOMAIN review
  PROVE  /\ Edited(q) \in Seq(Row) /\ Len(Edited(q)) = Len(review)
         /\ DOMAIN Edited(q) = DOMAIN review
         /\ \A i \in DOMAIN review : /\ Edited(q)[i].by = review[i].by
                                     /\ Edited(q)[i].live = review[i].live
<1>1. CASE q.what # "update"
  BY <1>1, Rows DEF Edited
<1>2. CASE q.what = "update"
  <2> DEFINE row == [review[q.review] EXCEPT !.stars = q.stars]
  <2>1. review[q.review] \in Row /\ q.stars \in Stars
    BY <1>2, Rows DEF Request
  <2>2. /\ row \in Row /\ row.by = review[q.review].by /\ row.live = review[q.review].live
    BY <2>1 DEF Row
  <2>3. Edited(q) = [review EXCEPT ![q.review] = row]
    BY <1>2 DEF Edited
  <2> HIDE DEF row
  <2> QED BY <1>2, <2>2, <2>3, Rows
<1> QED BY <1>1, <1>2

(* What a step leaves of the rows and of a request.                        *)
RowsStay ==
  /\ DOMAIN review \subseteq DOMAIN review'
  /\ \A i \in DOMAIN review : review'[i].by = review[i].by

Alike(t) ==
  /\ tasks'[t] = Ended <=> tasks[t] = Ended
  /\ tasks[t] # Ended =>
       /\ tasks'[t].at = tasks[t].at /\ tasks'[t].what = tasks[t].what
       /\ tasks'[t].by = tasks[t].by /\ tasks'[t].review = tasks[t].review
       /\ tasks'[t].got = tasks[t].got

LEMMA StaysWell ==
  ASSUME ReviewsTypeOK, RowsStay, NEW t \in Task, RequestWell(t), Alike(t)
  PROVE  RequestWell(t)'
  BY DEF RowsStay, Alike, RequestWell, Inside

(* What a reader starts takes a place that was free, and goes by what is   *)
(* on his page.                                                            *)
Begins(u, t, v) ==
  /\ tasks[t] = Ended /\ tasks' = [tasks EXCEPT ![t] = v]
  /\ v.at = "sent" /\ v.by = u /\ v.got = {}
  /\ \/ v.what = "create" /\ Own(u) = {}
     \/ v.what = "update" /\ Own(u) # {}
     \/ v.what = "delete" /\ v.review \in Own(u)
     \/ v.what = "list"
  /\ story' = [story EXCEPT ![u] = @ \union (IF \E s \in Task : Of(s, u) THEN {"crossed"} ELSE {})]
  /\ UNCHANGED <<review, rating, sheet, total, deaths, doubt>>
  /\ submits' \in 0 .. MaxSubmits /\ leaf' \in [Reader -> Leaf]

LEMMA AsksBegin ==
  ASSUME ReviewsTypeOK, NEW u \in Reader, NEW s \in Stars, NEW page \in Leaf,
         Submit(u, s) \/ Delete(u) \/ TurnLeaf(u, page)
  PROVE  \E t \in Task, v \in Request : Begins(u, t, v)
<1>0. /\ leaf \in [Reader -> Leaf] /\ submits \in 0 .. MaxSubmits /\ MaxSubmits \in Nat
      /\ Own(u) \subseteq 1 .. MaxReviews /\ NoFigures \in Figures /\ 0 \in 0 .. MaxReviews
  <2>1. leaf \in [Reader -> Leaf] /\ submits \in 0 .. MaxSubmits /\ MaxSubmits \in Nat
    BY ReviewsAssumption DEF ReviewsTypeOK
  <2>2. Own(u) \subseteq 1 .. MaxReviews
    BY Rows DEF ReviewsTypeOK, Own
  <2>3. NoFigures \in Figures /\ 0 \in 0 .. MaxReviews
    BY ReviewsAssumption DEF NoFigures, Figures
  <2> QED BY <2>1, <2>2, <2>3
<1> DEFINE v(what, id, stars, pg) ==
             [at |-> "sent", what |-> what, by |-> u, review |-> id, stars |-> stars, leaf |-> pg,
              loaded |-> NoFigures, new |-> NoFigures, alone |-> TRUE, got |-> {}, count |-> 0]
<1>1. \A what \in {"create", "update", "delete", "list"}, id \in 0 .. MaxReviews, stars \in Stars,
        pg \in Leaf : /\ v(what, id, stars, pg) \in Request
                      /\ v(what, id, stars, pg).at = "sent" /\ v(what, id, stars, pg).by = u
                      /\ v(what, id, stars, pg).what = what /\ v(what, id, stars, pg).review = id
                      /\ v(what, id, stars, pg).got = {}
  BY <1>0 DEF Request
<1>2. \A what, id, stars, pg :
        Asks(u, what, id, stars, pg) =>
          /\ submits' \in 0 .. MaxSubmits
          /\ UNCHANGED <<review, rating, sheet, total, deaths, doubt>>
          /\ story' = [story EXCEPT ![u] =
               @ \union (IF \E t \in Task : Of(t, u) THEN {"crossed"} ELSE {})]
          /\ \E t \in Task : /\ tasks[t] = Ended
                             /\ tasks' = [tasks EXCEPT ![t] = v(what, id, stars, pg)]
  <2> SUFFICES ASSUME NEW what, NEW id, NEW stars, NEW pg, Asks(u, what, id, stars, pg)
               PROVE  /\ submits' \in 0 .. MaxSubmits
                      /\ UNCHANGED <<review, rating, sheet, total, deaths, doubt>>
                      /\ story' = [story EXCEPT ![u] =
                           @ \union (IF \E t \in Task : Of(t, u) THEN {"crossed"} ELSE {})]
                      /\ \E t \in Task : /\ tasks[t] = Ended
                                         /\ tasks' = [tasks EXCEPT ![t] = v(what, id, stars, pg)]
    OBVIOUS
  <2>1. submits' \in 0 .. MaxSubmits
    BY <1>0 DEF Asks
  <2>2. \E t \in Task : /\ tasks[t] = Ended
                        /\ tasks' = [tasks EXCEPT ![t] = v(what, id, stars, pg)]
    BY DEF Asks
  <2>3. /\ UNCHANGED <<review, rating, sheet, total, deaths, doubt>>
        /\ story' = [story EXCEPT ![u] =
             @ \union (IF \E t \in Task : Of(t, u) THEN {"crossed"} ELSE {})]
    BY DEF Asks, Befalls, Of
  <2> QED BY <2>1, <2>2, <2>3
<1> HIDE DEF v
<1>3. ASSUME NEW what \in {"create", "update", "delete", "list"}, NEW id \in 0 .. MaxReviews,
             NEW stars \in Stars, NEW pg \in Leaf,
             /\ submits' \in 0 .. MaxSubmits
             /\ UNCHANGED <<review, rating, sheet, total, deaths, doubt>>
             /\ story' = [story EXCEPT ![u] =
                  @ \union (IF \E t \in Task : Of(t, u) THEN {"crossed"} ELSE {})]
             /\ \E t \in Task : /\ tasks[t] = Ended
                                /\ tasks' = [tasks EXCEPT ![t] = v(what, id, stars, pg)],
             \/ what = "create" /\ Own(u) = {}
             \/ what = "update" /\ Own(u) # {}
             \/ what = "delete" /\ id \in Own(u)
             \/ what = "list",
             leaf' \in [Reader -> Leaf]
      PROVE  \E t \in Task, w \in Request : Begins(u, t, w)
  <2> DEFINE w == v(what, id, stars, pg)
  <2>1. /\ w \in Request /\ w.at = "sent" /\ w.by = u /\ w.what = what /\ w.review = id
        /\ w.got = {}
    BY <1>1
  <2>2. PICK t \in Task : tasks[t] = Ended /\ tasks' = [tasks EXCEPT ![t] = w]
    BY <1>3
  <2> HIDE DEF w
  <2>3. Begins(u, t, w)
    BY <1>3, <2>1, <2>2 DEF Begins
  <2> QED BY <2>1, <2>3
<1>4. CASE Submit(u, s)
  BY <1>0, <1>2, <1>3, <1>4 DEF Submit, HasReview
<1>5. CASE Delete(u)
  <2>1. PICK id \in Own(u) : Asks(u, "delete", id, Min(Stars), leaf[u])
    BY <1>5 DEF Delete
  <2>2. Min(Stars) \in Stars /\ id \in 0 .. MaxReviews /\ leaf' = leaf
    BY <1>0, <1>5, FewestStars DEF Delete
  <2> QED BY <1>0, <1>2, <1>3, <2>1, <2>2
<1>6. CASE TurnLeaf(u, page)
  <2>1. Asks(u, "list", 0, Min(Stars), page)
    BY <1>6 DEF TurnLeaf
  <2>2. leaf' \in [Reader -> Leaf]
    BY <1>0, <1>6 DEF TurnLeaf
  <2>3. Min(Stars) \in Stars
    BY FewestStars
  <2> QED BY <1>0, <1>2, <1>3, <2>1, <2>2, <2>3
<1> QED BY <1>4, <1>5, <1>6

LEMMA Moved ==
  ASSUME ReviewsTypeOK, NEW t \in Task, NEW q \in Request \union {Ended},
         tasks' = [tasks EXCEPT ![t] = q]
  PROVE  /\ tasks' \in [Task -> Request \union {Ended}]
         /\ tasks'[t] = q
         /\ \A s \in Task : s # t => tasks'[s] = tasks[s] /\ Alike(s)
<1>1. tasks \in [Task -> Request \union {Ended}]
  BY DEF ReviewsTypeOK
<1>2. /\ tasks'[t] = q /\ \A s \in Task : s # t => tasks'[s] = tasks[s]
      /\ tasks' \in [Task -> Request \union {Ended}]
  BY <1>1
<1> QED BY <1>2 DEF Alike

LEMMA WellAfter ==
  ASSUME ReviewsTypeOK, RequestsWell, RowsStay, NEW t \in Task,
         \A s \in Task : s # t => Alike(s), RequestWell(t)'
  PROVE  RequestsWell'
  BY StaysWell DEF RequestsWell

LEMMA RowsSame ==
  ASSUME review' = review
  PROVE  RowsStay /\ DOMAIN review' = DOMAIN review
  BY DEF RowsStay

Well == ReviewsTypeOK /\ RequestsWell

Events == {"twin", "crossed", "died", "left out", "refused"}

LEMMA BeginWell ==
  ASSUME Well, NEW u \in Reader, NEW t \in Task, NEW v \in Request, Begins(u, t, v)
  PROVE  Well'
<1>1. ReviewsTypeOK /\ RequestsWell /\ tasks' = [tasks EXCEPT ![t] = v] /\ review' = review
  BY DEF Well, Begins
<1>2. /\ tasks' \in [Task -> Request \union {Ended}] /\ tasks'[t] = v
      /\ \A s \in Task : s # t => Alike(s)
  BY <1>1, Moved
<1>3. story' \in [Reader -> SUBSET Events]
  BY <1>1 DEF ReviewsTypeOK, Begins, Events
<1>4. ReviewsTypeOK'
  BY <1>1, <1>2, <1>3 DEF ReviewsTypeOK, Begins, Events
<1>5. RequestWell(t)'
  <2>1. v.at = "sent" /\ v.by = u /\ v.got = {} /\ (v.what = "delete" => v.review \in Own(u))
    BY DEF Begins
  <2>2. \A i \in Own(u) : i \in DOMAIN review /\ review[i].by = u
    BY <1>1 DEF Own, ReviewsTypeOK
  <2> QED BY <1>1, <1>2, <2>1, <2>2 DEF RequestWell, Inside
<1> QED BY <1>1, <1>2, <1>4, <1>5, RowsSame, WellAfter DEF Well

LEMMA LoadWell ==
  ASSUME Well, NEW t \in Task, LoadRestaurant(t)
  PROVE  /\ Well' /\ UNCHANGED <<review, rating, doubt, sheet, story>>
         /\ \A s \in Task : s # t => Alike(s)
         /\ tasks[t] # Ended /\ tasks'[t] # Ended
         /\ tasks[t].at = "sent" /\ tasks'[t].at = "loaded" /\ tasks[t].what \in Changing
         /\ tasks'[t].what = tasks[t].what /\ tasks'[t].by = tasks[t].by
         /\ tasks'[t].review = tasks[t].review /\ tasks'[t].got = tasks[t].got
         /\ tasks'[t].loaded = rating
         /\ tasks'[t].alone <=> \A s \in Task : ~Inside(s)
         /\ \A s \in Task : s # t /\ tasks[s] # Ended /\ Inside(s) => tasks'[s].alone = FALSE
<1>1. ReviewsTypeOK /\ RequestsWell
  BY DEF Well
<1>2. /\ tasks[t].at = "sent" /\ tasks[t].what \in Changing
      /\ UNCHANGED <<review, rating, doubt, leaf, sheet, total, submits, deaths, story>>
  BY DEF LoadRestaurant, Stays
<1>3. tasks[t] # Ended
  BY <1>2 DEF Ended
<1> DEFINE alone == {s \in Task : Inside(s)} = {}
           v == [tasks[t] EXCEPT !.at = "loaded", !.loaded = rating, !.alone = alone]
<1>4. alone \in BOOLEAN /\ (alone <=> \A s \in Task : ~Inside(s))
  OBVIOUS
<1>5. \A s \in Task : tasks'[s] = IF s = t THEN v
                        ELSE IF Inside(s) THEN [tasks[s] EXCEPT !.alone = FALSE] ELSE tasks[s]
  BY DEF LoadRestaurant
<1> HIDE DEF alone
<1>6. /\ v \in Request /\ v.at = "loaded" /\ v.loaded = rating /\ v.alone = alone
      /\ v.what = tasks[t].what /\ v.by = tasks[t].by /\ v.review = tasks[t].review
      /\ v.got = tasks[t].got
  <2>1. tasks[t] \in Request /\ rating \in Figures
    BY <1>1, <1>3, RequestIs DEF ReviewsTypeOK
  <2> QED BY <1>4, <2>1 DEF Request
<1> HIDE DEF v
<1>7. ASSUME NEW s \in Task, s # t
      PROVE  /\ tasks'[s] \in Request \union {Ended} /\ Alike(s)
             /\ Inside(s) => tasks'[s].alone = FALSE
  <2>1. CASE Inside(s)
    <3>1. tasks[s] \in Request /\ tasks[s] # Ended
      BY <1>1, <2>1, RequestIs DEF Inside
    <3> DEFINE w == [tasks[s] EXCEPT !.alone = FALSE]
    <3>2. /\ w \in Request /\ w.at = tasks[s].at /\ w.what = tasks[s].what /\ w.by = tasks[s].by
          /\ w.review = tasks[s].review /\ w.got = tasks[s].got /\ w.alone = FALSE
      BY <3>1 DEF Request
    <3>3. tasks'[s] = w
      BY <1>5, <1>7, <2>1
    <3> HIDE DEF w
    <3> QED BY <3>1, <3>2, <3>3, NotEnded DEF Alike
  <2>2. CASE ~Inside(s)
    <3>1. tasks'[s] = tasks[s]
      BY <1>5, <1>7, <2>2
    <3> QED BY <1>1, <2>2, <3>1 DEF Alike, ReviewsTypeOK
  <2> QED BY <2>1, <2>2
<1>8. tasks'[t] = v /\ v # Ended
  BY <1>5, <1>6, NotEnded
<1>9. tasks' \in [Task -> Request \union {Ended}]
  <2>1. \E f : tasks' = [s \in Task |-> f[s]]
    <3>1. tasks' = [s \in Task |-> tasks'[s]]
      BY DEF LoadRestaurant
    <3> QED BY <3>1
  <2> QED BY <1>6, <1>7, <1>8, <2>1
<1>10. ReviewsTypeOK'
  BY <1>1, <1>2, <1>9 DEF ReviewsTypeOK
<1>11. RequestWell(t)'
  <2>1. RequestWell(t)
    BY <1>1 DEF RequestsWell
  <2> QED BY <1>2, <1>3, <1>6, <1>8, <2>1 DEF RequestWell, Inside
<1>12. RequestsWell'
  BY <1>1, <1>2, <1>7, <1>11, RowsSame, WellAfter
<1> QED BY <1>2, <1>3, <1>4, <1>6, <1>7, <1>8, <1>10, <1>12 DEF Well

LEMMA SubjectIs ==
  ASSUME Well, NEW t \in Task, Check(t), Passes(tasks[t]), tasks[t] # Ended
  PROVE  /\ Subject(tasks[t]) \in 0 .. MaxReviews
         /\ tasks[t].what \in {"update", "delete"} => Subject(tasks[t]) \in Live({tasks[t].by})
<1> DEFINE q == tasks[t]
<1>1. ReviewsTypeOK /\ q.at = "loaded" /\ q \in Request /\ q.by \in Reader
      /\ q.what \in Changing
  BY RequestIs DEF Well, Check, RequestsWell, RequestWell, Inside
<1>2. Live({q.by}) \subseteq DOMAIN review /\ DOMAIN review \subseteq 1 .. MaxReviews
  BY <1>1, Rows DEF Live
<1>3. CASE q.what = "update"
  <2>1. Cardinality(Live({q.by})) = 1
    BY <1>3 DEF Passes
  <2>2. IsFiniteSet(Live({q.by}))
    BY <1>1, <1>2, RowsFinite, Rows
  <2>3. PICK i : Live({q.by}) = {i}
    BY <2>1, <2>2, FS_Singleton
  <2>4. i \in 1 .. MaxReviews
    BY <1>2, <2>3
  <2>5. Min({i}) = i
    BY <2>4 DEF Min
  <2>6. Subject(q) = Min({i})
    BY <1>3, <2>3 DEF Subject
  <2> QED BY <1>3, <2>3, <2>4, <2>5, <2>6
<1>4. CASE q.what = "delete"
  <2>1. Subject(q) = q.review /\ q.review \in Live({q.by})
    BY <1>4 DEF Subject, Passes
  <2> QED BY <1>2, <2>1
<1>5. CASE q.what = "create"
  <2>1. Subject(q) = q.review
    BY <1>5 DEF Subject
  <2>2. q.review \in 0 .. MaxReviews
    BY <1>1 DEF Request
  <2> QED BY <1>5, <2>1, <2>2
<1> QED BY <1>1, <1>3, <1>4, <1>5 DEF Changing

LEMMA CheckWell ==
  ASSUME Well, NEW t \in Task, Check(t), tasks[t] # Ended
  PROVE  /\ Well' /\ UNCHANGED <<review, rating, doubt, sheet>>
         /\ \A s \in Task : s # t => tasks'[s] = tasks[s] /\ Alike(s)
         /\ tasks'[t] # Ended
         /\ tasks[t].at = "loaded" /\ tasks[t].what \in Changing
         /\ tasks'[t].what = tasks[t].what /\ tasks'[t].by = tasks[t].by
         /\ tasks'[t].got = tasks[t].got
         /\ tasks'[t].loaded = tasks[t].loaded /\ tasks'[t].alone = tasks[t].alone
         /\ \/ /\ Passes(tasks[t]) /\ tasks'[t].at = "checked" /\ story' = story
               /\ tasks'[t].review = Subject(tasks[t])
            \/ /\ ~Passes(tasks[t]) /\ tasks'[t].at = "failed"
               /\ story' = [story EXCEPT ![tasks[t].by] = @ \union {"refused"}]
<1>1. /\ ReviewsTypeOK /\ RequestsWell /\ tasks[t] \in Request /\ tasks[t].at = "loaded"
      /\ UNCHANGED <<review, rating, leaf, sheet, total, submits, deaths, doubt>>
      /\ tasks[t].by \in Reader /\ tasks[t].what \in Changing
  BY RequestIs DEF Well, Check, RequestsWell, RequestWell, Inside
<1>2. CASE Passes(tasks[t])
  <2> DEFINE v == [tasks[t] EXCEPT !.at = "checked", !.review = Subject(tasks[t])]
  <2>1. /\ Subject(tasks[t]) \in 0 .. MaxReviews
        /\ tasks[t].what \in {"update", "delete"} => Subject(tasks[t]) \in Live({tasks[t].by})
    BY <1>2, SubjectIs
  <2>2. /\ v \in Request /\ v.at = "checked" /\ v.review = Subject(tasks[t])
        /\ v.what = tasks[t].what /\ v.by = tasks[t].by /\ v.got = tasks[t].got
        /\ v.loaded = tasks[t].loaded /\ v.alone = tasks[t].alone
    BY <1>1, <2>1 DEF Request
  <2>3. tasks' = [tasks EXCEPT ![t] = v] /\ story' = story
    BY <1>2 DEF Check, Moves
  <2> HIDE DEF v
  <2>4. /\ tasks' \in [Task -> Request \union {Ended}] /\ tasks'[t] = v /\ v # Ended
        /\ \A s \in Task : s # t => tasks'[s] = tasks[s] /\ Alike(s)
    BY <1>1, <2>2, <2>3, Moved, NotEnded
  <2>5. ReviewsTypeOK'
    BY <1>1, <2>3, <2>4 DEF ReviewsTypeOK
  <2>6. RequestWell(t)'
    <3>1. tasks[t].got \subseteq DOMAIN review
      BY <1>1 DEF RequestsWell, RequestWell
    <3>2. \A i \in Live({tasks[t].by}) : i \in DOMAIN review /\ review[i].by = tasks[t].by
      BY DEF Live
    <3>3. v.what \in {"update", "delete"} =>
            v.review \in DOMAIN review /\ review[v.review].by = v.by
      BY <2>1, <2>2, <3>2
    <3> QED BY <1>1, <2>2, <2>4, <3>1, <3>3 DEF RequestWell, Inside
  <2>7. RequestsWell'
    BY <1>1, <2>4, <2>6, RowsSame, WellAfter
  <2> QED BY <1>1, <1>2, <2>2, <2>3, <2>4, <2>5, <2>7 DEF Well
<1>3. CASE ~Passes(tasks[t])
  <2> DEFINE v == [tasks[t] EXCEPT !.at = "failed"]
  <2>2. /\ v \in Request /\ v.at = "failed" /\ v.review = tasks[t].review
        /\ v.what = tasks[t].what /\ v.by = tasks[t].by /\ v.got = tasks[t].got
        /\ v.loaded = tasks[t].loaded /\ v.alone = tasks[t].alone
    BY <1>1 DEF Request
  <2>3. /\ tasks' = [tasks EXCEPT ![t] = v]
        /\ story' = [story EXCEPT ![tasks[t].by] = @ \union {"refused"}]
    BY <1>3 DEF Check, Moves, Befalls
  <2> HIDE DEF v
  <2>4. /\ tasks' \in [Task -> Request \union {Ended}] /\ tasks'[t] = v /\ v # Ended
        /\ \A s \in Task : s # t => tasks'[s] = tasks[s] /\ Alike(s)
    BY <1>1, <2>2, <2>3, Moved, NotEnded
  <2>5. story' \in [Reader -> SUBSET Events]
    BY <1>1, <2>3 DEF ReviewsTypeOK, Events
  <2>6. ReviewsTypeOK'
    BY <1>1, <2>4, <2>5 DEF ReviewsTypeOK, Events
  <2>7. RequestWell(t)'
    <3>1. RequestWell(t)
      BY <1>1 DEF RequestsWell
    <3> QED BY <1>1, <2>2, <2>4, <3>1 DEF RequestWell, Inside
  <2>8. RequestsWell'
    BY <1>1, <2>4, <2>7, RowsSame, WellAfter
  <2> QED BY <1>1, <1>3, <2>2, <2>3, <2>4, <2>6, <2>8 DEF Well
<1> QED BY <1>2, <1>3

LEMMA WriteWell ==
  ASSUME Well, NEW t \in Task, WriteReview(t), tasks[t] # Ended
  PROVE  /\ Well' /\ UNCHANGED <<rating, doubt, sheet>> /\ RowsStay
         /\ \A s \in Task : s # t => tasks'[s] = tasks[s] /\ Alike(s)
         /\ tasks'[t] # Ended
         /\ tasks[t].at = "checked" /\ tasks'[t].at = "written"
         /\ tasks'[t].what = tasks[t].what /\ tasks'[t].by = tasks[t].by
         /\ tasks'[t].review = tasks[t].review /\ tasks'[t].got = tasks[t].got
         /\ tasks'[t].loaded = tasks[t].loaded /\ tasks'[t].alone = tasks[t].alone
         /\ \/ /\ tasks[t].what = "create"
               /\ story' = [story EXCEPT ![tasks[t].by] =
                    @ \union (IF Live({tasks[t].by}) # {} THEN {"twin"} ELSE {})]
               /\ \A u \in Reader : Live({u})' = Live({u}) \union
                    (IF u = tasks[t].by THEN {Len(review) + 1} ELSE {})
            \/ /\ tasks[t].what = "delete" /\ story' = story
               /\ \A u \in Reader : Live({u})' = Live({u}) \ {tasks[t].review}
            \/ tasks[t].what = "update" /\ story' = story /\ review' = review
<1> DEFINE q == tasks[t]
           v == [q EXCEPT !.at = "written"]
<1>1. /\ ReviewsTypeOK /\ RequestsWell /\ q \in Request /\ q.at = "checked"
      /\ UNCHANGED <<rating, doubt, leaf, sheet, total, submits, deaths>>
      /\ q.by \in Reader /\ q.stars \in Stars /\ RequestWell(t)
  BY RequestIs DEF Well, WriteReview, RequestsWell
<1>2. /\ v \in Request /\ v.at = "written" /\ v.review = q.review
      /\ v.what = q.what /\ v.by = q.by /\ v.got = q.got
      /\ v.loaded = q.loaded /\ v.alone = q.alone
  BY <1>1 DEF Request
<1>3. tasks' = [tasks EXCEPT ![t] = v]
  BY DEF WriteReview, Moves
<1>4. /\ tasks' \in [Task -> Request \union {Ended}] /\ tasks'[t] = v /\ v # Ended
      /\ \A s \in Task : s # t => tasks'[s] = tasks[s] /\ Alike(s)
  <2> HIDE DEF v, q
  <2> QED BY <1>1, <1>2, <1>3, Moved, NotEnded
<1> DEFINE Adding == /\ q.what = "create"
                      /\ story' = [story EXCEPT ![q.by] =
                           @ \union (IF Live({q.by}) # {} THEN {"twin"} ELSE {})]
                      /\ \A u \in Reader : Live({u})' = Live({u}) \union
                           (IF u = q.by THEN {Len(review) + 1} ELSE {})
           Removing == /\ q.what = "delete" /\ story' = story
                      /\ \A u \in Reader : Live({u})' = Live({u}) \ {q.review}
           Editing == q.what = "update" /\ story' = story /\ review' = review
<1>5. /\ review' \in Seq(Row) /\ Len(review') <= MaxReviews
      /\ RowsStay /\ story' \in [Reader -> SUBSET Events]
      /\ Adding \/ Removing \/ Editing
  <2>1. CASE q.what = "create"
    <3> DEFINE row == [by |-> q.by, stars |-> q.stars, live |-> TRUE]
    <3>1. /\ Len(review) < MaxReviews /\ review' = Append(review, row)
          /\ story' = [story EXCEPT ![q.by] =
               @ \union (IF Live({q.by}) # {} THEN {"twin"} ELSE {})]
      BY <2>1 DEF WriteReview, Befalls
    <3>2. row \in Row /\ row.by = q.by /\ row.live = TRUE
      BY <1>1 DEF Row
    <3> HIDE DEF row
    <3>3. /\ review' \in Seq(Row) /\ Len(review') = Len(review) + 1
          /\ \A i \in DOMAIN review : i \in DOMAIN review' /\ review'[i] = review[i]
          /\ review'[Len(review) + 1] = row
          /\ DOMAIN review' = DOMAIN review \union {Len(review) + 1}
          /\ Len(review) + 1 \notin DOMAIN review
      BY <1>1, <3>1, <3>2, Rows
    <3>4. Len(review') <= MaxReviews
      BY <1>1, <3>1, <3>3, Rows
    <3>5. \A u \in Reader : Live({u})' = Live({u}) \union
            (IF u = q.by THEN {Len(review) + 1} ELSE {})
      BY <3>2, <3>3 DEF Live
    <3>6. story' \in [Reader -> SUBSET Events]
      BY <1>1, <3>1 DEF ReviewsTypeOK, Events
    <3>7. RowsStay
      BY <3>3 DEF RowsStay
    <3> QED BY <2>1, <3>1, <3>3, <3>4, <3>5, <3>6, <3>7
  <2>2. CASE q.what = "delete"
    <3> DEFINE row == [review[q.review] EXCEPT !.live = FALSE]
    <3>1. review' = [review EXCEPT ![q.review] = row] /\ story' = story
      BY <2>2 DEF WriteReview
    <3>2. q.review \in DOMAIN review /\ review[q.review] \in Row
      BY <1>1, <2>2, Rows DEF RequestWell
    <3>3. row \in Row /\ row.by = review[q.review].by /\ row.live = FALSE
      BY <3>2 DEF Row
    <3> HIDE DEF row
    <3>4. /\ review' \in Seq(Row) /\ Len(review') = Len(review) /\ DOMAIN review' = DOMAIN review
          /\ review'[q.review] = row
          /\ \A i \in DOMAIN review : i # q.review => review'[i] = review[i]
      BY <1>1, <3>1, <3>2, <3>3, Rows
    <3>5. RowsStay
      BY <3>3, <3>4 DEF RowsStay
    <3>6. \A u \in Reader : Live({u})' = Live({u}) \ {q.review}
      BY <3>3, <3>4 DEF Live
    <3>7. story' \in [Reader -> SUBSET Events] /\ Len(review') <= MaxReviews
      BY <1>1, <3>1, <3>4 DEF ReviewsTypeOK, Events
    <3> QED BY <2>2, <3>1, <3>4, <3>5, <3>6, <3>7
  <2>3. CASE q.what = "update"
    <3>1. review' = review /\ story' = story
      BY <2>3 DEF WriteReview
    <3> QED BY <1>1, <2>3, <3>1, RowsSame DEF ReviewsTypeOK, Events
  <2> QED BY <2>1, <2>2, <2>3 DEF WriteReview
<1>6. ReviewsTypeOK'
  <2>1. sheet' \in [Reader -> SUBSET DOMAIN review']
    BY <1>1, <1>5 DEF ReviewsTypeOK, RowsStay
  <2> HIDE DEF Adding, Removing, Editing
  <2> QED BY <1>1, <1>4, <1>5, <2>1 DEF ReviewsTypeOK, Events
<1>7. RequestWell(t)'
  <2> HIDE DEF v
  <2> QED BY <1>1, <1>2, <1>4, <1>5 DEF RequestWell, RowsStay, Inside
<1>8. RequestsWell'
  BY <1>1, <1>4, <1>5, <1>7, WellAfter
<1> QED BY <1>1, <1>2, <1>4, <1>5, <1>6, <1>8 DEF Well

LEMMA ComputeWell ==
  ASSUME Well, NEW t \in Task, ComputeAverage(t), tasks[t] # Ended
  PROVE  /\ Well' /\ UNCHANGED <<review, rating, doubt, sheet, story>>
         /\ \A s \in Task : s # t => tasks'[s] = tasks[s] /\ Alike(s)
         /\ tasks'[t] # Ended
         /\ tasks[t].at = "written" /\ tasks'[t].at = "computed"
         /\ tasks'[t].what = tasks[t].what /\ tasks'[t].by = tasks[t].by
         /\ tasks'[t].review = tasks[t].review /\ tasks'[t].got = tasks[t].got
         /\ tasks'[t].loaded = tasks[t].loaded /\ tasks'[t].alone = tasks[t].alone
         /\ tasks'[t].new = Tally(Edited(tasks'[t]))
<1> DEFINE q == tasks[t]
           v == [q EXCEPT !.at = "computed", !.new = Tally(Edited(q))]
<1>1. /\ ReviewsTypeOK /\ RequestsWell /\ q \in Request /\ q.at = "written"
      /\ UNCHANGED <<review, rating, leaf, sheet, total, submits, deaths, doubt, story>>
      /\ RequestWell(t)
  BY RequestIs DEF Well, ComputeAverage, Stays, RequestsWell
<1>2. Tally(Edited(q)) \in Figures
  <2>1. q.what = "update" => q.review \in DOMAIN review
    BY <1>1 DEF RequestWell
  <2>2. Edited(q) \in Seq(Row) /\ Len(Edited(q)) <= MaxReviews
    BY <1>1, <2>1, EditedIs, Rows
  <2> QED BY <2>2, TallyIsFigures
<1>3. /\ v \in Request /\ v.at = "computed" /\ v.review = q.review /\ v.stars = q.stars
      /\ v.what = q.what /\ v.by = q.by /\ v.got = q.got
      /\ v.loaded = q.loaded /\ v.alone = q.alone /\ v.new = Tally(Edited(q))
  BY <1>1, <1>2 DEF Request
<1>4. tasks' = [tasks EXCEPT ![t] = v]
  BY DEF ComputeAverage, Moves
<1> HIDE DEF v
<1>5. /\ tasks' \in [Task -> Request \union {Ended}] /\ tasks'[t] = v /\ v # Ended
      /\ \A s \in Task : s # t => tasks'[s] = tasks[s] /\ Alike(s)
  BY <1>1, <1>3, <1>4, Moved, NotEnded
<1>6. Edited(q) = Edited(v)
  BY <1>3 DEF Edited
<1>7. ReviewsTypeOK'
  BY <1>1, <1>5 DEF ReviewsTypeOK
<1>8. RequestWell(t)'
  BY <1>1, <1>3, <1>5 DEF RequestWell, Inside
<1>9. RequestsWell'
  BY <1>1, <1>5, <1>8, RowsSame, WellAfter
<1>10. tasks'[t].new = Tally(Edited(tasks'[t]))
  BY <1>3, <1>5, <1>6
<1> QED BY <1>1, <1>3, <1>5, <1>7, <1>9, <1>10 DEF Well

LEMMA StoreWell ==
  ASSUME Well, NEW t \in Task, StoreAverage(t), tasks[t] # Ended
  PROVE  /\ Well' /\ UNCHANGED <<sheet, story>> /\ RowsStay
         /\ \A s \in Task : s # t => tasks'[s] = tasks[s] /\ Alike(s)
         /\ tasks'[t] # Ended
         /\ tasks[t].at = "computed" /\ tasks'[t].at = "answered"
         /\ tasks'[t].what = tasks[t].what /\ tasks'[t].by = tasks[t].by
         /\ tasks'[t].review = tasks[t].review /\ tasks'[t].got = tasks[t].got
         /\ rating' = Stored(tasks[t]) /\ review' = Edited(tasks[t])
         /\ doubt' = (IF tasks[t].alone THEN {} ELSE doubt \union {"overlap"})
         /\ \A u \in Reader : Live({u})' = Live({u})
<1> DEFINE q == tasks[t]
           v == [q EXCEPT !.at = "answered"]
<1>1. /\ ReviewsTypeOK /\ RequestsWell /\ q \in Request /\ q.at = "computed"
      /\ UNCHANGED <<leaf, sheet, total, submits, deaths, story>>
      /\ rating' = Stored(q) /\ review' = Edited(q)
      /\ doubt' = (IF q.alone THEN {} ELSE doubt \union {"overlap"})
      /\ RequestWell(t) /\ q.new \in Figures /\ rating \in Figures
  BY RequestIs DEF Well, StoreAverage, Stays, RequestsWell, ReviewsTypeOK
<1>2. /\ review' \in Seq(Row) /\ Len(review') <= MaxReviews /\ DOMAIN review' = DOMAIN review
      /\ \A i \in DOMAIN review : review'[i].by = review[i].by /\ review'[i].live = review[i].live
  <2>1. q.what = "update" => q.review \in DOMAIN review
    BY <1>1 DEF RequestWell
  <2> QED BY <1>1, <2>1, EditedIs, Rows
<1>3. rating' \in Figures
  <2>1. /\ q.new.avg \in 0 .. 500 /\ q.new.count \in 0 .. MaxReviews
        /\ rating.avg \in 0 .. 500 /\ rating.count \in 0 .. MaxReviews
    BY <1>1 DEF Figures
  <2>2. rating' = [avg |-> IF q.new.avg = q.loaded.avg THEN rating.avg ELSE q.new.avg,
                   count |-> IF q.new.count = q.loaded.count THEN rating.count ELSE q.new.count]
    BY <1>1 DEF Stored
  <2> QED BY <2>1, <2>2 DEF Figures
<1>4. /\ v \in Request /\ v.at = "answered" /\ v.review = q.review
      /\ v.what = q.what /\ v.by = q.by /\ v.got = q.got
  BY <1>1 DEF Request
<1>5. tasks' = [tasks EXCEPT ![t] = v]
  BY DEF StoreAverage, Moves
<1> HIDE DEF v
<1>6. /\ tasks' \in [Task -> Request \union {Ended}] /\ tasks'[t] = v /\ v # Ended
      /\ \A s \in Task : s # t => tasks'[s] = tasks[s] /\ Alike(s)
  BY <1>1, <1>4, <1>5, Moved, NotEnded
<1>7. ReviewsTypeOK'
  <2>1. sheet' \in [Reader -> SUBSET DOMAIN review'] /\ doubt' \subseteq {"overlap", "died"}
    BY <1>1, <1>2 DEF ReviewsTypeOK
  <2> QED BY <1>1, <1>2, <1>3, <1>6, <2>1 DEF ReviewsTypeOK
<1>8. RowsStay /\ \A u \in Reader : Live({u})' = Live({u})
  BY <1>2 DEF RowsStay, Live
<1>9. RequestWell(t)'
  BY <1>1, <1>2, <1>4, <1>6 DEF RequestWell, Inside
<1>10. RequestsWell'
  BY <1>1, <1>6, <1>8, <1>9, WellAfter
<1> QED BY <1>1, <1>4, <1>6, <1>7, <1>8, <1>10 DEF Well

LEMMA DieWell ==
  ASSUME Well, NEW t \in Task, Die(t)
  PROVE  /\ Well' /\ UNCHANGED <<review, rating, sheet>>
         /\ \A s \in Task : s # t => tasks'[s] = tasks[s] /\ Alike(s)
         /\ tasks[t] # Ended /\ tasks'[t] # Ended
         /\ tasks'[t].at = "failed"
         /\ tasks'[t].what = tasks[t].what /\ tasks'[t].by = tasks[t].by
         /\ tasks'[t].review = tasks[t].review /\ tasks'[t].got = tasks[t].got
         /\ doubt \subseteq doubt' /\ (Halfway(t) => doubt' # {})
         /\ story' = [story EXCEPT ![tasks[t].by] = @ \union {"died"}]
<1> DEFINE q == tasks[t]
           v == [q EXCEPT !.at = "failed"]
<1>1. /\ ReviewsTypeOK /\ RequestsWell /\ q # Ended /\ q \in Request
      /\ UNCHANGED <<review, rating, leaf, sheet, total, submits>>
      /\ RequestWell(t) /\ q.by \in Reader /\ deaths' = deaths + 1 /\ deaths < MaxDeaths
      /\ doubt' = (IF q.what \in {"create", "delete"} /\ q.at \in {"written", "computed"}
                   THEN doubt \union {"died"} ELSE doubt)
      /\ story' = [story EXCEPT ![q.by] = @ \union {"died"}]
  BY RequestIs DEF Well, Die, RequestsWell, Befalls
<1>2. /\ v \in Request /\ v.at = "failed" /\ v.review = q.review
      /\ v.what = q.what /\ v.by = q.by /\ v.got = q.got
  BY <1>1 DEF Request
<1>3. tasks' = [tasks EXCEPT ![t] = v]
  BY DEF Die, Moves
<1> HIDE DEF v
<1>4. /\ tasks' \in [Task -> Request \union {Ended}] /\ tasks'[t] = v /\ v # Ended
      /\ \A s \in Task : s # t => tasks'[s] = tasks[s] /\ Alike(s)
  BY <1>1, <1>2, <1>3, Moved, NotEnded
<1>5. ReviewsTypeOK'
  <2>1. deaths' \in 0 .. MaxDeaths
    <3>1. deaths \in 0 .. MaxDeaths /\ MaxDeaths \in Nat
      BY <1>1, ReviewsAssumption DEF ReviewsTypeOK
    <3>2. deaths' = deaths + 1 /\ deaths < MaxDeaths
      BY <1>1
    <3> QED BY <3>1, <3>2
  <2>2. story' \in [Reader -> SUBSET Events] /\ doubt' \subseteq {"overlap", "died"}
    BY <1>1 DEF ReviewsTypeOK, Events
  <2> QED BY <1>1, <1>4, <2>1, <2>2 DEF ReviewsTypeOK, Events
<1>6. RequestWell(t)'
  BY <1>1, <1>2, <1>4 DEF RequestWell, Inside
<1>7. RequestsWell'
  BY <1>1, <1>4, <1>6, RowsSame, WellAfter
<1>8. doubt \subseteq doubt' /\ (Halfway(t) => doubt' # {})
  BY <1>1 DEF Halfway
<1> QED BY <1>1, <1>2, <1>4, <1>5, <1>7, <1>8 DEF Well

LEMMA ServeWell ==
  ASSUME Well, NEW t \in Task, ServeList(t), tasks[t] # Ended
  PROVE  /\ Well' /\ UNCHANGED <<review, rating, doubt, sheet>>
         /\ \A s \in Task : s # t => tasks'[s] = tasks[s] /\ Alike(s)
         /\ tasks'[t] # Ended
         /\ tasks[t].at = "sent" /\ tasks[t].what = "list"
         /\ tasks'[t].at = "answered" /\ tasks'[t].what = "list" /\ tasks'[t].by = tasks[t].by
         /\ \/ story' = [story EXCEPT ![tasks[t].by] = @ \union {"left out"}]
            \/ /\ story' = [story EXCEPT ![tasks[t].by] = @ \ {"left out", "refused"}]
               /\ {i \in tasks'[t].got : review[i].by = tasks[t].by} = Live({tasks[t].by})
<1> DEFINE q == tasks[t]
           all == Cardinality(Live(Reader))
           v == [q EXCEPT !.at = "answered", !.got = OnLeaf(q.leaf), !.count = all]
           hidden == Live({q.by}) \ OnLeaf(q.leaf)
<1>1. /\ ReviewsTypeOK /\ RequestsWell /\ q \in Request /\ q.at = "sent" /\ q.what = "list"
      /\ UNCHANGED <<review, rating, doubt, leaf, sheet, total, submits, deaths>>
      /\ RequestWell(t) /\ q.by \in Reader
      /\ story' = [story EXCEPT ![q.by] = IF hidden # {} THEN @ \union {"left out"}
                                         ELSE @ \ {"left out", "refused"}]
  BY RequestIs DEF Well, ServeList, RequestsWell
<1>2. /\ OnLeaf(q.leaf) \subseteq DOMAIN review /\ all \in 0 .. MaxReviews
      /\ hidden = {} => {i \in OnLeaf(q.leaf) : review[i].by = q.by} = Live({q.by})
  BY <1>1, LeafIs
<1>3. /\ v \in Request /\ v.at = "answered" /\ v.what = "list" /\ v.by = q.by
      /\ v.got = OnLeaf(q.leaf)
  BY <1>1, <1>2, Rows DEF Request
<1>4. tasks' = [tasks EXCEPT ![t] = v]
  BY DEF ServeList, Moves
<1> HIDE DEF v, hidden, all
<1>5. /\ tasks' \in [Task -> Request \union {Ended}] /\ tasks'[t] = v /\ v # Ended
      /\ \A s \in Task : s # t => tasks'[s] = tasks[s] /\ Alike(s)
  BY <1>1, <1>3, <1>4, Moved, NotEnded
<1>6. story' \in [Reader -> SUBSET Events]
  <2>1. story \in [Reader -> SUBSET Events]
    BY <1>1 DEF ReviewsTypeOK, Events
  <2>2. (IF hidden # {} THEN story[q.by] \union {"left out"}
         ELSE story[q.by] \ {"left out", "refused"}) \in SUBSET Events
    BY <1>1, <2>1 DEF Events
  <2> QED BY <1>1, <2>1, <2>2
<1>7. ReviewsTypeOK'
  BY <1>1, <1>5, <1>6 DEF ReviewsTypeOK, Events
<1>8. RequestWell(t)'
  BY <1>1, <1>2, <1>3, <1>5 DEF RequestWell, Inside
<1>9. RequestsWell'
  BY <1>1, <1>5, <1>8, RowsSame, WellAfter
<1>10. \/ story' = [story EXCEPT ![q.by] = @ \union {"left out"}]
       \/ /\ story' = [story EXCEPT ![q.by] = @ \ {"left out", "refused"}]
          /\ {i \in v.got : review[i].by = q.by} = Live({q.by})
  BY <1>1, <1>2, <1>3
<1> QED BY <1>1, <1>3, <1>5, <1>7, <1>9, <1>10 DEF Well

LEMMA ReceiveWell ==
  ASSUME Well, NEW t \in Task, ReceiveReview(t), tasks[t] # Ended
  PROVE  /\ Well' /\ UNCHANGED <<review, rating, doubt, story>>
         /\ \A s \in Task : s # t => tasks'[s] = tasks[s] /\ Alike(s)
         /\ \A u \in Reader : u # tasks[t].by => sheet'[u] = sheet[u]
         /\ \/ tasks'[t] = Ended /\ tasks[t].at = "failed" /\ sheet' = sheet
            \/ /\ tasks'[t] = Ended /\ tasks[t].at = "answered" /\ tasks[t].what = "list"
               /\ sheet'[tasks[t].by] = tasks[t].got
            \/ /\ tasks'[t] = Ended /\ tasks[t].at = "answered" /\ tasks[t].what = "delete"
               /\ sheet'[tasks[t].by] = sheet[tasks[t].by] \ {tasks[t].review}
            \/ /\ tasks[t].at = "answered" /\ sheet' = sheet
               /\ tasks'[t] # Ended /\ tasks'[t].by = tasks[t].by
               /\ tasks'[t].what = "list" /\ tasks'[t].at = "sent"
<1> DEFINE q == tasks[t]
<1>1. /\ ReviewsTypeOK /\ RequestsWell /\ q \in Request /\ Receive(t)
      /\ UNCHANGED <<review, rating, leaf, submits, deaths, doubt, story>>
      /\ RequestWell(t) /\ q.by \in Reader /\ q.got \in SUBSET DOMAIN review
      /\ q.count \in 0 .. MaxReviews
  BY RequestIs DEF Well, ReceiveReview, RequestsWell, RequestWell
<1>2. ASSUME tasks' = [tasks EXCEPT ![t] = Ended],
             sheet' \in [Reader -> SUBSET DOMAIN review], total' \in [Reader -> 0 .. MaxReviews]
      PROVE  /\ Well' /\ tasks'[t] = Ended
             /\ \A s \in Task : s # t => tasks'[s] = tasks[s] /\ Alike(s)
  <2>1. /\ tasks' \in [Task -> Request \union {Ended}] /\ tasks'[t] = Ended
        /\ \A s \in Task : s # t => tasks'[s] = tasks[s] /\ Alike(s)
    BY <1>1, <1>2, Moved
  <2>2. ReviewsTypeOK'
    BY <1>1, <1>2, <2>1 DEF ReviewsTypeOK
  <2>3. RequestsWell'
    BY <1>1, <2>1, RowsSame, WellAfter DEF RequestWell
  <2> QED BY <2>1, <2>2, <2>3 DEF Well
<1>3. CASE q.at = "failed"
  <2>1. tasks' = [tasks EXCEPT ![t] = Ended] /\ UNCHANGED <<sheet, total>>
    BY <1>1, <1>3 DEF Receive, Moves
  <2> QED BY <1>1, <1>2, <1>3, <2>1 DEF ReviewsTypeOK
<1>4. CASE q.at = "answered" /\ q.what = "list"
  <2>1. /\ tasks' = [tasks EXCEPT ![t] = Ended]
        /\ sheet' = [sheet EXCEPT ![q.by] = q.got] /\ total' = [total EXCEPT ![q.by] = q.count]
    BY <1>1, <1>4 DEF Receive, Moves
  <2>2. /\ sheet' \in [Reader -> SUBSET DOMAIN review] /\ total' \in [Reader -> 0 .. MaxReviews]
        /\ sheet'[q.by] = q.got /\ \A u \in Reader : u # q.by => sheet'[u] = sheet[u]
    BY <1>1, <2>1 DEF ReviewsTypeOK
  <2> QED BY <1>1, <1>2, <1>4, <2>1, <2>2
<1>5. CASE q.at = "answered" /\ q.what = "delete"
  <2>1. /\ tasks' = [tasks EXCEPT ![t] = Ended] /\ total' = total
        /\ sheet' = [sheet EXCEPT ![q.by] = @ \ {q.review}]
    BY <1>1, <1>5 DEF Receive, Moves
  <2>2. /\ sheet' \in [Reader -> SUBSET DOMAIN review] /\ total' \in [Reader -> 0 .. MaxReviews]
        /\ sheet'[q.by] = sheet[q.by] \ {q.review}
        /\ \A u \in Reader : u # q.by => sheet'[u] = sheet[u]
    BY <1>1, <2>1 DEF ReviewsTypeOK
  <2> QED BY <1>1, <1>2, <1>5, <2>1, <2>2
<1>6. CASE q.at = "answered" /\ q.what \in {"create", "update"}
  <2> DEFINE v == [q EXCEPT !.what = "list", !.at = "sent", !.review = 0,
                            !.loaded = NoFigures, !.new = NoFigures, !.alone = TRUE]
  <2>1. tasks' = [tasks EXCEPT ![t] = v] /\ UNCHANGED <<sheet, total>>
    BY <1>1, <1>6 DEF Receive, Moves
  <2>2. NoFigures \in Figures /\ 0 \in 0 .. MaxReviews
    BY ReviewsAssumption DEF NoFigures, Figures
  <2>3. /\ v \in Request /\ v.at = "sent" /\ v.what = "list" /\ v.by = q.by /\ v.got = q.got
    BY <1>1, <2>2 DEF Request
  <2> HIDE DEF v
  <2>4. /\ tasks' \in [Task -> Request \union {Ended}] /\ tasks'[t] = v /\ v # Ended
        /\ \A s \in Task : s # t => tasks'[s] = tasks[s] /\ Alike(s)
    BY <1>1, <2>1, <2>3, Moved, NotEnded
  <2>5. ReviewsTypeOK'
    BY <1>1, <2>1, <2>4 DEF ReviewsTypeOK
  <2>6. RequestWell(t)'
    BY <1>1, <2>3, <2>4 DEF RequestWell, Inside
  <2>7. RequestsWell'
    BY <1>1, <2>4, <2>6, RowsSame, WellAfter
  <2> QED BY <1>1, <1>6, <2>1, <2>3, <2>4, <2>5, <2>7 DEF Well
<1> QED BY <1>1, <1>3, <1>4, <1>5, <1>6 DEF Receive

(* Every step is one of those above.                                       *)
LEMMA ReviewsSteps ==
  ASSUME Well, ReviewsNext
  PROVE  \/ \E u \in Reader, t \in Task, v \in Request : Begins(u, t, v)
         \/ \E t \in Task :
              /\ tasks[t] # Ended
              /\ \/ LoadRestaurant(t) \/ Check(t) \/ WriteReview(t) \/ ComputeAverage(t)
                 \/ StoreAverage(t) \/ Die(t) \/ ServeList(t) \/ ReceiveReview(t)
<1>1. ReviewsTypeOK /\ 1 \in Leaf
  BY ReviewsAssumption DEF Leaf, Well
<1>2. ASSUME NEW u \in Reader, NEW s \in Stars, Submit(u, s)
      PROVE  \E t \in Task, v \in Request : Begins(u, t, v)
  BY <1>1, <1>2, AsksBegin
<1>3. ASSUME NEW u \in Reader, Delete(u)
      PROVE  \E t \in Task, v \in Request : Begins(u, t, v)
  <2>1. PICK i \in Own(u) : TRUE
    BY <1>3 DEF Delete
  <2>2. i \in DOMAIN review
    BY <1>1 DEF Own, ReviewsTypeOK
  <2>3. review[i].stars \in Stars
    BY <1>1, <2>2, Rows
  <2> QED BY <1>1, <1>3, <2>3, AsksBegin
<1>4. ASSUME NEW u \in Reader, NEW page \in Leaf, TurnLeaf(u, page)
      PROVE  \E t \in Task, v \in Request : Begins(u, t, v)
  <2>1. PICK i \in sheet[u] : TRUE
    BY <1>4 DEF TurnLeaf
  <2>2. i \in DOMAIN review
    BY <1>1 DEF ReviewsTypeOK
  <2>3. review[i].stars \in Stars
    BY <1>1, <2>2, Rows
  <2> QED BY <1>1, <1>4, <2>3, AsksBegin
<1> QED BY <1>2, <1>3, <1>4 DEF ReviewsNext

LEMMA ReviewsWellInit == ReviewsInit => Well
<1> SUFFICES ASSUME ReviewsInit PROVE Well
  OBVIOUS
<1>1. \A n \in 0 .. Min({2, MaxReviews}) : n \in Nat /\ n <= MaxReviews
  <2>1. CASE MaxReviews <= 2
    BY <2>1, ReviewsAssumption DEF Min
  <2>2. CASE ~(MaxReviews <= 2)
    BY <2>2, ReviewsAssumption DEF Min
  <2> QED BY <2>1, <2>2
<1>2. PICK n \in 0 .. Min({2, MaxReviews}) : review \in [1 .. n -> Row]
  BY DEF ReviewsInit
<1>3. /\ review \in Seq(Row) /\ Len(review) <= MaxReviews /\ DOMAIN review = 1 .. n
      /\ Len(review) = n /\ n \in 0 .. MaxReviews
  <2>1. n \in Nat /\ n <= MaxReviews
    BY <1>1
  <2> QED BY <1>2, <2>1
<1>4. rating \in Figures
  BY <1>3, TallyIsFigures DEF ReviewsInit
<1>5. /\ leaf \in [Reader -> Leaf] /\ total \in [Reader -> 0 .. MaxReviews]
      /\ submits \in 0 .. MaxSubmits /\ deaths \in 0 .. MaxDeaths
  <2>1. 1 \in Leaf
    BY ReviewsAssumption DEF Leaf
  <2>2. 0 \in 0 .. MaxSubmits /\ 0 \in 0 .. MaxDeaths
    BY ReviewsAssumption
  <2> QED BY <1>3, <2>1, <2>2 DEF ReviewsInit
<1>6. sheet \in [Reader -> SUBSET DOMAIN review]
  <2>1. OnLeaf(1) \subseteq DOMAIN review
    BY DEF OnLeaf, Live
  <2> QED BY <2>1 DEF ReviewsInit
<1>7. story \in [Reader -> SUBSET Events] /\ doubt \subseteq {"overlap", "died"}
  BY DEF ReviewsInit, Events
<1>8. tasks = [t \in Task |-> Ended]
  BY DEF ReviewsInit
<1>9. ReviewsTypeOK
  BY <1>3, <1>4, <1>5, <1>6, <1>7, <1>8 DEF ReviewsTypeOK, Events
<1>10. RequestsWell
  BY <1>8 DEF RequestsWell, RequestWell
<1> QED BY <1>9, <1>10 DEF Well

-----------------------------------------------------------------------------
(* The figures. *)
FiguresSound == LoneIsAlone /\ LoneFigures /\ FiguresKept

(* A step of a request that writes neither rows nor figures.               *)
LEMMA FiguresStay ==
  ASSUME FiguresSound, NEW t \in Task,
         \A s \in Task : s # t => tasks'[s] = tasks[s],
         UNCHANGED <<review, rating>>, doubt \subseteq doubt',
         Inside(t)' =>
           /\ Inside(t) /\ tasks'[t].alone = tasks[t].alone /\ tasks'[t].loaded = tasks[t].loaded
           /\ tasks'[t].at = "computed" => tasks'[t].new = Tally(Edited(tasks'[t])),
         doubt' = {} /\ Halfway(t) => Halfway(t)'
  PROVE  FiguresSound'
<1>1. \A s \in Task : s # t => (Inside(s)' <=> Inside(s)) /\ (Halfway(s)' <=> Halfway(s))
  BY DEF Inside, Halfway
<1>2. \A s \in Task : /\ Inside(s)' => Inside(s)
                      /\ Lone(s)' => Lone(s) /\ Inside(s)' /\ Inside(s)
  BY <1>1 DEF Lone
<1>3. LoneIsAlone'
  BY <1>2 DEF FiguresSound, LoneIsAlone
<1>4. LoneFigures'
  <2> SUFFICES ASSUME NEW s \in Task, Lone(s)'
               PROVE  /\ tasks'[s].loaded = rating'
                      /\ tasks'[s].at = "computed" => tasks'[s].new = Tally(Edited(tasks'[s]))
    <3>1. ASSUME NEW s \in Task PROVE Tally(Edited(tasks[s]))' = Tally(Edited(tasks'[s]))
      <4>1. Edited(tasks[s])' = Edited(tasks'[s])
        BY DEF Edited
      <4> QED BY <4>1
    <3> QED BY <3>1 DEF LoneFigures
  <2>1. tasks[s].loaded = rating /\ (tasks[s].at = "computed" => tasks[s].new = Tally(Edited(tasks[s])))
    BY <1>2 DEF FiguresSound, LoneFigures
  <2>3. CASE s = t
    BY <2>1, <2>3 DEF Lone
  <2>4. CASE s # t
    BY <2>1, <2>4
  <2> QED BY <2>3, <2>4
<1>5. FiguresKept'
  BY <1>1 DEF FiguresSound, FiguresKept
<1> QED BY <1>3, <1>4, <1>5 DEF FiguresSound

LEMMA LoadFigures ==
  ASSUME Well, FiguresSound, NEW t \in Task, LoadRestaurant(t)
  PROVE  FiguresSound'
<1>1. /\ UNCHANGED <<review, rating, doubt>>
      /\ \A s \in Task : s # t => Alike(s)
      /\ tasks'[t].at = "loaded" /\ tasks'[t].loaded = rating
      /\ tasks'[t].alone <=> \A s \in Task : ~Inside(s)
      /\ \A s \in Task : s # t /\ tasks[s] # Ended /\ Inside(s) => tasks'[s].alone = FALSE
  BY LoadWell
<1>2. \A s \in Task : s # t => (Inside(s)' <=> Inside(s)) /\ (Halfway(s)' <=> Halfway(s))
  BY <1>1 DEF Alike, Inside, Halfway
<1>3. ASSUME NEW s \in Task, Lone(s)' PROVE s = t /\ \A r \in Task : Inside(r)' => r = t
  <2>1. s = t
    <3> SUFFICES ASSUME s # t PROVE FALSE
      OBVIOUS
    <3>1. Inside(s) /\ tasks[s] # Ended /\ tasks'[s].alone
      BY <1>2, <1>3 DEF Lone, Inside
    <3> QED BY <1>1, <3>1
  <2>2. tasks'[t].alone
    BY <1>3, <2>1 DEF Lone
  <2> QED BY <1>1, <1>2, <2>1, <2>2
<1>4. LoneIsAlone'
  BY <1>3 DEF LoneIsAlone
<1>5. LoneFigures'
  BY <1>1, <1>3 DEF LoneFigures
<1>6. FiguresKept'
  <2>1. ~Halfway(t)'
    BY <1>1 DEF Halfway
  <2>2. tasks[t].at = "sent"
    BY DEF LoadRestaurant
  <2>3. ~Halfway(t)
    BY <2>2 DEF Halfway
  <2> QED BY <1>1, <1>2, <2>1, <2>3 DEF FiguresSound, FiguresKept
<1> QED BY <1>4, <1>5, <1>6 DEF FiguresSound

LEMMA WriteFigures ==
  ASSUME Well, FiguresSound, NEW t \in Task, WriteReview(t), tasks[t] # Ended
  PROVE  FiguresSound'
<1>1. /\ UNCHANGED <<rating, doubt>>
      /\ \A s \in Task : s # t => tasks'[s] = tasks[s]
      /\ tasks'[t] # Ended
      /\ tasks[t].at = "checked" /\ tasks'[t].at = "written"
      /\ tasks'[t].what = tasks[t].what
      /\ tasks'[t].loaded = tasks[t].loaded /\ tasks'[t].alone = tasks[t].alone
      /\ tasks[t].what \in {"create", "delete"} \/ review' = review
  BY WriteWell
<1>2. CASE review' = review
  <2>1. Inside(t) /\ ~Halfway(t)
    BY <1>1 DEF Inside, Halfway
  <2> QED BY <1>1, <1>2, <2>1, FiguresStay
<1>3. CASE tasks[t].what \in {"create", "delete"}
  <2>1. \A s \in Task : (Inside(s)' <=> Inside(s)) /\ (Lone(s)' <=> Lone(s))
    BY <1>1 DEF Inside, Lone
  <2>2. Inside(t) /\ Halfway(t)'
    BY <1>1, <1>3 DEF Inside, Halfway
  <2>3. LoneIsAlone'
    BY <2>1 DEF FiguresSound, LoneIsAlone
  <2>4. LoneFigures'
    <3>1. ASSUME NEW s \in Task, Lone(s)' PROVE s = t
      BY <2>1, <2>2, <3>1 DEF FiguresSound, LoneIsAlone
    <3>2. Lone(t) => tasks[t].loaded = rating
      BY DEF FiguresSound, LoneFigures
    <3> QED BY <1>1, <2>1, <3>1, <3>2 DEF LoneFigures
  <2>5. FiguresKept'
    BY <2>2 DEF FiguresKept
  <2> QED BY <2>3, <2>4, <2>5 DEF FiguresSound
<1> QED BY <1>1, <1>2, <1>3

LEMMA StoreFigures ==
  ASSUME Well, FiguresSound, NEW t \in Task, StoreAverage(t), tasks[t] # Ended
  PROVE  FiguresSound'
<1>1. /\ \A s \in Task : s # t => tasks'[s] = tasks[s]
      /\ tasks[t].at = "computed" /\ tasks'[t].at = "answered"
      /\ rating' = Stored(tasks[t]) /\ review' = Edited(tasks[t])
      /\ doubt' = (IF tasks[t].alone THEN {} ELSE doubt \union {"overlap"})
  BY StoreWell
<1>2. Inside(t) /\ ~Inside(t)'
  BY <1>1 DEF Inside
<1>3. ASSUME NEW s \in Task PROVE ~Lone(s)'
  <2> SUFFICES ASSUME Lone(s)' PROVE FALSE
    OBVIOUS
  <2>1. s # t
    BY <1>2 DEF Lone
  <2>2. Lone(s)
    BY <1>1, <2>1 DEF Lone, Inside
  <2> QED BY <1>2, <2>1, <2>2 DEF FiguresSound, LoneIsAlone
<1>4. LoneIsAlone' /\ LoneFigures'
  BY <1>3 DEF LoneIsAlone, LoneFigures
<1>5. FiguresKept'
  <2> SUFFICES ASSUME doubt' = {} PROVE rating' = Tally(review')
    BY DEF FiguresKept
  <2>1. Lone(t)
    BY <1>1, <1>2 DEF Lone
  <2>2. tasks[t].loaded = rating /\ tasks[t].new = Tally(Edited(tasks[t]))
    BY <1>1, <2>1 DEF FiguresSound, LoneFigures
  <2>3. tasks[t].new \in Figures
    BY RequestIs DEF Well
  <2>4. Stored(tasks[t]) = [avg |-> tasks[t].new.avg, count |-> tasks[t].new.count]
    BY <2>2 DEF Stored
  <2>5. Stored(tasks[t]) = tasks[t].new
    BY <2>3, <2>4 DEF Figures
  <2> QED BY <1>1, <2>2, <2>5
<1> QED BY <1>4, <1>5 DEF FiguresSound

LEMMA FiguresStep ==
  Well /\ FiguresSound /\ [ReviewsNext]_reviewsVars => Well' /\ FiguresSound'
<1> SUFFICES ASSUME Well, FiguresSound, [ReviewsNext]_reviewsVars PROVE Well' /\ FiguresSound'
  OBVIOUS
<1>1. ASSUME NEW u \in Reader, NEW t \in Task, NEW v \in Request, Begins(u, t, v)
      PROVE  Well' /\ FiguresSound'
  <2>1. /\ tasks[t] = Ended /\ tasks' = [tasks EXCEPT ![t] = v] /\ v.at = "sent"
        /\ UNCHANGED <<review, rating, doubt>>
    BY <1>1 DEF Begins
  <2>2. tasks'[t] = v /\ \A s \in Task : s # t => tasks'[s] = tasks[s]
    BY <2>1, Moved DEF Well
  <2>3. ~Inside(t)' /\ ~Halfway(t)
    BY <2>1, <2>2 DEF Inside, Halfway
  <2> QED BY <1>1, <2>1, <2>2, <2>3, FiguresStay, BeginWell
<1>2. ASSUME NEW t \in Task, LoadRestaurant(t) PROVE Well' /\ FiguresSound'
  BY <1>2, LoadWell, LoadFigures
<1>3. ASSUME NEW t \in Task, Check(t), tasks[t] # Ended PROVE Well' /\ FiguresSound'
  <2>1. /\ Well' /\ UNCHANGED <<review, rating, doubt>>
        /\ \A s \in Task : s # t => tasks'[s] = tasks[s]
        /\ tasks[t].at = "loaded" /\ tasks'[t].at \in {"checked", "failed"}
        /\ tasks'[t].loaded = tasks[t].loaded /\ tasks'[t].alone = tasks[t].alone
    BY <1>3, CheckWell
  <2>2. Inside(t) /\ ~Halfway(t)
    BY <1>3, <2>1 DEF Inside, Halfway
  <2> QED BY <2>1, <2>2, FiguresStay
<1>4. ASSUME NEW t \in Task, WriteReview(t), tasks[t] # Ended PROVE Well' /\ FiguresSound'
  BY <1>4, WriteWell, WriteFigures
<1>5. ASSUME NEW t \in Task, ComputeAverage(t), tasks[t] # Ended PROVE Well' /\ FiguresSound'
  <2>1. /\ Well' /\ UNCHANGED <<review, rating, doubt>>
        /\ \A s \in Task : s # t => tasks'[s] = tasks[s]
        /\ tasks[t].at = "written" /\ tasks'[t].at = "computed" /\ tasks'[t] # Ended
        /\ tasks'[t].loaded = tasks[t].loaded /\ tasks'[t].alone = tasks[t].alone
        /\ tasks'[t].what = tasks[t].what /\ tasks'[t].new = Tally(Edited(tasks'[t]))
    BY <1>5, ComputeWell
  <2>2. Inside(t) /\ (Halfway(t) => Halfway(t)')
    BY <1>5, <2>1 DEF Inside, Halfway
  <2> QED BY <2>1, <2>2, FiguresStay
<1>6. ASSUME NEW t \in Task, StoreAverage(t), tasks[t] # Ended PROVE Well' /\ FiguresSound'
  BY <1>6, StoreWell, StoreFigures
<1>7. ASSUME NEW t \in Task, Die(t) PROVE Well' /\ FiguresSound'
  <2>1. /\ Well' /\ UNCHANGED <<review, rating>> /\ doubt \subseteq doubt'
        /\ \A s \in Task : s # t => tasks'[s] = tasks[s]
        /\ tasks'[t].at = "failed" /\ (Halfway(t) => doubt' # {})
    BY <1>7, DieWell
  <2>2. ~Inside(t)'
    BY <2>1 DEF Inside
  <2> QED BY <2>1, <2>2, FiguresStay
<1>8. ASSUME NEW t \in Task, ServeList(t), tasks[t] # Ended PROVE Well' /\ FiguresSound'
  <2>1. /\ Well' /\ UNCHANGED <<review, rating, doubt>>
        /\ \A s \in Task : s # t => tasks'[s] = tasks[s]
        /\ tasks[t].at = "sent" /\ tasks'[t].at = "answered"
    BY <1>8, ServeWell
  <2>2. ~Inside(t)' /\ ~Halfway(t)
    BY <2>1 DEF Inside, Halfway
  <2> QED BY <2>1, <2>2, FiguresStay
<1>9. ASSUME NEW t \in Task, ReceiveReview(t), tasks[t] # Ended PROVE Well' /\ FiguresSound'
  <2>1. /\ Well' /\ UNCHANGED <<review, rating, doubt>>
        /\ \A s \in Task : s # t => tasks'[s] = tasks[s]
        /\ tasks[t].at \in {"failed", "answered"}
        /\ tasks'[t] = Ended \/ tasks'[t].at = "sent"
    BY <1>9, ReceiveWell
  <2>2. ~Inside(t)' /\ ~Halfway(t)
    BY <2>1 DEF Inside, Halfway
  <2> QED BY <2>1, <2>2, FiguresStay
<1>10. CASE UNCHANGED reviewsVars
  <2>1. Well'
    BY <1>10 DEF reviewsVars, Well, ReviewsTypeOK, RequestsWell, RequestWell, Inside
  <2>2. FiguresSound'
    BY <1>10
    DEF reviewsVars, FiguresSound, LoneIsAlone, LoneFigures, FiguresKept, Lone, Inside, Halfway,
        Edited
  <2> QED BY <2>1, <2>2
<1> QED BY <1>1, <1>2, <1>3, <1>4, <1>5, <1>6, <1>7, <1>8, <1>9, <1>10, ReviewsSteps

-----------------------------------------------------------------------------
(* One review of each reader, and pages that know it. *)
LEMMA OwnStays ==
  ASSUME Well, RowsStay, NEW u \in Reader, sheet'[u] = sheet[u]
  PROVE  Own(u)' = Own(u)
<1>1. sheet[u] \subseteq DOMAIN review
  BY DEF Well, ReviewsTypeOK
<1> QED BY <1>1 DEF Own, RowsStay

(* A reader whom a step does not concern. *)
LEMMA Undisturbed ==
  ASSUME Well, RowsStay, NEW u \in Reader, Tidy(u), Abreast(u),
         story'[u] = story[u], sheet'[u] = sheet[u], Live({u})' = Live({u}),
         \A s \in Task : (Of(s, u)' <=> Of(s, u)) /\ (Of(s, u) => Alike(s))
  PROVE  Tidy(u)' /\ Abreast(u)'
<1>1. Own(u)' = Own(u)
  BY OwnStays
<1>2. Tidy(u)'
  BY DEF Tidy, Uncrossed, AtMostOne, Alike, Of
<1>3. ASSUME NEW t \in Task, Of(t, u), Knows(u, t) PROVE Knows(u, t)'
  <2>1. /\ tasks'[t].at = tasks[t].at /\ tasks'[t].what = tasks[t].what
        /\ tasks'[t].review = tasks[t].review /\ tasks'[t].got = tasks[t].got
    BY <1>3 DEF Of, Alike
  <2>2. tasks[t].got \subseteq DOMAIN review
    BY <1>3 DEF Of, Well, RequestsWell, RequestWell
  <2>3. {i \in tasks[t].got : review'[i].by = u} = {i \in tasks[t].got : review[i].by = u}
    BY <2>2 DEF RowsStay
  <2> QED BY <1>1, <1>3, <2>1, <2>3 DEF Knows
<1>4. Abreast(u)'
  BY <1>1, <1>3 DEF Abreast, Clean
<1> QED BY <1>2, <1>4

(* The reader whose request it is.                                         *)
Served(u, t) ==
  /\ "twin" \notin story'[u] => AtMostOne(u)'
  /\ Uncrossed(u)' =>
       /\ "twin" \notin story'[u]
       /\ tasks'[t] # Ended /\ tasks'[t].what = "create" /\ tasks'[t].at = "checked" =>
            Live({u})' = {}
  /\ Clean(u)' =>
       /\ "refused" \notin story'[u]
       /\ tasks'[t] = Ended => Own(u)' = Live({u})'
       /\ tasks'[t] # Ended => Knows(u, t)'

LEMMA Acting ==
  ASSUME NEW t \in Task, NEW u \in Reader, Of(t, u), Tidy(u),
         \A s \in Task : s # t => Alike(s),
         tasks'[t] = Ended \/ tasks'[t].by = u,
         Uncrossed(u)' => Uncrossed(u), Served(u, t)
  PROVE  Tidy(u)' /\ Abreast(u)'
<1>1. \A s \in Task : s # t => (Of(s, u)' <=> Of(s, u))
  BY DEF Of, Alike
<1>2. Uncrossed(u)' => \A s \in Task : Of(s, u)' => s = t
  BY <1>1 DEF Tidy
<1>3. Of(t, u)' <=> tasks'[t] # Ended
  BY DEF Of
<1>4. Tidy(u)'
  BY <1>2, <1>3 DEF Tidy, Served
<1>5. Clean(u)' => Uncrossed(u)'
  BY DEF Clean, Uncrossed
<1>6. Abreast(u)'
  BY <1>2, <1>3, <1>5 DEF Abreast, Served
<1> QED BY <1>4, <1>6

(* What a step of a request owes to every reader.                          *)
LEMMA ForAll ==
  ASSUME Well, RowsStay, NEW t \in Task, tasks[t] # Ended,
         \A u \in Reader : Tidy(u) /\ Abreast(u),
         \A s \in Task : s # t => Alike(s),
         tasks'[t] = Ended \/ tasks'[t].by = tasks[t].by,
         \A u \in Reader : u # tasks[t].by =>
           story'[u] = story[u] /\ sheet'[u] = sheet[u] /\ Live({u})' = Live({u}),
         \A u \in Reader : u = tasks[t].by => (Uncrossed(u)' => Uncrossed(u)) /\ Served(u, t)
  PROVE  \A u \in Reader : Tidy(u)' /\ Abreast(u)'
<1> SUFFICES ASSUME NEW u \in Reader PROVE Tidy(u)' /\ Abreast(u)'
  OBVIOUS
<1>1. CASE u = tasks[t].by
  <2>1. Of(t, u)
    BY <1>1 DEF Of
  <2> QED BY <1>1, <2>1, Acting
<1>2. CASE u # tasks[t].by
  <2>1. \A s \in Task : (Of(s, u)' <=> Of(s, u)) /\ (Of(s, u) => Alike(s))
    BY <1>2 DEF Of, Alike
  <2> QED BY <1>2, <2>1, Undisturbed
<1> QED BY <1>1, <1>2

Tracked == \A u \in Reader : Tidy(u) /\ Abreast(u)

LEMMA BeginTracked ==
  ASSUME Well, Tracked, NEW w \in Reader, NEW t \in Task, NEW v \in Request, Begins(w, t, v)
  PROVE  Tracked'
<1>1. /\ tasks[t] = Ended /\ tasks' = [tasks EXCEPT ![t] = v] /\ v.at = "sent" /\ v.by = w
      /\ v.got = {}
      /\ \/ v.what = "create" /\ Own(w) = {}
         \/ v.what = "update" /\ Own(w) # {}
         \/ v.what = "delete" /\ v.review \in Own(w)
         \/ v.what = "list"
      /\ story' = [story EXCEPT ![w] =
           @ \union (IF \E s \in Task : Of(s, w) THEN {"crossed"} ELSE {})]
      /\ UNCHANGED <<review, sheet>>
  BY DEF Begins
<1>2. /\ tasks'[t] = v /\ v # Ended
      /\ \A s \in Task : s # t => tasks'[s] = tasks[s] /\ Alike(s)
  BY <1>1, Moved, NotEnded DEF Well
<1>3. RowsStay /\ \A u \in Reader : Live({u})' = Live({u}) /\ Own(u)' = Own(u)
  BY <1>1, RowsSame DEF Live, Own
<1>4. story \in [Reader -> SUBSET Events]
  BY DEF Well, ReviewsTypeOK, Events
<1> SUFFICES ASSUME NEW u \in Reader PROVE Tidy(u)' /\ Abreast(u)'
  BY DEF Tracked
<1>5. Tidy(u) /\ Abreast(u)
  BY DEF Tracked
<1>6. CASE u # w
  <2>1. \A s \in Task : (Of(s, u)' <=> Of(s, u)) /\ (Of(s, u) => Alike(s))
    BY <1>1, <1>2, <1>6 DEF Of
  <2>2. story'[u] = story[u]
    BY <1>1, <1>4, <1>6
  <2> QED BY <1>1, <1>3, <1>5, <2>1, <2>2, Undisturbed
<1>7. CASE u = w /\ \E s \in Task : Of(s, u)
  <2>1. story'[u] = story[u] \union {"crossed"}
    BY <1>1, <1>4, <1>7
  <2>2. ~Uncrossed(u)' /\ ~Clean(u)' /\ ("twin" \notin story'[u] => "twin" \notin story[u])
    BY <2>1 DEF Uncrossed, Clean
  <2>3. AtMostOne(u)' <=> AtMostOne(u)
    BY <1>3 DEF AtMostOne
  <2> QED BY <1>5, <2>2, <2>3 DEF Tidy, Abreast
<1>8. CASE u = w /\ \A s \in Task : ~Of(s, u)
  <2>1. story'[u] = story[u]
    BY <1>1, <1>4, <1>8
  <2>2. \A s \in Task : Of(s, u)' <=> s = t
    BY <1>1, <1>2, <1>8 DEF Of
  <2>3. Tidy(u)'
    BY <1>1, <1>2, <1>3, <1>5, <2>1, <2>2 DEF Tidy, AtMostOne, Uncrossed
  <2>4. Abreast(u)'
    <3> SUFFICES ASSUME Clean(u) PROVE "refused" \notin story[u] /\ Knows(u, t)'
      BY <2>1, <2>2 DEF Abreast, Clean
    <3>1. "refused" \notin story[u] /\ Own(u) = Live({u})
      BY <1>5, <1>8 DEF Abreast
    <3>2. Knows(u, t)'
      BY <1>1, <1>2, <1>3, <1>8, <3>1 DEF Knows
    <3> QED BY <3>1, <3>2
  <2> QED BY <2>3, <2>4
<1> QED BY <1>6, <1>7, <1>8

LEMMA LoadTracked ==
  ASSUME Well, Tracked, NEW t \in Task, LoadRestaurant(t)
  PROVE  Tracked'
<1>1. /\ UNCHANGED <<review, sheet, story>>
      /\ \A s \in Task : s # t => Alike(s)
      /\ tasks[t] # Ended /\ tasks'[t] # Ended
      /\ tasks[t].at = "sent" /\ tasks'[t].at = "loaded" /\ tasks[t].what \in Changing
      /\ tasks'[t].what = tasks[t].what /\ tasks'[t].by = tasks[t].by
      /\ tasks'[t].review = tasks[t].review
  BY LoadWell
<1>2. RowsStay /\ \A u \in Reader : Live({u})' = Live({u}) /\ Own(u)' = Own(u)
  BY <1>1, RowsSame DEF Live, Own
<1>3. ASSUME NEW u \in Reader, u = tasks[t].by PROVE Served(u, t)
  <2>1. Tidy(u) /\ Abreast(u) /\ Of(t, u)
    BY <1>1, <1>3 DEF Tracked, Of
  <2>2. Clean(u) => "refused" \notin story[u] /\ Knows(u, t)
    BY <2>1 DEF Abreast
  <2>3. Knows(u, t) => Knows(u, t)'
    BY <1>1, <1>2 DEF Knows, Changing
  <2> QED BY <1>1, <1>2, <2>1, <2>2, <2>3 DEF Served, Tidy, AtMostOne, Uncrossed, Clean
<1> QED BY <1>1, <1>2, <1>3, ForAll DEF Tracked, Uncrossed

LEMMA CheckTracked ==
  ASSUME Well, Tracked, NEW t \in Task, Check(t), tasks[t] # Ended
  PROVE  Tracked'
<1>1. /\ UNCHANGED <<review, sheet>>
      /\ \A s \in Task : s # t => Alike(s)
      /\ tasks'[t] # Ended
      /\ tasks[t].at = "loaded" /\ tasks[t].what \in Changing
      /\ tasks'[t].what = tasks[t].what /\ tasks'[t].by = tasks[t].by
      /\ \/ /\ Passes(tasks[t]) /\ tasks'[t].at = "checked" /\ story' = story
            /\ tasks'[t].review = Subject(tasks[t])
         \/ /\ ~Passes(tasks[t]) /\ tasks'[t].at = "failed"
            /\ story' = [story EXCEPT ![tasks[t].by] = @ \union {"refused"}]
  BY CheckWell
<1>2. RowsStay /\ \A u \in Reader : Live({u})' = Live({u}) /\ Own(u)' = Own(u)
  BY <1>1, RowsSame DEF Live, Own
<1>3. story \in [Reader -> SUBSET Events] /\ tasks[t].by \in Reader
  BY RequestIs DEF Well, ReviewsTypeOK, Events
<1>4. ASSUME NEW u \in Reader, u = tasks[t].by
      PROVE  (Uncrossed(u)' => Uncrossed(u)) /\ Served(u, t)
  <2>1. Tidy(u) /\ Abreast(u) /\ Of(t, u)
    BY <1>4 DEF Tracked, Of
  <2>2. Clean(u) => "refused" \notin story[u] /\ Knows(u, t)
    BY <2>1 DEF Abreast
  <2>3. AtMostOne(u)' <=> AtMostOne(u)
    BY <1>2 DEF AtMostOne
  <2>4. CASE Passes(tasks[t])
    <3>1. /\ tasks'[t].at = "checked" /\ story' = story /\ tasks'[t].review = Subject(tasks[t])
      BY <1>1, <2>4
    <3>2. tasks[t].what = "create" => Live({u}) = {}
      BY <1>4, <2>4 DEF Passes
    <3>3. tasks[t].what = "delete" => tasks'[t].review = tasks[t].review
      BY <3>1 DEF Subject
    <3>4. Knows(u, t) => Knows(u, t)'
      BY <1>1, <1>2, <3>1, <3>2, <3>3 DEF Knows, Changing
    <3> QED BY <1>1, <1>2, <2>1, <2>2, <2>3, <3>1, <3>2, <3>4
            DEF Served, Tidy, Uncrossed, Clean
  <2>5. CASE ~Passes(tasks[t])
    <3>1. /\ tasks'[t].at = "failed" /\ story'[u] = story[u] \union {"refused"}
      BY <1>1, <1>3, <1>4, <2>5
    <3>2. (Uncrossed(u)' <=> Uncrossed(u)) /\ (Clean(u)' <=> Clean(u))
          /\ ("twin" \in story'[u] <=> "twin" \in story[u])
      BY <3>1 DEF Uncrossed, Clean
    <3>3. ~Clean(u)
      <4> SUFFICES ASSUME Clean(u) PROVE FALSE
        OBVIOUS
      <4>1. Knows(u, t)
        BY <2>2
      <4>2. CASE tasks[t].what = "create"
        BY <1>1, <1>4, <2>5, <4>1, <4>2 DEF Knows, Passes
      <4>3. CASE tasks[t].what = "update"
        <5>1. Live({u}) # {} /\ AtMostOne(u)
          BY <1>1, <2>1, <4>1, <4>3 DEF Knows, Tidy, Clean, Uncrossed
        <5>2. \E i : Live({u}) = {i}
          BY <5>1 DEF AtMostOne
        <5>3. Cardinality(Live({u})) = 1
          BY <5>2, FS_Singleton
        <5> QED BY <1>4, <2>5, <4>3, <5>3 DEF Passes
      <4>4. CASE tasks[t].what = "delete"
        BY <1>1, <1>4, <2>5, <4>1, <4>4 DEF Knows, Passes
      <4> QED BY <1>1, <4>2, <4>3, <4>4 DEF Changing
    <3> QED BY <2>1, <2>3, <3>1, <3>2, <3>3 DEF Served, Tidy
  <2> QED BY <2>4, <2>5
<1>5. \A u \in Reader : u # tasks[t].by => story'[u] = story[u]
  BY <1>1, <1>3
<1> QED BY <1>1, <1>2, <1>4, <1>5, ForAll DEF Tracked

LEMMA WriteTracked ==
  ASSUME Well, Tracked, NEW t \in Task, WriteReview(t), tasks[t] # Ended
  PROVE  Tracked'
<1> DEFINE q == tasks[t]
<1>1. /\ sheet' = sheet /\ RowsStay
      /\ \A s \in Task : s # t => Alike(s)
      /\ tasks'[t] # Ended
      /\ q.at = "checked" /\ tasks'[t].at = "written"
      /\ tasks'[t].what = q.what /\ tasks'[t].by = q.by /\ tasks'[t].review = q.review
      /\ \/ /\ q.what = "create"
            /\ story' = [story EXCEPT ![q.by] =
                 @ \union (IF Live({q.by}) # {} THEN {"twin"} ELSE {})]
            /\ \A u \in Reader : Live({u})' = Live({u}) \union
                 (IF u = q.by THEN {Len(review) + 1} ELSE {})
         \/ /\ q.what = "delete" /\ story' = story
            /\ \A u \in Reader : Live({u})' = Live({u}) \ {q.review}
         \/ q.what = "update" /\ story' = story /\ review' = review
  BY WriteWell
<1>2. \A u \in Reader : Own(u)' = Own(u)
  BY <1>1, OwnStays
<1>3. story \in [Reader -> SUBSET Events] /\ q.by \in Reader
  BY RequestIs DEF Well, ReviewsTypeOK, Events
<1>4. ASSUME NEW u \in Reader, u = q.by
      PROVE  (Uncrossed(u)' => Uncrossed(u)) /\ Served(u, t)
  <2>1. Tidy(u) /\ Abreast(u) /\ Of(t, u)
    BY <1>4 DEF Tracked, Of
  <2>2. Clean(u) => "refused" \notin story[u] /\ Knows(u, t)
    BY <2>1 DEF Abreast
  <2>3. CASE q.what = "create"
    <3>1. /\ story'[u] = story[u] \union (IF Live({u}) # {} THEN {"twin"} ELSE {})
          /\ Live({u})' = Live({u}) \union {Len(review) + 1}
      BY <1>1, <1>3, <1>4, <2>3
    <3>2. /\ Uncrossed(u)' <=> Uncrossed(u)
          /\ Clean(u)' <=> Clean(u)
          /\ "refused" \in story'[u] <=> "refused" \in story[u]
          /\ "twin" \notin story'[u] <=> "twin" \notin story[u] /\ Live({u}) = {}
      BY <3>1 DEF Uncrossed, Clean
    <3>3. Live({u}) = {} => AtMostOne(u)'
      BY <3>1 DEF AtMostOne
    <3>4. Uncrossed(u) => "twin" \notin story[u] /\ Live({u}) = {}
      BY <1>1, <2>1, <2>3 DEF Tidy
    <3>5. Knows(u, t)'
      BY <1>1, <2>3 DEF Knows
    <3> QED BY <1>1, <2>2, <3>2, <3>3, <3>4, <3>5 DEF Served
  <2>4. CASE q.what = "delete"
    <3>1. story' = story /\ Live({u})' = Live({u}) \ {q.review}
      BY <1>1, <2>4
    <3>2. AtMostOne(u) => AtMostOne(u)'
      BY <3>1 DEF AtMostOne
    <3>3. Knows(u, t) => Knows(u, t)'
      BY <1>1, <1>2, <2>4, <3>1 DEF Knows
    <3> QED BY <1>1, <2>1, <2>2, <2>4, <3>1, <3>2, <3>3 DEF Served, Tidy, Uncrossed, Clean
  <2>5. CASE q.what = "update"
    <3>1. story' = story /\ Live({u})' = Live({u})
      BY <1>1, <2>5 DEF Live
    <3>2. Knows(u, t)'
      BY <1>1, <2>5 DEF Knows
    <3> QED BY <1>1, <2>1, <2>2, <2>5, <3>1, <3>2
            DEF Served, Tidy, Uncrossed, Clean, AtMostOne
  <2> QED BY <1>1, <2>3, <2>4, <2>5
<1>5. \A u \in Reader : u # q.by => story'[u] = story[u] /\ Live({u})' = Live({u})
  <2> SUFFICES ASSUME NEW u \in Reader, u # q.by
               PROVE  story'[u] = story[u] /\ Live({u})' = Live({u})
    OBVIOUS
  <2>1. CASE q.what = "create"
    BY <1>1, <1>3, <2>1
  <2>2. CASE q.what = "delete"
    <3>1. review[q.review].by = q.by
      BY <2>2 DEF Well, RequestsWell, RequestWell
    <3>2. q.review \notin Live({u})
      BY <3>1 DEF Live
    <3> QED BY <1>1, <2>2, <3>2
  <2>3. CASE q.what = "update"
    BY <1>1, <2>3 DEF Live
  <2> QED BY <1>1, <2>1, <2>2, <2>3
<1> QED BY <1>1, <1>2, <1>4, <1>5, ForAll DEF Tracked

LEMMA ComputeTracked ==
  ASSUME Well, Tracked, NEW t \in Task, ComputeAverage(t) \/ StoreAverage(t), tasks[t] # Ended
  PROVE  Tracked'
<1>1. /\ UNCHANGED <<sheet, story>> /\ RowsStay
      /\ \A s \in Task : s # t => Alike(s)
      /\ tasks'[t] # Ended
      /\ \/ tasks[t].at = "written" /\ tasks'[t].at = "computed"
         \/ tasks[t].at = "computed" /\ tasks'[t].at = "answered"
      /\ tasks'[t].what = tasks[t].what /\ tasks'[t].by = tasks[t].by
      /\ tasks'[t].review = tasks[t].review
      /\ \A u \in Reader : Live({u})' = Live({u})
  <2>1. CASE ComputeAverage(t)
    <3>1. review' = review
      BY <2>1, ComputeWell
    <3> QED BY <2>1, <3>1, ComputeWell, RowsSame DEF Live
  <2>2. CASE StoreAverage(t)
    BY <2>2, StoreWell
  <2> QED BY <2>1, <2>2
<1>2. \A u \in Reader : Own(u)' = Own(u)
  BY <1>1, OwnStays
<1>3. tasks[t].what \in Changing
  BY <1>1 DEF Well, RequestsWell, RequestWell, Inside
<1>4. ASSUME NEW u \in Reader, u = tasks[t].by PROVE Served(u, t)
  <2>1. Tidy(u) /\ Abreast(u) /\ Of(t, u)
    BY <1>1, <1>4 DEF Tracked, Of
  <2>2. Clean(u) => "refused" \notin story[u] /\ Knows(u, t)
    BY <2>1 DEF Abreast
  <2>3. Knows(u, t) => Knows(u, t)'
    BY <1>1, <1>2, <1>3 DEF Knows, Changing
  <2> QED BY <1>1, <2>1, <2>2, <2>3 DEF Served, Tidy, AtMostOne, Uncrossed, Clean
<1> QED BY <1>1, <1>4, ForAll DEF Tracked, Uncrossed

LEMMA DieTracked ==
  ASSUME Well, Tracked, NEW t \in Task, Die(t)
  PROVE  Tracked'
<1>1. /\ UNCHANGED <<review, sheet>>
      /\ \A s \in Task : s # t => Alike(s)
      /\ tasks[t] # Ended /\ tasks'[t] # Ended /\ tasks'[t].at = "failed"
      /\ tasks'[t].by = tasks[t].by
      /\ story' = [story EXCEPT ![tasks[t].by] = @ \union {"died"}]
  BY DieWell
<1>2. RowsStay /\ \A u \in Reader : Live({u})' = Live({u})
  BY <1>1, RowsSame DEF Live
<1>3. story \in [Reader -> SUBSET Events]
  BY DEF Well, ReviewsTypeOK, Events
<1>4. ASSUME NEW u \in Reader, u = tasks[t].by
      PROVE  (Uncrossed(u)' => Uncrossed(u)) /\ Served(u, t)
  <2>1. Tidy(u) /\ story'[u] = story[u] \union {"died"}
    BY <1>1, <1>3, <1>4 DEF Tracked
  <2>2. ~Clean(u)' /\ (Uncrossed(u)' <=> Uncrossed(u))
        /\ ("twin" \in story'[u] <=> "twin" \in story[u])
    BY <2>1 DEF Clean, Uncrossed
  <2>3. AtMostOne(u)' <=> AtMostOne(u)
    BY <1>2 DEF AtMostOne
  <2> QED BY <1>1, <2>1, <2>2, <2>3 DEF Served, Tidy
<1>5. \A u \in Reader : u # tasks[t].by => story'[u] = story[u]
  BY <1>1, <1>3
<1> QED BY <1>1, <1>2, <1>4, <1>5, ForAll DEF Tracked

LEMMA ServeTracked ==
  ASSUME Well, Tracked, NEW t \in Task, ServeList(t), tasks[t] # Ended
  PROVE  Tracked'
<1>1. /\ UNCHANGED <<review, sheet>>
      /\ \A s \in Task : s # t => Alike(s)
      /\ tasks'[t] # Ended /\ tasks'[t].by = tasks[t].by
      /\ tasks'[t].at = "answered" /\ tasks'[t].what = "list"
      /\ \/ story' = [story EXCEPT ![tasks[t].by] = @ \union {"left out"}]
         \/ /\ story' = [story EXCEPT ![tasks[t].by] = @ \ {"left out", "refused"}]
            /\ {i \in tasks'[t].got : review[i].by = tasks[t].by} = Live({tasks[t].by})
  BY ServeWell
<1>2. RowsStay /\ \A u \in Reader : Live({u})' = Live({u})
  BY <1>1, RowsSame DEF Live
<1>3. story \in [Reader -> SUBSET Events]
  BY DEF Well, ReviewsTypeOK, Events
<1>4. ASSUME NEW u \in Reader, u = tasks[t].by
      PROVE  (Uncrossed(u)' => Uncrossed(u)) /\ Served(u, t)
  <2>1. Tidy(u)
    BY DEF Tracked
  <2>2. /\ Uncrossed(u)' <=> Uncrossed(u)
        /\ "twin" \in story'[u] <=> "twin" \in story[u]
        /\ Clean(u)' => /\ "refused" \notin story'[u]
                        /\ {i \in tasks'[t].got : review[i].by = u} = Live({u})
    <3>1. CASE story' = [story EXCEPT ![u] = @ \union {"left out"}]
      <4>1. story'[u] = story[u] \union {"left out"}
        BY <1>3, <3>1
      <4> QED BY <4>1 DEF Uncrossed, Clean
    <3>2. CASE story' = [story EXCEPT ![u] = @ \ {"left out", "refused"}]
               /\ {i \in tasks'[t].got : review[i].by = u} = Live({u})
      <4>1. story'[u] = story[u] \ {"left out", "refused"}
        BY <1>3, <3>2
      <4> QED BY <3>2, <4>1 DEF Uncrossed, Clean
    <3> QED BY <1>1, <1>4, <3>1, <3>2
  <2>3. AtMostOne(u)' <=> AtMostOne(u)
    BY <1>2 DEF AtMostOne
  <2>4. Clean(u)' => Knows(u, t)'
    BY <1>1, <1>2, <2>2 DEF Knows
  <2> QED BY <1>1, <2>1, <2>2, <2>3, <2>4 DEF Served, Tidy
<1>5. \A u \in Reader : u # tasks[t].by => story'[u] = story[u]
  BY <1>1, <1>3
<1> QED BY <1>1, <1>2, <1>4, <1>5, ForAll DEF Tracked

LEMMA ReceiveTracked ==
  ASSUME Well, Tracked, NEW t \in Task, ReceiveReview(t), tasks[t] # Ended
  PROVE  Tracked'
<1>1. /\ UNCHANGED <<review, story>>
      /\ \A s \in Task : s # t => Alike(s)
      /\ \A u \in Reader : u # tasks[t].by => sheet'[u] = sheet[u]
      /\ \/ tasks'[t] = Ended /\ tasks[t].at = "failed"
         \/ /\ tasks'[t] = Ended /\ tasks[t].at = "answered" /\ tasks[t].what = "list"
            /\ sheet'[tasks[t].by] = tasks[t].got
         \/ /\ tasks'[t] = Ended /\ tasks[t].at = "answered" /\ tasks[t].what = "delete"
            /\ sheet'[tasks[t].by] = sheet[tasks[t].by] \ {tasks[t].review}
         \/ /\ tasks'[t] # Ended /\ tasks'[t].by = tasks[t].by
            /\ tasks'[t].what = "list" /\ tasks'[t].at = "sent"
  BY ReceiveWell
<1>2. RowsStay /\ \A u \in Reader : Live({u})' = Live({u})
  BY <1>1, RowsSame DEF Live
<1>3. ASSUME NEW u \in Reader, u = tasks[t].by PROVE Served(u, t)
  <2>1. Tidy(u) /\ Abreast(u) /\ Of(t, u)
    BY <1>3 DEF Tracked, Of
  <2>2. Clean(u) => "refused" \notin story[u] /\ Knows(u, t)
    BY <2>1 DEF Abreast
  <2>3. Clean(u) /\ tasks'[t] = Ended => Own(u)' = Live({u})
    <3> SUFFICES ASSUME Knows(u, t), tasks'[t] = Ended PROVE Own(u)' = Live({u})
      BY <2>2
    <3>1. CASE tasks[t].at = "failed"
      BY <3>1 DEF Knows
    <3>2. CASE tasks[t].at = "answered" /\ tasks[t].what = "list" /\ sheet'[u] = tasks[t].got
      <4>1. Own(u)' = {i \in tasks[t].got : review[i].by = u}
        BY <1>1, <3>2 DEF Own
      <4> QED BY <3>2, <4>1 DEF Knows
    <3>3. CASE /\ tasks[t].at = "answered" /\ tasks[t].what = "delete"
               /\ sheet'[u] = sheet[u] \ {tasks[t].review}
      <4>1. Own(u)' = Own(u) \ {tasks[t].review}
        BY <1>1, <3>3 DEF Own
      <4> QED BY <3>3, <4>1 DEF Knows
    <3> QED BY <1>1, <1>3, <3>1, <3>2, <3>3
  <2>4. tasks'[t] # Ended => Knows(u, t)'
    BY <1>1 DEF Knows
  <2>5. tasks'[t] # Ended => tasks'[t].what # "create"
    BY <1>1
  <2> QED BY <1>1, <1>2, <2>1, <2>2, <2>3, <2>4, <2>5
          DEF Served, Tidy, AtMostOne, Uncrossed, Clean
<1> QED BY <1>1, <1>2, <1>3, ForAll DEF Tracked, Uncrossed

(* Every step keeps the reviews in order.                                  *)
ReviewsInv == Well /\ FiguresSound /\ Tracked

LEMMA ReviewsStep == ReviewsInv /\ [ReviewsNext]_reviewsVars => ReviewsInv'
<1> SUFFICES ASSUME ReviewsInv, [ReviewsNext]_reviewsVars PROVE ReviewsInv'
  OBVIOUS
<1>1. Well /\ FiguresSound /\ Tracked /\ Well' /\ FiguresSound'
  BY FiguresStep DEF ReviewsInv
<1>2. CASE ReviewsNext
  <2>1. ASSUME NEW u \in Reader, NEW t \in Task, NEW v \in Request, Begins(u, t, v)
        PROVE  Tracked'
    BY <1>1, <2>1, BeginTracked
  <2>2. ASSUME NEW t \in Task, tasks[t] # Ended,
               \/ LoadRestaurant(t) \/ Check(t) \/ WriteReview(t) \/ ComputeAverage(t)
               \/ StoreAverage(t) \/ Die(t) \/ ServeList(t) \/ ReceiveReview(t)
        PROVE  Tracked'
    BY <1>1, <2>2, LoadTracked, CheckTracked, WriteTracked, ComputeTracked, DieTracked,
       ServeTracked, ReceiveTracked
  <2> QED BY <1>1, <1>2, <2>1, <2>2, ReviewsSteps DEF ReviewsInv
<1>3. CASE UNCHANGED reviewsVars
  <2>1. Tracked'
    <3>1. RowsStay /\ UNCHANGED <<review, tasks, sheet, story>>
      BY <1>3, RowsSame DEF reviewsVars
    <3>2. ASSUME NEW u \in Reader PROVE Tidy(u)' /\ Abreast(u)'
      <4>1. /\ Live({u})' = Live({u}) /\ Tidy(u) /\ Abreast(u)
            /\ \A s \in Task : (Of(s, u)' <=> Of(s, u)) /\ Alike(s)
        BY <1>1, <3>1 DEF Live, Of, Alike, Tracked
      <4> QED BY <1>1, <3>1, <4>1, Undisturbed
    <3> QED BY <3>2 DEF Tracked
  <2> QED BY <1>1, <2>1 DEF ReviewsInv
<1> QED BY <1>2, <1>3

LEMMA ReviewsStart == ReviewsInit => ReviewsInv
<1> SUFFICES ASSUME ReviewsInit PROVE ReviewsInv
  OBVIOUS
<1>1. Well /\ tasks = [t \in Task |-> Ended] /\ rating = Tally(review)
  BY ReviewsWellInit DEF ReviewsInit
<1>2. FiguresSound
  BY <1>1 DEF FiguresSound, LoneIsAlone, LoneFigures, FiguresKept, Lone, Inside
<1>3. ASSUME NEW u \in Reader PROVE Tidy(u) /\ Abreast(u)
  <2>1. /\ sheet[u] = OnLeaf(1)
        /\ story[u] = IF Live({u}) \subseteq OnLeaf(1) THEN {} ELSE {"left out"}
        /\ \A i, j \in DOMAIN review : review[i].live /\ (review[i].by = review[j].by => i = j)
    BY DEF ReviewsInit
  <2>2. AtMostOne(u)
    BY <2>1 DEF AtMostOne, Live
  <2>3. \A t \in Task : ~Of(t, u)
    BY <1>1 DEF Of
  <2>4. Clean(u) => "refused" \notin story[u] /\ Own(u) = Live({u})
    <3>1. Clean(u) => Live({u}) \subseteq OnLeaf(1) /\ story[u] = {}
      BY <2>1 DEF Clean
    <3>2. Live({u}) \subseteq OnLeaf(1) =>
            {i \in OnLeaf(1) : review[i].by = u} = Live({u})
      BY <1>1, LeafIs DEF Well
    <3>3. Own(u) = {i \in OnLeaf(1) : review[i].by = u}
      BY <2>1 DEF Own
    <3> QED BY <3>1, <3>2, <3>3
  <2>5. "twin" \notin story[u]
    BY <2>1
  <2> QED BY <2>2, <2>3, <2>4, <2>5 DEF Tidy, Abreast
<1> QED BY <1>1, <1>2, <1>3 DEF ReviewsInv, Tracked

(* The kept average is that of the reviews, unless requests overlapped or  *)
(* one died halfway, and only until the next that runs alone; a reader has *)
(* one review, and his page knows of it, but for the sequences named       *)
(* (service.py 53-122, RestaurantPage.jsx 268-383) - for any readers,      *)
(* ratings, page length and requests in flight.                            *)
THEOREM ReviewsStaySound == ReviewsSpec => []ReviewsSound
<1>1. ReviewsInv => ReviewsSound
  <2> SUFFICES ASSUME ReviewsInv PROVE ReviewsSound
    OBVIOUS
  <2>1. ReviewsTypeOK /\ FiguresSound /\ Tracked
    BY DEF ReviewsInv, Well
  <2>2. FiguresRight
    <3>1. \A t \in Task : Halfway(t) => Inside(t)
      BY DEF Halfway, Inside
    <3> QED BY <2>1, <3>1 DEF FiguresRight, FiguresSound, FiguresKept
  <2>3. OneReviewEach
    <3> SUFFICES ASSUME NEW u \in Reader, "twin" \notin story[u]
                 PROVE  Cardinality(Live({u})) <= 1
      BY DEF OneReviewEach
    <3>1. Live({u}) = {} \/ \E i : Live({u}) = {i}
      BY <2>1 DEF Tracked, Tidy, AtMostOne
    <3>2. Cardinality(Live({u})) = 0 \/ Cardinality(Live({u})) = 1
      BY <3>1, FS_Singleton, FS_EmptySet
    <3> QED BY <3>2
  <2>4. PageKnowsOwn
    <3> SUFFICES ASSUME NEW u \in Reader, Clean(u)
                 PROVE  /\ "refused" \notin story[u]
                        /\ (\A t \in Task : tasks[t] = Ended) => Own(u) = Live({u})
      BY DEF PageKnowsOwn, Clean
    <3> QED BY <2>1 DEF Tracked, Abreast, Of
  <2> QED BY <2>1, <2>2, <2>3, <2>4 DEF ReviewsSound
<1> QED BY <1>1, ReviewsStart, ReviewsStep, PTL DEF ReviewsSpec

-----------------------------------------------------------------------------
(* The views of an order.  What is told of an order was so once: every      *)
(* status shown, answered or on a wire is Behind the one the order has, and  *)
(* the last message of a wire is that one.  The page that has heard all is   *)
(* right because an answer that brings an older status is marked; the banner *)
(* because an order placed while an answer is under way is marked too.       *)
(* A status an order once had: it has it still, or a later one. *)
Behind(s, t) == s \in Status /\ t \in Status /\ (s = t \/ Rank[s] < Rank[t])
Recalls(r) == r.id # 0 => Behind(r.status, actual[r.id])

(* On the page every order is placed. *)
AllPlaced == view = "page" => \A o \in Order : actual[o] \in Status

(* A request of the page names its order, the banner asks only for the list, *)
(* and what an answer brings was so when it was given.                        *)
Fits(q) ==
    /\ IF view = "page" THEN q.what # "list" /\ q.id \in Order
                        ELSE q.what = "list" /\ q.for = "load"
    /\ Recalls(q.got)
RequestsFit == \A s \in Slot : Used(s) => Fits(http[s])

(* Of the messages on the way each was true, and the last one is. *)
WireTells ==
    /\ sock.line # "up" => sock.wire = <<>>
    /\ \A i \in 1 .. Len(sock.wire) : Behind(sock.wire[i], actual[sock.id])
    /\ sock.wire # <<>> => sock.wire[Len(sock.wire)] = actual[sock.id]

(* A page that has heard the last message shows the order as it is. *)
PageFollows ==
    view = "page" /\ route # 0 /\ sock.line = "up" /\ sock.wire = <<>> =>
      \/ shown = [id |-> route, status |-> actual[route]]
      \/ mishap \intersect {"overtaken", "crossed"} # {}

(* The banner of one who has a single active order has it, or asks for it. *)
LoneOrder ==
    view = "banner" /\ "second" \notin mishap => \A o, p \in Active : o = p
BannerFollows ==
    view = "banner" /\ mishap \intersect {"second", "lost", "overtaken"} = {} =>
      /\ Active \subseteq {shown.id} \/ \E s \in Slot : Used(s)
      /\ \A s \in Slot : http[s].phase = "answered" => Active \subseteq {http[s].got.id}

ViewsInv ==
    /\ ViewTypeOK
    /\ AllPlaced /\ RequestsFit /\ Recalls(shown) /\ WireTells
    /\ PageFollows /\ WrongOrderOnlyWhileLoading /\ CelebratesTheCompleted /\ ButtonsComeBack
    /\ LoneOrder /\ BannerFollows

-----------------------------------------------------------------------------
(* The order of the statuses. *)
LEMMA LaterIsLater ==
    /\ \A s \in Status : Rank[s] \in 1 .. 4
    /\ Rank["PENDING"] = 1 /\ Rank["ACCEPTED"] = 2 /\ Rank["READY"] = 3
    /\ Rank["COMPLETED"] = 4 /\ Rank["CANCELLED"] = 4
  BY DEF Rank, Status

LEMMA BehindReturns ==
    ASSUME NEW s \in Status PROVE Behind(s, s)
  BY DEF Behind

LEMMA BehindGoesOn ==
    ASSUME NEW s, NEW t, NEW u, Behind(s, t), Behind(t, u)
    PROVE  Behind(s, u)
  BY LaterIsLater DEF Behind

LEMMA NothingAfterTheEnd ==
    ASSUME NEW s \in Terminal, NEW t, Behind(s, t)
    PROVE  t = s
<1>1. Rank[s] = 4 /\ s \in Status
  BY LaterIsLater DEF Terminal, Status
<1>2. t \in Status /\ Rank[t] \in 1 .. 4
  BY LaterIsLater DEF Behind
<1> QED BY <1>1, <1>2 DEF Behind

(* An order moves only on. *)
Onward == \A o \in Order : actual[o] \in Status => Behind(actual[o], actual'[o])

LEMMA MemoriesStay ==
    ASSUME Onward, NEW o \in Order, NEW s, Behind(s, actual[o])
    PROVE  Behind(s, actual'[o])
<1>1. actual[o] \in Status
  BY DEF Behind
<1> QED BY <1>1, BehindGoesOn DEF Onward

LEMMA RecordsStay ==
    ASSUME Onward, NEW r \in Record, Recalls(r)
    PROVE  r.id # 0 => Behind(r.status, actual'[r.id])
<1> SUFFICES ASSUME r.id # 0 PROVE Behind(r.status, actual'[r.id])
  OBVIOUS
<1>1. r.id \in Order
  BY DEF Record, None
<1> QED BY <1>1, MemoriesStay DEF Recalls

LEMMA RecordFields ==
    ASSUME NEW r \in Record
    PROVE  /\ r.id \in Order \union {0}
           /\ r.id = 0 => r = None
           /\ r.id \in Order /\ r.id # 0 => r.status \in Status /\ r = [id |-> r.id, status |-> r.status]
  BY OrderViewsAssumption DEF Record, None

LEMMA SocketFields ==
    ASSUME ViewTypeOK
    PROVE  /\ sock.id \in Order \union {0}
           /\ sock.id = 0 => sock = Silent
           /\ sock.line \in {"down", "up", "given up"}
           /\ sock.wire \in Seq(Status)
           /\ sock = [id |-> sock.id, line |-> sock.line, wire |-> sock.wire]
           /\ 0 \notin Order
<1>1. 0 \notin Order
  BY OrderViewsAssumption
<1>2. CASE sock \in Channel
  BY <1>1, <1>2 DEF Channel
<1>3. CASE sock = Silent
  BY <1>1, <1>3 DEF Silent
<1> QED BY <1>2, <1>3 DEF ViewTypeOK

LEMMA ChannelMade ==
    ASSUME NEW o \in Order, NEW l \in {"down", "up", "given up"}, NEW w \in Seq(Status)
    PROVE  [id |-> o, line |-> l, wire |-> w] \in Channel \union {Silent}
  BY DEF Channel

LEMMA DialledSocket ==
    ASSUME NEW o \in Order \union {0}
    PROVE  /\ Dial(o) \in Channel \union {Silent}
           /\ Dial(o).id = o /\ Dial(o).line = "down" /\ Dial(o).wire = <<>>
  BY DEF Dial, Silent, Channel

LEMMA OneMore ==
    ASSUME NEW T, NEW w \in Seq(T), NEW s \in T
    PROVE  /\ Append(w, s) \in Seq(T) /\ Len(w) \in Nat
           /\ Len(Append(w, s)) = Len(w) + 1 /\ Append(w, s) # <<>>
           /\ Append(w, s)[Len(w) + 1] = s
           /\ \A i \in 1 .. Len(w) : Append(w, s)[i] = w[i]
  OBVIOUS

(* An order becomes something else: its socket is told. *)
LEMMA OrderBecomes ==
    ASSUME ViewTypeOK, WireTells,
           NEW o \in Order, NEW s \in Status, Becomes(o, s), o \in Active, Behind(actual[o], s)
    PROVE  /\ actual' \in [Order -> Status \union {"absent"}] /\ Onward
           /\ sock' \in Channel \union {Silent}
           /\ sock'.id = sock.id /\ sock'.line = sock.line
           /\ sock'.wire = <<>> => sock' = sock /\ (sock.line = "up" => o # sock.id)
           /\ WireTells'
           /\ actual' = [actual EXCEPT ![o] = s]
           /\ Active' \subseteq Active
<1>1. actual \in [Order -> Status \union {"absent"}]
  BY DEF ViewTypeOK
<1>2. actual' = [actual EXCEPT ![o] = s]
  BY DEF Becomes
<1>3. actual' \in [Order -> Status \union {"absent"}] /\ Onward
  <2>1. actual' \in [Order -> Status \union {"absent"}]
    BY <1>1, <1>2
  <2>2. ASSUME NEW p \in Order, actual[p] \in Status PROVE Behind(actual[p], actual'[p])
    <3>1. CASE p = o
      BY <3>1, <1>1, <1>2
    <3>2. CASE p # o
      BY <3>2, <2>2, <1>1, <1>2, BehindReturns
    <3> QED BY <3>1, <3>2
  <2> QED BY <2>1, <2>2 DEF Onward
<1>4. Active' \subseteq Active
  BY <1>1, <1>2 DEF Active
<1> HIDE DEF Active
<1>5. CASE sock.id = o /\ sock.line = "up"
  <2> DEFINE w == Append(sock.wire, s)
  <2>1. sock' = [id |-> sock.id, line |-> "up", wire |-> w]
    <3>1. sock' = [sock EXCEPT !.wire = Append(@, s)]
      BY <1>5 DEF Becomes, Informed
    <3> QED BY <3>1, <1>5, SocketFields
  <2>a. sock.wire \in Seq(Status)
    BY SocketFields
  <2>2. /\ w \in Seq(Status) /\ Len(sock.wire) \in Nat
        /\ Len(w) = Len(sock.wire) + 1 /\ w # <<>> /\ w[Len(w)] = s
    BY <2>a, OneMore
  <2>3. \A i \in 1 .. Len(sock.wire) : w[i] = sock.wire[i]
    BY <2>a, OneMore
  <2> HIDE DEF w
  <2>4. sock' \in Channel \union {Silent}
    BY <2>1, <2>2, <1>5, ChannelMade
  <2>5. WireTells'
    <3>1. actual'[o] = s
      BY <1>1, <1>2
    <3>2. ASSUME NEW i \in 1 .. Len(w) PROVE Behind(w[i], s)
      <4>1. CASE i = Len(w)
        BY <4>1, <2>2, BehindReturns
      <4>2. CASE i # Len(w)
        <5>1. i \in 1 .. Len(sock.wire)
          BY <4>2, <2>2
        <5>2. Behind(sock.wire[i], actual[o])
          BY <5>1, <1>5 DEF WireTells
        <5> QED BY <5>1, <5>2, <2>3, BehindGoesOn
      <4> QED BY <4>1, <4>2
    <3> QED BY <2>1, <2>2, <3>1, <3>2, <1>5 DEF WireTells
  <2> QED BY <1>2, <1>3, <1>4, <1>5, <2>1, <2>2, <2>4, <2>5
<1>6. CASE ~(sock.id = o /\ sock.line = "up")
  <2>1. sock' = sock
    BY <1>6 DEF Becomes, Informed
  <2>2. WireTells'
    <3>1. sock.wire # <<>> => sock.line = "up" /\ sock.id # o /\ sock.id \in Order
      <4> SUFFICES ASSUME sock.wire # <<>>
                   PROVE  sock.line = "up" /\ sock.id # o /\ sock.id \in Order
        OBVIOUS
      <4>1. sock.line = "up"
        BY DEF WireTells
      <4>2. sock # Silent
        BY DEF Silent
      <4> QED BY <4>1, <4>2, <1>6, SocketFields
    <3>2. CASE sock.wire # <<>>
      BY <3>1, <3>2, <2>1, <1>1, <1>2 DEF WireTells
    <3>3. CASE sock.wire = <<>>
      BY <3>3, <2>1 DEF WireTells
    <3> QED BY <3>2, <3>3
  <2> QED BY <1>2, <1>3, <1>4, <1>6, <2>1, <2>2 DEF ViewTypeOK
<1> QED BY <1>5, <1>6

LEMMA StillAsked ==
    ASSUME ViewTypeOK, RequestsFit, Onward, view' = view, NEW c \in Slot, Used(c),
           http'[c].what = http[c].what, http'[c].id = http[c].id, http'[c].got = http[c].got,
           view = "page" \/ http'[c].for = http[c].for
    PROVE  Fits(http[c])'
<1>1. Fits(http[c])
  BY DEF RequestsFit
<1>2. http[c] \in Ongoing
  BY DEF ViewTypeOK, Used, Free
<1> DEFINE r == http[c].got
<1>3. r \in Record /\ Recalls(r)
  BY <1>1, <1>2 DEF Fits, Ongoing
<1>4. r.id # 0 => Behind(r.status, actual'[r.id])
  <2> HIDE DEF r
  <2> QED BY <1>3, RecordsStay
<1>5. Recalls(http[c].got)'
  BY <1>4 DEF Recalls, Behind
<1> QED BY <1>1, <1>5 DEF Fits

LEMMA NothingMoves ==
    ASSUME UNCHANGED actual PROVE Onward
  BY BehindReturns DEF Onward

(* What the rest of the state keeps while an order moves on. *)
LEMMA OrderMoves ==
    ASSUME ViewsInv, NEW o \in Order, NEW s \in Status,
           Becomes(o, s), o \in Active, Behind(actual[o], s),
           UNCHANGED <<view, pageVars, shown, taps, drops, mishap>>,
           http' \in [Slot -> Ongoing \union {Free}], RequestsFit',
           \A c \in Slot : Used(c) => http'[c].phase # "free" /\ http'[c].for = http[c].for,
           view = "banner" => http' = http
    PROVE  ViewsInv'
<1>0. ViewTypeOK /\ WireTells /\ AllPlaced /\ Recalls(shown)
  BY DEF ViewsInv
<1>1. /\ actual' \in [Order -> Status \union {"absent"}] /\ Onward
      /\ sock' \in Channel \union {Silent}
      /\ sock'.id = sock.id /\ sock'.line = sock.line
      /\ sock'.wire = <<>> => sock' = sock /\ (sock.line = "up" => o # sock.id)
      /\ WireTells'
      /\ actual' = [actual EXCEPT ![o] = s]
      /\ Active' \subseteq Active
  BY <1>0, OrderBecomes
<1>2. UNCHANGED <<view, route, busy, seen, shown, taps, drops, mishap>>
  BY DEF pageVars
<1>3. ViewTypeOK'
  BY <1>0, <1>1, <1>2 DEF ViewTypeOK
<1>4. AllPlaced'
  BY <1>0, <1>1, <1>2 DEF AllPlaced, ViewTypeOK
<1>5. Recalls(shown)'
  <2>1. shown \in Record
    BY <1>0 DEF ViewTypeOK
  <2>2. shown.id # 0 => Behind(shown.status, actual'[shown.id])
    BY <2>1, <1>0, <1>1, RecordsStay
  <2> QED BY <2>2, <1>2 DEF Recalls, Behind
<1>6. PageFollows'
  <2> SUFFICES ASSUME view = "page", route # 0, sock.line = "up", sock'.wire = <<>>
               PROVE  \/ shown = [id |-> route, status |-> actual'[route]]
                      \/ mishap \intersect {"overtaken", "crossed"} # {}
    BY <1>1, <1>2 DEF PageFollows
  <2>1. sock' = sock /\ o # route /\ route \in Order
    BY <1>0, <1>1 DEF ViewTypeOK
  <2>2. actual'[route] = actual[route]
    BY <2>1, <1>0, <1>1 DEF ViewTypeOK
  <2>3. PageFollows
    BY DEF ViewsInv
  <2> QED BY <2>1, <2>2, <2>3 DEF PageFollows
<1>7. WrongOrderOnlyWhileLoading'
  <2>1. WrongOrderOnlyWhileLoading
    BY DEF ViewsInv
  <2> QED BY <2>1, <1>1, <1>2 DEF WrongOrderOnlyWhileLoading
<1>8. CelebratesTheCompleted'
  <2>1. CelebratesTheCompleted /\ seen \subseteq Order
    BY <1>0 DEF ViewsInv, ViewTypeOK
  <2>2. ASSUME NEW p \in Order, actual[p] = "COMPLETED" PROVE actual'[p] = "COMPLETED"
    BY <2>2, <1>1, NothingAfterTheEnd DEF Onward, Terminal
  <2> QED BY <2>1, <2>2, <1>2 DEF CelebratesTheCompleted
<1>9. ButtonsComeBack'
  <2>1. ButtonsComeBack
    BY DEF ViewsInv
  <2> QED BY <2>1, <1>2 DEF ButtonsComeBack, Used
<1>10. LoneOrder'
  <2>1. LoneOrder
    BY DEF ViewsInv
  <2> QED BY <2>1, <1>1, <1>2 DEF LoneOrder
<1>11. BannerFollows'
  <2>1. BannerFollows
    BY DEF ViewsInv
  <2> QED BY <2>1, <1>1, <1>2 DEF BannerFollows, Used
<1> QED BY <1>1, <1>3, <1>4, <1>5, <1>6, <1>7, <1>8, <1>9, <1>10, <1>11 DEF ViewsInv

LEMMA StaffKeepViews ==
    ASSUME ViewsInv, NEW o \in Order, StaffMoves(o)
    PROVE  ViewsInv'
<1>1. PICK s \in Status : Becomes(o, s) /\ o \in Active /\ Behind(actual[o], s)
  BY LaterIsLater DEF StaffMoves, Active, Behind, Status
<1>2. UNCHANGED <<view, pageVars, shown, http, taps, drops, mishap>>
  BY DEF StaffMoves
<1>3. ViewTypeOK /\ RequestsFit /\ WireTells
  BY DEF ViewsInv
<1>4. Onward
  BY <1>1, <1>3, OrderBecomes
<1>5. RequestsFit'
  <2> SUFFICES ASSUME NEW c \in Slot, Used(c)' PROVE Fits(http[c])'
    BY DEF RequestsFit
  <2>1. Used(c)
    BY <1>2 DEF Used
  <2> QED BY <2>1, <1>2, <1>3, <1>4, StillAsked
<1> QED BY <1>1, <1>2, <1>3, <1>5, OrderMoves DEF ViewTypeOK, Used

(* A step that changes nothing but requests, buttons and what went wrong. *)
LEMMA RequestsChange ==
    ASSUME ViewsInv, UNCHANGED <<view, actual, route, seen, shown, sock>>,
           http' \in [Slot -> Ongoing \union {Free}], busy' \subseteq {"complete", "cancel"},
           taps' \in 0 .. MaxTaps, drops' \in 0 .. MaxDrops,
           mishap \subseteq mishap', mishap' \subseteq Mishap,
           RequestsFit', ButtonsComeBack', BannerFollows'
    PROVE  ViewsInv'
<1>1. ViewTypeOK'
  BY DEF ViewsInv, ViewTypeOK
<1>2. AllPlaced' /\ Recalls(shown)' /\ WireTells'
  BY DEF ViewsInv, AllPlaced, Recalls, Behind, WireTells
<1>3. PageFollows'
  <2>1. PageFollows
    BY DEF ViewsInv
  <2> QED BY <2>1 DEF PageFollows
<1>4. WrongOrderOnlyWhileLoading'
  <2>1. WrongOrderOnlyWhileLoading
    BY DEF ViewsInv
  <2> QED BY <2>1 DEF WrongOrderOnlyWhileLoading
<1>5. CelebratesTheCompleted'
  <2>1. CelebratesTheCompleted
    BY DEF ViewsInv
  <2> QED BY <2>1 DEF CelebratesTheCompleted
<1>6. LoneOrder'
  <2>1. LoneOrder
    BY DEF ViewsInv
  <2> QED BY <2>1 DEF LoneOrder, Active
<1> QED BY <1>1, <1>2, <1>3, <1>4, <1>5, <1>6 DEF ViewsInv

LEMMA RequestFields ==
    ASSUME ViewTypeOK, NEW c \in Slot, Used(c)
    PROVE  /\ http[c] \in Ongoing /\ http \in [Slot -> Ongoing \union {Free}]
           /\ http[c].phase \in {"sent", "answered"}
           /\ http[c].what \in {"get", "list", "complete", "cancel"}
           /\ http[c].id \in Order \union {0} /\ http[c].for \in {"load", "complete", "cancel"}
           /\ http[c].got \in Record
           /\ http[c] = [phase |-> http[c].phase, what |-> http[c].what, id |-> http[c].id,
                         for |-> http[c].for, got |-> http[c].got]
<1>1. http[c] \in Ongoing /\ http \in [Slot -> Ongoing \union {Free}]
  BY DEF ViewTypeOK, Used, Free
<1> QED BY <1>1 DEF Ongoing

LEMMA AnsweredRecord ==
    ASSUME NEW q \in Ongoing, NEW r \in Record
    PROVE  LET v == [q EXCEPT !.phase = "answered", !.got = r]
           IN  /\ v \in Ongoing /\ v.phase = "answered" /\ v.got = r
               /\ v.what = q.what /\ v.id = q.id /\ v.for = q.for
  BY DEF Ongoing

(* A request gets its answer. *)
LEMMA AnswerGiven ==
    ASSUME ViewTypeOK, RequestsFit, Onward, view' = view,
           NEW c \in Slot, Used(c), NEW r \in Record, Answer(c, r),
           r.id # 0 => Behind(r.status, actual'[r.id])
    PROVE  /\ http' \in [Slot -> Ongoing \union {Free}] /\ RequestsFit'
           /\ http'[c].phase = "answered" /\ http'[c].got = r
           /\ \A d \in Slot : d # c => http'[d] = http[d]
           /\ \A d \in Slot : Used(d) => http'[d].phase # "free" /\ http'[d].for = http[d].for
<1> DEFINE q == [http[c] EXCEPT !.phase = "answered", !.got = r]
<1>1. http' = [http EXCEPT ![c] = q]
  BY DEF Answer
<1>2. http[c] \in Ongoing
  BY RequestFields
<1>6. /\ q \in Ongoing /\ q.phase = "answered" /\ q.got = r
      /\ q.what = http[c].what /\ q.id = http[c].id /\ q.for = http[c].for
  BY <1>2, AnsweredRecord
<1>3. http \in [Slot -> Ongoing \union {Free}]
  BY RequestFields
<1>4. http'[c] = q /\ \A d \in Slot : d # c => http'[d] = http[d]
  BY <1>1, <1>3
<1>5. http' \in [Slot -> Ongoing \union {Free}]
  BY <1>1, <1>6, <1>3
<1> HIDE DEF q
<1>7. RequestsFit'
  <2> SUFFICES ASSUME NEW d \in Slot, Used(d)' PROVE Fits(http[d])'
    BY DEF RequestsFit
  <2>1. CASE d = c
    <3>1. Fits(http[c])
      BY DEF RequestsFit
    <3> QED BY <2>1, <3>1, <1>4, <1>6 DEF Fits, Recalls, Behind
  <2>2. CASE d # c
    <3>1. Used(d) /\ http'[d] = http[d]
      BY <2>2, <1>4 DEF Used
    <3> QED BY <3>1, StillAsked
  <2> QED BY <2>1, <2>2
<1>8. ASSUME NEW d \in Slot, Used(d) PROVE http'[d].phase # "free" /\ http'[d].for = http[d].for
  BY <1>8, <1>4, <1>6 DEF Used
<1> QED BY <1>4, <1>5, <1>6, <1>7, <1>8

LEMMA ServerKeepsViews ==
    ASSUME ViewsInv, NEW c \in Slot, ServeRequest(c)
    PROVE  ViewsInv'
<1> DEFINE q == http[c]
<1>1. q.phase = "sent" /\ Used(c)
  BY DEF ServeRequest, Used
<1>2. UNCHANGED <<view, pageVars, shown, taps, drops, mishap>>
  BY DEF ServeRequest
<1>3. ViewTypeOK /\ RequestsFit /\ WireTells /\ AllPlaced /\ LoneOrder /\ ButtonsComeBack
      /\ BannerFollows
  BY DEF ViewsInv
<1>4. Fits(q)
  BY <1>1, <1>3 DEF RequestsFit
<1>5. CASE q.what = "get" \/ q.what = "list"
  <2>1. PICK r \in Record : /\ Answer(c, r) /\ UNCHANGED <<actual, sock>>
                            /\ r.id # 0 => Behind(r.status, actual[r.id])
                            /\ view = "banner" /\ "second" \notin mishap => Active \subseteq {r.id}
    <3>1. CASE q.what = "get"
      <4> DEFINE r == [id |-> q.id, status |-> actual[q.id]]
      <4>1. view # "banner" /\ q.id \in Order /\ actual[q.id] \in Status
        BY <3>1, <1>3, <1>4 DEF Fits, AllPlaced, ViewTypeOK
      <4>2. Answer(c, r) /\ UNCHANGED <<actual, sock>>
        BY <3>1 DEF ServeRequest
      <4>3. r \in Record /\ Behind(r.status, actual[r.id])
        BY <4>1, BehindReturns DEF Record
      <4> QED BY <4>1, <4>2, <4>3
    <3>2. CASE q.what = "list"
      <4>1. PICK r \in Latest : Answer(c, r) /\ UNCHANGED <<actual, sock>>
        BY <3>2 DEF ServeRequest
      <4>2. CASE Active = {}
        <5>1. r = None
          BY <4>1, <4>2 DEF Latest
        <5> QED BY <5>1, <4>1, <4>2 DEF Record, None
      <4>3. CASE Active # {}
        <5>1. PICK o \in Active : r = [id |-> o, status |-> actual[o]]
          BY <4>1, <4>3 DEF Latest
        <5>2. o \in Order /\ actual[o] \in Status
          BY DEF Active, Status
        <5>3. r \in Record /\ Behind(r.status, actual[r.id]) /\ r.id = o
          BY <5>1, <5>2, BehindReturns DEF Record
        <5>4. view = "banner" /\ "second" \notin mishap => Active \subseteq {o}
          BY <1>3 DEF LoneOrder
        <5> QED BY <4>1, <5>3, <5>4
      <4> QED BY <4>2, <4>3
    <3> QED BY <1>5, <3>1, <3>2
  <2>2. Onward
    BY <2>1, NothingMoves
  <2>3. view' = view
    BY <1>2
  <2>4. r.id # 0 => Behind(r.status, actual'[r.id])
    BY <2>1
  <2>5. /\ http' \in [Slot -> Ongoing \union {Free}] /\ RequestsFit'
        /\ http'[c].phase = "answered" /\ http'[c].got = r
        /\ \A d \in Slot : d # c => http'[d] = http[d]
        /\ \A d \in Slot : Used(d) => http'[d].phase # "free" /\ http'[d].for = http[d].for
    BY <1>1, <1>3, <2>1, <2>2, <2>3, <2>4, AnswerGiven
  <2>6. UNCHANGED <<view, actual, route, seen, shown, sock, busy, taps, drops, mishap>>
    BY <1>2, <2>1 DEF pageVars
  <2>7. ButtonsComeBack'
    BY <2>5, <2>6, <1>3 DEF ButtonsComeBack, Used
  <2>8. BannerFollows'
    <3>1. Active' = Active
      BY <2>6 DEF Active
    <3> SUFFICES ASSUME view = "banner",
                        mishap \intersect {"second", "lost", "overtaken"} = {}
                 PROVE  /\ \E d \in Slot : http'[d].phase # "free"
                        /\ \A d \in Slot : http'[d].phase = "answered" => Active \subseteq {http'[d].got.id}
      BY <2>6, <3>1 DEF BannerFollows, Used
    <3>2. Active \subseteq {r.id}
      BY <2>1
    <3>3. \A d \in Slot : http[d].phase = "answered" => Active \subseteq {http[d].got.id}
      BY <1>3 DEF BannerFollows
    <3> QED BY <3>2, <3>3, <2>5
  <2> QED BY <2>5, <2>6, <2>7, <2>8, <1>3, RequestsChange DEF ViewTypeOK
<1>6. CASE q.what \notin {"get", "list"}
  <2>1. q.what \in {"complete", "cancel"} /\ view = "page" /\ q.id \in Order
    BY <1>1, <1>3, <1>4, <1>6, RequestFields DEF Fits
  <2>2. CASE May(q.what, actual[q.id])
    <3> DEFINE next == IF q.what = "complete" THEN "COMPLETED" ELSE "CANCELLED"
               r == [id |-> q.id, status |-> next]
    <3>1. Becomes(q.id, next) /\ Answer(c, r)
      BY <1>6, <2>2 DEF ServeRequest
    <3>2. next \in Status /\ q.id \in Active /\ Behind(actual[q.id], next)
      BY <2>1, <2>2, LaterIsLater DEF May, Status, Active, Behind
    <3>3. r \in Record /\ r.id = q.id /\ r.status = next
      BY <2>1, <3>2 DEF Record
    <3> HIDE DEF next, r
    <3>4. Onward /\ actual' = [actual EXCEPT ![q.id] = next]
      BY <1>3, <2>1, <3>1, <3>2, OrderBecomes
    <3>5. Behind(r.status, actual'[r.id])
      BY <2>1, <3>2, <3>3, <3>4, <1>3, BehindReturns DEF ViewTypeOK
    <3>6. /\ http' \in [Slot -> Ongoing \union {Free}] /\ RequestsFit'
          /\ \A d \in Slot : Used(d) => http'[d].phase # "free" /\ http'[d].for = http[d].for
      BY <1>1, <1>2, <1>3, <3>1, <3>3, <3>4, <3>5, AnswerGiven
    <3> QED BY <1>2, <2>1, <3>1, <3>2, <3>6, OrderMoves
  <2>3. CASE ~May(q.what, actual[q.id])
    <3>1. Answer(c, None) /\ UNCHANGED <<actual, sock>>
      BY <1>6, <2>3 DEF ServeRequest
    <3>2. None \in Record /\ None.id = 0
      BY DEF Record, None
    <3>3. /\ http' \in [Slot -> Ongoing \union {Free}] /\ RequestsFit'
          /\ \A d \in Slot : Used(d) => http'[d].phase # "free" /\ http'[d].for = http[d].for
      BY <1>1, <1>2, <1>3, <3>1, <3>2, NothingMoves, AnswerGiven
    <3>4. UNCHANGED <<view, actual, route, seen, shown, sock, busy, taps, drops, mishap>>
      BY <1>2, <3>1 DEF pageVars
    <3>5. ButtonsComeBack'
      BY <3>3, <3>4, <1>3 DEF ButtonsComeBack, Used
    <3>6. BannerFollows'
      BY <2>1, <3>4 DEF BannerFollows
    <3> QED BY <3>3, <3>4, <3>5, <3>6, <1>3, RequestsChange DEF ViewTypeOK
  <2> QED BY <2>2, <2>3
<1> QED BY <1>5, <1>6

(* A request leaves, is asked anew, or another one is made. *)
LEMMA SlotTaken ==
    ASSUME ViewTypeOK, RequestsFit, UNCHANGED <<view, actual>>, NEW c \in Slot,
           NEW q \in Ongoing \union {Free}, http' = [http EXCEPT ![c] = q],
           q.phase # "free" => q.got = None
             /\ IF view = "page" THEN q.what # "list" /\ q.id \in Order
                                 ELSE q.what = "list" /\ q.for = "load"
    PROVE  /\ http' \in [Slot -> Ongoing \union {Free}] /\ RequestsFit'
           /\ http'[c] = q /\ \A d \in Slot : d # c => http'[d] = http[d]
<1>1. http \in [Slot -> Ongoing \union {Free}]
  BY DEF ViewTypeOK
<1>2. http' \in [Slot -> Ongoing \union {Free}]
  BY <1>1
<1>3. http'[c] = q /\ \A d \in Slot : d # c => http'[d] = http[d]
  BY <1>1
<1>4. Onward
  BY NothingMoves
<1>5. RequestsFit'
  <2> SUFFICES ASSUME NEW d \in Slot, Used(d)' PROVE Fits(http[d])'
    BY DEF RequestsFit
  <2>1. CASE d = c
    BY <2>1, <1>3 DEF Used, Fits, Recalls, None
  <2>2. CASE d # c
    <3>1. Used(d) /\ http'[d] = http[d]
      BY <2>2, <1>3 DEF Used
    <3> QED BY <3>1, <1>4, StillAsked
  <2> QED BY <2>1, <2>2
<1> QED BY <1>2, <1>3, <1>5

LEMMA AskedRequest ==
    ASSUME NEW what \in {"get", "complete", "cancel"}, NEW o \in Order,
           NEW for \in {"load", "complete", "cancel"}
    PROVE  /\ Ask(what, o, for) \in Ongoing \union {Free}
           /\ Ask(what, o, for).phase = "sent" /\ Ask(what, o, for).got = None
           /\ Ask(what, o, for).what = what /\ Ask(what, o, for).id = o
           /\ Ask(what, o, for).for = for
  BY DEF Ask, Ongoing, Record

LEMMA SpareSlot ==
    ASSUME Spare # {}
    PROVE  NextSlot \in Slot /\ ~Used(NextSlot)
  BY DEF NextSlot, Spare

LEMMA TapKeepsViews ==
    ASSUME ViewsInv, NEW what \in {"complete", "cancel"}, Tap(what)
    PROVE  ViewsInv'
<1>1. ViewTypeOK /\ RequestsFit /\ ButtonsComeBack
  BY DEF ViewsInv
<1>2. /\ view = "page" /\ route # 0 /\ taps < MaxTaps /\ Spare # {}
      /\ http' = [http EXCEPT ![NextSlot] = Ask(what, route, what)]
      /\ busy' = busy \union {what} /\ taps' = taps + 1
      /\ UNCHANGED <<view, actual, route, seen, shown, sock, drops, mishap>>
  BY DEF Tap
<1> DEFINE n == NextSlot  q == Ask(what, route, what)
<1>3. n \in Slot /\ ~Used(n)
  BY <1>2, SpareSlot
<1>4. route \in Order
  BY <1>1, <1>2 DEF ViewTypeOK
<1>5. q \in Ongoing \union {Free} /\ q.got = None /\ q.what = what /\ q.id = route /\ q.for = what
      /\ q.phase = "sent"
  BY <1>4, AskedRequest
<1>6. http' = [http EXCEPT ![n] = q] /\ UNCHANGED <<view, actual>>
  BY <1>2
<1> HIDE DEF n, q
<1>7. /\ http' \in [Slot -> Ongoing \union {Free}] /\ RequestsFit'
      /\ http'[n] = q /\ \A d \in Slot : d # n => http'[d] = http[d]
  BY <1>1, <1>2, <1>3, <1>4, <1>5, <1>6, SlotTaken
<1>8. ButtonsComeBack'
  <2> SUFFICES ASSUME NEW b \in busy \union {what}
               PROVE  \E d \in Slot : http'[d].phase # "free" /\ http'[d].for = b
    BY <1>2 DEF ButtonsComeBack, Used
  <2>1. CASE b = what
    BY <2>1, <1>3, <1>5, <1>7
  <2>2. CASE b # what
    <3>1. PICK d \in Slot : Used(d) /\ http[d].for = b
      BY <2>2, <1>1 DEF ButtonsComeBack
    <3>2. http'[d] = http[d]
      BY <3>1, <1>3, <1>7
    <3> QED BY <3>1, <3>2 DEF Used
  <2> QED BY <2>1, <2>2
<1>9. BannerFollows'
  BY <1>2 DEF BannerFollows
<1>10. taps' \in 0 .. MaxTaps /\ drops' \in 0 .. MaxDrops /\ busy' \subseteq {"complete", "cancel"}
       /\ mishap' \subseteq Mishap
  BY <1>1, <1>2, OrderViewsAssumption DEF ViewTypeOK
<1> QED BY <1>2, <1>7, <1>8, <1>9, <1>10, RequestsChange

LEMMA LossKeepsViews ==
    ASSUME ViewsInv, NEW c \in Slot, LoseRequest(c)
    PROVE  ViewsInv'
<1>1. ViewTypeOK /\ RequestsFit /\ ButtonsComeBack
  BY DEF ViewsInv
<1>2. /\ http' = [http EXCEPT ![c] = Free] /\ busy' = busy \ {http[c].for}
      /\ mishap' = mishap \union {"lost"}
      /\ UNCHANGED <<view, actual, route, seen, shown, sock, taps, drops>>
  BY DEF LoseRequest, Settled
<1>3. Free \in Ongoing \union {Free} /\ Free.phase = "free"
  BY DEF Free
<1>4. /\ http' \in [Slot -> Ongoing \union {Free}] /\ RequestsFit'
      /\ http'[c] = Free /\ \A d \in Slot : d # c => http'[d] = http[d]
  BY <1>1, <1>2, <1>3, SlotTaken
<1>5. ButtonsComeBack'
  <2> SUFFICES ASSUME NEW b \in busy \ {http[c].for}
               PROVE  \E d \in Slot : http'[d].phase # "free" /\ http'[d].for = b
    BY <1>2 DEF ButtonsComeBack, Used
  <2>1. PICK d \in Slot : Used(d) /\ http[d].for = b
    BY <1>1 DEF ButtonsComeBack
  <2> QED BY <2>1, <1>4 DEF Used
<1>6. BannerFollows'
  BY <1>2 DEF BannerFollows
<1>7. /\ taps' \in 0 .. MaxTaps /\ drops' \in 0 .. MaxDrops
      /\ busy' \subseteq {"complete", "cancel"} /\ mishap' \subseteq Mishap
  BY <1>1, <1>2 DEF ViewTypeOK, Mishap
<1> QED BY <1>2, <1>4, <1>5, <1>6, <1>7, RequestsChange

LEMMA DoneKeepsViews ==
    ASSUME ViewsInv, NEW c \in Slot, http[c].phase = "answered",
           ReceiveDone(c) \/ ReceiveRefused(c),
           UNCHANGED <<view, actual, route, taps, drops>>
    PROVE  ViewsInv'
<1>1. ViewTypeOK /\ RequestsFit /\ ButtonsComeBack
  BY DEF ViewsInv
<1>2. Used(c) /\ Fits(http[c])
  BY <1>1 DEF Used, RequestsFit
<1>3. view = "page" /\ http[c].id \in Order /\ http[c].what \in {"complete", "cancel"}
  BY <1>1, <1>2 DEF Fits, ReceiveDone, ReceiveRefused, ViewTypeOK
<1>4. UNCHANGED <<shown, sock, seen, mishap>>
  BY DEF ReceiveDone, ReceiveRefused
<1>5. BannerFollows'
  BY <1>3 DEF BannerFollows
<1>6. taps' \in 0 .. MaxTaps /\ drops' \in 0 .. MaxDrops /\ mishap' \subseteq Mishap
  BY <1>1, <1>4 DEF ViewTypeOK
<1>7. CASE ReceiveDone(c)
  <2> DEFINE q == Ask("get", http[c].id, http[c].for)
  <2>1. http' = [http EXCEPT ![c] = q] /\ busy' = busy
    BY <1>7 DEF ReceiveDone
  <2>2. /\ q \in Ongoing \union {Free} /\ q.got = None /\ q.what = "get" /\ q.id \in Order
        /\ q.for = http[c].for /\ q.phase = "sent"
    <3>1. http[c].for \in {"load", "complete", "cancel"}
      BY <1>1, <1>2, RequestFields
    <3> QED BY <3>1, <1>3, AskedRequest
  <2> HIDE DEF q
  <2>3. /\ http' \in [Slot -> Ongoing \union {Free}] /\ RequestsFit'
        /\ http'[c] = q /\ \A d \in Slot : d # c => http'[d] = http[d]
    BY <1>1, <1>3, <2>1, <2>2, SlotTaken
  <2>4. ButtonsComeBack'
    <3> SUFFICES ASSUME NEW b \in busy
                 PROVE  \E d \in Slot : http'[d].phase # "free" /\ http'[d].for = b
      BY <2>1 DEF ButtonsComeBack, Used
    <3>1. PICK d \in Slot : Used(d) /\ http[d].for = b
      BY <1>1 DEF ButtonsComeBack
    <3> QED BY <3>1, <2>2, <2>3 DEF Used
  <2> QED BY <1>1, <1>4, <1>5, <1>6, <2>1, <2>3, <2>4, RequestsChange DEF ViewTypeOK
<1>8. CASE ReceiveRefused(c)
  <2>1. http' = [http EXCEPT ![c] = Free] /\ busy' = busy \ {http[c].for}
    BY <1>8 DEF ReceiveRefused, Settled
  <2>2. Free \in Ongoing \union {Free} /\ Free.phase = "free"
    BY DEF Free
  <2>3. /\ http' \in [Slot -> Ongoing \union {Free}] /\ RequestsFit'
        /\ http'[c] = Free /\ \A d \in Slot : d # c => http'[d] = http[d]
    BY <1>1, <2>1, <2>2, SlotTaken
  <2>4. ButtonsComeBack'
    <3> SUFFICES ASSUME NEW b \in busy \ {http[c].for}
                 PROVE  \E d \in Slot : http'[d].phase # "free" /\ http'[d].for = b
      BY <2>1 DEF ButtonsComeBack, Used
    <3>1. PICK d \in Slot : Used(d) /\ http[d].for = b
      BY <1>1 DEF ButtonsComeBack
    <3> QED BY <3>1, <2>3 DEF Used
  <2>5. busy' \subseteq {"complete", "cancel"}
    BY <1>1, <2>1 DEF ViewTypeOK
  <2> QED BY <1>4, <1>5, <1>6, <2>3, <2>4, <2>5, RequestsChange
<1> QED BY <1>7, <1>8

(* A step that changes the state of the connection, and asks for at most one order. *)
LEMMA SocketChanges ==
    ASSUME ViewsInv, UNCHANGED <<view, actual, route, seen, shown, busy, taps, mishap>>,
           sock' \in Channel \union {Silent}, sock'.id = sock.id, drops' \in 0 .. MaxDrops,
           http' \in [Slot -> Ongoing \union {Free}], RequestsFit', ButtonsComeBack',
           BannerFollows', WireTells', sock'.line = "up" => sock'.wire # <<>>
    PROVE  ViewsInv'
<1>1. ViewTypeOK'
  BY DEF ViewsInv, ViewTypeOK
<1>2. AllPlaced' /\ Recalls(shown)'
  BY DEF ViewsInv, AllPlaced, Recalls, Behind
<1>3. PageFollows' /\ WrongOrderOnlyWhileLoading'
  BY DEF PageFollows, WrongOrderOnlyWhileLoading
<1>4. CelebratesTheCompleted'
  <2>1. CelebratesTheCompleted
    BY DEF ViewsInv
  <2> QED BY <2>1 DEF CelebratesTheCompleted
<1>5. LoneOrder'
  <2>1. LoneOrder
    BY DEF ViewsInv
  <2> QED BY <2>1 DEF LoneOrder, Active
<1> QED BY <1>1, <1>2, <1>3, <1>4, <1>5 DEF ViewsInv

LEMMA ChannelChanged ==
    ASSUME NEW k \in Channel, NEW l \in {"down", "up", "given up"}, NEW w \in Seq(Status)
    PROVE  /\ [k EXCEPT !.line = l] \in Channel
           /\ [k EXCEPT !.line = l].id = k.id /\ [k EXCEPT !.line = l].line = l
           /\ [k EXCEPT !.line = l].wire = k.wire
           /\ [k EXCEPT !.wire = w] \in Channel
           /\ [k EXCEPT !.wire = w].id = k.id /\ [k EXCEPT !.wire = w].line = k.line
           /\ [k EXCEPT !.wire = w].wire = w
  BY DEF Channel

LEMMA OpenSocket ==
    ASSUME ViewTypeOK, sock.id # 0 \/ sock.line # "down"
    PROVE  sock \in Channel /\ sock.id \in Order /\ sock.wire \in Seq(Status)
<1>1. sock # Silent
  BY DEF Silent
<1>2. sock \in Channel
  BY <1>1 DEF ViewTypeOK
<1> QED BY <1>2 DEF Channel

(* Requests, and what the banner has of them, when they are left alone. *)
LEMMA RequestsRest ==
    ASSUME ViewsInv, UNCHANGED <<view, actual, http, busy>>
    PROVE  /\ http' \in [Slot -> Ongoing \union {Free}] /\ RequestsFit' /\ ButtonsComeBack'
           /\ UNCHANGED <<shown, mishap>> => BannerFollows'
<1>1. ViewTypeOK /\ RequestsFit /\ ButtonsComeBack /\ BannerFollows
  BY DEF ViewsInv
<1>2. Onward
  BY NothingMoves
<1>3. RequestsFit'
  <2> SUFFICES ASSUME NEW d \in Slot, Used(d)' PROVE Fits(http[d])'
    BY DEF RequestsFit
  <2>1. Used(d) /\ http'[d] = http[d]
    BY DEF Used
  <2> QED BY <2>1, <1>1, <1>2, StillAsked
<1>4. ButtonsComeBack'
  BY <1>1 DEF ButtonsComeBack, Used
<1>5. UNCHANGED <<shown, mishap>> => BannerFollows'
  BY <1>1 DEF BannerFollows, Active, Used
<1> QED BY <1>1, <1>3, <1>4, <1>5 DEF ViewTypeOK

LEMMA SocketKeepsViews ==
    ASSUME ViewsInv, SockOpens \/ SockDrops
    PROVE  ViewsInv'
<1>1. ViewTypeOK /\ AllPlaced /\ Recalls(shown) /\ WireTells
  BY DEF ViewsInv
<1>2. UNCHANGED <<view, actual, route, busy, seen, shown, http, taps, mishap>>
  BY DEF SockOpens, SockDrops, pageVars
<1>3. http' \in [Slot -> Ongoing \union {Free}] /\ RequestsFit' /\ ButtonsComeBack' /\ BannerFollows'
  BY <1>2, RequestsRest
<1>4. /\ sock' \in Channel \union {Silent} /\ sock'.id = sock.id /\ drops' \in 0 .. MaxDrops
      /\ WireTells'
      /\ sock'.line = "up" => sock'.wire # <<>>
  <2>1. CASE SockOpens
    <3>1. /\ sock.id # 0 /\ sock.line = "down" /\ drops' = drops
          /\ sock' = [sock EXCEPT !.line = "up", !.wire = Greeting(sock.id)]
      BY <2>1 DEF SockOpens
    <3>2. sock.id \in Order /\ sock \in Channel
      BY <1>1, <3>1, OpenSocket
    <3>3. actual[sock.id] \in Status
      <4>1. CASE view = "page"
        BY <4>1, <1>1, <3>2 DEF AllPlaced
      <4>2. CASE view = "banner"
        BY <4>2, <1>1, <3>1, <3>2 DEF ViewTypeOK, Recalls, Behind
      <4> QED BY <4>1, <4>2, <1>1 DEF ViewTypeOK
    <3> DEFINE w == <<actual[sock.id]>>
    <3>4. w \in Seq(Status) /\ Len(w) = 1 /\ w[1] = actual[sock.id] /\ w # <<>>
      BY <3>3
    <3>5. sock' \in Channel /\ sock'.id = sock.id /\ sock'.line = "up" /\ sock'.wire = w
      <4> HIDE DEF w
      <4>1. sock' = [sock EXCEPT !.line = "up", !.wire = w]
        BY <3>1 DEF Greeting, w
      <4>2. w \in Seq(Status) /\ "up" \in {"down", "up", "given up"}
        BY <3>4
      <4> QED BY <4>1, <4>2, <3>2 DEF Channel
    <3> HIDE DEF w
    <3>6. WireTells'
      <4>1. Behind(actual[sock.id], actual[sock.id])
        BY <3>3, BehindReturns
      <4>2. ASSUME NEW i \in 1 .. Len(w) PROVE i = 1
        BY <3>4
      <4>3. actual'[sock.id] = actual[sock.id]
        BY <1>2
      <4> QED BY <3>4, <3>5, <4>1, <4>2, <4>3 DEF WireTells
    <3> QED BY <3>1, <3>4, <3>5, <3>6, <1>1 DEF ViewTypeOK
  <2>2. CASE SockDrops
    <3>1. /\ sock.line = "up" /\ drops < MaxDrops /\ drops' = drops + 1
          /\ sock' = [sock EXCEPT !.line = "down", !.wire = <<>>]
      BY <2>2 DEF SockDrops
    <3>2. sock \in Channel
      BY <1>1, <3>1, OpenSocket
    <3>3. sock' \in Channel /\ sock'.id = sock.id /\ sock'.line = "down" /\ sock'.wire = <<>>
      <4> DEFINE w == <<>>
      <4>1. w \in Seq(Status) /\ "down" \in {"down", "up", "given up"}
        OBVIOUS
      <4>2. sock' = [sock EXCEPT !.line = "down", !.wire = w]
        BY <3>1
      <4>3. w = <<>>
        OBVIOUS
      <4> HIDE DEF w
      <4> QED BY <4>1, <4>2, <4>3, <3>2 DEF Channel
    <3>4. WireTells'
      BY <3>3 DEF WireTells
    <3>5. drops' \in 0 .. MaxDrops
      BY <3>1, <1>1, OrderViewsAssumption DEF ViewTypeOK
    <3> QED BY <3>3, <3>4, <3>5
  <2> QED BY <2>1, <2>2
<1> QED BY <1>2, <1>3, <1>4, SocketChanges

LEMMA GivesUpKeepsViews ==
    ASSUME ViewsInv, GivesUp
    PROVE  ViewsInv'
<1>1. ViewTypeOK /\ RequestsFit /\ ButtonsComeBack /\ WireTells
  BY DEF ViewsInv
<1>2. /\ view = "page" /\ sock.id # 0 /\ sock.line = "down" /\ drops < MaxDrops
      /\ sock' = [sock EXCEPT !.line = "given up"] /\ drops' = drops + 1
      /\ UNCHANGED <<view, actual, route, busy, seen, shown, taps, mishap>>
  BY DEF GivesUp, pageVars
<1>3. sock \in Channel
  BY <1>1, <1>2, OpenSocket
<1>4. sock' \in Channel /\ sock'.id = sock.id /\ sock'.line = "given up" /\ sock'.wire = sock.wire
  <2>1. <<>> \in Seq(Status)
    OBVIOUS
  <2> QED BY <2>1, <1>2, <1>3, ChannelChanged
<1>5. WireTells' /\ drops' \in 0 .. MaxDrops
  <2>1. sock.wire = <<>>
    BY <1>1, <1>2 DEF WireTells
  <2>2. sock'.wire = <<>>
    BY <2>1, <1>4
  <2>3. WireTells'
    BY <2>2 DEF WireTells
  <2>4. drops' \in 0 .. MaxDrops
    <3>1. drops \in 0 .. MaxDrops /\ MaxDrops \in Nat
      BY <1>1, OrderViewsAssumption DEF ViewTypeOK
    <3>2. drops < MaxDrops /\ drops' = drops + 1
      BY <1>2
    <3> QED BY <3>1, <3>2
  <2> QED BY <2>3, <2>4
<1>6. BannerFollows'
  BY <1>2 DEF BannerFollows
<1>7. http' \in [Slot -> Ongoing \union {Free}] /\ RequestsFit' /\ ButtonsComeBack'
  <2>1. CASE Over(shown)
    <3>1. http' = http
      BY <2>1 DEF GivesUp
    <3> QED BY <3>1, <1>2, RequestsRest
  <2>2. CASE ~Over(shown)
    <3> DEFINE n == NextSlot  q == Ask("get", route, "load")
    <3>1. n \in Slot /\ ~Used(n) /\ http' = [http EXCEPT ![n] = q]
      BY <2>2, SpareSlot DEF GivesUp
    <3>2. route \in Order
      BY <1>1, <1>2, SocketFields DEF ViewTypeOK
    <3>3. /\ q \in Ongoing \union {Free} /\ q.got = None /\ q.what = "get" /\ q.id = route
      BY <3>2, AskedRequest
    <3> HIDE DEF n, q
    <3>4. /\ http' \in [Slot -> Ongoing \union {Free}] /\ RequestsFit'
          /\ http'[n] = q /\ \A d \in Slot : d # n => http'[d] = http[d]
      BY <1>1, <1>2, <3>1, <3>2, <3>3, SlotTaken
    <3>5. ButtonsComeBack'
      <4> SUFFICES ASSUME NEW b \in busy
                   PROVE  \E d \in Slot : http'[d].phase # "free" /\ http'[d].for = b
        BY <1>2 DEF ButtonsComeBack, Used
      <4>1. PICK d \in Slot : Used(d) /\ http[d].for = b
        BY <1>1 DEF ButtonsComeBack
      <4>2. http'[d] = http[d]
        BY <4>1, <3>1, <3>4
      <4> QED BY <4>1, <4>2 DEF Used
    <3> QED BY <3>4, <3>5
  <2> QED BY <2>1, <2>2
<1> QED BY <1>2, <1>4, <1>5, <1>6, <1>7, SocketChanges

(* The page is shown another record of an order. *)
LEMMA PageIsShown ==
    ASSUME ViewsInv, view = "page", UNCHANGED <<view, actual, route, taps, drops>>,
           NEW r \in Record, shown' = r, Recalls(r), seen' = Celebrated(r, route),
           sock' \in Channel \union {Silent}, sock'.id = sock.id, WireTells',
           busy' \subseteq {"complete", "cancel"}, mishap \subseteq mishap', mishap' \subseteq Mishap,
           http' \in [Slot -> Ongoing \union {Free}], RequestsFit', ButtonsComeBack',
           r.id # route => "crossed" \in mishap',
           PageFollows'
    PROVE  ViewsInv'
<1>1. ViewTypeOK /\ AllPlaced
  BY DEF ViewsInv
<1>2. ViewTypeOK'
  <2>1. seen' \subseteq Order
    BY <1>1 DEF ViewTypeOK, Celebrated
  <2> QED BY <1>1, <2>1 DEF ViewTypeOK
<1>3. AllPlaced' /\ Recalls(shown)'
  BY <1>1 DEF AllPlaced, Recalls, Behind
<1>4. WrongOrderOnlyWhileLoading'
  BY DEF WrongOrderOnlyWhileLoading
<1>5. CelebratesTheCompleted'
  <2>1. CelebratesTheCompleted
    BY DEF ViewsInv
  <2>2. CASE seen' = seen
    BY <2>1, <2>2 DEF CelebratesTheCompleted
  <2>3. CASE seen' # seen
    <3>1. r.status = "COMPLETED" /\ route # 0 /\ seen' = seen \union {route}
      BY <2>3 DEF Celebrated
    <3>2. r.id = route => actual[route] = "COMPLETED"
      BY <3>1, NothingAfterTheEnd DEF Recalls, Terminal
    <3> QED BY <2>1, <3>1, <3>2 DEF CelebratesTheCompleted
  <2> QED BY <2>2, <2>3
<1>6. LoneOrder' /\ BannerFollows'
  BY DEF LoneOrder, BannerFollows
<1> QED BY <1>2, <1>3, <1>4, <1>5, <1>6 DEF ViewsInv

LEMMA EqualOrLater ==
    ASSUME NEW s, NEW t, Behind(s, t), ~(Rank[s] < Rank[t])
    PROVE  s = t
  BY DEF Behind

LEMMA GetKeepsViews ==
    ASSUME ViewsInv, NEW c \in Slot, http[c].phase = "answered", ReceiveGet(c),
           UNCHANGED <<view, actual, route, taps, drops>>
    PROVE  ViewsInv'
<1>1. ViewTypeOK /\ RequestsFit /\ ButtonsComeBack /\ WireTells /\ PageFollows
  BY DEF ViewsInv
<1>2. Used(c) /\ Fits(http[c]) /\ http[c].what = "get"
  BY <1>1 DEF Used, RequestsFit, ReceiveGet
<1>3. view = "page"
  BY <1>1, <1>2 DEF Fits, ViewTypeOK
<1> DEFINE r == http[c].got
<1>4. r \in Record /\ Recalls(r)
  BY <1>1, <1>2, RequestFields DEF Fits
<1>5. /\ shown' = r /\ seen' = Celebrated(r, route) /\ sock' = sock
      /\ mishap' = mishap \union (IF r.id # route THEN {"crossed"} ELSE {})
                          \union (IF Older(r) THEN {"overtaken"} ELSE {})
      /\ busy' = busy \ {http[c].for} /\ http' = [http EXCEPT ![c] = Free]
  BY <1>3 DEF ReceiveGet, Shows, Settled
<1> HIDE DEF r
<1>6. /\ http' \in [Slot -> Ongoing \union {Free}] /\ RequestsFit'
      /\ http'[c] = Free /\ \A d \in Slot : d # c => http'[d] = http[d]
  <2>1. Free \in Ongoing \union {Free} /\ Free.phase = "free"
    BY DEF Free
  <2> QED BY <2>1, <1>1, <1>5, SlotTaken
<1>7. ButtonsComeBack'
  <2> SUFFICES ASSUME NEW b \in busy \ {http[c].for}
               PROVE  \E d \in Slot : http'[d].phase # "free" /\ http'[d].for = b
    BY <1>5 DEF ButtonsComeBack, Used
  <2>1. PICK d \in Slot : Used(d) /\ http[d].for = b
    BY <1>1 DEF ButtonsComeBack
  <2> QED BY <2>1, <1>6 DEF Used
<1>8. busy' \subseteq {"complete", "cancel"} /\ mishap' \subseteq Mishap /\ mishap \subseteq mishap'
  BY <1>1, <1>5 DEF ViewTypeOK, Mishap
<1>9. sock' \in Channel \union {Silent} /\ WireTells'
  BY <1>1, <1>5 DEF ViewTypeOK, WireTells, Behind
<1>10. PageFollows'
  <2> SUFFICES ASSUME route # 0, sock.line = "up", sock.wire = <<>>,
                      mishap' \intersect {"overtaken", "crossed"} = {}
               PROVE  r = [id |-> route, status |-> actual[route]]
    BY <1>5 DEF PageFollows
  <2>1. r.id = route /\ ~Older(r) /\ mishap \intersect {"overtaken", "crossed"} = {}
    BY <1>5
  <2>2. shown = [id |-> route, status |-> actual[route]]
    BY <2>1, <1>1, <1>3 DEF PageFollows
  <2>3. Behind(r.status, actual[route])
    BY <2>1, <1>4 DEF Recalls
  <2>4. ~(Rank[r.status] < Rank[actual[route]])
    BY <2>1, <2>2 DEF Older
  <2>5. r.status = actual[route]
    BY <2>3, <2>4, EqualOrLater
  <2>6. r = [id |-> r.id, status |-> r.status]
    BY <2>1, <1>1, <1>4, RecordFields DEF ViewTypeOK
  <2> QED BY <2>1, <2>5, <2>6
<1>11. r.id # route => "crossed" \in mishap'
  BY <1>5
<1> QED BY <1>3, <1>4, <1>5, <1>6, <1>7, <1>8, <1>9, <1>10, <1>11, PageIsShown

LEMMA OneLess ==
    ASSUME NEW T, NEW w \in Seq(T), w # <<>>
    PROVE  /\ Tail(w) \in Seq(T) /\ Head(w) = w[1] /\ Head(w) \in T
           /\ Len(w) \in Nat \ {0} /\ Len(Tail(w)) = Len(w) - 1
           /\ \A i \in 1 .. Len(Tail(w)) : Tail(w)[i] = w[i + 1] /\ i + 1 \in 1 .. Len(w)
           /\ Tail(w) = <<>> => Len(w) = 1
           /\ Tail(w) # <<>> => Tail(w)[Len(Tail(w))] = w[Len(w)]
<1>1. Len(w) \in Nat \ {0} /\ Head(w) = w[1] /\ Head(w) \in T
  OBVIOUS
<1>2. Tail(w) \in Seq(T) /\ Len(Tail(w)) = Len(w) - 1
  OBVIOUS
<1>3. \A i \in 1 .. Len(Tail(w)) : Tail(w)[i] = w[i + 1] /\ i + 1 \in 1 .. Len(w)
  OBVIOUS
<1>4. Tail(w) = <<>> => Len(w) = 1
  BY <1>1, <1>2
<1>5. ASSUME Tail(w) # <<>> PROVE Tail(w)[Len(Tail(w))] = w[Len(w)]
  <2> DEFINE n == Len(Tail(w))
  <2>1. n \in 1 .. n /\ n + 1 = Len(w)
    BY <1>1, <1>2, <1>5
  <2> QED BY <2>1, <1>3
<1> QED BY <1>1, <1>2, <1>3, <1>4, <1>5

LEMMA PageHearsKeepsViews ==
    ASSUME ViewsInv, Deliver, view = "page"
    PROVE  ViewsInv'
<1>1. ViewTypeOK /\ WireTells
  BY DEF ViewsInv
<1> DEFINE w == sock.wire  s == Head(sock.wire)  r == [id |-> sock.id, status |-> s]
<1>2. /\ w # <<>> /\ shown' = r /\ seen' = Celebrated(r, route)
      /\ sock' = [sock EXCEPT !.wire = Tail(@)]
      /\ UNCHANGED <<view, actual, route, busy, http, taps, drops, mishap>>
  BY DEF Deliver
<1>3. sock.line = "up"
  BY <1>1, <1>2 DEF WireTells
<1>4. sock \in Channel /\ sock.id \in Order /\ w \in Seq(Status) /\ sock.id = route
  BY <1>1, <1>3, OpenSocket DEF ViewTypeOK
<1>5. /\ Tail(w) \in Seq(Status) /\ s = w[1] /\ s \in Status
      /\ Len(w) \in Nat \ {0} /\ Len(Tail(w)) = Len(w) - 1
      /\ \A i \in 1 .. Len(Tail(w)) : Tail(w)[i] = w[i + 1] /\ i + 1 \in 1 .. Len(w)
      /\ Tail(w) = <<>> => Len(w) = 1
      /\ Tail(w) # <<>> => Tail(w)[Len(Tail(w))] = w[Len(w)]
  BY <1>2, <1>4, OneLess
<1>6. /\ sock' \in Channel /\ sock'.id = sock.id /\ sock'.line = sock.line
      /\ sock'.wire = Tail(w)
  <2>1. sock' = [sock EXCEPT !.wire = Tail(w)]
    BY <1>2
  <2>2. Tail(w) \in Seq(Status) /\ sock \in Channel
    BY <1>4, <1>5
  <2> HIDE DEF w
  <2> QED BY <2>1, <2>2 DEF Channel
<1>7. r \in Record /\ r.id = route /\ r.status = s
  BY <1>4, <1>5 DEF Record
<1>8. Behind(s, actual[route])
  <2>1. 1 \in 1 .. Len(w)
    BY <1>5
  <2> QED BY <2>1, <1>1, <1>4, <1>5 DEF WireTells
<1>9. Recalls(r)
  BY <1>7, <1>8 DEF Recalls
<1>10. WireTells'
  <2>1. \A i \in 1 .. Len(w) : Behind(w[i], actual[sock.id])
    BY <1>1 DEF WireTells
  <2>2. w[Len(w)] = actual[sock.id]
    BY <1>1, <1>2 DEF WireTells
  <2>3. actual'[sock'.id] = actual[sock.id]
    BY <1>2, <1>6
  <2> HIDE DEF w, r
  <2>4. \A i \in 1 .. Len(Tail(w)) : Behind(Tail(w)[i], actual[sock.id])
    BY <2>1, <1>5
  <2> QED BY <2>2, <2>3, <2>4, <1>3, <1>5, <1>6 DEF WireTells
<1>11. PageFollows'
  <2> SUFFICES ASSUME Tail(w) = <<>> PROVE r = [id |-> route, status |-> actual[route]]
    BY <1>2, <1>6 DEF PageFollows
  <2>1. s = actual[sock.id]
    BY <1>1, <1>2, <1>5 DEF WireTells
  <2> QED BY <2>1, <1>4
<1>12. http' \in [Slot -> Ongoing \union {Free}] /\ RequestsFit' /\ ButtonsComeBack'
  BY <1>2, RequestsRest
<1>13. busy' \subseteq {"complete", "cancel"} /\ mishap \subseteq mishap' /\ mishap' \subseteq Mishap
  BY <1>1, <1>2 DEF ViewTypeOK
<1> HIDE DEF w, s, r
<1> QED BY <1>2, <1>6, <1>7, <1>9, <1>10, <1>11, <1>12, <1>13, PageIsShown

(* The banner is shown another record. *)
LEMMA BannerIsShown ==
    ASSUME ViewsInv, view = "banner", UNCHANGED <<view, route, busy, seen, taps, drops>>,
           Onward, actual' \in [Order -> Status \union {"absent"}],
           NEW r \in Record, shown' = r, r.id # 0 => Behind(r.status, actual'[r.id]),
           sock' = Dial(r.id), mishap \subseteq mishap', mishap' \subseteq Mishap,
           http' \in [Slot -> Ongoing \union {Free}], RequestsFit', ButtonsComeBack',
           LoneOrder', BannerFollows'
    PROVE  ViewsInv'
<1>1. ViewTypeOK
  BY DEF ViewsInv
<1>2. r.id \in Order \union {0}
  BY RecordFields
<1>3. sock' \in Channel \union {Silent} /\ sock'.id = r.id /\ sock'.line = "down" /\ sock'.wire = <<>>
  BY <1>2, DialledSocket
<1>4. ViewTypeOK'
  BY <1>1, <1>3 DEF ViewTypeOK
<1>5. AllPlaced' /\ PageFollows' /\ WrongOrderOnlyWhileLoading'
  BY DEF AllPlaced, PageFollows, WrongOrderOnlyWhileLoading
<1>6. Recalls(shown)'
  BY DEF Recalls, Behind
<1>7. WireTells'
  BY <1>3 DEF WireTells
<1>8. CelebratesTheCompleted'
  <2>1. CelebratesTheCompleted /\ seen \subseteq Order
    BY <1>1 DEF ViewsInv, ViewTypeOK
  <2>2. ASSUME NEW p \in Order, actual[p] = "COMPLETED" PROVE actual'[p] = "COMPLETED"
    BY <2>2, NothingAfterTheEnd DEF Onward, Terminal, Status
  <2> QED BY <2>1, <2>2 DEF CelebratesTheCompleted
<1> QED BY <1>4, <1>5, <1>6, <1>7, <1>8 DEF ViewsInv

LEMMA ListKeepsViews ==
    ASSUME ViewsInv, NEW c \in Slot, http[c].phase = "answered", ReceiveList(c),
           UNCHANGED <<view, actual, route, taps, drops>>
    PROVE  ViewsInv'
<1>1. ViewTypeOK /\ RequestsFit /\ ButtonsComeBack /\ LoneOrder /\ BannerFollows
  BY DEF ViewsInv
<1>2. Used(c) /\ Fits(http[c]) /\ http[c].what = "list"
  BY <1>1 DEF Used, RequestsFit, ReceiveList
<1>3. view = "banner"
  BY <1>1, <1>2 DEF Fits, ViewTypeOK
<1> DEFINE r == http[c].got
<1>4. r \in Record /\ Recalls(r)
  BY <1>1, <1>2, RequestFields DEF Fits
<1>5. /\ shown' = r /\ seen' = seen /\ sock' = Dial(r.id) /\ UNCHANGED <<busy, mishap>>
      /\ http' = [http EXCEPT ![c] = Free]
  BY <1>3 DEF ReceiveList, Shows, Follow
<1>6. /\ http' \in [Slot -> Ongoing \union {Free}] /\ RequestsFit'
      /\ http'[c] = Free /\ \A d \in Slot : d # c => http'[d] = http[d]
  <2>1. Free \in Ongoing \union {Free} /\ Free.phase = "free"
    BY DEF Free
  <2> QED BY <2>1, <1>1, <1>5, SlotTaken
<1>7. ButtonsComeBack'
  <2> SUFFICES ASSUME NEW b \in busy
               PROVE  \E d \in Slot : http'[d].phase # "free" /\ http'[d].for = b
    BY <1>5 DEF ButtonsComeBack, Used
  <2>1. PICK d \in Slot : Used(d) /\ http[d].for = b
    BY <1>1 DEF ButtonsComeBack
  <2>2. d # c
    BY <2>1, <1>1, <1>2, <1>3 DEF Fits, ViewTypeOK
  <2> QED BY <2>1, <2>2, <1>6 DEF Used
<1>8. Active' = Active
  BY DEF Active
<1>9. BannerFollows'
  <2> SUFFICES ASSUME mishap \intersect {"second", "lost", "overtaken"} = {}
               PROVE  /\ Active \subseteq {r.id}
                      /\ \A d \in Slot : http'[d].phase = "answered" => Active \subseteq {http'[d].got.id}
    BY <1>5, <1>8 DEF BannerFollows
  <2>1. \A d \in Slot : http[d].phase = "answered" => Active \subseteq {http[d].got.id}
    BY <1>1, <1>3 DEF BannerFollows
  <2>2. http'[c].phase # "answered"
    BY <1>6 DEF Free
  <2> QED BY <2>1, <2>2, <1>6 DEF r
<1>10. LoneOrder'
  BY <1>1, <1>5, <1>8 DEF LoneOrder
<1>11. Onward /\ actual' \in [Order -> Status \union {"absent"}] /\ mishap' \subseteq Mishap
  BY <1>1, <1>5, NothingMoves DEF ViewTypeOK
<1>12. r.id # 0 => Behind(r.status, actual'[r.id])
  BY <1>4 DEF Recalls
<1> QED BY <1>3, <1>4, <1>5, <1>6, <1>7, <1>9, <1>10, <1>11, <1>12, BannerIsShown

LEMMA BannerHearsKeepsViews ==
    ASSUME ViewsInv, Deliver, view = "banner"
    PROVE  ViewsInv'
<1>1. ViewTypeOK /\ WireTells /\ LoneOrder /\ BannerFollows
  BY DEF ViewsInv
<1> DEFINE w == sock.wire  s == Head(sock.wire)  r == Told(s)
<1>2. /\ w # <<>> /\ shown' = r /\ seen' = seen /\ sock' = Dial(r.id)
      /\ UNCHANGED <<view, actual, route, busy, http, taps, drops, mishap>>
  BY DEF Deliver, Shows, Follow
<1>3. sock.line = "up"
  BY <1>1, <1>2 DEF WireTells
<1>4. sock.id \in Order /\ w \in Seq(Status) /\ sock.id = shown.id
  BY <1>1, <1>3, OpenSocket DEF ViewTypeOK
<1>5. s = w[1] /\ s \in Status /\ 1 \in 1 .. Len(w)
  BY <1>2, <1>4, OneLess
<1>6. Behind(s, actual[shown.id])
  BY <1>1, <1>4, <1>5 DEF WireTells
<1> HIDE DEF w, s
<1>7. r = None \/ r = [id |-> shown.id, status |-> s]
  BY DEF Told
<1>8. r \in Record /\ (r.id # 0 => Behind(r.status, actual'[r.id]))
  BY <1>2, <1>4, <1>5, <1>6, <1>7 DEF Record, None
<1>9. Active \subseteq {shown.id} => Active \subseteq {r.id}
  <2>1. CASE s \in Terminal
    <3>1. actual[shown.id] \in Terminal
      BY <2>1, <1>6, NothingAfterTheEnd
    <3>2. shown.id \notin Active
      BY <3>1 DEF Active, Terminal
    <3> QED BY <3>2
  <2>2. CASE s \notin Terminal
    BY <2>2 DEF Told
  <2> QED BY <2>1, <2>2
<1> HIDE DEF r
<1>10. Active' = Active
  BY <1>2 DEF Active
<1>11. BannerFollows'
  BY <1>1, <1>2, <1>9, <1>10 DEF BannerFollows, Used
<1>12. LoneOrder'
  BY <1>1, <1>2, <1>10 DEF LoneOrder
<1>13. http' \in [Slot -> Ongoing \union {Free}] /\ RequestsFit' /\ ButtonsComeBack'
  BY <1>2, RequestsRest
<1>14. Onward /\ actual' \in [Order -> Status \union {"absent"}] /\ mishap' \subseteq Mishap
  BY <1>1, <1>2, NothingMoves DEF ViewTypeOK
<1> QED BY <1>2, <1>8, <1>11, <1>12, <1>13, <1>14, BannerIsShown

LEMMA PlaceKeepsViews ==
    ASSUME ViewsInv, NEW o \in Order, Place(o)
    PROVE  ViewsInv'
<1>1. ViewTypeOK /\ RequestsFit /\ ButtonsComeBack /\ LoneOrder /\ BannerFollows
  BY DEF ViewsInv
<1> DEFINE r == [id |-> o, status |-> "PENDING"]
<1>2. /\ view = "banner" /\ actual[o] = "absent" /\ actual' = [actual EXCEPT ![o] = "PENDING"]
      /\ shown' = r /\ seen' = seen /\ sock' = Dial(r.id)
      /\ mishap' = mishap \union (IF Active # {} THEN {"second"} ELSE {})
                          \union (IF \E s \in Slot : http[s].phase = "answered"
                                  THEN {"overtaken"} ELSE {})
      /\ UNCHANGED <<view, route, busy, http, taps, drops>>
  BY DEF Place, Shows, Follow
<1>3. actual \in [Order -> Status \union {"absent"}]
  BY <1>1 DEF ViewTypeOK
<1>4. actual' \in [Order -> Status \union {"absent"}] /\ actual'[o] = "PENDING"
  BY <1>2, <1>3 DEF Status
<1>5. Onward
  <2> SUFFICES ASSUME NEW p \in Order, actual[p] \in Status PROVE Behind(actual[p], actual'[p])
    BY DEF Onward
  <2>1. p # o
    BY <1>2 DEF Status
  <2> QED BY <2>1, <1>2, <1>3, BehindReturns
<1>6. r \in Record /\ r.id = o /\ Behind(r.status, actual'[r.id])
  BY <1>4, BehindReturns DEF Record, Status
<1> HIDE DEF r
<1>7. Active' = Active \union {o}
  BY <1>2, <1>3 DEF Active
<1>8. BannerFollows'
  <2> SUFFICES ASSUME mishap' \intersect {"second", "lost", "overtaken"} = {}
               PROVE  /\ Active' \subseteq {o}
                      /\ \A s \in Slot : http[s].phase # "answered"
    BY <1>2, <1>6 DEF BannerFollows
  <2> QED BY <1>2, <1>7
<1>9. LoneOrder'
  BY <1>2, <1>7 DEF LoneOrder
<1>10. mishap \subseteq mishap' /\ mishap' \subseteq Mishap
  BY <1>1, <1>2 DEF ViewTypeOK, Mishap
<1>11. RequestsFit' /\ ButtonsComeBack' /\ http' \in [Slot -> Ongoing \union {Free}]
  <2>1. ASSUME NEW d \in Slot, Used(d)' PROVE Fits(http[d])'
    <3>1. Used(d) /\ http'[d] = http[d]
      BY <2>1, <1>2 DEF Used
    <3> QED BY <3>1, <1>1, <1>2, <1>5, StillAsked
  <2> QED BY <2>1, <1>1, <1>2 DEF RequestsFit, ButtonsComeBack, Used, ViewTypeOK
<1> QED BY <1>2, <1>4, <1>5, <1>6, <1>8, <1>9, <1>10, <1>11, BannerIsShown

(* The page goes to another order, or away. *)
LEMMA GoKeepsViews ==
    ASSUME ViewsInv, NEW o \in Order \union {0}, Go(o)
    PROVE  ViewsInv'
<1>1. ViewTypeOK /\ RequestsFit /\ ButtonsComeBack /\ AllPlaced /\ Recalls(shown)
  BY DEF ViewsInv
<1>2. /\ view = "page" /\ o # route /\ taps < MaxTaps
      /\ route' = o /\ sock' = Dial(o) /\ seen' = Celebrated(shown, o)
      /\ busy' = (IF o = 0 THEN {} ELSE busy) /\ taps' = taps + 1
      /\ mishap' = mishap \union (IF o # 0 /\ shown.id \notin {0, o} THEN {"stale"} ELSE {})
      /\ UNCHANGED <<view, actual, shown, drops>>
  BY DEF Go
<1>3. PICK s \in Slot, t \in Slot :
         /\ s < t /\ Spare \intersect 1 .. t = {s, t}
         /\ http' = [u \in Slot |->
              IF u = s /\ Leaving # {} THEN Ask("get", route, "load")
              ELSE IF u = t /\ Loads(o) # {} THEN Ask("get", o, "load")
              ELSE IF Used(u) /\ o = 0 THEN [http[u] EXCEPT !.for = "load"]
              ELSE http[u]]
  BY DEF Go
<1>4. ~Used(s) /\ ~Used(t)
  BY <1>3 DEF Spare
<1>5. sock' \in Channel \union {Silent} /\ sock'.id = o /\ sock'.line = "down" /\ sock'.wire = <<>>
  BY <1>2, DialledSocket
<1>6. ASSUME NEW u \in Slot
      PROVE  /\ http'[u] \in Ongoing \union {Free}
             /\ Used(u)' => Fits(http[u])'
             /\ Used(u) => Used(u)' /\ (o # 0 => http'[u] = http[u])
  <2>1. CASE u = s /\ Leaving # {}
    <3>1. http'[u] = Ask("get", route, "load")
      BY <2>1, <1>3
    <3>2. route \in Order
      BY <2>1, <1>1 DEF Leaving, ViewTypeOK
    <3> DEFINE q == Ask("get", route, "load")
    <3>3. q \in Ongoing \union {Free} /\ q.got = None /\ q.what = "get" /\ q.id = route
      BY <3>2, AskedRequest
    <3> HIDE DEF q
    <3>4. http'[u] = q
      BY <3>1 DEF q
    <3> QED BY <2>1, <3>2, <3>3, <3>4, <1>2, <1>4 DEF Fits, Recalls, None
  <2>2. CASE ~(u = s /\ Leaving # {}) /\ u = t /\ Loads(o) # {}
    <3>1. http'[u] = Ask("get", o, "load")
      BY <2>2, <1>3
    <3>2. o \in Order
      BY <2>2 DEF Loads
    <3> DEFINE q == Ask("get", o, "load")
    <3>3. q \in Ongoing \union {Free} /\ q.got = None /\ q.what = "get" /\ q.id = o
      BY <3>2, AskedRequest
    <3> HIDE DEF q
    <3>4. http'[u] = q
      BY <3>1 DEF q
    <3> QED BY <2>2, <3>2, <3>3, <3>4, <1>2, <1>4 DEF Fits, Recalls, None
  <2>3. CASE ~(u = s /\ Leaving # {}) /\ ~(u = t /\ Loads(o) # {}) /\ Used(u) /\ o = 0
    <3> DEFINE q == [http[u] EXCEPT !.for = "load"]
    <3>1. http'[u] = q
      BY <2>3, <1>3
    <3>2. /\ q \in Ongoing /\ q.phase = http[u].phase /\ q.what = http[u].what
          /\ q.id = http[u].id /\ q.got = http[u].got
      <4>1. http[u] \in Ongoing
        BY <2>3, <1>1, RequestFields
      <4> QED BY <4>1 DEF Ongoing
    <3> HIDE DEF q
    <3>3. Fits(http[u])'
      BY <2>3, <3>1, <3>2, <1>1, <1>2, NothingMoves, StillAsked
    <3> QED BY <2>3, <3>1, <3>2, <3>3 DEF Used
  <2>4. CASE ~(u = s /\ Leaving # {}) /\ ~(u = t /\ Loads(o) # {}) /\ ~(Used(u) /\ o = 0)
    <3>1. http'[u] = http[u]
      BY <2>4, <1>3
    <3>2. Used(u) => Fits(http[u])'
      BY <3>1, <1>1, <1>2, NothingMoves, StillAsked
    <3> QED BY <3>1, <3>2, <1>1 DEF Used, ViewTypeOK
  <2> QED BY <2>1, <2>2, <2>3, <2>4
<1>7. http' \in [Slot -> Ongoing \union {Free}] /\ RequestsFit'
  <2>1. http' \in [Slot -> Ongoing \union {Free}]
    <3> DEFINE X == Ongoing \union {Free}
    <3>1. DOMAIN http' = Slot /\ http' = [u \in Slot |-> http'[u]]
      BY <1>3
    <3>2. \A u \in Slot : http'[u] \in X
      BY <1>6
    <3> HIDE DEF X
    <3>3. http' \in [Slot -> X]
      BY <3>1, <3>2
    <3> QED BY <3>3 DEF X
  <2> QED BY <2>1, <1>6 DEF RequestsFit
<1>8. ButtonsComeBack'
  <2>1. CASE o = 0
    BY <2>1, <1>2 DEF ButtonsComeBack
  <2>2. CASE o # 0
    <3> SUFFICES ASSUME NEW b \in busy
                 PROVE  \E d \in Slot : http'[d].phase # "free" /\ http'[d].for = b
      BY <2>2, <1>2 DEF ButtonsComeBack, Used
    <3>1. PICK d \in Slot : Used(d) /\ http[d].for = b
      BY <1>1 DEF ButtonsComeBack
    <3> QED BY <2>2, <3>1, <1>6 DEF Used
  <2> QED BY <2>1, <2>2
<1>9. ViewTypeOK'
  <2>1. seen' \subseteq Order
    BY <1>1, <1>2 DEF ViewTypeOK, Celebrated
  <2>2. taps' \in 0 .. MaxTaps
    <3>1. taps \in 0 .. MaxTaps /\ MaxTaps \in Nat
      BY <1>1, OrderViewsAssumption DEF ViewTypeOK
    <3>2. taps < MaxTaps /\ taps' = taps + 1
      BY <1>2
    <3> QED BY <3>1, <3>2
  <2>3. mishap' \subseteq Mishap /\ busy' \subseteq {"complete", "cancel"}
    BY <1>1, <1>2 DEF ViewTypeOK, Mishap
  <2>4. /\ view' \in {"page", "banner"} /\ view' # "banner"
        /\ actual' \in [Order -> Status \union {"absent"}] /\ route' \in Order \union {0}
        /\ shown' \in Record /\ drops' \in 0 .. MaxDrops
    BY <1>1, <1>2 DEF ViewTypeOK
  <2> QED BY <2>1, <2>2, <2>3, <2>4, <1>2, <1>5, <1>7 DEF ViewTypeOK
<1>10. AllPlaced' /\ Recalls(shown)'
  BY <1>1, <1>2 DEF AllPlaced, Recalls, Behind
<1>11. WireTells' /\ PageFollows' /\ WrongOrderOnlyWhileLoading' /\ LoneOrder' /\ BannerFollows'
  BY <1>2, <1>5 DEF WireTells, PageFollows, WrongOrderOnlyWhileLoading, LoneOrder, BannerFollows
<1>12. CelebratesTheCompleted'
  <2>1. CelebratesTheCompleted
    BY DEF ViewsInv
  <2>2. CASE seen' = seen
    BY <2>1, <2>2, <1>2 DEF CelebratesTheCompleted
  <2>3. CASE seen' # seen
    <3>1. shown.status = "COMPLETED" /\ o # 0 /\ seen' = seen \union {o}
      BY <2>3, <1>2 DEF Celebrated
    <3>2. shown.id # 0
      BY <3>1, <1>1, RecordFields DEF ViewTypeOK, None
    <3>3. shown.id = o => actual[o] = "COMPLETED"
      BY <3>1, <1>1, NothingAfterTheEnd, OrderViewsAssumption DEF Recalls, Terminal
    <3> QED BY <2>1, <3>1, <3>2, <3>3, <1>2 DEF CelebratesTheCompleted
  <2> QED BY <2>2, <2>3
<1> QED BY <1>7, <1>8, <1>9, <1>10, <1>11, <1>12 DEF ViewsInv

-----------------------------------------------------------------------------
LEMMA ViewsStart == ViewInit => ViewsInv
<1> SUFFICES ASSUME ViewInit PROVE ViewsInv
  OBVIOUS
<1>1. /\ view \in {"page", "banner"}
      /\ route = 0 /\ shown = None /\ sock = Silent /\ busy = {} /\ seen = {}
      /\ taps = 0 /\ drops = 0
      /\ http = [s \in Slot |->
                   IF view = "banner" /\ s = 1 THEN Ask("list", 0, "load") ELSE Free]
  BY DEF ViewInit
<1>2. /\ actual \in [Order -> Status \union {"absent"}]
      /\ view = "page" => \A o \in Order : actual[o] \in Status
  BY DEF ViewInit, Status
<1>3. mishap = IF \E o, p \in Active : view = "banner" /\ o # p THEN {"second"} ELSE {}
  BY DEF ViewInit
<1> DEFINE q == Ask("list", 0, "load")
<1>4. /\ q \in Ongoing /\ q.got = None /\ q.what = "list" /\ q.for = "load" /\ q.phase = "sent"
  BY DEF Ask, Ongoing, Record
<1>5. Free.phase = "free" /\ None.id = 0 /\ Silent.id = 0 /\ Silent.line = "down" /\ Silent.wire = <<>>
  BY DEF Free, None, Silent
<1> HIDE DEF q
<1>6. \A s \in Slot : http[s] = IF view = "banner" /\ s = 1 THEN q ELSE Free
  BY <1>1 DEF q
<1>7. http \in [Slot -> Ongoing \union {Free}]
  BY <1>1, <1>4, <1>6 DEF q
<1>8. ViewTypeOK
  BY <1>1, <1>2, <1>3, <1>5, <1>7, OrderViewsAssumption DEF ViewTypeOK, Mishap, Record
<1>9. RequestsFit
  BY <1>1, <1>4, <1>5, <1>6 DEF RequestsFit, Used, Fits, Recalls
<1>10. AllPlaced /\ Recalls(shown) /\ WireTells
  BY <1>1, <1>2, <1>5 DEF AllPlaced, Recalls, WireTells
<1>11. /\ PageFollows /\ WrongOrderOnlyWhileLoading /\ CelebratesTheCompleted /\ ButtonsComeBack
  BY <1>1 DEF PageFollows, WrongOrderOnlyWhileLoading, CelebratesTheCompleted, ButtonsComeBack
<1>12. LoneOrder
  BY <1>3 DEF LoneOrder
<1>13. BannerFollows
  <2>1. 1 \in Slot
    BY OrderViewsAssumption DEF Slot
  <2>2. view = "banner" => Used(1)
    BY <2>1, <1>4, <1>6 DEF Used
  <2> QED BY <2>1, <2>2, <1>4, <1>5, <1>6 DEF BannerFollows
<1> QED BY <1>8, <1>9, <1>10, <1>11, <1>12, <1>13 DEF ViewsInv

LEMMA ViewsStep == ViewsInv /\ [ViewNext]_viewVars => ViewsInv'
<1> SUFFICES ASSUME ViewsInv, [ViewNext]_viewVars PROVE ViewsInv'
  OBVIOUS
<1>1. ASSUME NEW o \in Order, StaffMoves(o) \/ Place(o) PROVE ViewsInv'
  BY <1>1, StaffKeepViews, PlaceKeepsViews
<1>2. ASSUME NEW o \in Order \union {0}, Go(o) PROVE ViewsInv'
  BY <1>2, GoKeepsViews
<1>3. ASSUME NEW what \in {"complete", "cancel"}, Tap(what) PROVE ViewsInv'
  BY <1>3, TapKeepsViews
<1>4. CASE SockOpens \/ SockDrops
  BY <1>4, SocketKeepsViews
<1>5. CASE Deliver
  <2>1. view \in {"page", "banner"}
    BY DEF ViewsInv, ViewTypeOK
  <2> QED BY <2>1, <1>5, PageHearsKeepsViews, BannerHearsKeepsViews
<1>6. CASE GivesUp
  BY <1>6, GivesUpKeepsViews
<1>7. ASSUME NEW s \in Slot, ServeRequest(s) PROVE ViewsInv'
  BY <1>7, ServerKeepsViews
<1>8. ASSUME NEW s \in Slot, ReceiveAnswer(s) PROVE ViewsInv'
  <2>1. /\ http[s].phase = "answered" /\ UNCHANGED <<view, actual, route, taps, drops>>
        /\ ReceiveGet(s) \/ ReceiveList(s) \/ ReceiveDone(s) \/ ReceiveRefused(s)
    BY <1>8 DEF ReceiveAnswer
  <2> QED BY <2>1, GetKeepsViews, ListKeepsViews, DoneKeepsViews
<1>9. ASSUME NEW s \in Slot, LoseRequest(s) PROVE ViewsInv'
  BY <1>9, LossKeepsViews
<1>10. CASE UNCHANGED viewVars
  <2>1. UNCHANGED <<view, actual, route, busy, seen, shown, sock, http, taps, drops, mishap>>
    BY <1>10 DEF viewVars, pageVars
  <2>2. http' \in [Slot -> Ongoing \union {Free}] /\ RequestsFit' /\ ButtonsComeBack' /\ BannerFollows'
    BY <2>1, RequestsRest
  <2> QED BY <2>1, <2>2, RequestsChange DEF ViewsInv, ViewTypeOK
<1> QED BY <1>1, <1>2, <1>3, <1>4, <1>5, <1>6, <1>7, <1>8, <1>9, <1>10 DEF ViewNext

LEMMA ViewsAreSound == ViewsInv => OrderViewsSound
<1> SUFFICES ASSUME ViewsInv PROVE OrderViewsSound
  OBVIOUS
<1>1. PageShowsTheOrder
  <2> SUFFICES ASSUME view = "page", route # 0, NothingOnTheWay
               PROVE  \/ shown = [id |-> route, status |-> actual[route]]
                      \/ mishap \intersect {"overtaken", "crossed"} # {}
    BY DEF PageShowsTheOrder
  <2>1. sock.id = route /\ PageFollows
    BY DEF ViewsInv, ViewTypeOK
  <2> QED BY <2>1 DEF NothingOnTheWay, PageFollows
<1>2. BannerMissesNone
  <2> SUFFICES ASSUME view = "banner", NothingOnTheWay, shown = None,
                      mishap \intersect {"second", "lost", "overtaken"} = {}
               PROVE  Active = {}
    BY DEF BannerMissesNone
  <2>1. BannerFollows
    BY DEF ViewsInv
  <2>2. \A s \in Slot : ~Used(s)
    BY DEF NothingOnTheWay, Spare
  <2>3. Active \subseteq {0}
    BY <2>1, <2>2 DEF BannerFollows, None
  <2> QED BY <2>3, OrderViewsAssumption DEF Active
<1> QED BY <1>1, <1>2 DEF ViewsInv, OrderViewsSound

(* What a customer sees of an order is right in the end, and wrong only in the  *)
(* ways named, for any orders, requests, taps and broken connections.            *)
THEOREM OrderViewsStaySound == ViewSpec => []OrderViewsSound
  BY ViewsStart, ViewsStep, ViewsAreSound, PTL DEF ViewSpec

-----------------------------------------------------------------------------
(* The inbox.  What is on its way to the copy, and what has been answered and *)
(* is still to be done to it.                                                  *)
Pushed == {pushes[i] : i \in DOMAIN pushes}
Coming == due \union Pushed
Flying(c) == calls[c].step # "idle"
Landed(c, what) == calls[c].step = "done" /\ calls[c].what \in what
Asked == \E c \in Call : Flying(c) /\ calls[c].what = "page" /\ calls[c].arg = 1
Buried(n) == \E c \in Call : Landed(c, {"wipe"}) \/ (Landed(c, {"delete"}) /\ calls[c].arg = n)
Marked(n) == \E c \in Call : Landed(c, {"all"}) \/ (Landed(c, {"read"}) /\ calls[c].arg = n)
Clear(causes) == blame \intersect causes = {}

(* A notification that is listed, announced or asked about was made; one that  *)
(* was read or deleted stays so.                                                *)
Born(n) == n \in Note /\ note[n] # "unborn"
AnswerWell(q) ==
  /\ q \in Sent
  /\ q.what = "page" => q.arg \in Nat \ {0}
  /\ q.what \in {"read", "delete"} => Born(q.arg)
  /\ \A i \in DOMAIN q.items : Born(q.items[i].id)
  /\ q.step = "done" /\ q.what = "read" => note[q.arg] # "unread"
  /\ q.step = "done" /\ q.what = "delete" => note[q.arg] = "deleted"

Fit(c) == AnswerWell(calls[c])

InboxWell ==
  /\ InboxTypeOK
  /\ "crossed" \in blame => blame = {"crossed"}
  /\ \A m, n \in Note : m < n /\ note[m] = "unborn" => note[n] = "unborn"
  /\ \A n \in Ids \union Coming : Born(n)
  /\ due \intersect Pushed = {}
  /\ \A i, j \in DOMAIN pushes : pushes[i] = pushes[j] => i = j
  /\ \A c \in Call : Flying(c) => Fit(c)
  /\ \A c, d \in Call :
       Landed(c, {"delete"}) /\ Landed(d, {"delete"}) /\ calls[c].arg = calls[d].arg => c = d

(* Unless answers crossed, what comes is unread, not listed and not asked about, *)
(* and a page that was answered is the one there is.                              *)
PageFresh(c) ==
  /\ due = {} /\ pushes = <<>>
  /\ calls[c].items = Entries(Page(calls[c].arg))
  /\ calls[c].total = Cardinality(Kept) /\ calls[c].badge = Cardinality(Unread)
  /\ \A d \in Call \ {c} : calls[d].step # "done"
NextPage(c) ==
  /\ calls[c].arg = upto + 1
  /\ Clear({"shifted"}) => Len(listed) = upto * PageSize
CallsTell ==
  Clear({"crossed"}) =>
    /\ Coming \subseteq Unread /\ Ids \intersect Coming = {}
    /\ \A c \in Call : Flying(c) =>
         /\ calls[c].what \in {"read", "delete"} => calls[c].arg \notin Coming
         /\ calls[c].what = "page" /\ calls[c].step = "done" => PageFresh(c)
         /\ calls[c].what = "page" /\ calls[c].arg > 1 => NextPage(c)

(* Unless one was lost too, the list has what is kept and what answers will take *)
(* from it, and marks what is read and what answers will mark.                    *)
EntriesTell ==
  Clear({"crossed", "lost"}) =>
    \A i \in DOMAIN listed :
      /\ listed[i].id \in Kept \/ Buried(listed[i].id)
      /\ listed[i].id \in Kept =>
           (listed[i].read \/ Marked(listed[i].id) <=> note[listed[i].id] = "read")

(* Of what is kept, what is missing above an entry is outnumbered by what is     *)
(* listed and gone.                                                                *)
Dead == {n \in Ids : n \notin Kept /\ ~Buried(n)}
Missing(n) == {m \in Kept : m > n /\ m \notin Ids \union Coming}
Reaches ==
  Clear({"missed", "unheard", "crossed"}) =>
    /\ \A c \in Call : /\ Landed(c, {"wipe"}) => Kept \subseteq Coming
                       /\ Landed(c, {"all"}) => Unread \subseteq Coming
    /\ \A n \in Coming : Missing(n) = {}
    /\ Clear({"shifted"}) =>
         /\ \A i, j \in DOMAIN listed : listed[i].id = listed[j].id => i = j
         /\ \A n \in Ids \intersect Kept : Cardinality(Missing(n)) <= Cardinality(Dead)

(* The newest come first. *)
Ordered ==
  Clear({"missed", "unheard", "crossed", "shifted", "lost", "swapped"}) =>
    /\ \A i, j \in DOMAIN listed : i < j => listed[i].id > listed[j].id
    /\ \A n \in Coming, m \in Ids : n > m
    /\ \A i, j \in DOMAIN pushes : i < j => pushes[i] < pushes[j]
    /\ \A n \in due, m \in Pushed : n > m

(* One change at a time knows what it changes, and the badge is the number of    *)
(* the unread but for what is coming and what the change will take off.           *)
OneChange ==
  Clear({"crossed", "hasty"}) => \A c, d \in InFlight(Change) : c = d
ChangeTells ==
  Clear({"crossed", "lost", "hasty"}) =>
    \A c \in InFlight(Change) :
      /\ calls[c].step = "sent" /\ calls[c].what = "read" => note[calls[c].arg] = "unread"
      /\ calls[c].what = "delete" =>
           /\ calls[c].step = "sent" =>
                note[calls[c].arg] = IF calls[c].unread THEN "unread" ELSE "read"
           /\ calls[c].arg \in Ids
           /\ \A i \in DOMAIN listed : listed[i].id = calls[c].arg => listed[i].read # calls[c].unread
Owing == {calls[c].arg : c \in {d \in Call : Landed(d, {"read"}) \/ (Landed(d, {"delete"}) /\ calls[d].unread)}}
BadgeTells ==
  Clear({"missed", "unheard", "crossed", "hasty", "lost"}) /\ ~Asked =>
    \/ Unread \subseteq Coming /\ \E c \in Call : Landed(c, {"all", "wipe"})
    \/ badge = Cardinality((Unread \ Coming) \union Owing)

(* The total is no less than what there is, and what answers will take off it.  *)
Parting == {calls[c].arg : c \in {d \in Call : side = "store" /\ Landed(d, {"delete"})}}
CountTells ==
  Clear({"missed", "unheard", "crossed", "lost", "uncounted"}) /\ ~Asked =>
    Kept \subseteq Coming \/ count >= Cardinality((Kept \ Coming) \union Parting)

WillAsk ==
  side = "store" /\ "unheard" \in blame /\ Clear({"lost"}) => link = "down" \/ Asked

InboxInv ==
  /\ InboxWell /\ CallsTell /\ EntriesTell /\ Reaches /\ Ordered
  /\ OneChange /\ ChangeTells /\ BadgeTells /\ CountTells /\ WillAsk

-----------------------------------------------------------------------------
(* Finite sets of numbers in their order. *)
Below(S, n) == Cardinality({m \in S : m <= n})

LEMMA RankIs ==
  ASSUME NEW S \in SUBSET Nat, IsFiniteSet(S), NEW n \in S
  PROVE  Below(S, n) \in 1 .. Cardinality(S)
<1>1. /\ {m \in S : m <= n} \in SUBSET S /\ {m \in S : m <= n} # {}
  OBVIOUS
<1>2. /\ IsFiniteSet({m \in S : m <= n})
      /\ Cardinality({m \in S : m <= n}) <= Cardinality(S)
  BY <1>1, FS_Subset
<1>3. Cardinality({m \in S : m <= n}) \in Nat /\ Cardinality({m \in S : m <= n}) # 0
      /\ Cardinality(S) \in Nat
  BY <1>1, <1>2, FS_CardinalityType, FS_EmptySet
<1> QED BY <1>2, <1>3 DEF Below

LEMMA RankGrows ==
  ASSUME NEW S \in SUBSET Nat, IsFiniteSet(S), NEW m \in S, NEW n \in S, m < n
  PROVE  Below(S, m) < Below(S, n)
<1> DEFINE T == {x \in S : x <= m}
           U == {x \in S : x <= n}
<1>0. m \in Nat /\ n \in Nat /\ \A x \in S : x \in Nat
  OBVIOUS
<1>1. T \in SUBSET U /\ U \in SUBSET S /\ n \in U /\ n \notin T
  <2>1. \A x \in T : x \in U
    BY <1>0
  <2>2. U \in SUBSET S /\ n \in U /\ n \notin T
    BY <1>0
  <2> QED BY <2>1, <2>2
<1>2. IsFiniteSet(U)
  BY <1>1, FS_Subset
<1>3. Cardinality(T) <= Cardinality(U) /\ Cardinality(T) # Cardinality(U) /\ IsFiniteSet(T)
  BY <1>1, <1>2, FS_Subset
<1>4. Cardinality(T) \in Nat /\ Cardinality(U) \in Nat
  BY <1>2, <1>3, FS_CardinalityType
<1> QED BY <1>3, <1>4 DEF Below

LEMMA NthIs ==
  ASSUME NEW S \in SUBSET Nat, IsFiniteSet(S), NEW k \in 1 .. Cardinality(S)
  PROVE  Nth(S, k) \in S /\ Below(S, Nth(S, k)) = k
<1> DEFINE N == Cardinality(S)
           f == [n \in S |-> Below(S, n)]
<1>1. N \in Nat /\ IsFiniteSet(1 .. N) /\ Cardinality(1 .. N) = N
  BY FS_CardinalityType, FS_Interval
<1>2. f \in Injection(S, 1 .. N)
  <2>1. f \in [S -> 1 .. N]
    BY RankIs
  <2>2. \A m, n \in S : f[m] = f[n] => m = n
    <3> SUFFICES ASSUME NEW m \in S, NEW n \in S, f[m] = f[n], m # n PROVE FALSE
      OBVIOUS
    <3>1. m < n \/ n < m
      OBVIOUS
    <3>2. Below(S, m) \in Nat /\ Below(S, n) \in Nat
      BY RankIs
    <3> QED BY <3>1, <3>2, RankGrows
  <2> QED BY <2>1, <2>2 DEF Injection, IsInjective
<1>3. f \in Surjection(S, 1 .. N)
  BY <1>1, <1>2, FS_Injection
<1>4. \E n \in S : Below(S, n) = k
  BY <1>3 DEF Surjection
<1> QED BY <1>4 DEF Nth, Below

LEMMA NthOf ==
  ASSUME NEW S \in SUBSET Nat, IsFiniteSet(S), NEW n \in S
  PROVE  Nth(S, Below(S, n)) = n
<1> DEFINE k == Below(S, n)
           m == Nth(S, k)
<1>1. k \in 1 .. Cardinality(S)
  BY RankIs
<1> HIDE DEF k
<1>2. m \in S /\ Below(S, m) = k
  BY <1>1, NthIs
<1> HIDE DEF m
<1>3. k \in Nat
  BY <1>1, FS_CardinalityType
<1>4. ~(m < n) /\ ~(n < m)
  BY <1>2, <1>3, RankGrows DEF k
<1>5. m \in Nat /\ n \in Nat
  BY <1>2
<1>6. m = n
  BY <1>4, <1>5
<1> QED BY <1>6 DEF m, k

LEMMA NthGrows ==
  ASSUME NEW S \in SUBSET Nat, IsFiniteSet(S),
         NEW j \in 1 .. Cardinality(S), NEW k \in 1 .. Cardinality(S), j < k
  PROVE  Nth(S, j) < Nth(S, k)
<1> DEFINE m == Nth(S, j)
           n == Nth(S, k)
<1>1. /\ m \in S /\ Below(S, m) = j
      /\ n \in S /\ Below(S, n) = k
  BY NthIs
<1> HIDE DEF m, n
<1>2. j \in Nat /\ k \in Nat /\ m \in Nat /\ n \in Nat
  BY <1>1, FS_CardinalityType
<1>3. ~(n < m) /\ n # m
  BY <1>1, <1>2, RankGrows
<1>4. m < n
  BY <1>2, <1>3
<1> QED BY <1>4 DEF m, n

-----------------------------------------------------------------------------
(* Lists of entries: what they list, and how they are made from sets. *)
IdsOf(s) == {s[i].id : i \in DOMAIN s}
Once(s) == \A i, j \in DOMAIN s : s[i].id = s[j].id => i = j
Falling(s) == \A i, j \in DOMAIN s : i < j => s[i].id > s[j].id
Faithful(s) == \A i \in DOMAIN s : s[i].read <=> note[s[i].id] = "read"

LEMMA ListSize ==
  ASSUME NEW s \in Seq(Entry), Once(s)
  PROVE  IsFiniteSet(IdsOf(s)) /\ Cardinality(IdsOf(s)) = Len(s)
<1> DEFINE f == [i \in 1 .. Len(s) |-> s[i].id]
<1>1. Len(s) \in Nat /\ DOMAIN s = 1 .. Len(s)
  OBVIOUS
<1>2. f \in Bijection(1 .. Len(s), IdsOf(s))
  <2>1. f \in [1 .. Len(s) -> IdsOf(s)] /\ \A i, j \in 1 .. Len(s) : f[i] = f[j] => i = j
    BY <1>1 DEF IdsOf, Once
  <2>2. \A n \in IdsOf(s) : \E i \in 1 .. Len(s) : f[i] = n
    BY <1>1 DEF IdsOf
  <2> QED BY <2>1, <2>2 DEF Bijection, Injection, IsInjective, Surjection
<1>3. IsFiniteSet(1 .. Len(s)) /\ Cardinality(1 .. Len(s)) = Len(s)
  BY <1>1, FS_Interval
<1>4. ExistsBijection(1 .. Len(s), IdsOf(s))
  BY <1>2 DEF ExistsBijection
<1> QED BY <1>3, <1>4, FS_Bijection

LEMMA NotesAre ==
  /\ Note \in SUBSET Nat /\ IsFiniteSet(Note)
  /\ \A S \in SUBSET Note : S \in SUBSET Nat /\ IsFiniteSet(S) /\ Cardinality(S) \in Nat
<1>1. Note \in SUBSET Nat /\ IsFiniteSet(Note)
  BY InboxAssumption
<1> QED BY <1>1, FS_Subset, FS_CardinalityType

LEMMA EntriesAre ==
  ASSUME NEW S \in SUBSET Note
  PROVE  /\ Entries(S) \in Seq(Entry) /\ Len(Entries(S)) = Cardinality(S)
         /\ IdsOf(Entries(S)) = S /\ Once(Entries(S)) /\ Falling(Entries(S)) /\ Faithful(Entries(S))
<1> DEFINE N == Cardinality(S)
           E == Entries(S)
           at(i) == Nth(S, N + 1 - i)
<1>1. S \in SUBSET Nat /\ IsFiniteSet(S) /\ N \in Nat
  BY NotesAre
<1> HIDE DEF N
<1>2. E = [i \in 1 .. N |-> [id |-> at(i), read |-> note[at(i)] = "read"]]
  BY DEF Entries, N
<1>3. \A i \in 1 .. N : N + 1 - i \in 1 .. Cardinality(S)
  BY <1>1 DEF N
<1>4. \A i \in 1 .. N : at(i) \in S /\ Below(S, at(i)) = N + 1 - i
  BY <1>1, <1>3, NthIs
<1>5. \A i, j \in 1 .. N : i < j => at(j) < at(i)
  <2> TAKE i, j \in 1 .. N
  <2> HAVE i < j
  <2>1. N + 1 - j \in 1 .. Cardinality(S) /\ N + 1 - i \in 1 .. Cardinality(S)
    BY <1>3
  <2>2. N + 1 - j < N + 1 - i
    BY <1>1
  <2> QED BY <1>1, <2>1, <2>2, NthGrows
<1>6. \A n \in S : \E i \in 1 .. N : at(i) = n
  <2> TAKE n \in S
  <2>1. Below(S, n) \in 1 .. N /\ Nth(S, Below(S, n)) = n
    BY <1>1, RankIs, NthOf DEF N
  <2>2. N + 1 - Below(S, n) \in 1 .. N /\ N + 1 - (N + 1 - Below(S, n)) = Below(S, n)
    BY <1>1, <2>1
  <2> QED BY <2>1, <2>2
<1> HIDE DEF at
<1>7. \A i \in 1 .. N : /\ E[i] = [id |-> at(i), read |-> note[at(i)] = "read"]
                        /\ E[i] \in Entry /\ E[i].id = at(i) /\ (E[i].read <=> note[at(i)] = "read")
  <2> TAKE i \in 1 .. N
  <2>1. E[i] = [id |-> at(i), read |-> note[at(i)] = "read"]
    BY <1>2
  <2>2. at(i) \in Note /\ (note[at(i)] = "read") \in BOOLEAN
    BY <1>4
  <2> DEFINE b == note[at(i)] = "read"
  <2>3. E[i] = [id |-> at(i), read |-> b] /\ at(i) \in Note /\ b \in BOOLEAN
    BY <2>1, <2>2
  <2> HIDE DEF b
  <2>4. E[i] \in Entry /\ E[i].id = at(i) /\ E[i].read = b
    BY <2>3 DEF Entry
  <2> QED BY <2>1, <2>4 DEF b
<1>8. E \in Seq(Entry) /\ Len(E) = N /\ DOMAIN E = 1 .. N
  BY <1>1, <1>2, <1>7
<1> HIDE DEF E
<1>9. IdsOf(E) = S
  BY <1>4, <1>6, <1>7, <1>8 DEF IdsOf
<1>10. Falling(E)
  BY <1>1, <1>4, <1>5, <1>7, <1>8 DEF Falling
<1>11. Once(E)
  <2> SUFFICES ASSUME NEW i \in 1 .. N, NEW j \in 1 .. N, at(i) = at(j), i # j PROVE FALSE
    BY <1>7, <1>8 DEF Once
  <2>1. i < j \/ j < i
    OBVIOUS
  <2>2. at(i) \in Nat /\ at(j) \in Nat
    BY <1>1, <1>4
  <2> QED BY <1>5, <2>1, <2>2
<1>12. Faithful(E)
  BY <1>7, <1>8 DEF Faithful
<1> QED BY <1>8, <1>9, <1>10, <1>11, <1>12 DEF E, N

(* There is one list of a set that falls and is marked as the table is. *)
LEMMA FallingIsEntries ==
  ASSUME NEW s \in Seq(Entry), Falling(s), Faithful(s), NEW S \in SUBSET Note, IdsOf(s) = S
  PROVE  s = Entries(S)
<1> DEFINE N == Len(s)
<1>1. N \in Nat /\ DOMAIN s = 1 .. N /\ \A i \in 1 .. N : s[i] \in Entry /\ s[i].id \in S
  BY DEF IdsOf
<1>2. Once(s)
  <2> SUFFICES ASSUME NEW i \in 1 .. N, NEW j \in 1 .. N, s[i].id = s[j].id, i # j PROVE FALSE
    BY <1>1 DEF Once
  <2>1. i < j \/ j < i
    OBVIOUS
  <2>2. s[i].id \in Nat /\ s[j].id \in Nat
    BY <1>1, NotesAre
  <2> QED BY <1>1, <2>1, <2>2 DEF Falling
<1>3. Cardinality(S) = N /\ S \in SUBSET Nat /\ IsFiniteSet(S)
  BY <1>2, ListSize, NotesAre
<1> HIDE DEF N
<1>4. ASSUME NEW i \in 1 .. N PROVE Below(S, s[i].id) = N + 1 - i
  <2> DEFINE T == {m \in S : m <= s[i].id}
             f == [j \in i .. N |-> s[j].id]
  <2>1. \A j \in i .. N : j \in 1 .. N
    BY <1>1
  <2>2. \A j \in 1 .. N : s[j].id <= s[i].id <=> j \in i .. N
    <3> TAKE j \in 1 .. N
    <3>1. s[j].id \in Nat /\ s[i].id \in Nat
      BY <1>1, <1>3
    <3>2. CASE j < i
      BY <1>1, <3>1, <3>2 DEF Falling
    <3>3. CASE j = i
      BY <1>1, <3>1, <3>3
    <3>4. CASE i < j
      BY <1>1, <3>1, <3>4 DEF Falling
    <3> QED BY <3>2, <3>3, <3>4
  <2>3. f \in Bijection(i .. N, T)
    <3>1. f \in [i .. N -> T]
      BY <1>1, <2>1, <2>2
    <3>2. \A j, k \in i .. N : f[j] = f[k] => j = k
      BY <1>1, <1>2, <2>1 DEF Once
    <3>3. \A m \in T : \E j \in i .. N : f[j] = m
      BY <1>1, <2>2 DEF IdsOf
    <3> QED BY <3>1, <3>2, <3>3 DEF Bijection, Injection, IsInjective, Surjection
  <2>4. IsFiniteSet(i .. N) /\ Cardinality(i .. N) = N + 1 - i
    BY <1>1, FS_Interval
  <2>5. ExistsBijection(i .. N, T)
    BY <2>3 DEF ExistsBijection
  <2> HIDE DEF T
  <2>6. Cardinality(T) = N + 1 - i
    BY <2>4, <2>5, FS_Bijection
  <2> QED BY <2>6 DEF Below, T
<1>5. \A i \in 1 .. N : Nth(S, N + 1 - i) = s[i].id
  <2> TAKE i \in 1 .. N
  <2>1. Nth(S, Below(S, s[i].id)) = s[i].id
    BY <1>1, <1>3, NthOf
  <2> QED BY <1>4, <2>1
<1>6. \A i \in 1 .. N : s[i] = [id |-> s[i].id, read |-> note[s[i].id] = "read"]
  <2> TAKE i \in 1 .. N
  <2>1. s[i] = [id |-> s[i].id, read |-> s[i].read] /\ s[i].read \in BOOLEAN
    BY <1>1 DEF Entry
  <2>2. s[i].read = (note[s[i].id] = "read")
    BY <1>1, <2>1 DEF Faithful
  <2> QED BY <2>1, <2>2
<1>7. Entries(S) = [i \in 1 .. N |-> s[i]]
  BY <1>3, <1>5, <1>6 DEF Entries
<1>8. s = [i \in 1 .. N |-> s[i]]
  BY <1>1
<1> QED BY <1>7, <1>8

(* The newest of what is kept. *)
Height(n) == Cardinality({m \in Kept : m >= n})

LEMMA KeptAre ==
  /\ Kept \in SUBSET Note /\ Unread \in SUBSET Kept
  /\ \A S \in SUBSET Kept : S \in SUBSET Note /\ S \in SUBSET Nat /\ IsFiniteSet(S)
       /\ Cardinality(S) \in Nat
<1>1. Kept \in SUBSET Note /\ Unread \in SUBSET Kept
  BY DEF Kept, Unread
<1> QED BY <1>1, NotesAre

LEMMA HeightFalls ==
  ASSUME NEW m \in Kept, NEW n \in Kept, m < n
  PROVE  Height(n) < Height(m)
<1> DEFINE T == {x \in Kept : x >= n}
           U == {x \in Kept : x >= m}
<1>1. Kept \in SUBSET Kept
  OBVIOUS
<1>2. m \in Nat /\ n \in Nat /\ \A x \in Kept : x \in Nat
  BY <1>1, KeptAre
<1>3. \A x \in T : x \in U
  BY <1>2
<1>4. U \in SUBSET Kept /\ m \in U /\ m \notin T
  BY <1>2
<1>5. IsFiniteSet(U) /\ T \in SUBSET U
  BY <1>3, <1>4, KeptAre
<1>6. Cardinality(T) <= Cardinality(U) /\ Cardinality(T) # Cardinality(U) /\ IsFiniteSet(T)
  BY <1>4, <1>5, FS_Subset
<1>7. Cardinality(T) \in Nat /\ Cardinality(U) \in Nat
  BY <1>5, <1>6, FS_CardinalityType
<1> QED BY <1>6, <1>7 DEF Height

LEMMA HeightIs ==
  ASSUME NEW n \in Kept
  PROVE  Height(n) \in 1 .. Cardinality(Kept) /\ Height(n) \in Nat /\ n \in Nat
<1> DEFINE T == {x \in Kept : x >= n}
<1>1. Kept \in SUBSET Kept /\ T \in SUBSET Kept
  OBVIOUS
<1>2. n \in Nat /\ IsFiniteSet(Kept) /\ Cardinality(Kept) \in Nat
  BY <1>1, KeptAre
<1>3. n \in T
  BY <1>2
<1>4. IsFiniteSet(T) /\ Cardinality(T) \in Nat /\ Cardinality(T) <= Cardinality(Kept)
  BY <1>1, <1>2, KeptAre, FS_Subset
<1>5. Cardinality(T) # 0
  BY <1>3, <1>4, FS_EmptySet
<1> QED BY <1>2, <1>4, <1>5 DEF Height

LEMMA NewestAre ==
  ASSUME NEW k \in Nat
  PROVE  /\ Newest(k) \in SUBSET Kept /\ IsFiniteSet(Newest(k))
         /\ Cardinality(Newest(k)) \in Nat /\ Cardinality(Newest(k)) <= k
         /\ \A n \in Kept : n \in Newest(k) <=> Height(n) <= k
         /\ \A n \in Newest(k), m \in Kept : m > n => m \in Newest(k)
<1>1. Newest(k) = {n \in Kept : Height(n) <= k}
  BY DEF Newest, Height
<1>2. Newest(k) \in SUBSET Kept
  BY <1>1
<1>3. IsFiniteSet(Newest(k)) /\ Cardinality(Newest(k)) \in Nat
  BY <1>2, KeptAre
<1>4. Cardinality(Newest(k)) <= k
  <2> DEFINE f == [n \in Newest(k) |-> Height(n)]
  <2>1. f \in [Newest(k) -> 1 .. k]
    BY <1>1, <1>2, HeightIs
  <2>2. \A m, n \in Newest(k) : f[m] = f[n] => m = n
    <3> SUFFICES ASSUME NEW m \in Newest(k), NEW n \in Newest(k), Height(m) = Height(n), m # n
                 PROVE  FALSE
      OBVIOUS
    <3>1. m \in Kept /\ n \in Kept
      BY <1>2
    <3>2. m \in Nat /\ n \in Nat /\ Height(m) \in Nat /\ Height(n) \in Nat
      BY <3>1, HeightIs
    <3>3. m < n \/ n < m
      BY <3>2
    <3> QED BY <3>1, <3>2, <3>3, HeightFalls
  <2>3. f \in Injection(Newest(k), 1 .. k)
    BY <2>1, <2>2 DEF Injection, IsInjective
  <2>4. IsFiniteSet(1 .. k) /\ Cardinality(1 .. k) = k
    BY FS_Interval
  <2> HIDE DEF f
  <2> QED BY <2>3, <2>4, FS_Injection
<1>5. \A n \in Newest(k), m \in Kept : m > n => m \in Newest(k)
  <2> SUFFICES ASSUME NEW n \in Newest(k), NEW m \in Kept, m > n PROVE m \in Newest(k)
    OBVIOUS
  <2>1. n \in Kept /\ Height(n) <= k
    BY <1>1
  <2>2. n \in Nat /\ m \in Nat /\ Height(m) \in Nat /\ Height(n) \in Nat
    BY <2>1, HeightIs
  <2>3. Height(m) < Height(n)
    BY <2>1, <2>2, HeightFalls
  <2> QED BY <1>1, <2>1, <2>2, <2>3
<1> QED BY <1>1, <1>2, <1>3, <1>4, <1>5

LEMMA NewestNone == Newest(0) = {}
<1> SUFFICES ASSUME NEW n \in Newest(0) PROVE FALSE
  OBVIOUS
<1>1. n \in Kept /\ Height(n) <= 0
  BY DEF Newest, Height
<1> QED BY <1>1, HeightIs

(* What has nothing missing above it is the newest. *)
LEMMA UpIsNewest ==
  ASSUME NEW T \in SUBSET Kept, \A n \in T, m \in Kept : m > n => m \in T
  PROVE  T = Newest(Cardinality(T))
<1>1. IsFiniteSet(T) /\ Cardinality(T) \in Nat
  BY KeptAre
<1>2. ASSUME NEW n \in T PROVE Height(n) <= Cardinality(T)
  <2> DEFINE U == {m \in Kept : m >= n}
  <2>0. n \in Kept /\ n \in Nat /\ \A m \in Kept : m \in Nat
    BY HeightIs
  <2>1. \A m \in U : m \in T
    BY <2>0
  <2>2. U \in SUBSET T
    BY <2>1
  <2> HIDE DEF U
  <2>3. Cardinality(U) <= Cardinality(T)
    BY <1>1, <2>2, FS_Subset
  <2> QED BY <2>3 DEF U, Height
<1>3. ASSUME NEW n \in Kept, n \notin T PROVE Height(n) > Cardinality(T)
  <2> DEFINE U == {m \in Kept : m >= n}
  <2>0. n \in Nat /\ \A m \in Kept : m \in Nat
    BY HeightIs
  <2>1. T \union {n} \in SUBSET U
    BY <1>3, <2>0
  <2>2. IsFiniteSet(U) /\ Cardinality(U) \in Nat
    BY KeptAre
  <2> HIDE DEF U
  <2>3. /\ Cardinality(T \union {n}) = Cardinality(T) + 1
        /\ Cardinality(T \union {n}) <= Cardinality(U)
    BY <1>1, <1>3, <2>1, <2>2, FS_AddElement, FS_Subset
  <2>4. Cardinality(U) > Cardinality(T)
    BY <1>1, <2>2, <2>3
  <2> QED BY <2>4 DEF U, Height
<1> DEFINE N == Newest(Cardinality(T))
<1>4. \A n \in Kept : n \in N <=> Height(n) <= Cardinality(T)
  BY <1>1, NewestAre
<1>5. N \in SUBSET Kept
  BY <1>1, NewestAre
<1> HIDE DEF N
<1>6. \A n \in Kept : Height(n) \in Nat
  BY HeightIs
<1>7. \A n \in Kept : n \in N <=> n \in T
  BY <1>1, <1>2, <1>3, <1>4, <1>6
<1>8. T = N
  BY <1>5, <1>7
<1> QED BY <1>8 DEF N

(* The list without an entry. *)
LEMMA WithoutIs ==
  ASSUME listed \in Seq(Entry), NEW n
  PROVE  /\ Without(n) \in Seq(Entry) /\ IdsOf(Without(n)) = Ids \ {n}
         /\ \E h \in [DOMAIN Without(n) -> DOMAIN listed] :
              /\ \A k \in DOMAIN Without(n) : Without(n)[k] = listed[h[k]]
              /\ \A j, k \in DOMAIN Without(n) : j < k => h[j] < h[k]
<1> DEFINE L == Left(n)
           N == Cardinality(L)
           W == Without(n)
           h == [k \in 1 .. N |-> Nth(L, k)]
<1>1. Len(listed) \in Nat /\ DOMAIN listed = 1 .. Len(listed)
      /\ \A i \in DOMAIN listed : listed[i] \in Entry
  OBVIOUS
<1>2. /\ L \in SUBSET (1 .. Len(listed)) /\ L \in SUBSET Nat
      /\ \A i \in DOMAIN listed : i \in L <=> listed[i].id # n
  BY <1>1 DEF Left
<1>3. IsFiniteSet(1 .. Len(listed))
  BY <1>1, FS_Interval
<1> HIDE DEF L
<1>4. IsFiniteSet(L) /\ N \in Nat
  BY <1>2, <1>3, FS_Subset, FS_CardinalityType
<1>5. W = [k \in 1 .. N |-> listed[Nth(L, k)]]
  BY DEF Without, L
<1>6. \A k \in 1 .. N : Nth(L, k) \in L
  BY <1>2, <1>4, NthIs
<1>7. \A j, k \in 1 .. N : j < k => Nth(L, j) < Nth(L, k)
  BY <1>2, <1>4, NthGrows
<1>8. \A i \in L : Below(L, i) \in 1 .. N /\ Nth(L, Below(L, i)) = i
  BY <1>2, <1>4, RankIs, NthOf
<1> HIDE DEF N, W
<1>9. DOMAIN W = 1 .. N /\ W \in Seq(Entry)
  <2>1. \A k \in 1 .. N : listed[Nth(L, k)] \in Entry
    BY <1>1, <1>2, <1>6
  <2>2. W \in [1 .. N -> Entry]
    BY <1>5, <2>1
  <2> QED BY <1>4, <2>2
<1>10. h \in [1 .. N -> DOMAIN listed] /\ \A k \in 1 .. N : h[k] = Nth(L, k) /\ h[k] \in L
  BY <1>1, <1>2, <1>6
<1>11. \A k \in 1 .. N : W[k] = listed[h[k]]
  BY <1>5
<1>12. \A i \in L : \E k \in 1 .. N : h[k] = i
  BY <1>8
<1>13. \A j, k \in 1 .. N : j < k => h[j] < h[k]
  BY <1>7
<1> HIDE DEF h
<1>14. IdsOf(W) = Ids \ {n}
  <2>1. ASSUME NEW k \in 1 .. N PROVE W[k].id \in Ids \ {n}
    BY <1>1, <1>2, <1>10, <1>11 DEF Ids
  <2>2. ASSUME NEW m \in Ids \ {n} PROVE \E k \in 1 .. N : W[k].id = m
    <3>1. PICK i \in DOMAIN listed : listed[i].id = m
      BY DEF Ids
    <3>2. i \in L
      BY <1>2, <3>1
    <3> QED BY <1>11, <1>12, <3>1, <3>2
  <2> QED BY <1>9, <2>1, <2>2 DEF IdsOf
<1>15. \E g \in [DOMAIN W -> DOMAIN listed] :
         /\ \A k \in DOMAIN W : W[k] = listed[g[k]]
         /\ \A j, k \in DOMAIN W : j < k => g[j] < g[k]
  BY <1>9, <1>10, <1>11, <1>13
<1> QED BY <1>9, <1>14, <1>15 DEF W

LEMMA WithoutKeeps ==
  ASSUME listed \in Seq(Entry), NEW n
  PROVE  /\ Once(listed) => Once(Without(n))
         /\ Falling(listed) => Falling(Without(n))
         /\ \A k \in DOMAIN Without(n) : \E i \in DOMAIN listed :
              Without(n)[k] = listed[i] /\ listed[i].id # n
<1> DEFINE W == Without(n)
<1>1. PICK h \in [DOMAIN W -> DOMAIN listed] :
         /\ \A k \in DOMAIN W : W[k] = listed[h[k]]
         /\ \A j, k \in DOMAIN W : j < k => h[j] < h[k]
  BY WithoutIs
<1>2. W \in Seq(Entry) /\ IdsOf(W) = Ids \ {n}
  BY WithoutIs
<1> HIDE DEF W
<1>3. DOMAIN W = 1 .. Len(W) /\ Len(W) \in Nat /\ DOMAIN listed = 1 .. Len(listed)
  BY <1>2
<1>4. ASSUME Once(listed) PROVE Once(W)
  <2> SUFFICES ASSUME NEW j \in DOMAIN W, NEW k \in DOMAIN W, W[j].id = W[k].id, j # k PROVE FALSE
    BY DEF Once
  <2>1. h[j] = h[k]
    BY <1>1, <1>4 DEF Once
  <2>2. j < k \/ k < j
    BY <1>3
  <2>3. h[j] \in Nat /\ h[k] \in Nat
    BY <1>3
  <2> QED BY <1>1, <2>1, <2>2, <2>3
<1>5. ASSUME Falling(listed) PROVE Falling(W)
  BY <1>1, <1>5 DEF Falling
<1>6. \A k \in DOMAIN W : W[k].id # n
  BY <1>2 DEF IdsOf
<1>7. \A k \in DOMAIN W : \E i \in DOMAIN listed : W[k] = listed[i] /\ listed[i].id # n
  BY <1>1, <1>6
<1> QED BY <1>4, <1>5, <1>7 DEF W

-----------------------------------------------------------------------------
(* Slots and blame. *)
LEMMA BoundsOfInbox ==
  /\ PageSize \in Nat \ {0} /\ Calls \in Nat \ {0} /\ MaxPresses \in Nat /\ MaxBreaks \in Nat
BY InboxAssumption

LEMMA SlotIs ==
  ASSUME InboxTypeOK, NEW c \in Call
  PROVE  /\ ~Flying(c) => calls[c] = Idle
         /\ Flying(c) => /\ calls[c] \in Sent /\ calls[c].step \in {"sent", "done"}
                         /\ calls[c].what \in {"page"} \union Change
                         /\ calls[c].arg \in Nat /\ calls[c].unread \in BOOLEAN
                         /\ calls[c].items \in Seq(Entry) /\ calls[c].total \in Nat
                         /\ calls[c].badge \in Nat
         /\ calls[c].step = "idle" <=> ~Flying(c)
<1>1. calls[c] \in Sent \union {Idle}
  BY DEF InboxTypeOK
<1>2. CASE calls[c] = Idle
  BY <1>2 DEF Idle, Flying
<1>3. CASE calls[c] \in Sent
  <2>1. Note \union Nat = Nat
    BY NotesAre
  <2>2. calls[c] \in [step : {"sent", "done"}, what : {"page"} \union Change,
         arg : Nat, unread : BOOLEAN, items : Seq(Entry), total : Nat, badge : Nat]
    BY <1>3, <2>1 DEF Sent
  <2> QED BY <1>3, <2>2 DEF Flying
<1> QED BY <1>1, <1>2, <1>3

Blames(causes) ==
  blame' = IF "crossed" \in blame \union causes THEN {"crossed"} ELSE blame \union causes
Grown == blame' = {"crossed"} \/ ("crossed" \notin blame /\ blame \subseteq blame')

LEMMA BlameIs ==
  ASSUME InboxWell, NEW causes \in SUBSET Blame, Blames(causes)
  PROVE  /\ Grown /\ blame' \subseteq Blame /\ ("crossed" \in blame' => blame' = {"crossed"})
         /\ "crossed" \notin blame' =>
              blame' = blame \union causes /\ "crossed" \notin causes /\ "crossed" \notin blame
<1>1. blame \subseteq Blame /\ "crossed" \in Blame
  BY DEF InboxWell, InboxTypeOK, Blame
<1> QED BY <1>1 DEF Blames, Grown

LEMMA BlameRests ==
  ASSUME InboxWell, blame' = blame
  PROVE  Grown /\ blame' \subseteq Blame /\ ("crossed" \in blame' => blame' = {"crossed"})
BY DEF InboxWell, InboxTypeOK, Grown

LEMMA ClearWas ==
  ASSUME Grown, NEW causes, "crossed" \in causes, Clear(causes)'
  PROVE  Clear(causes) /\ "crossed" \notin blame /\ "crossed" \notin blame'
         /\ blame \subseteq blame'
BY DEF Grown, Clear

(* The changes that were answered and are still to be received. *)
SameAnswers ==
  /\ side' = side
  /\ \A d \in Call : /\ Landed(d, Change)' <=> Landed(d, Change)
                     /\ Landed(d, Change) => calls'[d] = calls[d]

LEMMA AnswersRest ==
  ASSUME SameAnswers
  PROVE  /\ \A n : (Buried(n)' <=> Buried(n)) /\ (Marked(n)' <=> Marked(n))
         /\ \A d \in Call : \A S \in SUBSET Change : Landed(d, S)' <=> Landed(d, S)
         /\ Owing' = Owing /\ Parting' = Parting
<1>1. \A d \in Call : \A S \in SUBSET Change : Landed(d, S)' <=> Landed(d, S)
  BY DEF SameAnswers, Landed
<1>2. \A d \in Call : \A S \in SUBSET Change : Landed(d, S) => calls'[d] = calls[d]
  BY DEF SameAnswers, Landed
<1>3. /\ {"wipe"} \in SUBSET Change /\ {"delete"} \in SUBSET Change
      /\ {"all"} \in SUBSET Change /\ {"read"} \in SUBSET Change
  BY DEF Change
<1>4. \A n : (Buried(n)' <=> Buried(n)) /\ (Marked(n)' <=> Marked(n))
  BY <1>1, <1>2, <1>3 DEF Buried, Marked
<1>5. Owing' = Owing
  BY <1>1, <1>2, <1>3 DEF Owing
<1>6. Parting' = Parting
  BY <1>1, <1>2, <1>3 DEF Parting, SameAnswers
<1> QED BY <1>1, <1>4, <1>5, <1>6

(* What is missing and what is dead, if the answers to come are the same. *)
LEMMA GapsRest ==
  ASSUME SameAnswers, listed' = listed, note' = note, Coming' = Coming
  PROVE  Dead' = Dead /\ \A n : Missing(n)' = Missing(n)
<1>1. Ids' = Ids /\ Kept' = Kept
  BY DEF Ids, Kept
<1>2. Dead' = Dead
  BY <1>1, AnswersRest DEF Dead
<1>3. \A n : Missing(n)' = Missing(n)
  BY <1>1 DEF Missing
<1> QED BY <1>2, <1>3

-----------------------------------------------------------------------------
(* Asking.  A request is put into a free slot. *)
LEMMA SlotFree ==
  ASSUME CanCall
  PROVE  FreeCall \in Call /\ calls[FreeCall].step = "idle"
BY DEF CanCall, FreeCall

(* A new request is about what is listed and as it is listed. *)
Fetches(q) ==
  /\ q \in Sent /\ q.step = "sent" /\ q.items = <<>>
  /\ q.what = "page" => q.arg \in Nat \ {0}
  /\ q.what = "page" /\ q.arg > 1 /\ "crossed" \notin blame' =>
       q.arg = upto + 1 /\ ("shifted" \notin blame' => Len(listed) = upto * PageSize)
  /\ q.what \in {"read", "delete"} => \E i \in DOMAIN listed :
       listed[i].id = q.arg /\ q.unread = ~listed[i].read /\ (q.what = "read" => q.unread)
  /\ q.what \in Change => InFlight(Change) = {} \/ "hasty" \in blame' \/ "crossed" \in blame'

(* The copy and the table rest, and what was answered is still to be received. *)
Resting ==
  /\ InboxInv /\ SameAnswers /\ Grown
  /\ note' = note /\ due' = due /\ pushes' = pushes
  /\ listed' = listed /\ badge' = badge /\ count' = count /\ upto' = upto
  /\ Asked => Asked'

LEMMA RestingKeeps ==
  ASSUME Resting
  PROVE  EntriesTell' /\ Reaches' /\ Ordered' /\ BadgeTells' /\ CountTells'
<1>1. /\ Ids' = Ids /\ Kept' = Kept /\ Unread' = Unread /\ Coming' = Coming /\ Pushed' = Pushed
      /\ Dead' = Dead /\ (\A n : Missing(n)' = Missing(n))
      /\ listed' = listed /\ note' = note /\ due' = due /\ pushes' = pushes /\ badge' = badge
      /\ count' = count /\ Grown
  <2>1. Coming' = Coming /\ Pushed' = Pushed
    BY DEF Resting, Coming, Pushed
  <2>2. Ids' = Ids /\ Kept' = Kept /\ Unread' = Unread
    BY DEF Resting, Ids, Kept, Unread
  <2>3. Dead' = Dead /\ \A n : Missing(n)' = Missing(n)
    BY <2>1, GapsRest DEF Resting
  <2> QED BY <2>1, <2>2, <2>3 DEF Resting
<1>2. /\ \A n : (Buried(n)' <=> Buried(n)) /\ (Marked(n)' <=> Marked(n))
      /\ \A d \in Call : (Landed(d, {"wipe"})' <=> Landed(d, {"wipe"}))
           /\ (Landed(d, {"all"})' <=> Landed(d, {"all"}))
           /\ (Landed(d, {"all", "wipe"})' <=> Landed(d, {"all", "wipe"}))
      /\ Owing' = Owing /\ Parting' = Parting
  BY AnswersRest DEF Resting, Change
<1>3. \A S : Clear(S)' /\ "crossed" \in S => Clear(S)
  BY <1>1, ClearWas
<1>4. EntriesTell'
  BY <1>1, <1>2, <1>3 DEF Resting, InboxInv, EntriesTell
<1>5. Reaches'
  BY <1>1, <1>2, <1>3, ClearWas DEF Resting, InboxInv, Reaches, Clear
<1>6. Ordered'
  BY <1>1, <1>3 DEF Resting, InboxInv, Ordered
<1>7. BadgeTells'
  BY <1>1, <1>2, <1>3 DEF Resting, InboxInv, BadgeTells
<1>8. CountTells'
  BY <1>1, <1>2, <1>3 DEF Resting, InboxInv, CountTells
<1> QED BY <1>4, <1>5, <1>6, <1>7, <1>8

SendHyp(q) ==
  /\ InboxInv /\ CanCall /\ Fetches(q)
  /\ calls' = [calls EXCEPT ![FreeCall] = q]
  /\ Grown /\ blame' \subseteq Blame /\ ("crossed" \in blame' => blame' = {"crossed"})
  /\ "unheard" \in blame' => "unheard" \in blame
  /\ "lost" \in blame /\ "unheard" \in blame' => "lost" \in blame'
  /\ link' \in {"down", "open", "on"} /\ (link' = link \/ (q.what = "page" /\ q.arg = 1))
  /\ presses' \in 0 .. MaxPresses /\ breaks' \in 0 .. MaxBreaks
  /\ UNCHANGED <<side, note, due, pushes, listed, badge, count, upto>>

LEMMA SendRests ==
  ASSUME NEW q, SendHyp(q)
  PROVE  /\ Resting
         /\ FreeCall \in Call /\ ~Flying(FreeCall) /\ calls'[FreeCall] = q
         /\ \A d \in Call : d # FreeCall => calls'[d] = calls[d]
         /\ Asked' <=> Asked \/ (q.what = "page" /\ q.arg = 1)
<1>1. FreeCall \in Call /\ calls[FreeCall].step = "idle"
  BY SlotFree DEF SendHyp
<1> DEFINE f == FreeCall
<1> HIDE DEF f
<1>2. DOMAIN calls = Call /\ calls' = [calls EXCEPT ![f] = q] /\ q.step = "sent"
  BY DEF SendHyp, InboxInv, InboxWell, InboxTypeOK, Fetches, f
<1>3. f \in Call /\ calls[f].step = "idle"
  BY <1>1 DEF f
<1>4. calls'[f] = q /\ \A d \in Call : d # f => calls'[d] = calls[d]
  BY <1>2, <1>3
<1>5. SameAnswers
  BY <1>2, <1>3, <1>4 DEF SameAnswers, SendHyp, Landed
<1>6. \A d \in Call : Flying(d)' <=> Flying(d) \/ d = f
  BY <1>2, <1>3, <1>4 DEF Flying
<1>7. Asked' <=> Asked \/ (q.what = "page" /\ q.arg = 1)
  BY <1>3, <1>4, <1>6 DEF Asked, Flying
<1>8. Resting
  BY <1>5, <1>7 DEF Resting, SendHyp
<1>9. ~Flying(f)
  BY <1>3 DEF Flying
<1> QED BY <1>3, <1>4, <1>7, <1>8, <1>9 DEF f

LEMMA SendKeeps ==
  ASSUME NEW q, SendHyp(q)
  PROVE  InboxInv'
<1>0. PICK f \in Call :
      /\ Resting /\ ~Flying(f) /\ calls'[f] = q
      /\ \A d \in Call : d # f => calls'[d] = calls[d]
      /\ Asked' <=> Asked \/ (q.what = "page" /\ q.arg = 1)
  BY SendRests
<1>1. /\ EntriesTell' /\ Reaches' /\ Ordered' /\ BadgeTells' /\ CountTells'
  BY <1>0, RestingKeeps
<1>2. /\ note' = note /\ due' = due /\ pushes' = pushes /\ listed' = listed /\ upto' = upto
      /\ badge' = badge /\ count' = count /\ side' = side
      /\ Ids' = Ids /\ Coming' = Coming /\ Kept' = Kept /\ Unread' = Unread /\ Pushed' = Pushed
  BY DEF SendHyp, Ids, Coming, Pushed, Kept, Unread
<1>3. InboxWell /\ CallsTell /\ EntriesTell /\ OneChange /\ ChangeTells /\ WillAsk /\ Grown
      /\ Fetches(q)
  BY DEF SendHyp, InboxInv
<1>4. \A d \in Call : Flying(d)' <=> Flying(d) \/ d = f
  BY <1>0, <1>3 DEF Flying, Fetches
<1>5. SameAnswers
  BY <1>0 DEF Resting
<1>6. \A d \in Call : \A S \in SUBSET Change : Landed(d, S)' <=> Landed(d, S)
  BY <1>5, AnswersRest
<1>7. \A S : Clear(S)' /\ "crossed" \in S => Clear(S)
  BY <1>3, ClearWas
<1>8. InboxWell'
  <2>1. InboxTypeOK'
    <3>1. calls' \in [Call -> Sent \union {Idle}]
      BY <1>3 DEF SendHyp, InboxWell, InboxTypeOK, Fetches
    <3> QED BY <3>1, <1>2, <1>3 DEF SendHyp, InboxWell, InboxTypeOK
  <2>2. \A m, n \in Note : m < n /\ note'[m] = "unborn" => note'[n] = "unborn"
    BY <1>2, <1>3 DEF InboxWell
  <2>3. \A n : Born(n)' <=> Born(n)
    BY <1>2 DEF Born
  <2>4. \A d \in Call : Flying(d)' => Fit(d)'
    <3>1. ASSUME NEW d \in Call, d # f, Flying(d)' PROVE Fit(d)'
      <4>1. Fit(d) /\ calls'[d] = calls[d]
        BY <1>0, <1>3, <1>4, <3>1 DEF InboxWell
      <4> QED BY <4>1, <1>2, <2>3 DEF Fit, AnswerWell
    <3>2. Fit(f)'
      <4>1. q.what \in {"read", "delete"} => Born(q.arg)
        <5>1. \A i \in DOMAIN listed : Born(listed[i].id)
          BY <1>3 DEF InboxWell, Ids
        <5> QED BY <1>3, <5>1 DEF Fetches
      <4>2. DOMAIN q.items = {} /\ q.step = "sent" /\ q \in Sent
            /\ (q.what = "page" => q.arg \in Nat \ {0})
        BY <1>3 DEF Fetches
      <4> QED BY <4>1, <4>2, <2>3, <1>0, <1>2 DEF Fit, AnswerWell
    <3> QED BY <1>0, <3>1, <3>2
  <2>5. \A c, d \in Call :
       Landed(c, {"delete"})' /\ Landed(d, {"delete"})' /\ calls'[c].arg = calls'[d].arg => c = d
    <3>1. ASSUME NEW c \in Call, Landed(c, {"delete"})' PROVE calls'[c] = calls[c]
      BY <3>1, <1>5 DEF SameAnswers, Landed, Change
    <3>2. {"delete"} \in SUBSET Change
      BY DEF Change
    <3> QED BY <3>1, <3>2, <1>3, <1>6 DEF InboxWell
  <2>6. "crossed" \in blame' => blame' = {"crossed"}
    BY DEF SendHyp
  <2>7. (\A n \in Ids' \union Coming' : Born(n)') /\ due' \intersect Pushed' = {}
        /\ \A i, j \in DOMAIN pushes' : pushes'[i] = pushes'[j] => i = j
    BY <1>2, <1>3, <2>3 DEF InboxWell
  <2> QED BY <2>1, <2>2, <2>4, <2>5, <2>6, <2>7 DEF InboxWell
<1>9. CallsTell'
  <2> SUFFICES ASSUME Clear({"crossed"})' PROVE
       /\ Coming' \subseteq Unread' /\ Ids' \intersect Coming' = {}
       /\ \A c \in Call : Flying(c)' =>
         /\ calls'[c].what \in {"read", "delete"} => calls'[c].arg \notin Coming'
         /\ calls'[c].what = "page" /\ calls'[c].step = "done" => PageFresh(c)'
         /\ calls'[c].what = "page" /\ calls'[c].arg > 1 => NextPage(c)'
    BY DEF CallsTell
  <2>1. Clear({"crossed"}) /\ "crossed" \notin blame' /\ blame \subseteq blame'
    BY <1>3, ClearWas
  <2>2. Coming \subseteq Unread /\ Ids \intersect Coming = {}
    BY <2>1, <1>3 DEF CallsTell
  <2>3. ASSUME NEW c \in Call, Flying(c)', c # f
        PROVE /\ calls'[c].what \in {"read", "delete"} => calls'[c].arg \notin Coming
              /\ calls'[c].what = "page" /\ calls'[c].step = "done" => PageFresh(c)'
              /\ calls'[c].what = "page" /\ calls'[c].arg > 1 => NextPage(c)'
    <3>1. calls'[c] = calls[c] /\ Flying(c)
      BY <1>0, <1>4, <2>3
    <3>2. /\ calls[c].what \in {"read", "delete"} => calls[c].arg \notin Coming
          /\ calls[c].what = "page" /\ calls[c].step = "done" => PageFresh(c)
          /\ calls[c].what = "page" /\ calls[c].arg > 1 => NextPage(c)
      BY <2>1, <3>1, <1>3 DEF CallsTell
    <3>3. ASSUME PageFresh(c) PROVE PageFresh(c)'
      <4>1. Entries(Page(calls[c].arg))' = Entries(Page(calls[c].arg))
        BY <1>2, <3>1 DEF Entries, Page, Newest, Kept
      <4>2. \A d \in Call \ {c} : calls'[d].step # "done"
        BY <1>0, <1>3, <3>3 DEF PageFresh, Fetches
      <4> QED BY <1>2, <3>1, <3>3, <4>1, <4>2 DEF PageFresh
    <3>4. ASSUME NextPage(c) PROVE NextPage(c)'
      BY <1>2, <2>1, <3>1, <3>4 DEF NextPage, Clear
    <3> QED BY <3>1, <3>2, <3>3, <3>4
  <2>4. /\ q.what \in {"read", "delete"} => q.arg \notin Coming
        /\ q.step # "done"
        /\ q.what = "page" /\ q.arg > 1 => NextPage(f)'
    <3>1. q.what \in {"read", "delete"} => q.arg \in Ids
      BY <1>3 DEF Fetches, Ids
    <3>2. q.what = "page" /\ q.arg > 1 => NextPage(f)'
      BY <1>0, <1>2, <1>3, <2>1 DEF NextPage, Fetches, Clear
    <3> QED BY <3>1, <3>2, <2>2, <1>3 DEF Fetches
  <2> QED BY <1>0, <1>2, <2>2, <2>3, <2>4
<1>10. OneChange'
  <2> SUFFICES ASSUME Clear({"crossed", "hasty"})', NEW c \in InFlight(Change)', NEW d \in InFlight(Change)'
               PROVE  c = d
    BY DEF OneChange
  <2>1. Clear({"crossed", "hasty"}) /\ "crossed" \notin blame' /\ "hasty" \notin blame'
    BY <1>7 DEF Clear
  <2>2. \A e \in Call : e \in InFlight(Change)' <=>
           e \in InFlight(Change) \/ (e = f /\ q.what \in Change)
    BY <1>0, <1>4, <1>3 DEF InFlight, Flying, Fetches
  <2>3. c \in Call /\ d \in Call
    BY DEF InFlight
  <2> QED BY <1>3, <2>1, <2>2, <2>3 DEF OneChange, Fetches
<1>11. ChangeTells'
  <2> SUFFICES ASSUME Clear({"crossed", "lost", "hasty"})', NEW c \in InFlight(Change)'
        PROVE /\ calls'[c].step = "sent" /\ calls'[c].what = "read" => note[calls'[c].arg] = "unread"
              /\ calls'[c].what = "delete" =>
                 /\ calls'[c].step = "sent" =>
                      note[calls'[c].arg] = IF calls'[c].unread THEN "unread" ELSE "read"
                 /\ calls'[c].arg \in Ids
                 /\ \A i \in DOMAIN listed : listed[i].id = calls'[c].arg => listed[i].read # calls'[c].unread
    BY <1>2 DEF ChangeTells
  <2>1. Clear({"crossed", "lost", "hasty"}) /\ "crossed" \notin blame' /\ "hasty" \notin blame'
    BY <1>7 DEF Clear
  <2>2. c \in Call
    BY DEF InFlight
  <2>3. CASE c # f
    <3>1. calls'[c] = calls[c] /\ c \in InFlight(Change)
      BY <1>0, <2>2, <2>3 DEF InFlight
    <3> QED BY <1>3, <2>1, <3>1 DEF ChangeTells
  <2>4. CASE c = f
    <3>1. calls'[c] = q /\ q.what \in Change
      BY <1>0, <2>4 DEF InFlight
    <3>2. InFlight(Change) = {}
      BY <1>3, <2>1, <3>1 DEF Fetches
    <3>3. \A n : ~Buried(n) /\ ~Marked(n)
      <4>1. \A d \in Call : \A S \in SUBSET Change : ~Landed(d, S)
        BY <3>2 DEF InFlight, Landed
      <4> QED BY <4>1 DEF Buried, Marked, Change
    <3>4. Clear({"crossed", "lost"})
      BY <2>1 DEF Clear
    <3>5. \A i \in DOMAIN listed : listed[i].id \in Kept /\ (listed[i].read <=> note[listed[i].id] = "read")
      BY <1>3, <3>3, <3>4 DEF EntriesTell
    <3>6. q.what \in {"read", "delete"} => \E i \in DOMAIN listed :
            listed[i].id = q.arg /\ q.unread = ~listed[i].read /\ (q.what = "read" => q.unread)
      BY <1>3 DEF Fetches
    <3>7. CASE q.what \in {"read", "delete"}
      <4>1. PICK i \in DOMAIN listed :
             listed[i].id = q.arg /\ q.unread = ~listed[i].read /\ (q.what = "read" => q.unread)
        BY <3>6, <3>7
      <4>0. \A j \in DOMAIN listed : listed[j].read \in BOOLEAN
        <5>1. listed \in Seq(Entry)
          BY <1>3 DEF InboxWell, InboxTypeOK
        <5>2. \A j \in DOMAIN listed : listed[j] \in Entry
          BY <5>1
        <5> QED BY <5>2 DEF Entry
      <4>2. listed[i].read \in BOOLEAN /\ q.unread \in BOOLEAN
        BY <4>0, <4>1
      <4>3. note[q.arg] = IF q.unread THEN "unread" ELSE "read"
        BY <3>5, <4>1, <4>2 DEF Kept
      <4>4. q.arg \in Ids
        BY <4>1 DEF Ids
      <4>5. \A j \in DOMAIN listed : listed[j].id = q.arg => listed[j].read # q.unread
        BY <4>0, <4>2, <4>3, <3>5
      <4> QED BY <3>1, <4>1, <4>3, <4>4, <4>5
    <3> QED BY <3>1, <3>7
  <2> QED BY <2>3, <2>4
<1>12. WillAsk'
  BY <1>0, <1>3, <1>2 DEF WillAsk, SendHyp, Clear, Grown
<1> QED BY <1>1, <1>8, <1>9, <1>10, <1>11, <1>12 DEF InboxInv

LEMMA StillKeeps ==
  ASSUME InboxInv, UNCHANGED <<side, note, due, pushes, listed, badge, count, upto, calls, blame>>,
         link' \in {"down", "open", "on"}, presses' \in 0 .. MaxPresses, breaks' \in 0 .. MaxBreaks,
         link = "down" => link' = "down" \/ side = "bell"
  PROVE  InboxInv'
<1>1. InboxWell'
  BY DEF InboxInv, InboxWell, InboxTypeOK, Ids, Coming, Pushed, Born, Fit, AnswerWell, Flying, Landed
<1>2. CallsTell'
  <2>1. Ids' = Ids /\ Coming' = Coming /\ Unread' = Unread /\ Kept' = Kept
    BY DEF Ids, Coming, Pushed, Unread, Kept
  <2>2. \A c \in Call : (PageFresh(c)' <=> PageFresh(c)) /\ (NextPage(c)' <=> NextPage(c))
    <3>1. \A c \in Call : Entries(Page(calls[c].arg))' = Entries(Page(calls[c].arg))
      BY DEF Entries, Page, Newest, Kept
    <3>2. \A c \in Call : PageFresh(c)' <=> PageFresh(c)
      BY <2>1, <3>1 DEF PageFresh
    <3> QED BY <3>2 DEF NextPage, Clear
  <2>3. \A c \in Call : Flying(c)' <=> Flying(c)
    BY DEF Flying
  <2> QED BY <2>1, <2>2, <2>3 DEF InboxInv, CallsTell, Clear
<1>3. EntriesTell' /\ Reaches' /\ Ordered' /\ BadgeTells' /\ CountTells'
  <2>1. Grown /\ SameAnswers /\ (Asked' <=> Asked)
    BY BlameRests DEF InboxInv, SameAnswers, Asked, Flying, Landed
  <2> QED BY <2>1, RestingKeeps DEF Resting
<1>4. OneChange' /\ ChangeTells'
  BY DEF InboxInv, OneChange, ChangeTells, InFlight, Clear, Ids
<1>5. WillAsk'
  BY DEF InboxInv, WillAsk, Asked, Flying, Clear
<1> QED BY <1>1, <1>2, <1>3, <1>4, <1>5 DEF InboxInv

(* What a step that sends a request leaves alone and blames. *)
LEMMA SendingKeeps ==
  ASSUME InboxInv, CanCall, NEW what \in {"page"} \union Change, NEW arg \in Note \union Nat,
         NEW unread \in BOOLEAN, NEW causes \in SUBSET {"shifted", "crossed", "hasty"},
         Send(what, arg, unread), Blames(causes), Fetches(NewCall(what, arg, unread)),
         link' \in {"down", "open", "on"}, link' = link \/ (what = "page" /\ arg = 1),
         presses' \in 0 .. MaxPresses, breaks' \in 0 .. MaxBreaks,
         UNCHANGED <<side, note, due, pushes, listed, badge, count, upto>>
  PROVE  InboxInv'
<1>1. InboxWell /\ causes \in SUBSET Blame
  BY DEF InboxInv, Blame
<1>2. Grown /\ blame' \subseteq Blame /\ ("crossed" \in blame' => blame' = {"crossed"})
  BY <1>1, BlameIs
<1>3. "unheard" \in blame' => "unheard" \in blame /\ ("lost" \in blame => "lost" \in blame')
  BY DEF Blames
<1>4. NewCall(what, arg, unread).what = what /\ NewCall(what, arg, unread).arg = arg
  BY DEF NewCall
<1>5. SendHyp(NewCall(what, arg, unread))
  BY <1>2, <1>3, <1>4 DEF SendHyp, Send
<1> QED BY <1>5, SendKeeps

LEMMA NewCallIs ==
  ASSUME NEW what \in {"page"} \union Change, NEW arg \in Note \union Nat, NEW unread \in BOOLEAN
  PROVE  /\ NewCall(what, arg, unread) \in Sent /\ NewCall(what, arg, unread).step = "sent"
         /\ NewCall(what, arg, unread).items = <<>> /\ NewCall(what, arg, unread).what = what
         /\ NewCall(what, arg, unread).arg = arg /\ NewCall(what, arg, unread).unread = unread
<1>1. <<>> \in Seq(Entry)
  OBVIOUS
<1> QED BY <1>1 DEF NewCall, Sent

LEMMA PageCallIs ==
  ASSUME NEW arg \in Nat
  PROVE  /\ NewCall("page", arg, FALSE) \in Sent /\ NewCall("page", arg, FALSE).step = "sent"
         /\ NewCall("page", arg, FALSE).items = <<>> /\ NewCall("page", arg, FALSE).what = "page"
         /\ NewCall("page", arg, FALSE).arg = arg
<1>1. "page" \in {"page"} \union Change /\ arg \in Note \union Nat /\ FALSE \in BOOLEAN
  OBVIOUS
<1> DEFINE w == "page"
           b == FALSE
<1> HIDE DEF w, b
<1>2. w \in {"page"} \union Change /\ b \in BOOLEAN
  BY DEF w, b
<1>3. /\ NewCall(w, arg, b) \in Sent /\ NewCall(w, arg, b).step = "sent"
      /\ NewCall(w, arg, b).items = <<>> /\ NewCall(w, arg, b).what = w
      /\ NewCall(w, arg, b).arg = arg
  BY <1>1, <1>2, NewCallIs
<1> QED BY <1>3 DEF w, b

LEMMA LoadMoreKeeps ==
  ASSUME InboxInv, LoadMore PROVE InboxInv'
<1>1. PICK causes \in SUBSET {"shifted", "crossed", "hasty"} :
         /\ Blames(causes)
         /\ Len(listed) # upto * PageSize => "shifted" \in causes
  <2> DEFINE K == (IF Len(listed) # upto * PageSize THEN {"shifted"} ELSE {})
               \union (IF InFlight({"page"}) # {} THEN {"crossed"} ELSE {})
  <2>1. K \in SUBSET {"shifted", "crossed", "hasty"} /\ Blames(K)
    BY DEF LoadMore, Blames, Blaming
  <2> QED BY <2>1
<1>2. upto \in Nat \ {0} /\ upto + 1 \in Note \union Nat /\ upto + 1 \in Nat \ {0}
  BY DEF InboxInv, InboxWell, InboxTypeOK
<1>3. /\ NewCall("page", upto + 1, FALSE) \in Sent /\ NewCall("page", upto + 1, FALSE).step = "sent"
      /\ NewCall("page", upto + 1, FALSE).items = <<>> /\ NewCall("page", upto + 1, FALSE).what = "page"
      /\ NewCall("page", upto + 1, FALSE).arg = upto + 1
  BY <1>2, PageCallIs
<1>4. "crossed" \notin blame' => ("shifted" \notin blame' => Len(listed) = upto * PageSize)
  BY <1>1 DEF Blames
<1>5. Fetches(NewCall("page", upto + 1, FALSE))
  BY <1>2, <1>3, <1>4 DEF Fetches, Change
<1>6. presses' \in 0 .. MaxPresses /\ breaks' \in 0 .. MaxBreaks /\ link' \in {"down", "open", "on"}
  BY BoundsOfInbox DEF LoadMore, Press, InboxInv, InboxWell, InboxTypeOK
<1>7. /\ CanCall /\ Send("page", upto + 1, FALSE) /\ link' = link
      /\ UNCHANGED <<side, note, due, pushes, listed, badge, count, upto>>
  BY DEF LoadMore, Press, server, copy
<1> QED BY <1>1, <1>2, <1>5, <1>6, <1>7, SendingKeeps

LEMMA FirstPageAsks ==
  Fetches(NewCall("page", 1, FALSE))
<1>1. /\ NewCall("page", 1, FALSE) \in Sent /\ NewCall("page", 1, FALSE).step = "sent"
      /\ NewCall("page", 1, FALSE).items = <<>> /\ NewCall("page", 1, FALSE).what = "page"
      /\ NewCall("page", 1, FALSE).arg = 1
  BY PageCallIs
<1> DEFINE q == NewCall("page", 1, FALSE)
<1> HIDE DEF q
<1>2. q \in Sent /\ q.step = "sent" /\ q.items = <<>> /\ q.what = "page" /\ q.arg = 1
  BY <1>1 DEF q
<1>3. Fetches(q)
  BY <1>2 DEF Fetches, Change
<1> QED BY <1>3 DEF q

LEMMA OpenInboxKeeps ==
  ASSUME InboxInv, OpenInbox PROVE InboxInv'
<1>1. Blames({})
  BY DEF OpenInbox, Blames, InboxInv, InboxWell
<1>2. presses' \in 0 .. MaxPresses /\ breaks' \in 0 .. MaxBreaks /\ link' \in {"down", "open", "on"}
  BY BoundsOfInbox DEF OpenInbox, Press, InboxInv, InboxWell, InboxTypeOK
<1>3. /\ CanCall /\ Send("page", 1, FALSE) /\ link' = link
      /\ UNCHANGED <<side, note, due, pushes, listed, badge, count, upto>>
  BY DEF OpenInbox, Press, server, copy
<1> QED BY <1>1, <1>2, <1>3, FirstPageAsks, SendingKeeps

LEMMA LinkOpensKeeps ==
  ASSUME InboxInv, LinkOpens PROVE InboxInv'
<1>1. presses' \in 0 .. MaxPresses /\ breaks' \in 0 .. MaxBreaks /\ link' \in {"down", "open", "on"}
  BY DEF LinkOpens, InboxInv, InboxWell, InboxTypeOK
<1>2. CASE side = "store"
  <2>1. Blames({})
    BY DEF LinkOpens, Blames, InboxInv, InboxWell
  <2>2. /\ CanCall /\ Send("page", 1, FALSE)
        /\ UNCHANGED <<side, note, due, pushes, listed, badge, count, upto>>
    BY <1>2 DEF LinkOpens, Fetched, Send, server, copy
  <2> QED BY <1>1, <2>1, <2>2, FirstPageAsks, SendingKeeps
<1>3. CASE side # "store"
  <2>1. side = "bell"
    BY <1>3 DEF InboxInv, InboxWell, InboxTypeOK
  <2>2. UNCHANGED <<side, note, due, pushes, listed, badge, count, upto, calls, blame>>
    BY <1>3 DEF LinkOpens, Fetched, server, copy
  <2> QED BY <1>1, <2>1, <2>2, StillKeeps
<1> QED BY <1>2, <1>3

LEMMA SubscribeKeeps ==
  ASSUME InboxInv, Subscribe PROVE InboxInv'
BY StillKeeps DEF Subscribe, InboxInv, InboxWell, InboxTypeOK, server, copy

(* Pressing a button for a change. *)
LEMMA HastyIs ==
  ASSUME InboxInv, Blaming(Hasty)
  PROVE  \E causes \in SUBSET {"shifted", "crossed", "hasty"} :
            /\ Blames(causes)
            /\ InFlight(Change) = {} \/ "hasty" \in blame' \/ "crossed" \in blame'
<1>1. Hasty \in SUBSET {"shifted", "crossed", "hasty"} /\ Blames(Hasty)
  BY DEF Hasty, Blames, Blaming
<1>2. InFlight(Change) = {} \/ "hasty" \in Hasty
  BY DEF Hasty
<1>3. InFlight(Change) = {} \/ "hasty" \in blame' \/ "crossed" \in blame'
  BY <1>1, <1>2 DEF Blames
<1> QED BY <1>1, <1>3

LEMMA PressIs ==
  ASSUME InboxInv, Press
  PROVE  CanCall /\ presses' \in 0 .. MaxPresses
BY BoundsOfInbox DEF Press, InboxInv, InboxWell, InboxTypeOK

LEMMA ChangeAsked ==
  ASSUME InboxInv, Press, Blaming(Hasty), NEW what \in Change, NEW arg \in Note \union Nat,
         NEW unread \in BOOLEAN, Send(what, arg, unread),
         what \in {"read", "delete"} => \E i \in DOMAIN listed :
           listed[i].id = arg /\ unread = ~listed[i].read /\ (what = "read" => unread),
         UNCHANGED <<side, server, link, pushes, copy, breaks>>
  PROVE  InboxInv'
<1>1. PICK causes \in SUBSET {"shifted", "crossed", "hasty"} :
            /\ Blames(causes)
            /\ InFlight(Change) = {} \/ "hasty" \in blame' \/ "crossed" \in blame'
  BY HastyIs
<1>2. what \in {"page"} \union Change /\ what # "page"
  BY DEF Change
<1>3. Fetches(NewCall(what, arg, unread))
  <2>1. /\ NewCall(what, arg, unread) \in Sent /\ NewCall(what, arg, unread).step = "sent"
        /\ NewCall(what, arg, unread).items = <<>> /\ NewCall(what, arg, unread).what = what
        /\ NewCall(what, arg, unread).arg = arg /\ NewCall(what, arg, unread).unread = unread
    <3>1. <<>> \in Seq(Entry)
      OBVIOUS
    <3> QED BY <1>2, <3>1 DEF NewCall, Sent
  <2> QED BY <1>1, <1>2, <2>1 DEF Fetches
<1>4. /\ CanCall /\ presses' \in 0 .. MaxPresses /\ breaks' \in 0 .. MaxBreaks
      /\ link' \in {"down", "open", "on"} /\ link' = link
      /\ UNCHANGED <<side, note, due, pushes, listed, badge, count, upto>>
  BY PressIs DEF InboxInv, InboxWell, InboxTypeOK, server, copy
<1> QED BY <1>1, <1>2, <1>3, <1>4, SendingKeeps

LEMMA ListedAre ==
  ASSUME InboxInv, NEW i \in DOMAIN listed
  PROVE  listed[i].id \in Note /\ listed[i].read \in BOOLEAN
<1>1. listed \in Seq(Entry)
  BY DEF InboxInv, InboxWell, InboxTypeOK
<1>2. listed[i] \in Entry
  BY <1>1
<1> QED BY <1>2 DEF Entry

LEMMA ChangesKeep ==
  ASSUME InboxInv,
         MarkAll \/ DeleteAll \/ \E i \in DOMAIN listed : MarkRead(i) \/ DeleteOne(i)
  PROVE  InboxInv'
<1>1. CASE MarkAll
  BY <1>1, ChangeAsked DEF MarkAll, Change
<1>2. CASE DeleteAll
  BY <1>2, ChangeAsked DEF DeleteAll, Change
<1>3. ASSUME NEW i \in DOMAIN listed, MarkRead(i) PROVE InboxInv'
  <2>1. listed[i].id \in Note \union Nat /\ listed[i].read = FALSE
    BY <1>3, ListedAre DEF MarkRead
  <2>2. \E j \in DOMAIN listed :
           listed[j].id = listed[i].id /\ TRUE = ~listed[j].read /\ ("read" = "read" => TRUE)
    BY <2>1
  <2> QED BY <1>3, <2>1, <2>2, ChangeAsked DEF MarkRead, Change
<1>4. ASSUME NEW i \in DOMAIN listed, DeleteOne(i) PROVE InboxInv'
  <2>1. listed[i].id \in Note \union Nat /\ (~listed[i].read) \in BOOLEAN
    BY <1>4, ListedAre
  <2>2. \E j \in DOMAIN listed :
           listed[j].id = listed[i].id /\ (~listed[i].read) = ~listed[j].read
             /\ ("delete" = "read" => ~listed[i].read)
    BY <2>1
  <2> QED BY <1>4, <2>1, <2>2, ChangeAsked DEF DeleteOne, Change
<1> QED BY <1>1, <1>2, <1>3, <1>4

(* What the sets of the model are made of. *)
LEMMA SetsAre ==
  ASSUME InboxInv
  PROVE  /\ Ids \in SUBSET Note /\ Coming \in SUBSET Note /\ Pushed \in SUBSET Note
         /\ due \in SUBSET Note /\ Dead \in SUBSET Ids
         /\ \A n \in Ids \union Coming : Born(n)
         /\ DOMAIN listed = 1 .. Len(listed) /\ Len(listed) \in Nat /\ listed \in Seq(Entry)
         /\ DOMAIN pushes = 1 .. Len(pushes) /\ Len(pushes) \in Nat /\ pushes \in Seq(Note)
         /\ \A S \in SUBSET Note : S \in SUBSET Nat /\ IsFiniteSet(S) /\ Cardinality(S) \in Nat
         /\ note \in [Note -> Fate]
<1>1. listed \in Seq(Entry) /\ pushes \in Seq(Note) /\ due \in SUBSET Note /\ note \in [Note -> Fate]
  BY DEF InboxInv, InboxWell, InboxTypeOK
<1>2. \A i \in DOMAIN pushes : pushes[i] \in Note
  BY <1>1
<1>3. Ids \in SUBSET Note
  BY ListedAre DEF Ids
<1>4. Pushed \in SUBSET Note /\ Coming \in SUBSET Note
  BY <1>1, <1>2 DEF Pushed, Coming
<1>5. Dead \in SUBSET Ids
  BY DEF Dead
<1>6. \A n \in Ids \union Coming : Born(n)
  BY DEF InboxInv, InboxWell
<1>7. DOMAIN listed = 1 .. Len(listed) /\ Len(listed) \in Nat
      /\ DOMAIN pushes = 1 .. Len(pushes) /\ Len(pushes) \in Nat
  BY <1>1
<1> QED BY <1>1, <1>3, <1>4, <1>5, <1>6, <1>7, NotesAre

LEMMA LoseCallKeeps ==
  ASSUME InboxInv, NEW c \in Call, LoseCall(c) PROVE InboxInv'
<1>1. /\ InboxWell /\ CallsTell /\ Reaches /\ OneChange
  BY DEF InboxInv
<1>2. /\ DOMAIN calls = Call /\ calls' = [calls EXCEPT ![c] = Idle]
      /\ note' = note /\ due' = due /\ pushes' = pushes /\ listed' = listed /\ upto' = upto
      /\ badge' = badge /\ count' = count /\ side' = side /\ link' = link
      /\ breaks' \in 0 .. MaxBreaks /\ presses' = presses /\ Blames({"lost"})
  BY BoundsOfInbox, <1>1 DEF LoseCall, InboxWell, InboxTypeOK, server, copy, Blaming, Blames
<1>3. /\ calls'[c] = Idle /\ \A d \in Call : d # c => calls'[d] = calls[d]
  BY <1>2
<1>4. \A d \in Call : (Flying(d)' => d # c /\ Flying(d))
  BY <1>3 DEF Flying, Idle
<1>5. \A d \in Call : \A S : Landed(d, S)' => d # c /\ Landed(d, S)
  BY <1>3 DEF Landed, Idle
<1>6. Ids' = Ids /\ Coming' = Coming /\ Kept' = Kept /\ Unread' = Unread /\ Pushed' = Pushed
  BY <1>2 DEF Ids, Coming, Pushed, Kept, Unread
<1>7. /\ Grown /\ blame' \subseteq Blame /\ ("crossed" \in blame' => blame' = {"crossed"})
      /\ "lost" \in blame' \/ "crossed" \in blame'
      /\ "unheard" \in blame' => "lost" \in blame'
  <2>1. {"lost"} \in SUBSET Blame
    BY DEF Blame
  <2> QED BY <1>1, <1>2, <2>1, BlameIs DEF Blames
<1>8. InboxWell'
  <2>1. InboxTypeOK'
    <3>1. calls' \in [Call -> Sent \union {Idle}]
      BY <1>1, <1>2 DEF InboxWell, InboxTypeOK
    <3> QED BY <3>1, <1>2, <1>1, <1>7 DEF InboxWell, InboxTypeOK
  <2>2. \A n : Born(n)' <=> Born(n)
    BY <1>2 DEF Born
  <2>3. \A d \in Call : Flying(d)' => Fit(d)'
    <3>1. ASSUME NEW d \in Call, Flying(d)' PROVE Fit(d) /\ calls'[d] = calls[d]
      BY <3>1, <1>1, <1>3, <1>4 DEF InboxWell
    <3> QED BY <3>1, <1>2, <2>2 DEF Fit, AnswerWell
  <2>4. \A d, e \in Call :
       Landed(d, {"delete"})' /\ Landed(e, {"delete"})' /\ calls'[d].arg = calls'[e].arg => d = e
    BY <1>1, <1>3, <1>5 DEF InboxWell
  <2> QED BY <1>1, <1>2, <1>6, <1>7, <2>1, <2>2, <2>3, <2>4 DEF InboxWell
<1>9. CallsTell'
  <2> SUFFICES ASSUME Clear({"crossed"})' PROVE
       /\ Coming' \subseteq Unread' /\ Ids' \intersect Coming' = {}
       /\ \A d \in Call : Flying(d)' =>
         /\ calls'[d].what \in {"read", "delete"} => calls'[d].arg \notin Coming'
         /\ calls'[d].what = "page" /\ calls'[d].step = "done" => PageFresh(d)'
         /\ calls'[d].what = "page" /\ calls'[d].arg > 1 => NextPage(d)'
    BY DEF CallsTell
  <2>1. Clear({"crossed"}) /\ blame \subseteq blame'
    BY <1>7, ClearWas
  <2>2. ASSUME NEW d \in Call, Flying(d)', PageFresh(d), d # c PROVE PageFresh(d)'
    <3>1. calls'[d] = calls[d] /\ Entries(Page(calls[d].arg))' = Entries(Page(calls[d].arg))
      BY <2>2, <1>2, <1>3 DEF Entries, Page, Newest, Kept
    <3>2. \A e \in Call \ {d} : calls'[e].step # "done"
      BY <2>2, <1>3 DEF PageFresh, Idle
    <3> QED BY <2>2, <1>2, <1>6, <3>1, <3>2 DEF PageFresh
  <2>3. ASSUME NEW d \in Call, Flying(d)', NextPage(d) PROVE NextPage(d)'
    BY <2>1, <2>3, <1>2, <1>3, <1>4 DEF NextPage, Clear
  <2>4. \A d \in Call : Flying(d)' => d # c /\ Flying(d) /\ calls'[d] = calls[d]
    BY <1>3, <1>4
  <2> QED BY <1>1, <1>6, <2>1, <2>2, <2>3, <2>4 DEF CallsTell
<1>10. Reaches'
  <2> SUFFICES ASSUME Clear({"missed", "unheard", "crossed"})'
      PROVE /\ \A d \in Call : /\ Landed(d, {"wipe"})' => Kept' \subseteq Coming'
                               /\ Landed(d, {"all"})' => Unread' \subseteq Coming'
            /\ \A n \in Coming' : Missing(n)' = {}
            /\ Clear({"shifted"})' =>
                /\ \A i, j \in DOMAIN listed' : listed'[i].id = listed'[j].id => i = j
                /\ \A n \in Ids' \intersect Kept' : Cardinality(Missing(n)') <= Cardinality(Dead')
    BY DEF Reaches
  <2>1. Clear({"missed", "unheard", "crossed"}) /\ blame \subseteq blame'
    BY <1>7, ClearWas
  <2>2. \A n : Missing(n)' = Missing(n)
    BY <1>6 DEF Missing
  <2>3. Dead \subseteq Dead' /\ Dead' \in SUBSET Ids
    <3>1. \A n : Buried(n)' => Buried(n)
      BY <1>3, <1>5 DEF Buried
    <3> QED BY <3>1, <1>6 DEF Dead
  <2>4. /\ \A n \in Note : IsFiniteSet(Missing(n)) /\ Cardinality(Missing(n)) \in Nat
        /\ IsFiniteSet(Dead') /\ Cardinality(Dead') \in Nat /\ Cardinality(Dead) \in Nat
        /\ Cardinality(Dead) <= Cardinality(Dead')
    <3>1. Kept \in SUBSET Note /\ \A n \in Note : Missing(n) \in SUBSET Note
      BY KeptAre DEF Missing
    <3>2. Dead' \in SUBSET Note /\ Dead \in SUBSET Note
      BY <2>3, SetsAre
    <3> QED BY <2>3, <3>1, <3>2, NotesAre, FS_Subset
  <2>5. Clear({"shifted"})' => Clear({"shifted"})
    BY <2>1 DEF Clear
  <2>6. ASSUME NEW n \in Ids \intersect Kept, Clear({"shifted"})'
        PROVE Cardinality(Missing(n)) <= Cardinality(Dead')
    <3>1. n \in Note /\ Cardinality(Missing(n)) <= Cardinality(Dead)
      BY <1>1, <2>1, <2>5, <2>6, KeptAre DEF Reaches
    <3> QED BY <2>4, <3>1
  <2> QED BY <1>1, <1>2, <1>5, <1>6, <2>1, <2>2, <2>5, <2>6 DEF Reaches
<1>11. OneChange'
  <2>1. \A d : d \in InFlight(Change)' => d \in InFlight(Change)
    BY <1>3, <1>4 DEF InFlight, Flying
  <2>2. Clear({"crossed", "hasty"})' => Clear({"crossed", "hasty"})
    BY <1>7, ClearWas
  <2> QED BY <1>1, <2>1, <2>2 DEF OneChange
<1>12. EntriesTell' /\ Ordered' /\ ChangeTells' /\ BadgeTells' /\ CountTells' /\ WillAsk'
  BY <1>7 DEF EntriesTell, Ordered, ChangeTells, BadgeTells, CountTells, WillAsk, Clear
<1> QED BY <1>8, <1>9, <1>10, <1>11, <1>12 DEF InboxInv

(* What a step does that leaves requests and the table alone, in the parts that *)
(* only speak of these and of the list.                                          *)
LEMMA CallsRest ==
  ASSUME InboxInv, Grown, calls' = calls, note' = note, listed' = listed
  PROVE  EntriesTell' /\ OneChange' /\ ChangeTells'
<1>1. \A S : Clear(S)' /\ "crossed" \in S => Clear(S)
  BY ClearWas
<1>2. \A n : (Buried(n)' <=> Buried(n)) /\ (Marked(n)' <=> Marked(n))
  BY DEF Buried, Marked, Landed
<1>3. EntriesTell'
  BY <1>1, <1>2 DEF InboxInv, EntriesTell, Kept
<1>4. OneChange' /\ ChangeTells'
  BY <1>1 DEF InboxInv, OneChange, ChangeTells, InFlight, Ids
<1> QED BY <1>3, <1>4

LEMMA LinkBreaksKeeps ==
  ASSUME InboxInv, LinkBreaks PROVE InboxInv'
<1>1. /\ InboxWell /\ CallsTell
  BY DEF InboxInv
<1>2. /\ note' = note /\ due' = due /\ pushes' = <<>> /\ listed' = listed /\ upto' = upto
      /\ badge' = badge /\ count' = count /\ side' = side /\ link' = "down" /\ calls' = calls
      /\ breaks' \in 0 .. MaxBreaks /\ presses' = presses
      /\ Blames(IF pushes = <<>> THEN {} ELSE {"unheard"})
  BY BoundsOfInbox, <1>1 DEF LinkBreaks, InboxWell, InboxTypeOK, server, copy, Blaming, Blames
<1>3. CASE pushes = <<>>
  <2>1. blame' = blame /\ pushes' = pushes /\ presses' \in 0 .. MaxPresses
        /\ link' \in {"down", "open", "on"}
    BY <1>1, <1>2, <1>3 DEF InboxWell, InboxTypeOK, Blames
  <2> QED BY <1>2, <2>1, StillKeeps
<1>4. CASE pushes # <<>>
  <2>1. /\ Grown /\ blame' \subseteq Blame /\ ("crossed" \in blame' => blame' = {"crossed"})
        /\ "unheard" \in blame' \/ "crossed" \in blame'
    <3>1. {"unheard"} \in SUBSET Blame /\ Blames({"unheard"})
      BY <1>2, <1>4 DEF Blame
    <3> QED BY <1>1, <3>1, BlameIs DEF Blames
  <2>2. Pushed' = {} /\ Coming' = due /\ Coming' \subseteq Coming
    BY <1>2 DEF Pushed, Coming
  <2>3. Ids' = Ids /\ Kept' = Kept /\ Unread' = Unread /\ \A d \in Call : Flying(d)' <=> Flying(d)
    BY <1>2 DEF Ids, Kept, Unread, Flying
  <2>4. InboxWell'
    <3>1. InboxTypeOK'
      BY <1>1, <1>2, <2>1 DEF InboxWell, InboxTypeOK
    <3>2. \A n : Born(n)' <=> Born(n)
      BY <1>2 DEF Born
    <3>3. \A d \in Call : Fit(d)' <=> Fit(d)
      BY <1>2 DEF Fit, AnswerWell, Born
    <3>4. DOMAIN pushes' = {}
      BY <1>2
    <3> QED BY <1>1, <1>2, <2>1, <2>2, <2>3, <3>1, <3>2, <3>3, <3>4 DEF InboxWell, Landed
  <2>5. CallsTell'
    <3> SUFFICES ASSUME Clear({"crossed"})' PROVE
         /\ Coming' \subseteq Unread' /\ Ids' \intersect Coming' = {}
         /\ \A d \in Call : Flying(d)' =>
           /\ calls'[d].what \in {"read", "delete"} => calls'[d].arg \notin Coming'
           /\ calls'[d].what = "page" /\ calls'[d].step = "done" => PageFresh(d)'
           /\ calls'[d].what = "page" /\ calls'[d].arg > 1 => NextPage(d)'
      BY DEF CallsTell
    <3>1. Clear({"crossed"}) /\ blame \subseteq blame'
      BY <2>1, ClearWas
    <3>2. \A d \in Call : ~PageFresh(d) /\ (NextPage(d) => NextPage(d)')
      BY <1>2, <1>4, <3>1 DEF PageFresh, NextPage, Clear
    <3> QED BY <1>1, <1>2, <2>2, <2>3, <3>1, <3>2 DEF CallsTell
  <2>6. EntriesTell' /\ OneChange' /\ ChangeTells'
    BY <1>2, <2>1, CallsRest
  <2>7. Reaches' /\ Ordered' /\ BadgeTells' /\ CountTells' /\ WillAsk'
    BY <1>2, <2>1 DEF Reaches, Ordered, BadgeTells, CountTells, WillAsk, Clear
  <2> QED BY <2>4, <2>5, <2>6, <2>7 DEF InboxInv
<1> QED BY <1>3, <1>4

LEMMA CreateKeeps ==
  ASSUME InboxInv, NEW n \in Note, Create(n) PROVE InboxInv'
<1>1. InboxWell /\ CallsTell /\ EntriesTell /\ Reaches /\ Ordered /\ OneChange /\ ChangeTells
      /\ BadgeTells /\ CountTells /\ WillAsk
  BY DEF InboxInv
<1>2. /\ note \in [Note -> Fate] /\ note[n] = "unborn" /\ \A m \in Note : m < n => note[m] # "unborn"
      /\ note' = [note EXCEPT ![n] = "unread"] /\ due' = due \union {n}
      /\ pushes' = pushes /\ listed' = listed /\ upto' = upto
      /\ badge' = badge /\ count' = count /\ side' = side /\ link' = link /\ calls' = calls
      /\ breaks' = breaks /\ presses' = presses
      /\ Blames(Shifting) /\ Shifting \in SUBSET Blame
  BY <1>1 DEF Create, InboxWell, InboxTypeOK, copy, Blaming, Blames, Shifting, Blame
<1>3. /\ Grown /\ blame' \subseteq Blame /\ ("crossed" \in blame' => blame' = {"crossed"})
      /\ "unheard" \in blame' => "unheard" \in blame /\ ("lost" \in blame => "lost" \in blame')
  <2>1. /\ Grown /\ blame' \subseteq Blame /\ ("crossed" \in blame' => blame' = {"crossed"})
    BY <1>1, <1>2, BlameIs
  <2>2. "unheard" \notin Shifting
    BY DEF Shifting
  <2> QED BY <1>2, <2>1, <2>2 DEF Blames
<1>4. \A m \in Note : Born(m) => m < n /\ note'[m] = note[m] /\ m # n
  <2> SUFFICES ASSUME NEW m \in Note, Born(m) PROVE m < n /\ note'[m] = note[m] /\ m # n
    OBVIOUS
  <2>1. m # n
    BY <1>2 DEF Born
  <2>2. ~(n < m)
    BY <1>1, <1>2 DEF InboxWell, Born
  <2> QED BY <1>2, <2>1, <2>2, NotesAre
<1>5. /\ Ids' = Ids /\ Coming' = Coming \union {n} /\ Pushed' = Pushed
      /\ \A m : Born(m) => Born(m)'
  <2>1. Ids' = Ids /\ Coming' = Coming \union {n} /\ Pushed' = Pushed
    BY <1>2 DEF Ids, Coming, Pushed
  <2> QED BY <1>2, <2>1 DEF Born
<1>6. /\ Kept' = Kept \union {n} /\ Unread' = Unread \union {n} /\ n \notin Kept
      /\ n \notin Ids /\ n \notin Coming /\ \A m \in Kept \union Ids \union Coming : m < n
  <2>1. Kept' = Kept \union {n} /\ Unread' = Unread \union {n} /\ n \notin Kept
    BY <1>2 DEF Kept, Unread
  <2>2. \A m \in Kept \union Ids \union Coming : m \in Note /\ Born(m)
    BY SetsAre DEF Kept, Born
  <2> QED BY <1>4, <2>1, <2>2
<1>7. \A m : (Buried(m)' <=> Buried(m)) /\ (Marked(m)' <=> Marked(m))
  BY <1>2 DEF Buried, Marked, Landed
<1>8. \A d \in Call : (Flying(d)' <=> Flying(d)) /\ \A S : Landed(d, S)' <=> Landed(d, S)
  BY <1>2 DEF Flying, Landed
<1>9. \A S : Clear(S)' /\ "crossed" \in S => Clear(S)
  BY <1>3, ClearWas
<1>10. \A d \in Call : Flying(d) /\ calls[d].what \in {"read", "delete"} =>
          Born(calls[d].arg) /\ note'[calls[d].arg] = note[calls[d].arg] /\ calls[d].arg # n
  <2>1. \A d \in Call : Flying(d) /\ calls[d].what \in {"read", "delete"} => Born(calls[d].arg)
    BY <1>1 DEF InboxWell, Fit, AnswerWell
  <2> QED BY <2>1, <1>4 DEF Born
<1>11. InboxWell'
  <2>1. InboxTypeOK'
    BY <1>1, <1>2, <1>3 DEF InboxWell, InboxTypeOK, Fate
  <2>2. \A d \in Call : Flying(d)' => Fit(d)'
    BY <1>1, <1>2, <1>5, <1>8, <1>10 DEF InboxWell, Fit, AnswerWell
  <2>3. \A m, k \in Note : m < k /\ note'[m] = "unborn" => note'[k] = "unborn"
    BY <1>1, <1>2, NotesAre DEF InboxWell
  <2>4. \A m \in Ids' \union Coming' : Born(m)'
    <3>1. Born(n)'
      BY <1>2 DEF Born
    <3> QED BY <3>1, <1>1, <1>5 DEF InboxWell
  <2>5. due' \intersect Pushed' = {}
    BY <1>1, <1>2, <1>5, <1>6 DEF InboxWell, Coming
  <2> QED BY <1>1, <1>2, <1>3, <1>8, <2>1, <2>2, <2>3, <2>4, <2>5 DEF InboxWell
<1>12. CallsTell'
  <2> SUFFICES ASSUME Clear({"crossed"})' PROVE
       /\ Coming' \subseteq Unread' /\ Ids' \intersect Coming' = {}
       /\ \A d \in Call : Flying(d)' =>
         /\ calls'[d].what \in {"read", "delete"} => calls'[d].arg \notin Coming'
         /\ calls'[d].what = "page" /\ calls'[d].step = "done" => PageFresh(d)'
         /\ calls'[d].what = "page" /\ calls'[d].arg > 1 => NextPage(d)'
    BY DEF CallsTell
  <2>1. Clear({"crossed"}) /\ "crossed" \notin blame'
    BY <1>9 DEF Clear
  <2>2. \A d \in InFlight({"page"}) : ~(calls[d].step = "done" \/ calls[d].arg > 1)
    BY <1>2, <2>1 DEF Blames, Shifting
  <2>3. \A d \in Call : Flying(d) /\ calls[d].what = "page" =>
           ~(calls[d].step = "done") /\ ~(calls[d].arg > 1)
    BY <2>2 DEF InFlight, Flying
  <2>4. Coming \subseteq Unread /\ Ids \intersect Coming = {}
        /\ \A d \in Call : Flying(d) /\ calls[d].what \in {"read", "delete"} => calls[d].arg \notin Coming
    BY <1>1, <2>1 DEF CallsTell
  <2> QED BY <1>2, <1>5, <1>6, <1>8, <1>10, <2>3, <2>4
<1>13. EntriesTell'
  <2>1. \A i \in DOMAIN listed : listed[i].id \in Ids
    BY DEF Ids
  <2>2. \A m \in Ids : (m \in Kept' <=> m \in Kept) /\ note'[m] = note[m]
    BY <1>4, <1>6, SetsAre
  <2> QED BY <1>1, <1>2, <1>7, <1>9, <2>1, <2>2 DEF EntriesTell
<1>14. Reaches'
  <2> SUFFICES ASSUME Clear({"missed", "unheard", "crossed"})'
      PROVE /\ \A d \in Call : /\ Landed(d, {"wipe"})' => Kept' \subseteq Coming'
                               /\ Landed(d, {"all"})' => Unread' \subseteq Coming'
            /\ \A m \in Coming' : Missing(m)' = {}
            /\ Clear({"shifted"})' =>
                /\ \A i, j \in DOMAIN listed' : listed'[i].id = listed'[j].id => i = j
                /\ \A m \in Ids' \intersect Kept' : Cardinality(Missing(m)') <= Cardinality(Dead')
    BY DEF Reaches
  <2>1. Clear({"missed", "unheard", "crossed"}) /\ blame \subseteq blame'
    BY <1>3, ClearWas
  <2>2. \A m : Missing(m)' = Missing(m)
    BY <1>5, <1>6 DEF Missing
  <2>3. Missing(n) = {}
    <3>1. \A m \in Kept : m < n /\ m \in Nat /\ n \in Nat
      BY <1>6, KeptAre, NotesAre
    <3> QED BY <3>1 DEF Missing
  <2>4. Dead' = Dead
    BY <1>5, <1>6, <1>7 DEF Dead
  <2>5. Clear({"shifted"})' => Clear({"shifted"})
    BY <2>1 DEF Clear
  <2> QED BY <1>1, <1>2, <1>5, <1>6, <1>8, <2>1, <2>2, <2>3, <2>4, <2>5 DEF Reaches
<1>15. Ordered'
  <2>1. n \in Nat /\ \A m \in Kept \union Ids \union Coming : m \in Nat
    BY SetsAre, KeptAre, NotesAre
  <2>2. Pushed \subseteq Coming /\ due \subseteq Coming
    BY DEF Coming
  <2> QED BY <1>1, <1>2, <1>5, <1>6, <1>9, <2>1, <2>2 DEF Ordered
<1>16. OneChange'
  BY <1>1, <1>2, <1>9 DEF OneChange, InFlight
<1>17. ChangeTells'
  <2>1. \A d \in InFlight(Change) : d \in Call /\ Flying(d)
    BY DEF InFlight, Flying
  <2>2. InFlight(Change)' = InFlight(Change)
    BY <1>2 DEF InFlight
  <2>3. Clear({"crossed", "lost", "hasty"})' => Clear({"crossed", "lost", "hasty"})
    BY <1>9
  <2> QED BY <1>1, <1>2, <1>5, <1>10, <2>1, <2>2, <2>3 DEF ChangeTells
<1>18. BadgeTells' /\ CountTells'
  <2>1. /\ Unread' \ Coming' = Unread \ Coming /\ (Unread \subseteq Coming => Unread' \subseteq Coming')
        /\ Kept' \ Coming' = Kept \ Coming /\ (Kept \subseteq Coming => Kept' \subseteq Coming')
    BY <1>5, <1>6, KeptAre
  <2>2. Owing' = Owing /\ Parting' = Parting /\ (Asked' <=> Asked)
    BY <1>2 DEF Owing, Parting, Asked, Flying, Landed
  <2>3. BadgeTells'
    BY <1>1, <1>2, <1>8, <1>9, <2>1, <2>2 DEF BadgeTells
  <2>4. CountTells'
    BY <1>1, <1>2, <1>8, <1>9, <2>1, <2>2 DEF CountTells
  <2> QED BY <2>3, <2>4
<1>19. WillAsk'
  <2>1. Asked' <=> Asked
    BY <1>2 DEF Asked, Flying
  <2>2. "lost" \in blame' \/ "lost" \notin blame \/ "unheard" \notin blame'
    BY <1>2 DEF Blames
  <2> QED BY <1>1, <1>2, <1>3, <2>1, <2>2 DEF WillAsk, Clear
<1> QED BY <1>11, <1>12, <1>13, <1>14, <1>15, <1>16, <1>17, <1>18, <1>19 DEF InboxInv

LEMMA PublishKeeps ==
  ASSUME InboxInv, NEW n \in Note, Publish(n) PROVE InboxInv'
<1>1. InboxWell /\ CallsTell /\ Reaches /\ Ordered /\ BadgeTells /\ CountTells /\ WillAsk
  BY DEF InboxInv
<1> DEFINE K == (CASE link = "on" -> {} [] link = "open" -> {"missed"} [] OTHER -> {"unheard"})
               \union (IF \E m \in due : m < n THEN {"swapped"} ELSE {})
<1>2. /\ n \in due /\ due' = due \ {n} /\ pushes' = Announced(n)
      /\ note' = note /\ listed' = listed /\ upto' = upto
      /\ badge' = badge /\ count' = count /\ side' = side /\ link' = link /\ calls' = calls
      /\ breaks' = breaks /\ presses' = presses
      /\ link \in {"down", "open", "on"} /\ Blames(K)
  BY <1>1 DEF Publish, InboxWell, InboxTypeOK, copy, Blaming, Blames
<1>3. /\ K \in SUBSET Blame /\ "lost" \notin K
      /\ link # "on" => ("missed" \in K \/ "unheard" \in K) /\ (link = "open" <=> "unheard" \notin K)
      /\ ("swapped" \in K <=> \E m \in due : m < n) /\ (link = "on" => "unheard" \notin K)
  BY <1>2 DEF Blame
<1> HIDE DEF K
<1>4. /\ Grown /\ blame' \subseteq Blame /\ ("crossed" \in blame' => blame' = {"crossed"})
      /\ "crossed" \notin blame' => blame' = blame \union K
  BY <1>1, <1>2, <1>3, BlameIs
<1>5. /\ Ids' = Ids /\ Kept' = Kept /\ Unread' = Unread
      /\ \A d \in Call : (Flying(d)' <=> Flying(d)) /\ \A S : Landed(d, S)' <=> Landed(d, S)
      /\ Owing' = Owing /\ Parting' = Parting /\ (Asked' <=> Asked)
  BY <1>2 DEF Ids, Kept, Unread, Flying, Owing, Parting, Asked, Landed
<1>6. /\ pushes \in Seq(Note) /\ DOMAIN pushes = 1 .. Len(pushes) /\ Len(pushes) \in Nat
  BY SetsAre
<1>7. n \notin Pushed
  BY <1>1, <1>2 DEF InboxWell
<1>8. ASSUME link = "on"
      PROVE /\ Len(pushes') = Len(pushes) + 1 /\ pushes' \in Seq(Note)
            /\ DOMAIN pushes' = 1 .. Len(pushes) + 1
            /\ pushes'[Len(pushes) + 1] = n /\ \A i \in DOMAIN pushes : pushes'[i] = pushes[i]
            /\ Pushed' = Pushed \union {n} /\ Coming' = Coming
  <2>1. pushes' = Append(pushes, n)
    BY <1>2, <1>8 DEF Announced
  <2>2. /\ Len(pushes') = Len(pushes) + 1 /\ pushes' \in Seq(Note)
        /\ DOMAIN pushes' = 1 .. Len(pushes) + 1
        /\ pushes'[Len(pushes) + 1] = n /\ \A i \in DOMAIN pushes : pushes'[i] = pushes[i]
    BY <2>1, <1>6
  <2>3. Pushed' = Pushed \union {n}
    BY <2>2, <1>6 DEF Pushed
  <2> QED BY <1>2, <2>2, <2>3 DEF Coming
<1>9. ASSUME link # "on"
      PROVE pushes' = pushes /\ Pushed' = Pushed /\ Coming' = Coming \ {n}
  <2>1. pushes' = pushes
    BY <1>2, <1>9 DEF Announced
  <2> QED BY <1>2, <1>7, <2>1 DEF Pushed, Coming
<1>10. Coming' \subseteq Coming
  BY <1>8, <1>9
<1>11. InboxWell'
  <2>1. InboxTypeOK'
    BY <1>1, <1>2, <1>4, <1>8, <1>9 DEF InboxWell, InboxTypeOK
  <2>2. \A m : Born(m)' <=> Born(m)
    BY <1>2 DEF Born
  <2>3. \A d \in Call : Fit(d)' <=> Fit(d)
    BY <1>2 DEF Fit, AnswerWell, Born
  <2>4. due' \intersect Pushed' = {}
    BY <1>1, <1>2, <1>8, <1>9 DEF InboxWell
  <2>5. \A i, j \in DOMAIN pushes' : pushes'[i] = pushes'[j] => i = j
    <3>1. \A i, j \in DOMAIN pushes : pushes[i] = pushes[j] => i = j
      BY <1>1 DEF InboxWell
    <3>2. CASE link = "on"
      <4>1. \A i \in DOMAIN pushes : pushes[i] # n
        BY <1>7 DEF Pushed
      <4>2. \A i \in DOMAIN pushes' : i \in DOMAIN pushes \/ i = Len(pushes) + 1
        BY <1>6, <1>8, <3>2
      <4> QED BY <1>8, <3>1, <3>2, <4>1, <4>2
    <3>3. CASE link # "on"
      BY <1>9, <3>1, <3>3
    <3> QED BY <3>2, <3>3
  <2> QED BY <1>1, <1>2, <1>4, <1>5, <1>10, <2>1, <2>2, <2>3, <2>4, <2>5 DEF InboxWell
<1>12. CallsTell'
  <2> SUFFICES ASSUME Clear({"crossed"})' PROVE
       /\ Coming' \subseteq Unread' /\ Ids' \intersect Coming' = {}
       /\ \A d \in Call : Flying(d)' =>
         /\ calls'[d].what \in {"read", "delete"} => calls'[d].arg \notin Coming'
         /\ calls'[d].what = "page" /\ calls'[d].step = "done" => PageFresh(d)'
         /\ calls'[d].what = "page" /\ calls'[d].arg > 1 => NextPage(d)'
    BY DEF CallsTell
  <2>1. Clear({"crossed"}) /\ blame \subseteq blame'
    BY <1>4, ClearWas
  <2>2. \A d \in Call : ~PageFresh(d) /\ (NextPage(d) => NextPage(d)')
    BY <1>2, <2>1 DEF PageFresh, NextPage, Clear
  <2> QED BY <1>1, <1>2, <1>5, <1>10, <2>1, <2>2 DEF CallsTell
<1>13. EntriesTell' /\ OneChange' /\ ChangeTells'
  BY <1>2, <1>4, CallsRest
<1>14. CASE link # "on"
  <2>1. "missed" \in blame' \/ "unheard" \in blame' \/ "crossed" \in blame'
    BY <1>3, <1>4, <1>14
  <2>2. Reaches' /\ Ordered' /\ BadgeTells' /\ CountTells'
    BY <2>1 DEF Reaches, Ordered, BadgeTells, CountTells, Clear
  <2>3. WillAsk'
    BY <1>1, <1>2, <1>3, <1>4, <1>5, <1>14 DEF WillAsk, Clear, Grown
  <2> QED BY <1>11, <1>12, <1>13, <2>2, <2>3 DEF InboxInv
<1>15. CASE link = "on"
  <2>1. Coming' = Coming
    BY <1>8, <1>15
  <2>2. \A S : Clear(S)' /\ "crossed" \in S => Clear(S) /\ blame \subseteq blame'
    BY <1>4, ClearWas
  <2>3. Dead' = Dead /\ \A m : Missing(m)' = Missing(m)
    <3>1. SameAnswers
      BY <1>2 DEF SameAnswers, Landed
    <3> QED BY <2>1, <3>1, <1>2, GapsRest
  <2>4. Reaches'
    BY <1>1, <1>2, <1>5, <2>1, <2>2, <2>3 DEF Reaches, Clear
  <2>5. BadgeTells'
    BY <1>1, <1>2, <1>5, <2>1, <2>2 DEF BadgeTells
  <2>6. CountTells'
    BY <1>1, <1>2, <1>5, <2>1, <2>2 DEF CountTells
  <2>7. Ordered'
    <3> SUFFICES ASSUME Clear({"missed", "unheard", "crossed", "shifted", "lost", "swapped"})'
        PROVE /\ \A i, j \in DOMAIN listed' : i < j => listed'[i].id > listed'[j].id
              /\ \A k \in Coming', m \in Ids' : k > m
              /\ \A i, j \in DOMAIN pushes' : i < j => pushes'[i] < pushes'[j]
              /\ \A k \in due', m \in Pushed' : k > m
      BY DEF Ordered
    <3>1. /\ \A i, j \in DOMAIN listed : i < j => listed[i].id > listed[j].id
          /\ \A k \in Coming, m \in Ids : k > m
          /\ \A i, j \in DOMAIN pushes : i < j => pushes[i] < pushes[j]
          /\ \A k \in due, m \in Pushed : k > m
      BY <1>1, <2>2 DEF Ordered
    <3>2. "swapped" \notin K
      BY <1>4 DEF Clear
    <3>3. \A m \in due' : m > n
      <4>1. due \in SUBSET Nat
        BY SetsAre
      <4> QED BY <1>2, <1>3, <3>2, <4>1
    <3>4. \A m \in Pushed : n > m /\ m \in Nat /\ n \in Nat
      BY <1>2, <3>1, SetsAre, NotesAre
    <3>5. \A k \in due', m \in Pushed' : k > m
      BY <1>2, <1>8, <1>15, <3>1, <3>3
    <3>6. \A i, j \in DOMAIN pushes' : i < j => pushes'[i] < pushes'[j]
      <4>1. \A i \in DOMAIN pushes : pushes[i] < n
        BY <3>4 DEF Pushed
      <4>2. \A i, j \in DOMAIN pushes' : i < j => i \in DOMAIN pushes /\ (j \in DOMAIN pushes \/ j = Len(pushes) + 1)
        BY <1>6, <1>8, <1>15
      <4> QED BY <1>8, <1>15, <3>1, <4>1, <4>2
    <3> QED BY <1>2, <1>5, <2>1, <3>1, <3>5, <3>6
  <2>8. WillAsk'
    BY <1>1, <1>2, <1>3, <1>4, <1>5, <1>15 DEF WillAsk, Clear, Grown
  <2> QED BY <1>11, <1>12, <1>13, <2>4, <2>5, <2>6, <2>7, <2>8 DEF InboxInv
<1> QED BY <1>14, <1>15

LEMMA AnnounceKeeps ==
  ASSUME InboxInv, Announce PROVE InboxInv'
<1> DEFINE K == (IF side = "bell" THEN {"uncounted"} ELSE {})
               \union (IF InFlight({"page"} \union Change) # {} THEN {"crossed"} ELSE {})
<1>1. InboxWell /\ CallsTell /\ EntriesTell /\ Reaches /\ Ordered /\ BadgeTells /\ CountTells
      /\ WillAsk
  BY DEF InboxInv
<1>2. PICK h \in Note :
      /\ h = Head(pushes) /\ h \in Pushed /\ pushes # <<>> /\ pushes' = Tail(pushes)
      /\ h = pushes[1] /\ 1 \in DOMAIN pushes
  <2>1. Head(pushes) = pushes[1] /\ 1 \in DOMAIN pushes /\ pushes[1] \in Note
    BY SetsAre DEF Announce
  <2>2. pushes[1] \in Pushed
    BY <2>1 DEF Pushed
  <2> QED BY <2>1, <2>2 DEF Announce
<1>3. /\ listed' = <<[id |-> h, read |-> FALSE]>> \o listed
      /\ note' = note /\ due' = due /\ upto' = upto
      /\ badge' = badge + 1 /\ count' = Counted /\ side' = side /\ link' = link /\ calls' = calls
      /\ breaks' = breaks /\ presses' = presses /\ Blames(K) /\ K \in SUBSET Blame
      /\ badge \in Nat /\ count \in Nat
  BY <1>1, <1>2 DEF Announce, InboxWell, InboxTypeOK, server, Blaming, Blames, Blame
<1>4. /\ Grown /\ blame' \subseteq Blame /\ ("crossed" \in blame' => blame' = {"crossed"})
      /\ "crossed" \notin blame' => blame' = blame \union K /\ "crossed" \notin K
  BY <1>1, <1>3, BlameIs
<1>5. /\ Kept' = Kept /\ Unread' = Unread
      /\ \A d \in Call : (Flying(d)' <=> Flying(d)) /\ \A S : Landed(d, S)' <=> Landed(d, S)
      /\ \A m : Born(m)' <=> Born(m)
      /\ Asked' <=> Asked
  BY <1>3 DEF Kept, Unread, Flying, Asked, Landed, Born
<1>6. /\ DOMAIN listed = 1 .. Len(listed) /\ Len(listed) \in Nat /\ listed \in Seq(Entry)
      /\ DOMAIN pushes = 1 .. Len(pushes) /\ Len(pushes) \in Nat /\ pushes \in Seq(Note)
      /\ Len(pushes) # 0
  BY <1>2, SetsAre
<1>7. /\ listed' \in Seq(Entry) /\ Len(listed') = Len(listed) + 1
      /\ DOMAIN listed' = 1 .. Len(listed) + 1
      /\ listed'[1] = [id |-> h, read |-> FALSE]
      /\ \A i \in DOMAIN listed : listed'[i + 1] = listed[i]
  <2>1. <<[id |-> h, read |-> FALSE]>> \in Seq(Entry)
    BY DEF Entry
  <2> QED BY <1>3, <1>6, <2>1
<1>8. \A i \in DOMAIN listed' : i = 1 \/ \E j \in DOMAIN listed : i = j + 1
  <2> SUFFICES ASSUME NEW i \in 1 .. Len(listed) + 1, i # 1 PROVE \E j \in DOMAIN listed : i = j + 1
    BY <1>7
  <2>1. i - 1 \in 1 .. Len(listed) /\ i = (i - 1) + 1
    BY <1>6
  <2> QED BY <2>1, <1>6
<1>9. Ids' = Ids \union {h}
  <2>1. \A j \in DOMAIN listed : j + 1 \in DOMAIN listed'
    BY <1>6, <1>7
  <2>2. 1 \in DOMAIN listed' /\ listed'[1].id = h
    BY <1>6, <1>7
  <2> QED BY <1>7, <1>8, <2>1, <2>2 DEF Ids
<1>10. /\ pushes' \in Seq(Note) /\ Len(pushes') = Len(pushes) - 1
       /\ DOMAIN pushes' = 1 .. Len(pushes) - 1
       /\ \A i \in DOMAIN pushes' : i + 1 \in DOMAIN pushes /\ pushes'[i] = pushes[i + 1]
  BY <1>2, <1>6
<1>11. /\ \A i, j \in DOMAIN pushes : pushes[i] = pushes[j] => i = j
       /\ due \intersect Pushed = {} /\ h \notin due
  BY <1>1, <1>2 DEF InboxWell
<1>12. Pushed' = Pushed \ {h}
  <2>1. ASSUME NEW i \in DOMAIN pushes' PROVE pushes'[i] \in Pushed \ {h}
    <3>1. pushes[i + 1] \in Pushed /\ i + 1 # 1 /\ i + 1 \in DOMAIN pushes
      BY <1>6, <1>10 DEF Pushed
    <3> QED BY <3>1, <1>2, <1>10, <1>11
  <2>2. ASSUME NEW m \in Pushed \ {h} PROVE \E i \in DOMAIN pushes' : pushes'[i] = m
    <3>1. PICK j \in DOMAIN pushes : pushes[j] = m
      BY DEF Pushed
    <3>2. j - 1 \in DOMAIN pushes' /\ (j - 1) + 1 = j
      BY <3>1, <1>2, <1>6, <1>10
    <3> QED BY <3>1, <3>2, <1>10
  <2> QED BY <2>1, <2>2 DEF Pushed
<1>13. Coming' = Coming \ {h} /\ h \in Coming
  BY <1>2, <1>3, <1>11, <1>12 DEF Coming
<1>14. InboxWell'
  <2>1. InboxTypeOK'
    <3>1. count' \in Nat /\ badge' \in Nat
      BY <1>3 DEF Counted
    <3> QED BY <3>1, <1>1, <1>3, <1>4, <1>7, <1>10 DEF InboxWell, InboxTypeOK
  <2>2. \A d \in Call : Fit(d)' <=> Fit(d)
    BY <1>3, <1>5 DEF Fit, AnswerWell
  <2>3. \A m \in Ids' \union Coming' : Born(m)'
    BY <1>1, <1>5, <1>9, <1>13 DEF InboxWell
  <2>4. due' \intersect Pushed' = {}
    BY <1>3, <1>11, <1>12
  <2>5. \A i, j \in DOMAIN pushes' : pushes'[i] = pushes'[j] => i = j
    <3> SUFFICES ASSUME NEW i \in DOMAIN pushes', NEW j \in DOMAIN pushes', pushes'[i] = pushes'[j]
                 PROVE  i = j
      OBVIOUS
    <3>1. i + 1 = j + 1
      BY <1>10, <1>11
    <3> QED BY <3>1, <1>6, <1>10
  <2> QED BY <1>1, <1>3, <1>4, <1>5, <2>1, <2>2, <2>3, <2>4, <2>5 DEF InboxWell
<1>15. WillAsk'
  <2>1. "unheard" \in blame' => "unheard" \in blame /\ ("lost" \in blame => "lost" \in blame')
    BY <1>3 DEF Blames
  <2> QED BY <1>1, <1>3, <1>5, <2>1 DEF WillAsk, Clear
<1>16. CASE "crossed" \in blame'
  <2>1. /\ CallsTell' /\ EntriesTell' /\ Reaches' /\ Ordered' /\ OneChange' /\ ChangeTells'
        /\ BadgeTells' /\ CountTells'
    BY <1>16 DEF CallsTell, EntriesTell, Reaches, Ordered, OneChange, ChangeTells, BadgeTells,
                 CountTells, Clear
  <2> QED BY <1>14, <1>15, <2>1 DEF InboxInv
<1>17. CASE "crossed" \notin blame'
  <2>1. blame' = blame \union K /\ "crossed" \notin K /\ "crossed" \notin blame
    BY <1>4, <1>17
  <2>2. \A d \in Call : ~Flying(d) /\ ~Flying(d)' /\ \A S : ~Landed(d, S) /\ ~Landed(d, S)'
    <3>1. InFlight({"page"} \union Change) = {}
      BY <2>1
    <3>2. ASSUME NEW d \in Call PROVE ~Flying(d)
      BY <3>1, SlotIs, <1>1 DEF InboxWell, InFlight, Flying
    <3>3. \A d \in Call : \A S : Landed(d, S) => Flying(d)
      BY DEF Landed, Flying
    <3> QED BY <3>2, <3>3, <1>5
  <2>3. \A m : ~Buried(m) /\ ~Marked(m) /\ ~Buried(m)' /\ ~Marked(m)'
    BY <2>2 DEF Buried, Marked
  <2>4. \A S : Clear(S)' => Clear(S)
    BY <2>1 DEF Clear
  <2>5. /\ Coming \subseteq Unread /\ Ids \intersect Coming = {} /\ h \in Unread /\ h \notin Ids
        /\ h \in Kept
    <3>1. Coming \subseteq Unread /\ Ids \intersect Coming = {}
      BY <1>1, <2>1 DEF CallsTell, Clear
    <3> QED BY <3>1, <1>13, KeptAre
  <2>6. CallsTell'
    BY <1>5, <1>9, <1>13, <2>2, <2>5 DEF CallsTell
  <2>7. OneChange' /\ ChangeTells'
    <3>1. InFlight(Change)' = {}
      BY <2>2 DEF InFlight, Flying
    <3> QED BY <3>1 DEF OneChange, ChangeTells
  <2>8. EntriesTell'
    <3> SUFFICES ASSUME Clear({"crossed", "lost"})', NEW i \in DOMAIN listed'
        PROVE /\ listed'[i].id \in Kept
              /\ listed'[i].read <=> note[listed'[i].id] = "read"
      BY <1>3, <1>5, <2>3 DEF EntriesTell
    <3>1. CASE i = 1
      BY <3>1, <1>7, <2>5 DEF Unread
    <3>2. ASSUME NEW j \in DOMAIN listed, i = j + 1
          PROVE /\ listed'[i].id \in Kept
                /\ listed'[i].read <=> note[listed'[i].id] = "read"
      <4>1. /\ listed[j].id \in Kept
            /\ listed[j].read <=> note[listed[j].id] = "read"
        BY <1>1, <2>3, <2>4 DEF EntriesTell
      <4> QED BY <3>2, <4>1, <1>7
    <3> QED BY <1>8, <3>1, <3>2
  <2>9. Reaches'
    <3> SUFFICES ASSUME Clear({"missed", "unheard", "crossed"})'
        PROVE /\ \A d \in Call : /\ Landed(d, {"wipe"})' => Kept' \subseteq Coming'
                                 /\ Landed(d, {"all"})' => Unread' \subseteq Coming'
              /\ \A n \in Coming' : Missing(n)' = {}
              /\ Clear({"shifted"})' =>
                  /\ \A i, j \in DOMAIN listed' : listed'[i].id = listed'[j].id => i = j
                  /\ \A n \in Ids' \intersect Kept' : Cardinality(Missing(n)') <= Cardinality(Dead')
      BY DEF Reaches
    <3>1. /\ \A n \in Coming : Missing(n) = {}
          /\ Clear({"shifted"})' =>
                  /\ \A i, j \in DOMAIN listed : listed[i].id = listed[j].id => i = j
                  /\ \A n \in Ids \intersect Kept : Cardinality(Missing(n)) <= Cardinality(Dead)
      BY <1>1, <2>4 DEF Reaches
    <3>2. \A n : Missing(n)' = Missing(n)
      BY <1>5, <1>9, <1>13 DEF Missing
    <3>3. Dead' = Dead
      BY <1>5, <1>9, <2>3, <2>5 DEF Dead
    <3>4. Missing(h) = {} /\ Cardinality(Missing(h)) <= Cardinality(Dead)
      <4>1. Missing(h) = {}
        BY <1>13, <3>1
      <4>2. Cardinality(Dead) \in Nat
        BY SetsAre
      <4>3. Cardinality(Missing(h)) = 0
        BY <4>1, FS_EmptySet
      <4> QED BY <4>1, <4>2, <4>3
    <3>5. ASSUME Clear({"shifted"})', NEW i \in DOMAIN listed', NEW j \in DOMAIN listed',
                 listed'[i].id = listed'[j].id
          PROVE  i = j
      <4>1. \A k \in DOMAIN listed : listed[k].id # h
        BY <2>5 DEF Ids
      <4>2. \A k \in DOMAIN listed : listed'[k + 1].id # h
        BY <4>1, <1>7
      <4>3. listed'[1].id = h
        BY <1>7
      <4>4. CASE i = 1 \/ j = 1
        BY <1>8, <3>5, <4>2, <4>3, <4>4
      <4>5. CASE i # 1 /\ j # 1
        <5>1. PICK k \in DOMAIN listed : i = k + 1
          BY <1>8, <4>5
        <5>2. PICK l \in DOMAIN listed : j = l + 1
          BY <1>8, <4>5
        <5>3. listed[k].id = listed[l].id
          BY <1>7, <3>5, <5>1, <5>2
        <5> QED BY <3>1, <3>5, <5>1, <5>2, <5>3
      <4> QED BY <4>4, <4>5
    <3> QED BY <1>5, <1>9, <1>13, <2>2, <3>1, <3>2, <3>3, <3>4, <3>5
  <2>10. Ordered'
    <3> SUFFICES ASSUME Clear({"missed", "unheard", "crossed", "shifted", "lost", "swapped"})'
        PROVE /\ \A i, j \in DOMAIN listed' : i < j => listed'[i].id > listed'[j].id
              /\ \A k \in Coming', m \in Ids' : k > m
              /\ \A i, j \in DOMAIN pushes' : i < j => pushes'[i] < pushes'[j]
              /\ \A k \in due', m \in Pushed' : k > m
      BY DEF Ordered
    <3>1. /\ \A i, j \in DOMAIN listed : i < j => listed[i].id > listed[j].id
          /\ \A k \in Coming, m \in Ids : k > m
          /\ \A i, j \in DOMAIN pushes : i < j => pushes[i] < pushes[j]
          /\ \A k \in due, m \in Pushed : k > m
      BY <1>1, <2>4 DEF Ordered
    <3>2. ASSUME NEW i \in DOMAIN listed', NEW j \in DOMAIN listed', i < j
          PROVE  listed'[i].id > listed'[j].id
      <4>1. PICK l \in DOMAIN listed : j = l + 1
        BY <3>2, <1>6, <1>7, <1>8
      <4>2. CASE i = 1
        <5>1. listed[l].id \in Ids
          BY DEF Ids
        <5>2. h > listed[l].id
          BY <3>1, <1>13, <5>1
        <5> QED BY <4>1, <4>2, <5>2, <1>7
      <4>3. ASSUME NEW k \in DOMAIN listed, i = k + 1 PROVE listed'[i].id > listed'[j].id
        <5>1. k < l
          BY <3>2, <4>1, <4>3, <1>6
        <5> QED BY <3>1, <4>1, <4>3, <5>1, <1>7
      <4> QED BY <1>8, <4>2, <4>3
    <3>3. \A k \in Coming' : k > h
      <4>1. \A i \in DOMAIN pushes' : pushes'[i] > h
        <5> SUFFICES ASSUME NEW i \in DOMAIN pushes' PROVE pushes'[i] > h
          OBVIOUS
        <5>1. i + 1 \in DOMAIN pushes /\ 1 < i + 1 /\ pushes'[i] = pushes[i + 1]
          BY <1>6, <1>10
        <5>2. pushes[1] < pushes[i + 1]
          BY <3>1, <1>2, <5>1
        <5>3. pushes[1] \in Nat /\ pushes[i + 1] \in Nat
          <6>1. pushes[1] \in Note /\ pushes[i + 1] \in Note
            BY <1>2, <1>6, <5>1
          <6> QED BY <6>1, NotesAre
        <5> QED BY <1>2, <5>1, <5>2, <5>3
      <4>2. \A k \in due' : k > h
        BY <3>1, <1>2, <1>3
      <4> QED BY <4>1, <4>2 DEF Coming, Pushed
    <3>4. \A i, j \in DOMAIN pushes' : i < j => pushes'[i] < pushes'[j]
      <4> SUFFICES ASSUME NEW i \in DOMAIN pushes', NEW j \in DOMAIN pushes', i < j
                   PROVE  pushes'[i] < pushes'[j]
        OBVIOUS
      <4>1. i + 1 < j + 1
        BY <1>6, <1>10
      <4> QED BY <1>10, <3>1, <4>1
    <3>5. \A k \in due', m \in Pushed' : k > m
      BY <1>3, <1>12, <3>1
    <3> QED BY <1>9, <1>13, <3>1, <3>2, <3>3, <3>4, <3>5
  <2>11. Owing = {} /\ Owing' = {} /\ Parting = {} /\ Parting' = {}
    BY <2>2 DEF Owing, Parting
  <2>12. IsFiniteSet(Unread \ Coming) /\ IsFiniteSet(Kept \ Coming) /\ IsFiniteSet({h})
    <3>1. (Unread \ Coming) \in SUBSET Kept /\ (Kept \ Coming) \in SUBSET Kept /\ {h} \in SUBSET Kept
      BY KeptAre, <2>5
    <3> QED BY <3>1, KeptAre
  <2>13. /\ Unread' \ Coming' = (Unread \ Coming) \union {h} /\ h \notin Unread \ Coming
         /\ Kept' \ Coming' = (Kept \ Coming) \union {h} /\ h \notin Kept \ Coming
    BY <1>5, <1>13, <2>5
  <2>14. /\ Cardinality(Unread' \ Coming') = Cardinality(Unread \ Coming) + 1
         /\ Cardinality(Kept' \ Coming') = Cardinality(Kept \ Coming) + 1
         /\ Cardinality(Unread \ Coming) \in Nat /\ Cardinality(Kept \ Coming) \in Nat
    BY <2>12, <2>13, FS_AddElement, FS_CardinalityType
  <2>15. BadgeTells'
    <3> SUFFICES ASSUME Clear({"missed", "unheard", "crossed", "hasty", "lost"})', ~Asked'
                 PROVE  badge' = Cardinality((Unread' \ Coming') \union Owing')
      BY DEF BadgeTells
    <3>1. badge = Cardinality((Unread \ Coming) \union Owing)
      BY <1>1, <1>5, <2>2, <2>4 DEF BadgeTells
    <3>2. badge = Cardinality(Unread \ Coming) /\ (Unread' \ Coming') \union Owing' = Unread' \ Coming'
      BY <3>1, <2>11
    <3> QED BY <3>2, <1>3, <2>14
  <2>16. CountTells'
    <3> SUFFICES ASSUME Clear({"missed", "unheard", "crossed", "lost", "uncounted"})', ~Asked'
                 PROVE  count' >= Cardinality((Kept' \ Coming') \union Parting')
      BY DEF CountTells
    <3>1. side # "bell" /\ side = "store"
      BY <1>1, <2>1 DEF Clear, InboxWell, InboxTypeOK
    <3>2. Kept \subseteq Coming \/ count >= Cardinality((Kept \ Coming) \union Parting)
      BY <1>1, <1>5, <2>4 DEF CountTells
    <3>3. (Kept \ Coming) \union Parting = Kept \ Coming /\ (Kept' \ Coming') \union Parting' = Kept' \ Coming'
      BY <2>11
    <3>4. count' = count + 1
      BY <1>3, <3>1 DEF Counted
    <3>7. /\ Cardinality((Kept' \ Coming') \union Parting') = Cardinality(Kept \ Coming) + 1
          /\ Cardinality((Kept \ Coming) \union Parting) = Cardinality(Kept \ Coming)
      BY <2>14, <3>3
    <3>8. count \in Nat /\ Cardinality(Kept \ Coming) \in Nat
      BY <1>3, <2>14
    <3>5. CASE Kept \subseteq Coming
      <4>1. Cardinality(Kept \ Coming) = 0
        <5>1. Kept \ Coming = {}
          BY <3>5
        <5> QED BY <5>1, FS_EmptySet
      <4> QED BY <4>1, <3>4, <3>7, <3>8
    <3>6. CASE count >= Cardinality((Kept \ Coming) \union Parting)
      BY <3>4, <3>6, <3>7, <3>8
    <3> QED BY <3>2, <3>5, <3>6
  <2> QED BY <1>14, <1>15, <2>6, <2>7, <2>8, <2>9, <2>10, <2>15, <2>16 DEF InboxInv
<1> QED BY <1>16, <1>17

-----------------------------------------------------------------------------
(* Serving.  What a served request makes of the table. *)
LEMMA ChangedIs ==
  ASSUME InboxInv, NEW c \in Call, ServeCall(c)
  PROVE  /\ note' \in [Note -> Fate] /\ Kept' \subseteq Kept /\ Unread' \subseteq Unread
         /\ \A m \in Note : /\ note'[m] = "unborn" <=> note[m] = "unborn"
                            /\ note[m] # "unread" => note'[m] # "unread"
                            /\ note[m] = "deleted" => note'[m] = "deleted"
         /\ calls[c].what = "page" => note' = note
         /\ calls[c].what = "read" => /\ calls[c].arg \in Kept
              /\ note' = [note EXCEPT ![calls[c].arg] = "read"]
         /\ calls[c].what = "delete" => /\ calls[c].arg \in Kept
              /\ note' = [note EXCEPT ![calls[c].arg] = "deleted"]
         /\ calls[c].what = "all" =>
              note' = [n \in Note |-> IF note[n] = "unread" THEN "read" ELSE note[n]]
         /\ calls[c].what = "wipe" => note' = [n \in Note |-> IF n \in Kept THEN "deleted" ELSE note[n]]
<1> DEFINE q == calls[c]
<1>1. /\ note \in [Note -> Fate] /\ q.what \in {"page"} \union Change
      /\ note' = Changed(q) /\ ~Refused(q)
  <2>1. Flying(c) /\ InboxTypeOK
    BY DEF ServeCall, Flying, InboxInv, InboxWell
  <2> QED BY <2>1, SlotIs DEF ServeCall, InboxTypeOK
<1> HIDE DEF q
<1>2. q.what \in {"read", "delete"} => q.arg \in Kept
  BY <1>1 DEF Refused
<1>3. CASE q.what = "page"
  <2>1. note' = note
    BY <1>1, <1>3 DEF Changed
  <2> QED BY <1>1, <1>3, <2>1 DEF Kept, Unread, q
<1>4. CASE q.what = "read"
  <2>1. note' = [note EXCEPT ![q.arg] = "read"] /\ q.arg \in Kept
    BY <1>1, <1>2, <1>4 DEF Changed
  <2> QED BY <1>1, <1>4, <2>1 DEF Kept, Unread, Fate, q
<1>5. CASE q.what = "delete"
  <2>1. note' = [note EXCEPT ![q.arg] = "deleted"] /\ q.arg \in Kept
    BY <1>1, <1>2, <1>5 DEF Changed
  <2> QED BY <1>1, <1>5, <2>1 DEF Kept, Unread, Fate, q
<1>6. CASE q.what = "all"
  <2>1. note' = [n \in Note |-> IF note[n] = "unread" THEN "read" ELSE note[n]]
    BY <1>1, <1>6 DEF Changed
  <2> QED BY <1>1, <1>6, <2>1 DEF Kept, Unread, Fate, q
<1>7. CASE q.what = "wipe"
  <2>1. note' = [n \in Note |-> IF n \in Kept THEN "deleted" ELSE note[n]]
    BY <1>1, <1>7 DEF Changed
  <2> QED BY <1>1, <1>7, <2>1 DEF Kept, Unread, Fate, q
<1> QED BY <1>1, <1>3, <1>4, <1>5, <1>6, <1>7 DEF Change

LEMMA AnsweredIs ==
  ASSUME InboxInv, NEW c \in Call, ServeCall(c)
  PROVE  /\ calls'[c] \in Sent /\ calls'[c].step = "done" /\ calls'[c].what = calls[c].what
         /\ calls'[c].arg = calls[c].arg /\ calls'[c].unread = calls[c].unread
         /\ calls[c].what = "page" =>
              /\ calls'[c].items = Entries(Page(calls[c].arg))
              /\ calls'[c].total = Cardinality(Kept) /\ calls'[c].badge = Cardinality(Unread)
         /\ calls[c].what # "page" => calls'[c].items = calls[c].items
<1>1. /\ Flying(c) /\ InboxTypeOK /\ calls \in [Call -> Sent \union {Idle}]
      /\ calls' = [calls EXCEPT ![c] = Answered(calls[c])]
  BY DEF ServeCall, Flying, InboxInv, InboxWell, InboxTypeOK
<1>2. calls'[c] = Answered(calls[c]) /\ calls[c] \in Sent
  BY <1>1, SlotIs
<1> DEFINE q == calls[c]
           E == Entries(Page(q.arg))
           T == Cardinality(Kept)
           B == Cardinality(Unread)
<1>3. E \in Seq(Entry) /\ T \in Nat /\ B \in Nat
  <2>1. Page(q.arg) \in SUBSET Note
    BY KeptAre DEF Page, Newest
  <2>2. Unread \in SUBSET Kept /\ Kept \in SUBSET Kept
    BY KeptAre
  <2> QED BY <2>1, <2>2, EntriesAre, KeptAre
<1>4. Answered(q) = IF q.what # "page" THEN [q EXCEPT !.step = "done"]
                    ELSE [q EXCEPT !.step = "done", !.items = E, !.total = T, !.badge = B]
  BY DEF Answered
<1>5. q \in Sent /\ calls'[c] = Answered(q)
  BY <1>2
<1> HIDE DEF E, T, B, q
<1>6. /\ calls'[c] \in Sent /\ calls'[c].step = "done" /\ calls'[c].what = q.what
      /\ calls'[c].arg = q.arg /\ calls'[c].unread = q.unread
      /\ q.what = "page" =>
              calls'[c].items = E /\ calls'[c].total = T /\ calls'[c].badge = B
      /\ q.what # "page" => calls'[c].items = q.items
  <2>1. CASE q.what # "page"
    <3>1. calls'[c] = [q EXCEPT !.step = "done"]
      BY <1>4, <1>5, <2>1
    <3> QED BY <1>5, <2>1, <3>1 DEF Sent
  <2>2. CASE q.what = "page"
    <3>1. calls'[c] = [q EXCEPT !.step = "done", !.items = E, !.total = T, !.badge = B]
      BY <1>4, <1>5, <2>2
    <3> QED BY <1>3, <1>5, <2>2, <3>1 DEF Sent
  <2> QED BY <2>1, <2>2
<1> QED BY <1>6 DEF q, E, T, B

LEMMA ServeFrame ==
  ASSUME InboxInv, NEW c \in Call, ServeCall(c)
  PROVE  /\ \A d \in Call : d # c => calls'[d] = calls[d]
         /\ \A d \in Call : Flying(d)' <=> Flying(d)
         /\ Flying(c) /\ calls[c].step = "sent" /\ calls[c].what \in {"page"} \union Change
         /\ due' = due /\ pushes' = pushes /\ listed' = listed /\ upto' = upto
         /\ badge' = badge /\ count' = count /\ side' = side /\ link' = link
         /\ breaks' = breaks /\ presses' = presses
         /\ Ids' = Ids /\ Coming' = Coming /\ Pushed' = Pushed
         /\ \A m : Born(m)' <=> Born(m)
         /\ Asked' <=> Asked
<1>1. /\ DOMAIN calls = Call /\ calls' = [calls EXCEPT ![c] = Answered(calls[c])]
      /\ calls[c].step = "sent" /\ Flying(c)
      /\ due' = due /\ pushes' = pushes /\ listed' = listed /\ upto' = upto
      /\ badge' = badge /\ count' = count /\ side' = side /\ link' = link
      /\ breaks' = breaks /\ presses' = presses
  BY DEF ServeCall, InboxInv, InboxWell, InboxTypeOK, copy, Flying
<1>2. \A d \in Call : d # c => calls'[d] = calls[d]
  BY <1>1
<1>3. /\ calls'[c].step = "done" /\ calls'[c].what = calls[c].what /\ calls'[c].arg = calls[c].arg
  BY AnsweredIs
<1>4. \A d \in Call : Flying(d)' <=> Flying(d)
  BY <1>1, <1>2, <1>3 DEF Flying
<1>5. Asked' <=> Asked
  BY <1>2, <1>3, <1>4 DEF Asked
<1>6. Ids' = Ids /\ Coming' = Coming /\ Pushed' = Pushed
  BY <1>1 DEF Ids, Coming, Pushed
<1>7. \A m : Born(m)' <=> Born(m)
  BY ChangedIs DEF Born
<1>8. calls[c].what \in {"page"} \union Change
  BY <1>1, SlotIs DEF InboxInv, InboxWell
<1> QED BY <1>1, <1>2, <1>4, <1>5, <1>6, <1>7, <1>8

LEMMA ServeBlame ==
  ASSUME InboxInv, NEW c \in Call, ServeCall(c)
  PROVE  /\ Grown /\ blame' \subseteq Blame /\ ("crossed" \in blame' => blame' = {"crossed"})
         /\ "unheard" \in blame' => "unheard" \in blame /\ ("lost" \in blame => "lost" \in blame')
         /\ "crossed" \notin blame' =>
              /\ "crossed" \notin blame /\ blame' = blame /\ due = {} /\ pushes = <<>> /\ Coming = {}
              /\ \A d \in Call : Flying(d) /\ d # c => calls[c].what # "page" /\ calls[d].what # "page"
<1> DEFINE A == Crossing(c)
           B == IF due # {} \/ pushes # <<>> THEN {"crossed"} ELSE {}
<1>1. Blames(A \union B) /\ (A \union B) \in SUBSET Blame /\ A \union B \in SUBSET {"crossed"}
  BY DEF ServeCall, Blaming, Blames, Crossing, Blame
<1>2. InboxWell
  BY DEF InboxInv
<1>3. /\ Grown /\ blame' \subseteq Blame /\ ("crossed" \in blame' => blame' = {"crossed"})
  BY <1>1, <1>2, BlameIs
<1>4. "unheard" \in blame' => "unheard" \in blame /\ ("lost" \in blame => "lost" \in blame')
  BY <1>1 DEF Blames
<1>5. ASSUME "crossed" \notin blame'
      PROVE  /\ "crossed" \notin blame /\ blame' = blame /\ due = {} /\ pushes = <<>> /\ Coming = {}
             /\ \A d \in Call : Flying(d) /\ d # c => calls[c].what # "page" /\ calls[d].what # "page"
  <2>1. "crossed" \notin blame /\ "crossed" \notin A /\ "crossed" \notin B /\ blame' = blame
    BY <1>1, <1>5 DEF Blames
  <2>2. due = {} /\ pushes = <<>>
    BY <2>1
  <2>3. Coming = {}
    BY <2>2 DEF Coming, Pushed
  <2>4. (IF calls[c].what = "page" THEN InFlight(Change \union {"page"}) \ {c}
         ELSE InFlight({"page"}) \ {c}) = {}
    BY <2>1 DEF Crossing
  <2>5. ASSUME NEW d \in Call, Flying(d), d # c
        PROVE  calls[c].what # "page" /\ calls[d].what # "page"
    <3>1. calls[d].what \in {"page"} \union Change /\ calls[d].step # "idle"
      BY <1>2, <2>5, SlotIs DEF InboxWell, Flying
    <3>2. CASE calls[c].what = "page"
      <4>1. d \in InFlight(Change \union {"page"}) \ {c}
        BY <2>5, <3>1 DEF InFlight
      <4> QED BY <2>4, <3>2, <4>1
    <3>3. CASE calls[c].what # "page"
      <4>1. d \notin InFlight({"page"})
        BY <2>4, <2>5, <3>3
      <4> QED BY <3>1, <3>3, <4>1 DEF InFlight
    <3> QED BY <3>2, <3>3
  <2> QED BY <2>1, <2>2, <2>3, <2>5
<1> QED BY <1>3, <1>4, <1>5

LEMMA ServeCallWell ==
  ASSUME InboxInv, NEW c \in Call, ServeCall(c)
  PROVE  InboxWell'
<1>1. InboxWell
  BY DEF InboxInv
<1>2. /\ \A d \in Call : d # c => calls'[d] = calls[d]
      /\ \A d \in Call : Flying(d)' <=> Flying(d)
      /\ Flying(c) /\ calls[c].step = "sent" /\ calls[c].what \in {"page"} \union Change
      /\ due' = due /\ pushes' = pushes /\ listed' = listed /\ upto' = upto
      /\ badge' = badge /\ count' = count /\ side' = side /\ link' = link
      /\ breaks' = breaks /\ presses' = presses
      /\ Ids' = Ids /\ Coming' = Coming /\ Pushed' = Pushed
      /\ \A m : Born(m)' <=> Born(m)
  BY ServeFrame
<1>3. /\ calls'[c] \in Sent /\ calls'[c].step = "done" /\ calls'[c].what = calls[c].what
      /\ calls'[c].arg = calls[c].arg
      /\ calls[c].what = "page" => calls'[c].items = Entries(Page(calls[c].arg))
      /\ calls[c].what # "page" => calls'[c].items = calls[c].items
  BY AnsweredIs
<1>4. /\ note' \in [Note -> Fate]
      /\ \A m \in Note : /\ note'[m] = "unborn" <=> note[m] = "unborn"
                         /\ note[m] # "unread" => note'[m] # "unread"
                         /\ note[m] = "deleted" => note'[m] = "deleted"
  BY ChangedIs
<1>5. blame' \subseteq Blame /\ ("crossed" \in blame' => blame' = {"crossed"})
  BY ServeBlame
<1>6. InboxTypeOK'
  <2>1. calls' \in [Call -> Sent \union {Idle}]
    <3>1. calls \in [Call -> Sent \union {Idle}] /\ calls' = [calls EXCEPT ![c] = Answered(calls[c])]
      BY <1>1 DEF ServeCall, InboxWell, InboxTypeOK
    <3>2. calls'[c] \in Sent /\ calls'[c] = Answered(calls[c])
      BY <1>3, <3>1
    <3> QED BY <3>1, <3>2
  <2> QED BY <2>1, <1>1, <1>2, <1>4, <1>5 DEF InboxWell, InboxTypeOK
<1>7. Fit(c) /\ calls[c] \in Sent
  BY <1>1, <1>2 DEF InboxWell, Fit, AnswerWell
<1>8. \A d \in Call : Flying(d)' => Fit(d)'
  <2>1. ASSUME NEW d \in Call, d # c, Flying(d)' PROVE Fit(d)'
    <3>1. Fit(d) /\ calls'[d] = calls[d]
      BY <1>1, <1>2, <2>1 DEF InboxWell
    <3>2. /\ calls[d].what \in {"read", "delete"} => calls[d].arg \in Note
      BY <3>1 DEF Fit, AnswerWell, Born
    <3> QED BY <3>1, <3>2, <1>2, <1>4 DEF Fit, AnswerWell
  <2>2. Fit(c)'
    <3>1. \A i \in DOMAIN calls'[c].items : Born(calls'[c].items[i].id)
      <4>1. CASE calls[c].what = "page"
        <5>1. Page(calls[c].arg) \in SUBSET Note /\ \A m \in Page(calls[c].arg) : Born(m)
          BY KeptAre DEF Page, Newest, Kept, Born
        <5>2. IdsOf(Entries(Page(calls[c].arg))) = Page(calls[c].arg)
          BY <5>1, EntriesAre
        <5> QED BY <1>3, <4>1, <5>1, <5>2 DEF IdsOf
      <4>2. CASE calls[c].what # "page"
        BY <1>3, <1>7, <4>2 DEF Fit, AnswerWell
      <4> QED BY <4>1, <4>2
    <3>2. calls[c].what = "read" => note'[calls[c].arg] # "unread"
      <4>1. calls[c].what = "read" => /\ calls[c].arg \in Kept
              /\ note' = [note EXCEPT ![calls[c].arg] = "read"]
        BY ChangedIs
      <4> QED BY <1>4, <4>1, KeptAre
    <3>3. calls[c].what = "delete" => note'[calls[c].arg] = "deleted"
      <4>1. calls[c].what = "delete" => /\ calls[c].arg \in Kept
              /\ note' = [note EXCEPT ![calls[c].arg] = "deleted"]
        BY ChangedIs
      <4>2. note \in [Note -> Fate]
        BY <1>1 DEF InboxWell, InboxTypeOK
      <4> QED BY <4>1, <4>2, KeptAre
    <3>4. /\ calls[c].what = "page" => calls[c].arg \in Nat \ {0}
          /\ calls[c].what \in {"read", "delete"} => Born(calls[c].arg)
      BY <1>7 DEF Fit, AnswerWell
    <3> QED BY <1>2, <1>3, <3>1, <3>2, <3>3, <3>4 DEF Fit, AnswerWell
  <2> QED BY <2>1, <2>2
<1>9. \A d, e \in Call :
       Landed(d, {"delete"})' /\ Landed(e, {"delete"})' /\ calls'[d].arg = calls'[e].arg => d = e
  <2>1. ASSUME NEW d \in Call, d # c, Landed(d, {"delete"})', Landed(c, {"delete"})',
               calls'[d].arg = calls'[c].arg
        PROVE  FALSE
    <3>1. Landed(d, {"delete"}) /\ calls'[d] = calls[d] /\ Flying(d)
      BY <1>2, <2>1 DEF Landed, Flying
    <3>2. note[calls[d].arg] = "deleted"
      BY <1>1, <3>1 DEF InboxWell, Fit, AnswerWell, Landed
    <3>3. calls[c].what = "delete" /\ calls[c].arg \in Kept
      BY <1>3, <2>1, ChangedIs DEF Landed
    <3>4. calls[c].arg = calls[d].arg
      BY <1>3, <2>1, <3>1
    <3> QED BY <3>2, <3>3, <3>4 DEF Kept
  <2>2. \A d \in Call : d # c /\ Landed(d, {"delete"})' => Landed(d, {"delete"}) /\ calls'[d] = calls[d]
    BY <1>2 DEF Landed
  <2>3. ASSUME NEW d \in Call, NEW e \in Call, d # c, e # c, Landed(d, {"delete"})',
               Landed(e, {"delete"})', calls'[d].arg = calls'[e].arg
        PROVE  d = e
    BY <1>1, <2>2, <2>3 DEF InboxWell
  <2> QED BY <2>1, <2>3
<1>10. \A m, n \in Note : m < n /\ note'[m] = "unborn" => note'[n] = "unborn"
  BY <1>1, <1>4 DEF InboxWell
<1> QED BY <1>1, <1>2, <1>5, <1>6, <1>8, <1>9, <1>10 DEF InboxWell

LEMMA ServePageKeeps ==
  ASSUME InboxInv, NEW c \in Call, ServeCall(c), calls[c].what = "page", "crossed" \notin blame'
  PROVE  /\ CallsTell' /\ EntriesTell' /\ Reaches' /\ Ordered' /\ OneChange' /\ ChangeTells'
         /\ BadgeTells' /\ CountTells'
<1>1. /\ \A d \in Call : d # c => calls'[d] = calls[d]
      /\ \A d \in Call : Flying(d)' <=> Flying(d)
      /\ Flying(c) /\ calls[c].step = "sent"
      /\ due' = due /\ pushes' = pushes /\ listed' = listed /\ upto' = upto
      /\ badge' = badge /\ count' = count /\ side' = side
      /\ Ids' = Ids /\ Coming' = Coming
      /\ Asked' <=> Asked
  BY ServeFrame
<1>2. /\ calls'[c].step = "done" /\ calls'[c].what = "page"
      /\ calls'[c].arg = calls[c].arg /\ calls'[c].items = Entries(Page(calls[c].arg))
      /\ calls'[c].total = Cardinality(Kept) /\ calls'[c].badge = Cardinality(Unread)
  BY AnsweredIs
<1>3. /\ Grown /\ "crossed" \notin blame /\ blame' = blame /\ due = {} /\ pushes = <<>> /\ Coming = {}
      /\ \A d \in Call : d # c => ~Flying(d)
  BY ServeBlame
<1>4. note' = note
  BY ChangedIs
<1>5. Kept' = Kept /\ Unread' = Unread
      /\ Entries(Page(calls[c].arg))' = Entries(Page(calls[c].arg))'
  BY <1>4 DEF Kept, Unread
<1>6. \A d \in Call : ~Landed(d, Change) /\ ~Landed(d, Change)'
  <2>1. ~Landed(c, Change) /\ ~Landed(c, Change)'
    BY <1>2 DEF Landed, Change
  <2>2. \A d \in Call : d # c => ~Landed(d, Change) /\ ~Landed(d, Change)'
    BY <1>1, <1>3 DEF Landed, Flying
  <2> QED BY <2>1, <2>2
<1>7. Resting
  <2>1. SameAnswers
    BY <1>1, <1>6 DEF SameAnswers
  <2> QED BY <2>1, <1>1, <1>3, <1>4 DEF Resting
<1>8. EntriesTell' /\ Reaches' /\ Ordered' /\ BadgeTells' /\ CountTells'
  BY <1>7, RestingKeeps
<1>9. OneChange' /\ ChangeTells'
  <2>1. InFlight(Change)' = {}
    BY <1>1, <1>2, <1>3 DEF InFlight, Flying, Change
  <2> QED BY <2>1 DEF OneChange, ChangeTells
<1>10. PageFresh(c)'
  <2>1. Entries(Page(calls[c].arg))' = Entries(Page(calls[c].arg))
    BY <1>2, <1>4 DEF Entries, Page, Newest, Kept
  <2>2. \A d \in Call \ {c} : calls'[d].step # "done"
    BY <1>1, <1>3 DEF Flying
  <2>3. calls'[c].items = Entries(Page(calls[c].arg))'
    BY <1>2, <2>1
  <2> QED BY <1>1, <1>2, <1>3, <1>5, <2>2, <2>3 DEF PageFresh
<1>11. CallsTell'
  <2>1. calls[c].what = "page" /\ calls[c].arg > 1 => NextPage(c)
    BY <1>1, <1>3 DEF InboxInv, CallsTell, Clear
  <2>2. NextPage(c) => NextPage(c)'
    BY <1>1, <1>2, <1>3 DEF NextPage, Clear
  <2> QED BY <1>1, <1>2, <1>3, <1>10, <2>1, <2>2 DEF CallsTell
<1> QED BY <1>8, <1>9, <1>11

(* What a change finds that crosses no page and no announcement. *)
LEMMA ServeChangeFrame ==
  ASSUME InboxInv, NEW c \in Call, ServeCall(c), calls[c].what # "page", "crossed" \notin blame'
  PROVE  /\ calls[c].what \in Change
         /\ blame' = blame /\ "crossed" \notin blame /\ Coming = {} /\ Coming' = {}
         /\ \A d \in Call : Flying(d) => calls[d].what # "page" /\ calls'[d].what # "page"
         /\ ~Asked /\ ~Asked'
         /\ \A d \in Call : \A S : /\ d # c => (Landed(d, S)' <=> Landed(d, S)) /\ calls'[d] = calls[d]
                                   /\ ~Landed(c, S) /\ (Landed(c, S)' <=> calls[c].what \in S)
         /\ calls'[c].arg = calls[c].arg /\ calls'[c].what = calls[c].what
         /\ calls'[c].unread = calls[c].unread /\ calls'[c].step = "done"
         /\ calls[c].step = "sent"
         /\ InFlight(Change)' = InFlight(Change) /\ c \in InFlight(Change)
         /\ \A m : Buried(m)' <=> Buried(m) \/ calls[c].what = "wipe"
                                  \/ (calls[c].what = "delete" /\ m = calls[c].arg)
         /\ \A m : Marked(m)' <=> Marked(m) \/ calls[c].what = "all"
                                  \/ (calls[c].what = "read" /\ m = calls[c].arg)
<1>1. /\ \A d \in Call : d # c => calls'[d] = calls[d]
      /\ \A d \in Call : Flying(d)' <=> Flying(d)
      /\ Flying(c) /\ calls[c].step = "sent" /\ calls[c].what \in Change
      /\ Coming' = Coming /\ (Asked' <=> Asked)
  BY ServeFrame
<1>2. /\ calls'[c].step = "done" /\ calls'[c].what = calls[c].what /\ calls'[c].arg = calls[c].arg
      /\ calls'[c].unread = calls[c].unread
  BY AnsweredIs
<1>3. /\ blame' = blame /\ "crossed" \notin blame /\ Coming = {}
      /\ \A d \in Call : Flying(d) => calls[d].what # "page"
  BY ServeBlame
<1>4. ~Asked
  BY <1>3 DEF Asked
<1>5. \A d \in Call : \A S : /\ d # c => (Landed(d, S)' <=> Landed(d, S)) /\ calls'[d] = calls[d]
                             /\ ~Landed(c, S) /\ (Landed(c, S)' <=> calls[c].what \in S)
  BY <1>1, <1>2 DEF Landed
<1>6. InFlight(Change)' = InFlight(Change) /\ c \in InFlight(Change)
  <2>1. \A d \in Call : calls'[d].what = calls[d].what \/ d = c
    BY <1>1
  <2> QED BY <1>1, <1>2, <2>1 DEF InFlight, Flying
<1>7. \A m : Buried(m)' <=> Buried(m) \/ calls[c].what = "wipe"
                                  \/ (calls[c].what = "delete" /\ m = calls[c].arg)
  BY <1>2, <1>5 DEF Buried
<1>8. \A m : Marked(m)' <=> Marked(m) \/ calls[c].what = "all"
                                  \/ (calls[c].what = "read" /\ m = calls[c].arg)
  BY <1>2, <1>5 DEF Marked
<1> QED BY <1>1, <1>2, <1>3, <1>4, <1>5, <1>6, <1>7, <1>8

LEMMA ServeChangeEntries ==
  ASSUME InboxInv, NEW c \in Call, ServeCall(c), calls[c].what # "page", "crossed" \notin blame'
  PROVE  EntriesTell'
<1> DEFINE q == calls[c]
<1>1. /\ q.what \in Change
      /\ blame' = blame
      /\ \A m : Buried(m)' <=> Buried(m) \/ q.what = "wipe" \/ (q.what = "delete" /\ m = q.arg)
      /\ \A m : Marked(m)' <=> Marked(m) \/ q.what = "all" \/ (q.what = "read" /\ m = q.arg)
  BY ServeChangeFrame
<1>2. listed' = listed
  BY ServeFrame
<1>3. /\ q.what = "read" => q.arg \in Kept /\ note' = [note EXCEPT ![q.arg] = "read"]
      /\ q.what = "delete" => q.arg \in Kept /\ note' = [note EXCEPT ![q.arg] = "deleted"]
      /\ q.what = "all" => note' = [n \in Note |-> IF note[n] = "unread" THEN "read" ELSE note[n]]
      /\ q.what = "wipe" => note' = [n \in Note |-> IF n \in Kept THEN "deleted" ELSE note[n]]
      /\ Kept' \subseteq Kept
  BY ChangedIs
<1>4. note \in [Note -> Fate] /\ Kept \subseteq Note
  BY SetsAre, KeptAre
<1> SUFFICES ASSUME Clear({"crossed", "lost"})', NEW i \in DOMAIN listed
    PROVE /\ listed[i].id \in Kept' \/ Buried(listed[i].id)'
          /\ listed[i].id \in Kept' =>
               (listed[i].read \/ Marked(listed[i].id)' <=> note'[listed[i].id] = "read")
  BY <1>2 DEF EntriesTell
<1>5. PICK m : m = listed[i].id /\ m = listed'[i].id
  BY <1>2
<1>6. PICK b \in BOOLEAN : b = listed[i].read
  BY ListedAre
<1>7. /\ m \in Kept \/ Buried(m)
      /\ m \in Kept => (b \/ Marked(m) <=> note[m] = "read")
  <2>1. Clear({"crossed", "lost"})
    BY <1>1 DEF Clear
  <2> QED BY <1>5, <1>6, <2>1 DEF InboxInv, EntriesTell
<1> HIDE DEF q
<1>8. \A n \in Kept' : n \in Note /\ note'[n] \in {"unread", "read"}
  BY DEF Kept
<1>9. \A n \in Kept : n \in Note /\ note[n] \in {"unread", "read"}
  BY DEF Kept
<1>10. /\ m \in Kept' \/ Buried(m)'
       /\ m \in Kept' => (b \/ Marked(m)' <=> note'[m] = "read")
  <2>1. CASE q.what = "read"
    <3>1. \A n \in Kept : n \in Kept'
      BY <1>3, <1>4, <2>1 DEF Kept
    <3> QED BY <1>1, <1>3, <1>4, <1>7, <1>9, <2>1, <3>1
  <2>2. CASE q.what = "delete"
    <3>1. \A n \in Kept : n # q.arg => n \in Kept' /\ note'[n] = note[n]
      BY <1>3, <1>4, <2>2 DEF Kept
    <3>2. q.arg \notin Kept'
      BY <1>3, <1>4, <2>2 DEF Kept
    <3> QED BY <1>1, <1>3, <1>7, <2>2, <3>1, <3>2
  <2>3. CASE q.what = "all"
    <3>1. \A n \in Kept : n \in Kept' /\ note'[n] = "read"
      BY <1>3, <1>4, <2>3 DEF Kept
    <3> QED BY <1>1, <1>3, <1>7, <2>3, <3>1
  <2>4. CASE q.what = "wipe"
    <3>1. Kept' = {}
      BY <1>3, <1>4, <2>4 DEF Kept
    <3> QED BY <1>1, <2>4, <3>1
  <2> QED BY <1>1, <2>1, <2>2, <2>3, <2>4 DEF Change
<1> QED BY <1>2, <1>5, <1>6, <1>10

LEMMA ServeChangeReaches ==
  ASSUME InboxInv, NEW c \in Call, ServeCall(c), calls[c].what # "page", "crossed" \notin blame'
  PROVE  Reaches'
<1> DEFINE q == calls[c]
<1>1. /\ q.what \in Change /\ blame' = blame /\ Coming = {} /\ Coming' = {}
      /\ \A d \in Call : \A S : /\ d # c => (Landed(d, S)' <=> Landed(d, S))
                                /\ (Landed(c, S)' <=> q.what \in S)
      /\ \A m : Buried(m)' <=> Buried(m) \/ q.what = "wipe" \/ (q.what = "delete" /\ m = q.arg)
  BY ServeChangeFrame
<1>2. listed' = listed /\ Ids' = Ids
  BY ServeFrame
<1>3. /\ q.what = "delete" => q.arg \in Kept
      /\ q.what = "wipe" => note' = [n \in Note |-> IF n \in Kept THEN "deleted" ELSE note[n]]
      /\ q.what = "all" => note' = [n \in Note |-> IF note[n] = "unread" THEN "read" ELSE note[n]]
      /\ Kept' \subseteq Kept /\ Unread' \subseteq Unread
  BY ChangedIs
<1>4. /\ q.what = "wipe" => Kept' = {}
      /\ q.what = "all" => Unread' = {}
  BY <1>3, KeptAre DEF Kept, Unread
<1> HIDE DEF q
<1> SUFFICES ASSUME Clear({"missed", "unheard", "crossed"})'
    PROVE /\ \A d \in Call : /\ Landed(d, {"wipe"})' => Kept' \subseteq Coming'
                             /\ Landed(d, {"all"})' => Unread' \subseteq Coming'
          /\ \A n \in Coming' : Missing(n)' = {}
          /\ Clear({"shifted"})' =>
              /\ \A i, j \in DOMAIN listed' : listed'[i].id = listed'[j].id => i = j
              /\ \A n \in Ids' \intersect Kept' : Cardinality(Missing(n)') <= Cardinality(Dead')
  BY DEF Reaches
<1>5. /\ \A d \in Call : /\ Landed(d, {"wipe"}) => Kept \subseteq Coming
                         /\ Landed(d, {"all"}) => Unread \subseteq Coming
      /\ Clear({"shifted"})' =>
           /\ \A i, j \in DOMAIN listed : listed[i].id = listed[j].id => i = j
           /\ \A n \in Ids \intersect Kept : Cardinality(Missing(n)) <= Cardinality(Dead)
  <2>1. Clear({"missed", "unheard", "crossed"}) /\ (Clear({"shifted"})' => Clear({"shifted"}))
    BY <1>1 DEF Clear
  <2> QED BY <2>1 DEF InboxInv, Reaches
<1>6. ASSUME NEW d \in Call
      PROVE /\ Landed(d, {"wipe"})' => Kept' \subseteq Coming'
            /\ Landed(d, {"all"})' => Unread' \subseteq Coming'
  <2>1. CASE d = c
    BY <1>1, <1>4, <2>1
  <2>2. CASE d # c
    BY <1>1, <1>3, <1>5, <2>2
  <2> QED BY <2>1, <2>2
<1>7. ASSUME NEW n \in Ids \intersect Kept', Clear({"shifted"})'
      PROVE Cardinality(Missing(n)') <= Cardinality(Dead')
  <2>1. q.what # "wipe"
    BY <1>4, <1>7
  <2>2. Dead \subseteq Dead'
    <3>1. \A m \in Dead : m \in Ids /\ m \notin Kept' /\ ~Buried(m)'
      BY <1>1, <1>3, <2>1 DEF Dead
    <3> QED BY <1>2, <3>1 DEF Dead
  <2>3. Missing(n)' \subseteq Missing(n)
    BY <1>1, <1>2, <1>3 DEF Missing
  <2>4. /\ Missing(n) \in SUBSET Note /\ Dead' \in SUBSET Note
    <3>1. Dead' \subseteq Ids /\ Missing(n) \subseteq Kept
      BY <1>2 DEF Dead, Missing
    <3> QED BY <3>1, SetsAre, KeptAre
  <2>5. /\ Cardinality(Missing(n)') <= Cardinality(Missing(n)) /\ Cardinality(Missing(n)') \in Nat
        /\ Cardinality(Dead) <= Cardinality(Dead') /\ Cardinality(Dead) \in Nat
        /\ Cardinality(Missing(n)) \in Nat /\ Cardinality(Dead') \in Nat
    BY <2>2, <2>3, <2>4, NotesAre, FS_Subset
  <2>6. Cardinality(Missing(n)) <= Cardinality(Dead)
    BY <1>3, <1>5, <1>7
  <2> QED BY <2>5, <2>6
<1> QED BY <1>1, <1>2, <1>5, <1>6, <1>7

LEMMA ServeChangeCounts ==
  ASSUME InboxInv, NEW c \in Call, ServeCall(c), calls[c].what # "page", "crossed" \notin blame'
  PROVE  CountTells'
<1> DEFINE q == calls[c]
<1>1. /\ q.what \in Change /\ blame' = blame /\ Coming = {} /\ Coming' = {} /\ ~Asked
      /\ \A d \in Call : \A S : /\ d # c => (Landed(d, S)' <=> Landed(d, S)) /\ calls'[d] = calls[d]
                                /\ (Landed(c, S)' <=> q.what \in S)
      /\ calls'[c].arg = q.arg
  BY ServeChangeFrame
<1>2. count' = count /\ side' = side
  BY ServeFrame
<1>3. /\ q.what = "delete" => q.arg \in Kept
      /\ q.what = "wipe" => note' = [n \in Note |-> IF n \in Kept THEN "deleted" ELSE note[n]]
      /\ Kept' \subseteq Kept
  BY ChangedIs
<1>4. q.what = "wipe" => Kept' = {}
  BY <1>3, KeptAre DEF Kept
<1> SUFFICES ASSUME Clear({"missed", "unheard", "crossed", "lost", "uncounted"})', Kept' # {}
    PROVE  count >= Cardinality((Kept' \ Coming') \union Parting')
  BY <1>1, <1>2 DEF CountTells
<1>5. count >= Cardinality((Kept \ Coming) \union Parting)
  <2>1. Clear({"missed", "unheard", "crossed", "lost", "uncounted"}) /\ Kept # {}
    BY <1>1, <1>3 DEF Clear
  <2> QED BY <1>1, <2>1 DEF InboxInv, CountTells
<1>6. \A m \in Parting' : m \in Parting \/ m \in Kept
  <2> SUFFICES ASSUME NEW d \in Call, side = "store", Landed(d, {"delete"})'
               PROVE  calls'[d].arg \in Parting \/ calls'[d].arg \in Kept
    BY <1>2 DEF Parting
  <2>1. CASE d = c
    BY <1>1, <1>3, <2>1
  <2>2. CASE d # c
    BY <1>1, <2>2 DEF Parting
  <2> QED BY <2>1, <2>2
<1>7. (Kept' \ Coming') \union Parting' \subseteq (Kept \ Coming) \union Parting
  BY <1>1, <1>3, <1>6
<1>8. (Kept \ Coming) \union Parting \in SUBSET Note
  <2>1. \A d \in Call : Landed(d, {"delete"}) => calls[d].arg \in Note
    <3>1. \A d \in Call : Landed(d, {"delete"}) => Flying(d) /\ calls[d].what = "delete"
      BY DEF Landed, Flying
    <3> QED BY <3>1 DEF InboxInv, InboxWell, Fit, AnswerWell, Born
  <2>2. Parting \in SUBSET Note
    BY <2>1 DEF Parting
  <2> QED BY <2>2, KeptAre
<1> DEFINE S == (Kept \ Coming) \union Parting
           T == (Kept' \ Coming') \union Parting'
<1>9. T \subseteq S /\ S \in SUBSET Note /\ count >= Cardinality(S)
  BY <1>5, <1>7, <1>8
<1> HIDE DEF S, T
<1>10. Cardinality(T) <= Cardinality(S) /\ Cardinality(S) \in Nat /\ Cardinality(T) \in Nat
  BY <1>9, NotesAre, FS_Subset
<1>11. count \in Nat
  BY DEF InboxInv, InboxWell, InboxTypeOK
<1>12. count >= Cardinality(T)
  BY <1>9, <1>10, <1>11
<1> QED BY <1>12 DEF T

LEMMA ServeChangeBadge ==
  ASSUME InboxInv, NEW c \in Call, ServeCall(c), calls[c].what # "page", "crossed" \notin blame'
  PROVE  BadgeTells'
<1> DEFINE q == calls[c]
<1>1. /\ q.what \in Change /\ blame' = blame /\ Coming = {} /\ Coming' = {} /\ ~Asked
      /\ \A d \in Call : \A S : /\ d # c => (Landed(d, S)' <=> Landed(d, S))
                                /\ ~Landed(c, S) /\ (Landed(c, S)' <=> q.what \in S)
      /\ calls'[c].arg = q.arg /\ calls'[c].unread = q.unread /\ q.step = "sent"
      /\ c \in InFlight(Change)
  BY ServeChangeFrame
<1>2. badge' = badge
  BY ServeFrame
<1>3. /\ q.what = "read" => q.arg \in Kept /\ note' = [note EXCEPT ![q.arg] = "read"]
      /\ q.what = "delete" => q.arg \in Kept /\ note' = [note EXCEPT ![q.arg] = "deleted"]
      /\ q.what = "all" => note' = [n \in Note |-> IF note[n] = "unread" THEN "read" ELSE note[n]]
      /\ q.what = "wipe" => note' = [n \in Note |-> IF n \in Kept THEN "deleted" ELSE note[n]]
  BY ChangedIs
<1>4. note \in [Note -> Fate] /\ Kept \subseteq Note
  BY SetsAre, KeptAre
<1> SUFFICES ASSUME Clear({"missed", "unheard", "crossed", "hasty", "lost"})'
    PROVE \/ Unread' \subseteq Coming' /\ \E d \in Call : Landed(d, {"all", "wipe"})'
          \/ badge = Cardinality((Unread' \ Coming') \union Owing')
  BY <1>2 DEF BadgeTells
<1>5. /\ Clear({"missed", "unheard", "crossed", "hasty", "lost"})
      /\ Clear({"crossed", "hasty"}) /\ Clear({"crossed", "lost", "hasty"})
  BY <1>1 DEF Clear
<1>6. \A d \in Call : d # c => d \notin InFlight(Change)
  BY <1>1, <1>5 DEF InboxInv, OneChange
<1>7. \A d \in Call : \A S \in SUBSET Change : ~Landed(d, S) /\ (Landed(d, S)' => d = c)
  <2>1. \A d \in Call : \A S \in SUBSET Change : Landed(d, S) => d \in InFlight(Change)
    BY DEF Landed, InFlight
  <2> QED BY <1>1, <1>6, <2>1
<1>8. Owing = {}
  <2>1. {"read"} \in SUBSET Change /\ {"delete"} \in SUBSET Change
    BY DEF Change
  <2> QED BY <1>7, <2>1 DEF Owing
<1>9. badge = Cardinality(Unread)
  <2>1. {"all", "wipe"} \in SUBSET Change
    BY DEF Change
  <2>2. badge = Cardinality((Unread \ Coming) \union Owing)
    BY <1>1, <1>5, <1>7, <2>1 DEF InboxInv, BadgeTells
  <2>3. (Unread \ Coming) \union Owing = Unread
    BY <1>1, <1>8
  <2> QED BY <2>2, <2>3
<1>10. /\ q.what = "read" => note[q.arg] = "unread"
       /\ q.what = "delete" => note[q.arg] = IF q.unread THEN "unread" ELSE "read"
  BY <1>1, <1>5 DEF InboxInv, ChangeTells
<1>11. \A m : m \in Owing' <=> \/ q.what = "read" /\ m = q.arg
                               \/ q.what = "delete" /\ q.unread /\ m = q.arg
  <2>1. {"read"} \in SUBSET Change /\ {"delete"} \in SUBSET Change
    BY DEF Change
  <2>2. \A d \in Call : Landed(d, {"read"})' \/ (Landed(d, {"delete"})' /\ calls'[d].unread)
           <=> d = c /\ (q.what = "read" \/ (q.what = "delete" /\ q.unread))
    BY <1>1, <1>7, <2>1
  <2> QED BY <1>1, <2>2 DEF Owing
<1> HIDE DEF q
<1>12. CASE q.what = "read"
  <2>1. Unread' = Unread \ {q.arg} /\ q.arg \in Unread
    BY <1>3, <1>4, <1>10, <1>12 DEF Unread
  <2>2. Owing' = {q.arg}
    BY <1>11, <1>12
  <2>3. (Unread' \ Coming') \union Owing' = Unread
    BY <1>1, <2>1, <2>2
  <2> QED BY <1>9, <2>3
<1>13. CASE q.what = "delete"
  <2>1. Unread' = Unread \ {q.arg}
    BY <1>3, <1>4, <1>13 DEF Unread
  <2>2. CASE q.unread
    <3>1. q.arg \in Unread
      BY <1>3, <1>4, <1>10, <1>13, <2>2 DEF Unread
    <3>2. Owing' = {q.arg}
      BY <1>11, <1>13, <2>2
    <3>3. (Unread' \ Coming') \union Owing' = Unread
      BY <1>1, <2>1, <3>1, <3>2
    <3> QED BY <1>9, <3>3
  <2>3. CASE ~q.unread
    <3>1. q.arg \notin Unread
      BY <1>10, <1>13, <2>3 DEF Unread
    <3>2. Owing' = {}
      BY <1>11, <1>13, <2>3
    <3>3. (Unread' \ Coming') \union Owing' = Unread
      BY <1>1, <2>1, <3>1, <3>2
    <3> QED BY <1>9, <3>3
  <2> QED BY <2>2, <2>3
<1>14. CASE q.what \in {"all", "wipe"}
  <2>1. Unread' = {}
    BY <1>3, <1>4, <1>14 DEF Unread, Kept
  <2>2. Landed(c, {"all", "wipe"})'
    BY <1>1, <1>14
  <2> QED BY <2>1, <2>2
<1> QED BY <1>1, <1>12, <1>13, <1>14 DEF Change

LEMMA ServeChangeKeeps ==
  ASSUME InboxInv, NEW c \in Call, ServeCall(c), calls[c].what # "page", "crossed" \notin blame'
  PROVE  CallsTell' /\ Ordered' /\ OneChange' /\ ChangeTells'
<1> DEFINE q == calls[c]
<1>1. /\ blame' = blame /\ "crossed" \notin blame /\ Coming = {} /\ Coming' = {}
      /\ \A d \in Call : Flying(d) => calls'[d].what # "page"
      /\ calls'[c].arg = q.arg /\ calls'[c].unread = q.unread /\ calls'[c].step = "done"
      /\ calls'[c].what = q.what
      /\ InFlight(Change)' = InFlight(Change) /\ c \in InFlight(Change)
  BY ServeChangeFrame
<1>2. /\ listed' = listed /\ pushes' = pushes /\ due' = due /\ Ids' = Ids /\ Pushed' = Pushed
      /\ \A d \in Call : Flying(d)' <=> Flying(d)
  BY ServeFrame
<1>3. CallsTell'
  BY <1>1, <1>2 DEF CallsTell
<1>4. Ordered'
  BY <1>1, <1>2 DEF InboxInv, Ordered, Clear
<1>5. OneChange'
  BY <1>1 DEF InboxInv, OneChange, Clear
<1>6. ChangeTells'
  <2> SUFFICES ASSUME Clear({"crossed", "lost", "hasty"})', NEW d \in InFlight(Change)
        PROVE /\ calls'[d].step = "sent" /\ calls'[d].what = "read" => note'[calls'[d].arg] = "unread"
              /\ calls'[d].what = "delete" =>
                 /\ calls'[d].step = "sent" =>
                      note'[calls'[d].arg] = IF calls'[d].unread THEN "unread" ELSE "read"
                 /\ calls'[d].arg \in Ids
                 /\ \A i \in DOMAIN listed : listed[i].id = calls'[d].arg => listed[i].read # calls'[d].unread
    BY <1>1, <1>2 DEF ChangeTells
  <2>1. Clear({"crossed", "hasty"}) /\ Clear({"crossed", "lost", "hasty"})
    BY <1>1 DEF Clear
  <2>2. d = c
    BY <1>1, <2>1 DEF InboxInv, OneChange
  <2>3. q.what = "delete" => q.arg \in Ids
           /\ \A i \in DOMAIN listed : listed[i].id = q.arg => listed[i].read # q.unread
    BY <1>1, <2>1 DEF InboxInv, ChangeTells
  <2> QED BY <1>1, <2>2, <2>3
<1> QED BY <1>3, <1>4, <1>5, <1>6

LEMMA ServeCallKeeps ==
  ASSUME InboxInv, NEW c \in Call, ServeCall(c) PROVE InboxInv'
<1>1. InboxWell'
  BY ServeCallWell
<1>2. WillAsk'
  <2>1. link' = link /\ side' = side /\ (Asked' <=> Asked)
    BY ServeFrame
  <2>2. "unheard" \in blame' => "unheard" \in blame /\ ("lost" \in blame => "lost" \in blame')
    BY ServeBlame
  <2> QED BY <2>1, <2>2 DEF InboxInv, WillAsk, Clear
<1>3. CASE "crossed" \in blame'
  <2>1. /\ CallsTell' /\ EntriesTell' /\ Reaches' /\ Ordered' /\ OneChange' /\ ChangeTells'
        /\ BadgeTells' /\ CountTells'
    BY <1>3 DEF CallsTell, EntriesTell, Reaches, Ordered, OneChange, ChangeTells, BadgeTells,
                CountTells, Clear
  <2> QED BY <1>1, <1>2, <2>1 DEF InboxInv
<1>4. CASE "crossed" \notin blame'
  <2>1. CASE calls[c].what = "page"
    BY <1>1, <1>2, <1>4, <2>1, ServePageKeeps DEF InboxInv
  <2>2. CASE calls[c].what # "page"
    BY <1>1, <1>2, <1>4, <2>2, ServeChangeEntries, ServeChangeReaches, ServeChangeCounts,
       ServeChangeBadge, ServeChangeKeeps DEF InboxInv
  <2> QED BY <2>1, <2>2
<1> QED BY <1>3, <1>4

-----------------------------------------------------------------------------
(* Receiving. *)
LEMMA ReceiveFrame ==
  ASSUME InboxInv, NEW c \in Call, ReceiveCall(c)
  PROVE  /\ calls' \in [Call -> Sent \union {Idle}] /\ calls'[c] = Idle
         /\ \A d \in Call : d # c => calls'[d] = calls[d]
         /\ \A d \in Call : Flying(d)' <=> Flying(d) /\ d # c
         /\ \A d \in Call : \A S : /\ Landed(d, S)' <=> Landed(d, S) /\ d # c
                                   /\ Landed(c, S) <=> calls[c].what \in S
         /\ Flying(c) /\ calls[c].step = "done" /\ calls[c] \in Sent /\ Fit(c)
         /\ note' = note /\ due' = due /\ pushes' = pushes /\ side' = side /\ link' = link
         /\ breaks' = breaks /\ presses' = presses
         /\ Kept' = Kept /\ Unread' = Unread /\ Coming' = Coming /\ Pushed' = Pushed
         /\ \A m : Born(m)' <=> Born(m)
<1>1. /\ calls \in [Call -> Sent \union {Idle}] /\ calls' = [calls EXCEPT ![c] = Idle]
      /\ calls[c].step = "done"
      /\ note' = note /\ due' = due /\ pushes' = pushes /\ side' = side /\ link' = link
      /\ breaks' = breaks /\ presses' = presses
  BY DEF ReceiveCall, InboxInv, InboxWell, InboxTypeOK, server
<1>2. /\ calls' \in [Call -> Sent \union {Idle}] /\ calls'[c] = Idle
      /\ \A d \in Call : d # c => calls'[d] = calls[d]
  BY <1>1
<1>3. \A d \in Call : Flying(d)' <=> Flying(d) /\ d # c
  BY <1>2 DEF Flying, Idle
<1>4. \A d \in Call : \A S : /\ Landed(d, S)' <=> Landed(d, S) /\ d # c
                             /\ Landed(c, S) <=> calls[c].what \in S
  BY <1>1, <1>2 DEF Landed, Idle
<1>5. Flying(c) /\ Fit(c) /\ calls[c] \in Sent
  <2>1. Flying(c)
    BY <1>1 DEF Flying
  <2> QED BY <2>1 DEF InboxInv, InboxWell, Fit, AnswerWell
<1>6. /\ Kept' = Kept /\ Unread' = Unread /\ Coming' = Coming /\ Pushed' = Pushed
      /\ \A m : Born(m)' <=> Born(m)
  BY <1>1 DEF Kept, Unread, Coming, Pushed, Born
<1> QED BY <1>1, <1>2, <1>3, <1>4, <1>5, <1>6

LEMMA ReceiveBlame ==
  ASSUME InboxInv, NEW c \in Call, ReceiveCall(c), ~Whole(c)
  PROVE  /\ Grown /\ blame' \subseteq Blame /\ ("crossed" \in blame' => blame' = {"crossed"})
         /\ "unheard" \in blame' => "unheard" \in blame /\ ("lost" \in blame => "lost" \in blame')
         /\ "crossed" \notin blame' =>
              /\ "crossed" \notin blame /\ blame' = blame
              /\ \A d \in Call : Flying(d) /\ d # c => calls[c].what # "page" /\ calls[d].what # "page"
<1> DEFINE A == Crossing(c)
<1>1. Blames(A) /\ A \in SUBSET Blame /\ A \in SUBSET {"crossed"}
  BY DEF ReceiveCall, Blaming, Blames, Crossing, Blame
<1>2. InboxWell
  BY DEF InboxInv
<1>3. /\ Grown /\ blame' \subseteq Blame /\ ("crossed" \in blame' => blame' = {"crossed"})
  BY <1>1, <1>2, BlameIs
<1>4. "unheard" \in blame' => "unheard" \in blame /\ ("lost" \in blame => "lost" \in blame')
  BY <1>1 DEF Blames
<1>5. ASSUME "crossed" \notin blame'
      PROVE  /\ "crossed" \notin blame /\ blame' = blame
             /\ \A d \in Call : Flying(d) /\ d # c => calls[c].what # "page" /\ calls[d].what # "page"
  <2>1. "crossed" \notin blame /\ "crossed" \notin A /\ blame' = blame
    BY <1>1, <1>5 DEF Blames
  <2>4. (IF calls[c].what = "page" THEN InFlight(Change \union {"page"}) \ {c}
         ELSE InFlight({"page"}) \ {c}) = {}
    BY <2>1 DEF Crossing
  <2>5. ASSUME NEW d \in Call, Flying(d), d # c
        PROVE  calls[c].what # "page" /\ calls[d].what # "page"
    <3>1. calls[d].what \in {"page"} \union Change /\ calls[d].step # "idle"
      BY <1>2, <2>5, SlotIs DEF InboxWell, Flying
    <3>2. CASE calls[c].what = "page"
      <4>1. d \in InFlight(Change \union {"page"}) \ {c}
        BY <2>5, <3>1 DEF InFlight
      <4> QED BY <2>4, <3>2, <4>1
    <3>3. CASE calls[c].what # "page"
      <4>1. d \notin InFlight({"page"})
        BY <2>4, <2>5, <3>3
      <4> QED BY <3>1, <3>3, <4>1 DEF InFlight
    <3> QED BY <3>2, <3>3
  <2> QED BY <2>1, <2>5
<1> QED BY <1>3, <1>4, <1>5

(* What the copy becomes. *)
LEMMA ReceivedIs ==
  ASSUME InboxInv, NEW c \in Call, ReceiveCall(c)
  PROVE  /\ listed' \in Seq(Entry) /\ badge' \in Nat /\ count' \in Nat /\ upto' \in Nat \ {0}
         /\ \A m \in Ids' : Born(m)
<1> DEFINE q == calls[c]
<1>1. /\ listed \in Seq(Entry) /\ badge \in Nat /\ count \in Nat /\ upto \in Nat \ {0}
      /\ \A m \in Ids : Born(m)
      /\ DOMAIN listed = 1 .. Len(listed) /\ Len(listed) \in Nat
  BY SetsAre DEF InboxInv, InboxWell, InboxTypeOK
<1>2. /\ \/ q.what = "page" /\ FetchedPage(q)
         \/ q.what = "read" /\ MarkedRead(q.arg)
         \/ q.what = "all" /\ AllRead
         \/ q.what = "delete" /\ Deleted(q)
         \/ q.what = "wipe" /\ Wiped
      /\ q.items \in Seq(Entry) /\ q.total \in Nat /\ q.badge \in Nat
      /\ q.what = "page" => q.arg \in Nat \ {0}
      /\ \A i \in DOMAIN q.items : Born(q.items[i].id)
  <2>1. Fit(c) /\ q \in Sent
    BY ReceiveFrame
  <2> QED BY <2>1 DEF ReceiveCall, Fit, AnswerWell, Sent
<1> HIDE DEF q
<1>3. \A n \in Nat : OneFewer(n) \in Nat
  BY DEF OneFewer
<1>4. CASE q.what = "page" /\ FetchedPage(q)
  <2>1. badge' \in Nat /\ count' \in Nat /\ upto' \in Nat \ {0}
    BY <1>1, <1>2, <1>4 DEF FetchedPage
  <2>2. CASE q.arg = 1
    <3>1. listed' = q.items
      BY <1>4, <2>2 DEF FetchedPage
    <3> QED BY <1>2, <2>1, <3>1 DEF Ids
  <2>3. CASE q.arg # 1
    <3>1. listed' = listed \o q.items
      BY <1>4, <2>3 DEF FetchedPage
    <3>2. listed' \in Seq(Entry) /\ DOMAIN q.items = 1 .. Len(q.items) /\ Len(q.items) \in Nat
      BY <1>1, <1>2, <3>1
    <3>3. ASSUME NEW i \in DOMAIN listed' PROVE Born(listed'[i].id)
      <4>1. i \in 1 .. Len(listed) + Len(q.items)
        BY <1>1, <1>2, <3>1, <3>2, <3>3
      <4>2. CASE i <= Len(listed)
        <5>1. i \in DOMAIN listed /\ listed'[i] = listed[i]
          BY <1>1, <1>2, <3>1, <3>2, <4>1, <4>2
        <5> QED BY <1>1, <5>1 DEF Ids
      <4>3. CASE i > Len(listed)
        <5>1. i - Len(listed) \in DOMAIN q.items /\ listed'[i] = q.items[i - Len(listed)]
          BY <1>1, <1>2, <3>1, <3>2, <4>1, <4>3
        <5> QED BY <1>2, <5>1
      <4> QED BY <1>1, <4>1, <4>2, <4>3
    <3> QED BY <2>1, <3>2, <3>3 DEF Ids
  <2> QED BY <2>2, <2>3
<1>5. CASE q.what = "read" /\ MarkedRead(q.arg)
  <2>1. /\ listed' = [i \in DOMAIN listed |->
             IF listed[i].id = q.arg THEN [listed[i] EXCEPT !.read = TRUE] ELSE listed[i]]
        /\ badge' \in Nat /\ count' \in Nat /\ upto' \in Nat \ {0}
    BY <1>1, <1>3, <1>5 DEF MarkedRead
  <2>2. \A i \in DOMAIN listed : listed'[i] \in Entry /\ listed'[i].id = listed[i].id
    <3>1. \A i \in DOMAIN listed : listed[i] \in Entry
      BY <1>1
    <3> QED BY <2>1, <3>1 DEF Entry
  <2>3. DOMAIN listed' = DOMAIN listed /\ listed' \in Seq(Entry)
    BY <1>1, <2>1, <2>2
  <2> QED BY <1>1, <2>1, <2>2, <2>3 DEF Ids
<1>6. CASE q.what = "all" /\ AllRead
  <2>1. /\ listed' = [i \in DOMAIN listed |-> [listed[i] EXCEPT !.read = TRUE]]
        /\ badge' \in Nat /\ count' \in Nat /\ upto' \in Nat \ {0}
    BY <1>1, <1>6 DEF AllRead
  <2>2. \A i \in DOMAIN listed : listed'[i] \in Entry /\ listed'[i].id = listed[i].id
    <3>1. \A i \in DOMAIN listed : listed[i] \in Entry
      BY <1>1
    <3> QED BY <2>1, <3>1 DEF Entry
  <2>3. DOMAIN listed' = DOMAIN listed /\ listed' \in Seq(Entry)
    BY <1>1, <2>1, <2>2
  <2> QED BY <1>1, <2>1, <2>2, <2>3 DEF Ids
<1>7. CASE q.what = "delete" /\ Deleted(q)
  <2>1. listed' = Without(q.arg) /\ badge' \in Nat /\ count' \in Nat /\ upto' \in Nat \ {0}
    BY <1>1, <1>3, <1>7 DEF Deleted
  <2>2. Without(q.arg) \in Seq(Entry) /\ IdsOf(Without(q.arg)) = Ids \ {q.arg}
    BY <1>1, WithoutIs
  <2>3. Ids' = IdsOf(listed')
    BY DEF Ids, IdsOf
  <2> QED BY <1>1, <2>1, <2>2, <2>3
<1>8. CASE q.what = "wipe" /\ Wiped
  <2>1. listed' = <<>> /\ badge' = 0 /\ count' = 0 /\ upto' = 1
    BY <1>8 DEF Wiped
  <2> QED BY <2>1 DEF Ids
<1> QED BY <1>2, <1>4, <1>5, <1>6, <1>7, <1>8

LEMMA ReceiveCallWell ==
  ASSUME InboxInv, NEW c \in Call, ReceiveCall(c)
  PROVE  InboxWell'
<1>1. InboxWell
  BY DEF InboxInv
<1>2. /\ calls' \in [Call -> Sent \union {Idle}]
      /\ \A d \in Call : d # c => calls'[d] = calls[d]
      /\ \A d \in Call : Flying(d)' <=> Flying(d) /\ d # c
      /\ \A d \in Call : Landed(d, {"delete"})' => Landed(d, {"delete"}) /\ d # c
      /\ note' = note /\ due' = due /\ pushes' = pushes /\ side' = side /\ link' = link
      /\ breaks' = breaks /\ presses' = presses /\ Coming' = Coming /\ Pushed' = Pushed
      /\ \A m : Born(m)' <=> Born(m)
  BY ReceiveFrame
<1>3. /\ listed' \in Seq(Entry) /\ badge' \in Nat /\ count' \in Nat /\ upto' \in Nat \ {0}
      /\ \A m \in Ids' : Born(m)
  BY ReceivedIs
<1>4. blame' \subseteq Blame /\ ("crossed" \in blame' => blame' = {"crossed"})
  <2>1. CASE Whole(c)
    <3>1. blame' = {}
      BY <2>1 DEF ReceiveCall
    <3> QED BY <3>1
  <2>2. CASE ~Whole(c)
    BY <2>2, ReceiveBlame
  <2> QED BY <2>1, <2>2
<1>5. InboxTypeOK'
  BY <1>1, <1>2, <1>3, <1>4 DEF InboxWell, InboxTypeOK
<1>6. \A d \in Call : Flying(d)' => Fit(d)'
  <2>1. \A d \in Call : Flying(d)' => Fit(d) /\ calls'[d] = calls[d]
    BY <1>1, <1>2 DEF InboxWell
  <2> QED BY <1>2, <2>1 DEF Fit, AnswerWell
<1>7. \A d, e \in Call :
       Landed(d, {"delete"})' /\ Landed(e, {"delete"})' /\ calls'[d].arg = calls'[e].arg => d = e
  BY <1>1, <1>2 DEF InboxWell
<1> QED BY <1>1, <1>2, <1>3, <1>4, <1>5, <1>6, <1>7 DEF InboxWell

LEMMA FirstPageIs ==
  Page(1) = Newest(PageSize) /\ \A n \in Page(1), m \in Kept : m > n => m \in Page(1)
<1>1. PageSize \in Nat /\ 1 * PageSize = PageSize /\ (1 - 1) * PageSize = 0
  BY BoundsOfInbox
<1>2. Page(1) = Newest(PageSize)
  BY <1>1, NewestNone DEF Page
<1> QED BY <1>1, <1>2, NewestAre

LEMMA WholeKeeps ==
  ASSUME InboxInv, NEW c \in Call, ReceiveCall(c), Whole(c)
  PROVE  InboxInv'
<1> DEFINE q == calls[c]
           P == Page(1)
<1>1. /\ q.what = "page" /\ q.arg = 1 /\ q.items = Entries(P) /\ q.total = Cardinality(Kept)
      /\ q.badge = Cardinality(Unread) /\ due = {} /\ pushes = <<>>
      /\ \A d \in Call \ {c} : calls[d].step = "idle"
  BY DEF Whole
<1>2. /\ note' = note /\ due' = due /\ pushes' = pushes /\ side' = side /\ link' = link
      /\ Kept' = Kept /\ Unread' = Unread /\ Coming' = Coming /\ Pushed' = Pushed
      /\ \A d \in Call : ~Flying(d)' /\ \A S : ~Landed(d, S)'
  <2>1. \A d \in Call : d # c => ~Flying(d)
    BY <1>1 DEF Flying
  <2>2. \A d \in Call : \A S : Landed(d, S) => Flying(d)
    BY DEF Landed, Flying
  <2> QED BY <2>1, <2>2, ReceiveFrame
<1>3. blame' = {}
  BY DEF ReceiveCall
<1>4. /\ listed' = Entries(P) /\ badge' = Cardinality(Unread) /\ count' = Cardinality(Kept)
  <2>1. FetchedPage(q)
    BY <1>1 DEF ReceiveCall
  <2> QED BY <1>1, <2>1 DEF FetchedPage
<1>5. P \in SUBSET Kept /\ \A n \in P, m \in Kept : m > n => m \in P
  <2>1. P \in SUBSET Kept
    BY DEF Page, Newest
  <2> QED BY <2>1, FirstPageIs
<1> HIDE DEF q, P
<1>6. /\ Entries(P) \in Seq(Entry) /\ IdsOf(Entries(P)) = P /\ Once(Entries(P))
      /\ Falling(Entries(P)) /\ Faithful(Entries(P)) /\ Kept \in SUBSET Note
  BY <1>5, EntriesAre, KeptAre
<1>7. Ids' = P /\ Coming = {} /\ Pushed = {}
  <2>1. Ids' = IdsOf(listed')
    BY DEF Ids, IdsOf
  <2> QED BY <1>1, <1>4, <1>6, <2>1 DEF Coming, Pushed
<1>8. InboxWell'
  BY ReceiveCallWell
<1>9. CallsTell'
  BY <1>2, <1>7 DEF CallsTell
<1>10. EntriesTell'
  <2>1. \A i \in DOMAIN listed' : listed'[i].id \in P /\ (listed'[i].read <=> note[listed'[i].id] = "read")
    BY <1>4, <1>6 DEF IdsOf, Faithful
  <2>2. \A m : ~Marked(m)'
    BY <1>2 DEF Marked
  <2> QED BY <1>2, <1>5, <2>1, <2>2 DEF EntriesTell
<1>11. Reaches'
  <2>1. \A n \in P : Missing(n)' = {}
    BY <1>2, <1>5, <1>7 DEF Missing
  <2>2. Cardinality({}) = 0 /\ Cardinality(Dead') \in Nat
    <3>1. Dead' \in SUBSET P
      BY <1>7 DEF Dead
    <3>2. Dead' \in SUBSET Note
      BY <1>5, <1>6, <3>1
    <3> QED BY <3>2, NotesAre, FS_EmptySet
  <2>3. \A n \in P : Cardinality(Missing(n)') <= Cardinality(Dead')
    <3> SUFFICES ASSUME NEW n \in P PROVE Cardinality(Missing(n)') <= Cardinality(Dead')
      OBVIOUS
    <3>1. Cardinality(Missing(n)') = 0
      BY <2>1, <2>2
    <3> QED BY <2>2, <3>1
  <2>4. \A i, j \in DOMAIN listed' : listed'[i].id = listed'[j].id => i = j
    BY <1>4, <1>6 DEF Once
  <2> QED BY <1>2, <1>7, <2>3, <2>4 DEF Reaches
<1>12. Ordered'
  <2>1. DOMAIN pushes' = {} /\ due' = {}
    BY <1>1, <1>2
  <2> QED BY <1>2, <1>4, <1>6, <1>7, <2>1 DEF Ordered, Falling
<1>13. OneChange' /\ ChangeTells'
  <2>1. InFlight(Change)' = {}
    BY <1>2 DEF InFlight, Flying
  <2> QED BY <2>1 DEF OneChange, ChangeTells
<1>14. BadgeTells' /\ CountTells'
  <2>1. Owing' = {} /\ Parting' = {}
    BY <1>2 DEF Owing, Parting
  <2>2. (Unread' \ Coming') \union Owing' = Unread /\ (Kept' \ Coming') \union Parting' = Kept
    BY <1>2, <1>7, <2>1
  <2>3. Cardinality(Kept) \in Nat
    BY <1>6, NotesAre
  <2>4. badge' = Cardinality((Unread' \ Coming') \union Owing')
    BY <1>4, <2>2
  <2>5. count' >= Cardinality((Kept' \ Coming') \union Parting')
    BY <1>4, <2>2, <2>3
  <2> QED BY <2>4, <2>5 DEF BadgeTells, CountTells
<1>15. WillAsk'
  BY <1>3 DEF WillAsk
<1> QED BY <1>8, <1>9, <1>10, <1>11, <1>12, <1>13, <1>14, <1>15 DEF InboxInv

(* A later page continues the list.  What is kept and listed is higher than  *)
(* the page, since no more is missing above it than is listed and gone.        *)
LEMMA PageIsNew ==
  ASSUME listed \in Seq(Entry), Ids \in SUBSET Note, Coming = {}, \A n : ~Buried(n), Once(listed),
         \A n \in Ids \intersect Kept : Cardinality(Missing(n)) <= Cardinality(Dead)
  PROVE  /\ \A n \in Ids \intersect Kept : n \in Newest(Len(listed))
         /\ Cardinality(Newest(Len(listed)) \ Ids) <= Cardinality(Dead)
         /\ IsFiniteSet(Newest(Len(listed)) \ Ids)
<1> DEFINE L == Len(listed)
           A == Ids \intersect Kept
           D == Cardinality(Dead)
           N == Newest(L)
<1>1. L \in Nat
  OBVIOUS
<1>2. IsFiniteSet(Ids) /\ Cardinality(Ids) = L
  <2>1. Ids = IdsOf(listed)
    BY DEF Ids, IdsOf
  <2> QED BY <2>1, ListSize
<1>3. Dead = Ids \ Kept
  BY DEF Dead
<1>4. /\ IsFiniteSet(Dead) /\ IsFiniteSet(A) /\ Dead \union A = Ids /\ Dead \intersect A = {}
      /\ D \in Nat /\ Cardinality(A) \in Nat
  BY <1>2, <1>3, FS_Subset, FS_CardinalityType
<1>5. L = D + Cardinality(A)
  <2>1. Cardinality(Dead \union A) = Cardinality(Dead) + Cardinality(A) - Cardinality(Dead \intersect A)
    BY <1>4, FS_Union
  <2>2. Cardinality(Dead \intersect A) = 0
    BY <1>4, FS_EmptySet
  <2>3. Ids = Dead \union A
    BY <1>4
  <2>4. Cardinality(Ids) = Cardinality(Dead) + Cardinality(A)
    <3>1. Cardinality(Dead) \in Nat /\ Cardinality(A) \in Nat
      BY <1>4
    <3> HIDE DEF A
    <3>2. Cardinality(Ids) = Cardinality(Dead \union A)
      BY <2>3
    <3> QED BY <2>1, <2>2, <3>1, <3>2
  <2> QED BY <1>2, <2>4
<1>6. N \in SUBSET Kept /\ IsFiniteSet(N) /\ Cardinality(N) \in Nat /\ Cardinality(N) <= L
      /\ \A n \in Kept : n \in N <=> Height(n) <= L
  BY <1>1, NewestAre
<1>7. ASSUME NEW n \in A PROVE n \in N
  <2> DEFINE H == {m \in Kept : m >= n}
             M == Missing(n)
  <2>1. M \in SUBSET Kept /\ H \in SUBSET Kept
    BY DEF Missing
  <2>2. IsFiniteSet(M) /\ Cardinality(M) \in Nat /\ IsFiniteSet(H) /\ Cardinality(H) \in Nat
    BY <2>1, KeptAre
  <2>3. H \subseteq A \union M
    <3> SUFFICES ASSUME NEW m \in H, m \notin A PROVE m \in M
      OBVIOUS
    <3>1. m \in Kept /\ m \in Nat /\ n \in Nat /\ m >= n /\ m # n
      BY KeptAre
    <3>2. m > n /\ m \notin Ids \union Coming
      BY <3>1
    <3> QED BY <3>1, <3>2 DEF Missing
  <2>4. /\ IsFiniteSet(A \union M) /\ Cardinality(A \union M) \in Nat
        /\ Cardinality(A \union M) <= Cardinality(A) + Cardinality(M)
    <3>1. /\ IsFiniteSet(A \union M)
          /\ Cardinality(A \union M) = Cardinality(A) + Cardinality(M) - Cardinality(A \intersect M)
      BY <1>4, <2>2, FS_Union
    <3>2. IsFiniteSet(A \intersect M)
      BY <1>4, FS_Intersection
    <3>3. Cardinality(A \intersect M) \in Nat
      BY <3>2, FS_CardinalityType
    <3>4. Cardinality(A \union M) \in Nat
      BY <3>1, FS_CardinalityType
    <3> QED BY <3>1, <3>3, <3>4, <1>4, <2>2
  <2>5. Cardinality(H) <= Cardinality(A \union M)
    BY <2>3, <2>4, FS_Subset
  <2>6. Cardinality(M) <= D
    OBVIOUS
  <2>7. Cardinality(H) <= L
    <3> HIDE DEF A, D, H, M, L
    <3> QED BY <1>1, <1>4, <1>5, <2>2, <2>4, <2>5, <2>6
  <2>8. Height(n) = Cardinality(H)
    BY DEF Height
  <2> QED BY <1>6, <2>7, <2>8
<1>8. N \ Ids = N \ A /\ A \subseteq N
  BY <1>6, <1>7
<1>9. /\ IsFiniteSet(N \ A) /\ Cardinality(N \ A) = Cardinality(N) - Cardinality(A)
  <2>1. N \intersect A = A
    BY <1>8
  <2>2. IsFiniteSet(N \ A) /\ Cardinality(N \ A) = Cardinality(N) - Cardinality(N \intersect A)
    BY <1>6, FS_Difference
  <2> QED BY <2>1, <2>2
<1>10. Cardinality(N \ A) <= D
  <2>1. Cardinality(N \ A) \in Nat
    BY <1>9, FS_CardinalityType
  <2> HIDE DEF N, A, D, L
  <2> QED BY <1>1, <1>4, <1>5, <1>6, <1>9, <2>1
<1> HIDE DEF N, A, D, L
<1>11. /\ \A n \in A : n \in N
       /\ Cardinality(N \ Ids) <= D /\ IsFiniteSet(N \ Ids)
  BY <1>7, <1>8, <1>9, <1>10
<1> QED BY <1>11 DEF N, A, D, L

LEMMA JoinIs ==
  ASSUME NEW s \in Seq(Entry), NEW t \in Seq(Entry)
  PROVE  /\ s \o t \in Seq(Entry) /\ IdsOf(s \o t) = IdsOf(s) \union IdsOf(t)
         /\ \A i \in DOMAIN (s \o t) : \/ \E j \in DOMAIN s : (s \o t)[i] = s[j]
                                       \/ \E j \in DOMAIN t : (s \o t)[i] = t[j]
         /\ Once(s) /\ Once(t) /\ IdsOf(s) \intersect IdsOf(t) = {} => Once(s \o t)
         /\ Falling(s) /\ Falling(t) /\ (\A x \in IdsOf(s), y \in IdsOf(t) : x > y) => Falling(s \o t)
<1> DEFINE u == s \o t
           K == Len(s)
<1>1. /\ u \in Seq(Entry) /\ K \in Nat /\ Len(t) \in Nat /\ DOMAIN s = 1 .. K
      /\ DOMAIN t = 1 .. Len(t) /\ DOMAIN u = 1 .. K + Len(t)
      /\ \A i \in 1 .. K : u[i] = s[i]
      /\ \A i \in 1 .. Len(t) : u[K + i] = t[i]
  OBVIOUS
<1> HIDE DEF u, K
<1>2. \A i \in DOMAIN u : i \in 1 .. K \/ (i - K \in 1 .. Len(t) /\ u[i] = t[i - K] /\ i > K)
  <2> SUFFICES ASSUME NEW i \in 1 .. K + Len(t), i \notin 1 .. K
               PROVE  i - K \in 1 .. Len(t) /\ u[i] = t[i - K] /\ i > K
    BY <1>1
  <2>1. i - K \in 1 .. Len(t) /\ K + (i - K) = i /\ i > K
    BY <1>1
  <2> QED BY <1>1, <2>1
<1>3. \A i \in DOMAIN u : \/ \E j \in DOMAIN s : u[i] = s[j]
                          \/ \E j \in DOMAIN t : u[i] = t[j]
  BY <1>1, <1>2
<1>4. IdsOf(u) = IdsOf(s) \union IdsOf(t)
  <2>1. \A j \in DOMAIN s : j \in DOMAIN u /\ u[j] = s[j]
    BY <1>1
  <2>2. \A j \in DOMAIN t : K + j \in DOMAIN u /\ u[K + j] = t[j]
    BY <1>1
  <2>3. ASSUME NEW x \in IdsOf(u) PROVE x \in IdsOf(s) \union IdsOf(t)
    BY <1>3 DEF IdsOf
  <2>4. ASSUME NEW x \in IdsOf(s) PROVE x \in IdsOf(u)
    BY <2>1 DEF IdsOf
  <2>5. ASSUME NEW x \in IdsOf(t) PROVE x \in IdsOf(u)
    BY <2>2 DEF IdsOf
  <2> QED BY <2>3, <2>4, <2>5
<1>5. /\ \A i \in 1 .. K : s[i].id \in IdsOf(s)
      /\ \A i \in 1 .. Len(t) : t[i].id \in IdsOf(t)
  BY <1>1 DEF IdsOf
<1>6. ASSUME Once(s), Once(t), IdsOf(s) \intersect IdsOf(t) = {} PROVE Once(u)
  <2> SUFFICES ASSUME NEW i \in DOMAIN u, NEW j \in DOMAIN u, u[i].id = u[j].id PROVE i = j
    BY DEF Once
  <2>1. CASE i \in 1 .. K /\ j \in 1 .. K
    BY <1>1, <1>6, <2>1 DEF Once
  <2>2. CASE i \in 1 .. K /\ j \notin 1 .. K
    BY <1>1, <1>2, <1>5, <1>6, <2>2
  <2>3. CASE i \notin 1 .. K /\ j \in 1 .. K
    BY <1>1, <1>2, <1>5, <1>6, <2>3
  <2>4. CASE i \notin 1 .. K /\ j \notin 1 .. K
    <3>1. i - K = j - K
      BY <1>1, <1>2, <1>6, <2>4 DEF Once
    <3> QED BY <1>1, <3>1
  <2> QED BY <2>1, <2>2, <2>3, <2>4
<1>7. ASSUME Falling(s), Falling(t), \A x \in IdsOf(s), y \in IdsOf(t) : x > y PROVE Falling(u)
  <2> SUFFICES ASSUME NEW i \in DOMAIN u, NEW j \in DOMAIN u, i < j PROVE u[i].id > u[j].id
    BY DEF Falling
  <2>1. CASE i \in 1 .. K /\ j \in 1 .. K
    BY <1>1, <1>7, <2>1 DEF Falling
  <2>2. CASE i \in 1 .. K /\ j \notin 1 .. K
    BY <1>1, <1>2, <1>5, <1>7, <2>2
  <2>3. CASE i \notin 1 .. K
    <3>1. j \notin 1 .. K
      BY <1>1, <1>2, <2>3
    <3>2. i - K < j - K
      BY <1>1
    <3>3. i - K \in DOMAIN t /\ j - K \in DOMAIN t /\ u[i] = t[i - K] /\ u[j] = t[j - K]
      BY <1>1, <1>2, <2>3, <3>1
    <3> QED BY <1>7, <3>2, <3>3 DEF Falling
  <2> QED BY <2>1, <2>2, <2>3
<1> QED BY <1>1, <1>3, <1>4, <1>6, <1>7 DEF u

LEMMA MoreFrame ==
  ASSUME InboxInv, NEW c \in Call, ReceiveCall(c), ~Whole(c), calls[c].what = "page",
         "crossed" \notin blame'
  PROVE  /\ blame' = blame /\ Coming = {} /\ pushes = <<>> /\ due = {}
         /\ \A d \in Call : d # c => ~Flying(d)
         /\ \A d \in Call : \A S \in SUBSET Change : ~Landed(d, S)
         /\ \A m : ~Buried(m) /\ ~Marked(m)
         /\ Owing = {} /\ Parting = {} /\ ~Asked
         /\ calls[c].arg = upto + 1 /\ (Clear({"shifted"}) => Len(listed) = upto * PageSize)
         /\ listed' = listed \o Entries(Page(upto + 1)) /\ count' = Cardinality(Kept)
         /\ badge' \in {badge, Cardinality(Unread)}
         /\ upto \in Nat /\ listed \in Seq(Entry)
<1> DEFINE q == calls[c]
<1>1. /\ "crossed" \notin blame /\ blame' = blame
      /\ \A d \in Call : d # c => ~Flying(d)
  BY ReceiveBlame
<1>2. Flying(c) /\ q.step = "done" /\ Fit(c)
  BY ReceiveFrame
<1>3. PageFresh(c) /\ (q.arg > 1 => NextPage(c))
  BY <1>1, <1>2 DEF InboxInv, CallsTell, Clear
<1>4. Coming = {} /\ pushes = <<>> /\ due = {}
  BY <1>3 DEF PageFresh, Coming, Pushed
<1>5. q.arg # 1
  <2> SUFFICES ASSUME q.arg = 1 PROVE Whole(c)
    OBVIOUS
  <2>1. \A d \in Call \ {c} : calls[d].step = "idle"
    BY <1>1 DEF Flying
  <2>2. q.items = Entries(Page(1)) /\ q.total = Cardinality(Kept) /\ q.badge = Cardinality(Unread)
    BY <1>3 DEF PageFresh
  <2> QED BY <1>4, <2>1, <2>2 DEF Whole
<1>6. NextPage(c) /\ q.arg \in Nat \ {0}
  <2>1. q.arg \in Nat \ {0}
    BY <1>2 DEF Fit, AnswerWell
  <2> QED BY <1>3, <1>5, <2>1
<1>7. \A d \in Call : \A S \in SUBSET Change : ~Landed(d, S)
  BY <1>1 DEF Landed, Flying, Change
<1>8. {"wipe"} \in SUBSET Change /\ {"delete"} \in SUBSET Change /\ {"all"} \in SUBSET Change
      /\ {"read"} \in SUBSET Change
  BY DEF Change
<1>9. \A m : ~Buried(m) /\ ~Marked(m)
  BY <1>7, <1>8 DEF Buried, Marked
<1>10. Owing = {} /\ Parting = {}
  BY <1>7, <1>8 DEF Owing, Parting
<1>11. ~Asked
  BY <1>1, <1>5 DEF Asked
<1>12. /\ listed' = listed \o q.items /\ badge' \in {badge, q.badge} /\ count' = q.total
  <2>1. FetchedPage(q)
    BY DEF ReceiveCall
  <2> QED BY <1>5, <2>1 DEF FetchedPage
<1>13. upto \in Nat /\ listed \in Seq(Entry)
  BY DEF InboxInv, InboxWell, InboxTypeOK
<1>14. q.arg = upto + 1 /\ (Clear({"shifted"}) => Len(listed) = upto * PageSize)
  BY <1>6 DEF NextPage
<1>15. q.items = Entries(Page(upto + 1)) /\ q.total = Cardinality(Kept) /\ q.badge = Cardinality(Unread)
  BY <1>3, <1>14 DEF PageFresh
<1> QED BY <1>1, <1>4, <1>7, <1>9, <1>10, <1>11, <1>12, <1>13, <1>14, <1>15

(* The page asked for starts where the list ends. *)
LEMMA PageGoesOn ==
  ASSUME upto \in Nat, listed \in Seq(Entry), Len(listed) = upto * PageSize
  PROVE  /\ Page(upto + 1) \in SUBSET Kept
         /\ \A n \in Page(upto + 1) : n \notin Newest(Len(listed))
         /\ \A n \in Page(upto + 1), m \in Kept : m > n => m \in Page(upto + 1) \/ m \in Newest(Len(listed))
<1> DEFINE K == (upto + 1) * PageSize
           L == Len(listed)
           P == Page(upto + 1)
<1>1. K \in Nat /\ L \in Nat /\ (upto + 1) - 1 = upto
  BY BoundsOfInbox
<1>2. P = Newest(K) \ Newest(L)
  BY <1>1 DEF Page
<1> HIDE DEF K, L, P
<1>3. Newest(K) \in SUBSET Kept /\ \A n \in Newest(K), m \in Kept : m > n => m \in Newest(K)
  BY <1>1, NewestAre
<1>4. /\ P \in SUBSET Kept /\ \A n \in P : n \notin Newest(L)
      /\ \A n \in P, m \in Kept : m > n => m \in P \/ m \in Newest(L)
  BY <1>2, <1>3
<1> QED BY <1>4 DEF P, L

LEMMA MoreReaches ==
  ASSUME InboxInv, NEW c \in Call, ReceiveCall(c), ~Whole(c), calls[c].what = "page",
         "crossed" \notin blame'
  PROVE  Reaches' /\ Ordered'
<1> DEFINE P == Page(upto + 1)
           L == Len(listed)
           N == Newest(L)
<1>1. /\ blame' = blame /\ Coming = {} /\ pushes = <<>> /\ due = {}
      /\ \A d \in Call : d # c => ~Flying(d)
      /\ \A m : ~Buried(m)
      /\ (Clear({"shifted"}) => Len(listed) = upto * PageSize)
      /\ listed' = listed \o Entries(P)
      /\ upto \in Nat /\ listed \in Seq(Entry)
  BY MoreFrame
<1>2. /\ Kept' = Kept /\ Coming' = Coming /\ Pushed' = Pushed /\ pushes' = pushes /\ due' = due
      /\ note' = note
      /\ \A d \in Call : \A S : Landed(d, S)' <=> Landed(d, S) /\ d # c
      /\ \A d \in Call : \A S : Landed(d, S) => Flying(d)
  <2>1. \A d \in Call : \A S : Landed(d, S) => Flying(d)
    BY DEF Landed, Flying
  <2> QED BY <2>1, ReceiveFrame
<1>3. \A d \in Call : \A S : ~Landed(d, S)'
  BY <1>1, <1>2
<1>4. \A m : ~Buried(m)'
  BY <1>3 DEF Buried
<1>5. Kept \in SUBSET Note /\ Ids \in SUBSET Note
  BY SetsAre, KeptAre
<1>6. P \in SUBSET Kept
  BY DEF Page, Newest
<1>7. /\ Entries(P) \in Seq(Entry) /\ IdsOf(Entries(P)) = P /\ Once(Entries(P)) /\ Falling(Entries(P))
  BY <1>5, <1>6, EntriesAre
<1>8. IdsOf(listed) = Ids /\ IdsOf(listed') = Ids'
  BY DEF Ids, IdsOf
<1>9. Ids' = Ids \union P
  <2>1. IdsOf(listed \o Entries(P)) = IdsOf(listed) \union IdsOf(Entries(P))
    BY <1>1, <1>7, JoinIs
  <2> QED BY <1>1, <1>7, <1>8, <2>1
<1>10. ASSUME Clear({"missed", "unheard", "crossed"})', Clear({"shifted"})'
       PROVE  /\ Once(listed') /\ Ids \intersect P = {}
              /\ \A n \in Ids' \intersect Kept' : Cardinality(Missing(n)') <= Cardinality(Dead')
              /\ \A n \in Ids \intersect Kept : n \in N
              /\ \A n \in P : n \notin N
  <2>1. Clear({"missed", "unheard", "crossed"}) /\ Clear({"shifted"}) /\ L = upto * PageSize
    BY <1>1, <1>10 DEF Clear
  <2>2. /\ Once(listed)
        /\ \A n \in Ids \intersect Kept : Cardinality(Missing(n)) <= Cardinality(Dead)
    BY <2>1 DEF InboxInv, Reaches, Once
  <2>3. /\ \A n \in Ids \intersect Kept : n \in N
        /\ Cardinality(N \ Ids) <= Cardinality(Dead) /\ IsFiniteSet(N \ Ids)
    BY <1>1, <1>5, <2>2, PageIsNew
  <2>4. /\ \A n \in P : n \notin N
        /\ \A n \in P, m \in Kept : m > n => m \in P \/ m \in N
    BY <1>1, <2>1, PageGoesOn
  <2>5. Ids \intersect P = {}
    BY <1>6, <2>3, <2>4
  <2>6. Once(listed')
    <3>1. Once(listed \o Entries(P))
      BY <1>1, <1>7, <1>8, <2>2, <2>5, JoinIs
    <3> QED BY <1>1, <3>1
  <2>7. Dead' = Dead
    BY <1>1, <1>2, <1>4, <1>6, <1>9 DEF Dead
  <2>8. Dead \in SUBSET Note /\ Cardinality(Dead) \in Nat
    <3>1. Dead \in SUBSET Note
      BY <1>5 DEF Dead
    <3> QED BY <3>1, NotesAre
  <2>9. ASSUME NEW n \in Ids \intersect Kept PROVE Cardinality(Missing(n)') <= Cardinality(Dead')
    <3>1. Missing(n)' \subseteq Missing(n)
      BY <1>2, <1>9 DEF Missing
    <3>2. Missing(n) \in SUBSET Note
      BY <1>5 DEF Missing
    <3>3. Cardinality(Missing(n)') <= Cardinality(Missing(n)) /\ Cardinality(Missing(n)) \in Nat
          /\ Cardinality(Missing(n)') \in Nat
      BY <3>1, <3>2, NotesAre, FS_Subset
    <3>4. Cardinality(Missing(n)) <= Cardinality(Dead)
      BY <2>2
    <3>5. Cardinality(Missing(n)') <= Cardinality(Dead)
      BY <2>8, <3>3, <3>4
    <3> QED BY <2>7, <3>5
  <2>10. ASSUME NEW n \in P PROVE Cardinality(Missing(n)') <= Cardinality(Dead')
    <3>1. \A m \in Missing(n)' : m \in N \ Ids
      <4> SUFFICES ASSUME NEW m \in Missing(n)' PROVE m \in N \ Ids
        OBVIOUS
      <4>1. m \in Kept /\ m > n /\ m \notin Ids /\ m \notin P
        BY <1>2, <1>9 DEF Missing
      <4> QED BY <2>4, <4>1
    <3>2. Missing(n)' \subseteq N \ Ids
      BY <3>1
    <3>3. Cardinality(Missing(n)') <= Cardinality(N \ Ids) /\ IsFiniteSet(Missing(n)')
      BY <2>3, <3>2, FS_Subset
    <3>4. Cardinality(Missing(n)') \in Nat /\ Cardinality(N \ Ids) \in Nat
      BY <2>3, <3>3, FS_CardinalityType
    <3>5. Cardinality(Missing(n)') <= Cardinality(Dead)
      BY <2>3, <2>8, <3>3, <3>4
    <3> QED BY <2>7, <3>5
  <2> QED BY <1>2, <1>9, <2>3, <2>4, <2>5, <2>6, <2>9, <2>10
<1>11. Reaches'
  <2>1. Coming' = {}
    BY <1>1, <1>2
  <2>2. Clear({"missed", "unheard", "crossed"})' /\ Clear({"shifted"})' =>
          \A i, j \in DOMAIN listed' : listed'[i].id = listed'[j].id => i = j
    BY <1>10 DEF Once
  <2> HIDE DEF P, L, N
  <2> QED BY <1>3, <1>10, <2>1, <2>2 DEF Reaches
<1>12. Ordered'
  <2>1. Coming' = {} /\ due' = {} /\ DOMAIN pushes' = {}
    BY <1>1, <1>2
  <2>2. ASSUME Clear({"missed", "unheard", "crossed", "shifted", "lost", "swapped"})'
        PROVE  Falling(listed')
    <3>1. /\ Clear({"missed", "unheard", "crossed"})' /\ Clear({"shifted"})'
          /\ Clear({"crossed", "lost"})
          /\ Clear({"missed", "unheard", "crossed", "shifted", "lost", "swapped"})
      BY <1>1, <2>2 DEF Clear
    <3>2. \A x \in Ids : x \in Kept
      BY <1>1, <3>1 DEF InboxInv, EntriesTell, Ids
    <3>3. \A x \in Ids : x \in N /\ x \notin P
      BY <1>10, <3>1, <3>2
    <3>4. Falling(listed)
      BY <3>1 DEF InboxInv, Ordered, Falling
    <3>5. ASSUME NEW x \in Ids, NEW y \in P PROVE x > y
      <4>1. x \in Nat /\ y \in Nat /\ x \in Kept /\ y \in Kept
        BY <1>5, <1>6, <3>2, NotesAre
      <4>2. L \in Nat
        BY <1>1
      <4>3. y \notin N
        BY <1>10, <3>1
      <4>4. ~(y > x)
        BY <4>1, <4>2, <4>3, <3>3, NewestAre
      <4>5. x # y
        BY <3>3
      <4> QED BY <4>1, <4>4, <4>5
    <3>6. \A x \in IdsOf(listed), y \in IdsOf(Entries(P)) : x > y
      BY <1>7, <1>8, <3>5
    <3>7. Falling(listed \o Entries(P))
      BY <1>1, <1>7, <3>4, <3>6, JoinIs
    <3> QED BY <1>1, <3>7
  <2> HIDE DEF P, L, N
  <2> QED BY <2>1, <2>2 DEF Ordered, Falling
<1> QED BY <1>11, <1>12

LEMMA MoreKeeps ==
  ASSUME InboxInv, NEW c \in Call, ReceiveCall(c), ~Whole(c), calls[c].what = "page",
         "crossed" \notin blame'
  PROVE  /\ CallsTell' /\ EntriesTell' /\ OneChange' /\ ChangeTells' /\ BadgeTells' /\ CountTells'
<1> DEFINE P == Page(upto + 1)
<1>1. /\ blame' = blame /\ Coming = {}
      /\ \A d \in Call : d # c => ~Flying(d)
      /\ \A d \in Call : \A S \in SUBSET Change : ~Landed(d, S)
      /\ \A m : ~Buried(m) /\ ~Marked(m)
      /\ Owing = {} /\ Parting = {} /\ ~Asked
      /\ listed' = listed \o Entries(P) /\ count' = Cardinality(Kept)
      /\ badge' \in {badge, Cardinality(Unread)}
      /\ upto \in Nat /\ listed \in Seq(Entry)
  BY MoreFrame
<1>2. /\ Kept' = Kept /\ Unread' = Unread /\ Coming' = Coming /\ note' = note
      /\ \A d \in Call : ~Flying(d)' /\ \A S : ~Landed(d, S)'
  <2>1. \A d \in Call : \A S : Landed(d, S) => Flying(d)
    BY DEF Landed, Flying
  <2> QED BY <1>1, <2>1, ReceiveFrame
<1>3. \A m : ~Buried(m)' /\ ~Marked(m)'
  BY <1>2 DEF Buried, Marked
<1>4. Kept \in SUBSET Note /\ P \in SUBSET Kept
  BY KeptAre DEF Page, Newest
<1>5. Entries(P) \in Seq(Entry) /\ IdsOf(Entries(P)) = P /\ Faithful(Entries(P))
  BY <1>4, EntriesAre
<1> HIDE DEF P
<1>6. CallsTell'
  BY <1>1, <1>2 DEF CallsTell
<1>7. EntriesTell'
  <2> SUFFICES ASSUME Clear({"crossed", "lost"})', NEW i \in DOMAIN listed'
      PROVE /\ listed'[i].id \in Kept
            /\ listed'[i].read <=> note[listed'[i].id] = "read"
    BY <1>2, <1>3 DEF EntriesTell
  <2>1. \/ \E j \in DOMAIN listed : listed'[i] = listed[j]
        \/ \E j \in DOMAIN Entries(P) : listed'[i] = Entries(P)[j]
    BY <1>1, <1>5, JoinIs
  <2>2. ASSUME NEW j \in DOMAIN listed, listed'[i] = listed[j]
        PROVE  /\ listed'[i].id \in Kept
               /\ listed'[i].read <=> note[listed'[i].id] = "read"
    <3>1. Clear({"crossed", "lost"})
      BY <1>1 DEF Clear
    <3>2. /\ listed[j].id \in Kept
          /\ listed[j].read <=> note[listed[j].id] = "read"
      BY <1>1, <3>1 DEF InboxInv, EntriesTell
    <3> QED BY <2>2, <3>2
  <2>3. ASSUME NEW j \in DOMAIN Entries(P), listed'[i] = Entries(P)[j]
        PROVE  /\ listed'[i].id \in Kept
               /\ listed'[i].read <=> note[listed'[i].id] = "read"
    <3>1. /\ Entries(P)[j].id \in P
          /\ Entries(P)[j].read <=> note[Entries(P)[j].id] = "read"
      BY <1>5 DEF IdsOf, Faithful
    <3> QED BY <1>4, <2>3, <3>1
  <2> QED BY <2>1, <2>2, <2>3
<1>8. OneChange' /\ ChangeTells'
  <2>1. InFlight(Change)' = {}
    BY <1>2 DEF InFlight, Flying
  <2> QED BY <2>1 DEF OneChange, ChangeTells
<1>9. Owing' = {} /\ Parting' = {}
  BY <1>2 DEF Owing, Parting
<1>10. /\ (Unread' \ Coming') \union Owing' = Unread /\ (Kept' \ Coming') \union Parting' = Kept
       /\ (Unread \ Coming) \union Owing = Unread
  BY <1>1, <1>2, <1>9
<1>11. BadgeTells'
  <2> SUFFICES ASSUME Clear({"missed", "unheard", "crossed", "hasty", "lost"})'
               PROVE  badge' = Cardinality((Unread' \ Coming') \union Owing')
    BY DEF BadgeTells
  <2>1. Clear({"missed", "unheard", "crossed", "hasty", "lost"})
    BY <1>1 DEF Clear
  <2>2. {"all", "wipe"} \in SUBSET Change
    BY DEF Change
  <2>3. badge = Cardinality((Unread \ Coming) \union Owing)
    BY <1>1, <2>1, <2>2 DEF InboxInv, BadgeTells
  <2>4. badge = Cardinality(Unread)
    BY <1>10, <2>3
  <2>5. badge' = Cardinality(Unread)
    BY <1>1, <2>4
  <2> QED BY <1>10, <2>5
<1>12. CountTells'
  <2>1. Cardinality(Kept) \in Nat
    BY <1>4, NotesAre
  <2>2. count' >= Cardinality((Kept' \ Coming') \union Parting')
    <3>1. Cardinality((Kept' \ Coming') \union Parting') = Cardinality(Kept)
      BY <1>10
    <3>2. count' = Cardinality(Kept)
      BY <1>1
    <3> QED BY <2>1, <3>1, <3>2
  <2> QED BY <2>2 DEF CountTells
<1> QED BY <1>6, <1>7, <1>8, <1>11, <1>12

(* The answer to a change that crossed no page. *)
LEMMA DoneFrame ==
  ASSUME InboxInv, NEW c \in Call, ReceiveCall(c), calls[c].what # "page", "crossed" \notin blame'
  PROVE  /\ calls[c].what \in Change /\ blame' = blame /\ "crossed" \notin blame
         /\ \A d \in Call : /\ Flying(d) => calls[d].what # "page"
                            /\ Flying(d)' => Flying(d) /\ d # c /\ calls'[d] = calls[d]
         /\ ~Asked /\ ~Asked'
         /\ Coming \subseteq Unread /\ Ids \intersect Coming = {}
         /\ c \in InFlight(Change)
         /\ \A d : d \in InFlight(Change)' <=> d \in InFlight(Change) /\ d # c
         /\ \A m : (calls[c].what # "wipe" /\ (calls[c].what = "delete" => m # calls[c].arg)) =>
                      (Buried(m)' <=> Buried(m))
         /\ \A m : (calls[c].what # "all" /\ (calls[c].what = "read" => m # calls[c].arg)) =>
                      (Marked(m)' <=> Marked(m))
         /\ calls[c].arg \in Nat
<1>1. ~Whole(c) /\ calls[c].step = "done" /\ Flying(c) /\ calls[c] \in Sent
  BY ReceiveFrame DEF Whole
<1>2. /\ "crossed" \notin blame /\ blame' = blame
      /\ \A d \in Call : Flying(d) /\ d # c => calls[c].what # "page" /\ calls[d].what # "page"
  BY <1>1, ReceiveBlame
<1>3. /\ \A d \in Call : d # c => calls'[d] = calls[d]
      /\ \A d \in Call : Flying(d)' <=> Flying(d) /\ d # c
      /\ \A d \in Call : \A S : /\ Landed(d, S)' <=> Landed(d, S) /\ d # c
                                /\ Landed(c, S) <=> calls[c].what \in S
      /\ calls'[c] = Idle
  BY ReceiveFrame
<1>4. calls[c].what \in Change /\ calls[c].arg \in Nat
  BY <1>1, SlotIs DEF InboxInv, InboxWell
<1>5. /\ \A d \in Call : Flying(d) => calls[d].what # "page"
      /\ \A d \in Call : Flying(d)' => Flying(d) /\ d # c /\ calls'[d] = calls[d]
  BY <1>2, <1>3
<1>6. ~Asked /\ ~Asked'
  BY <1>5 DEF Asked
<1>7. Coming \subseteq Unread /\ Ids \intersect Coming = {}
  BY <1>2 DEF InboxInv, CallsTell, Clear
<1>8. \A d : d \in InFlight(Change)' <=> d \in InFlight(Change) /\ d # c
  <2>1. \A d \in Call : d # c => (d \in InFlight(Change)' <=> d \in InFlight(Change))
    BY <1>3 DEF InFlight
  <2>2. c \notin InFlight(Change)'
    BY <1>3 DEF InFlight, Idle
  <2>3. \A d : (d \in InFlight(Change) => d \in Call) /\ (d \in InFlight(Change)' => d \in Call)
    BY DEF InFlight
  <2> QED BY <2>1, <2>2, <2>3
<1>9. c \in InFlight(Change)
  BY <1>1, <1>4 DEF InFlight
<1>10. ASSUME NEW m, calls[c].what # "wipe", calls[c].what = "delete" => m # calls[c].arg
       PROVE  Buried(m)' <=> Buried(m)
  <2>1. ~(Landed(c, {"wipe"}) \/ (Landed(c, {"delete"}) /\ calls[c].arg = m))
    BY <1>3, <1>10
  <2> QED BY <1>3, <2>1 DEF Buried
<1>11. ASSUME NEW m, calls[c].what # "all", calls[c].what = "read" => m # calls[c].arg
       PROVE  Marked(m)' <=> Marked(m)
  <2>1. ~(Landed(c, {"all"}) \/ (Landed(c, {"read"}) /\ calls[c].arg = m))
    BY <1>3, <1>11
  <2> QED BY <1>3, <2>1 DEF Marked
<1> QED BY <1>2, <1>4, <1>5, <1>6, <1>7, <1>8, <1>9, <1>10, <1>11

(* What holds of the requests however the list is changed. *)
LEMMA DoneCalls ==
  ASSUME InboxInv, NEW c \in Call, ReceiveCall(c), calls[c].what # "page", "crossed" \notin blame'
  PROVE  /\ OneChange' /\ ChangeTells' /\ (Ids' \subseteq Ids => CallsTell')
         /\ Clear({"crossed", "hasty"}) => InFlight(Change)' = {}
                /\ \A d \in Call : \A S \in SUBSET Change : ~Landed(d, S)' /\ (Landed(d, S) => d = c)
<1>1. /\ blame' = blame
      /\ \A d \in Call : /\ Flying(d) => calls[d].what # "page"
                         /\ Flying(d)' => Flying(d) /\ d # c /\ calls'[d] = calls[d]
      /\ Coming \subseteq Unread /\ Ids \intersect Coming = {}
      /\ c \in InFlight(Change)
      /\ \A d : d \in InFlight(Change)' <=> d \in InFlight(Change) /\ d # c
      /\ "crossed" \notin blame
  BY DoneFrame
<1>2. Coming' = Coming /\ Unread' = Unread
  BY ReceiveFrame
<1>3. OneChange'
  BY <1>1 DEF InboxInv, OneChange, Clear
<1>4. ASSUME Clear({"crossed", "hasty"}) PROVE InFlight(Change)' = {}
  <2>1. \A d \in InFlight(Change) : d = c
    BY <1>1, <1>4 DEF InboxInv, OneChange
  <2> QED BY <1>1, <2>1
<1>5. ChangeTells'
  <2>1. Clear({"crossed", "lost", "hasty"})' => Clear({"crossed", "hasty"})
    BY <1>1 DEF Clear
  <2> QED BY <1>4, <2>1 DEF ChangeTells
<1>6. ASSUME Ids' \subseteq Ids PROVE CallsTell'
  <2>1. \A d \in Call : Flying(d) /\ calls[d].what \in {"read", "delete"} => calls[d].arg \notin Coming
    BY <1>1 DEF InboxInv, CallsTell, Clear
  <2>2. Ids' \intersect Coming' = {} /\ Coming' \subseteq Unread'
    BY <1>1, <1>2, <1>6
  <2> QED BY <1>1, <1>2, <2>1, <2>2 DEF CallsTell
<1>7. ASSUME Clear({"crossed", "hasty"})
      PROVE  \A d \in Call : \A S \in SUBSET Change : ~Landed(d, S)' /\ (Landed(d, S) => d = c)
  <2>1. \A d \in Call : \A S \in SUBSET Change : Landed(d, S) => d \in InFlight(Change)
    BY DEF Landed, InFlight
  <2>2. \A d \in Call : \A S : Landed(d, S)' => Landed(d, S) /\ d # c
    BY ReceiveFrame
  <2>3. \A d \in InFlight(Change) : d = c
    BY <1>1, <1>7 DEF InboxInv, OneChange
  <2> QED BY <2>1, <2>2, <2>3
<1> QED BY <1>3, <1>4, <1>5, <1>6, <1>7

LEMMA MarkedKeep ==
  ASSUME InboxInv, NEW c \in Call, ReceiveCall(c), calls[c].what \in {"read", "all"},
         "crossed" \notin blame',
         DOMAIN listed' = DOMAIN listed, \A i \in DOMAIN listed : listed'[i].id = listed[i].id,
         count' = count
  PROVE  Ids' = Ids /\ Reaches' /\ Ordered' /\ CountTells'
<1>1. /\ blame' = blame /\ ~Asked /\ ~Asked'
      /\ \A m : Buried(m)' <=> Buried(m)
  BY DoneFrame
<1>2. /\ \A d \in Call : d # c => calls'[d] = calls[d]
      /\ \A d \in Call : \A S : /\ Landed(d, S)' <=> Landed(d, S) /\ d # c
                                /\ Landed(c, S) <=> calls[c].what \in S
      /\ note' = note /\ due' = due /\ pushes' = pushes /\ side' = side
      /\ Kept' = Kept /\ Unread' = Unread /\ Coming' = Coming /\ Pushed' = Pushed
  BY ReceiveFrame
<1>3. Ids' = Ids
  BY DEF Ids
<1>4. Dead' = Dead /\ \A n : Missing(n)' = Missing(n)
  BY <1>1, <1>2, <1>3 DEF Dead, Missing
<1>5. \A S : Clear(S)' <=> Clear(S)
  BY <1>1 DEF Clear
<1>6. Reaches'
  BY <1>2, <1>3, <1>4, <1>5 DEF InboxInv, Reaches
<1>7. Ordered'
  BY <1>2, <1>3, <1>5 DEF InboxInv, Ordered
<1>8. Parting' = Parting
  <2>1. \A d \in Call : Landed(d, {"delete"}) => d # c
    BY <1>2
  <2>2. \A d \in Call : Landed(d, {"delete"}) => calls'[d].arg = calls[d].arg
    BY <1>2, <2>1
  <2>3. \A d \in Call : Landed(d, {"delete"})' <=> Landed(d, {"delete"})
    BY <1>2, <2>1
  <2> QED BY <1>2, <2>2, <2>3 DEF Parting
<1>9. CountTells'
  BY <1>1, <1>2, <1>5, <1>8 DEF InboxInv, CountTells
<1> QED BY <1>3, <1>6, <1>7, <1>9

LEMMA ReadKeeps ==
  ASSUME InboxInv, NEW c \in Call, ReceiveCall(c), calls[c].what = "read", "crossed" \notin blame'
  PROVE  /\ CallsTell' /\ EntriesTell' /\ Reaches' /\ Ordered' /\ OneChange' /\ ChangeTells'
         /\ BadgeTells' /\ CountTells'
<1> DEFINE a == calls[c].arg
<1>1. /\ blame' = blame /\ "crossed" \notin blame /\ ~Asked
      /\ \A m : Buried(m)' <=> Buried(m)
      /\ \A m : m # a => (Marked(m)' <=> Marked(m))
  BY DoneFrame
<1>2. MarkedRead(a)
  BY DEF ReceiveCall
<1>3. /\ listed' = [i \in DOMAIN listed |->
           IF listed[i].id = a THEN [listed[i] EXCEPT !.read = TRUE] ELSE listed[i]]
      /\ badge' = OneFewer(badge) /\ count' = count
  BY <1>2 DEF MarkedRead
<1>4. \A i \in DOMAIN listed : /\ listed[i].id = a => listed'[i].read = TRUE
                               /\ listed[i].id # a => listed'[i] = listed[i]
                               /\ listed'[i].id = listed[i].id
  <2>1. \A i \in DOMAIN listed : listed[i] \in Entry
    BY SetsAre
  <2> QED BY <1>3, <2>1 DEF Entry
<1>5. Ids' = Ids /\ Reaches' /\ Ordered' /\ CountTells'
  BY <1>3, <1>4, MarkedKeep
<1>6. CallsTell' /\ OneChange' /\ ChangeTells'
  BY <1>5, DoneCalls
<1>7. Fit(c) /\ note' = note /\ Kept' = Kept /\ Unread' = Unread /\ Coming' = Coming
      /\ calls[c].step = "done"
      /\ \A d \in Call : \A S : Landed(c, S) <=> calls[c].what \in S
  BY ReceiveFrame
<1>8. note[a] # "unread" /\ a \in Note
  BY <1>7 DEF Fit, AnswerWell, Born
<1> HIDE DEF a
<1>9. EntriesTell'
  <2> SUFFICES ASSUME Clear({"crossed", "lost"})', NEW i \in DOMAIN listed
      PROVE /\ listed'[i].id \in Kept' \/ Buried(listed[i].id)'
            /\ listed'[i].id \in Kept' =>
                 (listed'[i].read \/ Marked(listed[i].id)' <=> note'[listed'[i].id] = "read")
    BY <1>3 DEF EntriesTell
  <2>1. PICK m : m = listed[i].id /\ m = listed'[i].id
    BY <1>4
  <2>2. /\ m \in Kept \/ Buried(m)
        /\ m \in Kept => (listed[i].read \/ Marked(m) <=> note[m] = "read")
    <3>1. Clear({"crossed", "lost"})
      BY <1>1 DEF Clear
    <3> QED BY <2>1, <3>1 DEF InboxInv, EntriesTell
  <2>3. CASE m = a
    <3>1. m \in Kept => note[m] = "read"
      BY <1>8, <2>3 DEF Kept
    <3>2. listed'[i].read = TRUE
      BY <1>4, <2>1, <2>3
    <3> QED BY <1>1, <1>7, <2>1, <2>2, <3>1, <3>2
  <2>4. CASE m # a
    <3>1. listed'[i] = listed[i] /\ (Marked(m)' <=> Marked(m))
      BY <1>1, <1>4, <2>1, <2>4
    <3> QED BY <1>1, <1>7, <2>1, <2>2, <3>1
  <2> QED BY <2>3, <2>4
<1>10. BadgeTells'
  <2> SUFFICES ASSUME Clear({"missed", "unheard", "crossed", "hasty", "lost"})'
               PROVE  badge' = Cardinality((Unread' \ Coming') \union Owing')
    BY DEF BadgeTells
  <2>1. Clear({"missed", "unheard", "crossed", "hasty", "lost"}) /\ Clear({"crossed", "hasty"})
    BY <1>1 DEF Clear
  <2>2. \A d \in Call : \A S \in SUBSET Change : ~Landed(d, S)' /\ (Landed(d, S) => d = c)
    BY <2>1, DoneCalls
  <2>3. {"all", "wipe"} \in SUBSET Change /\ {"read"} \in SUBSET Change /\ {"delete"} \in SUBSET Change
    BY DEF Change
  <2>4. Owing' = {}
    BY <2>2, <2>3 DEF Owing
  <2>5. Owing = {a}
    <3>1. Landed(c, {"read"}) /\ ~Landed(c, {"delete"})
      BY <1>7
    <3>2. \A d \in Call : Landed(d, {"read"}) \/ (Landed(d, {"delete"}) /\ calls[d].unread) <=> d = c
      BY <2>2, <2>3, <3>1
    <3> QED BY <3>2 DEF Owing, a
  <2>6. ~ \E d \in Call : Landed(d, {"all", "wipe"})
    BY <1>7, <2>2, <2>3
  <2>7. badge = Cardinality((Unread \ Coming) \union {a})
    BY <1>1, <2>1, <2>5, <2>6 DEF InboxInv, BadgeTells
  <2>8. a \notin Unread \ Coming /\ IsFiniteSet(Unread \ Coming) /\ Cardinality(Unread \ Coming) \in Nat
    <3>1. (Unread \ Coming) \in SUBSET Kept
      BY KeptAre
    <3> QED BY <1>8, <3>1, KeptAre DEF Unread
  <2>9. badge = Cardinality(Unread \ Coming) + 1
    BY <2>7, <2>8, FS_AddElement
  <2>10. badge' = Cardinality(Unread \ Coming)
    BY <1>3, <2>8, <2>9 DEF OneFewer
  <2>11. (Unread' \ Coming') \union Owing' = Unread \ Coming
    BY <1>7, <2>4
  <2> QED BY <2>10, <2>11
<1> QED BY <1>5, <1>6, <1>9, <1>10

LEMMA AllKeeps ==
  ASSUME InboxInv, NEW c \in Call, ReceiveCall(c), calls[c].what = "all", "crossed" \notin blame'
  PROVE  /\ CallsTell' /\ EntriesTell' /\ Reaches' /\ Ordered' /\ OneChange' /\ ChangeTells'
         /\ BadgeTells' /\ CountTells'
<1>1. /\ blame' = blame /\ "crossed" \notin blame /\ ~Asked
      /\ \A m : Buried(m)' <=> Buried(m)
  BY DoneFrame
<1>2. AllRead
  BY DEF ReceiveCall
<1>3. /\ listed' = [i \in DOMAIN listed |-> [listed[i] EXCEPT !.read = TRUE]]
      /\ badge' = 0 /\ count' = count
  BY <1>2 DEF AllRead
<1>4. \A i \in DOMAIN listed : listed'[i].read = TRUE /\ listed'[i].id = listed[i].id
  <2>1. \A i \in DOMAIN listed : listed[i] \in Entry
    BY SetsAre
  <2> QED BY <1>3, <2>1 DEF Entry
<1>5. Ids' = Ids /\ Reaches' /\ Ordered' /\ CountTells'
  BY <1>3, <1>4, MarkedKeep
<1>6. CallsTell' /\ OneChange' /\ ChangeTells'
  BY <1>5, DoneCalls
<1>7. /\ note' = note /\ Kept' = Kept /\ Unread' = Unread /\ Coming' = Coming
      /\ Landed(c, {"all"})
  BY ReceiveFrame
<1>8. EntriesTell'
  <2> SUFFICES ASSUME Clear({"crossed", "lost"})', NEW i \in DOMAIN listed
      PROVE /\ listed'[i].id \in Kept' \/ Buried(listed[i].id)'
            /\ listed'[i].id \in Kept' => note'[listed'[i].id] = "read"
    BY <1>3, <1>4 DEF EntriesTell
  <2>1. PICK m : m = listed[i].id /\ m = listed'[i].id
    BY <1>4
  <2>2. /\ m \in Kept \/ Buried(m)
        /\ m \in Kept => note[m] = "read"
    <3>1. Clear({"crossed", "lost"})
      BY <1>1 DEF Clear
    <3>2. Marked(m)
      BY <1>7 DEF Marked
    <3> QED BY <2>1, <3>1, <3>2 DEF InboxInv, EntriesTell
  <2> QED BY <1>1, <1>7, <2>1, <2>2
<1>9. BadgeTells'
  <2> SUFFICES ASSUME Clear({"missed", "unheard", "crossed", "hasty", "lost"})'
               PROVE  badge' = Cardinality((Unread' \ Coming') \union Owing')
    BY DEF BadgeTells
  <2>1. Clear({"crossed", "hasty"}) /\ Clear({"missed", "unheard", "crossed"})
    BY <1>1 DEF Clear
  <2>2. \A d \in Call : \A S \in SUBSET Change : ~Landed(d, S)'
    BY <2>1, DoneCalls
  <2>3. {"read"} \in SUBSET Change /\ {"delete"} \in SUBSET Change
    BY DEF Change
  <2>4. Owing' = {}
    BY <2>2, <2>3 DEF Owing
  <2>5. Unread \subseteq Coming
    BY <1>7, <2>1 DEF InboxInv, Reaches
  <2>6. (Unread' \ Coming') \union Owing' = {}
    BY <1>7, <2>4, <2>5
  <2> QED BY <1>3, <2>6, FS_EmptySet
<1> QED BY <1>5, <1>6, <1>8, <1>9

LEMMA WipeKeeps ==
  ASSUME InboxInv, NEW c \in Call, ReceiveCall(c), calls[c].what = "wipe", "crossed" \notin blame'
  PROVE  /\ CallsTell' /\ EntriesTell' /\ Reaches' /\ Ordered' /\ OneChange' /\ ChangeTells'
         /\ BadgeTells' /\ CountTells'
<1>1. blame' = blame
  BY DoneFrame
<1>2. Wiped
  BY DEF ReceiveCall
<1>3. /\ listed' = <<>> /\ DOMAIN listed' = {} /\ Ids' = {} /\ badge' = 0 /\ count' = 0
  BY <1>2 DEF Wiped, Ids
<1>4. /\ note' = note /\ due' = due /\ pushes' = pushes
      /\ Kept' = Kept /\ Unread' = Unread /\ Coming' = Coming /\ Pushed' = Pushed
      /\ Landed(c, {"wipe"})
      /\ \A d \in Call : \A S : Landed(d, S)' => Landed(d, S)
  BY ReceiveFrame
<1>5. CallsTell' /\ OneChange' /\ ChangeTells'
  BY <1>3, DoneCalls
<1>6. EntriesTell'
  BY <1>3 DEF EntriesTell
<1>7. \A S : Clear(S)' <=> Clear(S)
  BY <1>1 DEF Clear
<1>8. Clear({"missed", "unheard", "crossed"}) => Kept \subseteq Coming
  BY <1>4 DEF InboxInv, Reaches
<1>9. Reaches'
  <2>1. Kept \subseteq Coming => \A n : Missing(n)' = {}
    BY <1>4 DEF Missing
  <2> QED BY <1>3, <1>4, <1>7, <1>8, <2>1 DEF InboxInv, Reaches
<1>10. Ordered'
  BY <1>3, <1>4, <1>7 DEF InboxInv, Ordered
<1>11. BadgeTells'
  <2> SUFFICES ASSUME Clear({"missed", "unheard", "crossed", "hasty", "lost"})'
               PROVE  badge' = Cardinality((Unread' \ Coming') \union Owing')
    BY DEF BadgeTells
  <2>1. Clear({"crossed", "hasty"}) /\ Clear({"missed", "unheard", "crossed"})
    BY <1>1 DEF Clear
  <2>2. \A d \in Call : \A S \in SUBSET Change : ~Landed(d, S)'
    BY <2>1, DoneCalls DEF Change
  <2>3. {"read"} \in SUBSET Change /\ {"delete"} \in SUBSET Change
    BY DEF Change
  <2>4. Owing' = {}
    BY <2>2, <2>3 DEF Owing
  <2>5. Unread \subseteq Coming
    BY <1>8, <2>1, KeptAre
  <2>6. (Unread' \ Coming') \union Owing' = {}
    BY <1>4, <2>4, <2>5
  <2> QED BY <1>3, <2>6, FS_EmptySet
<1>12. CountTells'
  <2>1. Clear({"missed", "unheard", "crossed", "lost", "uncounted"}) => Clear({"missed", "unheard", "crossed"})
    BY DEF Clear
  <2> QED BY <1>4, <1>7, <1>8, <2>1 DEF CountTells
<1> QED BY <1>5, <1>6, <1>9, <1>10, <1>11, <1>12

(* Whether the deleted one was unread is seen by the store in the first entry. *)
LEMMA FirstIs ==
  ASSUME NEW S \in SUBSET Nat, IsFiniteSet(S), S # {}
  PROVE  \E i \in S : \A j \in S : i <= j
<1>1. Cardinality(S) \in Nat /\ Cardinality(S) # 0
  BY FS_CardinalityType, FS_EmptySet
<1>2. PICK n \in S : Below(S, n) = 1
  <2>1. 1 \in 1 .. Cardinality(S)
    BY <1>1
  <2>2. Nth(S, 1) \in S /\ Below(S, Nth(S, 1)) = 1
    BY <2>1, NthIs
  <2> QED BY <2>2
<1>3. ASSUME NEW j \in S, j < n PROVE FALSE
  <2>1. Below(S, j) < 1 /\ Below(S, j) \in 1 .. Cardinality(S)
    BY <1>2, <1>3, RankGrows, RankIs
  <2> QED BY <1>1, <2>1
<1>4. \A j \in S : n \in Nat /\ j \in Nat
  OBVIOUS
<1> QED BY <1>2, <1>3, <1>4

LEMMA SeenIs ==
  ASSUME InboxInv, NEW q, q.unread \in BOOLEAN, q.arg \in Ids,
         \A i \in DOMAIN listed : listed[i].id = q.arg => listed[i].read # q.unread
  PROVE  WasUnread(q) <=> q.unread
<1> DEFINE S == {i \in DOMAIN listed : listed[i].id = q.arg}
<1>1. DOMAIN listed = 1 .. Len(listed) /\ Len(listed) \in Nat
  BY SetsAre
<1>2. S \in SUBSET Nat /\ IsFiniteSet(S) /\ S # {}
  <2>1. S \in SUBSET (1 .. Len(listed)) /\ IsFiniteSet(1 .. Len(listed))
    BY <1>1, FS_Interval
  <2>2. IsFiniteSet(S) /\ S \in SUBSET Nat
    BY <1>1, <2>1, FS_Subset
  <2>3. S # {}
    BY DEF Ids
  <2> QED BY <2>2, <2>3
<1>3. PICK i \in S : \A j \in S : i <= j
  <2> HIDE DEF S
  <2> QED BY <1>2, FirstIs
<1>4. \A j \in 1 .. i - 1 : listed[j].id # q.arg
  <2> SUFFICES ASSUME NEW j \in 1 .. i - 1, listed[j].id = q.arg PROVE FALSE
    OBVIOUS
  <2>1. j \in S /\ j < i /\ j \in Nat /\ i \in Nat
    BY <1>1
  <2> QED BY <1>3, <2>1
<1>5. \A j \in DOMAIN listed : listed[j].read \in BOOLEAN
  BY ListedAre
<1>6. i \in DOMAIN listed /\ listed[i].id = q.arg
  OBVIOUS
<1>7. CASE q.unread
  <2>1. ~listed[i].read
    BY <1>5, <1>6, <1>7
  <2> QED BY <1>4, <1>6, <1>7, <2>1 DEF WasUnread
<1>8. CASE ~q.unread
  <2>1. \A j \in DOMAIN listed : listed[j].id = q.arg => listed[j].read
    BY <1>5, <1>8
  <2> QED BY <1>8, <2>1 DEF WasUnread
<1> QED BY <1>7, <1>8

LEMMA DeleteFrame ==
  ASSUME InboxInv, NEW c \in Call, ReceiveCall(c), calls[c].what = "delete"
  PROVE  /\ listed' = Without(calls[c].arg) /\ Ids' = Ids \ {calls[c].arg}
         /\ badge' = IF WasUnread(calls[c]) THEN OneFewer(badge) ELSE badge
         /\ count' = IF side = "store" THEN OneFewer(count) ELSE count
         /\ calls[c].arg \in Note /\ note[calls[c].arg] = "deleted"
         /\ calls[c].arg \notin Kept /\ calls[c].arg \notin Unread /\ Buried(calls[c].arg)
         /\ Once(listed) => Once(listed')
         /\ Falling(listed) => Falling(listed')
         /\ \A k \in DOMAIN listed' : \E i \in DOMAIN listed :
              listed'[k] = listed[i] /\ listed[i].id # calls[c].arg
<1> DEFINE a == calls[c].arg
<1>1. Deleted(calls[c])
  BY DEF ReceiveCall
<1>2. Fit(c) /\ calls[c].step = "done" /\ (Landed(c, {"delete"}) <=> calls[c].what \in {"delete"})
  BY ReceiveFrame
<1>3. a \in Note /\ note[a] = "deleted"
  BY <1>2 DEF Fit, AnswerWell, Born
<1>4. a \notin Kept /\ a \notin Unread /\ Buried(a)
  BY <1>2, <1>3 DEF Kept, Unread, Buried
<1>5. listed' = Without(a)
  BY <1>1 DEF Deleted
<1>6. listed \in Seq(Entry) /\ IdsOf(Without(a)) = Ids \ {a}
  <2>1. listed \in Seq(Entry)
    BY SetsAre
  <2> QED BY <2>1, WithoutIs
<1>7. Ids' = Ids \ {a}
  <2>1. Ids' = IdsOf(listed')
    BY DEF Ids, IdsOf
  <2> QED BY <1>5, <1>6, <2>1
<1>8. /\ Once(listed) => Once(Without(a))
      /\ Falling(listed) => Falling(Without(a))
      /\ \A k \in DOMAIN Without(a) : \E i \in DOMAIN listed :
              Without(a)[k] = listed[i] /\ listed[i].id # a
  BY <1>6, WithoutKeeps
<1> QED BY <1>1, <1>3, <1>4, <1>5, <1>7, <1>8 DEF Deleted

LEMMA DeleteKeeps ==
  ASSUME InboxInv, NEW c \in Call, ReceiveCall(c), calls[c].what = "delete", "crossed" \notin blame'
  PROVE  /\ CallsTell' /\ EntriesTell' /\ Reaches' /\ Ordered' /\ OneChange' /\ ChangeTells'
         /\ BadgeTells' /\ CountTells'
<1>1. PICK a \in Note :
      /\ a = calls[c].arg
      /\ Ids' = Ids \ {a}
      /\ badge' = IF WasUnread(calls[c]) THEN OneFewer(badge) ELSE badge
      /\ count' = IF side = "store" THEN OneFewer(count) ELSE count
      /\ a \notin Kept /\ a \notin Unread /\ Buried(a)
      /\ Once(listed) => Once(listed')
      /\ Falling(listed) => Falling(listed')
      /\ \A k \in DOMAIN listed' : \E i \in DOMAIN listed :
              listed'[k] = listed[i] /\ listed[i].id # a
  BY DeleteFrame
<1>2. /\ blame' = blame /\ ~Asked /\ ~Asked' /\ "crossed" \notin blame
      /\ \A m : m # a => (Buried(m)' <=> Buried(m))
      /\ \A m : Marked(m)' <=> Marked(m)
      /\ c \in InFlight(Change)
  BY <1>1, DoneFrame
<1>3. /\ \A d \in Call : d # c => calls'[d] = calls[d]
      /\ \A d \in Call : \A S : /\ Landed(d, S)' <=> Landed(d, S) /\ d # c
                                /\ Landed(c, S) <=> calls[c].what \in S
      /\ note' = note /\ due' = due /\ pushes' = pushes /\ side' = side
      /\ Kept' = Kept /\ Unread' = Unread /\ Coming' = Coming /\ Pushed' = Pushed
  BY ReceiveFrame
<1>4. CallsTell' /\ OneChange' /\ ChangeTells'
  BY <1>1, DoneCalls
<1>5. \A S : Clear(S)' <=> Clear(S)
  BY <1>2 DEF Clear
<1>6. EntriesTell'
  <2> SUFFICES ASSUME Clear({"crossed", "lost"})', NEW k \in DOMAIN listed'
      PROVE /\ listed'[k].id \in Kept' \/ Buried(listed[k].id)'
            /\ listed'[k].id \in Kept' =>
                 (listed'[k].read \/ Marked(listed[k].id)' <=> note'[listed'[k].id] = "read")
    BY DEF EntriesTell
  <2>1. PICK i \in DOMAIN listed : listed'[k] = listed[i] /\ listed[i].id # a
    BY <1>1
  <2>2. PICK m : m = listed[i].id /\ m = listed'[k].id
    BY <2>1
  <2>3. /\ m \in Kept \/ Buried(m)
        /\ m \in Kept => (listed[i].read \/ Marked(m) <=> note[m] = "read")
    BY <1>5, <2>2 DEF InboxInv, EntriesTell
  <2>4. m # a
    BY <2>1, <2>2
  <2> QED BY <1>2, <1>3, <2>1, <2>2, <2>3, <2>4
<1>7. Dead' = Dead /\ \A n : Missing(n)' = Missing(n)
  <2>1. \A n : n \in Dead' <=> n \in Dead
    BY <1>1, <1>2, <1>3 DEF Dead
  <2>2. \A n : Missing(n)' = Missing(n)
    BY <1>1, <1>3 DEF Missing
  <2> QED BY <2>1, <2>2 DEF Dead
<1>8. Reaches'
  <2> SUFFICES ASSUME Clear({"missed", "unheard", "crossed"})'
      PROVE /\ \A d \in Call : /\ Landed(d, {"wipe"})' => Kept' \subseteq Coming'
                               /\ Landed(d, {"all"})' => Unread' \subseteq Coming'
            /\ \A n \in Coming' : Missing(n)' = {}
            /\ Clear({"shifted"})' =>
                /\ Once(listed)'
                /\ \A n \in Ids' \intersect Kept' : Cardinality(Missing(n)') <= Cardinality(Dead')
    BY DEF Reaches, Once
  <2>1. /\ \A d \in Call : /\ Landed(d, {"wipe"}) => Kept \subseteq Coming
                           /\ Landed(d, {"all"}) => Unread \subseteq Coming
        /\ \A n \in Coming : Missing(n) = {}
        /\ Clear({"shifted"}) =>
             /\ Once(listed)
             /\ \A n \in Ids \intersect Kept : Cardinality(Missing(n)) <= Cardinality(Dead)
    BY <1>5 DEF InboxInv, Reaches, Once
  <2>2. Once(listed)' <=> Once(listed')
    BY DEF Once
  <2> QED BY <1>1, <1>3, <1>5, <1>7, <2>1, <2>2
<1>9. Ordered'
  <2> SUFFICES ASSUME Clear({"missed", "unheard", "crossed", "shifted", "lost", "swapped"})'
      PROVE /\ \A i, j \in DOMAIN listed' : i < j => listed'[i].id > listed'[j].id
            /\ \A k \in Coming', m \in Ids' : k > m
            /\ \A i, j \in DOMAIN pushes' : i < j => pushes'[i] < pushes'[j]
            /\ \A k \in due', m \in Pushed' : k > m
    BY DEF Ordered
  <2>1. /\ \A i, j \in DOMAIN listed : i < j => listed[i].id > listed[j].id
        /\ \A k \in Coming, m \in Ids : k > m
        /\ \A i, j \in DOMAIN pushes : i < j => pushes[i] < pushes[j]
        /\ \A k \in due, m \in Pushed : k > m
    BY <1>5 DEF InboxInv, Ordered
  <2>2. Falling(listed')
    BY <1>1, <2>1 DEF Falling
  <2> QED BY <1>1, <1>3, <2>1, <2>2 DEF Falling
<1>10. BadgeTells'
  <2> SUFFICES ASSUME Clear({"missed", "unheard", "crossed", "hasty", "lost"})'
               PROVE  badge' = Cardinality((Unread' \ Coming') \union Owing')
    BY DEF BadgeTells
  <2>1. /\ Clear({"missed", "unheard", "crossed", "hasty", "lost"}) /\ Clear({"crossed", "hasty"})
        /\ Clear({"crossed", "lost", "hasty"})
    BY <1>2 DEF Clear
  <2>2. \A d \in Call : \A S \in SUBSET Change : ~Landed(d, S)' /\ (Landed(d, S) => d = c)
    BY <2>1, DoneCalls
  <2>3. {"all", "wipe"} \in SUBSET Change /\ {"read"} \in SUBSET Change /\ {"delete"} \in SUBSET Change
    BY DEF Change
  <2>4. Owing' = {}
    BY <2>2, <2>3 DEF Owing
  <2>5. (Unread' \ Coming') \union Owing' = Unread \ Coming
    BY <1>3, <2>4
  <2>6. ~ \E d \in Call : Landed(d, {"all", "wipe"})
    BY <1>3, <2>2, <2>3
  <2>7. badge = Cardinality((Unread \ Coming) \union Owing)
    BY <1>2, <2>1, <2>6 DEF InboxInv, BadgeTells
  <2>8. calls[c].unread \in BOOLEAN /\ calls[c].arg \in Ids
        /\ \A i \in DOMAIN listed : listed[i].id = calls[c].arg => listed[i].read # calls[c].unread
    <3>1. calls[c].unread \in BOOLEAN
      BY ReceiveFrame DEF Sent
    <3> QED BY <1>2, <2>1, <3>1 DEF InboxInv, ChangeTells
  <2>9. WasUnread(calls[c]) <=> calls[c].unread
    BY <2>8, SeenIs
  <2>10. \A d \in Call : Landed(d, {"read"}) \/ (Landed(d, {"delete"}) /\ calls[d].unread)
           <=> d = c /\ calls[c].unread
    BY <1>3, <2>2, <2>3
  <2>11. CASE calls[c].unread
    <3>1. Owing = {a}
      BY <1>1, <2>10, <2>11 DEF Owing
    <3>2. a \notin Unread \ Coming /\ IsFiniteSet(Unread \ Coming) /\ Cardinality(Unread \ Coming) \in Nat
      <4>1. (Unread \ Coming) \in SUBSET Kept
        BY KeptAre
      <4> QED BY <1>1, <4>1, KeptAre
    <3>3. badge = Cardinality((Unread \ Coming) \union {a})
      BY <2>7, <3>1
    <3>4. badge = Cardinality(Unread \ Coming) + 1
      BY <3>2, <3>3, FS_AddElement
    <3>5. badge' = Cardinality(Unread \ Coming)
      BY <1>1, <2>9, <2>11, <3>2, <3>4 DEF OneFewer
    <3> QED BY <2>5, <3>5
  <2>12. CASE ~calls[c].unread
    <3>1. Owing = {}
      BY <2>10, <2>12 DEF Owing
    <3>2. (Unread \ Coming) \union Owing = Unread \ Coming
      BY <3>1
    <3>3. badge' = badge
      BY <1>1, <2>9, <2>12
    <3> QED BY <2>5, <2>7, <3>2, <3>3
  <2> QED BY <2>11, <2>12
<1>11. CountTells'
  <2> SUFFICES ASSUME Clear({"missed", "unheard", "crossed", "lost", "uncounted"})',
                      ~(Kept' \subseteq Coming')
               PROVE  count' >= Cardinality((Kept' \ Coming') \union Parting')
    BY DEF CountTells
  <2>1. count >= Cardinality((Kept \ Coming) \union Parting)
    BY <1>2, <1>3, <1>5 DEF InboxInv, CountTells
  <2> DEFINE R == (Kept \ Coming) \union Parting'
  <2>2. \A d \in Call : Landed(d, {"delete"})' => Landed(d, {"delete"}) /\ d # c /\ calls'[d].arg = calls[d].arg
    BY <1>3
  <2>3. \A d \in Call : Landed(d, {"delete"}) /\ d # c => Landed(d, {"delete"})' /\ calls'[d].arg = calls[d].arg
    BY <1>3
  <2>4. a \notin Parting'
    <3>1. \A d \in Call : Landed(d, {"delete"}) /\ d # c => calls[d].arg # a
      BY <1>1, <1>3 DEF InboxInv, InboxWell
    <3> QED BY <2>2, <3>1 DEF Parting
  <2>5. \A m : m \in Parting <=> m \in Parting' \/ (side = "store" /\ m = a)
    <3>1. Landed(c, {"delete"})
      BY <1>3
    <3> QED BY <1>1, <1>3, <2>2, <2>3, <3>1 DEF Parting
  <2>6. R \in SUBSET Note /\ a \notin R
    <3>1. \A d \in Call : Landed(d, {"delete"}) => calls[d].arg \in Note
      <4>1. \A d \in Call : Landed(d, {"delete"}) => Flying(d) /\ calls[d].what = "delete"
        BY DEF Landed, Flying
      <4> QED BY <4>1 DEF InboxInv, InboxWell, Fit, AnswerWell, Born
    <3>2. Parting' \subseteq Note
      BY <2>2, <3>1 DEF Parting
    <3> QED BY <1>1, <2>4, <3>2, KeptAre
  <2>7. (Kept' \ Coming') \union Parting' = R
    BY <1>3
  <2>8. IsFiniteSet(R) /\ Cardinality(R) \in Nat /\ count \in Nat
    BY <2>6, NotesAre DEF InboxInv, InboxWell, InboxTypeOK
  <2>9. CASE side = "store"
    <3>1. (Kept \ Coming) \union Parting = R \union {a}
      BY <2>5, <2>9
    <3> HIDE DEF R
    <3>2. Cardinality(R \union {a}) = Cardinality(R) + 1
      BY <2>6, <2>8, FS_AddElement
    <3>3. count >= Cardinality(R) + 1
      BY <2>1, <3>1, <3>2
    <3>4. count' >= Cardinality(R)
      BY <1>1, <2>8, <2>9, <3>3 DEF OneFewer
    <3> QED BY <2>7, <3>4
  <2>10. CASE side # "store"
    <3>1. (Kept \ Coming) \union Parting = R
      BY <2>5, <2>10
    <3> HIDE DEF R
    <3>2. count' = count
      BY <1>1, <2>10
    <3>3. count >= Cardinality(R)
      BY <2>1, <3>1
    <3>4. count' >= Cardinality(R)
      BY <3>2, <3>3
    <3> QED BY <2>7, <3>4
  <2> QED BY <2>9, <2>10
<1> QED BY <1>4, <1>6, <1>8, <1>9, <1>10, <1>11

LEMMA ReceiveCallKeeps ==
  ASSUME InboxInv, NEW c \in Call, ReceiveCall(c) PROVE InboxInv'
<1>1. CASE Whole(c)
  BY <1>1, WholeKeeps
<1>2. CASE ~Whole(c)
  <2>1. InboxWell'
    BY ReceiveCallWell
  <2>2. CASE "crossed" \in blame'
    <3>1. blame' = {"crossed"}
      BY <1>2, <2>2, ReceiveBlame
    <3> QED BY <2>1, <3>1 DEF InboxInv, CallsTell, EntriesTell, Reaches, Ordered, OneChange,
               ChangeTells, BadgeTells, CountTells, WillAsk, Clear
  <2>3. CASE "crossed" \notin blame'
    <3>1. calls[c].what \in {"page"} \union Change
      BY ReceiveFrame DEF Sent
    <3>2. CASE calls[c].what = "page"
      <4>1. WillAsk'
        <5>1. /\ \A d \in Call : d # c => ~Flying(d)
              /\ ~Asked /\ blame' = blame
          BY <1>2, <2>3, <3>2, MoreFrame
        <5>2. link' = link /\ side' = side
          BY ReceiveFrame
        <5> QED BY <5>1, <5>2 DEF InboxInv, WillAsk, Clear
      <4> QED BY <1>2, <2>1, <2>3, <3>2, <4>1, MoreReaches, MoreKeeps DEF InboxInv
    <3>3. CASE calls[c].what \in Change
      <4>1. calls[c].what # "page"
        BY <3>3 DEF Change
      <4>2. WillAsk'
        <5>1. ~Asked /\ blame' = blame
          BY <2>3, <4>1, DoneFrame
        <5>2. link' = link /\ side' = side
          BY ReceiveFrame
        <5> QED BY <5>1, <5>2 DEF InboxInv, WillAsk, Clear
      <4> QED BY <2>1, <2>3, <3>3, <4>2, ReadKeeps, AllKeeps, DeleteKeeps, WipeKeeps DEF InboxInv, Change
    <3> QED BY <3>1, <3>2, <3>3
  <2> QED BY <2>2, <2>3
<1> QED BY <1>1, <1>2

LEMMA InboxStarts ==
  ASSUME InboxInit PROVE InboxInv
<1>1. PICK k \in Olds : note = [n \in Note |->
         IF Cardinality({m \in Note : m <= n}) <= k THEN "unread" ELSE "unborn"]
  BY DEF InboxInit
<1>2. /\ due = {} /\ pushes = <<>> /\ listed = <<>> /\ blame = {} /\ Pushed = {} /\ Coming = {}
      /\ Ids = {} /\ DOMAIN listed = {} /\ DOMAIN pushes = {}
  BY DEF InboxInit, Pushed, Coming, Ids
<1>3. k \in Nat /\ 1 \in Call
  BY InboxAssumption DEF Call
<1>4. \A m, n \in Note : m < n /\ note[m] = "unborn" => note[n] = "unborn"
  <2> SUFFICES ASSUME NEW m \in Note, NEW n \in Note, m < n, note[m] = "unborn"
               PROVE  note[n] = "unborn"
    OBVIOUS
  <2> DEFINE A == {x \in Note : x <= m}
             B == {x \in Note : x <= n}
  <2>1. \A x \in Note : x \in Nat
    BY NotesAre
  <2>2. m \in Nat /\ n \in Nat
    BY <2>1
  <2>3. \A x \in A : x \in B
    BY <2>1, <2>2
  <2>4. A \subseteq B /\ B \in SUBSET Note /\ A \in SUBSET Note
    BY <2>3
  <2>5. Cardinality(A) <= Cardinality(B) /\ Cardinality(A) \in Nat /\ Cardinality(B) \in Nat
    BY <2>4, NotesAre, FS_Subset
  <2>6. ~(Cardinality(A) <= k)
    BY <1>1
  <2>7. ~(Cardinality(B) <= k)
    <3> HIDE DEF A, B
    <3> QED BY <1>3, <2>5, <2>6
  <2> QED BY <1>1, <2>7
<1>5. PICK q : q = NewCall("page", 1, FALSE)
  OBVIOUS
<1>6. /\ q \in Sent /\ q.step = "sent" /\ q.items = <<>> /\ q.what = "page" /\ q.arg = 1
      /\ q \in Sent \union {Idle}
  BY <1>5, PageCallIs
<1>7. calls = [c \in Call |-> IF c = 1 THEN q ELSE Idle]
  BY <1>5 DEF InboxInit
<1>8. calls[1] = q /\ \A c \in Call : c # 1 => calls[c] = Idle
  BY <1>3, <1>7
<1>9. Idle.step = "idle"
  BY DEF Idle
<1>10. /\ side \in {"store", "bell"} /\ link = "down" /\ badge = 0 /\ count = 0 /\ upto = 1
       /\ presses = 0 /\ breaks = 0
  BY DEF InboxInit
<1>11. \A c \in Call : Flying(c) <=> c = 1
  BY <1>3, <1>6, <1>8, <1>9 DEF Flying
<1>12. \A c \in Call : calls[c].step # "done"
  BY <1>6, <1>8, <1>9
<1>13. \A c \in Call : \A S : ~Landed(c, S)
  BY <1>12 DEF Landed
<1>14. Asked
  BY <1>3, <1>6, <1>8, <1>11 DEF Asked
<1>15. InboxTypeOK
  <2>1. note \in [Note -> Fate]
    BY <1>1 DEF Fate
  <2>2. <<>> \in Seq(Note) /\ <<>> \in Seq(Entry)
    OBVIOUS
  <2>3. 0 \in 0 .. MaxPresses /\ 0 \in 0 .. MaxBreaks
    BY BoundsOfInbox
  <2>4. calls \in [Call -> Sent \union {Idle}]
    <3> HIDE DEF Idle
    <3> QED BY <1>6, <1>7
  <2> QED BY <1>2, <1>10, <2>1, <2>2, <2>3, <2>4 DEF InboxTypeOK
<1>16. InboxWell
  <2>1. Fit(1)
    <3>1. DOMAIN calls[1].items = {}
      BY <1>6, <1>8
    <3>2. AnswerWell(q)
      BY <1>6, <1>8, <3>1 DEF AnswerWell
    <3> QED BY <1>8, <3>2 DEF Fit
  <2>2. \A c \in Call : Flying(c) => Fit(c)
    BY <1>11, <2>1
  <2> QED BY <1>2, <1>4, <1>13, <1>15, <2>2 DEF InboxWell
<1>17. CallsTell
  BY <1>2, <1>6, <1>8, <1>11 DEF CallsTell
<1>18. EntriesTell /\ Reaches /\ Ordered
  BY <1>2, <1>13 DEF EntriesTell, Reaches, Ordered
<1>19. OneChange /\ ChangeTells
  <2>1. InFlight(Change) = {}
    BY <1>6, <1>8, <1>11 DEF InFlight, Flying, Change
  <2> QED BY <2>1 DEF OneChange, ChangeTells
<1>20. BadgeTells /\ CountTells /\ WillAsk
  BY <1>2, <1>14 DEF BadgeTells, CountTells, WillAsk
<1> QED BY <1>16, <1>17, <1>18, <1>19, <1>20 DEF InboxInv

LEMMA InboxKeeps ==
  ASSUME InboxInv, [InboxNext]_inboxVars PROVE InboxInv'
<1>1. CASE UNCHANGED inboxVars
  <2>1. /\ UNCHANGED <<side, note, due, pushes, listed, badge, count, upto, calls, blame>>
        /\ link' = link /\ presses' = presses /\ breaks' = breaks
    BY <1>1 DEF inboxVars, server, copy
  <2> QED BY <2>1, StillKeeps DEF InboxInv, InboxWell, InboxTypeOK
<1>2. ASSUME NEW n \in Note, Create(n) \/ Publish(n) PROVE InboxInv'
  BY <1>2, CreateKeeps, PublishKeeps
<1>3. ASSUME NEW c \in Call, ServeCall(c) \/ LoseCall(c) \/ ReceiveCall(c) PROVE InboxInv'
  BY <1>3, ServeCallKeeps, LoseCallKeeps, ReceiveCallKeeps
<1>4. CASE LinkOpens \/ Subscribe \/ LinkBreaks \/ Announce
  BY <1>4, LinkOpensKeeps, SubscribeKeeps, LinkBreaksKeeps, AnnounceKeeps
<1>5. CASE LoadMore \/ OpenInbox
  BY <1>5, LoadMoreKeeps, OpenInboxKeeps
<1>6. CASE MarkAll \/ DeleteAll \/ \E i \in DOMAIN listed : MarkRead(i) \/ DeleteOne(i)
  BY <1>6, ChangesKeep
<1> QED BY <1>1, <1>2, <1>3, <1>4, <1>5, <1>6 DEF InboxNext

(* When nothing is on the way, what is left of the invariant is the truth. *)
LEMMA QuietTells ==
  ASSUME InboxInv, InboxQuiet
  PROVE  /\ Coming = {} /\ ~Asked /\ \A n : ~Buried(n) /\ ~Marked(n)
         /\ \A c \in Call : \A S : ~Landed(c, S)
         /\ Owing = {} /\ Parting = {}
<1>1. Coming = {}
  BY DEF InboxQuiet, Coming, Pushed
<1>2. \A c \in Call : ~Flying(c) /\ \A S : ~Landed(c, S)
  BY DEF InboxQuiet, Flying, Landed
<1> QED BY <1>1, <1>2 DEF Asked, Buried, Marked, Owing, Parting

LEMMA ListSizeIs ==
  ASSUME InboxInv, Once(listed)
  PROVE  IsFiniteSet(Ids) /\ Cardinality(Ids) = Len(listed) /\ IdsOf(listed) = Ids
<1>1. IdsOf(listed) = Ids
  BY DEF Ids, IdsOf
<1>2. listed \in Seq(Entry)
  BY SetsAre
<1> QED BY <1>1, <1>2, ListSize

LEMMA InboxIsHonest ==
  ASSUME InboxInv PROVE InboxHonest
<1>1. DeletedStaysAway
  <2> SUFFICES ASSUME InboxQuiet, Clear({"crossed", "lost"}) PROVE Ids \subseteq Kept
    BY DEF DeletedStaysAway, Clear
  <2> QED BY QuietTells DEF InboxInv, EntriesTell, Ids
<1>2. ListedOnce
  <2> SUFFICES ASSUME Clear({"missed", "unheard", "crossed", "shifted"})
               PROVE  \A i, j \in DOMAIN listed : listed[i].id = listed[j].id => i = j
    BY DEF ListedOnce, Clear
  <2>1. Clear({"missed", "unheard", "crossed"}) /\ Clear({"shifted"})
    BY DEF Clear
  <2> QED BY <2>1 DEF InboxInv, Reaches
<1>3. BadgeHonest
  <2> SUFFICES ASSUME InboxQuiet, Clear({"missed", "unheard", "crossed", "hasty", "lost"})
               PROVE  badge = Cardinality(Unread)
    BY DEF BadgeHonest, Clear
  <2>1. badge = Cardinality((Unread \ Coming) \union Owing)
    BY QuietTells DEF InboxInv, BadgeTells
  <2>2. (Unread \ Coming) \union Owing = Unread
    BY QuietTells
  <2> QED BY <2>1, <2>2
<1>4. StoreCatchesUp
  BY QuietTells DEF InboxInv, WillAsk, StoreCatchesUp, InboxQuiet, Clear
<1>5. AllWithinReach
  <2> SUFFICES ASSUME InboxQuiet, ~MoreOffered,
                      Clear({"missed", "unheard", "crossed", "shifted", "lost", "uncounted"})
               PROVE  Kept \subseteq Ids
    BY DEF AllWithinReach, Clear
  <2>1. /\ Clear({"missed", "unheard", "crossed", "lost", "uncounted"}) /\ Clear({"crossed", "lost"})
        /\ Clear({"missed", "unheard", "crossed"}) /\ Clear({"shifted"})
    BY DEF Clear
  <2>2. Once(listed)
    BY <2>1 DEF InboxInv, Reaches, Once
  <2>3. IsFiniteSet(Ids) /\ Cardinality(Ids) = Len(listed)
    BY <2>2, ListSizeIs
  <2>4. Ids \subseteq Kept
    BY <2>1, QuietTells DEF InboxInv, EntriesTell, Ids
  <2>5. Kept \subseteq Coming \/ count >= Cardinality((Kept \ Coming) \union Parting)
    BY <2>1, QuietTells DEF InboxInv, CountTells
  <2>6. (Kept \ Coming) \union Parting = Kept /\ Coming = {}
    BY QuietTells
  <2>7. CASE count >= Cardinality((Kept \ Coming) \union Parting)
    <3>1. count >= Cardinality(Kept)
      BY <2>6, <2>7
    <3>2. /\ IsFiniteSet(Kept) /\ Cardinality(Kept) \in Nat /\ Cardinality(Ids) \in Nat /\ count \in Nat
      BY <2>3, KeptAre, NotesAre, FS_CardinalityType DEF InboxInv, InboxWell, InboxTypeOK
    <3>3. Len(listed) >= count
      BY <2>3, <3>2 DEF MoreOffered
    <3>4. Cardinality(Ids) <= Cardinality(Kept) /\ (Cardinality(Ids) = Cardinality(Kept) => Ids = Kept)
      BY <2>4, <3>2, FS_Subset
    <3>5. Cardinality(Ids) = Cardinality(Kept)
      BY <2>3, <3>1, <3>2, <3>3, <3>4
    <3> QED BY <3>4, <3>5
  <2> QED BY <2>5, <2>6, <2>7
<1>6. ListHonest
  <2> SUFFICES ASSUME InboxQuiet,
                      Clear({"missed", "unheard", "crossed", "shifted", "lost", "swapped"})
               PROVE  listed = Entries(Newest(Len(listed)))
    BY DEF ListHonest, Clear
  <2>1. /\ Clear({"missed", "unheard", "crossed"}) /\ Clear({"crossed", "lost"}) /\ Clear({"shifted"})
    BY DEF Clear
  <2>2. Ids \subseteq Kept /\ Faithful(listed)
    BY <2>1, QuietTells DEF InboxInv, EntriesTell, Ids, Faithful
  <2>3. Falling(listed)
    BY DEF InboxInv, Ordered, Falling
  <2>4. /\ Once(listed)
        /\ \A n \in Ids \intersect Kept : Cardinality(Missing(n)) <= Cardinality(Dead)
    BY <2>1 DEF InboxInv, Reaches, Once
  <2>5. Cardinality(Dead) = 0
    <3>1. Dead = {}
      BY <2>2 DEF Dead
    <3> QED BY <3>1, FS_EmptySet
  <2>6. \A n \in Ids, m \in Kept : m > n => m \in Ids
    <3> SUFFICES ASSUME NEW n \in Ids, NEW m \in Kept, m > n, m \notin Ids PROVE FALSE
      OBVIOUS
    <3>1. m \in Missing(n)
      BY QuietTells DEF Missing
    <3>2. Missing(n) \in SUBSET Kept
      BY DEF Missing
    <3>3. IsFiniteSet(Missing(n)) /\ Cardinality(Missing(n)) \in Nat
      BY <3>2, KeptAre
    <3>4. Cardinality(Missing(n)) = 0
      BY <2>2, <2>4, <2>5, <3>3
    <3> QED BY <3>1, <3>3, <3>4, FS_EmptySet
  <2>7. Ids = Newest(Cardinality(Ids))
    BY <2>2, <2>6, UpIsNewest
  <2>8. Cardinality(Ids) = Len(listed) /\ IdsOf(listed) = Ids
    BY <2>4, ListSizeIs
  <2>9. listed = Entries(Ids)
    <3>1. listed \in Seq(Entry) /\ Ids \in SUBSET Note
      BY SetsAre
    <3> QED BY <2>2, <2>3, <2>8, <3>1, FallingIsEntries
  <2>10. Newest(Len(listed)) = Ids
    BY <2>7, <2>8
  <2> QED BY <2>9, <2>10
<1> QED BY <1>1, <1>2, <1>3, <1>4, <1>5, <1>6 DEF InboxInv, InboxWell, InboxHonest

(* Once nothing is on its way the list, the badge and the total of the Mini App  *)
(* and of the bell are the table's, but for the sequences named                   *)
(* (useNotificationStore.js 14-98, NotificationBell.jsx 45-150), for any          *)
(* notifications, page length, requests in flight, presses and broken connections. *)
THEOREM InboxStaysHonest ==
  InboxSpec => []InboxHonest
<1>1. InboxInit => InboxInv
  BY InboxStarts
<1>2. InboxInv /\ [InboxNext]_inboxVars => InboxInv'
  BY InboxKeeps
<1>3. InboxInv => InboxHonest
  BY InboxIsHonest
<1> QED BY <1>1, <1>2, <1>3, PTL DEF InboxSpec
=============================================================================
