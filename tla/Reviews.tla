------------------------------ MODULE Reviews ------------------------------
(***************************************************************************)
(* The reviews of one restaurant and the average that is kept beside them. *)
(* A request reads the restaurant, checks, writes the review, reads the    *)
(* average again and writes it to the restaurant: a creation and a removal  *)
(* in two transactions, an edit in one, all READ COMMITTED.                  *)
(* The page of the restaurant (RestaurantPage) chooses between creating and   *)
(* editing by whether its list has a review of the reader.                     *)
(*                                                                             *)
(* Abstracted: texts; the figures above the list, which are only read; whether  *)
(* a purchase is verified; a page of the list and the count of all are one read.   *)
(***************************************************************************)
EXTENDS Integers, Sequences, FiniteSetsExt

CONSTANTS
    Reader,        \* users who may review
    Stars,         \* the ratings they give
    PerPage,       \* reviews on a page of the list, newest first
    Tasks,         \* bound: requests in flight at once
    MaxReviews,    \* bound: reviews written
    MaxSubmits,    \* bound: what the readers start
    MaxDeaths      \* bound: requests that die

ASSUME ReviewsAssumption ==
    /\ Stars \subseteq 1 .. 5
    /\ {Tasks, MaxSubmits, MaxDeaths} \subseteq Nat /\ MaxReviews \in Nat \ {0}
    /\ PerPage \in Nat \ {0}

VARIABLES
    review,        \* the rows, in the order of their creation
    rating,        \* average_rating, in hundredths, and review_count
    tasks,         \* the requests in flight
    leaf,          \* which page of the list the reader has chosen
    sheet, total,  \* the list on the page of each reader, how long all of it was
    submits, deaths,
    doubt,         \* why the kept average may be wrong
    story          \* of each reader, what has crossed on his page

reviewsVars == <<review, rating, tasks, leaf, sheet, total, submits, deaths, doubt, story>>

Leaf == 1 .. MaxReviews
Task == 1 .. Tasks
Row == [by : Reader, stars : Stars, live : BOOLEAN]
Figures == [avg : 0 .. 500, count : 0 .. MaxReviews]
Ended == [at |-> "ended"]
NoFigures == [avg |-> 0, count |-> 0]
Request == [at : {"sent", "loaded", "checked", "written", "computed", "answered", "failed"},
            what : {"create", "update", "delete", "list"}, by : Reader,
            review : 0 .. MaxReviews, leaf : Leaf, stars : Stars, loaded : Figures, new : Figures,
            alone : BOOLEAN, got : SUBSET (1 .. MaxReviews), count : 0 .. MaxReviews]

ReviewsTypeOK ==
    /\ review \in Seq(Row) /\ Len(review) <= MaxReviews
    /\ rating \in Figures
    /\ tasks \in [Task -> Request \union {Ended}]
    /\ leaf \in [Reader -> Leaf]
    /\ sheet \in [Reader -> SUBSET DOMAIN review]
    /\ total \in [Reader -> 0 .. MaxReviews]
    /\ submits \in 0 .. MaxSubmits /\ deaths \in 0 .. MaxDeaths
    /\ doubt \subseteq {"overlap", "died"}
    /\ story \in [Reader -> SUBSET {"twin", "crossed", "died", "left out", "refused"}]

Running(what) == {t \in Task : tasks[t] # Ended /\ tasks[t].what \in what}
Changing == {"create", "update", "delete"}
(* Between its first query and its last commit. *)
Inside(t) == tasks[t] # Ended /\ tasks[t].at \in {"loaded", "checked", "written", "computed"}

Live(by) == {i \in DOMAIN review : review[i].live /\ review[i].by \in by}

(* How many of the live rows give so many stars, and the average of them all. *)
Gives(rows, stars) == Cardinality({i \in DOMAIN rows : rows[i].live /\ rows[i].stars = stars})

Tally(rows) ==
    LET n == Cardinality({i \in DOMAIN rows : rows[i].live})
        sum == Gives(rows, 1) + 2 * Gives(rows, 2) + 3 * Gives(rows, 3)
                 + 4 * Gives(rows, 4) + 5 * Gives(rows, 5)
    IN IF n = 0 THEN NoFigures ELSE [avg |-> (100 * sum) \div n, count |-> n]

(* The reviews on a page of the list: so many newer ones come before it. *)
OnLeaf(page) ==
    {i \in Live(Reader) :
       Cardinality({j \in Live(Reader) : j > i}) \in (page - 1) * PerPage .. page * PerPage - 1}

(* The pages have just loaded the newest reviews, one of each reader at most. *)
ReviewsInit ==
    /\ review \in {rows \in UNION {[1 .. n -> Row] : n \in 0 .. Min({2, MaxReviews})} :
                    \A i, j \in DOMAIN rows : rows[i].live /\ (rows[i].by = rows[j].by => i = j)}
    /\ rating = Tally(review)
    /\ tasks = [t \in Task |-> Ended]
    /\ leaf = [u \in Reader |-> 1]
    /\ sheet = [u \in Reader |-> OnLeaf(1)]
    /\ total = [u \in Reader |-> Len(review)]
    /\ submits = 0 /\ deaths = 0 /\ doubt = {}
    /\ story = [u \in Reader |-> IF Live({u}) \subseteq OnLeaf(1) THEN {} ELSE {"left out"}]

Befalls(u, what) == story' = [story EXCEPT ![u] = @ \union what]

---------------------------------------------------------------------------
(* The page. *)
Asks(u, what, id, stars, page) ==
    /\ submits < MaxSubmits /\ submits' = submits + 1
    /\ \E t \in Task :
         /\ tasks[t] = Ended /\ \A s \in Task : tasks[s] = Ended => t <= s
         /\ tasks' = [tasks EXCEPT ![t] =
              [at |-> "sent", what |-> what, by |-> u, review |-> id, stars |-> stars, leaf |-> page,
               loaded |-> NoFigures, new |-> NoFigures, alone |-> TRUE, got |-> {}, count |-> 0]]
    /\ Befalls(u, IF \E t \in Task : tasks[t] # Ended /\ tasks[t].by = u
                  THEN {"crossed"} ELSE {})
    /\ UNCHANGED <<review, rating, sheet, total, deaths, doubt>>

Own(u) == {i \in sheet[u] : review[i].by = u}

(* Nothing keeps the form from being sent twice. *)
HasReview(u) == Own(u) # {}

Submit(u, stars) ==
    /\ IF HasReview(u) THEN Asks(u, "update", 0, stars, leaf[u])
                       ELSE Asks(u, "create", 0, stars, leaf[u])
    /\ UNCHANGED leaf

Delete(u) ==
    /\ \E id \in Own(u) : Asks(u, "delete", id, Min(Stars), leaf[u])
    /\ UNCHANGED leaf

(* A page back or forth; an empty list has no pages to turn. *)
TurnLeaf(u, page) ==
    /\ sheet[u] # {} /\ page \in {leaf[u] - 1, leaf[u] + 1}
    /\ page = 1 \/ (page - 1) * PerPage < total[u]
    /\ leaf' = [leaf EXCEPT ![u] = page]
    /\ Asks(u, "list", 0, Min(Stars), page)

---------------------------------------------------------------------------
(* The server. *)
Moves(t, q) == tasks' = [tasks EXCEPT ![t] = q]
Stays == UNCHANGED <<leaf, sheet, total, submits, deaths, story>>

(* The restaurant is loaded, with the figures it has then. *)
LoadRestaurant(t) ==
    /\ tasks[t].at = "sent" /\ tasks[t].what \in Changing
    /\ LET others == {s \in Task : Inside(s)} IN
       tasks' = [s \in Task |->
         IF s = t THEN [tasks[t] EXCEPT !.at = "loaded", !.loaded = rating, !.alone = others = {}]
         ELSE IF s \in others THEN [tasks[s] EXCEPT !.alone = FALSE] ELSE tasks[s]]
    /\ UNCHANGED <<review, rating, doubt>> /\ Stays

(* Which review it is about; an edit fails on a user with two. *)
Passes(q) ==
    CASE q.what = "create" -> Live({q.by}) = {}
      [] q.what = "update" -> Cardinality(Live({q.by})) = 1
      [] OTHER -> q.review \in Live({q.by})

Subject(q) == IF q.what = "update" THEN Min(Live({q.by})) ELSE q.review

Check(t) ==
    /\ tasks[t].at = "loaded"
    /\ \/ /\ Passes(tasks[t])
          /\ Moves(t, [tasks[t] EXCEPT !.at = "checked", !.review = Subject(tasks[t])])
          /\ UNCHANGED story
       \/ /\ ~Passes(tasks[t])
          /\ Moves(t, [tasks[t] EXCEPT !.at = "failed"])
          /\ Befalls(tasks[t].by, {"refused"})
    /\ UNCHANGED <<review, rating, leaf, sheet, total, submits, deaths, doubt>>

(* A creation and a removal are committed here; an edit holds its row until   *)
(* its commit, and shows the change to nobody else before.                      *)
HeldBy(id) == {t \in Running({"update"}) : tasks[t].at \in {"written", "computed"} /\ tasks[t].review = id}

WriteReview(t) ==
    LET q == tasks[t] IN
    /\ q.at = "checked"
    /\ \/ /\ q.what = "create" /\ Len(review) < MaxReviews
          /\ review' = Append(review, [by |-> q.by, stars |-> q.stars, live |-> TRUE])
          /\ Befalls(q.by, IF Live({q.by}) # {} THEN {"twin"} ELSE {})
       \/ /\ q.what = "delete" /\ HeldBy(q.review) = {}
          /\ review' = [review EXCEPT ![q.review].live = FALSE]
          /\ UNCHANGED story
       \/ /\ q.what = "update" /\ HeldBy(q.review) = {}
          /\ UNCHANGED <<review, story>>
    /\ Moves(t, [q EXCEPT !.at = "written"])
    /\ UNCHANGED <<rating, doubt, leaf, sheet, total, submits, deaths>>

(* The rows as the request sees them: its own change and what is committed. *)
Edited(q) == IF q.what = "update" THEN [review EXCEPT ![q.review].stars = q.stars] ELSE review

ComputeAverage(t) ==
    /\ tasks[t].at = "written"
    /\ Moves(t, [tasks[t] EXCEPT !.at = "computed", !.new = Tally(Edited(tasks[t]))])
    /\ UNCHANGED <<review, rating, doubt>> /\ Stays

(* Only a column whose value is not the one that was loaded is written. *)
Mistake_Stored(q) == [rating EXCEPT !.avg = q.new.avg]
Stored(q) ==
    [avg |-> IF q.new.avg = q.loaded.avg THEN rating.avg ELSE q.new.avg,
     count |-> IF q.new.count = q.loaded.count THEN rating.count ELSE q.new.count]

StoreAverage(t) ==
    LET q == tasks[t] IN
    /\ q.at = "computed"
    /\ rating' = Stored(q)
    /\ review' = Edited(q)
    /\ doubt' = IF q.alone THEN {} ELSE doubt \union {"overlap"}
    /\ Moves(t, [q EXCEPT !.at = "answered"])
    /\ Stays

(* The request dies, or its answer is lost on the way. *)
Die(t) ==
    LET q == tasks[t] IN
    /\ q # Ended /\ q.at \notin {"failed"} /\ deaths < MaxDeaths
    /\ deaths' = deaths + 1
    /\ Moves(t, [q EXCEPT !.at = "failed"])
    /\ doubt' = IF q.what \in {"create", "delete"} /\ q.at \in {"written", "computed"}
                THEN doubt \union {"died"} ELSE doubt
    /\ Befalls(q.by, {"died"})
    /\ UNCHANGED <<review, rating, leaf, sheet, total, submits>>

(* A full list clears what happened before. *)
ServeList(t) ==
    LET q == tasks[t]
        hidden == Live({q.by}) \ OnLeaf(q.leaf)
    IN
    /\ q.what = "list" /\ q.at = "sent"
    /\ Moves(t, [q EXCEPT !.at = "answered", !.got = OnLeaf(q.leaf),
                         !.count = Cardinality(Live(Reader))])
    /\ story' = [story EXCEPT ![q.by] = IF hidden # {} THEN @ \union {"left out"}
                                        ELSE @ \ {"left out", "refused"}]
    /\ UNCHANGED <<review, rating, doubt, leaf, sheet, total, submits, deaths>>

---------------------------------------------------------------------------
(* The answers. *)
Receive(t) ==
    LET q == tasks[t] IN
    \/ /\ q.at = "failed"
       /\ Moves(t, Ended) /\ UNCHANGED <<sheet, total>>
    \/ /\ q.at = "answered" /\ q.what = "list"
       /\ sheet' = [sheet EXCEPT ![q.by] = q.got]
       /\ total' = [total EXCEPT ![q.by] = q.count]
       /\ Moves(t, Ended)
    \/ /\ q.at = "answered" /\ q.what = "delete"
       /\ sheet' = [sheet EXCEPT ![q.by] = @ \ {q.review}]
       /\ Moves(t, Ended) /\ UNCHANGED total
    \/ /\ q.at = "answered" /\ q.what \in {"create", "update"}
       /\ Moves(t, [q EXCEPT !.what = "list", !.at = "sent", !.review = 0,
                             !.loaded = NoFigures, !.new = NoFigures, !.alone = TRUE])
       /\ UNCHANGED <<sheet, total>>

ReceiveReview(t) ==
    Receive(t) /\ UNCHANGED <<review, rating, leaf, submits, deaths, doubt, story>>

ReviewsNext ==
    \/ \E u \in Reader, s \in Stars : Submit(u, s)
    \/ \E u \in Reader : Delete(u)
    \/ \E u \in Reader, page \in Leaf : TurnLeaf(u, page)
    \/ \E t \in Task :
         /\ tasks[t] # Ended
         /\ \/ LoadRestaurant(t) \/ Check(t) \/ WriteReview(t) \/ ComputeAverage(t)
            \/ StoreAverage(t) \/ Die(t) \/ ServeList(t) \/ ReceiveReview(t)

ReviewsSpec == ReviewsInit /\ [][ReviewsNext]_reviewsVars

---------------------------------------------------------------------------
(* Whatever went wrong before, once a request has run with no other beside    *)
(* it the kept figures are those of the reviews: they are wrong only after      *)
(* requests that overlapped, or one that died between its two commits, and       *)
(* only until the next that runs alone (service.py 59-71, 91-97, 116-122).        *)
FiguresRight ==
    (\A t \in Task : ~Inside(t)) /\ doubt = {} => rating = Tally(review)

(* A reader has one review at most, unless he sent two before the first was    *)
(* written: the count is taken before the insert, no constraint stands behind    *)
(* it (service.py 53-57).                                                         *)
OneReviewEach == \A u \in Reader : "twin" \notin story[u] => Cardinality(Live({u})) <= 1

(* When nothing is under way the page has the reader's review if there is one, *)
(* and what he sent was not refused for the kind of request it was - unless two   *)
(* of his requests crossed, one died, or the page of the list he looks at leaves   *)
(* his review out: whether he may create or edit is decided from it                  *)
(* (RestaurantPage.jsx 268-288, 341-383; service.py 56, 92, 117).                     *)
PageKnowsOwn ==
    \A u \in Reader : story[u] \intersect {"crossed", "died", "left out"} = {} =>
      /\ "refused" \notin story[u]
      /\ (\A t \in Task : tasks[t] = Ended) => Own(u) = Live({u})

(* The figures above the reviews, the reviews and the pages agree. *)
ReviewsSound == ReviewsTypeOK /\ FiguresRight /\ OneReviewEach /\ PageKnowsOwn
=============================================================================
