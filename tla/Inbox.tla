------------------------------- MODULE Inbox -------------------------------
(***************************************************************************)
(* The notifications of one user: the table the server keeps, the pages it *)
(* answers with, the message a new one is announced by, and the client's   *)
(* copy of it all - the list, the badge and the count that offers "load    *)
(* more".  There are two clients: the Mini App's store (side = "store")    *)
(* and the bell of the web client ("bell"); the side is chosen at the      *)
(* start.  A notification is its number, the later the greater.            *)
(*                                                                         *)
(* Abstracted: texts and their grouping by day; the heartbeat of the       *)
(* socket and its giving up (Socket); a refused request counts as lost.    *)
(***************************************************************************)
EXTENDS Integers, Sequences, FiniteSets

CONSTANTS
    Note,          \* the notifications that may ever exist
    Olds,          \* how many of them may be there when the client starts
    PageSize,      \* 20 in the code
    Calls,         \* bound: requests in flight at once
    MaxPresses,    \* bound: what the user does
    MaxBreaks      \* bound: connections and requests that fail

ASSUME InboxAssumption ==
    /\ Note \subseteq Nat /\ IsFiniteSet(Note) /\ Olds \subseteq Nat
    /\ PageSize \in Nat \ {0} /\ Calls \in Nat \ {0}
    /\ MaxPresses \in Nat /\ MaxBreaks \in Nat

VARIABLES
    side,
    note,          \* the table: what has become of each notification
    due,           \* committed, and not announced yet
    link,          \* the socket: "down", "open", and "on" once subscribed
    pushes,        \* announced, on the way to the client
    listed, badge, count, upto,    \* notifications, unreadCount, total, page
    calls,         \* the requests in flight
    presses, breaks,
    blame          \* what has gone wrong since the client last had it all

server == <<note, due>>
copy == <<listed, badge, count, upto>>
inboxVars == <<side, server, link, pushes, copy, calls, presses, breaks, blame>>

Fate == {"unborn", "unread", "read", "deleted"}
Entry == [id : Note, read : BOOLEAN]
Call == 1 .. Calls
Idle == [step |-> "idle"]
Change == {"read", "all", "delete", "wipe"}
Sent == [step : {"sent", "done"}, what : {"page"} \union Change,
         arg : Note \union Nat, unread : BOOLEAN,
         items : Seq(Entry), total : Nat, badge : Nat]
Blame == {"missed", "unheard", "crossed", "shifted", "hasty", "lost", "uncounted", "swapped"}

InboxTypeOK ==
    /\ side \in {"store", "bell"}
    /\ note \in [Note -> Fate] /\ due \subseteq Note
    /\ link \in {"down", "open", "on"} /\ pushes \in Seq(Note)
    /\ listed \in Seq(Entry) /\ badge \in Nat /\ count \in Nat /\ upto \in Nat \ {0}
    /\ calls \in [Call -> Sent \union {Idle}]
    /\ presses \in 0 .. MaxPresses /\ breaks \in 0 .. MaxBreaks
    /\ blame \subseteq Blame

Kept == {n \in Note : note[n] \in {"unread", "read"}}
Unread == {n \in Note : note[n] = "unread"}
Nth(S, k) == CHOOSE n \in S : Cardinality({m \in S : m <= n}) = k
Entries(S) == [i \in 1 .. Cardinality(S) |->
    LET n == Nth(S, Cardinality(S) + 1 - i) IN [id |-> n, read |-> note[n] = "read"]]
Newest(k) == {n \in Kept : Cardinality({m \in Kept : m >= n}) <= k}
Ids == {listed[i].id : i \in DOMAIN listed}
OneFewer(n) == IF n = 0 THEN 0 ELSE n - 1

InFlight(what) == {c \in Call : calls[c].step # "idle" /\ calls[c].what \in what}
FreeCall == CHOOSE c \in Call : calls[c].step = "idle"
CanCall == \E c \in Call : calls[c].step = "idle"
NewCall(what, arg, unread) ==
    [step |-> "sent", what |-> what, arg |-> arg, unread |-> unread,
     items |-> <<>>, total |-> 0, badge |-> 0]
Send(what, arg, unread) == calls' = [calls EXCEPT ![FreeCall] = NewCall(what, arg, unread)]

(* A page that crossed a change excuses everything: the rest is then left out. *)
Blaming(causes) ==
    blame' = IF "crossed" \in blame \union causes THEN {"crossed"} ELSE blame \union causes

(* The application starts with a first page asked for and the socket dialled. *)
InboxInit ==
    /\ side \in {"store", "bell"}
    /\ \E k \in Olds : note = [n \in Note |->
         IF Cardinality({m \in Note : m <= n}) <= k THEN "unread" ELSE "unborn"]
    /\ due = {} /\ link = "down" /\ pushes = <<>>
    /\ listed = <<>> /\ badge = 0 /\ count = 0 /\ upto = 1
    /\ calls = [c \in Call |-> IF c = 1 THEN NewCall("page", 1, FALSE) ELSE Idle]
    /\ presses = 0 /\ breaks = 0 /\ blame = {}

---------------------------------------------------------------------------
(* The server. *)

(* A later page counts from the newest: what is added or deleted while the    *)
(* client reads on shifts it.                                                  *)
Shifting == IF \E c \in InFlight({"page"}) : calls[c].step = "done" \/ calls[c].arg > 1
            THEN {"crossed"} ELSE {}

Create(n) ==
    /\ note[n] = "unborn" /\ \A m \in Note : m < n => note[m] # "unborn"
    /\ note' = [note EXCEPT ![n] = "unread"]
    /\ due' = due \union {n}
    /\ Blaming(Shifting)
    /\ UNCHANGED <<side, link, pushes, copy, calls, presses, breaks>>

(* The row is committed first and announced afterwards, to those who listen. *)
Announced(n) == IF link = "on" THEN Append(pushes, n) ELSE pushes

Publish(n) ==
    /\ n \in due
    /\ due' = due \ {n}
    /\ pushes' = Announced(n)
    /\ Blaming((CASE link = "on" -> {} [] link = "open" -> {"missed"} [] OTHER -> {"unheard"})
               \union (IF \E m \in due : m < n THEN {"swapped"} ELSE {}))
    /\ UNCHANGED <<side, note, link, copy, calls, presses, breaks>>

(* A page: limit and offset over the newest first, the count of all and of   *)
(* the unread.                                                                *)
Page(k) == Newest(k * PageSize) \ Newest((k - 1) * PageSize)

Answered(q) ==
    IF q.what # "page" THEN [q EXCEPT !.step = "done"]
    ELSE [q EXCEPT !.step = "done", !.items = Entries(Page(q.arg)),
                   !.total = Cardinality(Kept), !.badge = Cardinality(Unread)]

(* Reading what is read already is no error; deleting what is gone is. *)
Refused(q) == q.what \in {"read", "delete"} /\ q.arg \notin Kept

Changed(q) ==
    CASE q.what = "read" -> [note EXCEPT ![q.arg] = "read"]
      [] q.what = "all" -> [n \in Note |-> IF note[n] = "unread" THEN "read" ELSE note[n]]
      [] q.what = "delete" -> [note EXCEPT ![q.arg] = "deleted"]
      [] q.what = "wipe" -> [n \in Note |-> IF n \in Kept THEN "deleted" ELSE note[n]]
      [] OTHER -> note

(* A page is asked for while something else is, of which one changes the list. *)
Crossing(c) ==
    LET others == IF calls[c].what = "page" THEN Change \union {"page"} ELSE {"page"}
    IN IF InFlight(others) \ {c} # {} THEN {"crossed"} ELSE {}

ServeCall(c) ==
    /\ calls[c].step = "sent"
    /\ ~Refused(calls[c])
    /\ note' = Changed(calls[c])
    /\ calls' = [calls EXCEPT ![c] = Answered(@)]
    /\ Blaming(Crossing(c)
               \union (IF due # {} \/ pushes # <<>> THEN {"crossed"} ELSE {}))
    /\ UNCHANGED <<side, due, link, pushes, copy, presses, breaks>>

LoseCall(c) ==
    /\ calls[c].step # "idle" /\ breaks < MaxBreaks
    /\ calls' = [calls EXCEPT ![c] = Idle]
    /\ breaks' = breaks + 1
    /\ Blaming({"lost"})
    /\ UNCHANGED <<side, server, link, pushes, copy, presses>>

---------------------------------------------------------------------------
(* The socket.  It is accepted before it is subscribed; the store fetches on  *)
(* the former, the bell never again.                                           *)
Fetched == IF side = "store" THEN [calls EXCEPT ![FreeCall] = NewCall("page", 1, FALSE)]
           ELSE calls

LinkOpens ==
    /\ link = "down" /\ CanCall
    /\ link' = "open"
    /\ calls' = Fetched
    /\ UNCHANGED <<side, server, pushes, copy, presses, breaks, blame>>

Subscribe ==
    /\ link = "open"
    /\ link' = "on"
    /\ UNCHANGED <<side, server, pushes, copy, calls, presses, breaks, blame>>

LinkBreaks ==
    /\ link # "down" /\ breaks < MaxBreaks
    /\ link' = "down" /\ pushes' = <<>> /\ breaks' = breaks + 1
    /\ Blaming(IF pushes = <<>> THEN {} ELSE {"unheard"})
    /\ UNCHANGED <<side, server, copy, calls, presses>>

(* A notification is announced: it is put in front.  The bell does not count  *)
(* it in its total.                                                            *)
Counted == IF side = "store" THEN count + 1 ELSE count

Announce ==
    /\ pushes # <<>>
    /\ pushes' = Tail(pushes)
    /\ listed' = <<[id |-> Head(pushes), read |-> FALSE]>> \o listed
    /\ badge' = badge + 1
    /\ count' = Counted
    /\ Blaming((IF side = "bell" THEN {"uncounted"} ELSE {})
               \union (IF InFlight({"page"} \union Change) # {} THEN {"crossed"} ELSE {}))
    /\ UNCHANGED <<side, server, link, upto, calls, presses, breaks>>

---------------------------------------------------------------------------
(* The user.  A later page is offered while the list is shorter than total.  *)
MoreOffered == Len(listed) < count

Press == presses < MaxPresses /\ presses' = presses + 1 /\ CanCall

Hasty == IF InFlight(Change) # {} THEN {"hasty"} ELSE {}

LoadMore ==
    /\ Press /\ MoreOffered
    /\ \A c \in InFlight({"page"}) : calls[c].arg = 1
    /\ Send("page", upto + 1, FALSE)
    /\ Blaming((IF Len(listed) # upto * PageSize THEN {"shifted"} ELSE {})
               \union (IF InFlight({"page"}) # {} THEN {"crossed"} ELSE {}))
    /\ UNCHANGED <<side, server, link, pushes, copy, breaks>>

(* The page of the Mini App fetches when it is opened. *)
OpenInbox ==
    /\ side = "store" /\ Press
    /\ Send("page", 1, FALSE)
    /\ UNCHANGED <<side, server, link, pushes, copy, breaks, blame>>

MarkRead(i) ==
    /\ ~listed[i].read /\ Press
    /\ Send("read", listed[i].id, TRUE)
    /\ Blaming(Hasty)
    /\ UNCHANGED <<side, server, link, pushes, copy, breaks>>

DeleteOne(i) ==
    /\ Press
    /\ Send("delete", listed[i].id, ~listed[i].read)
    /\ Blaming(Hasty)
    /\ UNCHANGED <<side, server, link, pushes, copy, breaks>>

MarkAll ==
    /\ badge > 0 /\ (side = "bell" => listed # <<>>) /\ Press
    /\ Send("all", 0, FALSE)
    /\ Blaming(Hasty)
    /\ UNCHANGED <<side, server, link, pushes, copy, breaks>>

DeleteAll ==
    /\ listed # <<>> /\ Press
    /\ Send("wipe", 0, FALSE)
    /\ Blaming(Hasty)
    /\ UNCHANGED <<side, server, link, pushes, copy, breaks>>

---------------------------------------------------------------------------
(* What the answers do to the copy. *)
Mistake_FetchedPage(q) ==
    /\ listed' = listed \o q.items
    /\ badge' = q.badge /\ count' = q.total /\ upto' = q.arg
FetchedPage(q) ==
    /\ listed' = IF q.arg = 1 THEN q.items ELSE listed \o q.items
    /\ badge' = IF side = "bell" /\ q.arg > 1 THEN badge ELSE q.badge
    /\ count' = q.total
    /\ upto' = q.arg

(* All that the server has up to here is in the copy again. *)
Whole(c) ==
    LET q == calls[c] IN
    /\ q.what = "page" /\ q.arg = 1
    /\ q.items = Entries(Page(1)) /\ q.total = Cardinality(Kept)
    /\ q.badge = Cardinality(Unread)
    /\ due = {} /\ pushes = <<>> /\ \A d \in Call \ {c} : calls[d].step = "idle"

MarkedRead(n) ==
    /\ listed' = [i \in DOMAIN listed |->
                    IF listed[i].id = n THEN [listed[i] EXCEPT !.read = TRUE] ELSE listed[i]]
    /\ badge' = OneFewer(badge)
    /\ UNCHANGED <<count, upto>>

AllRead ==
    /\ listed' = [i \in DOMAIN listed |-> [listed[i] EXCEPT !.read = TRUE]]
    /\ badge' = 0
    /\ UNCHANGED <<count, upto>>

(* Whether the deleted one was unread: the store looks when the answer comes, *)
(* the bell looked when it was tapped and leaves its total alone.              *)
WasUnread(q) ==
    IF side = "bell" THEN q.unread
    ELSE \E i \in DOMAIN listed :
           listed[i].id = q.arg /\ ~listed[i].read /\ \A j \in 1 .. i - 1 : listed[j].id # q.arg

Left(n) == {i \in DOMAIN listed : listed[i].id # n}
Without(n) == [k \in 1 .. Cardinality(Left(n)) |-> listed[Nth(Left(n), k)]]
Deleted(q) ==
    /\ listed' = Without(q.arg)
    /\ badge' = IF WasUnread(q) THEN OneFewer(badge) ELSE badge
    /\ count' = IF side = "store" THEN OneFewer(count) ELSE count
    /\ UNCHANGED upto

Wiped == listed' = <<>> /\ badge' = 0 /\ count' = 0 /\ upto' = 1

ReceiveCall(c) ==
    LET q == calls[c] IN
    /\ q.step = "done"
    /\ \/ q.what = "page" /\ FetchedPage(q)
       \/ q.what = "read" /\ MarkedRead(q.arg)
       \/ q.what = "all" /\ AllRead
       \/ q.what = "delete" /\ Deleted(q)
       \/ q.what = "wipe" /\ Wiped
    /\ IF Whole(c) THEN blame' = {} ELSE Blaming(Crossing(c))
    /\ calls' = [calls EXCEPT ![c] = Idle]
    /\ UNCHANGED <<side, server, link, pushes, presses, breaks>>

---------------------------------------------------------------------------
InboxNext ==
    \/ \E n \in Note : Create(n) \/ Publish(n)
    \/ \E c \in Call : ServeCall(c) \/ LoseCall(c) \/ ReceiveCall(c)
    \/ LinkOpens \/ Subscribe \/ LinkBreaks \/ Announce
    \/ LoadMore \/ OpenInbox \/ MarkAll \/ DeleteAll
    \/ \E i \in DOMAIN listed : MarkRead(i) \/ DeleteOne(i)

InboxSpec == InboxInit /\ [][InboxNext]_inboxVars
===========================================================================
