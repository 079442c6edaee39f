---------------------------- MODULE CustomerProps ----------------------------
(* What the pages of a customer owe him: the views of an order, the inbox    *)
(* and the hearts.  Where the code lets a thing go wrong the property names   *)
(* the sequence it takes, and says that nothing else does it.                 *)
EXTENDS OrderViews, Inbox, Favourites

-----------------------------------------------------------------------------
(* The page of an order and the banner of the active one. *)
NothingOnTheWay ==
    /\ Spare = Slot
    /\ sock.id # 0 => sock.line = "up" /\ sock.wire = <<>>

(* When no answer and no message is on the way, the page shows its own order *)
(* as the server has it - unless an answer went past a newer message, or the *)
(* answer for another order came last: both write the one currentOrder        *)
(* (OrderStatusPage.jsx 173-192, useOrderStore.js 249-253).                   *)
PageShowsTheOrder ==
    view = "page" /\ route # 0 /\ NothingOnTheWay =>
      \/ shown = [id |-> route, status |-> actual[route]]
      \/ mishap \intersect {"overtaken", "crossed"} # {}

(* The page shows another order than its own, whose buttons then act on its   *)
(* own, only until its own has come, or after an answer was lost or crossed    *)
(* (258-280: the id is the route's).                                            *)
WrongOrderOnlyWhileLoading ==
    view = "page" /\ route # 0 /\ shown.id \notin {0, route} =>
      \/ sock.line # "up" \/ sock.wire # <<>>
      \/ "crossed" \in mishap

(* An order is celebrated as handed over only when it is, unless the page was *)
(* opened while the store still had another (194-202: the key is the route's). *)
CelebratesTheCompleted ==
    \A o \in seen : actual[o] = "COMPLETED" \/ mishap \intersect {"stale", "crossed"} # {}

(* A button waits only while its own request, or the load after it, is on the  *)
(* way (258-280, finally).                                                      *)
ButtonsComeBack ==
    \A what \in busy : \E s \in Slot : Used(s) /\ http[s].for = what

(* While an order of this customer is active the banner shows one, unless two  *)
(* were active at once, or the list was lost or older than an order just placed *)
(* (useOrderStore.js 213-222).                                                   *)
BannerMissesNone ==
    view = "banner" /\ NothingOnTheWay /\ shown = None =>
      Active = {} \/ mishap \intersect {"second", "lost", "overtaken"} # {}

(* However answers, messages, taps and reconnects cross, the views of an order  *)
(* are right in the end and wrong only in the ways named above.                  *)
OrderViewsSound ==
    /\ ViewTypeOK
    /\ PageShowsTheOrder
    /\ WrongOrderOnlyWhileLoading
    /\ CelebratesTheCompleted
    /\ ButtonsComeBack
    /\ BannerMissesNone

-----------------------------------------------------------------------------
(* The inbox. *)
InboxQuiet ==
    /\ link = "on" /\ due = {} /\ pushes = <<>>
    /\ \A c \in Call : calls[c].step = "idle"

(* When nothing is on the way, the list is the newest of what the server has, *)
(* read and unread as there - unless since the last whole load one was         *)
(* announced while nobody listened or before an older one, a page answer       *)
(* crossed a change or an announcement, or a page was asked for by a number    *)
(* that no longer fits (useNotificationStore.js 17-116, NotificationBell.jsx    *)
(* 62-155).                                                                      *)
ListHonest ==
    InboxQuiet /\ blame \intersect {"missed", "unheard", "crossed", "shifted", "lost", "swapped"} = {} =>
      listed = Entries(Newest(Len(listed)))

(* The badge counts the unread ones the server has, unless one of these, or a   *)
(* second change was made before the answer to the first (39-49: each answer     *)
(* takes one off).                                                                *)
BadgeHonest ==
    InboxQuiet /\ blame \intersect {"missed", "unheard", "crossed", "hasty", "lost"} = {} =>
      badge = Cardinality(Unread)

(* No notification is listed twice, unless a page crossed its announcement or   *)
(* was shifted by it, heard or not.                                               *)
ListedOnce ==
    blame \intersect {"missed", "unheard", "crossed", "shifted"} = {} =>
      \A i, j \in DOMAIN listed : listed[i].id = listed[j].id => i = j

(* What was deleted stays off the list, whatever was missed or shifted. *)
DeletedStaysAway ==
    InboxQuiet /\ blame \intersect {"crossed", "lost"} = {} => Ids \subseteq Kept

(* Where no more is offered, all there is has been listed; the bell, whose      *)
(* total leaves announcements out, hides older ones (76-81, 394).                *)
AllWithinReach ==
    InboxQuiet /\ ~MoreOffered
      /\ blame \intersect {"missed", "unheard", "crossed", "shifted", "lost", "uncounted"} = {} =>
      Kept \subseteq Ids

(* What was announced while the Mini App's socket was down is fetched when it   *)
(* opens again (99-113); the bell never asks again.                               *)
StoreCatchesUp ==
    side = "store" /\ InboxQuiet /\ "unheard" \in blame =>
      "lost" \in blame

(* The copy of the inbox, fed by pages, announcements and its own changes, is   *)
(* true, false only after the crossings named, and keeps nothing out of reach.   *)
InboxHonest ==
    /\ InboxTypeOK
    /\ ListHonest
    /\ BadgeHonest
    /\ ListedOnce
    /\ DeletedStaysAway
    /\ AllWithinReach
    /\ StoreCatchesUp

-----------------------------------------------------------------------------
(* The hearts. *)
HeartsQuiet == Unused = Post

(* When nothing is on the way the hearts are the table, although each tap is   *)
(* shown before it is sent - unless an answer was lost, the same heart was      *)
(* tapped twice before the first answer, a tap came before the first load, or a  *)
(* failed request put back a set that a later tap had changed                    *)
(* (useFavoriteStore.js 21-43).                                                    *)
HeartsHonest == HeartsQuiet /\ cause \subseteq {"dropped"} => hearts = kept

(* The page lists the favourites, unless a removal from it failed: the entry   *)
(* goes from the list either way (FavoritesPage.jsx 33-39).                       *)
AlbumHonest == HeartsQuiet /\ album # Closed /\ cause = {} => album = kept

(* Hearts and album are the table's, but for the cases named. *)
FavouritesHonest == FavouritesTypeOK /\ HeartsHonest /\ AlbumHonest
=============================================================================
