----------------------------- MODULE DeskProps -----------------------------
(* What the pages of those who work owe them: the staff's board, the         *)
(* vendor's dashboard and its menu tab, the administrator's tabs.  Where the  *)
(* code lets a thing go wrong the property names the sequence it takes.        *)
EXTENDS StaffDesk, VendorDesk, VendorMenu, AdminUsers, AdminFiles

-----------------------------------------------------------------------------
(* The staff's board. *)
DeskQuiet ==
    tab = "orders" /\ feed = "on" /\ nudges = 0 /\ FreeLines = Line

(* When nothing is on the way the board is what the server has, unless since   *)
(* the last whole one an order changed while nobody listened - the socket is     *)
(* opened beside the GET and its opening loads nothing -, an older answer came    *)
(* last, or a request failed (774-849).                                            *)
BoardHonest ==
    DeskQuiet /\ fault \intersect {"unheard", "overtaken", "lost"} = {} =>
      board = Shown(ticket)

(* While an order is changed its button waits, unless another change shared the  *)
(* slot meanwhile (749, 841-859).                                                  *)
ButtonWaits ==
    \A l \in Line :
      lines[l].at # "hung" /\ lines[l].for # 0 /\ lines[l].for # updating =>
        "shared" \in fault

(* A button that waits has something to wait for. *)
ButtonEnds ==
    updating # 0 => \E l \in Line : lines[l].at # "hung" /\ lines[l].for = updating

(* The page shows a dish as it is sold, unless it was switched twice at once or   *)
(* an answer was lost (911-930).                                                    *)
DishHonest ==
    Busy({"dish"}) = {} => dishShown = dish \/ fault \intersect {"twice", "lost"} # {}

(* However nudges, reloads and changes of status cross, the board is the        *)
(* kitchen's, but for the cases named, and none of its buttons is stuck.          *)
StaffBoardSound == DeskTypeOK /\ BoardHonest /\ ButtonWaits /\ ButtonEnds /\ DishHonest

-----------------------------------------------------------------------------
(* The vendor of several restaurants. *)
WiresIdle == IdleWires = 1 .. Wires

(* No restaurant is given the working hours of another, or the default week in *)
(* place of its own, unless an answer for another restaurant came while this    *)
(* one was chosen, loading them failed, or a save failed while the week of the   *)
(* restaurant left was still in the form: the effect (365-390) drops no answer,  *)
(* and the save (392-425) pairs what is shown with what is chosen.                *)
HoursStayHome == "hours" \notin upset => \A p \in Place : kept[p] = p

(* When nothing is on the way the orders shown are those of the restaurant and   *)
(* the page that are chosen, unless an answer asked for before came after them,   *)
(* such as the reload that follows a change of status (675-744, 764-795).          *)
OrdersOfChosen ==
    WiresIdle /\ panel = "orders" /\ "orders" \notin upset => orders = Of(chosen, query)

(* The figures shown are those of the chosen restaurant, unless the last to come  *)
(* were not, or failed: an error leaves the old ones in place (875-905).           *)
FiguresOfChosen ==
    WiresIdle /\ panel = "analytics" /\ "figures" \notin upset => figures.of = chosen

(* The vendor stays where the last click went, unless a save or a creation was      *)
(* still under way then, or started since, that chooses its own when it is done       *)
(* (442-468, 527-571).                                                                  *)
ChoiceKept == chosen # picked => "jump" \in upset

(* When nothing is on the way the list, and the copy the settings start from, are   *)
(* as the server has them, unless somebody else changed one or a request failed:     *)
(* nothing else refreshes them (326-334, 562-565).                                     *)
RecordHonest ==
    WiresIdle /\ "elsewhere" \notin upset =>
      mine = paused /\ (chosen # 0 => copy = paused[chosen])

-----------------------------------------------------------------------------
(* The vendor's menu. *)
MenuQuiet == save = NoSave /\ dropping = {} /\ SilentCalls = 1 .. MenuCalls

(* When nothing is under way the page shows the menu as it is sold, unless a    *)
(* request was lost, the dish was removed while something else was asked of it,  *)
(* or a reload was answered before a change it does not show: after a save that   *)
(* failed halfway the menu is not loaded (573-614).                                *)
MenuHonest == MenuQuiet /\ woe = {} => menu = Listed(card)

(* Only one save is under way, so that no removal of one meets a creation of       *)
(* another, unless one failed and left removals behind (formLoading, 1761-1769).     *)
OneSaveAtATime == dropping # {} /\ woe = {} => save.at = "drop"

(* Every panel is the chosen restaurant's and what is saved from it goes there; *)
(* the menu on the page is the one sold, and one save at a time works on it.     *)
VendorPagesSound ==
    /\ VendorTypeOK /\ MenuTypeOK
    /\ HoursStayHome
    /\ OrdersOfChosen
    /\ FiguresOfChosen
    /\ ChoiceKept
    /\ RecordHonest
    /\ MenuHonest
    /\ OneSaveAtATime

(* A save that ends well leaves the dish exactly the groups the form had, unless  *)
(* it was edited from a row the server had moved on from, or the dish is gone:      *)
(* the groups removed are those the page knew (616-670).  A save that ends badly     *)
(* has lost something on the way, or met a dish or a group that was not there         *)
(* because its row was old (582-606).                                                  *)
SaveEnds(well) == save # NoSave /\ save' = NoSave /\ (well <=> save.at = "make" /\ save.todo = {})
GroupsAsMeant ==
    [][/\ SaveEnds(TRUE) /\ woe = {} /\ card[save.dish] # Gone =>
            /\ {g.lab : g \in card[save.dish].groups} = save.want
            /\ Cardinality(card[save.dish].groups) = Cardinality(save.want)
       /\ SaveEnds(FALSE) => woe' # {}]_menuVars

-----------------------------------------------------------------------------
(* The administrator's users. *)
AdminQuiet == \A m \in 1 .. Mails : mails[m] = NoMail

(* When nothing is under way the list is the server's for the page or the       *)
(* search shown, unless an answer was lost or the last list to arrive was not    *)
(* the last one asked for (736-752: no answer is told from another).             *)
RowsHonest == AdminQuiet /\ rowsDoubt = {} => rows = Listing(view)

(* When nothing is under way the card is what the server knows of its user,      *)
(* unless a batch was run above it, an answer was lost or overtaken, or the       *)
(* decision about another user was written into it (965-967, 993, 1161).           *)
CardHonest ==
    AdminQuiet /\ peopleCard # NoCard /\ cardDoubt = {} => peopleCard.rec = people[peopleCard.id]

(* One role or activation at a time, one batch at a time, and the question stays   *)
(* until its decision is answered; what waits is waiting for something               *)
(* (permissionActionLoading, batchLoading, confirmLoading).                           *)
DecisionsOneByOne ==
    /\ Cardinality(Under(Decision)) = (IF permBusy THEN 1 ELSE 0)
    /\ Cardinality(Under({"batch"})) = (IF batchBusy THEN 1 ELSE 0)
    /\ Cardinality(Under({"block", "preset"})) = (IF ask.sent THEN 1 ELSE 0)

(* List and card are the server's, and no decision is made twice at once. *)
UsersTabSound == AdminTypeOK /\ RowsHonest /\ CardHonest /\ DecisionsOneByOne

(* An administrator is blocked only by a batch, which asks nothing and looks at     *)
(* no role (694-709), or by who was shown a row or a card that was wrong.             *)
AdminsBlockedBlindly ==
    [][\A p \in Person : people[p].role = "admin" /\ people[p].active /\ ~people'[p].active =>
         \A m \in 1 .. Mails : ServeMail(m) => mails[m].what = "batch" \/ ~mails[m].sure]_adminVars

-----------------------------------------------------------------------------
(* The administrator's restaurants and vendors. *)
FileRequest == {"judge", "remove", "mass"}
FilesQuiet == \A m \in 1 .. Letters : letters[m] = NoLetter

(* When nothing is under way every row of the tab shown has the server's verdict *)
(* and is of something that is still there, unless an answer was lost or came     *)
(* after a later one (774-817, 1070-1082).  Rows the filter no longer takes stay.   *)
RowsTrue ==
    FilesQuiet /\ deskTab \notin listDoubt =>
      \A f \in File : list[deskTab][f] # "unlisted" => There(f) /\ list[deskTab][f] = verdict[f]

(* When nothing is under way the card open shows the server's verdict on what is   *)
(* still there, unless a mass decision went over its head, an answer was lost or     *)
(* came after a later one (891-928, 1090-1154).                                        *)
CardsTrue ==
    FilesQuiet =>
      \A t \in Tab \ fileDoubt : fileCard[t] # NoFile =>
        There(fileCard[t].id) /\ fileCard[t].is = verdict[fileCard[t].id]

(* A dialog that waits is waiting for one answer, its own: never are two rejections *)
(* or two removals under way.  Two mass decisions can be, an approval above a          *)
(* rejection whose reason was being written (3386-3487: the bar lies above the            *)
(* dialog, and giving the reason looks at no flag), but the flag is never left behind.     *)
VerdictsWait ==
    /\ Cardinality({m \in Pending(FileRequest) : OfQuestion(letters[m])}) = (IF question.sent THEN 1 ELSE 0)
    /\ Cardinality({m \in Pending(FileRequest) : OfReason(letters[m])}) = (IF reason.sent THEN 1 ELSE 0)
    /\ massBusy => Pending({"mass"}) # {}

(* Rows, cards and dialogs of the tabs of restaurants and vendors. *)
FilesTabsSound == FilesTypeOK /\ RowsTrue /\ CardsTrue /\ VerdictsWait

(* The administrator decides about what he sees, and each decision once, but for *)
(* the cases named on his three tabs.                                              *)
AdminTabsSound == UsersTabSound /\ FilesTabsSound
=============================================================================
