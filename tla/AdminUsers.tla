----------------------------- MODULE AdminUsers -----------------------------
(***************************************************************************)
(* The users on the administrator's dashboard: the list of one page or of  *)
(* one search, the card of one user, the question asked before a decision, *)
(* the ticked rows and the decision about all of them at once.  The list   *)
(* cannot be clicked while it loads, nothing under the card or the         *)
(* question can; the bar of the ticked rows lies above both.                *)
(* Abstracted: of a user whether the account is active and a role; pages    *)
(* and searches are views.  One administrator, who is not among the users.  *)
(***************************************************************************)
EXTENDS Integers, FiniteSets

CONSTANTS
    Person,        \* users, integers above 0
    PageOne,       \* those of the first page; the others are on the second
    Found,         \* those the search finds
    Mails,         \* bound: requests in flight at once
    MaxDeeds,      \* bound: what the administrator starts
    MaxLosses      \* bound: requests or answers lost

ASSUME AdminUsersAssumption ==
    /\ Person \subseteq Nat \ {0} /\ PageOne \subseteq Person /\ Found \subseteq Person
    /\ Mails \in Nat \ {0} /\ MaxDeeds \in Nat /\ MaxLosses \in Nat

VARIABLES
    people,                  \* the users at the server
    view,                    \* usersPage and the search
    rows, listLoading,       \* users, usersLoading
    peopleCard,              \* selectedUser
    ask,                     \* confirmDialog, confirmLoading
    permBusy, batchBusy,     \* permissionActionLoading, batchLoading
    ticked,                  \* selectedUserIds
    mails,                   \* the requests in flight
    deeds, losses,
    rowsDoubt, cardDoubt     \* why the rows, the card may be wrong

usersPage == <<view, rows, listLoading, peopleCard, ask, permBusy, batchBusy, ticked>>
doubts == <<rowsDoubt, cardDoubt>>
adminVars == <<people, usersPage, mails, deeds, losses, doubts>>

Account == [active : BOOLEAN, role : {"customer", "vendor", "admin"}]
Unlisted == [active |-> FALSE, role |-> "unlisted"]
View == {"first", "second", "search"}
NoCard == [id |-> 0, rec |-> Unlisted]
NoAsk == [act |-> "none", id |-> 0, to |-> "customer", sent |-> FALSE, sure |-> TRUE]
NoMail == [at |-> "none"]
Decision == {"preset", "activate"}

AdminTypeOK ==
    /\ people \in [Person -> Account]
    /\ view \in View /\ rows \in [Person -> Account \union {Unlisted}]
    /\ listLoading \in BOOLEAN /\ permBusy \in BOOLEAN /\ batchBusy \in BOOLEAN
    /\ peopleCard \in [id : Person, rec : Account] \union {NoCard}
    /\ ask \in [act : {"block", "preset"}, id : Person, to : {"customer", "vendor", "admin"},
                sent : BOOLEAN, sure : BOOLEAN] \union {NoAsk}
    /\ ticked \subseteq Person
    /\ deeds \in 0 .. MaxDeeds /\ losses \in 0 .. MaxLosses
    /\ DOMAIN mails = 1 .. Mails

FreeMail == {m \in 1 .. Mails : mails[m] = NoMail}
NextMail == CHOOSE m \in FreeMail : TRUE
Mail(what, ids, to) ==
    [at |-> "sent", what |-> what, ids |-> ids, to |-> to, view |-> view, sure |-> ask.sure,
     got |-> rows]
ListMail(v) == [Mail("list", {}, "customer") EXCEPT !.view = v]
SendMail(mail) == FreeMail # {} /\ mails' = [mails EXCEPT ![NextMail] = mail]
Under(what) == {m \in 1 .. Mails : mails[m] # NoMail /\ mails[m].what \in what}

Shows(v) == CASE v = "first" -> PageOne [] v = "second" -> Person \ PageOne [] OTHER -> Found
Listing(v) == [p \in Person |-> IF p \in Shows(v) THEN people[p] ELSE Unlisted]

(* The tab of the users is opened. *)
AdminInit ==
    /\ people = [p \in Person |-> [active |-> TRUE, role |-> "customer"]]
    /\ view = "first" /\ rows = [p \in Person |-> Unlisted] /\ listLoading = TRUE
    /\ peopleCard = NoCard /\ ask = NoAsk /\ permBusy = FALSE /\ batchBusy = FALSE
    /\ ticked = {}
    /\ mails = [m \in 1 .. Mails |->
                  IF m = 1 THEN [at |-> "sent", what |-> "list", ids |-> {}, to |-> "customer",
                                 view |-> "first", sure |-> TRUE, got |-> rows]
                  ELSE NoMail]
    /\ deeds = 0 /\ losses = 0 /\ rowsDoubt = {} /\ cardDoubt = {}

---------------------------------------------------------------------------
(* The administrator. *)
Deed == deeds < MaxDeeds /\ deeds' = deeds + 1
Covered == peopleCard # NoCard \/ ask # NoAsk
Reach(p) == ~Covered /\ ~listLoading /\ rows[p] # Unlisted

(* The effect of a new page, search or tab: the list is loaded. *)
Looks(v) ==
    /\ Deed /\ ~Covered
    /\ view' = v /\ listLoading' = TRUE
    /\ SendMail(ListMail(v))
    /\ UNCHANGED <<people, rows, peopleCard, ask, permBusy, batchBusy, ticked, losses, doubts>>

TurnPage ==
    /\ ~listLoading
    /\ \/ view = "first" /\ Looks("second")
       \/ view = "second" /\ Looks("first")

(* Typing goes on while the list loads, and the tabs are beside it. *)
Search == Looks(IF view = "search" THEN "first" ELSE "search")
Revisit == Looks(view)

OpenPerson(p) ==
    /\ Reach(p) /\ Deed
    /\ SendMail(Mail("card", {p}, "customer"))
    /\ UNCHANGED <<people, usersPage, losses, doubts>>

ClosePerson ==
    /\ peopleCard # NoCard /\ ask = NoAsk
    /\ peopleCard' = NoCard /\ cardDoubt' = {}
    /\ UNCHANGED <<people, view, rows, listLoading, ask, permBusy, batchBusy, ticked,
                   mails, deeds, losses, rowsDoubt>>

(* Nobody is offered to block an administrator, or to change what one may do. *)
Mistake_Ordinary(rec) == TRUE
Ordinary(rec) == rec.role # "admin"

(* The buttons of the card wait for the last decision. *)
MayDecide == peopleCard # NoCard /\ ask = NoAsk /\ ~permBusy

Asks(act, p, to, why) ==
    /\ Deed
    /\ ask' = [act |-> act, id |-> p, to |-> to, sent |-> FALSE, sure |-> why = {}]
    /\ UNCHANGED <<people, view, rows, listLoading, peopleCard, permBusy, batchBusy, ticked,
                   mails, losses, doubts>>

BlockFromRow(p) == Reach(p) /\ Ordinary(rows[p]) /\ Asks("block", p, "customer", rowsDoubt)

BlockFromCard ==
    /\ MayDecide /\ peopleCard.rec.active /\ Ordinary(peopleCard.rec)
    /\ Asks("block", peopleCard.id, "customer", cardDoubt)

AskRole ==
    /\ MayDecide /\ Ordinary(peopleCard.rec)
    /\ \E to \in {"customer", "vendor", "admin"} \ {peopleCard.rec.role} :
         Asks("preset", peopleCard.id, to, cardDoubt)

Refrain ==
    /\ ask # NoAsk /\ ~ask.sent
    /\ ask' = NoAsk
    /\ UNCHANGED <<people, view, rows, listLoading, peopleCard, permBusy, batchBusy, ticked,
                   mails, deeds, losses, doubts>>

Confirm ==
    /\ ask # NoAsk /\ ~ask.sent
    /\ SendMail(Mail(ask.act, {ask.id}, ask.to))
    /\ ask' = [ask EXCEPT !.sent = TRUE]
    /\ permBusy' = (permBusy \/ ask.act = "preset")
    /\ UNCHANGED <<people, view, rows, listLoading, peopleCard, batchBusy, ticked, deeds,
                   losses, doubts>>

(* Letting a user in again is not asked about, and the card may be closed. *)
Activate ==
    /\ MayDecide /\ ~peopleCard.rec.active /\ Deed
    /\ SendMail(Mail("activate", {peopleCard.id}, "customer"))
    /\ permBusy' = TRUE
    /\ UNCHANGED <<people, view, rows, listLoading, peopleCard, ask, batchBusy, ticked,
                   losses, doubts>>

(* The boxes: one row, or all rows of the page in place of what was ticked. *)
Ticks(to) ==
    /\ Deed
    /\ ticked' = to
    /\ UNCHANGED <<people, view, rows, listLoading, peopleCard, ask, permBusy, batchBusy,
                   mails, losses, doubts>>
Tick(p) == Reach(p) /\ Ticks(IF p \in ticked THEN ticked \ {p} ELSE ticked \union {p})
TickAll == ~Covered /\ ~listLoading /\ Ticks({p \in Person : rows[p] # Unlisted})
ClearTicks == ticked # {} /\ ~batchBusy /\ Ticks({})

Batch ==
    /\ ticked # {} /\ ~batchBusy /\ Deed
    /\ \E to \in {"on", "off"} : SendMail(Mail("batch", ticked, to))
    /\ batchBusy' = TRUE
    /\ UNCHANGED <<people, view, rows, listLoading, peopleCard, ask, permBusy, ticked,
                   losses, doubts>>

---------------------------------------------------------------------------
(* The server. *)
Decided(q) ==
    [p \in Person |->
       IF p \notin q.ids THEN people[p]
       ELSE CASE q.what = "block" -> [people[p] EXCEPT !.active = FALSE]
              [] q.what = "activate" -> [people[p] EXCEPT !.active = TRUE]
              [] q.what = "preset" -> [people[p] EXCEPT !.role = q.to]
              [] OTHER -> [people[p] EXCEPT !.active = (q.to = "on")]]

ServeMail(m) ==
    LET q == mails[m] IN
    /\ q.at = "sent"
    /\ \/ /\ q.what \in {"list", "card"}
          /\ mails' = [mails EXCEPT ![m].at = "answered",
                         ![m].got = IF q.what = "list" THEN Listing(q.view) ELSE people]
          /\ UNCHANGED <<people, cardDoubt>>
       \/ /\ q.what \notin {"list", "card"}
          /\ people' = Decided(q)
          /\ mails' = [mails EXCEPT ![m].at = "answered"]
          /\ cardDoubt' = IF q.what = "batch" /\ peopleCard # NoCard
                          THEN cardDoubt \union {"batch"} ELSE cardDoubt
    /\ UNCHANGED <<usersPage, deeds, losses, rowsDoubt>>

LoseMail(m) ==
    /\ mails[m].at \in {"sent", "answered"}
    /\ losses < MaxLosses /\ losses' = losses + 1
    /\ mails' = [mails EXCEPT ![m].at = "failed"]
    /\ rowsDoubt' = rowsDoubt \union {"lost"}
    /\ cardDoubt' = IF peopleCard # NoCard THEN cardDoubt \union {"lost"} ELSE {}
    /\ UNCHANGED <<people, usersPage, deeds>>

---------------------------------------------------------------------------
(* The answers.  The list is what the last answer to come held, for whatever  *)
(* view it was asked.                                                            *)
ReceiveUsers(m) ==
    LET q == mails[m] IN
    /\ q.what = "list"
    /\ listLoading' = FALSE
    /\ rows' = IF q.at = "answered" THEN q.got ELSE rows
    /\ rowsDoubt' = IF q.at = "failed" THEN rowsDoubt
                    ELSE IF q.got = Listing(view) THEN {} ELSE {"overtaken"}
    /\ mails' = [mails EXCEPT ![m] = NoMail]
    /\ UNCHANGED <<people, view, peopleCard, ask, permBusy, batchBusy, ticked, deeds, losses,
                   cardDoubt>>

ReceivePerson(m) ==
    LET q == mails[m]
        p == CHOOSE x \in q.ids : TRUE
    IN
    /\ q.what = "card"
    /\ peopleCard' = IF q.at = "answered" THEN [id |-> p, rec |-> q.got[p]] ELSE peopleCard
    /\ cardDoubt' = IF q.at = "failed" THEN cardDoubt
                    ELSE IF q.got[p] = people[p] THEN {} ELSE {"overtaken"}
    /\ mails' = [mails EXCEPT ![m] = NoMail]
    /\ UNCHANGED <<people, view, rows, listLoading, ask, permBusy, batchBusy, ticked, deeds,
                   losses, rowsDoubt>>

(* What an answer writes into a row or the card. *)
Patch(rec, q) ==
    CASE q.what = "block" -> [rec EXCEPT !.active = FALSE]
      [] q.what = "activate" -> [rec EXCEPT !.active = TRUE]
      [] OTHER -> [rec EXCEPT !.role = q.to]

(* The server has changed the user again before the answer arrived. *)
Crossed(q) == \E p \in q.ids : Patch(people[p], q) # people[p]

(* Blocking looks whose card is open; the other decisions write into the card  *)
(* that is.                                                                      *)
Concerns(q) == peopleCard # NoCard /\ (q.what = "block" => peopleCard.id \in q.ids)

ReceiveDecision(m) ==
    LET q == mails[m] IN
    /\ q.what \in {"block", "preset", "activate"}
    /\ IF q.at = "answered"
       THEN /\ rows' = [p \in Person |-> IF p \in q.ids /\ rows[p] # Unlisted
                                         THEN Patch(rows[p], q) ELSE rows[p]]
            /\ peopleCard' = IF Concerns(q) THEN [peopleCard EXCEPT !.rec = Patch(@, q)]
                             ELSE peopleCard
            /\ rowsDoubt' = IF Crossed(q) THEN rowsDoubt \union {"crossed"} ELSE rowsDoubt
            /\ cardDoubt' =
                 IF peopleCard = NoCard THEN {}
                 ELSE IF q.what # "block" /\ peopleCard.id \notin q.ids
                 THEN cardDoubt \union {"switched"}
                 ELSE IF Crossed(q) THEN cardDoubt \union {"crossed"} ELSE cardDoubt
       ELSE UNCHANGED <<rows, peopleCard, doubts>>
    /\ ask' = IF q.what = "activate" THEN ask ELSE NoAsk
    /\ permBusy' = (permBusy /\ q.what = "block")
    /\ mails' = [mails EXCEPT ![m] = NoMail]
    /\ UNCHANGED <<people, view, listLoading, batchBusy, ticked, deeds, losses>>

(* After a batch nothing is ticked, the first page is shown and loaded again. *)
FirstPage == IF view = "second" THEN "first" ELSE view

Mistake_AfterBatch(m) == [mails EXCEPT ![m] = NoMail]
AfterBatch(m) == [mails EXCEPT ![m] = ListMail(FirstPage)]

ReceiveBatch(m) ==
    LET q == mails[m] IN
    /\ q.what = "batch"
    /\ batchBusy' = FALSE
    /\ IF q.at = "answered"
       THEN /\ ticked' = {} /\ view' = FirstPage /\ listLoading' = TRUE
            /\ mails' = AfterBatch(m)
       ELSE /\ mails' = [mails EXCEPT ![m] = NoMail]
            /\ UNCHANGED <<ticked, view, listLoading>>
    /\ UNCHANGED <<people, rows, peopleCard, ask, permBusy, deeds, losses, doubts>>

ReceiveMail(m) ==
    /\ mails[m].at \in {"answered", "failed"}
    /\ ReceiveUsers(m) \/ ReceivePerson(m) \/ ReceiveDecision(m) \/ ReceiveBatch(m)

---------------------------------------------------------------------------
AdminNext ==
    \/ TurnPage \/ Search \/ Revisit
    \/ \E p \in Person : OpenPerson(p) \/ BlockFromRow(p) \/ Tick(p)
    \/ ClosePerson \/ BlockFromCard \/ AskRole \/ Refrain \/ Confirm \/ Activate
    \/ TickAll \/ ClearTicks \/ Batch
    \/ \E m \in 1 .. Mails : ServeMail(m) \/ LoseMail(m) \/ ReceiveMail(m)

AdminSpec == AdminInit /\ [][AdminNext]_adminVars
===========================================================================
