----------------------------- MODULE AdminFiles -----------------------------
(***************************************************************************)
(* What the administrator approves or rejects: the restaurants and the      *)
(* vendors, a tab each with its list, its card and its ticked rows; the     *)
(* question before a decision, the reason asked for a rejection, and one    *)
(* flag for the decisions about all that is ticked.  The server keeps a     *)
(* verdict on each; approving a vendor approves its restaurants, removing   *)
(* one takes its restaurants off the lists.                                 *)
(* Abstracted: one vendor; of a restaurant or a vendor only its verdict; a  *)
(* list has one page, and its filter is "all" or "those to be judged".      *)
(***************************************************************************)
EXTENDS Integers, FiniteSets

CONSTANTS
    Place1,        \* restaurants, integers above 1; the vendor is 1
    Letters,       \* bound: requests in flight at once
    MaxActs,       \* bound: what the administrator starts
    MaxLapses      \* bound: requests or answers lost

ASSUME AdminFilesAssumption ==
    /\ Place1 \subseteq Nat \ {0, 1} /\ Letters \in Nat \ {0}
    /\ MaxActs \in Nat /\ MaxLapses \in Nat

Seller == 1
File == Place1 \union {Seller}
Tab == {"restaurants", "vendors"}
Kind(f) == IF f = Seller THEN "vendors" ELSE "restaurants"
Verdict == {"PENDING", "APPROVED", "REJECTED"}

VARIABLES
    verdict, removed,            \* moderation_status, approval_status; is_active = FALSE
    deskTab,                     \* activeTab
    filter, list, fileLoading,   \* per tab: the filter, the rows, whether they load
    fileCard,                    \* selectedRestaurant, selectedVendor
    question,                    \* confirmDialog, confirmLoading
    reason,                      \* reasonDialog, reasonLoading
    marked, massBusy,            \* selectedRestaurantIds, selectedVendorIds; batchLoading
    letters, acts, lapses,
    listDoubt, fileDoubt         \* the tabs whose rows, whose card may be wrong

filesPage == <<deskTab, filter, list, fileLoading, fileCard, question, reason, marked, massBusy>>
fileDoubts == <<listDoubt, fileDoubt>>
filesVars == <<verdict, removed, filesPage, letters, acts, lapses, fileDoubts>>

NoFile == [id |-> 0, is |-> "none"]
Unasked == [act |-> "none", ids |-> {}, sent |-> FALSE]
NoLetter == [at |-> "none"]

FilesTypeOK ==
    /\ verdict \in [File -> Verdict] /\ removed \subseteq Place1
    /\ deskTab \in Tab /\ filter \in [Tab -> {"all", "PENDING"}]
    /\ list \in [Tab -> [File -> Verdict \union {"unlisted"}]]
    /\ \A t \in Tab, f \in File : list[t][f] # "unlisted" => Kind(f) = t
    /\ fileLoading \in [Tab -> BOOLEAN]
    /\ \A t \in Tab : fileCard[t] # NoFile => Kind(fileCard[t].id) = t /\ fileCard[t].is \in Verdict
    /\ question = Unasked \/ question.act \in {"approve", "remove"}
    /\ reason = Unasked \/ reason.act \in {"reject", "mass"}
    /\ \A t \in Tab : marked[t] \subseteq {f \in File : Kind(f) = t}
    /\ massBusy \in BOOLEAN
    /\ acts \in 0 .. MaxActs /\ lapses \in 0 .. MaxLapses
    /\ listDoubt \subseteq Tab /\ fileDoubt \subseteq Tab

FreeLetter == {m \in 1 .. Letters : letters[m] = NoLetter}
NextLetter == CHOOSE m \in FreeLetter : TRUE
Letter(what, tab, ids, to) ==
    [at |-> "sent", what |-> what, tab |-> tab, ids |-> ids, to |-> to,
     filter |-> "all", got |-> [f \in File |-> "unlisted"]]
ListLetter(t, by) == [Letter("list", t, {}, "PENDING") EXCEPT !.filter = by]
Writes(l) == FreeLetter # {} /\ letters' = [letters EXCEPT ![NextLetter] = l]
Pending(what) == {m \in 1 .. Letters : letters[m] # NoLetter /\ letters[m].what \in what}

There(f) == f \notin removed
FilesListing(t, by) ==
    [f \in File |-> IF Kind(f) = t /\ There(f) /\ (by = "all" \/ verdict[f] = by)
                    THEN verdict[f] ELSE "unlisted"]

FilesInit ==
    /\ verdict = [f \in File |-> "PENDING"] /\ removed = {}
    /\ deskTab = "restaurants" /\ filter = [t \in Tab |-> "all"]
    /\ list = [t \in Tab |-> [f \in File |-> "unlisted"]]
    /\ fileLoading = [t \in Tab |-> t = "restaurants"]
    /\ fileCard = [t \in Tab |-> NoFile]
    /\ question = Unasked /\ reason = Unasked
    /\ marked = [t \in Tab |-> {}] /\ massBusy = FALSE
    /\ letters = [m \in 1 .. Letters |->
                    IF m = 1 THEN ListLetter("restaurants", "all") ELSE NoLetter]
    /\ acts = 0 /\ lapses = 0 /\ listDoubt = {} /\ fileDoubt = {}

---------------------------------------------------------------------------
(* The administrator.  A card covers the page, a question covers the card; the *)
(* bar of the ticked rows lies above them all.                                   *)
FilesAct == acts < MaxActs /\ acts' = acts + 1
Asked == question # Unasked \/ reason # Unasked
Hidden == Asked \/ \E t \in Tab : fileCard[t] # NoFile
RowAt(f) == ~Hidden /\ deskTab = Kind(f) /\ ~fileLoading[deskTab] /\ list[deskTab][f] # "unlisted"
CardAt(f) == ~Asked /\ fileCard[Kind(f)].id = f

ShowTab(t) ==
    /\ ~Hidden /\ t # deskTab /\ FilesAct
    /\ deskTab' = t /\ fileLoading' = [fileLoading EXCEPT ![t] = TRUE]
    /\ Writes(ListLetter(t, filter[t]))
    /\ UNCHANGED <<verdict, removed, filter, list, fileCard, question, reason, marked, massBusy,
                   lapses, fileDoubts>>

FilterBy ==
    /\ ~Hidden /\ ~fileLoading[deskTab] /\ FilesAct
    /\ LET by == IF filter[deskTab] = "all" THEN "PENDING" ELSE "all" IN
         /\ filter' = [filter EXCEPT ![deskTab] = by]
         /\ Writes(ListLetter(deskTab, by))
    /\ fileLoading' = [fileLoading EXCEPT ![deskTab] = TRUE]
    /\ UNCHANGED <<verdict, removed, deskTab, list, fileCard, question, reason, marked, massBusy,
                   lapses, fileDoubts>>

OpenFile(f) ==
    /\ RowAt(f) /\ FilesAct
    /\ Writes(Letter("card", deskTab, {f}, "PENDING"))
    /\ UNCHANGED <<verdict, removed, filesPage, lapses, fileDoubts>>

CloseFile(f) ==
    /\ CardAt(f)
    /\ fileCard' = [fileCard EXCEPT ![Kind(f)] = NoFile]
    /\ UNCHANGED <<verdict, removed, deskTab, filter, list, fileLoading, question, reason, marked,
                   massBusy, letters, acts, lapses, fileDoubts>>

(* A restaurant is approved at a click, which can be repeated while it lasts. *)
ApprovePlace(f) ==
    /\ f # Seller /\ CardAt(f) /\ fileCard[Kind(f)].is # "APPROVED" /\ FilesAct
    /\ Writes(Letter("judge", Kind(f), {f}, "APPROVED"))
    /\ UNCHANGED <<verdict, removed, filesPage, lapses, fileDoubts>>

Questions(act, f) ==
    /\ CardAt(f) /\ FilesAct
    /\ question' = [act |-> act, ids |-> {f}, sent |-> FALSE]
    /\ UNCHANGED <<verdict, removed, deskTab, filter, list, fileLoading, fileCard, reason, marked,
                   massBusy, letters, lapses, fileDoubts>>
ApproveSeller(f) == f = Seller /\ fileCard[Kind(f)].is # "APPROVED" /\ Questions("approve", f)
RemoveFile(f) == Questions("remove", f)

AsksReason(act, ids) ==
    /\ FilesAct
    /\ reason' = [act |-> act, ids |-> ids, sent |-> reason.sent]
    /\ UNCHANGED <<verdict, removed, deskTab, filter, list, fileLoading, fileCard, question, marked,
                   massBusy, letters, lapses, fileDoubts>>
RejectFile(f) == CardAt(f) /\ fileCard[Kind(f)].is # "REJECTED" /\ AsksReason("reject", {f})

(* The rejection of what is ticked keeps the rows that were ticked when its reason *)
(* was asked for; it takes the place of a reason that is asked for, or waits.        *)
RejectMarked(t) == marked[t] # {} /\ ~massBusy /\ AsksReason("mass", marked[t])

ApproveMarked(t) ==
    /\ marked[t] # {} /\ ~massBusy /\ FilesAct
    /\ Writes(Letter("mass", t, marked[t], "APPROVED"))
    /\ massBusy' = TRUE
    /\ UNCHANGED <<verdict, removed, deskTab, filter, list, fileLoading, fileCard, question, reason,
                   marked, lapses, fileDoubts>>

Marks(t, to) ==
    /\ FilesAct
    /\ marked' = [marked EXCEPT ![t] = to]
    /\ UNCHANGED <<verdict, removed, deskTab, filter, list, fileLoading, fileCard, question, reason,
                   massBusy, letters, lapses, fileDoubts>>
Mark(f) == RowAt(f) /\ Marks(Kind(f), IF f \in marked[Kind(f)] THEN marked[Kind(f)] \ {f}
                                      ELSE marked[Kind(f)] \union {f})
MarkAll ==
    /\ ~Hidden /\ ~fileLoading[deskTab]
    /\ Marks(deskTab, {f \in File : list[deskTab][f] # "unlisted"})
Unmark(t) == marked[t] # {} /\ ~massBusy /\ Marks(t, {})

(* A question or a reason lies open; the later one is on top, but each answers to *)
(* its own buttons.                                                                  *)
Abandon ==
    /\ \/ question # Unasked /\ ~question.sent /\ question' = Unasked /\ UNCHANGED reason
       \/ reason # Unasked /\ ~reason.sent /\ reason' = Unasked /\ UNCHANGED question
    /\ UNCHANGED <<verdict, removed, deskTab, filter, list, fileLoading, fileCard, marked, massBusy,
                   letters, acts, lapses, fileDoubts>>

AnswerQuestion ==
    /\ question # Unasked /\ ~question.sent
    /\ LET f == CHOOSE x \in question.ids : TRUE IN
         Writes(Letter(IF question.act = "approve" THEN "judge" ELSE "remove", Kind(f),
                       question.ids, "APPROVED"))
    /\ question' = [question EXCEPT !.sent = TRUE]
    /\ UNCHANGED <<verdict, removed, deskTab, filter, list, fileLoading, fileCard, reason, marked,
                   massBusy, acts, lapses, fileDoubts>>

Given == reason # Unasked /\ ~reason.sent

GiveReason ==
    /\ Given
    /\ LET f == CHOOSE x \in reason.ids : TRUE IN
         Writes(Letter(IF reason.act = "mass" THEN "mass" ELSE "judge", Kind(f), reason.ids,
                       "REJECTED"))
    /\ reason' = [reason EXCEPT !.sent = TRUE]
    /\ massBusy' = (massBusy \/ reason.act = "mass")
    /\ UNCHANGED <<verdict, removed, deskTab, filter, list, fileLoading, fileCard, question, marked,
                   acts, lapses, fileDoubts>>

---------------------------------------------------------------------------
(* The server.  A restaurant that was removed is not found; a vendor always is, *)
(* and its approval is its restaurants'.                                           *)
Judged(ids, to) ==
    [f \in File |-> IF (f \in ids /\ There(f)) \/ (Seller \in ids /\ to = "APPROVED") THEN to
                    ELSE verdict[f]]

ServeLetter(m) ==
    LET q == letters[m] IN
    /\ q.at = "sent"
    /\ \/ /\ q.what = "list"
          /\ letters' = [letters EXCEPT ![m].at = "answered", ![m].got = FilesListing(q.tab, q.filter)]
          /\ UNCHANGED <<verdict, removed, fileDoubt>>
       \/ /\ q.what # "list" /\ q.what # "mass" /\ \E f \in q.ids : ~There(f)
          /\ letters' = [letters EXCEPT ![m].at = "failed"]
          /\ UNCHANGED <<verdict, removed, fileDoubt>>
       \/ /\ q.what = "card" /\ \A f \in q.ids : There(f)
          /\ letters' = [letters EXCEPT ![m].at = "answered", ![m].got = verdict]
          /\ UNCHANGED <<verdict, removed, fileDoubt>>
       \/ /\ q.what = "remove" /\ \A f \in q.ids : There(f)
          /\ removed' = IF Seller \in q.ids THEN Place1 ELSE removed \union q.ids
          /\ letters' = [letters EXCEPT ![m].at = "answered"]
          /\ fileDoubt' = IF Seller \in q.ids THEN fileDoubt \union {"restaurants"} ELSE fileDoubt
          /\ UNCHANGED verdict
       \/ /\ q.what = "mass" \/ (q.what = "judge" /\ \A f \in q.ids : There(f))
          /\ verdict' = Judged(q.ids, q.to)
          /\ letters' = [letters EXCEPT ![m].at = "answered", ![m].got = verdict']
          /\ fileDoubt' = IF q.what = "mass" THEN Tab
                          ELSE IF Seller \in q.ids THEN fileDoubt \union {"restaurants"} ELSE fileDoubt
          /\ UNCHANGED removed
    /\ listDoubt' = IF q.what \notin {"list", "card"} /\ Seller \in q.ids THEN listDoubt \union {"restaurants"}
                    ELSE listDoubt
    /\ UNCHANGED <<filesPage, acts, lapses>>

LoseLetter(m) ==
    /\ letters[m].at \in {"sent", "answered"}
    /\ lapses < MaxLapses /\ lapses' = lapses + 1
    /\ letters' = [letters EXCEPT ![m].at = "failed"]
    /\ listDoubt' = Tab /\ fileDoubt' = Tab
    /\ UNCHANGED <<verdict, removed, filesPage, acts>>

---------------------------------------------------------------------------
(* The answers.  The end of what was asked about closes its dialog. *)
OfQuestion(q) ==
    q.what = "remove" \/ (q.what = "judge" /\ q.ids = {Seller} /\ q.to = "APPROVED")
OfReason(q) == q.what \in {"judge", "mass"} /\ q.to = "REJECTED"

ReceiveFiles(m) ==
    LET q == letters[m] IN
    /\ q.what = "list"
    /\ fileLoading' = [fileLoading EXCEPT ![q.tab] = FALSE]
    /\ list' = IF q.at = "answered" THEN [list EXCEPT ![q.tab] = q.got] ELSE list
    /\ listDoubt' = IF q.at = "failed" THEN listDoubt
                    ELSE IF q.got = FilesListing(q.tab, filter[q.tab]) THEN listDoubt \ {q.tab}
                    ELSE listDoubt \union {q.tab}
    /\ letters' = [letters EXCEPT ![m] = NoLetter]
    /\ UNCHANGED <<deskTab, filter, fileCard, question, reason, marked, massBusy, fileDoubt>>

(* A card that was asked for, or the answer to a verdict, which opens the card  *)
(* of its file whatever is open by then.                                          *)
Rows(q, f) ==
    IF q.what = "judge" /\ list[q.tab][f] # "unlisted"
    THEN [list EXCEPT ![q.tab][f] = q.got[f]] ELSE list

ReceiveFile(m) ==
    LET q == letters[m]
        f == CHOOSE x \in q.ids : TRUE
    IN
    /\ q.what \in {"card", "judge"}
    /\ IF q.at = "answered"
       THEN /\ fileCard' = [fileCard EXCEPT ![q.tab] = [id |-> f, is |-> q.got[f]]]
            /\ list' = Rows(q, f)
            /\ fileDoubt' = IF There(f) /\ q.got[f] = verdict[f] THEN fileDoubt \ {q.tab}
                            ELSE fileDoubt \union {q.tab}
            /\ listDoubt' = IF q.what = "judge" /\ q.got[f] # verdict[f]
                            THEN listDoubt \union {q.tab} ELSE listDoubt
       ELSE UNCHANGED <<fileCard, list, fileDoubts>>
    /\ question' = IF OfQuestion(q) THEN Unasked ELSE question
    /\ reason' = IF OfReason(q) THEN Unasked ELSE reason
    /\ letters' = [letters EXCEPT ![m] = NoLetter]
    /\ UNCHANGED <<deskTab, filter, fileLoading, marked, massBusy>>

(* The row goes, and the card that is open, whosever it is. *)
Without(q) == [list EXCEPT ![q.tab] = [f \in File |-> IF f \in q.ids THEN "unlisted" ELSE @[f]]]

Shut(q) == [fileCard EXCEPT ![q.tab] = NoFile]

ReceiveFileRemoved(m) ==
    LET q == letters[m] IN
    /\ q.what = "remove"
    /\ IF q.at = "answered"
       THEN list' = Without(q) /\ fileCard' = Shut(q)
       ELSE UNCHANGED <<list, fileCard>>
    /\ question' = Unasked
    /\ letters' = [letters EXCEPT ![m] = NoLetter]
    /\ UNCHANGED <<deskTab, filter, fileLoading, reason, marked, massBusy, fileDoubts>>

(* Nothing of the tab is ticked any more; the list of the tab is loaded if it is  *)
(* shown.  That some were not found is not told.                                    *)
Relist(q, m) ==
    [letters EXCEPT ![m] = IF q.tab = deskTab THEN ListLetter(q.tab, filter[q.tab]) ELSE NoLetter]

ReceiveMass(m) ==
    LET q == letters[m] IN
    /\ q.what = "mass"
    /\ massBusy' = FALSE
    /\ IF q.at = "answered"
       THEN /\ marked' = [marked EXCEPT ![q.tab] = {}]
            /\ letters' = Relist(q, m)
            /\ fileLoading' = IF q.tab = deskTab THEN [fileLoading EXCEPT ![q.tab] = TRUE]
                              ELSE fileLoading
       ELSE /\ letters' = [letters EXCEPT ![m] = NoLetter]
            /\ UNCHANGED <<marked, fileLoading>>
    /\ reason' = IF OfReason(q) THEN Unasked ELSE reason
    /\ UNCHANGED <<deskTab, filter, list, fileCard, question, fileDoubts>>

ReceiveLetter(m) ==
    /\ letters[m].at \in {"answered", "failed"}
    /\ \/ ReceiveFiles(m)
       \/ ReceiveFile(m)
       \/ ReceiveFileRemoved(m)
       \/ ReceiveMass(m)
    /\ UNCHANGED <<verdict, removed, acts, lapses>>

---------------------------------------------------------------------------
FilesNext ==
    \/ \E t \in Tab : ShowTab(t) \/ RejectMarked(t) \/ ApproveMarked(t) \/ Unmark(t)
    \/ \E f \in File :
         \/ OpenFile(f) \/ CloseFile(f) \/ ApprovePlace(f) \/ ApproveSeller(f)
         \/ RemoveFile(f) \/ RejectFile(f) \/ Mark(f)
    \/ FilterBy \/ MarkAll \/ Abandon \/ AnswerQuestion \/ GiveReason
    \/ \E m \in 1 .. Letters : ServeLetter(m) \/ LoseLetter(m) \/ ReceiveLetter(m)

FilesSpec == FilesInit /\ [][FilesNext]_filesVars
===========================================================================
