----------------------------- MODULE VendorDesk -----------------------------
(***************************************************************************)
(* The vendor's dashboard: a list of restaurants, one of them chosen, and  *)
(* tabs that show its orders, its figures, its working hours and its       *)
(* settings.  Whatever is asked of the server names the restaurant that    *)
(* was chosen when it was asked; whatever answers is shown as it comes.    *)
(* Abstracted: of the orders and the figures only what they were asked of, *)
(* of the hours whose they are, of a restaurant one switch ("ordering      *)
(* paused").  The menu is another module (VendorMenu).                     *)
(***************************************************************************)
EXTENDS Integers

CONSTANTS
    Place,         \* restaurants, integers above 0; the last is not made yet
    Wires,         \* bound: requests in flight at once
    MaxMoves,      \* bound: what the vendor starts
    MaxBreakdowns  \* bound: requests that fail

ASSUME VendorDeskAssumption ==
    /\ Place \subseteq Nat \ {0} /\ Wires \in Nat \ {0}
    /\ MaxMoves \in Nat /\ MaxBreakdowns \in Nat

VARIABLES
    paused, kept,      \* at the server: the switch, and whose hours are kept
    mine,              \* the store's list: the switch of each, or "unmade"
    chosen, copy,      \* selectedRestaurant: which, and the switch it came with
    picked,            \* the restaurant the vendor chose last
    panel, query,      \* activeTab; the first page of all orders or another
    orders, figures,   \* what was asked of the orders and the figures shown
    hours, hoursWait,  \* whose hours are in the form; workingHoursLoading
    form, formWait,    \* editRestaurant; formLoading
    stream,            \* what the socket's handler asks for, or nothing
    wire,              \* the requests in flight
    moves, breakdowns,
    upset              \* what went wrong so far, for the properties

vendorShown == <<orders, figures, hours, hoursWait>>
vendorBase == <<paused, kept, mine>>
vendorPick == <<chosen, copy, picked, panel, query, stream>>
vendorVars == <<vendorBase, vendorPick, vendorShown, form, formWait, wire,
                moves, breakdowns, upset>>

Panel == {"menu", "orders", "schedule", "analytics", "settings"}
Defaults == -1
Of(p, q) == [of |-> p, key |-> q]
Blank == Of(0, "first")
Selection == [of : Place \union {0}, key : {"first", "other"}]
NoForm == "none"
Switch == {"on", "off"}
Cut == [at |-> "cut"]
Errand == {"orders", "figures", "hours", "save hours", "settings", "list", "create",
           "status"}
SentErrand == [at : {"sent", "answered", "failed"}, what : Errand, of : Place,
          key : {"first", "other"}, put : Switch, week : Place \union {0, Defaults}]
Upset == {"orders", "figures", "hours", "jump", "elsewhere"}

VendorTypeOK ==
    /\ paused \in [Place -> Switch \union {"unmade"}]
    /\ kept \in [Place -> Place \union {Defaults}]
    /\ mine \in [Place -> Switch \union {"unmade"}]
    /\ chosen \in Place \union {0} /\ picked \in Place \union {0}
    /\ copy \in Switch /\ panel \in Panel /\ query \in {"first", "other"}
    /\ orders \in Selection /\ figures \in Selection
    /\ hours \in Place \union {0, Defaults} /\ hoursWait \in BOOLEAN
    /\ form \in Switch \union {NoForm} /\ formWait \in BOOLEAN
    /\ stream \in Selection
    /\ wire \in [1 .. Wires -> SentErrand \union {Cut}]
    /\ moves \in 0 .. MaxMoves /\ breakdowns \in 0 .. MaxBreakdowns
    /\ upset \subseteq Upset
    /\ chosen = 0 => stream = Blank /\ panel = "menu"
    /\ stream # Blank => stream = Of(chosen, "first") /\ query = "first" /\ panel = "orders"

IdleWires == {w \in 1 .. Wires : wire[w].at = "cut"}
NextWire == CHOOSE w \in IdleWires : TRUE
NewErrand(what, p, q) ==
    [at |-> "sent", what |-> what, of |-> p, key |-> q, put |-> "off", week |-> 0]
Sends(errand) == IdleWires # {} /\ wire' = [wire EXCEPT ![NextWire] = errand]

VendorInit ==
    /\ paused = [p \in Place |-> IF \A q \in Place : q <= p THEN "unmade" ELSE "off"]
    /\ kept = [p \in Place |-> p]
    /\ mine = paused
    /\ chosen = 0 /\ picked = 0 /\ copy = "off" /\ panel = "menu" /\ query = "first"
    /\ orders = Blank /\ figures = Blank /\ hours = 0 /\ hoursWait = FALSE
    /\ form = NoForm /\ formWait = FALSE /\ stream = Blank
    /\ wire = [w \in 1 .. Wires |-> Cut]
    /\ moves = 0 /\ breakdowns = 0 /\ upset = {}

Move == moves < MaxMoves /\ moves' = moves + 1

---------------------------------------------------------------------------
(* The effects: what a panel loads when it, the choice or the query changes. *)
Loading(t) ==
    CASE t = "orders" -> "orders"
      [] t = "schedule" -> "hours"
      [] t = "analytics" -> "figures"
      [] OTHER -> "none"

Listen(p, t, q) == IF t = "orders" /\ q = "first" THEN Of(p, q) ELSE Blank

Effects(slots, p, t, q) ==
    LET what == Loading(t) IN
    /\ IF what = "none" THEN wire' = slots
       ELSE \E w \in {v \in 1 .. Wires : slots[v].at = "cut"} :
              /\ \A v \in 1 .. Wires : v < w => slots[v].at # "cut"
              /\ wire' = [slots EXCEPT ![w] = NewErrand(what, p, q)]
    /\ hoursWait' = IF what = "hours" THEN TRUE ELSE hoursWait
    /\ stream' = Listen(p, t, q)

Saving == \E w \in 1 .. Wires : wire[w].at # "cut" /\ wire[w].what \in {"settings", "list", "create"}

ChoosePlace(p) ==
    /\ mine[p] # "unmade" /\ Move
    /\ chosen' = p /\ copy' = mine[p] /\ picked' = p
    /\ form' = NoForm
    /\ Effects(wire, p, panel, query)
    /\ upset' = IF Saving THEN upset \union {"jump"} ELSE upset \ {"jump"}
    /\ UNCHANGED <<vendorBase, panel, query, orders, figures, hours, formWait,
                   breakdowns>>

OpenPanel(t) ==
    /\ chosen # 0 /\ t # panel /\ Move
    /\ panel' = t
    /\ form' = IF t = "settings" THEN copy ELSE form
    /\ Effects(wire, chosen, t, query)
    /\ UNCHANGED <<vendorBase, chosen, copy, picked, query, orders, figures, hours,
                   formWait, breakdowns, upset>>

Turn(q) ==
    /\ panel = "orders" /\ q # query /\ Move
    /\ query' = q
    /\ Effects(wire, chosen, panel, q)
    /\ UNCHANGED <<vendorBase, chosen, copy, picked, panel, orders, figures, hours,
                   form, formWait, breakdowns, upset>>

(* The socket says something changed. *)
Hears ==
    /\ stream # Blank /\ Move
    /\ Sends(NewErrand("orders", stream.of, stream.key))
    /\ UNCHANGED <<vendorBase, vendorPick, vendorShown, form, formWait, breakdowns, upset>>

(* An order that is shown is moved on or cancelled. *)
ChangeOrder ==
    /\ panel = "orders" /\ orders.of # 0 /\ Move
    /\ Sends(NewErrand("status", chosen, query))
    /\ UNCHANGED <<vendorBase, vendorPick, vendorShown, form, formWait, breakdowns, upset>>

Mistake_MaySave == panel = "schedule" /\ hours # 0
MaySave == panel = "schedule" /\ hours # 0 /\ ~hoursWait

SaveHours ==
    /\ MaySave /\ Move
    /\ Sends([NewErrand("save hours", chosen, query) EXCEPT !.week = hours])
    /\ hoursWait' = TRUE
    /\ UNCHANGED <<vendorBase, vendorPick, orders, figures, hours, form, formWait,
                   breakdowns, upset>>

Other(s) == IF s = "on" THEN "off" ELSE "on"

FlipPause ==
    /\ panel = "settings" /\ Move
    /\ form' = Other(IF form = NoForm THEN copy ELSE form)
    /\ UNCHANGED <<vendorBase, vendorPick, vendorShown, formWait, wire, breakdowns, upset>>

(* The form is sent as a whole, changed or not. *)
SaveSettings ==
    /\ panel = "settings" /\ ~formWait /\ Move
    /\ Sends([NewErrand("settings", chosen, query) EXCEPT
                !.put = IF form = NoForm THEN copy ELSE form])
    /\ formWait' = TRUE
    /\ UNCHANGED <<vendorBase, vendorPick, vendorShown, form, breakdowns, upset>>

CreateRestaurant(p) ==
    /\ paused[p] = "unmade" /\ ~formWait /\ Move
    /\ Sends(NewErrand("create", p, query))
    /\ formWait' = TRUE
    /\ upset' = upset \union {"jump"}
    /\ UNCHANGED <<vendorBase, vendorPick, vendorShown, form, breakdowns>>

(* Another of the vendor's devices flips the switch. *)
PauseElsewhere(p) ==
    /\ paused[p] # "unmade" /\ Move
    /\ paused' = [paused EXCEPT ![p] = Other(@)]
    /\ upset' = upset \union {"elsewhere"}
    /\ UNCHANGED <<kept, mine, vendorPick, vendorShown, form, formWait, wire, breakdowns>>

---------------------------------------------------------------------------
(* The server. *)
ServeErrand(w) ==
    LET e == wire[w] IN
    /\ e.at = "sent"
    /\ paused' = IF e.what \in {"settings", "create"}
                 THEN [paused EXCEPT ![e.of] = e.put] ELSE paused
    /\ kept' = IF e.what = "save hours" THEN [kept EXCEPT ![e.of] = e.week] ELSE kept
    /\ wire' = [wire EXCEPT ![w] = [e EXCEPT !.at = "answered",
                  !.week = IF e.what = "hours" THEN kept[e.of] ELSE e.week]]
    /\ UNCHANGED <<mine, vendorPick, vendorShown, form, formWait, moves, breakdowns, upset>>

FailErrand(w) ==
    /\ wire[w].at \in {"sent", "answered"} /\ breakdowns < MaxBreakdowns
    /\ wire' = [wire EXCEPT ![w].at = "failed"]
    /\ breakdowns' = breakdowns + 1
    /\ upset' = upset \union (IF wire[w].what \in {"settings", "list", "create"}
                              THEN {"elsewhere"} ELSE {})
    /\ UNCHANGED <<vendorBase, vendorPick, vendorShown, form, formWait, moves>>

---------------------------------------------------------------------------
(* Answers. *)
HangUp(w) == [wire EXCEPT ![w] = Cut]
Blames(tag, wrong) == upset' = IF wrong THEN upset \union {tag} ELSE upset \ {tag}

(* Orders: whatever comes is the list, and an error an empty one. *)
ReceiveOrders(w) ==
    /\ wire[w].what = "orders"
    /\ orders' = IF wire[w].at = "failed" THEN Blank ELSE Of(wire[w].of, wire[w].key)
    /\ Blames("orders", wire[w].at = "failed" \/ Of(wire[w].of, wire[w].key) # Of(chosen, query))
    /\ wire' = HangUp(w)
    /\ UNCHANGED <<mine, vendorPick, figures, hours, hoursWait, form, formWait>>

(* After a change of an order the list is loaded as it was asked for then. *)
ReceiveStatus(w) ==
    /\ wire[w].what = "status"
    /\ wire' = IF wire[w].at = "failed" THEN HangUp(w)
               ELSE [wire EXCEPT ![w] = NewErrand("orders", wire[w].of, wire[w].key)]
    /\ UNCHANGED <<mine, vendorPick, vendorShown, form, formWait, upset>>

(* Figures: an error leaves those of whichever restaurant was shown before. *)
ReceiveFigures(w) ==
    /\ wire[w].what = "figures"
    /\ figures' = IF wire[w].at = "failed" THEN figures ELSE Of(wire[w].of, "first")
    /\ Blames("figures", wire[w].at = "failed" \/ wire[w].of # chosen)
    /\ wire' = HangUp(w)
    /\ UNCHANGED <<mine, vendorPick, orders, hours, hoursWait, form, formWait>>

(* Hours: an error shows the default week, which can be saved as well as the *)
(* week of another restaurant.                                                 *)
ReceiveHours(w) ==
    /\ wire[w].what \in {"hours", "save hours"}
    /\ hours' = IF wire[w].at = "answered" THEN wire[w].week
                ELSE IF wire[w].what = "hours" THEN Defaults ELSE hours
    /\ upset' = IF wire[w].of # chosen \/ (wire[w].at = "failed" /\ hours' # chosen)
                THEN upset \union {"hours"} ELSE upset
    /\ hoursWait' = FALSE
    /\ wire' = HangUp(w)
    /\ UNCHANGED <<mine, vendorPick, orders, figures, form, formWait>>

(* The settings are saved: the list is loaded, and after it the restaurant    *)
(* that was saved is the chosen one, with what was saved.                        *)
ReceiveSaved(w) ==
    /\ wire[w].what = "settings"
    /\ IF wire[w].at = "failed" THEN wire' = HangUp(w) /\ formWait' = FALSE
       ELSE /\ wire' = [wire EXCEPT ![w] = [@ EXCEPT !.at = "sent", !.what = "list"]]
            /\ UNCHANGED formWait
    /\ UNCHANGED <<mine, vendorPick, vendorShown, form, upset>>

Selects(w) == wire[w].of

Selected(w, p) ==
    /\ chosen' = p /\ copy' = wire[w].put
    /\ form' = NoForm /\ formWait' = FALSE
    /\ Effects(HangUp(w), p, panel, query)
    /\ UNCHANGED <<picked, panel, query, orders, figures, hours, upset>>

Refetched(w) == IF wire[w].at = "failed" THEN mine ELSE paused

ReceiveList(w) ==
    /\ wire[w].what = "list"
    /\ mine' = Refetched(w)
    /\ Selected(w, Selects(w))

(* What is created is put in the list and chosen. *)
ReceiveCreated(w) ==
    /\ wire[w].what = "create"
    /\ IF wire[w].at = "failed"
       THEN /\ wire' = HangUp(w) /\ formWait' = FALSE
            /\ UNCHANGED <<mine, vendorPick, vendorShown, form, upset>>
       ELSE mine' = [mine EXCEPT ![wire[w].of] = wire[w].put] /\ Selected(w, wire[w].of)

ReceiveErrand(w) ==
    /\ wire[w].at \in {"answered", "failed"}
    /\ \/ ReceiveOrders(w) \/ ReceiveStatus(w) \/ ReceiveFigures(w) \/ ReceiveHours(w)
       \/ ReceiveSaved(w) \/ ReceiveList(w) \/ ReceiveCreated(w)
    /\ UNCHANGED <<paused, kept, moves, breakdowns>>

---------------------------------------------------------------------------
VendorNext ==
    \/ \E p \in Place : ChoosePlace(p) \/ PauseElsewhere(p) \/ CreateRestaurant(p)
    \/ \E t \in Panel : OpenPanel(t)
    \/ \E q \in {"first", "other"} : Turn(q)
    \/ Hears \/ ChangeOrder \/ SaveHours \/ FlipPause \/ SaveSettings
    \/ \E w \in 1 .. Wires : ServeErrand(w) \/ FailErrand(w) \/ ReceiveErrand(w)

VendorSpec == VendorInit /\ [][VendorNext]_vendorVars
===========================================================================
