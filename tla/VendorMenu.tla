----------------------------- MODULE VendorMenu -----------------------------
(***************************************************************************)
(* The menu on the vendor's dashboard.  A dish has a switch and groups of  *)
(* options.  The form saves a dish in steps - the dish, the removal of     *)
(* each group it had, the creation of each group it shall have - and then  *)
(* loads the menu; the switch is flipped on the page at once.  One vendor, *)
(* one restaurant.                                                          *)
(* Abstracted: of a group only a label; a step of a save and its answer    *)
(* are one action, though the answer may be lost.                           *)
(***************************************************************************)
EXTENDS Integers, FiniteSets

CONSTANTS
    Dish,          \* dishes, some of them not in the menu yet
    Label,         \* what groups may say, integers
    MaxGroups,     \* bound: groups ever created
    MenuCalls,        \* bound: other requests in flight at once
    MaxTurns,      \* bound: what the vendor starts
    MaxSlips       \* bound: requests or answers lost

ASSUME VendorMenuAssumption ==
    /\ Label \subseteq Nat /\ MaxGroups \in Nat /\ MenuCalls \in Nat \ {0}
    /\ MaxTurns \in Nat /\ MaxSlips \in Nat

VARIABLES
    card,          \* the dishes at the server
    menu,          \* the dishes on the page
    editing,       \* editingItem: the dish as it was on the page
    adding,        \* showAddItem
    save,          \* the save under way
    dropping,      \* removals of groups on the way
    calls,         \* the other requests in flight
    groupsMade, turns, slips,
    woe            \* what went wrong so far, for the properties

menuForm == <<editing, adding, save, dropping>>
menuVars == <<card, menu, menuForm, calls, groupsMade, turns, slips, woe>>

Gone == [is |-> "gone", groups |-> {}]
Unmade == [is |-> "unmade", groups |-> {}]
Group == [id : 1 .. MaxGroups, lab : Label]
Entry == [is : {"on", "off"}, groups : SUBSET Group]
Menu == [Dish -> Entry \union {Gone}]
NoEdit == [dish |-> "none", groups |-> {}]
NoSave == [at |-> "none", dish |-> "none", fresh |-> FALSE, olds |-> {}, todo |-> {}, want |-> {}]
Silence == [at |-> "silence"]
Woe == {"slip", "stale", "overtaken", "outlived", "twice"}

MenuTypeOK ==
    /\ card \in [Dish -> Entry \union {Gone, Unmade}] /\ menu \in Menu
    /\ editing.dish \in Dish \union {"none"} /\ editing.groups \subseteq Group
    /\ adding \in BOOLEAN
    /\ save.at \in {"none", "dish", "drop", "make"}
    /\ save.dish \in Dish \union {"none"} /\ save.todo \subseteq save.want
    /\ save.want \subseteq Label
    /\ \A r \in dropping : r.dish \in Dish /\ r.group \in Group
    /\ groupsMade \in 0 .. MaxGroups
    /\ \A d \in Dish : \A g, h \in card[d].groups : g.id = h.id => g = h
    /\ turns \in 0 .. MaxTurns /\ slips \in 0 .. MaxSlips
    /\ woe \subseteq Woe

SilentCalls == {c \in 1 .. MenuCalls : calls[c] = Silence}
NextMenuCall == CHOOSE c \in SilentCalls : TRUE
Rings(call) == SilentCalls # {} /\ calls' = [calls EXCEPT ![NextMenuCall] = call]
Listed(c) == [d \in Dish |-> IF c[d] = Unmade THEN Gone ELSE c[d]]
MenuRequest == [at |-> "sent", what |-> "menu", dish |-> "none", to |-> "off", got |-> Listed(card)]
FirstOf(S) == CHOOSE x \in S : TRUE

MenuInit ==
    /\ \E d \in Dish, g \in Group :
         /\ g.id = 1
         /\ card = [e \in Dish |-> IF e = d THEN [is |-> "on", groups |-> {g}] ELSE Unmade]
    /\ menu = Listed(card)
    /\ editing = NoEdit /\ adding = FALSE /\ save = NoSave /\ dropping = {}
    /\ calls = [c \in 1 .. MenuCalls |-> Silence]
    /\ groupsMade = 1 /\ turns = 0 /\ slips = 0 /\ woe = {}

TakesTurn == turns < MaxTurns /\ turns' = turns + 1
Slips == slips < MaxSlips /\ slips' = slips + 1 /\ woe' = woe \union {"slip"}

---------------------------------------------------------------------------
(* The vendor. *)
Edit(d) ==
    /\ menu[d] # Gone /\ TakesTurn
    /\ editing' = [dish |-> d, groups |-> menu[d].groups]
    /\ woe' = IF menu[d].groups # card[d].groups \/ save.dish = d \/ \E r \in dropping : r.dish = d
              THEN woe \union {"stale"} ELSE woe
    /\ UNCHANGED <<card, menu, adding, save, dropping, calls, groupsMade, slips>>

ToggleForm ==
    /\ TakesTurn
    /\ editing' = NoEdit /\ adding' = ~adding
    /\ UNCHANGED <<card, menu, save, dropping, calls, groupsMade, slips, woe>>

(* The form is open and no save is under way. *)
MaySubmit == (adding \/ editing # NoEdit) /\ save = NoSave

Submit ==
    /\ MaySubmit /\ TakesTurn
    /\ \E want \in SUBSET Label :
         IF editing # NoEdit
         THEN save' = [at |-> "dish", dish |-> editing.dish, fresh |-> FALSE, olds |-> editing.groups,
                       todo |-> want, want |-> want]
         ELSE \E d \in {e \in Dish : card[e] = Unmade} :
                save' = [at |-> "dish", dish |-> d, fresh |-> TRUE, olds |-> {},
                         todo |-> want, want |-> want]
    /\ UNCHANGED <<card, menu, editing, adding, dropping, calls, groupsMade, slips, woe>>

(* The switch: the page first, and what it was is kept to be put back. *)
Switches(m, d) == [m EXCEPT ![d].is = IF @ = "on" THEN "off" ELSE "on"]

FlipDish(d) ==
    /\ menu[d] # Gone /\ TakesTurn
    /\ menu' = Switches(menu, d)
    /\ Rings([at |-> "sent", what |-> "flip", dish |-> d, to |-> menu'[d].is, got |-> menu])
    /\ woe' = IF \E c \in 1 .. MenuCalls \ SilentCalls : calls[c].what = "flip" /\ calls[c].dish = d
              THEN woe \union {"twice"} ELSE woe
    /\ UNCHANGED <<card, menuForm, groupsMade, slips>>

Remove(d) ==
    /\ menu[d] # Gone /\ TakesTurn
    /\ Rings([at |-> "sent", what |-> "remove", dish |-> d, to |-> "off", got |-> menu])
    /\ UNCHANGED <<card, menu, menuForm, groupsMade, slips, woe>>

---------------------------------------------------------------------------
(* The steps of a save. *)

(* What a step came to: the server refuses what is about a dish or a group    *)
(* that is not there; the handler ends with an error, the form stays as it is, *)
(* and the menu is not loaded.                                                   *)
StepRefused(cause) ==
    /\ save' = NoSave
    /\ woe' = woe \union cause

(* The dish is saved.  After it the form is closed, or the new dish is on the  *)
(* page.                                                                         *)
SavesDish ==
    card' = IF card[save.dish] = Unmade
            THEN [card EXCEPT ![save.dish] = [is |-> "on", groups |-> {}]] ELSE card

SaveDish ==
    /\ save.at = "dish"
    /\ UNCHANGED <<calls, groupsMade, turns>>
    /\ LET fresh == save.fresh IN
       \/ /\ card[save.dish] # Gone
          /\ SavesDish
          /\ save' = [save EXCEPT !.at = "drop"]
          /\ dropping' = dropping \union {[dish |-> save.dish, group |-> g] : g \in save.olds}
          /\ editing' = NoEdit
          /\ adding' = IF fresh THEN FALSE ELSE adding
          /\ menu' = IF fresh THEN [menu EXCEPT ![save.dish] = card'[save.dish]] ELSE menu
          /\ UNCHANGED <<slips, woe>>
       \/ /\ card[save.dish] = Gone
          /\ StepRefused({"outlived"})
          /\ UNCHANGED <<card, menu, editing, adding, dropping, slips>>
       \/ /\ Slips
          /\ save' = NoSave
          /\ \/ card[save.dish] # Gone /\ SavesDish
             \/ UNCHANGED card
          /\ UNCHANGED <<menu, editing, adding, dropping>>

(* The removals run side by side: one that fails ends the save, the others go *)
(* on.                                                                          *)
Drops(r) == [card EXCEPT ![r.dish].groups = @ \ {r.group}]

EndsSave(r) == save' = IF save.at = "drop" /\ save.dish = r.dish THEN NoSave ELSE save

DropGroup(r) ==
    /\ r \in dropping
    /\ dropping' = dropping \ {r}
    /\ \/ /\ r.group \in card[r.dish].groups
          /\ card' = Drops(r)
          /\ UNCHANGED <<save, slips, woe>>
       \/ /\ r.group \notin card[r.dish].groups
          /\ EndsSave(r)
          /\ woe' = woe \union (IF card[r.dish] = Gone THEN {"outlived"} ELSE {})
          /\ UNCHANGED <<card, slips>>
       \/ /\ Slips /\ EndsSave(r)
          /\ card' = Drops(r) \/ UNCHANGED card
    /\ UNCHANGED <<menu, editing, adding, calls, groupsMade, turns>>

Mistake_AllDropped == TRUE
AllDropped == \A r \in dropping : r.dish # save.dish

DropsDone ==
    /\ save.at = "drop" /\ AllDropped
    /\ save' = [save EXCEPT !.at = "make"]
    /\ UNCHANGED <<card, menu, editing, adding, dropping, calls, groupsMade, turns, slips, woe>>

(* The groups are created one after the other. *)
Created(d, l) == [card EXCEPT ![d].groups = @ \union {[id |-> groupsMade + 1, lab |-> l]}]

MakeGroup ==
    /\ save.at = "make" /\ save.todo # {} /\ groupsMade < MaxGroups
    /\ LET l == FirstOf(save.todo)
           made == Created(save.dish, l)
       IN \/ /\ card[save.dish] # Gone
             /\ card' = made /\ groupsMade' = groupsMade + 1
             /\ save' = [save EXCEPT !.todo = @ \ {l}]
             /\ UNCHANGED <<slips, woe>>
          \/ /\ card[save.dish] = Gone
             /\ StepRefused({"outlived"})
             /\ UNCHANGED <<card, groupsMade, slips>>
          \/ /\ Slips
             /\ save' = NoSave
             /\ \/ card[save.dish] # Gone /\ card' = made /\ groupsMade' = groupsMade + 1
                \/ UNCHANGED <<card, groupsMade>>
    /\ UNCHANGED <<menu, editing, adding, dropping, calls, turns>>

Reloads == Rings(MenuRequest)

SaveDone ==
    /\ save.at = "make" /\ save.todo = {}
    /\ Reloads
    /\ save' = NoSave
    /\ UNCHANGED <<card, menu, editing, adding, dropping, groupsMade, turns, slips, woe>>

---------------------------------------------------------------------------
(* The other requests. *)
ServeCall(c) ==
    LET q == calls[c] IN
    /\ q.at = "sent"
    /\ CASE q.what = "menu" ->
              /\ calls' = [calls EXCEPT ![c] = [q EXCEPT !.at = "answered", !.got = Listed(card)]]
              /\ UNCHANGED <<card, woe>>
         [] q.what # "menu" /\ card[q.dish] = Gone ->
              /\ calls' = [calls EXCEPT ![c].at = "failed"]
              /\ woe' = woe \union {"outlived"}
              /\ UNCHANGED card
         [] OTHER ->
              /\ calls' = [calls EXCEPT ![c].at = "answered"]
              /\ card' = [card EXCEPT ![q.dish] =
                            IF q.what = "remove" THEN Gone ELSE [@ EXCEPT !.is = q.to]]
              /\ UNCHANGED woe
    /\ UNCHANGED <<menu, menuForm, groupsMade, turns, slips>>

LoseCall(c) ==
    /\ calls[c] # Silence /\ calls[c].at \in {"sent", "answered"} /\ Slips
    /\ calls' = [calls EXCEPT ![c].at = "failed"]
    /\ UNCHANGED <<card, menu, menuForm, groupsMade, turns>>

Outdated(q) ==
    \/ q.got # Listed(card)
    \/ \E c \in 1 .. MenuCalls : calls[c] # Silence /\ calls[c].at = "sent" /\ calls[c].what = "flip"

ReceiveMenu(c) ==
    /\ calls[c].what = "menu"
    /\ menu' = IF calls[c].at = "answered" THEN calls[c].got ELSE menu
    /\ woe' = IF calls[c].at = "answered" /\ Outdated(calls[c]) THEN woe \union {"overtaken"} ELSE woe
    /\ calls' = [calls EXCEPT ![c] = Silence]

(* A flip that fails puts back the whole menu as it was before the flip. *)
FlipBack(q) == IF q.at = "failed" THEN q.got ELSE menu

ReceiveFlip(c) ==
    /\ calls[c].what = "flip"
    /\ menu' = FlipBack(calls[c])
    /\ calls' = [calls EXCEPT ![c] = Silence]
    /\ UNCHANGED woe

ReceiveRemoved(c) ==
    /\ calls[c].what = "remove"
    /\ calls' = [calls EXCEPT ![c] = IF calls[c].at = "answered" THEN MenuRequest ELSE Silence]
    /\ UNCHANGED <<menu, woe>>

ReceiveCall(c) ==
    /\ calls[c] # Silence /\ calls[c].at \in {"answered", "failed"}
    /\ ReceiveMenu(c) \/ ReceiveFlip(c) \/ ReceiveRemoved(c)
    /\ UNCHANGED <<card, menuForm, groupsMade, turns, slips>>

---------------------------------------------------------------------------
MenuNext ==
    \/ \E d \in Dish : Edit(d) \/ FlipDish(d) \/ Remove(d)
    \/ ToggleForm \/ Submit
    \/ SaveDish \/ DropsDone \/ MakeGroup \/ SaveDone
    \/ \E r \in dropping : DropGroup(r)
    \/ \E c \in 1 .. MenuCalls : ServeCall(c) \/ LoseCall(c) \/ ReceiveCall(c)

MenuSpec == MenuInit /\ [][MenuNext]_menuVars
===========================================================================
