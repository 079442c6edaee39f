------------------------------ MODULE MCDesks ------------------------------
(* The pages of those who work and how they are hired, in one run: they share *)
(* no state, so `part` says which of them moves while the others rest as they   *)
(* started.                                                                      *)
EXTENDS DeskProps, Hiring

VARIABLE part

FirstDish == CHOOSE d \in Dish : TRUE
FirstGroup == [id |-> 1, lab |-> CHOOSE l \in Label : TRUE]

(* One order waits when the board is opened; the others are yet to come. *)
OneOrderYet == \E first \in Ticket : \A t \in Ticket : ticket[t] = Absent <=> t # first

DesksInit ==
    /\ part \in {"staff", "vendor", "menu", "users", "files", "hiring"}
    /\ DeskInit /\ (IF part = "staff" THEN OneOrderYet ELSE \A t \in Ticket : ticket[t] = Absent)
    /\ MenuInit /\ card[FirstDish] = [is |-> "on", groups |-> {FirstGroup}]
    /\ VendorInit /\ AdminInit /\ FilesInit /\ HiringInit

Rests(i, vars) == IF part = i THEN TRUE ELSE UNCHANGED vars
OthersRest ==
    /\ Rests("staff", deskVars)
    /\ Rests("vendor", vendorVars)
    /\ Rests("menu", menuVars)
    /\ Rests("users", adminVars)
    /\ Rests("files", filesVars)
    /\ Rests("hiring", hiringVars)

DesksNext ==
    /\ UNCHANGED part
    /\ \/ part = "staff" /\ DeskNext
       \/ part = "vendor" /\ VendorNext
       \/ part = "menu" /\ MenuNext
       \/ part = "users" /\ AdminNext
       \/ part = "files" /\ FilesNext
       \/ part = "hiring" /\ HiringNext
    /\ OthersRest

DesksSpec ==
    DesksInit
      /\ [][DesksNext]_<<part, deskVars, vendorVars, menuVars, adminVars, filesVars, hiringVars>>
=============================================================================
