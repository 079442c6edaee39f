--------------------------- MODULE OrderLifecycle ---------------------------
(***************************************************************************)
(* What the order service promises: every order walks one agreed path,     *)
(* PENDING, ACCEPTED, READY, COMPLETED; its customer may leave the path    *)
(* for CANCELLED before the food is ready, an administrator at any time.   *)
(* A change of status and its entry in the order's history are one step.   *)
(* Orders.tla is the code; this module is the contract it is measured by.  *)
(***************************************************************************)
EXTENDS Naturals, Sequences

CONSTANT Order          \* orders already placed

VARIABLES
  status,               \* status of each order
  history               \* changes of each order, oldest first

vars == <<status, history>>

Status == {"PENDING", "ACCEPTED", "READY", "COMPLETED", "CANCELLED"}

(* The transitions staff may request.                                      *)
Allowed ==
  [s \in Status |->
     CASE s = "PENDING"  -> {"ACCEPTED"}
       [] s = "ACCEPTED" -> {"READY"}
       [] s = "READY"    -> {"COMPLETED"}
       [] OTHER          -> {}]

(* The statuses in which a customer may still cancel.                      *)
Cancellable == {"PENDING", "ACCEPTED"}

Change == [old : Status, new : Status]

TypeOK ==
  /\ status \in [Order -> Status]
  /\ history \in [Order -> Seq(Change)]

Init ==
  /\ status = [o \in Order |-> "PENDING"]
  /\ history = [o \in Order |-> <<>>]

Move(o, s) ==
  /\ status' = [status EXCEPT ![o] = s]
  /\ history' = [history EXCEPT ![o] = Append(@, [old |-> status[o], new |-> s])]

(* Staff advance the order; a customer completes a READY one the same way. *)
Advance(o) == \E s \in Allowed[status[o]] : Move(o, s)

Cancel(o) == status[o] \in Cancellable /\ Move(o, "CANCELLED")

(* An administrator may cancel whatever the status, even a second time.    *)
ForceCancel(o) == Move(o, "CANCELLED")

Next == \E o \in Order : Advance(o) \/ Cancel(o) \/ ForceCancel(o)

Spec == Init /\ [][Next]_vars

-----------------------------------------------------------------------------
(* The history tells one story: each change starts in the status the one   *)
(* before it ended in, the first in PENDING, and the status of the order   *)
(* is where the last one ended.                                            *)
HistoryChain ==
  \A o \in Order :
    /\ \A i \in 1..Len(history[o]) :
         history[o][i].old = IF i = 1 THEN "PENDING" ELSE history[o][i - 1].new
    /\ status[o] = IF history[o] = <<>> THEN "PENDING"
                   ELSE history[o][Len(history[o])].new
=============================================================================
