------------------------------- MODULE MCLink -------------------------------
(* How a client is linked to the server and its user to Telegram, in one run: *)
(* its sockets, its session, the chat of the user, and the code that signs him *)
(* in.  They do not meet.  `part` says which one moves; the others rest where   *)
(* no fairness condition asks anything of them.                                  *)
EXTENDS SocketProps, Session, TelegramLink, LoginCode

VARIABLE part

Moving(i) == part = i

(* A socket that its page closed before it opened. *)
ClosedSocket ==
    /\ status = "closed" /\ isClosed = TRUE /\ ws = "closed"
    /\ attempts = 0 /\ orphans = 0 /\ retries = <<>>
    /\ pingIn = Unarmed /\ pongIn = Unarmed
    /\ netUp = TRUE /\ pongs = 0 /\ unanswered = FALSE /\ silent = 0 /\ failures = 0

LinkInit ==
    /\ part \in {"socket", "session", "telegram", "login"}
    /\ IF Moving("socket") THEN SocketInit ELSE ClosedSocket
    /\ SessionInit /\ (Moving("session") \/ app = "web")
    /\ TelegramInit /\ (Moving("telegram") \/ \A u \in Account : telegram[u] = NoChat)
    /\ LoginInit /\ (Moving("login") \/ password)

Rests(i, vars) == IF Moving(i) THEN TRUE ELSE UNCHANGED vars
OthersRest ==
    /\ Rests("socket", socketVars)
    /\ Rests("session", sessionVars)
    /\ Rests("telegram", linkVars)
    /\ Rests("login", loginVars)

LinkNext ==
    /\ UNCHANGED part
    /\ \/ Moving("socket") /\ SocketNext
       \/ Moving("session") /\ SessionNext
       \/ Moving("telegram") /\ TelegramNext
       \/ Moving("login") /\ LoginNext
    /\ OthersRest

LinkSpec ==
    /\ LinkInit
    /\ [][LinkNext]_<<part, socketVars, sessionVars, linkVars, loginVars>>
    /\ SocketFairness /\ SessionFairness

---------------------------------------------------------------------------
(* The chat a user is told in is his own, and the code that comes there lets him *)
(* in, but for the cases BindingSound and LoginSound name.                         *)
TelegramSound == BindingSound /\ LoginSound
=============================================================================
