--------------------------- MODULE SocketProps ---------------------------
(* What ReliableWebSocket owes the pages that use it.                     *)
EXTENDS Socket

(* However a connection ends and whatever timers were running, there is   *)
(* never more than one connection or attempt at one: no WebSocket lives on *)
(* unnamed, and a reconnect is only pending while none is open            *)
(* (connect 101-148, reconnect 167-178: setTimeout handles are not kept).  *)
OneConnection ==
    /\ orphans = 0
    /\ Len(retries) <= 1
    /\ retries # <<>> => ws = "closed"

(* A heartbeat timer belongs to the connection it was started for: none    *)
(* outlives it to close the next one, or to run after close() (cleanup,   *)
(* 180-189).                                                               *)
TimersFollowConnection ==
    pingIn # Unarmed \/ pongIn # Unarmed => ws \in {"open", "closing"}

(* A peer that went silent without closing is given up after at most one   *)
(* period of the heartbeat and the wait for its pong (150-165).            *)
SilenceNoticed == ws = "open" => silent <= PingEvery + PongWithin

(* The object stops trying only when its page closed it or when every one  *)
(* of the last MaxAttempts reconnects failed before it was open, so a      *)
(* status "closed" never hides a server that still accepts (167-172).      *)
GivesUpOnlyWhenUnreachable ==
    status = "closed" /\ ~isClosed => ws = "closed" /\ failures >= MaxAttempts

(* What the page shows as connected is connected, or was a moment ago.      *)
StatusHonest ==
    /\ status = "connected" => ws \in {"open", "closing"}
    /\ ws = "open" => status = "connected"

(* One connection at a time, its timers its own, given up and reported for    *)
(* what it is, through any order of losses, timeouts and reconnects.           *)
SocketSound ==
    /\ SocketTypeOK
    /\ OneConnection
    /\ TimersFollowConnection
    /\ SilenceNoticed
    /\ GivesUpOnlyWhenUnreachable
    /\ StatusHonest

(* Once the network stays up, a socket that is neither closed nor given up   *)
(* is open again and again.                                                 *)
ComesBack == <>[]netUp => []<>(ws = "open" \/ status = "closed")

(* api.js:164 "10 seconds to wait for pong": the heartbeat closes a         *)
(* connection only when a ping was not answered.                            *)
AnsweredPingKeepsConnection == [][PongExpires => unanswered]_socketVars
===========================================================================
