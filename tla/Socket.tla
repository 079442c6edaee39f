------------------------------ MODULE Socket ------------------------------
(***************************************************************************)
(* ReliableWebSocket of the web client and the Mini App: one object that   *)
(* keeps a WebSocket open over a network that comes and goes.  Time is     *)
(* counted in seconds; the timers are countdowns, Unarmed when not armed.     *)
(***************************************************************************)
EXTENDS Integers, Sequences

CONSTANTS
    PingEvery,     \* startHeartbeat: a ping each 30 s
    PongWithin,    \* resetPongTimeout: 10 s
    MaxDelay,      \* reconnect: a delay of at most 30 s
    MaxAttempts,   \* maxReconnectAttempts: 20
    Unarmed        \* a timer that is not armed

ASSUME SocketAssumption ==
    /\ {PingEvery, PongWithin, MaxDelay, MaxAttempts} \subseteq Nat \ {0}
    /\ PongWithin < PingEvery
    /\ Unarmed \notin Nat

VARIABLES
    status,      \* what onStatusChange was last told
    isClosed,    \* close() was called
    attempts,    \* reconnectAttempts
    ws,          \* the browser's state of this.ws
    orphans,     \* WebSockets still alive that this.ws no longer names
    retries,     \* pending setTimeout(connect): nobody keeps their handles
    pingIn,      \* pingInterval
    pongIn,      \* pongTimeout
    netUp,       \* whether messages get through
    pongs,       \* pings the server has received and not answered
    unanswered,  \* a ping was sent after the last pong arrived
    silent,      \* seconds an open socket has heard nothing
    failures     \* handshakes that failed since one succeeded

handle == <<status, isClosed, attempts, retries>>
timers == <<pingIn, pongIn>>
history == <<unanswered, silent, failures>>
socketVars == <<handle, ws, orphans, timers, netUp, pongs, history>>

Statuses == {"connecting", "reconnecting", "connected", "closed"}
Countdown(bound) == 0 .. bound \union {Unarmed}

SocketTypeOK ==
    /\ status \in Statuses
    /\ isClosed \in BOOLEAN
    /\ attempts \in 0 .. MaxAttempts
    /\ ws \in {"connecting", "open", "closing", "closed"}
    /\ orphans \in Nat
    /\ retries \in Seq(0 .. MaxDelay)
    /\ pingIn \in Countdown(PingEvery)
    /\ pongIn \in Countdown(PongWithin)
    /\ netUp \in BOOLEAN
    /\ pongs \in Nat
    /\ unanswered \in BOOLEAN
    /\ silent \in Nat
    /\ failures \in Nat

---------------------------------------------------------------------------
(* The constructor connects at once. *)
SocketInit ==
    /\ status = "connecting"
    /\ isClosed = FALSE
    /\ attempts = 0
    /\ ws = "connecting"
    /\ orphans = 0
    /\ retries = <<>>
    /\ pingIn = Unarmed
    /\ pongIn = Unarmed
    /\ netUp = TRUE
    /\ pongs = 0
    /\ unanswered = FALSE
    /\ silent = 0
    /\ failures = 0

Delay(n) == LET d == 2 ^ n IN IF d \in 0 .. MaxDelay THEN d ELSE MaxDelay

Cleanup == pingIn' = Unarmed /\ pongIn' = Unarmed

Mistake_Stalls ==
    IF attempts >= MaxAttempts
    THEN status' = "closed" /\ UNCHANGED <<attempts, retries>>
    ELSE /\ status' = "reconnecting"
         /\ UNCHANGED retries
         /\ attempts' = attempts + 1
Reconnect ==
    IF attempts >= MaxAttempts
    THEN status' = "closed" /\ UNCHANGED <<attempts, retries>>
    ELSE /\ status' = "reconnecting"
         /\ retries' = Append(retries, Delay(attempts))
         /\ attempts' = attempts + 1

(* onopen, and startHeartbeat. *)
Opened ==
    /\ ws = "connecting" /\ netUp
    /\ ws' = "open"
    /\ attempts' = 0
    /\ status' = "connected"
    /\ pingIn' = PingEvery
    /\ pongs' = 0 /\ unanswered' = FALSE /\ silent' = 0 /\ failures' = 0
    /\ UNCHANGED <<isClosed, retries, orphans, pongIn, netUp>>

(* onclose: close() takes this handler away, so isClosed is false here.    *)
OnClose ==
    /\ Cleanup
    /\ Reconnect
    /\ ws' = "closed"
    /\ pongs' = 0 /\ unanswered' = FALSE /\ silent' = 0
    /\ UNCHANGED <<isClosed, orphans, netUp>>

(* onerror closes a socket that could not be opened.                       *)
HandshakeFails ==
    /\ ws = "connecting"
    /\ failures' = failures + 1
    /\ OnClose

(* The server or the network ends the connection, or the browser is done   *)
(* closing it.                                                              *)
ConnectionLost ==
    /\ ws \in {"open", "closing"}
    /\ UNCHANGED failures
    /\ OnClose

---------------------------------------------------------------------------
(* Messages. *)
ResetPongTimeout == pongIn' = PongWithin

Pong ==
    /\ ws = "open" /\ netUp /\ pongs > 0
    /\ pongs' = pongs - 1
    /\ ResetPongTimeout
    /\ unanswered' = FALSE /\ silent' = 0
    /\ UNCHANGED <<handle, ws, orphans, pingIn, netUp, failures>>

(* "connected" resets the attempts; an error is swallowed; anything else   *)
(* goes to onMessage.  None of them touches the timers.                     *)
Message ==
    /\ ws = "open" /\ netUp
    /\ \E kind \in {"connected", "error", "data"} :
          attempts' = IF kind = "connected" THEN 0 ELSE attempts
    /\ silent' = 0
    /\ UNCHANGED <<status, isClosed, retries, ws, orphans, timers, netUp,
                   pongs, unanswered, failures>>

---------------------------------------------------------------------------
(* Timers. *)
PingFires ==
    /\ pingIn = 0
    /\ pingIn' = PingEvery
    /\ IF ws = "open"
       THEN /\ pongs' = IF netUp THEN pongs + 1 ELSE pongs
            /\ ResetPongTimeout
            /\ unanswered' = TRUE
       ELSE UNCHANGED <<pongs, pongIn, unanswered>>
    /\ UNCHANGED <<handle, ws, orphans, netUp, silent, failures>>

Mistake_PongExpires ==
    /\ pongIn = 0
    /\ pongIn' = Unarmed
    /\ IF ws = "open" THEN ws' = "closing" /\ silent' = 0 ELSE UNCHANGED <<ws, silent>>
    /\ Reconnect
    /\ UNCHANGED <<isClosed, orphans, pingIn, netUp, pongs, unanswered, failures>>
PongExpires ==
    /\ pongIn = 0
    /\ pongIn' = Unarmed
    /\ IF ws = "open" THEN ws' = "closing" /\ silent' = 0 ELSE UNCHANGED <<ws, silent>>
    /\ UNCHANGED <<handle, orphans, pingIn, netUp, pongs, unanswered, failures>>

Without(s, i) == SubSeq(s, 1, i - 1) \o SubSeq(s, i + 1, Len(s))

(* connect(), from the timer that reconnect() set.                          *)
Connect ==
    IF isClosed THEN UNCHANGED <<status, ws, orphans>>
    ELSE /\ status' = IF attempts > 0 THEN "reconnecting" ELSE "connecting"
         /\ orphans' = IF ws = "closed" THEN orphans ELSE orphans + 1
         /\ ws' = "connecting"

RetryFires ==
    \E i \in DOMAIN retries :
        /\ retries[i] = 0
        /\ retries' = Without(retries, i)
        /\ Connect
        /\ UNCHANGED <<isClosed, attempts, timers, netUp, pongs, history>>

(* close(), when the page that opened the socket goes away.                 *)
Close ==
    /\ ~isClosed
    /\ isClosed' = TRUE
    /\ Cleanup
    /\ ws' = "closed" /\ status' = "closed"
    /\ pongs' = 0 /\ unanswered' = FALSE /\ silent' = 0
    /\ UNCHANGED <<attempts, retries, orphans, netUp, failures>>

(* A second passes: timers are punctual, no countdown is kept at zero.      *)
Running(countdown) == IF countdown = Unarmed THEN Unarmed ELSE countdown - 1
Tick ==
    /\ pingIn # 0 /\ pongIn # 0
    /\ \A i \in DOMAIN retries : retries[i] > 0
    /\ retries # <<>> \/ pingIn # Unarmed \/ pongIn # Unarmed
    /\ pingIn' = Running(pingIn)
    /\ pongIn' = Running(pongIn)
    /\ retries' = [i \in DOMAIN retries |-> retries[i] - 1]
    /\ silent' = IF ws = "open" THEN silent + 1 ELSE silent
    /\ UNCHANGED <<status, isClosed, attempts, ws, orphans, netUp, pongs,
                   unanswered, failures>>

NetDown == netUp /\ netUp' = FALSE /\ UNCHANGED <<handle, ws, orphans, timers, pongs, history>>
NetUp == ~netUp /\ netUp' = TRUE /\ UNCHANGED <<handle, ws, orphans, timers, pongs, history>>

SocketNext ==
    \/ Opened \/ HandshakeFails \/ ConnectionLost
    \/ Pong \/ Message
    \/ PingFires \/ PongExpires \/ RetryFires \/ Tick
    \/ Close
    \/ NetDown \/ NetUp

(* The browser runs timers and reports what became of a handshake and of a *)
(* connection it is closing; the network, the server and the page owe      *)
(* nothing.                                                                 *)
SocketFairness ==
    /\ WF_socketVars(Tick)
    /\ WF_socketVars(PingFires) /\ WF_socketVars(PongExpires) /\ WF_socketVars(RetryFires)
    /\ WF_socketVars(Opened \/ HandshakeFails)
    /\ WF_socketVars(ws = "closing" /\ ConnectionLost)

SocketSpec == SocketInit /\ [][SocketNext]_socketVars /\ SocketFairness
===========================================================================
