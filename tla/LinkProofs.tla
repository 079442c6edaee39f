----------------------------- MODULE LinkProofs -----------------------------
(***************************************************************************)
(* Proofs about the links between a client and the server: the socket, for  *)
(* any timeouts and any number of attempts; the session, for any tabs and   *)
(* requests; the chat of a user and the code that comes to it, for any      *)
(* users, chats, pages and operations under way.                             *)
(***************************************************************************)
EXTENDS MCLink, TLAPS

---------------------------------------------------------------------------
(* The socket.  What its timers tell of one another: a ping is due as long  *)
(* as there is a connection, and of the time it has been silent.             *)
Heartbeat ==
    /\ ws \in {"open", "closing"} => pingIn # Unarmed
    /\ ws = "open" /\ pongIn = Unarmed => ~unanswered /\ silent + pingIn <= PingEvery
    /\ ws = "open" /\ pongIn # Unarmed /\ ~unanswered => silent + pongIn <= PongWithin
    /\ ws = "open" /\ pongIn # Unarmed /\ unanswered =>
         /\ pingIn - pongIn = PingEvery - PongWithin
         /\ silent + pongIn <= PingEvery + PongWithin

(* Every attempt but the first follows a failure; closed is closed. *)
Attempts ==
    /\ attempts <= failures + 1
    /\ ws \in {"open", "closing"} => attempts = 0
    /\ isClosed => ws = "closed" /\ status = "closed"
    /\ status = "closed" /\ ~isClosed => retries = <<>>

SocketInv ==
    /\ SocketTypeOK
    /\ OneConnection
    /\ TimersFollowConnection
    /\ Heartbeat
    /\ Attempts
    /\ GivesUpOnlyWhenUnreachable
    /\ StatusHonest

(* The only retry there is goes. *)
LEMMA LastRetry ==
    ASSUME NEW s \in Seq(Nat), Len(s) <= 1, NEW i \in DOMAIN s
    PROVE  Without(s, i) = <<>>
  BY DEF Without

LEMMA DelayBounded == \A n \in Nat : Delay(n) \in 0 .. MaxDelay
  BY SocketAssumption DEF Delay

LEMMA SocketConstants ==
    /\ PingEvery \in Nat /\ PongWithin \in Nat /\ PongWithin < PingEvery
    /\ MaxDelay \in Nat /\ MaxAttempts \in Nat /\ MaxAttempts > 0
    /\ Unarmed \notin Nat
  BY SocketAssumption

LEMMA CountdownSet ==
    ASSUME NEW b \in Nat
    PROVE  /\ Unarmed \in Countdown(b)
           /\ \A n \in Nat : n <= b <=> n \in Countdown(b)
           /\ Countdown(b) \subseteq Nat \union {Unarmed}
  BY SocketConstants DEF Countdown

LEMMA SocketInitHolds == SocketInit => SocketInv
<1> SUFFICES ASSUME SocketInit PROVE SocketInv
  OBVIOUS
<1> USE SocketConstants DEF SocketInit
<1>1. SocketTypeOK
  <2>1. pingIn \in Countdown(PingEvery) /\ pongIn \in Countdown(PongWithin)
    BY CountdownSet
  <2>2. retries \in Seq(0 .. MaxDelay)
    OBVIOUS
  <2>3. attempts \in 0 .. MaxAttempts /\ orphans \in Nat /\ pongs \in Nat /\ silent \in Nat /\ failures \in Nat
    OBVIOUS
  <2> QED
    BY <2>1, <2>2, <2>3 DEF SocketTypeOK, Statuses
<1>2. OneConnection /\ TimersFollowConnection /\ StatusHonest
  BY DEF OneConnection, TimersFollowConnection, StatusHonest
<1>3. Heartbeat /\ Attempts /\ GivesUpOnlyWhenUnreachable
  BY DEF Heartbeat, Attempts, GivesUpOnlyWhenUnreachable
<1> QED
  BY <1>1, <1>2, <1>3 DEF SocketInv

LEMMA SocketNextHolds == SocketInv /\ [SocketNext]_socketVars => SocketInv'
<1> SUFFICES ASSUME SocketInv, [SocketNext]_socketVars PROVE SocketInv'
  OBVIOUS
<1> USE SocketConstants
<1>0. /\ OneConnection /\ TimersFollowConnection /\ Heartbeat /\ Attempts
      /\ GivesUpOnlyWhenUnreachable /\ StatusHonest
  BY DEF SocketInv
<1>t. /\ status \in Statuses /\ isClosed \in BOOLEAN
      /\ attempts \in Nat /\ attempts <= MaxAttempts
      /\ ws \in {"connecting", "open", "closing", "closed"}
      /\ orphans \in Nat
      /\ retries \in Seq(0 .. MaxDelay)
      /\ pingIn \in Nat \union {Unarmed} /\ (pingIn \in Nat => pingIn <= PingEvery)
      /\ pongIn \in Nat \union {Unarmed} /\ (pongIn \in Nat => pongIn <= PongWithin)
      /\ netUp \in BOOLEAN /\ pongs \in Nat /\ unanswered \in BOOLEAN
      /\ silent \in Nat /\ failures \in Nat
  BY DEF SocketInv, SocketTypeOK, Countdown
<1>c. pingIn \in Countdown(PingEvery) /\ pongIn \in Countdown(PongWithin)
  BY DEF SocketInv, SocketTypeOK
<1>n. /\ Unarmed \in Countdown(PingEvery) /\ PingEvery \in Countdown(PingEvery)
      /\ Unarmed \in Countdown(PongWithin) /\ PongWithin \in Countdown(PongWithin)
  BY CountdownSet
<1>s. retries = <<>> \/ (Len(retries) = 1 /\ DOMAIN retries = {1} /\ retries[1] \in 0 .. MaxDelay)
  <2>1. Len(retries) \in Nat /\ Len(retries) <= 1 /\ DOMAIN retries = 1 .. Len(retries)
    BY <1>0, <1>t DEF OneConnection
  <2>2. Len(retries) = 0 => retries = <<>>
    BY <1>t
  <2> QED
    BY <1>t, <2>1, <2>2
<1>1. ASSUME Opened PROVE SocketInv'
  <2>1. SocketTypeOK'
    <3>1. status' \in Statuses /\ ws' \in {"connecting", "open", "closing", "closed"}
      BY <1>1, <1>t DEF Opened, Statuses
    <3>2. /\ attempts' \in 0 .. MaxAttempts /\ orphans' \in Nat /\ pongs' \in Nat
          /\ silent' \in Nat /\ failures' \in Nat
      BY <1>1, <1>t DEF Opened
    <3>3. /\ retries' \in Seq(0 .. MaxDelay)
          /\ isClosed' \in BOOLEAN /\ netUp' \in BOOLEAN /\ unanswered' \in BOOLEAN
      BY <1>1, <1>t DEF Opened
    <3>4. pingIn' \in Countdown(PingEvery) /\ pongIn' \in Countdown(PongWithin)
      BY <1>1, <1>t, <1>c, <1>n DEF Opened
    <3> QED
      BY <3>1, <3>2, <3>3, <3>4 DEF SocketTypeOK
  <2>2. OneConnection' /\ TimersFollowConnection' /\ StatusHonest'
    BY <1>0, <1>1, <1>t DEF Opened, OneConnection, TimersFollowConnection, StatusHonest
  <2>3. Heartbeat'
    BY <1>0, <1>1, <1>t DEF Opened, Heartbeat, TimersFollowConnection
  <2>4. Attempts' /\ GivesUpOnlyWhenUnreachable'
    BY <1>0, <1>1, <1>t DEF Opened, Attempts, GivesUpOnlyWhenUnreachable
  <2> QED
    BY <2>1, <2>2, <2>3, <2>4 DEF SocketInv
<1>2. ASSUME OnClose, ws # "closed", failures' \in {failures, failures + 1},
             ws = "connecting" => failures' = failures + 1
      PROVE  SocketInv'
  <2>1. retries = <<>> /\ ~isClosed
    BY <1>0, <1>2 DEF OneConnection, Attempts
  <2>2. retries' = <<>> \/ retries' = <<Delay(attempts)>>
    BY <1>2, <2>1 DEF OnClose, Reconnect
  <2>a. retries' \in Seq(0 .. MaxDelay)
    <3>1. Delay(attempts) \in 0 .. MaxDelay
      BY <1>t, DelayBounded
    <3> QED
      <4> DEFINE d == Delay(attempts)
      <4> HIDE DEF d
      <4>1. <<d>> \in Seq(0 .. MaxDelay) /\ <<>> \in Seq(0 .. MaxDelay)
        BY <3>1 DEF d
      <4> QED
        BY <2>2, <4>1 DEF d
  <2>b. status' \in Statuses /\ attempts' \in 0 .. MaxAttempts
    BY <1>2, <1>t DEF OnClose, Reconnect, Statuses
  <2>3. SocketTypeOK'
    <3>1. status' \in Statuses /\ ws' \in {"connecting", "open", "closing", "closed"}
      BY <1>2, <1>t, <2>a, <2>b DEF OnClose, Cleanup, Statuses
    <3>2. /\ attempts' \in 0 .. MaxAttempts /\ orphans' \in Nat /\ pongs' \in Nat
          /\ silent' \in Nat /\ failures' \in Nat
      BY <1>2, <1>t, <2>a, <2>b DEF OnClose, Cleanup
    <3>3. /\ retries' \in Seq(0 .. MaxDelay)
          /\ isClosed' \in BOOLEAN /\ netUp' \in BOOLEAN /\ unanswered' \in BOOLEAN
      BY <1>2, <1>t, <2>a, <2>b DEF OnClose, Cleanup
    <3>4. pingIn' \in Countdown(PingEvery) /\ pongIn' \in Countdown(PongWithin)
      BY <1>2, <1>t, <2>a, <2>b, <1>c, <1>n DEF OnClose, Cleanup
    <3> QED
      BY <3>1, <3>2, <3>3, <3>4 DEF SocketTypeOK
  <2>4. OneConnection' /\ TimersFollowConnection' /\ StatusHonest' /\ Heartbeat'
    BY <1>0, <1>2, <1>t, <2>2 DEF OnClose, Reconnect, Cleanup, OneConnection,
       TimersFollowConnection, StatusHonest, Heartbeat
  <2>5. Attempts' /\ GivesUpOnlyWhenUnreachable'
    BY <1>0, <1>2, <1>t, <2>1 DEF OnClose, Reconnect, Attempts, GivesUpOnlyWhenUnreachable
  <2> QED
    BY <2>3, <2>4, <2>5 DEF SocketInv
<1>3. ASSUME HandshakeFails PROVE SocketInv'
  BY <1>2, <1>3 DEF HandshakeFails
<1>4. ASSUME ConnectionLost PROVE SocketInv'
  BY <1>2, <1>4 DEF ConnectionLost
<1>5. ASSUME Pong PROVE SocketInv'
  <2>1. SocketTypeOK'
    <3>1. status' \in Statuses /\ ws' \in {"connecting", "open", "closing", "closed"}
      BY <1>5, <1>t DEF Pong, ResetPongTimeout, handle, Statuses
    <3>2. /\ attempts' \in 0 .. MaxAttempts /\ orphans' \in Nat /\ pongs' \in Nat
          /\ silent' \in Nat /\ failures' \in Nat
      BY <1>5, <1>t DEF Pong, ResetPongTimeout, handle
    <3>3. /\ retries' \in Seq(0 .. MaxDelay)
          /\ isClosed' \in BOOLEAN /\ netUp' \in BOOLEAN /\ unanswered' \in BOOLEAN
      BY <1>5, <1>t DEF Pong, ResetPongTimeout, handle
    <3>4. pingIn' \in Countdown(PingEvery) /\ pongIn' \in Countdown(PongWithin)
      BY <1>5, <1>t, <1>c, <1>n DEF Pong, ResetPongTimeout, handle
    <3> QED
      BY <3>1, <3>2, <3>3, <3>4 DEF SocketTypeOK
  <2>2. OneConnection' /\ TimersFollowConnection' /\ StatusHonest' /\ Attempts' /\ GivesUpOnlyWhenUnreachable'
    BY <1>0, <1>5, <1>t DEF Pong, ResetPongTimeout, handle, OneConnection,
       TimersFollowConnection, StatusHonest, Attempts, GivesUpOnlyWhenUnreachable
  <2>3. Heartbeat'
    BY <1>0, <1>5, <1>t DEF Pong, ResetPongTimeout, handle, Heartbeat
  <2> QED
    BY <2>1, <2>2, <2>3 DEF SocketInv
<1>6. ASSUME Message PROVE SocketInv'
  <2>1. attempts = 0 /\ attempts' = 0
    BY <1>0, <1>6 DEF Message, Attempts
  <2>2. SocketTypeOK'
    BY <1>6, <1>t, <2>1, CountdownSet DEF Message, timers, SocketTypeOK
  <2>3. OneConnection' /\ TimersFollowConnection' /\ StatusHonest' /\ Attempts' /\ GivesUpOnlyWhenUnreachable'
    BY <1>0, <1>6, <1>t, <2>1 DEF Message, timers, OneConnection, TimersFollowConnection,
       StatusHonest, Attempts, GivesUpOnlyWhenUnreachable
  <2>4. Heartbeat'
    BY <1>0, <1>6, <1>t DEF Message, timers, Heartbeat
  <2> QED
    BY <2>2, <2>3, <2>4 DEF SocketInv
<1>7. ASSUME PingFires PROVE SocketInv'
  <2>1. SocketTypeOK'
    <3>1. status' \in Statuses /\ ws' \in {"connecting", "open", "closing", "closed"}
      BY <1>7, <1>t DEF PingFires, ResetPongTimeout, handle, Statuses
    <3>2. /\ attempts' \in 0 .. MaxAttempts /\ orphans' \in Nat /\ pongs' \in Nat
          /\ silent' \in Nat /\ failures' \in Nat
      BY <1>7, <1>t DEF PingFires, ResetPongTimeout, handle
    <3>3. /\ retries' \in Seq(0 .. MaxDelay)
          /\ isClosed' \in BOOLEAN /\ netUp' \in BOOLEAN /\ unanswered' \in BOOLEAN
      BY <1>7, <1>t DEF PingFires, ResetPongTimeout, handle
    <3>4. pingIn' \in Countdown(PingEvery) /\ pongIn' \in Countdown(PongWithin)
      BY <1>7, <1>t, <1>c, <1>n DEF PingFires, ResetPongTimeout, handle
    <3> QED
      BY <3>1, <3>2, <3>3, <3>4 DEF SocketTypeOK
  <2>2. OneConnection' /\ TimersFollowConnection' /\ StatusHonest' /\ Attempts' /\ GivesUpOnlyWhenUnreachable'
    BY <1>0, <1>7, <1>t DEF PingFires, ResetPongTimeout, handle, OneConnection,
       TimersFollowConnection, StatusHonest, Attempts, GivesUpOnlyWhenUnreachable
  <2>3. Heartbeat'
    BY <1>0, <1>7, <1>t DEF PingFires, ResetPongTimeout, handle, Heartbeat
  <2> QED
    BY <2>1, <2>2, <2>3 DEF SocketInv
<1>8. ASSUME PongExpires PROVE SocketInv'
  <2>1. SocketTypeOK'
    BY <1>8, <1>t, CountdownSet DEF PongExpires, handle, SocketTypeOK
  <2>2. OneConnection' /\ TimersFollowConnection' /\ StatusHonest' /\ Attempts' /\ GivesUpOnlyWhenUnreachable'
    BY <1>0, <1>8, <1>t DEF PongExpires, handle, OneConnection, TimersFollowConnection,
       StatusHonest, Attempts, GivesUpOnlyWhenUnreachable
  <2>3. Heartbeat'
    BY <1>0, <1>8, <1>t DEF PongExpires, handle, Heartbeat, TimersFollowConnection
  <2> QED
    BY <2>1, <2>2, <2>3 DEF SocketInv
<1>9. ASSUME RetryFires PROVE SocketInv'
  <2>1. /\ retries' = <<>> /\ ws = "closed" /\ Connect
        /\ UNCHANGED <<isClosed, attempts, timers, netUp, pongs, history>>
    BY <1>0, <1>9, <1>s, <1>t, LastRetry DEF RetryFires, OneConnection
  <2>2. SocketTypeOK'
    BY <2>1, <1>t DEF Connect, timers, history, SocketTypeOK, Statuses, Countdown
  <2>3. OneConnection' /\ TimersFollowConnection' /\ StatusHonest' /\ Attempts' /\ GivesUpOnlyWhenUnreachable'
    BY <1>0, <2>1, <1>t, <1>9, <1>s DEF RetryFires, Connect, timers, history, OneConnection,
       TimersFollowConnection, StatusHonest, Attempts, GivesUpOnlyWhenUnreachable
  <2>4. Heartbeat'
    BY <1>0, <2>1, <1>t DEF Connect, timers, history, Heartbeat
  <2> QED
    BY <2>2, <2>3, <2>4 DEF SocketInv
<1>10. ASSUME Close PROVE SocketInv'
  <2>1. SocketTypeOK'
    <3>1. status' \in Statuses /\ ws' \in {"connecting", "open", "closing", "closed"}
      BY <1>10, <1>t DEF Close, Cleanup, Statuses
    <3>2. /\ attempts' \in 0 .. MaxAttempts /\ orphans' \in Nat /\ pongs' \in Nat
          /\ silent' \in Nat /\ failures' \in Nat
      BY <1>10, <1>t DEF Close, Cleanup
    <3>3. /\ retries' \in Seq(0 .. MaxDelay)
          /\ isClosed' \in BOOLEAN /\ netUp' \in BOOLEAN /\ unanswered' \in BOOLEAN
      BY <1>10, <1>t DEF Close, Cleanup
    <3>4. pingIn' \in Countdown(PingEvery) /\ pongIn' \in Countdown(PongWithin)
      BY <1>10, <1>t, <1>c, <1>n DEF Close, Cleanup
    <3> QED
      BY <3>1, <3>2, <3>3, <3>4 DEF SocketTypeOK
  <2>2. OneConnection' /\ TimersFollowConnection' /\ StatusHonest' /\ Attempts' /\ GivesUpOnlyWhenUnreachable' /\ Heartbeat'
    BY <1>0, <1>10, <1>t DEF Close, Cleanup, OneConnection, TimersFollowConnection,
       StatusHonest, Attempts, GivesUpOnlyWhenUnreachable, Heartbeat
  <2> QED
    BY <2>1, <2>2 DEF SocketInv
<1>11. ASSUME Tick PROVE SocketInv'
  <2>1. /\ retries = <<>> => retries' = <<>>
        /\ retries # <<>> => retries' \in Seq(0 .. MaxDelay) /\ Len(retries') = 1
        /\ retries' # <<>> => retries # <<>>
    BY <1>11, <1>s, <1>t DEF Tick
  <2>2. SocketTypeOK'
    BY <1>11, <2>1, <1>t, CountdownSet DEF Tick, Running, SocketTypeOK
  <2>3. OneConnection' /\ TimersFollowConnection' /\ StatusHonest' /\ Attempts' /\ GivesUpOnlyWhenUnreachable'
    BY <1>0, <1>11, <1>t, <2>1 DEF Tick, Running, OneConnection, TimersFollowConnection,
       StatusHonest, Attempts, GivesUpOnlyWhenUnreachable
  <2>4. Heartbeat'
    <3>1. /\ pingIn # Unarmed => pingIn \in Nat /\ pingIn' = pingIn - 1 /\ pingIn' \in Nat
          /\ pongIn # Unarmed => pongIn \in Nat /\ pongIn' = pongIn - 1 /\ pongIn' \in Nat
          /\ pongIn = Unarmed => pongIn' = Unarmed
          /\ ws' = ws /\ unanswered' = unanswered /\ (ws = "open" => silent' = silent + 1)
      BY <1>11, <1>t DEF Tick, Running
    <3> QED
      BY <1>0, <1>t, <3>1 DEF Heartbeat
  <2> QED
    BY <2>2, <2>3, <2>4 DEF SocketInv
<1>12. ASSUME NetDown \/ NetUp \/ UNCHANGED socketVars PROVE SocketInv'
  <2>1. /\ UNCHANGED <<status, isClosed, attempts, ws, orphans, retries, pingIn, pongIn>>
        /\ UNCHANGED <<pongs, unanswered, silent, failures>>
        /\ netUp' \in BOOLEAN
    BY <1>12, <1>t DEF NetDown, NetUp, socketVars, handle, timers, history
  <2>2. SocketTypeOK'
    BY <2>1 DEF SocketInv, SocketTypeOK
  <2> QED
    BY <1>0, <2>1, <2>2 DEF SocketInv, OneConnection, TimersFollowConnection, StatusHonest,
       Attempts, GivesUpOnlyWhenUnreachable, Heartbeat
<1> QED
  BY <1>1, <1>3, <1>4, <1>5, <1>6, <1>7, <1>8, <1>9, <1>10, <1>11, <1>12 DEF SocketNext

LEMMA SocketInvSound == SocketInv => SocketSound
  BY SocketConstants DEF SocketInv, SocketSound, SocketTypeOK, Countdown, Heartbeat,
     SilenceNoticed

(* One connection at a time, its timers its own, silence noticed, given up  *)
(* only after every attempt failed and reported for what it is: through any  *)
(* order of losses, timeouts and reconnects, whatever the periods.            *)
THEOREM SocketStaysSound == SocketSpec => []SocketSound
<1>1. SocketSpec => []SocketInv
  BY SocketInitHolds, SocketNextHolds, PTL DEF SocketSpec
<1> QED
  BY <1>1, SocketInvSound, PTL

---------------------------------------------------------------------------
(* The session. *)

(* A pair of tokens on its way: whoever asked has yet to hear of it. *)
Held(r) ==
    \/ req[r].phase = "refreshed"
    \/ req[r].phase = "answered" /\ req[r].kind = "login" /\ req[r].out # 0

(* Nothing has happened yet that may throw somebody out. *)
Causes == {"overlap", "lost", "asleep", "refused", "logout"}
Undisturbed == past \intersect Causes = {} /\ ~(app = "mini" /\ "renewed" \in past)

(* As long as that is so, every pair is new when it is stored: whichever     *)
(* renewal or login is heard first, the token that is then shown has not     *)
(* been spent - unless the renewal under way has just spent it.               *)
Fresh ==
    Undisturbed =>
      /\ "kicked" \notin past
      /\ refresh \in 1 .. issued
      /\ spent \subseteq 1 .. issued
      /\ \A r \in Request : Busy(r) => req[r].kind # "logout"
      /\ \A r, q \in Request : Renewing(r) /\ Renewing(q) => r = q
      /\ \A r \in Request : req[r].phase = "refreshing" =>
           req[r].cred \in 1 .. issued /\ req[r].cred \notin spent
      /\ \A r \in Request : Held(r) =>
           req[r].out \in 1 .. issued /\ req[r].out \notin spent /\ req[r].out # refresh
      /\ \A r, q \in Request : Held(r) /\ Held(q) /\ req[r].out = req[q].out => r = q
      /\ \A r, q \in Request : Held(r) /\ req[q].phase = "refreshing" =>
           req[r].out # req[q].cred
      /\ refresh \in spent => \E r \in Request : req[r].phase = "refreshed"

(* What a sign-out leaves. *)
Gone ==
    "signed out" \in past /\ past \intersect {"late", "unheard"} = {} =>
      access = 0 /\ refresh = 0

SessionInv == SessionTypeOK /\ TokenMatchesCookie /\ Gone /\ Fresh

LEMMA SessionConstants ==
    /\ MaxPairs \in Nat /\ MaxPairs >= 1 /\ MaxSends \in Nat
    /\ Pair = 1 .. MaxPairs /\ 1 \in Pair
    /\ App \subseteq {"web", "mini"}
  BY SessionAssumption DEF Pair

LEMMA RequestFields ==
    ASSUME SessionTypeOK, NEW r \in Request, Busy(r)
    PROVE  /\ req[r] \in InFlight
           /\ req[r].tab \in Tab /\ req[r].kind \in Kind /\ req[r].retry \in BOOLEAN
           /\ req[r].cred \in Pair \union {0} /\ req[r].out \in Pair \union {0}
  BY DEF SessionTypeOK, Busy, InFlight, Idle

LEMMA AskedTyped ==
    ASSUME SessionTypeOK, NEW t \in Tab, NEW kind \in Kind, NEW retry \in BOOLEAN,
           NEW a \in Pair \union {0}
    PROVE  Asked(t, kind, retry, a) \in InFlight
<1>1. Credential(a) \in Pair \union {0}
  BY DEF SessionTypeOK, Credential
<1>2. (IF kind = "logout" THEN refresh ELSE 0) \in Pair \union {0}
  BY DEF SessionTypeOK
<1> QED
  BY <1>1, <1>2 DEF Asked, InFlight

(* What the actions make of a request. *)
LEMMA RequestUpdated ==
    ASSUME NEW q \in InFlight, NEW n \in Pair \union {0}
    PROVE  /\ [q EXCEPT !.phase = "answered", !.out = n] \in InFlight
           /\ [q EXCEPT !.phase = "refreshed", !.out = n] \in InFlight
           /\ [q EXCEPT !.phase = "refreshing", !.retry = TRUE, !.cred = n, !.out = 0] \in InFlight
           /\ [q EXCEPT !.phase = "sent", !.cred = n, !.out = 0] \in InFlight
           /\ [q EXCEPT !.phase = "sent", !.kind = "enter", !.retry = FALSE,
                        !.cred = n, !.out = 0] \in InFlight
  BY DEF InFlight, Kind

LEMMA OneRequest ==
    ASSUME NEW r \in Request, NEW v \in InFlight \union {Idle}, SessionTypeOK
    PROVE  [req EXCEPT ![r] = v] \in [Request -> InFlight \union {Idle}]
  BY DEF SessionTypeOK

---------------------------------------------------------------------------
LEMMA SessionInitHolds == SessionInit => SessionInv
<1> SUFFICES ASSUME SessionInit PROVE SessionInv
  OBVIOUS
<1> USE SessionConstants DEF SessionInit
<1>1. SessionTypeOK
  BY DEF SessionTypeOK
<1>2. TokenMatchesCookie /\ Gone
  BY DEF TokenMatchesCookie, Gone
<1>3. Fresh
  BY DEF Fresh, Undisturbed, Busy, Renewing, Held, Idle
<1> QED
  BY <1>1, <1>2, <1>3 DEF SessionInv

(* A page that is loaded anew, and what becomes of the renewals it drops. *)
LEMMA LoadTyped ==
    ASSUME SessionTypeOK, NEW t \in Tab, NEW r \in Request, NEW token \in Pair \union {0},
           Load(t, r, token)
    PROVE  /\ req' \in [Request -> InFlight \union {Idle}]
           /\ auth' \in [Tab -> BOOLEAN]
<1>1. Asked(t, "me", FALSE, token) \in InFlight /\ Asked(t, "login", FALSE, token) \in InFlight
  BY AskedTyped DEF Kind
<1>2. \A q \in Request : req[q] \in InFlight \union {Idle}
  BY DEF SessionTypeOK
<1>3. req' \in [Request -> InFlight \union {Idle}]
  BY <1>1, <1>2 DEF Load
<1>4. auth' \in [Tab -> BOOLEAN]
  BY DEF Load, SessionTypeOK
<1> QED
  BY <1>3, <1>4

LEMMA AbandonTyped ==
    ASSUME SessionTypeOK, NEW t \in Tab, NEW r \in Request, NEW event \in SUBSET Event,
           Abandon(t, r, event)
    PROVE  spent' \subseteq Pair /\ past' \subseteq Event
<1> DEFINE renewals == {q \in Dropped(t) \ {r} : Renewing(q)}
           unserved == {req[q].cred : q \in {p \in renewals : req[p].phase = "refreshing"}}
<1>1. unserved \ {0} \subseteq Pair
  BY RequestFields DEF Dropped
<1>2. PICK s \in SUBSET (unserved \ {0}) :
          /\ spent' = spent \union s
          /\ past' = past \union event \union (IF renewals # {} THEN {"lost"} ELSE {})
  BY DEF Abandon
<1>3. spent' \subseteq Pair
  BY <1>1, <1>2 DEF SessionTypeOK
<1>4. past' \subseteq Event
  BY <1>2 DEF SessionTypeOK, Event
<1> QED
  BY <1>3, <1>4

(* Whoever is thrown out, and a request that is rejected. *)
LEMMA KickTyped ==
    ASSUME SessionTypeOK, NEW r \in Request, Busy(r), NEW event \in SUBSET Event,
           Kick(r, event), UNCHANGED <<app, issued, expired, revoked>>
    PROVE  SessionTypeOK'
<1> DEFINE t == req[r].tab
<1>1. t \in Tab
  BY RequestFields
<1> HIDE DEF t
<1>2. CASE app = "web" /\ page[t] = "app"
  <2>1. /\ access' = 0 /\ page' = [page EXCEPT ![t] = "login"]
        /\ Load(t, r, 0) /\ Abandon(t, r, event \union {"kicked"})
        /\ UNCHANGED <<refresh, persisted, sends>>
    BY <1>2 DEF Kick, t
  <2>2. event \union {"kicked"} \in SUBSET Event
    BY DEF Event
  <2>3. /\ req' \in [Request -> InFlight \union {Idle}] /\ auth' \in [Tab -> BOOLEAN]
        /\ spent' \subseteq Pair /\ past' \subseteq Event
    BY <1>1, <2>1, <2>2, LoadTyped, AbandonTyped
  <2> QED
    BY <1>1, <2>1, <2>3 DEF SessionTypeOK
<1>3. CASE ~(app = "web" /\ page[t] = "app")
  <2>1. /\ Settle(r) /\ access' = 0 /\ refresh' \in {0, refresh} /\ ForgetIfMe(r)
        /\ past' = past \union event \union (IF app = "mini" THEN {"kicked"} ELSE {})
        /\ UNCHANGED <<page, sends, spent>>
    BY <1>3 DEF Kick, t
  <2>2. req' \in [Request -> InFlight \union {Idle}]
    BY <2>1, OneRequest DEF Settle
  <2>3. auth' \in [Tab -> BOOLEAN] /\ persisted' \in BOOLEAN
    BY <1>1, <2>1 DEF ForgetIfMe, SessionTypeOK
  <2>4. past' \subseteq Event
    BY <2>1 DEF SessionTypeOK, Event
  <2> QED
    BY <2>1, <2>2, <2>3, <2>4 DEF SessionTypeOK
<1> QED
  BY <1>2, <1>3

LEMMA RejectTyped ==
    ASSUME SessionTypeOK, NEW r \in Request, Busy(r), NEW event \in SUBSET Event,
           Reject(r, event), UNCHANGED <<app, issued, expired, revoked>>
    PROVE  SessionTypeOK'
<1>1. req[r].tab \in Tab
  BY RequestFields
<1>2. req' \in [Request -> InFlight \union {Idle}]
  BY OneRequest DEF Reject, Settle
<1>3. auth' \in [Tab -> BOOLEAN] /\ persisted' \in BOOLEAN
  BY <1>1 DEF Reject, SignOut, ForgetIfMe, SessionTypeOK
<1>4. page' \in [Tab -> {"login", "app"}]
  BY <1>1 DEF Reject, SignOut, SessionTypeOK
<1>5. past' \subseteq Event
  BY DEF Reject, SessionTypeOK, Event
<1>6. access' \in Pair \union {0} /\ refresh' \in Pair \union {0} /\ UNCHANGED <<sends, spent>>
  BY DEF Reject, SignOut, SessionTypeOK
<1> QED
  BY <1>2, <1>3, <1>4, <1>5, <1>6 DEF SessionTypeOK

(* An answer that is heard. *)
LEMMA HeardTyped ==
    ASSUME SessionTypeOK, NEW r \in Request, Busy(r), Heard(r),
           UNCHANGED <<app, issued, expired, revoked>>
    PROVE  SessionTypeOK'
<1>1. /\ req[r] \in InFlight /\ req[r].tab \in Tab /\ req[r].kind \in Kind
      /\ req[r].out \in Pair \union {0}
  BY RequestFields
<1>2. CASE req[r].kind = "login"
  <2> DEFINE q == [req[r] EXCEPT !.phase = "sent", !.kind = "enter", !.retry = FALSE,
                                 !.cred = req[r].out, !.out = 0]
  <2>1. q \in InFlight
    BY <1>1, RequestUpdated
  <2>2. /\ access' = req[r].out /\ refresh' = req[r].out
        /\ req' = [req EXCEPT ![r] = q]
        /\ past' = past \ {"signed out"}
        /\ UNCHANGED <<persisted, tabs, sends, spent>>
    BY <1>2 DEF Heard
  <2> HIDE DEF q
  <2>3. req' \in [Request -> InFlight \union {Idle}]
    BY <2>1, <2>2, OneRequest
  <2> QED
    BY <1>1, <2>2, <2>3 DEF SessionTypeOK, tabs
<1>3. CASE req[r].kind = "logout"
  <2>1. /\ Settle(r) /\ SignOut(req[r].tab, 0) /\ past' = past \union {"signed out"}
        /\ UNCHANGED <<sends, spent>>
    BY <1>3 DEF Heard
  <2>2. req' \in [Request -> InFlight \union {Idle}]
    BY <2>1, OneRequest DEF Settle
  <2> QED
    BY <1>1, <2>1, <2>2 DEF SignOut, SessionTypeOK, Event
<1>4. CASE req[r].kind \in {"me", "enter"}
  <2>1. /\ Settle(r)
        /\ auth' = [auth EXCEPT ![req[r].tab] = TRUE] /\ persisted' = TRUE
        /\ page' = IF req[r].kind = "enter" THEN [page EXCEPT ![req[r].tab] = "app"] ELSE page
        /\ UNCHANGED <<access, refresh, past, sends, spent>>
    BY <1>4 DEF Heard
  <2>2. req' \in [Request -> InFlight \union {Idle}]
    BY <2>1, OneRequest DEF Settle
  <2> QED
    BY <1>1, <2>1, <2>2 DEF SessionTypeOK
<1>5. CASE req[r].kind = "call"
  <2>1. Settle(r) /\ UNCHANGED <<storage, tabs, past, sends, spent>>
    BY <1>5 DEF Heard
  <2>2. req' \in [Request -> InFlight \union {Idle}]
    BY <2>1, OneRequest DEF Settle
  <2> QED
    BY <2>1, <2>2 DEF SessionTypeOK, storage, tabs
<1> QED
  BY <1>1, <1>2, <1>3, <1>4, <1>5 DEF Kind

LEMMA ReceiveTyped ==
    ASSUME SessionTypeOK, NEW r \in Request, Receive(r)
    PROVE  SessionTypeOK'
<1>1. Busy(r) /\ UNCHANGED <<app, issued, expired, revoked>>
  BY DEF Receive, Busy
<1>2. CASE Heard(r)
  BY <1>1, <1>2, HeardTyped
<1>3. CASE Renew(r)
  <2> DEFINE q == [req[r] EXCEPT !.phase = "refreshing", !.retry = TRUE,
                                 !.cred = refresh, !.out = 0]
  <2>1. q \in InFlight
    BY <1>1, RequestFields, RequestUpdated DEF SessionTypeOK
  <2>2. /\ req' = [req EXCEPT ![r] = q] /\ past' \subseteq past \union {"overlap"}
        /\ UNCHANGED <<storage, tabs, sends, spent>>
    BY <1>3 DEF Renew
  <2> HIDE DEF q
  <2>3. req' \in [Request -> InFlight \union {Idle}]
    BY <2>1, <2>2, OneRequest
  <2> QED
    BY <1>1, <2>2, <2>3 DEF SessionTypeOK, storage, tabs, Event
<1>4. ASSUME NEW event \in SUBSET Event, Kick(r, event) PROVE SessionTypeOK'
  BY <1>1, <1>4, KickTyped
<1>5. ASSUME NEW event \in SUBSET Event, Reject(r, event) PROVE SessionTypeOK'
  BY <1>1, <1>5, RejectTyped
<1> QED
  <2>1. {"refused"} \in SUBSET Event /\ {"asleep"} \in SUBSET Event
    BY DEF Event
  <2> QED
    BY <1>2, <1>3, <1>4, <1>5, <2>1 DEF Receive

LEMMA ReceiveRefreshTyped ==
    ASSUME SessionTypeOK, NEW r \in Request, ReceiveRefresh(r)
    PROVE  SessionTypeOK'
<1>1. Busy(r) /\ UNCHANGED <<app, issued, expired, revoked>>
  BY DEF ReceiveRefresh, Busy
<1>2. CASE Renewed(r)
  <2> DEFINE q == [req[r] EXCEPT !.phase = "sent", !.cred = req[r].out, !.out = 0]
  <2>1. q \in InFlight /\ req[r].out \in Pair \union {0}
    BY <1>1, RequestFields, RequestUpdated
  <2>2. /\ req' = [req EXCEPT ![r] = q] /\ past' \subseteq past \union {"late", "renewed"}
        /\ access' = req[r].out /\ refresh' \in {req[r].out, refresh}
        /\ UNCHANGED <<persisted, tabs, sends, spent>>
    BY <1>2 DEF Renewed, NextRefresh
  <2> HIDE DEF q
  <2>3. req' \in [Request -> InFlight \union {Idle}]
    BY <2>1, <2>2, OneRequest
  <2> QED
    BY <1>1, <2>1, <2>2, <2>3 DEF SessionTypeOK, tabs, Event
<1>3. CASE Kick(r, {})
  BY <1>1, <1>3, KickTyped
<1> QED
  BY <1>2, <1>3 DEF ReceiveRefresh

LEMMA LoseTyped ==
    ASSUME SessionTypeOK, NEW r \in Request, Lose(r)
    PROVE  SessionTypeOK'
<1>1. {"lost"} \in SUBSET Event /\ {} \in SUBSET Event
  BY DEF Event
<1> QED
  BY <1>1, KickTyped, RejectTyped DEF Lose

(* What the server does. *)
LEMMA ServeTyped ==
    ASSUME SessionTypeOK, NEW r \in Request, Serve(r) \/ ServeRefresh(r)
    PROVE  SessionTypeOK'
<1>1. Busy(r) /\ issued \in 1 .. MaxPairs
  BY SessionConstants DEF Serve, ServeRefresh, Busy, SessionTypeOK
<1>2. /\ req[r] \in InFlight
      /\ req[r].cred \in Pair \union {0} /\ req[r].out \in Pair \union {0}
  BY <1>1, RequestFields
<1>3. issued' \in {issued, issued + 1} /\ issued' \in Pair
  BY <1>1, SessionConstants DEF Serve, ServeRefresh
<1>4. revoked' \subseteq Pair /\ spent' \subseteq Pair
  <2>1. CASE Serve(r)
    BY <1>2, <2>1 DEF Serve, SessionTypeOK
  <2>2. CASE ServeRefresh(r)
    BY <1>2, <2>2 DEF ServeRefresh, Renewable, SessionTypeOK
  <2> QED
    BY <2>1, <2>2
<1>5. \E n \in Pair \union {0}, phase \in {"answered", "refreshed"} :
         req' = [req EXCEPT ![r].phase = phase, ![r].out = n]
  BY <1>1, <1>3, SessionConstants DEF Serve, ServeRefresh, Reply
<1>6. req' \in [Request -> InFlight \union {Idle}]
  <2>1. PICK n \in Pair \union {0}, phase \in {"answered", "refreshed"} :
         req' = [req EXCEPT ![r].phase = phase, ![r].out = n]
    BY <1>5
  <2> DEFINE q == [req[r] EXCEPT !.phase = phase, !.out = n]
  <2>2. q \in InFlight
    BY <1>2, RequestUpdated
  <2>3. req' = [req EXCEPT ![r] = q]
    BY <2>1
  <2> HIDE DEF q
  <2> QED
    BY <2>2, <2>3, OneRequest
<1>7. UNCHANGED <<app, access, refresh, persisted, auth, page, sends, expired, past>>
  BY DEF Serve, ServeRefresh, storage, tabs
<1>8. expired' \in 0 .. issued'
  BY <1>1, <1>3, <1>7 DEF SessionTypeOK
<1> QED
  BY <1>3, <1>4, <1>6, <1>7, <1>8 DEF SessionTypeOK

LEMMA SessionTypesKept == SessionTypeOK /\ [SessionNext]_sessionVars => SessionTypeOK'
<1> SUFFICES ASSUME SessionTypeOK, [SessionNext]_sessionVars PROVE SessionTypeOK'
  OBVIOUS
<1>1. ASSUME NEW r \in Request, NEW t \in Tab, NEW kind \in Kind, Send(r, t, kind)
      PROVE  SessionTypeOK'
  <2>1. Asked(t, kind, FALSE, access) \in InFlight
    BY AskedTyped DEF SessionTypeOK
  <2>2. req' \in [Request -> InFlight \union {Idle}]
    BY <1>1, <2>1, OneRequest DEF Send
  <2>3. sends' \in 0 .. MaxSends /\ past' \subseteq Event
    <3>1. sends' = sends + 1 /\ sends < MaxSends
      BY <1>1 DEF Send
    <3>2. past' \subseteq past \union {"logout"}
      BY <1>1 DEF Send
    <3> QED
      <4>1. sends \in 0 .. MaxSends /\ past \subseteq Event
        BY DEF SessionTypeOK
      <4>2. sends' \in 0 .. MaxSends
        BY <3>1, <4>1, SessionConstants
      <4>3. past' \subseteq Event
        BY <3>2, <4>1 DEF Event
      <4> QED
        BY <4>2, <4>3
  <2> QED
    BY <1>1, <2>2, <2>3 DEF Send, SessionTypeOK, storage, tabs, server
<1>2. ASSUME NEW r \in Request, NEW t \in Tab, Reload(t, r) PROVE SessionTypeOK'
  <2>1. Abandon(t, r, {}) /\ Load(t, r, access) /\ access \in Pair \union {0} /\ {} \in SUBSET Event
    BY <1>2 DEF Reload, SessionTypeOK
  <2>2. /\ req' \in [Request -> InFlight \union {Idle}] /\ auth' \in [Tab -> BOOLEAN]
        /\ spent' \subseteq Pair /\ past' \subseteq Event
    BY <2>1, LoadTyped, AbandonTyped
  <2>3. sends' \in 0 .. MaxSends
    BY <1>2, SessionConstants DEF Reload, SessionTypeOK
  <2> QED
    BY <1>2, <2>2, <2>3 DEF Reload, SessionTypeOK, storage
<1>3. ASSUME NEW t \in Tab, Navigate(t) PROVE SessionTypeOK'
  BY <1>3 DEF Navigate, SessionTypeOK, storage, server
<1>4. ASSUME NEW r \in Request, Progress(r) PROVE SessionTypeOK'
  BY <1>4, ServeTyped, ReceiveTyped, ReceiveRefreshTyped, LoseTyped DEF Progress
<1>5. CASE Expire
  BY <1>5, SessionConstants DEF Expire, SessionTypeOK, storage, tabs
<1>6. CASE UNCHANGED sessionVars
  BY <1>6 DEF sessionVars, storage, tabs, server, SessionTypeOK
<1> QED
  BY <1>1, <1>2, <1>3, <1>4, <1>5, <1>6 DEF SessionNext

(* The tokens a client keeps: those of one pair, and none after a sign-out. *)
LEMMA TokensKept ==
    SessionTypeOK /\ TokenMatchesCookie /\ Gone /\ [SessionNext]_sessionVars =>
      TokenMatchesCookie' /\ Gone'
<1> SUFFICES ASSUME SessionTypeOK, TokenMatchesCookie, Gone, [SessionNext]_sessionVars
             PROVE  TokenMatchesCookie' /\ Gone'
  OBVIOUS
<1>a. app \in {"web", "mini"}
  BY SessionConstants DEF SessionTypeOK
<1>1. ASSUME app' = app, access' \in {0, access}, refresh' \in {0, refresh},
             refresh' # refresh => access' = 0, past \ {"signed out"} \subseteq past',
             "signed out" \in past' => "signed out" \in past
      PROVE  TokenMatchesCookie' /\ Gone'
  BY <1>1 DEF TokenMatchesCookie, Gone
<1>2. ASSUME NEW r \in Request, NEW event, Kick(r, event), "signed out" \notin event, app' = app
      PROVE  TokenMatchesCookie' /\ Gone'
  <2>1. access' = 0 /\ refresh' \in {0, refresh} /\ (app = "web" => refresh' = refresh)
    BY <1>2, <1>a DEF Kick
  <2>2. past \subseteq past' /\ ("signed out" \in past' => "signed out" \in past)
    <3> DEFINE t == req[r].tab
    <3>1. ASSUME Abandon(t, r, event \union {"kicked"})
          PROVE  past' \subseteq past \union event \union {"kicked", "lost"} /\ past \subseteq past'
      BY <3>1 DEF Abandon
    <3> HIDE DEF t
    <3>2. past' \subseteq past \union event \union {"kicked", "lost"} /\ past \subseteq past'
      BY <1>2, <3>1 DEF Kick, t
    <3> QED
      BY <1>2, <3>2
  <2> QED
    BY <1>1, <1>2, <2>1, <2>2
<1>3. ASSUME NEW r \in Request, NEW event, Reject(r, event), "signed out" \notin event, app' = app
      PROVE  TokenMatchesCookie' /\ Gone'
  <2>1. CASE req[r].kind = "logout"
    BY <1>3, <2>1 DEF Reject, SignOut, TokenMatchesCookie, Gone
  <2>2. CASE req[r].kind # "logout"
    <3>1. /\ UNCHANGED <<access, refresh>> /\ past' = past \union event
      BY <1>3, <2>2 DEF Reject
    <3> QED
      BY <1>1, <1>3, <3>1
  <2> QED
    BY <2>1, <2>2
<1>4. ASSUME NEW r \in Request, Heard(r), app' = app PROVE TokenMatchesCookie' /\ Gone'
  <2>1. CASE req[r].kind = "login"
    BY <1>4, <2>1 DEF Heard, TokenMatchesCookie, Gone
  <2>2. CASE req[r].kind = "logout"
    BY <1>4, <2>2 DEF Heard, SignOut, TokenMatchesCookie, Gone
  <2>3. CASE req[r].kind \notin {"login", "logout"}
    <3>1. UNCHANGED <<access, refresh, past>>
      BY <1>4, <2>3 DEF Heard, storage
    <3> QED
      BY <1>1, <1>4, <3>1
  <2> QED
    BY <2>1, <2>2, <2>3
<1>5. ASSUME NEW r \in Request, Renewed(r), app' = app PROVE TokenMatchesCookie' /\ Gone'
  <2>1. /\ access' = req[r].out /\ (app = "web" => refresh' = req[r].out)
        /\ "signed out" \in past => "late" \in past'
        /\ past \subseteq past' /\ ("signed out" \in past' => "signed out" \in past)
    BY <1>5 DEF Renewed, NextRefresh
  <2> QED
    BY <1>5, <2>1 DEF TokenMatchesCookie, Gone
<1>6. ASSUME NEW r \in Request, Progress(r) PROVE TokenMatchesCookie' /\ Gone'
  <2>1. CASE Serve(r) \/ ServeRefresh(r)
    BY <1>1, <2>1 DEF Serve, ServeRefresh, storage
  <2>2. CASE Receive(r)
    <3>1. app' = app /\ (\/ Heard(r) \/ Renew(r)
                         \/ \E event \in {{"refused"}, {"asleep"}} : Kick(r, event) \/ Reject(r, event))
      BY <2>2 DEF Receive
    <3>2. CASE Renew(r)
      BY <1>1, <3>1, <3>2 DEF Renew, storage
    <3> QED
      BY <1>2, <1>3, <1>4, <3>1, <3>2
  <2>3. CASE ReceiveRefresh(r)
    BY <1>2, <1>5, <2>3 DEF ReceiveRefresh
  <2>4. CASE Lose(r)
    BY <1>2, <1>3, <2>4 DEF Lose
  <2> QED
    BY <1>6, <2>1, <2>2, <2>3, <2>4 DEF Progress
<1>7. ASSUME NEW r \in Request, NEW t \in Tab, NEW kind \in Kind, Send(r, t, kind)
      PROVE  TokenMatchesCookie' /\ Gone'
  BY <1>1, <1>7 DEF Send, storage
<1>8. ASSUME NEW r \in Request, NEW t \in Tab, Reload(t, r) PROVE TokenMatchesCookie' /\ Gone'
  <2>1. past \subseteq past' /\ ("signed out" \in past' => "signed out" \in past)
    BY <1>8 DEF Reload, Abandon
  <2> QED
    BY <1>1, <1>8, <2>1 DEF Reload, storage
<1>9. ASSUME (\E t \in Tab : Navigate(t)) \/ Expire \/ UNCHANGED sessionVars
      PROVE  TokenMatchesCookie' /\ Gone'
  BY <1>1, <1>9 DEF Navigate, Expire, sessionVars, storage
<1> QED
  BY <1>6, <1>7, <1>8, <1>9 DEF SessionNext

---------------------------------------------------------------------------
(* Every pair is new when it is stored. *)

(* A request that keeps nobody's session waiting. *)
Plain(r) == ~Renewing(r) /\ ~Held(r) /\ (Busy(r) => req[r].kind # "logout")

LEMMA StillUndisturbed ==
    ASSUME app' = app, past \ {"signed out"} \subseteq past', Undisturbed'
    PROVE  Undisturbed
  BY DEF Undisturbed, Causes

(* Requests come, go and are answered without a pair being issued or stored. *)
LEMMA FreshKept ==
    ASSUME Fresh, Undisturbed' => Undisturbed,
           Undisturbed' =>
             /\ "kicked" \in past' => "kicked" \in past
             /\ refresh' = refresh /\ spent' = spent /\ issued' = issued
             /\ \A q \in Request :
                  req'[q] = req[q] \/ (Plain(q)' /\ req[q].phase # "refreshed")
    PROVE  Fresh'
<1> SUFFICES ASSUME Undisturbed' PROVE Fresh'
  BY DEF Fresh
<1>1. /\ "kicked" \notin past'
      /\ refresh' = refresh /\ spent' = spent /\ issued' = issued
  BY DEF Fresh
<1>2. \A q \in Request : /\ Held(q)' => Held(q) /\ req'[q] = req[q]
                         /\ Renewing(q)' => req'[q] = req[q]
                         /\ Busy(q)' => req'[q] = req[q] \/ req'[q].kind # "logout"
                         /\ req[q].phase = "refreshed" => req'[q] = req[q]
  BY DEF Plain, Held, Renewing, Busy
<1>3. \A q \in Request : Busy(q)' => req'[q].kind # "logout"
  BY <1>2 DEF Fresh, Busy
<1>4. \A r, q \in Request : Renewing(r)' /\ Renewing(q)' => r = q
  BY <1>2 DEF Fresh, Renewing
<1>5. \A q \in Request : req'[q].phase = "refreshing" =>
         req'[q].cred \in 1 .. issued' /\ req'[q].cred \notin spent'
  BY <1>1, <1>2 DEF Fresh, Renewing
<1>6. \A q \in Request : Held(q)' =>
         req'[q].out \in 1 .. issued' /\ req'[q].out \notin spent' /\ req'[q].out # refresh'
  BY <1>1, <1>2 DEF Fresh
<1>7. \A r, q \in Request : Held(r)' /\ Held(q)' /\ req'[r].out = req'[q].out => r = q
  BY <1>2 DEF Fresh
<1>8. \A r, q \in Request : Held(r)' /\ req'[q].phase = "refreshing" =>
         req'[r].out # req'[q].cred
  BY <1>2 DEF Fresh, Renewing
<1>9. refresh' \in 1 .. issued' /\ spent' \subseteq 1 .. issued'
  BY <1>1 DEF Fresh
<1>10. refresh' \in spent' => \E q \in Request : req'[q].phase = "refreshed"
  BY <1>1, <1>2 DEF Fresh
<1> QED
  BY <1>1, <1>3, <1>4, <1>5, <1>6, <1>7, <1>8, <1>9, <1>10 DEF Fresh

(* A pair that was on its way is stored. *)
LEMMA PairStored ==
    ASSUME Fresh, Undisturbed' => Undisturbed, NEW r \in Request, Held(r),
           "kicked" \in past' => "kicked" \in past, SessionTypeOK,
           refresh' = req[r].out, spent' = spent, issued' = issued,
           Plain(r)', \A q \in Request \ {r} : req'[q] = req[q]
    PROVE  Fresh'
<1> SUFFICES ASSUME Undisturbed' PROVE Fresh'
  BY DEF Fresh
<1>1. Undisturbed
  OBVIOUS
<1>2. /\ "kicked" \notin past'
      /\ req[r].out \in 1 .. issued /\ req[r].out \notin spent
      /\ spent \subseteq 1 .. issued
  BY <1>1 DEF Fresh
<1>3. \A q \in Request : /\ Held(q)' => q # r /\ Held(q) /\ req'[q] = req[q]
                         /\ Renewing(q)' => q # r /\ req'[q] = req[q]
                         /\ Busy(q)' => req'[q] = req[q] \/ req'[q].kind # "logout"
  BY DEF Plain, Held, Renewing, Busy
<1>4. \A q \in Request : Busy(q)' => req'[q].kind # "logout"
  BY <1>1, <1>3 DEF Fresh, Busy
<1>5. \A p, q \in Request : Renewing(p)' /\ Renewing(q)' => p = q
  BY <1>1, <1>3 DEF Fresh, Renewing
<1>6. \A q \in Request : req'[q].phase = "refreshing" =>
         req'[q].cred \in 1 .. issued' /\ req'[q].cred \notin spent'
  BY <1>1, <1>3 DEF Fresh, Renewing
<1>7. \A q \in Request : Held(q)' =>
         req'[q].out \in 1 .. issued' /\ req'[q].out \notin spent' /\ req'[q].out # refresh'
  BY <1>1, <1>3 DEF Fresh
<1>8. \A p, q \in Request : Held(p)' /\ Held(q)' /\ req'[p].out = req'[q].out => p = q
  BY <1>1, <1>3 DEF Fresh
<1>9. \A p, q \in Request : Held(p)' /\ req'[q].phase = "refreshing" =>
         req'[p].out # req'[q].cred
  BY <1>1, <1>3 DEF Fresh, Renewing
<1> QED
  BY <1>2, <1>4, <1>5, <1>6, <1>7, <1>8, <1>9 DEF Fresh

(* A pair is issued, for a login or for the token a renewal shows. *)
LEMMA PairIssued ==
    ASSUME Fresh, UNCHANGED <<app, past, refresh>>, NEW r \in Request, SessionTypeOK,
           Busy(r), ~Held(r), issued' = issued + 1,
           Busy(r)', req'[r].out = issued + 1, req'[r].kind = req[r].kind,
           req'[r].phase # "refreshing",
           Renewing(r)' <=> Renewing(r),
           \A q \in Request \ {r} : req'[q] = req[q],
           spent' = spent \union (IF req[r].phase = "refreshing" THEN {req[r].cred} ELSE {}),
           req[r].phase = "refreshing" => req'[r].phase = "refreshed",
           req[r].phase # "refreshed"
    PROVE  Fresh'
<1> DEFINE used == IF req[r].phase = "refreshing" THEN {req[r].cred} ELSE {}
<1>a. spent' = spent \union used
  OBVIOUS
<1>b. \A n \in used : req[r].phase = "refreshing" /\ n = req[r].cred
  OBVIOUS
<1> HIDE DEF used
<1> SUFFICES ASSUME Undisturbed PROVE Fresh'
  BY DEF Fresh, Undisturbed
<1>1. issued \in Nat
  BY SessionConstants DEF SessionTypeOK
<1>2. /\ "kicked" \notin past'
      /\ refresh \in 1 .. issued /\ spent \subseteq 1 .. issued /\ used \subseteq 1 .. issued
  BY <1>b DEF Fresh
<1>3. \A n \in 1 .. issued : n \in 1 .. issued' /\ n # issued + 1
  BY <1>1
<1>4. issued + 1 \in 1 .. issued' /\ issued + 1 \notin spent' /\ issued + 1 # refresh'
  BY <1>1, <1>2, <1>3, <1>a
<1>5. \A q \in Request : /\ Held(q)' /\ q # r => Held(q) /\ req'[q] = req[q]
                         /\ Busy(q)' => Busy(q) /\ req'[q].kind = req[q].kind
                         /\ Renewing(q)' => Renewing(q)
                         /\ req'[q].phase = "refreshing" =>
                              q # r /\ req[q].phase = "refreshing" /\ req'[q] = req[q]
  BY DEF Held, Renewing, Busy
<1>6. \A q \in Request : Busy(q)' => req'[q].kind # "logout"
  BY <1>5 DEF Fresh
<1>7. \A p, q \in Request : Renewing(p)' /\ Renewing(q)' => p = q
  BY <1>5 DEF Fresh
<1>8. \A q \in Request : req'[q].phase = "refreshing" =>
         req[q].cred \in 1 .. issued /\ req'[q].cred = req[q].cred /\ req'[q].cred \notin spent'
  <2> SUFFICES ASSUME NEW q \in Request, req'[q].phase = "refreshing"
               PROVE  req[q].cred \in 1 .. issued /\ req'[q].cred = req[q].cred /\ req'[q].cred \notin spent'
    OBVIOUS
  <2>1. q # r /\ req[q].phase = "refreshing" /\ req'[q] = req[q]
    BY <1>5
  <2>2. used = {}
    BY <1>b, <2>1 DEF Fresh, Renewing
  <2> QED
    BY <1>a, <2>1, <2>2 DEF Fresh
<1>9. \A q \in Request : Held(q)' /\ q # r =>
         /\ req'[q].out = req[q].out /\ req[q].out \in 1 .. issued
         /\ req'[q].out \notin spent' /\ req'[q].out # refresh'
  BY <1>5, <1>a, <1>b DEF Fresh
<1>10. \A q \in Request : Held(q)' =>
         req'[q].out \in 1 .. issued' /\ req'[q].out \notin spent' /\ req'[q].out # refresh'
  BY <1>3, <1>4, <1>9
<1>11. \A p, q \in Request : Held(p)' /\ Held(q)' /\ req'[p].out = req'[q].out => p = q
  <2>1. \A p, q \in Request : Held(p)' /\ Held(q)' /\ req'[p].out = req'[q].out /\ p # r /\ q # r => p = q
    BY <1>5 DEF Fresh
  <2>2. \A q \in Request : Held(q)' /\ q # r => req'[q].out # req'[r].out
    BY <1>3, <1>9
  <2> QED
    BY <2>1, <2>2
<1>12. \A p, q \in Request : Held(p)' /\ req'[q].phase = "refreshing" =>
         req'[p].out # req'[q].cred
  <2>1. \A p, q \in Request : Held(p)' /\ p # r /\ req'[q].phase = "refreshing" =>
         req'[p].out # req'[q].cred
    BY <1>5 DEF Fresh
  <2>2. \A q \in Request : req'[q].phase = "refreshing" => req'[r].out # req'[q].cred
    BY <1>3, <1>8
  <2> QED
    BY <2>1, <2>2
<1>13. refresh' \in spent' => \E q \in Request : req'[q].phase = "refreshed"
  <2>1. CASE refresh \in used
    BY <2>1, <1>b
  <2>2. CASE refresh \in spent
    BY <2>2 DEF Fresh
  <2> QED
    BY <1>a, <2>1, <2>2
<1>14. refresh' \in 1 .. issued' /\ spent' \subseteq 1 .. issued'
  BY <1>2, <1>3, <1>a
<1>15. \A q \in Request : req'[q].phase = "refreshing" =>
         req'[q].cred \in 1 .. issued' /\ req'[q].cred \notin spent'
  BY <1>3, <1>8
<1> QED
  BY <1>2, <1>6, <1>7, <1>10, <1>11, <1>12, <1>13, <1>14, <1>15 DEF Fresh

(* Whoever is thrown out for a cause has been disturbed. *)
LEMMA KickDisturbs ==
    ASSUME NEW r \in Request, NEW event, Kick(r, event), app' = app,
           event \intersect Causes # {} \/ ~Undisturbed
    PROVE  ~Undisturbed'
<1> DEFINE t == req[r].tab
<1>1. ASSUME Abandon(t, r, event \union {"kicked"})
      PROVE  past \union event \subseteq past'
  BY <1>1 DEF Abandon
<1> HIDE DEF t
<1>2. past \union event \subseteq past'
  BY <1>1 DEF Kick, t
<1> QED
  BY <1>2 DEF Undisturbed, Causes

LEMMA RejectKeepsFresh ==
    ASSUME SessionTypeOK, Fresh, NEW r \in Request, Reject(r, {}), Busy(r), ~Renewing(r), app' = app,
           issued' = issued
    PROVE  Fresh'
<1>1. /\ req' = [req EXCEPT ![r] = Idle] /\ past \subseteq past' /\ spent' = spent
      /\ req[r].kind # "logout" => past' = past /\ refresh' = refresh
  BY DEF Reject, Settle
<1>2. Undisturbed' => Undisturbed
  BY <1>1, StillUndisturbed
<1>3. CASE req[r].kind = "logout"
  BY <1>2, <1>3 DEF Fresh
<1>4. CASE req[r].kind # "logout"
  <2>1. Plain(r)' /\ req[r].phase # "refreshed"
    BY <1>1 DEF Plain, Renewing, Held, Busy, Idle, SessionTypeOK
  <2>2. \A q \in Request : q # r => req'[q] = req[q]
    BY <1>1 DEF SessionTypeOK
  <2> QED
    BY <1>1, <1>2, <1>4, <2>1, <2>2, FreshKept
<1> QED
  BY <1>3, <1>4

LEMMA HeardKeepsFresh ==
    ASSUME SessionTypeOK, Fresh, NEW r \in Request, req[r].phase = "answered",
           req[r].out # 0, Heard(r), app' = app, issued' = issued
    PROVE  Fresh'
<1>1. /\ past \ {"signed out"} \subseteq past' /\ past' \subseteq past \union {"signed out"}
      /\ spent' = spent
  BY RequestFields DEF Heard, Busy, Kind
<1>2. Undisturbed' => Undisturbed
  BY <1>1, StillUndisturbed
<1>3. req[r] \in InFlight /\ req[r].kind \in Kind
  BY RequestFields DEF Busy
<1>4. CASE req[r].kind = "login"
  <2>1. /\ refresh' = req[r].out
        /\ req' = [req EXCEPT ![r] = [@ EXCEPT !.phase = "sent", !.kind = "enter", !.retry = FALSE,
                                             !.cred = req[r].out, !.out = 0]]
    BY <1>4 DEF Heard
  <2>2. Held(r) /\ Plain(r)' /\ \A q \in Request \ {r} : req'[q] = req[q]
    BY <1>3, <1>4, <2>1 DEF Held, Plain, Renewing, Busy, SessionTypeOK, InFlight
  <2> QED
    BY <1>1, <1>2, <2>1, <2>2, PairStored
<1>5. CASE req[r].kind = "logout"
  BY <1>2, <1>5 DEF Fresh, Busy
<1>6. CASE req[r].kind \in {"call", "me", "enter"}
  <2>1. req' = [req EXCEPT ![r] = Idle] /\ refresh' = refresh
    BY <1>6 DEF Heard, Settle, storage
  <2>2. Plain(r)' /\ req[r].phase # "refreshed" /\ \A q \in Request \ {r} : req'[q] = req[q]
    BY <2>1 DEF Held, Plain, Renewing, Busy, SessionTypeOK, Idle
  <2> QED
    BY <1>1, <1>2, <2>1, <2>2, FreshKept
<1> QED
  BY <1>3, <1>4, <1>5, <1>6 DEF Kind

(* A second renewal at once disturbs; the only one shows a token not spent. *)
LEMMA RenewKeepsFresh ==
    ASSUME SessionTypeOK, Fresh, NEW r \in Request, req[r].phase = "answered",
           req[r].out = 0, Renew(r), app' = app, issued' = issued
    PROVE  Fresh'
<1> SUFFICES ASSUME Undisturbed' PROVE Fresh'
  BY DEF Fresh
<1>1. /\ req' = [req EXCEPT ![r] = [@ EXCEPT !.phase = "refreshing", !.retry = TRUE,
                                   !.cred = refresh, !.out = 0]]
      /\ past \subseteq past' /\ past' \subseteq past \union {"overlap"}
      /\ refresh' = refresh /\ spent' = spent
      /\ (\E q \in Request \ {r} : Renewing(q)) => "overlap" \in past'
  BY DEF Renew, storage
<1>2. Undisturbed
  BY <1>1, StillUndisturbed
<1>3. \A q \in Request \ {r} : ~Renewing(q)
  BY <1>1 DEF Undisturbed, Causes
<1>4. /\ "kicked" \notin past /\ refresh \in 1 .. issued /\ spent \subseteq 1 .. issued
      /\ refresh \notin spent
  BY <1>2, <1>3 DEF Fresh, Renewing
<1>5. /\ req[r] \in InFlight /\ req[r].kind # "logout" /\ ~Held(r)
  BY <1>2, RequestFields DEF Fresh, Busy, Held
<1>6. /\ req'[r].phase = "refreshing" /\ req'[r].cred = refresh /\ req'[r].kind = req[r].kind
      /\ \A q \in Request \ {r} : req'[q] = req[q]
  BY <1>1, <1>5 DEF SessionTypeOK, InFlight
<1>7. \A q \in Request : Held(q)' => q # r /\ Held(q) /\ req'[q] = req[q]
  BY <1>6 DEF Held
<1>8. \A q \in Request : Renewing(q)' => q = r
  BY <1>3, <1>6 DEF Renewing
<1>9. \A q \in Request : Busy(q)' => req'[q].kind # "logout"
  BY <1>2, <1>5, <1>6 DEF Fresh, Busy
<1>10. \A q \in Request : req'[q].phase = "refreshing" => q = r
  BY <1>8 DEF Renewing
<1>11. \A q \in Request : Held(q)' =>
         req'[q].out \in 1 .. issued' /\ req'[q].out \notin spent' /\ req'[q].out # refresh'
  BY <1>1, <1>2, <1>7 DEF Fresh
<1>12. \A p, q \in Request : Held(p)' /\ Held(q)' /\ req'[p].out = req'[q].out => p = q
  BY <1>2, <1>7 DEF Fresh
<1>13. \A p, q \in Request : Held(p)' /\ req'[q].phase = "refreshing" =>
         req'[p].out # req'[q].cred
  BY <1>1, <1>6, <1>10, <1>11
<1>14. "kicked" \notin past'
  BY <1>1, <1>4
<1>15. \A q \in Request : req'[q].phase = "refreshing" =>
         req'[q].cred \in 1 .. issued' /\ req'[q].cred \notin spent'
  BY <1>1, <1>4, <1>6, <1>10
<1> QED
  BY <1>1, <1>4, <1>8, <1>9, <1>11, <1>12, <1>13, <1>14, <1>15 DEF Fresh

LEMMA ServeKeepsFresh ==
    ASSUME SessionTypeOK, Fresh, NEW r \in Request, Serve(r)
    PROVE  Fresh'
<1>1. /\ req[r].phase = "sent" /\ Busy(r) /\ ~Held(r) /\ ~Renewing(r)
      /\ UNCHANGED <<app, past, refresh>>
  BY DEF Serve, Busy, Held, Renewing, storage
<1>2. req[r] \in InFlight
  BY <1>1, RequestFields
<1>3. CASE req[r].kind = "logout" /\ Busy(r)
  BY <1>1, <1>3 DEF Fresh, Undisturbed
<1>4. CASE req[r].kind = "login" /\ Reply(r, issued + 1) /\ issued' = issued + 1
  <2>1. spent' = spent
    BY <1>4 DEF Serve
  <2>2. /\ req'[r].phase = "answered" /\ req'[r].out = issued + 1 /\ req'[r].kind = req[r].kind
        /\ \A q \in Request \ {r} : req'[q] = req[q]
    BY <1>2, <1>4 DEF Reply, InFlight, SessionTypeOK
  <2>3. Busy(r)' /\ ~Renewing(r)'
    BY <2>2 DEF Busy, Renewing
  <2> QED
    BY <1>1, <1>4, <2>1, <2>2, <2>3, PairIssued
<1>5. ASSUME NEW n \in {0, 1}, Reply(r, n), issued' = issued, spent' = spent,
             req[r].kind = "login" => n = 0, req[r].kind # "logout"
      PROVE  Fresh'
  <2>1. /\ req'[r].phase = "answered" /\ req'[r].out = n /\ req'[r].kind = req[r].kind
        /\ \A q \in Request \ {r} : req'[q] = req[q]
    BY <1>2, <1>5 DEF Reply, InFlight, SessionTypeOK
  <2>2. Plain(r)'
    BY <1>5, <2>1 DEF Plain, Held, Renewing
  <2> QED
    BY <1>1, <1>5, <2>1, <2>2, FreshKept DEF Undisturbed
<1> QED
  <2>1. CASE req[r].kind = "login"
    BY <1>4, <1>5, <2>1 DEF Serve
  <2>2. CASE req[r].kind \notin {"login", "logout"}
    <3>1. /\ issued' = issued /\ spent' = spent
          /\ Reply(r, IF Accepts(req[r].cred) THEN 1 ELSE 0)
      BY <2>2 DEF Serve
    <3>2. (IF Accepts(req[r].cred) THEN 1 ELSE 0) \in {0, 1}
      OBVIOUS
    <3> QED
      BY <1>5, <2>2, <3>1, <3>2
  <2> QED
    BY <1>1, <1>3, <2>1, <2>2

LEMMA ServeRefreshKeepsFresh ==
    ASSUME SessionTypeOK, Fresh, NEW r \in Request, ServeRefresh(r)
    PROVE  Fresh'
<1>1. /\ req[r].phase = "refreshing" /\ Busy(r) /\ ~Held(r) /\ Renewing(r)
      /\ UNCHANGED <<app, past, refresh>>
  BY DEF ServeRefresh, Busy, Held, Renewing, storage
<1>2. req[r] \in InFlight
  BY <1>1, RequestFields
<1>3. CASE Renewable(req[r].cred)
  <2>1. /\ issued' = issued + 1 /\ spent' = spent \union {req[r].cred}
        /\ req' = [req EXCEPT ![r].phase = "refreshed", ![r].out = issued + 1]
    BY <1>3 DEF ServeRefresh
  <2>2. /\ req'[r].phase = "refreshed" /\ req'[r].out = issued + 1 /\ req'[r].kind = req[r].kind
        /\ \A q \in Request \ {r} : req'[q] = req[q]
    BY <1>2, <2>1 DEF InFlight, SessionTypeOK
  <2>3. Busy(r)' /\ Renewing(r)'
    BY <2>2 DEF Busy, Renewing
  <2> QED
    BY <1>1, <2>1, <2>2, <2>3, PairIssued
<1>4. CASE ~Renewable(req[r].cred)
  <2>1. ~Undisturbed
    <3>1. ASSUME Undisturbed PROVE FALSE
      <4>1. req[r].cred \in 1 .. issued /\ req[r].cred \notin spent
        BY <1>1, <3>1 DEF Fresh
      <4>2. issued \in Nat
        BY SessionConstants DEF SessionTypeOK
      <4> QED
        BY <1>4, <4>1, <4>2 DEF Renewable
    <3> QED
      BY <3>1
  <2> QED
    BY <1>1, <2>1 DEF Fresh, Undisturbed
<1> QED
  BY <1>3, <1>4

LEMMA RenewedKeepsFresh ==
    ASSUME SessionTypeOK, Fresh, NEW r \in Request, ReceiveRefresh(r)
    PROVE  Fresh'
<1>1. /\ req[r].phase = "refreshed" /\ Held(r) /\ Busy(r)
      /\ app' = app /\ issued' = issued
  BY DEF ReceiveRefresh, Held, Busy
<1>2. req[r] \in InFlight /\ app \in {"web", "mini"}
  BY <1>1, RequestFields, SessionConstants DEF SessionTypeOK
<1>3. CASE Renewed(r)
  <2>1. /\ req' = [req EXCEPT ![r] = [@ EXCEPT !.phase = "sent", !.cred = req[r].out, !.out = 0]]
        /\ spent' = spent /\ past \subseteq past' /\ past' \subseteq past \union {"late", "renewed"}
        /\ app = "web" => refresh' = req[r].out
        /\ app = "mini" => "renewed" \in past'
    BY <1>3 DEF Renewed, NextRefresh
  <2>2. Undisturbed' => Undisturbed
    BY <1>1, <2>1, StillUndisturbed
  <2>3. CASE app = "mini"
    BY <1>1, <2>1, <2>3 DEF Fresh, Undisturbed
  <2>4. CASE app = "web" /\ Undisturbed
    <3>1. req[r].kind # "logout"
      BY <1>1, <2>4 DEF Fresh
    <3>2. Plain(r)' /\ \A q \in Request \ {r} : req'[q] = req[q]
      BY <1>2, <2>1, <3>1 DEF Plain, Held, Renewing, Busy, InFlight, SessionTypeOK
    <3> QED
      BY <1>1, <2>1, <2>2, <2>4, <3>2, PairStored
  <2>5. CASE ~Undisturbed
    BY <2>2, <2>5 DEF Fresh
  <2> QED
    BY <1>2, <2>3, <2>4, <2>5
<1>4. CASE req[r].out = 0 /\ Kick(r, {})
  <2>1. ~Undisturbed
    <3>1. issued \in Nat
      BY SessionConstants DEF SessionTypeOK
    <3>2. Undisturbed => req[r].out \in 1 .. issued
      BY <1>1 DEF Fresh
    <3> QED
      BY <1>4, <3>1, <3>2
  <2>2. ~Undisturbed'
    BY <1>1, <1>4, <2>1, KickDisturbs
  <2> QED
    BY <2>2 DEF Fresh
<1> QED
  BY <1>3, <1>4 DEF ReceiveRefresh

LEMMA ReceiveKeepsFresh ==
    ASSUME SessionTypeOK, Fresh, NEW r \in Request, Receive(r)
    PROVE  Fresh'
<1>1. req[r].phase = "answered" /\ app' = app /\ issued' = issued
  BY DEF Receive
<1>2. CASE req[r].out # 0 /\ Heard(r)
  BY <1>1, <1>2, HeardKeepsFresh
<1>3. CASE req[r].out = 0 /\ Renew(r)
  BY <1>1, <1>3, RenewKeepsFresh
<1>4. ASSUME NEW event \in {{"refused"}, {"asleep"}}, Kick(r, event) \/ Reject(r, event)
      PROVE  Fresh'
  <2>1. event \intersect Causes # {}
    BY <1>4 DEF Causes
  <2>2. ASSUME Reject(r, event) PROVE event \subseteq past'
    BY <2>2 DEF Reject
  <2>3. ~Undisturbed'
    BY <1>1, <1>4, <2>1, <2>2, KickDisturbs DEF Undisturbed
  <2> QED
    BY <2>3 DEF Fresh
<1> QED
  BY <1>2, <1>3, <1>4 DEF Receive

LEMMA LoseKeepsFresh ==
    ASSUME SessionTypeOK, Fresh, NEW r \in Request, Lose(r)
    PROVE  Fresh'
<1>1. Busy(r) /\ app' = app /\ issued' = issued
  BY DEF Lose
<1>2. CASE Kick(r, {"lost"})
  <2>1. ~Undisturbed'
    BY <1>1, <1>2, KickDisturbs DEF Causes
  <2> QED
    BY <2>1 DEF Fresh
<1>3. CASE ~Renewing(r) /\ Reject(r, {})
  BY <1>1, <1>3, RejectKeepsFresh
<1> QED
  BY <1>2, <1>3 DEF Lose

(* A page that is loaded drops its requests; a renewal among them disturbs. *)
LEMMA ReloadKeepsFresh ==
    ASSUME SessionTypeOK, Fresh, NEW r \in Request, NEW t \in Tab, Reload(t, r)
    PROVE  Fresh'
<1> DEFINE renewals == {q \in Dropped(t) \ {r} : Renewing(q)}
           unserved == {req[q].cred : q \in {p \in renewals : req[p].phase = "refreshing"}}
<1>1. /\ ~Busy(r) /\ app' = app /\ issued' = issued /\ refresh' = refresh
      /\ Load(t, r, access) /\ Abandon(t, r, {})
  BY DEF Reload, storage
<1>2. PICK s \in SUBSET (unserved \ {0}) :
         /\ spent' = spent \union s
         /\ past' = past \union {} \union (IF renewals # {} THEN {"lost"} ELSE {})
  BY <1>1 DEF Abandon
<1>3. Undisturbed' => Undisturbed
  BY <1>1, <1>2, StillUndisturbed
<1>4. ASSUME Undisturbed' PROVE spent' = spent /\ past' = past /\ renewals = {}
  <2>1. renewals = {}
    BY <1>2, <1>4 DEF Undisturbed, Causes
  <2>2. unserved = {}
    BY <2>1
  <2> QED
    BY <1>2, <2>1, <2>2
<1>5. /\ req'[r] \in {Asked(t, "me", FALSE, access), Asked(t, "login", FALSE, access)}
      /\ \A q \in Request \ {r} : req'[q] = IF q \in Dropped(t) THEN Idle ELSE req[q]
  BY <1>1 DEF Load
<1>6. Plain(r)' /\ req[r].phase # "refreshed"
  BY <1>1, <1>5 DEF Plain, Renewing, Held, Busy, Asked
<1>7. ASSUME Undisturbed', NEW q \in Request \ {r}
      PROVE  req'[q] = req[q] \/ (Plain(q)' /\ req[q].phase # "refreshed")
  <2>1. CASE q \notin Dropped(t)
    BY <1>5, <2>1
  <2>2. CASE q \in Dropped(t)
    <3>1. ~Renewing(q)
      BY <1>4, <1>7, <2>2
    <3>2. req'[q] = Idle
      BY <1>5, <2>2
    <3> QED
      BY <3>1, <3>2 DEF Plain, Renewing, Held, Busy, Idle
  <2> QED
    BY <2>1, <2>2
<1> HIDE DEF renewals, unserved
<1> QED
  BY <1>1, <1>3, <1>4, <1>6, <1>7, FreshKept

LEMMA SendKeepsFresh ==
    ASSUME SessionTypeOK, Fresh, NEW r \in Request, NEW t \in Tab, NEW kind \in Kind,
           Send(r, t, kind)
    PROVE  Fresh'
<1>1. /\ ~Busy(r) /\ req' = [req EXCEPT ![r] = Asked(t, kind, FALSE, access)]
      /\ past \subseteq past' /\ past' \subseteq past \union {"logout"}
      /\ kind = "logout" => "logout" \in past'
      /\ app' = app /\ refresh' = refresh /\ issued' = issued /\ spent' = spent
  BY DEF Send, storage, server
<1>2. Undisturbed' => Undisturbed
  BY <1>1, StillUndisturbed
<1>3. CASE kind = "logout"
  BY <1>1, <1>3 DEF Fresh, Undisturbed, Causes
<1>4. CASE kind # "logout"
  <2>1. req'[r] = Asked(t, kind, FALSE, access) /\ \A q \in Request \ {r} : req'[q] = req[q]
    BY <1>1 DEF SessionTypeOK
  <2>2. Plain(r)' /\ req[r].phase # "refreshed"
    BY <1>1, <1>4, <2>1 DEF Plain, Renewing, Held, Busy, Asked
  <2> QED
    BY <1>1, <1>2, <2>1, <2>2, FreshKept
<1> QED
  BY <1>3, <1>4

LEMMA SessionNextHolds == SessionInv /\ [SessionNext]_sessionVars => SessionInv'
<1> SUFFICES ASSUME SessionInv, [SessionNext]_sessionVars PROVE SessionInv'
  OBVIOUS
<1>0. SessionTypeOK /\ TokenMatchesCookie /\ Gone /\ Fresh
  BY DEF SessionInv
<1>1. ASSUME NEW r \in Request, Progress(r) PROVE Fresh'
  BY <1>0, <1>1, ServeKeepsFresh, ServeRefreshKeepsFresh, ReceiveKeepsFresh,
     RenewedKeepsFresh, LoseKeepsFresh DEF Progress
<1>2. ASSUME (\E t \in Tab : Navigate(t)) \/ Expire \/ UNCHANGED sessionVars PROVE Fresh'
  <2>1. UNCHANGED <<app, past, refresh, spent, issued, req>>
    BY <1>2 DEF Navigate, Expire, sessionVars, storage, server
  <2> QED
    BY <1>0, <2>1, FreshKept DEF Undisturbed
<1>3. Fresh'
  BY <1>0, <1>1, <1>2, SendKeepsFresh, ReloadKeepsFresh DEF SessionNext
<1> QED
  BY <1>0, <1>3, SessionTypesKept, TokensKept DEF SessionInv

LEMMA SessionInvSound == SessionInv => SessionSound
<1> SUFFICES ASSUME SessionInv PROVE SessionSound
  OBVIOUS
<1>1. SessionTypeOK /\ TokenMatchesCookie
  BY DEF SessionInv
<1>2. KickedOutHasCause
  BY DEF SessionInv, Fresh, Undisturbed, Causes, KickedOutHasCause
<1>3. SignOutEndsSession
  <2> SUFFICES ASSUME access = 0, refresh = 0 PROVE ~HoldsCredentials
    BY DEF SessionInv, Gone, SignOutEndsSession
  <2>1. expired \in Nat
    BY SessionConstants DEF SessionInv, SessionTypeOK
  <2> QED
    BY <2>1 DEF HoldsCredentials, Accepts, Credential, Renewable
<1> QED
  BY <1>1, <1>2, <1>3 DEF SessionSound

(* Nobody is thrown out of a live session without one of the causes named,  *)
(* nobody who signed out stays signed in, and no halves of two pairs are     *)
(* kept: for any number of tabs, requests and pairs of tokens.                *)
THEOREM SessionStaysSound == SessionSpec => []SessionSound
<1>1. SessionSpec => []SessionInv
  BY SessionInitHolds, SessionNextHolds, PTL DEF SessionSpec
<1> QED
  BY <1>1, SessionInvSound, PTL

---------------------------------------------------------------------------
(* The chat of a user. *)

LEMMA WorkFields ==
    ASSUME TelegramTypeOK, NEW w \in DOMAIN works, works[w] # Rest
    PROVE  /\ w \in 1 .. Works /\ works[w] \in Work
           /\ works[w].at \in {"sent", "unfound", "loaded", "copy", "told"}
           /\ works[w].what \in {"link", "auth", "unlink", "tell"}
           /\ works[w].who \in Account /\ works[w].chat \in Chat \union {NoChat}
           /\ works[w].seen \in Chat \union {NoChat, Unborn}
  BY DEF TelegramTypeOK, Work

LEMMA NotResting ==
    ASSUME NEW w, works[w].at \in {"sent", "unfound", "loaded", "copy", "told"}
    PROVE  works[w] # Rest
  BY DEF Rest

LEMMA WorkUpdated ==
    ASSUME NEW q \in Work, NEW u \in Account, NEW c \in Chat \union {NoChat},
           NEW s \in Chat \union {NoChat, Unborn}
    PROVE  /\ [q EXCEPT !.at = "copy", !.who = u] \in Work
           /\ [q EXCEPT !.at = "unfound"] \in Work
           /\ [q EXCEPT !.at = "copy"] \in Work
           /\ [q EXCEPT !.at = "loaded", !.seen = s] \in Work
           /\ [q EXCEPT !.at = "told", !.chat = c] \in Work
  BY DEF Work

(* An operation goes on: what is written stays as it was, and what was due    *)
(* to be written is, unless this operation wrote it.                           *)
LEMMA GoesOn ==
    ASSUME TelegramTypeOK, NEW w \in DOMAIN works, NEW q \in Work \union {Rest}, Goes(w, q)
    PROVE  /\ works' \in [1 .. Works -> Work \union {Rest}]
           /\ works'[w] = q /\ \A v \in DOMAIN works \ {w} : works'[v] = works[v]
           /\ DOMAIN works' = DOMAIN works
           /\ \A u \in Account : CopyDue(u) /\ (works[w].at # "copy" \/ works[w].who # u)
                                   => CopyDue(u)'
           /\ \A u \in Account : q.at = "copy" /\ q.who = u => CopyDue(u)'
<1>1. works' = [works EXCEPT ![w] = q] /\ works \in [1 .. Works -> Work \union {Rest}]
  BY DEF Goes, TelegramTypeOK
<1>2. /\ works' \in [1 .. Works -> Work \union {Rest}]
      /\ works'[w] = q /\ \A v \in DOMAIN works \ {w} : works'[v] = works[v]
      /\ DOMAIN works' = DOMAIN works
  BY <1>1
<1>3. ASSUME NEW u \in Account, CopyDue(u), works[w].at # "copy" \/ works[w].who # u
      PROVE  CopyDue(u)'
  BY <1>2, <1>3 DEF CopyDue
<1>4. ASSUME NEW u \in Account, q.at = "copy", q.who = u PROVE CopyDue(u)'
  BY <1>2, <1>4 DEF CopyDue
<1> QED
  BY <1>2, <1>3, <1>4

LEMMA BindingInitHolds == TelegramInit => BindingSound
<1> SUFFICES ASSUME TelegramInit PROVE BindingSound
  OBVIOUS
<1>1. TelegramTypeOK
  BY TelegramLinkAssumption DEF TelegramInit, TelegramTypeOK
<1>2. RightChat /\ MuteForAReason
  BY TelegramLinkAssumption DEF TelegramInit, RightChat, MuteForAReason
<1> QED
  BY <1>1, <1>2 DEF BindingSound

(* A step that only moves an operation on, without writing. *)
LEMMA MovedOn ==
    ASSUME BindingSound, NEW w \in DOMAIN works, NEW q \in Work \union {Rest}, Goes(w, q),
           works[w].at # "copy", UNCHANGED <<telegram, copied, blockers, started, crashes, because>>
    PROVE  BindingSound'
<1>1. /\ works' \in [1 .. Works -> Work \union {Rest}]
      /\ \A u \in Account : CopyDue(u) => CopyDue(u)'
  BY GoesOn DEF BindingSound
<1>2. TelegramTypeOK'
  BY <1>1 DEF BindingSound, TelegramTypeOK
<1>3. RightChat' /\ MuteForAReason'
  BY <1>1 DEF BindingSound, RightChat, MuteForAReason
<1> QED
  BY <1>2, <1>3 DEF BindingSound

LEMMA BindingNextHolds == BindingSound /\ [TelegramNext]_linkVars => BindingSound'
<1> SUFFICES ASSUME BindingSound, [TelegramNext]_linkVars PROVE BindingSound'
  OBVIOUS
<1>0. TelegramTypeOK /\ RightChat /\ MuteForAReason
  BY DEF BindingSound
<1>t. /\ telegram \in [Account -> Chat \union {NoChat, Unborn}]
      /\ copied \in [Account -> Chat \union {NoChat}] /\ blockers \subseteq Chat
      /\ works \in [1 .. Works -> Work \union {Rest}]
      /\ started \in 0 .. MaxWorks /\ crashes \in 0 .. MaxCrashes
      /\ because \in [Account -> SUBSET {"died", "late", "expired", "blocked"}]
      /\ \A u, v \in Account : telegram[u] = telegram[v] /\ telegram[u] \in Chat => u = v
  BY <1>0 DEF TelegramTypeOK
<1>c. /\ MaxWorks \in Nat /\ MaxCrashes \in Nat
      /\ NoChat \notin Chat /\ Unborn \notin Chat /\ NoChat # Unborn
  BY TelegramLinkAssumption
<1>1. ASSUME NEW what \in {"link", "auth", "unlink", "tell"}, NEW u \in Account,
             NEW c \in Chat \union {NoChat}, Start(what, u, c)
      PROVE  BindingSound'
  <2> DEFINE q == [at |-> "sent", what |-> what, who |-> u, chat |-> c, seen |-> NoChat]
  <2>1. PICK w \in DOMAIN works : works[w] = Rest /\ works' = [works EXCEPT ![w] = q]
    BY <1>1 DEF Start
  <2>2. q \in Work
    BY DEF Work
  <2> HIDE DEF q
  <2>3. /\ works' \in [1 .. Works -> Work \union {Rest}]
        /\ \A v \in Account : CopyDue(v) => CopyDue(v)'
    <3>1. works[w].at # "copy"
      BY <2>1 DEF Rest
    <3>2. Goes(w, q)
      BY <2>1 DEF Goes
    <3> QED
      BY <1>0, <2>2, <3>1, <3>2, GoesOn
  <2>4. started' \in 0 .. MaxWorks
    BY <1>1, <1>t, <1>c DEF Start
  <2>5. UNCHANGED <<telegram, copied, blockers, crashes, because>>
    BY <1>1 DEF Start
  <2>6. TelegramTypeOK'
    BY <1>t, <2>3, <2>4, <2>5 DEF TelegramTypeOK
  <2>7. RightChat' /\ MuteForAReason'
    BY <1>0, <2>3, <2>5 DEF RightChat, MuteForAReason
  <2> QED
    BY <2>6, <2>7 DEF BindingSound
<1>2. CASE Begins
  BY <1>1, <1>2 DEF Begins, AnyAccount
<1>3. ASSUME NEW w \in DOMAIN works, FindByChat(w) PROVE BindingSound'
  <2>0. works[w].at = "sent"
    BY <1>3 DEF FindByChat
  <2>1. works[w] # Rest /\ works[w] \in Work /\ works[w].at # "copy"
    BY <1>0, <2>0, NotResting, WorkFields
  <2>2. \E q \in Work \union {Rest} : Goes(w, q)
    <3>1. \A u \in Account : [works[w] EXCEPT !.at = "copy", !.who = u] \in Work
      BY <2>1, WorkUpdated
    <3>2. [works[w] EXCEPT !.at = "unfound"] \in Work
      BY <2>1, WorkUpdated, <1>0, WorkFields
    <3>3. \/ \E u \in Account : Goes(w, [works[w] EXCEPT !.at = "copy", !.who = u])
          \/ Goes(w, [works[w] EXCEPT !.at = "unfound"]) \/ Goes(w, Rest)
      BY <1>3 DEF FindByChat, Owner
    <3> QED
      BY <3>1, <3>2, <3>3
  <2> QED
    BY <1>3, <2>1, <2>2, MovedOn DEF FindByChat
<1>4. ASSUME NEW w \in DOMAIN works, LoadUser(w) PROVE BindingSound'
  <2>1. works[w] # Rest /\ works[w] \in Work /\ works[w].at # "copy" /\ works[w].who \in Account
    BY <1>0, <1>4, NotResting, WorkFields DEF LoadUser
  <2>2. telegram[works[w].who] \in Chat \union {NoChat, Unborn}
    BY <1>t, <2>1
  <2>3. [works[w] EXCEPT !.at = "loaded", !.seen = telegram[works[w].who]] \in Work
    BY <2>1, <2>2, WorkUpdated
  <2> QED
    BY <1>4, <2>1, <2>3, MovedOn DEF LoadUser
<1>5. ASSUME NEW w \in DOMAIN works, CommitLink(w) PROVE BindingSound'
  <2> DEFINE q == works[w]
  <2>1. /\ q # Rest /\ q \in Work /\ q.at = "loaded" /\ q.who \in Account
        /\ q.chat \in Chat \union {NoChat}
    BY <1>0, <1>5, NotResting, WorkFields DEF CommitLink
  <2>2. UNCHANGED <<copied, blockers, started, crashes, because>>
    BY <1>5 DEF CommitLink
  <2>3. CASE Breaks(q)
    BY <1>5, <2>1, <2>2, <2>3, MovedOn DEF CommitLink
  <2>4. CASE ~Breaks(q)
    <3>1. /\ telegram' = IF q.seen = q.chat THEN telegram ELSE [telegram EXCEPT ![q.who] = q.chat]
          /\ Goes(w, [q EXCEPT !.at = "copy"])
      BY <1>5, <2>4 DEF CommitLink
    <3>2. /\ [q EXCEPT !.at = "copy"] \in Work
          /\ [q EXCEPT !.at = "copy"].at = "copy" /\ [q EXCEPT !.at = "copy"].who = q.who
      <4>1. [q EXCEPT !.at = "copy"] \in Work
        BY <2>1, WorkUpdated
      <4>2. [q EXCEPT !.at = "copy"].at = "copy" /\ [q EXCEPT !.at = "copy"].who = q.who
        BY <2>1 DEF Work
      <4> QED BY <4>1, <4>2
    <3>3. /\ works' \in [1 .. Works -> Work \union {Rest}]
          /\ \A u \in Account : CopyDue(u) => CopyDue(u)'
          /\ \A u \in Account : u = q.who => CopyDue(u)'
      BY <1>0, <2>1, <3>1, <3>2, GoesOn
    <3>4. /\ telegram' \in [Account -> Chat \union {NoChat, Unborn}]
          /\ \A u \in Account \ {q.who} : telegram'[u] = telegram[u]
          /\ telegram'[q.who] \in {telegram[q.who], q.chat}
      BY <1>t, <2>1, <3>1
    <3>5. \A u \in Account \ {q.who} : q.chat # NoChat => telegram[u] # q.chat
      BY <2>4 DEF Breaks, Owner
    <3>6. \A u, v \in Account : telegram'[u] = telegram'[v] /\ telegram'[u] \in Chat => u = v
      BY <1>t, <1>c, <2>1, <3>4, <3>5
    <3>7. TelegramTypeOK'
      BY <1>t, <2>2, <3>3, <3>4, <3>6 DEF TelegramTypeOK
    <3>8. RightChat' /\ MuteForAReason'
      <4>1. \A u \in Account : telegram'[u] = telegram[u] \/ CopyDue(u)'
        BY <3>3, <3>4
      <4>2. UNCHANGED <<copied, because>>
        BY <2>2
      <4> QED
        BY <1>0, <3>3, <4>1, <4>2 DEF RightChat, MuteForAReason
    <3> QED
      BY <3>7, <3>8 DEF BindingSound
  <2> QED
    BY <2>3, <2>4
<1>6. ASSUME NEW w \in DOMAIN works, WriteCopy(w) PROVE BindingSound'
  <2> DEFINE q == works[w]
  <2>1. /\ q # Rest /\ q \in Work /\ q.at = "copy" /\ q.who \in Account
        /\ q.chat \in Chat \union {NoChat}
    BY <1>0, <1>6, NotResting, WorkFields DEF WriteCopy
  <2>2. /\ copied' = [copied EXCEPT ![q.who] = q.chat]
        /\ because' = [because EXCEPT ![q.who] =
                         IF telegram[q.who] = q.chat THEN {} ELSE @ \union {"late"}]
        /\ Goes(w, Rest)
        /\ UNCHANGED <<telegram, blockers, started, crashes>>
    BY <1>6 DEF WriteCopy, Copy, Judged
  <2>3. /\ works' \in [1 .. Works -> Work \union {Rest}]
        /\ \A u \in Account : CopyDue(u) /\ u # q.who => CopyDue(u)'
    BY <1>0, <2>1, <2>2, GoesOn
  <2>4. TelegramTypeOK'
    BY <1>t, <2>1, <2>2, <2>3 DEF TelegramTypeOK
  <2>5. RightChat'
    BY <1>0, <1>t, <2>1, <2>2, <2>3 DEF RightChat
  <2>6. MuteForAReason'
    BY <1>0, <1>t, <1>c, <2>1, <2>2, <2>3 DEF MuteForAReason
  <2> QED
    BY <2>4, <2>5, <2>6 DEF BindingSound
<1>7. ASSUME NEW w \in DOMAIN works, Crash(w) PROVE BindingSound'
  <2> DEFINE q == works[w]
  <2>1. q # Rest /\ q \in Work /\ q.who \in Account
    BY <1>0, <1>7, WorkFields DEF Crash
  <2>2. /\ crashes < MaxCrashes /\ crashes' = crashes + 1
        /\ because' = IF q.at = "copy" THEN [because EXCEPT ![q.who] = @ \union {"died"}] ELSE because
        /\ Goes(w, Rest)
        /\ UNCHANGED <<telegram, copied, blockers, started>>
    BY <1>7 DEF Crash
  <2>3. /\ works' \in [1 .. Works -> Work \union {Rest}]
        /\ \A u \in Account : CopyDue(u) /\ (q.at # "copy" \/ u # q.who) => CopyDue(u)'
    BY <1>0, <2>1, <2>2, GoesOn
  <2>4. /\ because' \in [Account -> SUBSET {"died", "late", "expired", "blocked"}]
        /\ crashes' \in 0 .. MaxCrashes
    BY <1>t, <1>c, <2>1, <2>2
  <2>5. TelegramTypeOK'
    BY <1>t, <2>2, <2>3, <2>4 DEF TelegramTypeOK
  <2>6. \A u \in Account : because[u] \subseteq because'[u] /\
           (CopyDue(u) => CopyDue(u)' \/ "died" \in because'[u])
    BY <1>t, <2>1, <2>2, <2>3
  <2>7. RightChat' /\ MuteForAReason'
    BY <1>0, <2>2, <2>6 DEF RightChat, MuteForAReason
  <2> QED
    BY <2>5, <2>7 DEF BindingSound
<1>8. ASSUME NEW w \in DOMAIN works, LookUp(w) PROVE BindingSound'
  <2>1. works[w] # Rest /\ works[w] \in Work /\ works[w].at # "copy" /\ works[w].who \in Account
    BY <1>0, <1>8, NotResting, WorkFields DEF LookUp
  <2>2. copied[works[w].who] \in Chat \union {NoChat}
    BY <1>t, <2>1
  <2>3. [works[w] EXCEPT !.at = "told", !.chat = copied[works[w].who]] \in Work
    BY <2>1, <2>2, WorkUpdated, <1>t, 
       Unborn \in Chat \union {NoChat, Unborn}
  <2> QED
    BY <1>8, <2>1, <2>3, MovedOn DEF LookUp
<1>9. ASSUME NEW u \in Account, NEW reason \in {"blocked", "expired"},
             copied' = [copied EXCEPT ![u] = NoChat],
             because' = [because EXCEPT ![u] = @ \union {reason}],
             UNCHANGED <<telegram, blockers, started, crashes>>,
             works' \in [1 .. Works -> Work \union {Rest}],
             \A v \in Account : CopyDue(v) => CopyDue(v)'
      PROVE  BindingSound'
  <2>1. TelegramTypeOK'
    BY <1>t, <1>9 DEF TelegramTypeOK
  <2>2. RightChat' /\ MuteForAReason'
    BY <1>0, <1>t, <1>9 DEF RightChat, MuteForAReason
  <2> QED
    BY <2>1, <2>2 DEF BindingSound
<1>10. ASSUME NEW w \in DOMAIN works, Tell(w) PROVE BindingSound'
  <2>1. works[w] # Rest /\ works[w] \in Work /\ works[w].at # "copy" /\ works[w].who \in Account
    BY <1>0, <1>10, NotResting, WorkFields DEF Tell
  <2>2. Goes(w, Rest) /\ UNCHANGED <<telegram, blockers, started, crashes>>
    BY <1>10 DEF Tell
  <2>3. /\ works' \in [1 .. Works -> Work \union {Rest}]
        /\ \A v \in Account : CopyDue(v) => CopyDue(v)'
    BY <1>0, <2>1, <2>2, GoesOn
  <2>4. CASE works[w].chat \in blockers
    BY <1>9, <1>10, <2>1, <2>2, <2>3, <2>4 DEF Tell
  <2>5. CASE works[w].chat \notin blockers
    BY <1>10, <2>1, <2>2, <2>5, MovedOn DEF Tell
  <2> QED
    BY <2>4, <2>5
<1>11. ASSUME NEW u \in Account, CopyExpires(u) PROVE BindingSound'
  <2>1. \A v \in Account : CopyDue(v) => CopyDue(v)'
    BY <1>11 DEF CopyExpires, CopyDue
  <2> QED
    BY <1>9, <1>11, <1>t, <2>1 DEF CopyExpires
<1>12. ASSUME (\E c \in Chat : BlockOrUnblock(c)) \/ UNCHANGED linkVars PROVE BindingSound'
  <2>1. blockers' \subseteq Chat /\ UNCHANGED <<telegram, copied, works, started, crashes, because>>
    BY <1>12, <1>t DEF BlockOrUnblock, linkVars
  <2>2. TelegramTypeOK'
    BY <1>t, <2>1 DEF TelegramTypeOK
  <2>3. RightChat' /\ MuteForAReason'
    BY <1>0, <2>1 DEF RightChat, MuteForAReason, CopyDue
  <2> QED
    BY <2>2, <2>3 DEF BindingSound
<1> QED
  BY <1>2, <1>3, <1>4, <1>5, <1>6, <1>7, <1>8, <1>10, <1>11, <1>12 DEF TelegramNext

(* The bot tells each user in his own chat, and none in vain, but for the     *)
(* reasons named: for any users, chats and operations under way.               *)
THEOREM BindingStaysSound == TelegramSpec => []BindingSound
  BY BindingInitHolds, BindingNextHolds, PTL DEF TelegramSpec

---------------------------------------------------------------------------
(* The login code. *)

(* Nothing has made the last code of the chat useless. *)
Quiet == why \intersect {"expired", "unsent", "crossed", "swept"} = {}

(* The newest code is kept or was used, and it is on its way to the chat or  *)
(* the last one there.                                                        *)
Newest ==
    /\ \A w \in Window : At(w, "ask", "stored") => talk[w].code \in 1 .. made
    /\ chat # <<>> => made > 0
    /\ code # 0 => made > 0
    /\ Quiet /\ made > 0 =>
         /\ code = made \/ (code = 0 /\ made \in entered)
         /\ \/ \E w \in Window : At(w, "ask", "stored") /\ talk[w].code = made
            \/ chat # <<>> /\ chat[Len(chat)] = made

(* Once the user has a password, a page that still asks for one is about to  *)
(* leave.                                                                      *)
IsLeaving(w) ==
    /\ talk[w] # NoTalk
    /\ \/ talk[w].what = "set" /\ talk[w].at = "answered"
       \/ talk[w].what = "me" /\ talk[w].at \in {"sent", "answered"} /\ ~talk[w].needs
Leaving ==
    password /\ why \intersect {"lost", "raced"} = {} =>
      \A w \in Window : mode[w] = "set-password" => IsLeaving(w)

LoginInv == LoginTypeOK /\ CounterWillEnd /\ Newest /\ Leaving

LEMMA LoginConstants ==
    MostAsked \in Nat /\ MaxCodes \in Nat /\ MaxTries \in Nat /\ MaxBroken \in Nat
  BY LoginCodeAssumption

LEMMA TalkFields ==
    ASSUME LoginTypeOK, NEW w \in Window, talk[w] # NoTalk
    PROVE  /\ talk[w] \in Talk
           /\ talk[w].what \in {"ask", "verify", "set", "me"}
           /\ talk[w].code \in Code \union {0} /\ talk[w].needs \in BOOLEAN
           /\ talk[w].at # "silent"
  BY DEF LoginTypeOK, Talk

LEMMA NoTalkIsSilent == NoTalk.at = "silent"
  BY DEF NoTalk

(* What a step of a request changes of the conversation. *)
LEMMA TalkUpdated ==
    ASSUME LoginTypeOK, NEW w \in Window, NEW v \in Talk \union {NoTalk},
           talk' = [talk EXCEPT ![w] = v]
    PROVE  /\ talk' \in [Window -> Talk \union {NoTalk}]
           /\ talk'[w] = v /\ \A u \in Window \ {w} : talk'[u] = talk[u]
  BY DEF LoginTypeOK

LEMMA TalkAt ==
    ASSUME LoginTypeOK, NEW w \in Window, talk[w] # NoTalk,
           NEW at \in {"sent", "first", "counted", "stored", "matched", "loaded", "answered", "failed"},
           TalkGoes(w, at)
    PROVE  /\ talk' \in [Window -> Talk \union {NoTalk}]
           /\ talk'[w] \in Talk /\ talk'[w] # NoTalk
           /\ talk'[w].what = talk[w].what /\ talk'[w].at = at
           /\ talk'[w].code = talk[w].code /\ talk'[w].needs = talk[w].needs
           /\ \A u \in Window \ {w} : talk'[u] = talk[u]
<1> DEFINE v == [talk[w] EXCEPT !.at = at]
<1>1. talk[w] \in Talk /\ talk \in [Window -> Talk \union {NoTalk}]
  BY TalkFields DEF LoginTypeOK
<1>2. /\ v \in Talk /\ v.what = talk[w].what /\ v.at = at
      /\ v.code = talk[w].code /\ v.needs = talk[w].needs
  BY <1>1 DEF Talk
<1>3. talk' = [talk EXCEPT ![w] = v]
  BY <1>1 DEF TalkGoes
<1> HIDE DEF v
<1>4. v # NoTalk
  BY <1>2, NoTalkIsSilent
<1> QED
  BY <1>2, <1>3, <1>4, TalkUpdated

LEMMA LoginInitHolds == LoginInit => LoginInv
<1> SUFFICES ASSUME LoginInit PROVE LoginInv
  OBVIOUS
<1> USE LoginConstants DEF LoginInit
<1>1. LoginTypeOK
  <2>1. chat \in Seq(Code)
    OBVIOUS
  <2> QED
    <3>1. asked \in Nat /\ made \in 0 .. MaxCodes /\ tries \in 0 .. MaxTries /\ broken \in 0 .. MaxBroken
      OBVIOUS
    <3>2. /\ timed \in BOOLEAN /\ password \in BOOLEAN /\ code \in Code \union {0}
          /\ mode \in [Window -> {"password", "telegram-phone", "telegram-code", "set-password", "home"}]
          /\ talk \in [Window -> Talk \union {NoTalk}] /\ entered \subseteq Code \union {0}
      OBVIOUS
    <3> QED
      BY <2>1, <3>1, <3>2 DEF LoginTypeOK
<1>2. CounterWillEnd
  BY DEF CounterWillEnd
<1>3. Newest
  BY DEF Newest, At
<1>4. Leaving
  BY DEF Leaving
<1> QED
  BY <1>1, <1>2, <1>3, <1>4 DEF LoginInv

(* What a step must leave as it was for each part of the invariant. *)
LEMMA CounterKept ==
    ASSUME CounterWillEnd, asked' = asked, timed => timed', "uncounted" \in why => "uncounted" \in why',
           \A w \in Window : At(w, "ask", "first") => timed' \/ "uncounted" \in why' \/ At(w, "ask", "first")'
    PROVE  CounterWillEnd'
  BY DEF CounterWillEnd

LEMMA NewestKept ==
    ASSUME Newest, UNCHANGED <<made, chat, code, entered>>, Quiet' => Quiet,
           \A w \in Window : At(w, "ask", "stored")' => At(w, "ask", "stored") /\ talk'[w].code = talk[w].code,
           \A w \in Window : Quiet' /\ At(w, "ask", "stored") =>
             At(w, "ask", "stored")' /\ talk'[w].code = talk[w].code
    PROVE  Newest'
<1>1. /\ \A w \in Window : At(w, "ask", "stored")' => talk'[w].code \in 1 .. made'
      /\ chat' # <<>> => made' > 0
      /\ code' # 0 => made' > 0
  BY DEF Newest
<1>2. ASSUME Quiet', made' > 0
      PROVE  /\ code' = made' \/ (code' = 0 /\ made' \in entered')
             /\ \/ \E w \in Window : At(w, "ask", "stored")' /\ talk'[w].code = made'
                \/ chat' # <<>> /\ chat'[Len(chat')] = made'
  BY <1>2 DEF Newest
<1> QED
  BY <1>1, <1>2 DEF Newest

(* A step of a request that has nothing to do with the counter or the codes. *)
LEMMA LoginStep ==
    ASSUME LoginInv, NEW w \in Window, LoginTypeOK', Leaving',
           UNCHANGED <<asked, timed, code, made, chat, entered>>,
           why \subseteq why', why' \subseteq why \union {"lost", "raced"},
           \A u \in Window \ {w} : talk'[u] = talk[u],
           ~At(w, "ask", "first"), ~At(w, "ask", "stored"), ~At(w, "ask", "stored")'
    PROVE  LoginInv'
<1>0. CounterWillEnd /\ Newest
  BY DEF LoginInv
<1>1. \A u \in Window : At(u, "ask", "first") => At(u, "ask", "first")'
  BY DEF At
<1>2. CounterWillEnd'
  BY <1>0, <1>1, CounterKept
<1>3. Quiet' => Quiet
  BY DEF Quiet
<1>4. \A u \in Window : /\ At(u, "ask", "stored")' <=> At(u, "ask", "stored")
                        /\ At(u, "ask", "stored") => talk'[u].code = talk[u].code
  BY DEF At
<1>5. Newest'
  BY <1>0, <1>3, <1>4, NewestKept
<1> QED
  BY <1>2, <1>5 DEF LoginInv

(* The page: it does not leave the password form by itself. *)
LEMMA PageSteps ==
    ASSUME LoginInv, NEW w \in Window,
           ChooseTelegram(w) \/ GoBack(w) \/ AskCode(w) \/ EnterCode(w) \/ SetPassword(w)
    PROVE  LoginInv'
<1>0. LoginTypeOK /\ Leaving
  BY DEF LoginInv
<1>1. talk[w] = NoTalk
  BY DEF ChooseTelegram, GoBack, AskCode, EnterCode, SetPassword, Tries
<1>2. ~At(w, "ask", "first") /\ ~At(w, "ask", "stored") /\ ~IsLeaving(w)
  BY <1>1 DEF At, IsLeaving
<1>3. CASE ChooseTelegram(w) \/ GoBack(w)
  <2>1. /\ UNCHANGED <<asked, timed, code, made, chat, password, talk, tries, broken, entered, why>>
        /\ mode' \in [Window -> {"password", "telegram-phone", "telegram-code", "set-password", "home"}]
        /\ mode'[w] # "set-password" /\ \A u \in Window \ {w} : mode'[u] = mode[u]
    BY <1>0, <1>3 DEF ChooseTelegram, GoBack, LoginTypeOK
  <2>2. LoginTypeOK'
    BY <1>0, <2>1 DEF LoginTypeOK
  <2>3. Leaving'
    BY <1>0, <2>1 DEF Leaving, IsLeaving
  <2> QED
    BY <1>2, <2>1, <2>2, <2>3, LoginStep DEF At
<1>4. ASSUME NEW what \in {"ask", "verify", "set"}, NEW c \in Code \union {0}, Tries(w, what, c)
      PROVE  LoginInv'
  <2> DEFINE v == [what |-> what, code |-> c, at |-> "sent", needs |-> FALSE]
  <2>1. v \in Talk /\ v.at = "sent"
    BY DEF Talk
  <2>2. /\ talk' = [talk EXCEPT ![w] = v] /\ tries < MaxTries /\ tries' = tries + 1
        /\ UNCHANGED <<asked, timed, code, made, chat, password, mode, broken, entered, why>>
    BY <1>4 DEF Tries
  <2> HIDE DEF v
  <2>3. /\ talk' \in [Window -> Talk \union {NoTalk}]
        /\ talk'[w] = v /\ \A u \in Window \ {w} : talk'[u] = talk[u]
    BY <1>0, <2>1, <2>2, TalkUpdated
  <2>4. tries' \in 0 .. MaxTries
    BY <1>0, <2>2, LoginConstants DEF LoginTypeOK
  <2>5. LoginTypeOK'
    BY <1>0, <2>2, <2>3, <2>4 DEF LoginTypeOK
  <2>6. Leaving'
    BY <1>0, <1>2, <2>2, <2>3 DEF Leaving, IsLeaving
  <2> QED
    BY <1>2, <2>1, <2>2, <2>3, <2>5, <2>6, LoginStep DEF At
<1>5. \A i \in DOMAIN chat : chat[i] \in Code
  BY <1>0 DEF LoginTypeOK
<1> QED
  BY <1>3, <1>4, <1>5 DEF AskCode, EnterCode, SetPassword

(* The server looks at the code and at the user. *)
LEMMA LookSteps ==
    ASSUME LoginInv, NEW w \in Window, MatchCode(w) \/ LoadAccount(w) \/ ServeMe(w)
    PROVE  LoginInv'
<1>0. LoginTypeOK /\ Leaving
  BY DEF LoginInv
<1>1. /\ talk[w] # NoTalk
      /\ \/ talk[w].what = "verify" /\ talk[w].at \in {"sent", "matched"}
         \/ talk[w].what = "set" /\ talk[w].at = "sent"
         \/ talk[w].what = "me" /\ talk[w].at = "sent"
  BY DEF MatchCode, LoadAccount, ServeMe, At
<1>2. UNCHANGED <<asked, timed, code, made, chat, password, entered, why, mode, tries, broken>>
  BY DEF MatchCode, LoadAccount, ServeMe, PageRests
<1>3. /\ talk' \in [Window -> Talk \union {NoTalk}]
      /\ talk'[w] # NoTalk /\ talk'[w].what = talk[w].what
      /\ \A u \in Window \ {w} : talk'[u] = talk[u]
      /\ talk[w].what = "me" => talk'[w].at = "answered" /\ talk'[w].needs = talk[w].needs
  <2>1. CASE MatchCode(w) \/ ServeMe(w)
    <3>1. PICK at \in {"matched", "failed", "answered"} :
             TalkGoes(w, at) /\ (talk[w].what = "me" => at = "answered")
      BY <2>1 DEF MatchCode, ServeMe, At
    <3> QED
      BY <1>0, <1>1, <3>1, TalkAt
  <2>2. CASE LoadAccount(w)
    <3> DEFINE v == [talk[w] EXCEPT !.needs = ~password,
                       !.at = IF talk[w].what = "set" /\ password THEN "failed" ELSE "loaded"]
    <3>1. talk[w] \in Talk /\ talk[w].what # "me"
      BY <1>0, <1>1, <2>2, TalkFields DEF LoadAccount, At
    <3>2. v \in Talk /\ v.what = talk[w].what /\ v.at \in {"failed", "loaded"}
      BY <3>1 DEF Talk
    <3>3. talk' = [talk EXCEPT ![w] = v]
      BY <1>0, <2>2 DEF LoadAccount, LoginTypeOK
    <3> HIDE DEF v
    <3> QED
      BY <1>0, <3>1, <3>2, <3>3, TalkUpdated, NoTalkIsSilent
  <2> QED
    BY <2>1, <2>2
<1>4. LoginTypeOK'
  BY <1>0, <1>2, <1>3 DEF LoginTypeOK
<1>5. IsLeaving(w) => IsLeaving(w)'
  BY <1>1, <1>3 DEF IsLeaving
<1>6. \A u \in Window : IsLeaving(u) => IsLeaving(u)'
  BY <1>3, <1>5 DEF IsLeaving
<1>7. Leaving'
  BY <1>0, <1>2, <1>6 DEF Leaving
<1>8. ~At(w, "ask", "first") /\ ~At(w, "ask", "stored") /\ ~At(w, "ask", "stored")'
  BY <1>1, <1>3 DEF At
<1> QED
  BY <1>2, <1>3, <1>4, <1>7, <1>8, LoginStep

LEMMA StorePasswordStep ==
    ASSUME LoginInv, NEW w \in Window, StorePassword(w)
    PROVE  LoginInv'
<1>0. LoginTypeOK /\ Leaving
  BY DEF LoginInv
<1>1. /\ At(w, "set", "loaded") /\ TalkGoes(w, "answered") /\ password' = TRUE
      /\ UNCHANGED <<asked, timed, code, made, chat, entered, mode, tries, broken>>
      /\ why \subseteq why' /\ why' \subseteq why \union {"raced"}
      /\ (\E v \in Window \ {w} : mode[v] = "set-password") => "raced" \in why'
  BY DEF StorePassword, PageRests
<1>2. /\ talk' \in [Window -> Talk \union {NoTalk}]
      /\ talk'[w] # NoTalk /\ talk'[w].what = "set" /\ talk'[w].at = "answered"
      /\ \A u \in Window \ {w} : talk'[u] = talk[u]
  BY <1>0, <1>1, TalkAt DEF At
<1>3. LoginTypeOK'
  BY <1>0, <1>1, <1>2 DEF LoginTypeOK
<1>4. IsLeaving(w)'
  BY <1>2 DEF IsLeaving
<1>5. Leaving'
  BY <1>1, <1>4 DEF Leaving
<1>6. ~At(w, "ask", "first") /\ ~At(w, "ask", "stored") /\ ~At(w, "ask", "stored")'
  BY <1>1, <1>2 DEF At
<1> QED
  BY <1>1, <1>2, <1>3, <1>5, <1>6, LoginStep

LEMMA HearStep ==
    ASSUME LoginInv, NEW w \in Window, Hear(w)
    PROVE  LoginInv'
<1>0. LoginTypeOK /\ Leaving
  BY DEF LoginInv
<1>1. /\ talk[w] # NoTalk
      /\ UNCHANGED <<asked, timed, code, made, chat, password, tries, broken, entered>>
      /\ why \subseteq why' /\ why' \subseteq why \union {"raced"}
      /\ mode'[w] = "set-password" /\ mode[w] # "set-password" /\ password => "raced" \in why'
  BY DEF Hear
<1>2. talk[w] \in Talk /\ talk[w].needs \in BOOLEAN /\ talk \in [Window -> Talk \union {NoTalk}]
      /\ mode \in [Window -> {"password", "telegram-phone", "telegram-code", "set-password", "home"}]
  BY <1>0, <1>1, TalkFields DEF LoginTypeOK
<1>3. CASE Follows(w)
  <2> DEFINE v == [talk[w] EXCEPT !.what = "me", !.at = "sent",
                                  !.needs = talk[w].what = "verify" /\ talk[w].needs]
  <2>1. /\ talk[w].at = "answered" /\ talk[w].what \in {"verify", "set"}
        /\ talk' = [talk EXCEPT ![w] = v] /\ mode' = mode
    BY <1>2, <1>3 DEF Follows
  <2>2. /\ v \in Talk /\ v.what = "me" /\ v.at = "sent"
        /\ talk[w].what = "set" => ~v.needs
    BY <1>2, <2>1 DEF Talk
  <2> HIDE DEF v
  <2>3. /\ talk' \in [Window -> Talk \union {NoTalk}]
        /\ talk'[w] = v /\ \A u \in Window \ {w} : talk'[u] = talk[u]
    BY <1>0, <2>1, <2>2, TalkUpdated
  <2>4. LoginTypeOK'
    BY <1>0, <1>1, <2>1, <2>3 DEF LoginTypeOK
  <2>5. IsLeaving(w) => IsLeaving(w)'
    BY <2>1, <2>2, <2>3, NoTalkIsSilent DEF IsLeaving
  <2>6. \A u \in Window : IsLeaving(u) => IsLeaving(u)'
    BY <2>3, <2>5 DEF IsLeaving
  <2>7. Leaving'
    BY <1>0, <1>1, <2>1, <2>6 DEF Leaving
  <2>8. ~At(w, "ask", "first") /\ ~At(w, "ask", "stored") /\ ~At(w, "ask", "stored")'
    BY <2>1, <2>2, <2>3 DEF At
  <2> QED
    BY <1>1, <2>3, <2>4, <2>7, <2>8, LoginStep
<1>4. CASE Arrives(w)
  <2>1. /\ talk' = [talk EXCEPT ![w] = NoTalk]
        /\ \/ talk[w].what = "ask" /\ talk[w].at = "answered"
              /\ mode' = [mode EXCEPT ![w] = "telegram-code"]
           \/ talk[w].what = "me" /\ talk[w].at = "answered"
              /\ mode' = [mode EXCEPT ![w] = IF talk[w].needs THEN "set-password" ELSE "home"]
           \/ talk[w].at = "failed" /\ mode' = mode
    BY <1>4 DEF Arrives, At
  <2>2. /\ talk' \in [Window -> Talk \union {NoTalk}]
        /\ talk'[w] = NoTalk /\ \A u \in Window \ {w} : talk'[u] = talk[u]
    BY <1>0, <2>1, TalkUpdated
  <2>3. /\ mode' \in [Window -> {"password", "telegram-phone", "telegram-code", "set-password", "home"}]
        /\ \A u \in Window \ {w} : mode'[u] = mode[u]
    BY <1>2, <2>1
  <2>4. LoginTypeOK'
    BY <1>0, <1>1, <2>2, <2>3 DEF LoginTypeOK
  <2>5. IsLeaving(w) => mode'[w] # "set-password"
    BY <1>2, <2>1 DEF IsLeaving
  <2>6. Leaving'
    <3> SUFFICES ASSUME password, why' \intersect {"lost", "raced"} = {}, NEW u \in Window,
                        mode'[u] = "set-password"
                 PROVE  IsLeaving(u)'
      BY <1>1 DEF Leaving
    <3>1. why \intersect {"lost", "raced"} = {}
      BY <1>1
    <3>2. mode[u] = "set-password"
      BY <1>1, <2>3
    <3>3. IsLeaving(u)
      BY <1>0, <3>1, <3>2 DEF Leaving
    <3>4. u # w
      BY <2>5, <3>3
    <3> QED
      BY <2>2, <3>3, <3>4 DEF IsLeaving
  <2>7. ~At(w, "ask", "first") /\ ~At(w, "ask", "stored") /\ ~At(w, "ask", "stored")'
    BY <2>1, <2>2 DEF At
  <2> QED
    BY <1>1, <2>2, <2>4, <2>6, <2>7, LoginStep
<1> QED
  BY <1>3, <1>4 DEF Hear

(* The counter: whoever makes it gives it its end, or dies. *)
LEMMA CountSteps ==
    ASSUME LoginInv, NEW w \in Window, Count(w) \/ Limit(w)
    PROVE  LoginInv'
<1>0. LoginTypeOK /\ CounterWillEnd /\ Newest /\ Leaving
  BY DEF LoginInv
<1>1. /\ talk[w] # NoTalk /\ talk[w].what = "ask" /\ talk[w].at \in {"sent", "first"}
      /\ asked \in Nat
      /\ UNCHANGED <<code, made, chat, password, entered, why, mode, tries, broken>>
  BY <1>0 DEF Count, Limit, GiveEnd, At, PageRests, LoginTypeOK
<1>2. PICK at \in {"first", "failed", "counted"} : TalkGoes(w, at) /\ (Count(w) /\ asked' = 1 => at = "first")
  BY DEF Count, Limit, GiveEnd
<1>3. /\ talk' \in [Window -> Talk \union {NoTalk}]
      /\ talk'[w] # NoTalk /\ talk'[w].what = "ask" /\ talk'[w].at = at
      /\ \A u \in Window \ {w} : talk'[u] = talk[u]
  BY <1>0, <1>1, <1>2, TalkAt
<1>4. asked' \in Nat /\ timed' \in BOOLEAN
  <2>1. CASE Count(w)
    BY <1>0, <1>1, <2>1 DEF Count, LoginTypeOK
  <2>2. CASE Limit(w)
    BY <1>0, <1>1, <2>2 DEF Limit, GiveEnd, LoginTypeOK
  <2> QED
    BY <2>1, <2>2
<1>5. LoginTypeOK'
  BY <1>0, <1>1, <1>3, <1>4 DEF LoginTypeOK
<1>6. CounterWillEnd'
  <2>1. CASE Count(w) /\ asked' = 1
    BY <1>1, <1>2, <1>3, <2>1 DEF CounterWillEnd, At
  <2>2. CASE Count(w) /\ asked' # 1
    <3>1. /\ asked > 0 /\ timed' = timed
          /\ \A u \in Window : At(u, "ask", "first") => At(u, "ask", "first")'
      BY <1>1, <1>3, <2>2 DEF Count, At
    <3> QED
      BY <1>0, <1>1, <3>1 DEF CounterWillEnd
  <2>3. CASE Limit(w)
    BY <2>3 DEF Limit, GiveEnd, CounterWillEnd
  <2> QED
    BY <2>1, <2>2, <2>3
<1>7. \A u \in Window : /\ At(u, "ask", "stored")' <=> At(u, "ask", "stored")
                        /\ At(u, "ask", "stored") => talk'[u].code = talk[u].code
  BY <1>1, <1>3 DEF At
<1>8. Newest'
  BY <1>0, <1>1, <1>7, NewestKept DEF Quiet
<1>9. \A u \in Window : IsLeaving(u) => IsLeaving(u)'
  BY <1>1, <1>3 DEF IsLeaving
<1>10. Leaving'
  BY <1>0, <1>1, <1>9 DEF Leaving
<1> QED
  BY <1>5, <1>6, <1>8, <1>10 DEF LoginInv

(* What a code that is made, sent or used leaves of the rest. *)
LEMMA CodeSteps ==
    ASSUME LoginInv, NEW w \in Window, LoginTypeOK', Newest',
           UNCHANGED <<asked, timed, password, mode>>,
           why \intersect {"uncounted", "lost", "raced"} \subseteq why',
           \A u \in Window \ {w} : talk'[u] = talk[u],
           ~At(w, "ask", "first"), ~IsLeaving(w)
    PROVE  LoginInv'
<1>0. CounterWillEnd /\ Leaving
  BY DEF LoginInv
<1>1. CounterWillEnd'
  <2>1. \A u \in Window : At(u, "ask", "first") => At(u, "ask", "first")'
    BY DEF At
  <2> QED
    BY <1>0, <2>1, CounterKept
<1>2. \A u \in Window : IsLeaving(u) => IsLeaving(u)'
  BY DEF IsLeaving
<1>3. Leaving'
  BY <1>0, <1>2 DEF Leaving
<1> QED
  BY <1>1, <1>3 DEF LoginInv

LEMMA StoreCodeStep ==
    ASSUME LoginInv, NEW w \in Window, StoreCode(w)
    PROVE  LoginInv'
<1>0. LoginTypeOK /\ Newest
  BY DEF LoginInv
<1>1. /\ talk[w] # NoTalk /\ talk[w].what = "ask" /\ talk[w].at = "counted"
      /\ made < MaxCodes /\ made' = made + 1 /\ code' = made + 1
      /\ talk' = [talk EXCEPT ![w].at = "stored", ![w].code = made + 1]
      /\ why' = why \ {"swept", "expired", "unsent", "crossed"}
      /\ UNCHANGED <<asked, timed, chat, password, entered, mode, tries, broken>>
  BY DEF StoreCode, At, PageRests
<1>2. made \in Nat /\ made + 1 \in Code /\ made + 1 \in 0 .. MaxCodes
  BY <1>0, <1>1, LoginConstants DEF LoginTypeOK, Code
<1> DEFINE v == [talk[w] EXCEPT !.at = "stored", !.code = made + 1]
<1>3. v \in Talk /\ v.at = "stored" /\ v.what = "ask" /\ v.code = made + 1
  BY <1>0, <1>1, <1>2, TalkFields DEF Talk
<1>4. talk' = [talk EXCEPT ![w] = v]
  BY <1>0, <1>1 DEF LoginTypeOK
<1> HIDE DEF v
<1>5. /\ talk' \in [Window -> Talk \union {NoTalk}]
      /\ talk'[w] = v /\ \A u \in Window \ {w} : talk'[u] = talk[u]
  BY <1>0, <1>3, <1>4, TalkUpdated
<1>6. LoginTypeOK'
  <2>1. made' \in 0 .. MaxCodes /\ code' \in Code \union {0} /\ talk' \in [Window -> Talk \union {NoTalk}]
    BY <1>1, <1>2, <1>5
  <2>2. why' \subseteq {"uncounted", "crossed", "unsent", "swept", "expired", "lost", "raced"}
    BY <1>0, <1>1 DEF LoginTypeOK
  <2> QED
    BY <1>0, <1>1, <2>1, <2>2 DEF LoginTypeOK
<1>7. At(w, "ask", "stored")' /\ talk'[w].code = made'
  BY <1>1, <1>3, <1>5, NoTalkIsSilent DEF At
<1>8. Newest'
  <2>1. \A u \in Window : At(u, "ask", "stored")' => talk'[u].code \in 1 .. made'
    <3>1. 1 .. made \subseteq 1 .. made' /\ made' \in 1 .. made'
      BY <1>1, <1>2
    <3>2. \A u \in Window \ {w} : At(u, "ask", "stored")' => talk'[u].code \in 1 .. made
      BY <1>0, <1>5 DEF Newest, At
    <3> QED
      BY <1>7, <3>1, <3>2
  <2>2. made' > 0 /\ code' = made'
    BY <1>1, <1>2
  <2> QED
    BY <1>7, <2>1, <2>2 DEF Newest
<1>9. ~At(w, "ask", "first") /\ ~IsLeaving(w)
  BY <1>1 DEF At, IsLeaving
<1> QED
  BY <1>1, <1>5, <1>6, <1>8, <1>9, CodeSteps

LEMMA SendCodeStep ==
    ASSUME LoginInv, NEW w \in Window, SendCode(w)
    PROVE  LoginInv'
<1>0. LoginTypeOK /\ Newest
  BY DEF LoginInv
<1>1. /\ At(w, "ask", "stored") /\ TalkGoes(w, "answered")
      /\ chat' = Append(chat, talk[w].code)
      /\ why' = IF talk[w].code # made THEN why \union {"crossed"} ELSE why
      /\ UNCHANGED <<asked, timed, code, made, password, entered, mode, tries, broken>>
  BY DEF SendCode, PageRests
<1>2. /\ talk' \in [Window -> Talk \union {NoTalk}]
      /\ talk'[w] # NoTalk /\ talk'[w].at = "answered" /\ \A u \in Window \ {w} : talk'[u] = talk[u]
  BY <1>0, <1>1, TalkAt DEF At
<1>3. made \in 0 .. MaxCodes /\ chat \in Seq(Code) /\ MaxCodes \in Nat
  BY <1>0, LoginConstants DEF LoginTypeOK
<1>4. talk[w].code \in 1 .. made
  BY <1>0, <1>1 DEF Newest
<1>5. talk[w].code \in Code /\ made > 0
  BY <1>3, <1>4 DEF Code
<1>6. chat' \in Seq(Code) /\ chat' # <<>> /\ chat'[Len(chat')] = talk[w].code
  BY <1>1, <1>3, <1>5
<1>7. LoginTypeOK'
  <2>1. why' \subseteq {"uncounted", "crossed", "unsent", "swept", "expired", "lost", "raced"}
    BY <1>0, <1>1 DEF LoginTypeOK
  <2> QED
    BY <1>0, <1>1, <1>2, <1>6, <2>1 DEF LoginTypeOK
<1>8. Newest'
  <2>1. \A u \in Window : At(u, "ask", "stored")' => At(u, "ask", "stored") /\ talk'[u] = talk[u]
    BY <1>2 DEF At
  <2>2. Quiet' => Quiet /\ talk[w].code = made
    BY <1>1 DEF Quiet
  <2> QED
    BY <1>0, <1>1, <1>5, <1>6, <2>1, <2>2 DEF Newest
<1>9. ~At(w, "ask", "first") /\ ~IsLeaving(w)
  BY <1>1 DEF At, IsLeaving
<1> QED
  BY <1>1, <1>2, <1>7, <1>8, <1>9, CodeSteps

LEMMA UseCodeStep ==
    ASSUME LoginInv, NEW w \in Window, UseCode(w)
    PROVE  LoginInv'
<1>0. LoginTypeOK /\ Newest
  BY DEF LoginInv
<1>1. /\ At(w, "verify", "loaded") /\ TalkGoes(w, "answered")
      /\ code' = 0 /\ entered' = entered \union {talk[w].code}
      /\ why' = IF code \notin {0, talk[w].code} THEN why \union {"swept"} ELSE why
      /\ UNCHANGED <<asked, timed, made, chat, password, mode, tries, broken>>
  BY DEF UseCode, PageRests
<1>2. /\ talk' \in [Window -> Talk \union {NoTalk}]
      /\ talk'[w] # NoTalk /\ talk'[w].what = "verify" /\ \A u \in Window \ {w} : talk'[u] = talk[u]
  BY <1>0, <1>1, TalkAt DEF At
<1>3. \A u \in Window : /\ At(u, "ask", "stored")' <=> At(u, "ask", "stored")
                        /\ At(u, "ask", "stored") => talk'[u].code = talk[u].code
  BY <1>1, <1>2 DEF At
<1>4. Newest'
  <2>1. /\ \A u \in Window : At(u, "ask", "stored")' => talk'[u].code \in 1 .. made'
        /\ chat' # <<>> => made' > 0
        /\ code' # 0 => made' > 0
    BY <1>0, <1>1, <1>3 DEF Newest
  <2>2. ASSUME Quiet', made > 0
        PROVE  /\ code' = 0 /\ made \in entered'
               /\ \/ \E u \in Window : At(u, "ask", "stored")' /\ talk'[u].code = made
                  \/ chat # <<>> /\ chat[Len(chat)] = made
    <3>1. Quiet /\ code \in {0, talk[w].code}
      BY <1>1, <2>2 DEF Quiet
    <3>2. code = made \/ (code = 0 /\ made \in entered)
      BY <1>0, <2>2, <3>1 DEF Newest
    <3>3. \/ \E u \in Window : At(u, "ask", "stored") /\ talk[u].code = made
          \/ chat # <<>> /\ chat[Len(chat)] = made
      BY <1>0, <2>2, <3>1 DEF Newest
    <3>4. made # 0
      BY <2>2
    <3>5. made \in entered'
      BY <1>1, <3>1, <3>2, <3>4
    <3> QED
      BY <1>1, <1>3, <3>3, <3>5
  <2> QED
    BY <1>1, <2>1, <2>2 DEF Newest
<1>5. ~At(w, "ask", "first") /\ ~IsLeaving(w)
  BY <1>1 DEF At, IsLeaving
<1>6. LoginTypeOK'
  <2>1. why' \subseteq {"uncounted", "crossed", "unsent", "swept", "expired", "lost", "raced"}
    BY <1>0, <1>1 DEF LoginTypeOK
  <2>2. entered' \subseteq Code \union {0}
    BY <1>0, <1>1, TalkFields DEF At, LoginTypeOK
  <2> QED
    BY <1>0, <1>1, <1>2, <2>1, <2>2 DEF LoginTypeOK
<1> QED
  BY <1>1, <1>2, <1>4, <1>5, <1>6, CodeSteps

LEMMA BreakStep ==
    ASSUME LoginInv, NEW w \in Window, Break(w)
    PROVE  LoginInv'
<1>0. LoginTypeOK /\ CounterWillEnd /\ Newest
  BY DEF LoginInv
<1>1. /\ talk[w] # NoTalk /\ TalkGoes(w, "failed")
      /\ broken < MaxBroken /\ broken' = broken + 1
      /\ why \union {"lost"} \subseteq why' /\ why' \subseteq why \union {"lost", "uncounted", "unsent"}
      /\ talk[w].at = "first" => "uncounted" \in why'
      /\ talk[w].at = "stored" => "unsent" \in why'
      /\ UNCHANGED <<asked, timed, code, made, chat, password, mode, tries, entered>>
  BY DEF Break
<1>2. /\ talk' \in [Window -> Talk \union {NoTalk}]
      /\ talk'[w] # NoTalk /\ talk'[w].at = "failed" /\ \A u \in Window \ {w} : talk'[u] = talk[u]
  BY <1>0, <1>1, TalkAt
<1>3. LoginTypeOK'
  <2>1. broken' \in 0 .. MaxBroken
    BY <1>0, <1>1, LoginConstants DEF LoginTypeOK
  <2>2. why' \subseteq {"uncounted", "crossed", "unsent", "swept", "expired", "lost", "raced"}
    BY <1>0, <1>1 DEF LoginTypeOK
  <2> QED
    BY <1>0, <1>1, <1>2, <2>1, <2>2 DEF LoginTypeOK
<1>4. CounterWillEnd'
  <2>1. \A u \in Window : At(u, "ask", "first") => "uncounted" \in why' \/ At(u, "ask", "first")'
    BY <1>1, <1>2 DEF At
  <2> QED
    BY <1>0, <1>1, <2>1, CounterKept
<1>5. Newest'
  <2>1. Quiet' => Quiet /\ talk[w].at # "stored"
    BY <1>1 DEF Quiet
  <2>2. \A u \in Window : At(u, "ask", "stored")' => At(u, "ask", "stored") /\ talk'[u].code = talk[u].code
    BY <1>1, <1>2 DEF At
  <2>3. \A u \in Window : Quiet' /\ At(u, "ask", "stored") =>
           At(u, "ask", "stored")' /\ talk'[u].code = talk[u].code
    BY <1>2, <2>1 DEF At
  <2> QED
    BY <1>0, <1>1, <2>1, <2>2, <2>3, NewestKept
<1>6. Leaving'
  BY <1>1 DEF Leaving
<1> QED
  BY <1>3, <1>4, <1>5, <1>6 DEF LoginInv

(* Five minutes pass. *)
LEMMA EndSteps ==
    ASSUME LoginInv, CounterEnds \/ CodeEnds \/ UNCHANGED loginVars
    PROVE  LoginInv'
<1>0. LoginTypeOK /\ CounterWillEnd /\ Newest /\ Leaving
  BY DEF LoginInv
<1>1. CASE CounterEnds
  <2>1. /\ asked' = 0 /\ timed' = FALSE
        /\ UNCHANGED <<code, made, chat, password, mode, talk, tries, broken, entered, why>>
    BY <1>1 DEF CounterEnds
  <2>2. LoginTypeOK' /\ CounterWillEnd'
    <3>1. asked' \in Nat /\ ~(asked' > 0)
      BY <2>1
    <3> QED
      BY <1>0, <2>1, <3>1 DEF LoginTypeOK, CounterWillEnd
  <2>3. Newest' /\ Leaving'
    BY <1>0, <2>1 DEF Newest, Quiet, At, Leaving, IsLeaving
  <2> QED
    BY <2>2, <2>3 DEF LoginInv
<1>2. CASE CodeEnds
  <2>1. /\ code' = 0 /\ why' = why \union {"expired"}
        /\ UNCHANGED <<asked, timed, made, chat, password, mode, talk, tries, broken, entered>>
    BY <1>2 DEF CodeEnds
  <2>2. LoginTypeOK' /\ CounterWillEnd'
    BY <1>0, <2>1 DEF LoginTypeOK, CounterWillEnd, At
  <2>3. Newest' /\ Leaving'
    BY <1>0, <2>1 DEF Newest, Quiet, At, Leaving, IsLeaving
  <2> QED
    BY <2>2, <2>3 DEF LoginInv
<1>3. CASE UNCHANGED loginVars
  <2>1. UNCHANGED <<asked, timed, code, made, chat, password, mode, talk, tries, broken, entered, why>>
    BY <1>3 DEF loginVars
  <2>2. LoginTypeOK' /\ CounterWillEnd' /\ Newest' /\ Leaving'
    BY <1>0, <2>1 DEF LoginTypeOK, CounterWillEnd, Newest, Quiet, At, Leaving, IsLeaving
  <2> QED
    BY <2>2 DEF LoginInv
<1> QED
  BY <1>1, <1>2, <1>3

LEMMA LoginNextHolds == LoginInv /\ [LoginNext]_loginVars => LoginInv'
  BY PageSteps, CountSteps, StoreCodeStep, SendCodeStep, LookSteps, UseCodeStep,
     StorePasswordStep, HearStep, BreakStep, EndSteps DEF LoginNext

LEMMA LoginInvSound == LoginInv => LoginSound
<1> SUFFICES ASSUME LoginInv PROVE LoginSound
  OBVIOUS
<1>1. LastCodeWorks
  BY DEF LoginInv, LoginTypeOK, Newest, Quiet, LastCodeWorks
<1>2. PasswordWanted
  BY DEF LoginInv, Leaving, IsLeaving, PasswordWanted
<1> QED
  BY <1>1, <1>2 DEF LoginInv, LoginSound

(* Nobody is refused codes for ever, stranded with a dead code or asked for   *)
(* a password in vain, but for the reasons named: for any pages of the user,   *)
(* any limit and any number of codes.                                           *)
THEOREM LoginStaysSound == LoginSpec => []LoginSound
<1>1. LoginSpec => []LoginInv
  BY LoginInitHolds, LoginNextHolds, PTL DEF LoginSpec
<1> QED
  BY <1>1, LoginInvSound, PTL

(* Both, as the run of the clients checks them. *)
THEOREM TelegramStaysSound == TelegramSpec /\ LoginSpec => []TelegramSound
<1>1. BindingSound /\ LoginSound => TelegramSound
  BY DEF TelegramSound
<1> QED
  BY <1>1, BindingStaysSound, LoginStaysSound, PTL


=============================================================================
