------------------------------ MODULE Session ------------------------------
(***************************************************************************)
(* How a browser stays signed in: the axios interceptors that renew an     *)
(* expired access token, the auth stores of the web client and of the Mini *)
(* App, and the token service they talk to.  The tabs of the web client    *)
(* share local storage and the cookie jar; the Mini App is one web view    *)
(* with a session storage and no cookies.  A login or a renewal issues a   *)
(* pair of tokens, named by its number; older pairs expire first.          *)
(***************************************************************************)
EXTENDS Integers

CONSTANTS
    App,         \* the clients to look at, of {"web", "mini"}
    Tab,         \* tabs of one browser (the Mini App uses one of them)
    Request,     \* HTTP requests that may be in flight at once
    MaxPairs,    \* bound: token pairs issued
    MaxSends     \* bound: requests started

ASSUME SessionAssumption ==
    /\ App \subseteq {"web", "mini"} /\ App # {}
    /\ Tab # {}
    /\ MaxPairs \in Nat \ {0} /\ MaxSends \in Nat

VARIABLES
    app,         \* which client this is
    access,      \* access_token in storage: the number of its pair, 0 if none
    refresh,     \* the pair in the cookie jar; Mini App: refresh_token in storage
    persisted,   \* isAuthenticated in the persisted part of the store
    auth,        \* isAuthenticated of a tab
    page,        \* a tab shows the "login" page or the "app"
    req,         \* the requests in flight
    sends,
    issued,      \* pairs issued by the server
    expired,     \* access tokens up to this pair have expired
    revoked,     \* access_blacklist
    spent,       \* refresh_blacklist
    past         \* what has gone wrong so far, for the properties

storage == <<access, refresh, persisted>>
tabs == <<auth, page>>
server == <<issued, expired, revoked, spent>>
sessionVars == <<app, storage, tabs, req, sends, server, past>>

Pair == 1 .. MaxPairs
Kind == {"call", "me", "enter", "login", "logout"}
Idle == [phase |-> "idle"]
InFlight ==
    [phase : {"sent", "answered", "refreshing", "refreshed"}, tab : Tab,
     kind : Kind, retry : BOOLEAN, cred : Pair \union {0},
     out : Pair \union {0}]

Event == {"overlap", "lost", "asleep", "refused", "logout", "unheard", "late", "renewed",
          "kicked", "signed out"}

SessionTypeOK ==
    /\ app \in App
    /\ access \in Pair \union {0} /\ refresh \in Pair \union {0}
    /\ persisted \in BOOLEAN
    /\ auth \in [Tab -> BOOLEAN]
    /\ page \in [Tab -> {"login", "app"}]
    /\ req \in [Request -> InFlight \union {Idle}]
    /\ sends \in 0 .. MaxSends
    /\ issued \in Pair
    /\ expired \in 0 .. issued
    /\ revoked \subseteq Pair /\ spent \subseteq Pair
    /\ past \subseteq Event

Busy(r) == req[r].phase # "idle"
Renewing(r) == req[r].phase \in {"refreshing", "refreshed"}

---------------------------------------------------------------------------
(* Somebody has signed in: in the web client in every tab. *)
SessionInit ==
    /\ app \in App
    /\ access = 1 /\ refresh = 1 /\ persisted = TRUE
    /\ auth = [t \in Tab |-> TRUE]
    /\ page = [t \in Tab |-> "app"]
    /\ req = [r \in Request |-> Idle]
    /\ sends = 0
    /\ issued = 1 /\ expired = 0 /\ revoked = {} /\ spent = {}
    /\ past = {}

(* The token a request shows: the cookie goes before the header, and its   *)
(* max_age ends with the token it holds.                                   *)
Credential(a) == IF app = "web" /\ refresh > expired THEN refresh ELSE a

Asked(t, kind, retry, a) ==
    [phase |-> "sent", tab |-> t, kind |-> kind, retry |-> retry,
     cred |-> Credential(a), out |-> IF kind = "logout" THEN refresh ELSE 0]

(* One web view: the Mini App has no second tab. *)
Open(t) == app = "web" \/ t = CHOOSE u \in Tab : TRUE

Offered(t, kind) ==
    CASE kind = "login" -> page[t] = "login"
      [] kind \in {"call", "logout"} -> page[t] = "app" /\ auth[t]
      [] OTHER -> FALSE

Send(r, t, kind) ==
    /\ ~Busy(r) /\ sends < MaxSends
    /\ Open(t) /\ Offered(t, kind)
    /\ req' = [req EXCEPT ![r] = Asked(t, kind, FALSE, access)]
    /\ sends' = sends + 1
    /\ past' = past \union IF kind = "logout" THEN {"logout"} ELSE {}
    /\ UNCHANGED <<app, storage, tabs, server>>

(* The web client loads: it trusts the persisted flag and asks for "me".   *)
(* The Mini App loads: it signs in with what Telegram vouches for, unless  *)
(* the user signed out, and asks for "me" with the new tokens.              *)
Dropped(t) == {r \in Request : Busy(r) /\ req[r].tab = t}
Load(t, r, token) ==
    /\ req' = [q \in Request |->
                 IF q = r THEN IF app = "web" THEN Asked(t, "me", FALSE, token)
                               ELSE Asked(t, "login", FALSE, token)
                 ELSE IF q \in Dropped(t) THEN Idle ELSE req[q]]
    /\ auth' = [auth EXCEPT ![t] = app = "web" /\ persisted]

(* A tab that goes away does not hear what its requests came to; a renewal *)
(* it had asked for may still be carried out.                               *)
Abandon(t, r, event) ==
    LET renewals == {q \in Dropped(t) \ {r} : Renewing(q)}
        unserved == {req[q].cred : q \in {p \in renewals : req[p].phase = "refreshing"}}
    IN \E s \in SUBSET (unserved \ {0}) :
          /\ spent' = spent \union s
          /\ past' = past \union event \union (IF renewals # {} THEN {"lost"} ELSE {})

Reload(t, r) ==
    /\ ~Busy(r) /\ sends < MaxSends /\ Open(t)
    /\ app = "mini" => page[t] = "app"
    /\ sends' = sends + 1
    /\ Abandon(t, r, {})
    /\ Load(t, r, access)
    /\ UNCHANGED <<app, storage, page, issued, expired, revoked>>

(* ProtectedRoute. *)
Navigate(t) ==
    /\ app = "web" /\ Open(t)
    /\ page' = [page EXCEPT ![t] = IF auth[t] THEN "app" ELSE "login"]
    /\ UNCHANGED <<app, storage, auth, req, sends, server, past>>

---------------------------------------------------------------------------
(* The server. *)
Accepts(n) == n > expired /\ n \notin revoked

Reply(r, out) == req' = [req EXCEPT ![r].phase = "answered", ![r].out = out]

Serve(r) ==
    /\ req[r].phase = "sent"
    /\ CASE req[r].kind = "login" ->
              \/ /\ issued < MaxPairs
                 /\ issued' = issued + 1
                 /\ Reply(r, issued + 1)
                 /\ UNCHANGED <<revoked, spent>>
              \/ Reply(r, 0) /\ UNCHANGED <<issued, revoked, spent>>
         [] req[r].kind = "logout" ->
              /\ revoked' = revoked \union ({req[r].cred} \ {0})
              /\ spent' = spent \union ({req[r].out} \ {0})
              /\ Reply(r, 1)
              /\ UNCHANGED issued
         [] OTHER ->
              /\ Reply(r, IF Accepts(req[r].cred) THEN 1 ELSE 0)
              /\ UNCHANGED <<issued, revoked, spent>>
    /\ UNCHANGED <<app, storage, tabs, sends, expired, past>>

(* refresh_user_token spends the token it is shown before it issues a pair. *)
Renewable(n) == n # 0 /\ n \notin spent

ServeRefresh(r) ==
    /\ req[r].phase = "refreshing"
    /\ \/ /\ Renewable(req[r].cred) /\ issued < MaxPairs
          /\ issued' = issued + 1
          /\ spent' = spent \union {req[r].cred}
          /\ req' = [req EXCEPT ![r].phase = "refreshed", ![r].out = issued + 1]
       \/ /\ ~Renewable(req[r].cred)
          /\ req' = [req EXCEPT ![r].phase = "refreshed", ![r].out = 0]
          /\ UNCHANGED <<issued, spent>>
    /\ UNCHANGED <<app, storage, tabs, sends, expired, revoked, past>>

Expire ==
    /\ expired < issued
    /\ expired' = issued
    /\ UNCHANGED <<app, storage, tabs, req, sends, issued, revoked, spent, past>>

---------------------------------------------------------------------------
(* What the client makes of an answer. *)

(* The end of logout, on the client: with the answer go the cookies.       *)
SignOut(t, jar) ==
    /\ access' = 0
    /\ refresh' = IF app = "mini" THEN 0 ELSE jar
    /\ persisted' = FALSE
    /\ auth' = [auth EXCEPT ![t] = FALSE]
    /\ page' = [page EXCEPT ![t] = "login"]

Settle(r) == req' = [req EXCEPT ![r] = Idle]

(* fetchMe forgets the user when its request is rejected. *)
ForgetIfMe(r) ==
    IF req[r].kind = "me"
    THEN /\ auth' = [auth EXCEPT ![req[r].tab] = FALSE]
         /\ persisted' = FALSE
    ELSE UNCHANGED <<auth, persisted>>

Reject(r, event) ==
    /\ Settle(r)
    /\ IF req[r].kind = "logout"
       THEN /\ SignOut(req[r].tab, refresh)
            /\ past' = past \union event \union {"signed out", "unheard"}
       ELSE /\ ForgetIfMe(r)
            /\ past' = past \union event
            /\ UNCHANGED <<access, refresh, page>>
    /\ UNCHANGED <<sends, spent>>

(* The interceptor gives up.  The web client drops the token and leaves    *)
(* any page but the login page for it, with all that page waited for; the  *)
(* Mini App clears its storage.                                             *)
Mistake_Kick(r, event) ==
    LET t == req[r].tab IN
    IF app = "web" /\ page[t] = "app"
    THEN /\ access' = 0
         /\ page' = [page EXCEPT ![t] = "login"]
         /\ Load(t, r, 0)
         /\ Abandon(t, r, event \union {"kicked"})
         /\ UNCHANGED <<refresh, persisted, sends>>
    ELSE /\ UNCHANGED req
         /\ access' = 0
         /\ refresh' = IF app = "mini" THEN 0 ELSE refresh
         /\ ForgetIfMe(r)
         /\ past' = past \union event \union IF app = "mini" THEN {"kicked"} ELSE {}
         /\ UNCHANGED <<page, sends, spent>>
Kick(r, event) ==
    LET t == req[r].tab IN
    IF app = "web" /\ page[t] = "app"
    THEN /\ access' = 0
         /\ page' = [page EXCEPT ![t] = "login"]
         /\ Load(t, r, 0)
         /\ Abandon(t, r, event \union {"kicked"})
         /\ UNCHANGED <<refresh, persisted, sends>>
    ELSE /\ Settle(r)
         /\ access' = 0
         /\ refresh' = IF app = "mini" THEN 0 ELSE refresh
         /\ ForgetIfMe(r)
         /\ past' = past \union event \union IF app = "mini" THEN {"kicked"} ELSE {}
         /\ UNCHANGED <<page, sends, spent>>

(* login stores the tokens and goes on to ask for "me". *)
Heard(r) ==
    /\ CASE req[r].kind = "login" ->
              /\ access' = req[r].out /\ refresh' = req[r].out
              /\ req' = [req EXCEPT ![r] = [@ EXCEPT !.phase = "sent",
                                             !.kind = "enter", !.retry = FALSE,
                                             !.cred = req[r].out, !.out = 0]]
              /\ past' = past \ {"signed out"}
              /\ UNCHANGED <<persisted, tabs>>
         [] req[r].kind = "logout" ->
              /\ Settle(r)
              /\ SignOut(req[r].tab, 0)
              /\ past' = past \union {"signed out"}
         [] req[r].kind \in {"me", "enter"} ->
              /\ Settle(r)
              /\ auth' = [auth EXCEPT ![req[r].tab] = TRUE]
              /\ persisted' = TRUE
              /\ page' = IF req[r].kind = "enter"
                         THEN [page EXCEPT ![req[r].tab] = "app"] ELSE page
              /\ UNCHANGED <<access, refresh, past>>
         [] OTHER -> Settle(r) /\ UNCHANGED <<storage, tabs, past>>
    /\ UNCHANGED <<sends, spent>>

(* A 401 of a request that was not retried yet: ask for a new pair, with   *)
(* the cookie or with what the Mini App keeps.                              *)
Renew(r) ==
    /\ req' = [req EXCEPT ![r] = [@ EXCEPT !.phase = "refreshing", !.retry = TRUE,
                                   !.cred = refresh, !.out = 0]]
    /\ past' = past \union IF \E q \in Request \ {r} : Renewing(q)
                            THEN {"overlap"} ELSE {}
    /\ UNCHANGED <<storage, tabs, sends, spent>>

Receive(r) ==
    /\ req[r].phase = "answered"
    /\ IF req[r].out # 0 THEN Heard(r)
       ELSE IF req[r].kind # "login" /\ ~req[r].retry /\ (app = "mini" => refresh # 0)
       THEN Renew(r)
       ELSE LET event == IF req[r].kind = "login" THEN {"refused"} ELSE {"asleep"} IN
            IF app = "web" THEN Kick(r, event) ELSE Reject(r, event)
    /\ UNCHANGED <<app, issued, expired, revoked>>

(* The new access token is stored, and the request sent again with it.  A   *)
(* browser stores the new cookies as well; the Mini App keeps the refresh   *)
(* token it had.                                                             *)
Mistake_NextRefresh(pair) == refresh
NextRefresh(pair) == IF app = "web" THEN pair ELSE refresh

Renewed(r) ==
    /\ access' = req[r].out
    /\ refresh' = NextRefresh(req[r].out)
    /\ req' = [req EXCEPT ![r] = [@ EXCEPT !.phase = "sent",
                                   !.cred = req[r].out, !.out = 0]]
    /\ past' = past \union (IF "signed out" \in past THEN {"late"} ELSE {})
                      \union (IF app = "mini" THEN {"renewed"} ELSE {})
    /\ UNCHANGED <<persisted, tabs, sends, spent>>

ReceiveRefresh(r) ==
    /\ req[r].phase = "refreshed"
    /\ IF req[r].out # 0 THEN Renewed(r) ELSE Kick(r, {})
    /\ UNCHANGED <<app, issued, expired, revoked>>

(* The network loses a request or its answer. *)
Lose(r) ==
    /\ Busy(r)
    /\ IF Renewing(r) THEN Kick(r, {"lost"}) ELSE Reject(r, {})
    /\ UNCHANGED <<app, issued, expired, revoked>>

---------------------------------------------------------------------------
Progress(r) == Serve(r) \/ ServeRefresh(r) \/ Receive(r) \/ ReceiveRefresh(r) \/ Lose(r)

SessionNext ==
    \/ \E r \in Request, t \in Tab, kind \in Kind : Send(r, t, kind)
    \/ \E r \in Request, t \in Tab : Reload(t, r)
    \/ \E t \in Tab : Navigate(t)
    \/ \E r \in Request : Progress(r)
    \/ Expire

(* A request is answered or, in the end, lost. *)
SessionFairness == \A r \in Request : WF_sessionVars(Progress(r))

SessionSpec == SessionInit /\ [][SessionNext]_sessionVars /\ SessionFairness

---------------------------------------------------------------------------
(* What the interceptors and the stores owe somebody who is signed in. *)
(* Whether the browser still holds anything the server honours. *)
HoldsCredentials ==
    \/ Accepts(Credential(access))
    \/ Renewable(refresh)

(* Nobody is thrown out of a live session by one request after another: it  *)
(* takes two renewals at once with one single-use refresh token, the loss   *)
(* of an answer, a token that expires between the renewal and the repeated  *)
(* request, a sign-out, or a login refused in a tab that has moved on; in   *)
(* the Mini App a second renewal, because                                    *)
(* api.js:41 never stores the new refresh token.                            *)
KickedOutHasCause ==
    "kicked" \in past =>
        \/ past \intersect {"overlap", "lost", "asleep", "refused", "logout"} # {}
        \/ app = "mini" /\ "renewed" \in past

(* After a sign-out nothing in the browser can sign anybody in again: but   *)
(* for a logout whose answer was lost (cookies stay, useAuthStore.js:41) and *)
(* a renewal answered after it (api.js:46).                                  *)
SignOutEndsSession ==
    "signed out" \in past /\ past \intersect {"late", "unheard"} = {} =>
        ~HoldsCredentials

(* The token in storage, which the sockets and the header use, is the one   *)
(* the cookies belong to, or none: two tabs, logins and renewals that cross  *)
(* never leave halves of two pairs.                                          *)
TokenMatchesCookie == app = "web" => access \in {0, refresh}

(* The three, as one: nobody is thrown out without cause, nobody stays who    *)
(* signed out, and no two halves of different sessions are held.               *)
SessionSound == SessionTypeOK /\ KickedOutHasCause /\ SignOutEndsSession /\ TokenMatchesCookie

(* No request is renewed and repeated for ever: each ends.  (The "me" of a   *)
(* page that loads is left out: it ends too, but a page that is thrown out    *)
(* loads again.)                                                              *)
Waiting(r) == Busy(r) /\ req[r].kind # "me"
RequestsSettle == \A r \in Request : Waiting(r) ~> ~Waiting(r)
===========================================================================
