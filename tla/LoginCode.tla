----------------------------- MODULE LoginCode -----------------------------
(***************************************************************************)
(* Signing in on the site with a code sent to the user's Telegram chat, and *)
(* choosing a password at the first such visit: the pages of one user         *)
(* (LoginPage), the counter of requests and the code in Redis, each under a     *)
(* key of the phone number, and the password in the database.  Every command     *)
(* of a request is a step of its own.                                             *)
(*                                                                                  *)
(* Abstracted: a code is the number of its request; the phone is known and linked,   *)
(* the bot configured; the names entered with the password; the password form.         *)
(***************************************************************************)
EXTENDS Integers, Sequences, FiniteSets

CONSTANTS
    Window,        \* pages of the user
    MostAsked,     \* requests for a code in five minutes
    MaxCodes,      \* bound: codes made
    MaxTries,      \* bound: forms sent
    MaxBroken      \* bound: requests that die, answers and messages that are lost

ASSUME LoginCodeAssumption ==
    {MostAsked, MaxCodes, MaxTries, MaxBroken} \subseteq Nat

VARIABLES
    asked, timed,  \* the counter, and whether it will expire
    code, made,    \* the code that is kept, 0 if none; how many there were
    chat,          \* the codes in the chat, as they came
    password,      \* the user has one
    mode,          \* authMode of each page, "home" once it has left
    talk,          \* the request of each page; isLoading while there is one
    tries, broken,
    entered,       \* the codes that have let somebody in
    why            \* what has crossed or was lost

loginVars ==
    <<asked, timed, code, made, chat, password, mode, talk, tries, broken, entered, why>>

Code == 1 .. MaxCodes
NoTalk == [at |-> "silent"]
Talk == [what : {"ask", "verify", "set", "me"}, code : Code \union {0},
         at : {"sent", "first", "counted", "stored", "matched", "loaded", "answered", "failed"},
         needs : BOOLEAN]

LoginTypeOK ==
    /\ asked \in Nat /\ timed \in BOOLEAN
    /\ code \in Code \union {0} /\ made \in 0 .. MaxCodes
    /\ chat \in Seq(Code)
    /\ password \in BOOLEAN
    /\ mode \in [Window -> {"password", "telegram-phone", "telegram-code", "set-password", "home"}]
    /\ talk \in [Window -> Talk \union {NoTalk}]
    /\ tries \in 0 .. MaxTries /\ broken \in 0 .. MaxBroken
    /\ entered \subseteq Code \union {0}
    /\ why \subseteq {"uncounted", "crossed", "unsent", "swept", "expired", "lost", "raced"}

LoginInit ==
    /\ asked = 0 /\ timed = FALSE
    /\ code = 0 /\ made = 0 /\ chat = <<>>
    /\ password \in BOOLEAN
    /\ mode = [w \in Window |-> "password"]
    /\ talk = [w \in Window |-> NoTalk]
    /\ tries = 0 /\ broken = 0 /\ entered = {} /\ why = {}

---------------------------------------------------------------------------
(* The page.  Its buttons wait while a request is under way. *)
Tries(w, what, c) ==
    /\ talk[w] = NoTalk /\ tries < MaxTries /\ tries' = tries + 1
    /\ talk' = [talk EXCEPT ![w] = [what |-> what, code |-> c, at |-> "sent", needs |-> FALSE]]
    /\ UNCHANGED <<asked, timed, code, made, chat, password, mode, broken, entered, why>>

ChooseTelegram(w) ==
    /\ talk[w] = NoTalk /\ mode[w] = "password"
    /\ mode' = [mode EXCEPT ![w] = "telegram-phone"]
    /\ UNCHANGED <<asked, timed, code, made, chat, password, talk, tries, broken, entered, why>>

GoBack(w) ==
    /\ talk[w] = NoTalk /\ mode[w] \in {"telegram-phone", "telegram-code"}
    /\ mode' = [mode EXCEPT ![w] = "password"]
    /\ UNCHANGED <<asked, timed, code, made, chat, password, talk, tries, broken, entered, why>>

AskCode(w) == mode[w] = "telegram-phone" /\ Tries(w, "ask", 0)

(* Any code the user finds in his chat. *)
EnterCode(w) ==
    /\ mode[w] = "telegram-code"
    /\ \E i \in DOMAIN chat : Tries(w, "verify", chat[i])

SetPassword(w) == mode[w] = "set-password" /\ Tries(w, "set", 0)

---------------------------------------------------------------------------
(* The server. *)
TalkGoes(w, at) == talk' = [talk EXCEPT ![w].at = at]
At(w, what, at) == talk[w] # NoTalk /\ talk[w].what = what /\ talk[w].at = at
PageRests == UNCHANGED <<mode, tries, broken>>

(* INCR: the first request of a window has still to give the counter its end. *)
Count(w) ==
    /\ At(w, "ask", "sent")
    /\ asked' = asked + 1
    /\ TalkGoes(w, IF asked' = 1 THEN "first" ELSE IF asked' > MostAsked THEN "failed" ELSE "counted")
    /\ UNCHANGED <<timed, code, made, chat, password, entered, why>> /\ PageRests

Mistake_GiveEnd(w) == At(w, "ask", "first") /\ TalkGoes(w, "counted") /\ UNCHANGED timed
GiveEnd(w) == At(w, "ask", "first") /\ TalkGoes(w, "counted") /\ timed' = TRUE

Limit(w) ==
    /\ GiveEnd(w)
    /\ UNCHANGED <<asked, code, made, chat, password, entered, why>> /\ PageRests

StoreCode(w) ==
    /\ At(w, "ask", "counted") /\ made < MaxCodes
    /\ made' = made + 1 /\ code' = made'
    /\ talk' = [talk EXCEPT ![w].at = "stored", ![w].code = made']
    /\ why' = why \ {"swept", "expired", "unsent", "crossed"}
    /\ UNCHANGED <<asked, timed, chat, password, entered>> /\ PageRests

(* The message may come after that of a later code. *)
SendCode(w) ==
    /\ At(w, "ask", "stored")
    /\ chat' = Append(chat, talk[w].code)
    /\ why' = IF talk[w].code # made THEN why \union {"crossed"} ELSE why
    /\ TalkGoes(w, "answered")
    /\ UNCHANGED <<asked, timed, code, made, password, entered>> /\ PageRests

MatchCode(w) ==
    /\ At(w, "verify", "sent")
    /\ TalkGoes(w, IF code = talk[w].code THEN "matched" ELSE "failed")
    /\ UNCHANGED <<asked, timed, code, made, chat, password, entered, why>> /\ PageRests

LoadAccount(w) ==
    /\ At(w, "verify", "matched") \/ At(w, "set", "sent")
    /\ talk' = [talk EXCEPT ![w].needs = ~password,
         ![w].at = IF talk[w].what = "set" /\ password THEN "failed" ELSE "loaded"]
    /\ UNCHANGED <<asked, timed, code, made, chat, password, entered, why>> /\ PageRests

(* The key is deleted, whichever code it holds by now. *)
UseCode(w) ==
    /\ At(w, "verify", "loaded")
    /\ code' = 0 /\ entered' = entered \union {talk[w].code}
    /\ why' = IF code \notin {0, talk[w].code} THEN why \union {"swept"} ELSE why
    /\ TalkGoes(w, "answered")
    /\ UNCHANGED <<asked, timed, made, chat, password>> /\ PageRests

StorePassword(w) ==
    /\ At(w, "set", "loaded")
    /\ password' = TRUE
    /\ why' = IF \E v \in Window \ {w} : mode[v] = "set-password"
              THEN why \union {"raced"} ELSE why
    /\ TalkGoes(w, "answered")
    /\ UNCHANGED <<asked, timed, code, made, chat, entered>> /\ PageRests

ServeMe(w) ==
    /\ At(w, "me", "sent") /\ TalkGoes(w, "answered")
    /\ UNCHANGED <<asked, timed, code, made, chat, password, entered, why>> /\ PageRests

(* A request dies, Telegram does not take the message, or an answer is lost. *)
Break(w) ==
    /\ talk[w] # NoTalk /\ talk[w].at # "failed" /\ broken < MaxBroken
    /\ broken' = broken + 1
    /\ why' = why \union {"lost"}
         \union (IF talk[w].at = "first" THEN {"uncounted"} ELSE {})
         \union (IF talk[w].at = "stored" THEN {"unsent"} ELSE {})
    /\ TalkGoes(w, "failed")
    /\ UNCHANGED <<asked, timed, code, made, chat, password, mode, tries, entered>>

(* Five minutes. *)
CounterEnds ==
    /\ timed /\ asked' = 0 /\ timed' = FALSE
    /\ UNCHANGED <<code, made, chat, password, mode, talk, tries, broken, entered, why>>

CodeEnds ==
    /\ code # 0 /\ code' = 0 /\ why' = why \union {"expired"}
    /\ UNCHANGED <<asked, timed, made, chat, password, mode, talk, tries, broken, entered>>

---------------------------------------------------------------------------
(* The answers.  After a login and after the password the user is loaded, and   *)
(* only then the page goes on.                                                    *)
Follows(w) ==
    /\ talk[w].at = "answered" /\ talk[w].what \in {"verify", "set"}
    /\ talk' = [talk EXCEPT ![w].what = "me", ![w].at = "sent",
                            ![w].needs = talk[w].what = "verify" /\ talk[w].needs]
    /\ UNCHANGED mode

Arrives(w) ==
    /\ \/ /\ At(w, "ask", "answered") /\ mode' = [mode EXCEPT ![w] = "telegram-code"]
       \/ /\ At(w, "me", "answered")
          /\ mode' = [mode EXCEPT ![w] = IF talk[w].needs THEN "set-password" ELSE "home"]
       \/ /\ talk[w].at = "failed" /\ UNCHANGED mode
    /\ talk' = [talk EXCEPT ![w] = NoTalk]

Hear(w) ==
    /\ talk[w] # NoTalk /\ (Follows(w) \/ Arrives(w))
    /\ why' = IF mode'[w] = "set-password" /\ mode[w] # "set-password" /\ password
              THEN why \union {"raced"} ELSE why
    /\ UNCHANGED <<asked, timed, code, made, chat, password, tries, broken, entered>>

LoginNext ==
    \/ \E w \in Window :
         \/ ChooseTelegram(w) \/ GoBack(w) \/ AskCode(w) \/ EnterCode(w) \/ SetPassword(w)
         \/ Count(w) \/ Limit(w) \/ StoreCode(w) \/ SendCode(w)
         \/ MatchCode(w) \/ LoadAccount(w) \/ UseCode(w) \/ StorePassword(w) \/ ServeMe(w)
         \/ Break(w) \/ Hear(w)
    \/ CounterEnds
    \/ CodeEnds

LoginSpec == LoginInit /\ [][LoginNext]_loginVars

---------------------------------------------------------------------------
(* The counter ends by itself, so that nobody is refused codes for ever - unless *)
(* the request that made it died before it gave it an end (service.py 260-264).    *)
CounterWillEnd ==
    asked > 0 => \/ timed \/ "uncounted" \in why
                 \/ \E w \in Window : At(w, "ask", "first")

(* Once its request is answered, the last code in the chat is the one that works, *)
(* unless it was used or expired, a later one was not delivered or was overtaken    *)
(* by it, or a login with an earlier one deleted it (267-282, 293-301).              *)
LastCodeWorks ==
    (\A w \in Window : ~At(w, "ask", "stored")) /\ chat # <<>> =>
      \/ chat[Len(chat)] \in entered \union {code}
      \/ why \intersect {"expired", "unsent", "crossed", "swept"} # {}

(* A page asks for a password only while the user has none, unless another page    *)
(* chose one meanwhile or the answer to its own was lost: what it asks is refused     *)
(* then, however often it is sent (312-313).                                            *)
PasswordWanted ==
    \A w \in Window : mode[w] = "set-password" /\ talk[w] = NoTalk =>
      ~password \/ why \intersect {"lost", "raced"} # {}

(* Nobody is locked out, stranded with a dead code or asked in vain, but so. *)
LoginSound == LoginTypeOK /\ CounterWillEnd /\ LastCodeWorks /\ PasswordWanted
=============================================================================
