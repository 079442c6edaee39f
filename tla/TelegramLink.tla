---------------------------- MODULE TelegramLink ----------------------------
(***************************************************************************)
(* Which chat a user is told in.  The backend keeps users.telegram_id in   *)
(* the database and, for the bot, a copy in Redis under user_tg:<user>,     *)
(* which every link, login and unlink writes after its commit.  The bot      *)
(* reads the copy alone, and deletes it when the chat has blocked it.         *)
(*                                                                             *)
(* Abstracted: the signature of the Mini App's data, names, the tokens, the   *)
(* limit of five links an hour; a commit is one step with the statements        *)
(* before it.                                                                    *)
(***************************************************************************)
EXTENDS Integers

CONSTANTS
    Account,       \* users, one per phone number
    Chat,          \* Telegram accounts
    NoChat,        \* telegram_id is NULL, or the key is not there
    Unborn,        \* the user is not created yet
    Works,         \* bound: operations in flight at once
    MaxWorks,      \* bound: operations
    MaxCrashes     \* bound: operations that die

ASSUME TelegramLinkAssumption ==
    /\ NoChat \notin Chat /\ Unborn \notin Chat /\ NoChat # Unborn
    /\ {Works, MaxWorks, MaxCrashes} \subseteq Nat

VARIABLES
    telegram,      \* telegram_id of each user in the database
    copied,        \* user_tg:<user> in Redis
    blockers,      \* chats that have blocked the bot
    works,         \* the operations in flight
    started, crashes,
    because        \* of each user, why the copy may not be the database's

linkVars == <<telegram, copied, blockers, works, started, crashes, because>>

Rest == [at |-> "rest"]
Work == [at : {"sent", "unfound", "loaded", "copy", "told"},
         what : {"link", "auth", "unlink", "tell"}, who : Account, chat : Chat \union {NoChat},
         seen : Chat \union {NoChat, Unborn}]

TelegramTypeOK ==
    /\ telegram \in [Account -> Chat \union {NoChat, Unborn}]
    /\ copied \in [Account -> Chat \union {NoChat}]
    /\ blockers \subseteq Chat
    /\ works \in [1 .. Works -> Work \union {Rest}]
    /\ started \in 0 .. MaxWorks /\ crashes \in 0 .. MaxCrashes
    /\ because \in [Account -> SUBSET {"died", "late", "expired", "blocked"}]
    /\ \A u, v \in Account : telegram[u] = telegram[v] /\ telegram[u] \in Chat => u = v

TelegramInit ==
    /\ telegram \in [Account -> {NoChat, Unborn}]
    /\ copied = [u \in Account |-> NoChat]
    /\ blockers = {}
    /\ works = [w \in 1 .. Works |-> Rest]
    /\ started = 0 /\ crashes = 0
    /\ because = [u \in Account |-> {}]

---------------------------------------------------------------------------
Start(what, u, c) ==
    /\ started < MaxWorks /\ started' = started + 1
    /\ \E w \in DOMAIN works :
         /\ works[w] = Rest /\ \A v \in DOMAIN works : works[v] = Rest => w <= v
         /\ works' = [works EXCEPT ![w] =
              [at |-> "sent", what |-> what, who |-> u, chat |-> c, seen |-> NoChat]]
    /\ UNCHANGED <<telegram, copied, blockers, crashes, because>>

(* Whom a login concerns is found by the chat. *)
AnyAccount == CHOOSE u \in Account : TRUE

(* The bot or the Mini App gives a chat and a phone number, the Mini App a   *)
(* chat alone; a user unlinks himself; the bot has something to tell.          *)
Begins ==
    \E u \in Account, c \in Chat :
      \/ Start("link", u, c)
      \/ u = AnyAccount /\ Start("auth", u, c)
      \/ telegram[u] # Unborn /\ Start("unlink", u, NoChat)
      \/ telegram[u] # Unborn /\ Start("tell", u, NoChat)

Goes(w, q) == works' = [works EXCEPT ![w] = q]
Owner(c) == {u \in Account : telegram[u] = c}

(* The chat may be linked already: whatever phone was given, it stays where   *)
(* it is.                                                                       *)
FindByChat(w) ==
    LET q == works[w] IN
    /\ q.at = "sent" /\ q.what \in {"link", "auth"}
    /\ \/ \E u \in Owner(q.chat) : Goes(w, [q EXCEPT !.at = "copy", !.who = u])
       \/ /\ Owner(q.chat) = {}
          /\ Goes(w, IF q.what = "link" THEN [q EXCEPT !.at = "unfound"] ELSE Rest)
    /\ UNCHANGED <<telegram, copied, blockers, started, crashes, because>>

(* The user as he is when his row is read. *)
LoadUser(w) ==
    LET q == works[w] IN
    /\ \/ q.at = "unfound"
       \/ q.at = "sent" /\ q.what = "unlink"
    /\ Goes(w, [q EXCEPT !.at = "loaded", !.seen = telegram[q.who]])
    /\ UNCHANGED <<telegram, copied, blockers, started, crashes, because>>

(* The row is written if its value is not the one that was loaded.  A phone   *)
(* that appeared since, or a chat another user has by now, break a unique       *)
(* index and end the operation.                                                 *)
Breaks(q) ==
    \/ q.seen = Unborn /\ telegram[q.who] # Unborn
    \/ q.chat # NoChat /\ Owner(q.chat) \ {q.who} # {}

CommitLink(w) ==
    LET q == works[w] IN
    /\ q.at = "loaded"
    /\ IF Breaks(q) THEN Goes(w, Rest) /\ UNCHANGED telegram
       ELSE /\ telegram' = IF q.seen = q.chat THEN telegram
                           ELSE [telegram EXCEPT ![q.who] = q.chat]
            /\ Goes(w, [q EXCEPT !.at = "copy"])
    /\ UNCHANGED <<copied, blockers, started, crashes, because>>

(* Whether what is written to the copy of u is what the database has. *)
Judged(u, value) ==
    [because EXCEPT ![u] = IF telegram[u] = value THEN {} ELSE @ \union {"late"}]

Copy(q) == [copied EXCEPT ![q.who] = q.chat]

WriteCopy(w) ==
    LET q == works[w] IN
    /\ q.at = "copy"
    /\ copied' = Copy(q)
    /\ because' = Judged(q.who, q.chat)
    /\ Goes(w, Rest)
    /\ UNCHANGED <<telegram, blockers, started, crashes>>

(* An operation that dies after its commit leaves the copy as it was. *)
Crash(w) ==
    LET q == works[w] IN
    /\ q # Rest /\ crashes < MaxCrashes
    /\ crashes' = crashes + 1
    /\ because' = IF q.at = "copy" THEN [because EXCEPT ![q.who] = @ \union {"died"}] ELSE because
    /\ Goes(w, Rest)
    /\ UNCHANGED <<telegram, copied, blockers, started>>

---------------------------------------------------------------------------
(* The bot. *)
LookUp(w) ==
    LET q == works[w] IN
    /\ q.at = "sent" /\ q.what = "tell"
    /\ Goes(w, IF copied[q.who] = NoChat THEN Rest
               ELSE [q EXCEPT !.at = "told", !.chat = copied[q.who]])
    /\ UNCHANGED <<telegram, copied, blockers, started, crashes, because>>

(* The copy is deleted by its user, whatever chat it names by now. *)
Tell(w) ==
    LET q == works[w] IN
    /\ q.at = "told"
    /\ IF q.chat \in blockers
       THEN /\ copied' = [copied EXCEPT ![q.who] = NoChat]
            /\ because' = [because EXCEPT ![q.who] = @ \union {"blocked"}]
       ELSE UNCHANGED <<copied, because>>
    /\ Goes(w, Rest)
    /\ UNCHANGED <<telegram, blockers, started, crashes>>

(* Thirty days without a link or a login. *)
CopyExpires(u) ==
    /\ copied[u] # NoChat
    /\ copied' = [copied EXCEPT ![u] = NoChat]
    /\ because' = [because EXCEPT ![u] = @ \union {"expired"}]
    /\ UNCHANGED <<telegram, blockers, works, started, crashes>>

BlockOrUnblock(c) ==
    /\ blockers' = IF c \in blockers THEN blockers \ {c} ELSE blockers \union {c}
    /\ UNCHANGED <<telegram, copied, works, started, crashes, because>>

TelegramNext ==
    \/ Begins
    \/ \E w \in DOMAIN works :
         FindByChat(w) \/ LoadUser(w) \/ CommitLink(w) \/ WriteCopy(w) \/ Crash(w)
           \/ LookUp(w) \/ Tell(w)
    \/ \E u \in Account : CopyExpires(u)
    \/ \E c \in Chat : BlockOrUnblock(c)

TelegramSpec == TelegramInit /\ [][TelegramNext]_linkVars

---------------------------------------------------------------------------
(* An operation on u has committed and has yet to write the copy. *)
CopyDue(u) == \E w \in DOMAIN works : works[w].at = "copy" /\ works[w].who = u

(* The chat the bot writes to is the user's, unless an operation has still to   *)
(* write the copy, died before it, or wrote it after another had changed the     *)
(* database: commits and copies of two operations cross (service.py 226-232,      *)
(* 162-187, 197-223).                                                               *)
RightChat ==
    \A u \in Account :
      copied[u] \notin {NoChat, telegram[u]} =>
        CopyDue(u) \/ because[u] \intersect {"died", "late"} # {}

(* A linked user is told nothing only if his copy expired, the bot found a chat   *)
(* of his that blocked it, perhaps an older one (handlers.py 23-27, 80-82), or     *)
(* for one of these reasons; the next login of the Mini App writes it again.        *)
MuteForAReason ==
    \A u \in Account :
      telegram[u] \in Chat /\ copied[u] = NoChat => CopyDue(u) \/ because[u] # {}

(* The bot tells each user in his own chat, but for the cases named. *)
BindingSound == TelegramTypeOK /\ RightChat /\ MuteForAReason
=============================================================================
