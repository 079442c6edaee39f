--------------------------- MODULE ResponseCache ---------------------------
(***************************************************************************)
(* The answers to GETs that AutoCacheMiddleware keeps for strangers: under a *)
(* key of the path and the query for five minutes, and in a set, the tag, of   *)
(* the keys whose paths begin alike.  Another method from a stranger forgets    *)
(* the keys of its tag before it is passed on; with credentials a request        *)
(* passes the cache by, so that no change of a signed-in user forgets anything.   *)
(*                                                                                  *)
(* Abstracted: one tag; an answer is the number of changes it shows, and a           *)
(* stranger's own request changes nothing that is shown; time is a clock of ticks.    *)
(***************************************************************************)
EXTENDS Integers, Sequences, FiniteSets

CONSTANTS
    Address,       \* paths with their queries
    Lifetime,      \* ttl, in ticks
    Visits,        \* bound: requests of strangers in flight at once
    MaxVisits,     \* bound: requests of strangers
    MaxEdits,      \* bound: changes by signed-in users
    MaxTicks,      \* bound: the clock
    MaxSilences    \* bound: commands that Redis fails, requests that die

ASSUME ResponseCacheAssumption ==
    /\ Lifetime \in Nat \ {0}
    /\ {Visits, MaxVisits, MaxEdits, MaxTicks, MaxSilences} \subseteq Nat

VARIABLES
    tick,
    edits,         \* when each change was made, in their order
    shelf,         \* what is kept for each address
    tag,           \* the keys in the set
    visits,        \* the requests in flight
    purges,        \* how often the set was emptied
    begun, silences,
    gap            \* of each key, why the set may not have it

cacheVars == <<tick, edits, shelf, tag, visits, purges, begun, silences, gap>>

Bare == [is |-> "bare"]
Gone == [at |-> "gone"]
CacheEntry == [is : {"kept"}, shows : 0 .. MaxEdits, until : 0 .. (MaxTicks + Lifetime),
          purges : 0 .. MaxVisits, late : BOOLEAN]
Visit == [at : {"get", "missed", "loaded", "set", "other", "read"}, address : Address,
          shows : 0 .. MaxEdits, keys : SUBSET Address]

CacheTypeOK ==
    /\ tick \in 0 .. MaxTicks
    /\ edits \in Seq(0 .. MaxTicks) /\ Len(edits) <= MaxEdits
    /\ shelf \in [Address -> CacheEntry \union {Bare}]
    /\ tag \subseteq Address
    /\ visits \in [1 .. Visits -> Visit \union {Gone}]
    /\ purges \in 0 .. MaxVisits
    /\ begun \in 0 .. MaxVisits /\ silences \in 0 .. MaxSilences
    /\ gap \in [Address -> SUBSET {"untagged", "crossed"}]

CacheInit ==
    /\ tick = 0 /\ edits = <<>>
    /\ shelf = [a \in Address |-> Bare] /\ tag = {}
    /\ visits = [v \in 1 .. Visits |-> Gone]
    /\ purges = 0 /\ begun = 0 /\ silences = 0
    /\ gap = [a \in Address |-> {}]

---------------------------------------------------------------------------
(* A stranger's request, to be looked up or to empty the tag first. *)
Comes ==
    /\ begun < MaxVisits /\ begun' = begun + 1
    /\ \E v \in DOMAIN visits, how \in {"get", "other"}, a \in Address :
         /\ visits[v] = Gone /\ \A w \in DOMAIN visits : visits[w] = Gone => v <= w
         /\ visits' = [visits EXCEPT ![v] =
              [at |-> how, address |-> a, shows |-> 0, keys |-> {}]]
    /\ UNCHANGED <<tick, edits, shelf, tag, purges, silences, gap>>

Proceeds(v, q) == visits' = [visits EXCEPT ![v] = q]

(* What is kept is the answer. *)
LookIn(v) ==
    LET q == visits[v] IN
    /\ q.at = "get"
    /\ Proceeds(v, IF shelf[q.address] = Bare THEN [q EXCEPT !.at = "missed"] ELSE Gone)
    /\ UNCHANGED <<tick, edits, shelf, tag, purges, begun, silences, gap>>

MakeAnswer(v) ==
    LET q == visits[v] IN
    /\ q.at = "missed"
    /\ Proceeds(v, [q EXCEPT !.at = "loaded", !.shows = Len(edits)])
    /\ UNCHANGED <<tick, edits, shelf, tag, purges, begun, silences, gap>>

Emptying == \E v \in DOMAIN visits : visits[v].at = "read"

KeptAnswer(q, until) ==
    [is |-> "kept", shows |-> q.shows, until |-> until, purges |-> purges,
     late |-> q.shows < Len(edits)]

Mistake_Keep(q) == [shelf EXCEPT ![q.address] = KeptAnswer(q, MaxTicks + Lifetime)]
Keep(q) == [shelf EXCEPT ![q.address] = KeptAnswer(q, tick + Lifetime)]

KeepAnswer(v) ==
    LET q == visits[v] IN
    /\ q.at = "loaded"
    /\ shelf' = Keep(q)
    /\ gap' = [gap EXCEPT ![q.address] = IF Emptying THEN {"crossed"} ELSE {}]
    /\ Proceeds(v, [q EXCEPT !.at = "set"])
    /\ UNCHANGED <<tick, edits, tag, purges, begun, silences>>

TagKey(v) ==
    LET q == visits[v] IN
    /\ q.at = "set"
    /\ tag' = tag \union {q.address}
    /\ gap' = [gap EXCEPT ![q.address] =
         (@ \ {"untagged"}) \union (IF Emptying THEN {"crossed"} ELSE {})]
    /\ Proceeds(v, Gone)
    /\ UNCHANGED <<tick, edits, shelf, purges, begun, silences>>

ReadTag(v) ==
    LET q == visits[v] IN
    /\ q.at = "other"
    /\ Proceeds(v, [q EXCEPT !.at = "read", !.keys = tag])
    /\ UNCHANGED <<tick, edits, shelf, tag, purges, begun, silences, gap>>

(* The keys that were read go, and the set with whatever came to it since. *)
Forgotten(q) == [a \in Address |-> IF a \in q.keys THEN Bare ELSE shelf[a]]

EmptyTag(v) ==
    LET q == visits[v] IN
    /\ q.at = "read"
    /\ shelf' = Forgotten(q) /\ tag' = {}
    /\ purges' = purges + 1
    /\ gap' = [a \in Address |->
         IF \E w \in DOMAIN visits : visits[w].at = "set" /\ visits[w].address = a
         THEN gap[a] \union {"crossed"} ELSE gap[a]]
    /\ Proceeds(v, Gone)
    /\ UNCHANGED <<tick, edits, begun, silences>>

(* Redis fails a command and the request goes on without it, or it dies. *)
Silence(v) ==
    LET q == visits[v] IN
    /\ q # Gone /\ silences < MaxSilences
    /\ silences' = silences + 1
    /\ gap' = IF q.at = "set" THEN [gap EXCEPT ![q.address] = @ \union {"untagged"}] ELSE gap
    /\ Proceeds(v, Gone)
    /\ UNCHANGED <<tick, edits, shelf, tag, purges, begun>>

(* A signed-in user changes what is shown. *)
ChangeWhatIsShown ==
    /\ Len(edits) < MaxEdits /\ edits' = Append(edits, tick)
    /\ UNCHANGED <<tick, shelf, tag, visits, purges, begun, silences, gap>>

Tick ==
    /\ tick < MaxTicks /\ tick' = tick + 1
    /\ shelf' = [a \in Address |->
         IF shelf[a] # Bare /\ shelf[a].until <= tick' THEN Bare ELSE shelf[a]]
    /\ UNCHANGED <<edits, tag, visits, purges, begun, silences, gap>>

CacheNext ==
    \/ Comes
    \/ \E v \in DOMAIN visits :
         \/ LookIn(v) \/ MakeAnswer(v) \/ KeepAnswer(v) \/ TagKey(v)
         \/ ReadTag(v) \/ EmptyTag(v) \/ Silence(v)
    \/ ChangeWhatIsShown
    \/ Tick

CacheSpec == CacheInit /\ [][CacheNext]_cacheVars

---------------------------------------------------------------------------
(* What is kept can be forgotten: its key is in the tag, unless it has yet to   *)
(* come there, its request died before, or the tag was emptied across it          *)
(* (cache.py 96-98 against 113-114).                                                *)
KeptIsTagged ==
    \A a \in Address : shelf[a] # Bare =>
      \/ a \in tag \/ gap[a] # {}
      \/ \E v \in DOMAIN visits : visits[v].at = "set" /\ visits[v].address = a

(* Nothing kept before the tag was emptied is still there after it, but so. *)
EmptyingForgets ==
    \A a \in Address : shelf[a] # Bare /\ shelf[a].purges < purges => gap[a] # {}

(* A stranger is shown what was changed no longer than a lifetime ago, although  *)
(* no change tells the cache - unless the answer was made before the change and    *)
(* kept after it, as slow as it was (88-96).                                         *)
StaleForALifetime ==
    \A a \in Address : shelf[a] # Bare /\ shelf[a].shows < Len(edits) =>
      shelf[a].late \/ tick - edits[shelf[a].shows + 1] < Lifetime

(* The cache forgets what it should, when it should, but for the cases named. *)
CacheSound == CacheTypeOK /\ KeptIsTagged /\ EmptyingForgets /\ StaleForALifetime
=============================================================================
