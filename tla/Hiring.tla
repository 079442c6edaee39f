------------------------------- MODULE Hiring -------------------------------
(***************************************************************************)
(* How somebody becomes staff of a restaurant, and ceases to be: requests,  *)
(* the vendor's decisions, profiles, the permissions of their users, and the  *)
(* two lists on the vendor's page.  Every check reads, every write commits     *)
(* for itself: accepting a request takes two transactions.                       *)
(*                                                                                *)
(* Abstracted: of the permissions only those of the staff; messages, roles, the    *)
(* pages of the lists; the restaurants are hiring and are one vendor's; whether     *)
(* the 24 hours after a rejection are over is chosen when it is asked.                *)
(***************************************************************************)
EXTENDS Integers, Sequences, FiniteSets

CONSTANTS
    Candidate,     \* users who apply
    Site,          \* restaurants of the vendor
    Jobs,          \* bound: requests in flight at once
    MaxRequests,   \* bound: applications written
    MaxStarts,     \* bound: what the users and the vendor start
    MaxLost        \* bound: requests that die, answers that are lost

ASSUME HiringAssumption ==
    /\ Candidate # {} /\ Site # {}
    /\ {Jobs, MaxRequests, MaxStarts, MaxLost} \subseteq Nat

VARIABLES
    request,       \* staff_requests, in the order of their creation
    profile,       \* staff_profiles, in that order; FALSE once deleted
    allowed,       \* the users whose permissions include those of the staff
    jobs,          \* the requests in flight
    wall, team,    \* staffRequests and staffMembers on the vendor's page
    removing,      \* staffMemberRemoving, 0 if none
    starts, lost,
    twist          \* what has crossed, and whom it was about

hiringVars == <<request, profile, allowed, jobs, wall, team, removing, starts, lost, twist>>

Deciding == {"ACCEPTED", "REJECTED"}
RequestStatus == Deciding \union {"PENDING"}
Off == [at |-> "off"]
Job == [at : {"sent", "free", "loaded", "read", "writing", "refusing", "answered", "failed"},
        what : {"apply", "decide", "remove", "wall", "team"}, who : Candidate, site : Site,
        here : BOOLEAN, id : 0 .. (MaxRequests + MaxStarts), to : Deciding, was : RequestStatus, seen : BOOLEAN,
        requests : Seq(RequestStatus), got : SUBSET (1 .. MaxStarts)]

HiringTypeOK ==
    /\ request \in Seq([by : Candidate, at : Site, is : RequestStatus])
    /\ profile \in Seq([of : Candidate, alive : BOOLEAN])
    /\ Len(request) <= MaxRequests /\ Len(profile) <= MaxStarts
    /\ allowed \subseteq Candidate
    /\ jobs \in [1 .. Jobs -> Job \union {Off}]
    /\ wall \in Seq(RequestStatus) /\ Len(wall) <= Len(request)
    /\ team \subseteq DOMAIN profile /\ removing \in DOMAIN profile \union {0}
    /\ starts \in 0 .. MaxStarts /\ lost \in 0 .. MaxLost
    /\ twist \subseteq {"twin", "again", "died", "stale", "refused", "overtaken", "elsewhere", "lost"}

HiringInit ==
    /\ request = <<>> /\ profile = <<>> /\ allowed = {}
    /\ jobs = [j \in 1 .. Jobs |-> Off]
    /\ wall = <<>> /\ team = {} /\ removing = 0
    /\ starts = 0 /\ lost = 0 /\ twist = {}

---------------------------------------------------------------------------
(* What is started. *)
Fresh(what, u, s, id, to) ==
    [at |-> "sent", what |-> what, here |-> TRUE, who |-> u, site |-> s, id |-> id, to |-> to,
     was |-> "PENDING", seen |-> FALSE, requests |-> <<>>, got |-> {}]

Begins(job) ==
    /\ starts < MaxStarts /\ starts' = starts + 1
    /\ \E j \in 1 .. Jobs :
         /\ jobs[j] = Off /\ \A k \in 1 .. Jobs : jobs[k] = Off => j <= k
         /\ jobs' = [jobs EXCEPT ![j] = job]
    /\ UNCHANGED <<request, profile, allowed, wall, team, lost, twist>>

Starts(what, u, s, id, to) == Begins(Fresh(what, u, s, id, to))

AnySite == CHOOSE s \in Site : TRUE
Anyone == CHOOSE u \in Candidate : TRUE

Apply(u, s) == Starts("apply", u, s, 0, "REJECTED") /\ UNCHANGED removing

(* The buttons of a request stay while one of them is answered. *)
Decide(r, d) ==
    /\ wall[r] = "PENDING"
    /\ Starts("decide", request[r].by, request[r].at, r, d)
    /\ UNCHANGED removing

Dismiss(p) ==
    /\ p \in team /\ removing # p
    /\ removing' = p
    /\ Starts("remove", profile[p].of, AnySite, p, "REJECTED")

(* The vendor has another page open, with lists of its own. *)
OtherPage ==
    /\ \/ \E r \in DOMAIN request, d \in Deciding :
            request[r].is = "PENDING"
              /\ Begins([Fresh("decide", request[r].by, request[r].at, r, d) EXCEPT !.here = FALSE])
       \/ \E p \in DOMAIN profile :
            profile[p].alive
              /\ Begins([Fresh("remove", profile[p].of, AnySite, p, "REJECTED") EXCEPT !.here = FALSE])
    /\ UNCHANGED removing

OpenList(what) ==
    what \in {"wall", "team"} /\ Starts(what, Anyone, AnySite, 0, "REJECTED") /\ UNCHANGED removing

---------------------------------------------------------------------------
(* The server. *)
Becomes(j, q) == jobs' = [jobs EXCEPT ![j] = q]
NowAt(j, step) == jobs' = [jobs EXCEPT ![j].at = step]
Reads == UNCHANGED <<request, profile, allowed, twist>>

HoldsProfile(u) == \E p \in DOMAIN profile : profile[p] = [of |-> u, alive |-> TRUE]
Made(u, s) == {r \in DOMAIN request : request[r].by = u /\ request[r].at = s}

(* Nobody applies who is staff anywhere. *)
ApplyChecksProfile(j) ==
    LET q == jobs[j] IN
    /\ q.what = "apply" /\ q.at = "sent"
    /\ NowAt(j, IF HoldsProfile(q.who) THEN "failed" ELSE "free")
    /\ Reads

(* The last request must not be pending, nor rejected a day ago or less. *)
LastIs(u, s, is) ==
    \E r \in Made(u, s) : request[r].is \in is /\ \A x \in Made(u, s) : x <= r

ApplyChecksLast(j) ==
    LET q == jobs[j] IN
    /\ q.what = "apply" /\ q.at = "free"
    /\ \/ ~LastIs(q.who, q.site, {"PENDING"}) /\ NowAt(j, "writing")
       \/ LastIs(q.who, q.site, {"PENDING", "REJECTED"}) /\ NowAt(j, "failed")
    /\ Reads

InsertRequest(j) ==
    LET q == jobs[j] IN
    /\ q.what = "apply" /\ q.at = "writing" /\ Len(request) < MaxRequests
    /\ request' = Append(request, [by |-> q.who, at |-> q.site, is |-> "PENDING"])
    /\ twist' = IF \E r \in Made(q.who, q.site) : request[r].is = "PENDING"
                THEN twist \union {"twin"} ELSE twist
    /\ NowAt(j, "answered")
    /\ UNCHANGED <<profile, allowed>>

(* The request is loaded, and whatever its status is decided. *)
DecideLoads(j) ==
    LET q == jobs[j] IN
    /\ q.what = "decide" /\ q.at = "sent"
    /\ Becomes(j, [q EXCEPT !.was = request[q.id].is,
                            !.at = IF q.to = "ACCEPTED" THEN "loaded" ELSE "writing"])
    /\ Reads

(* Somebody who is staff by now is refused, and the request with him. *)
DecideChecksProfile(j) ==
    LET q == jobs[j] IN
    /\ q.what = "decide" /\ q.at = "loaded"
    /\ IF HoldsProfile(q.who) THEN Becomes(j, [q EXCEPT !.at = "refusing", !.to = "REJECTED"])
                              ELSE NowAt(j, "free")
    /\ Reads

RemoveLoads(j) ==
    LET q == jobs[j] IN
    /\ q.what = "remove" /\ q.at = "sent"
    /\ NowAt(j, IF profile[q.id].alive THEN "free" ELSE "failed")
    /\ Reads

(* The permissions are read here and written with the profile. *)
ReadPermissions(j) ==
    LET q == jobs[j] IN
    /\ q.what \in {"decide", "remove"} /\ q.at = "free"
    /\ Becomes(j, [q EXCEPT !.at = "read", !.seen = q.who \in allowed])
    /\ Reads

(* A list that is as it was loaded is not written. *)
Mistake_Granted(q) == allowed
Granted(q) == IF q.seen THEN allowed ELSE allowed \union {q.who}
Withdrawn(q) == IF q.seen THEN allowed \ {q.who} ELSE allowed

Stale(q) == q.seen # (q.who \in allowed)

(* One profile per user: the second of two is refused by the index. *)
Hire(j) ==
    LET q == jobs[j] IN
    /\ q.what = "decide" /\ q.at = "read"
    /\ IF HoldsProfile(q.who)
       THEN NowAt(j, "failed") /\ UNCHANGED <<profile, allowed, twist>>
       ELSE /\ profile' = Append(profile, [of |-> q.who, alive |-> TRUE])
            /\ allowed' = Granted(q)
            /\ twist' = IF Stale(q) THEN twist \union {"stale"} ELSE twist
            /\ NowAt(j, "writing")
    /\ UNCHANGED request

(* A profile that is gone by now is not missed. *)
Fire(j) ==
    LET q == jobs[j] IN
    /\ q.what = "remove" /\ q.at = "read"
    /\ profile' = [profile EXCEPT ![q.id].alive = FALSE]
    /\ allowed' = Withdrawn(q)
    /\ twist' = IF Stale(q) \/ ~profile[q.id].alive THEN twist \union {"stale"} ELSE twist
    /\ NowAt(j, "answered")
    /\ UNCHANGED request

WriteDecision(j) ==
    LET q == jobs[j]
        done == IF q.at = "refusing" THEN {"refused"} ELSE {}
        second == IF request[q.id].is # "PENDING" THEN {"again"} ELSE {}
    IN
    /\ q.what = "decide" /\ q.at \in {"writing", "refusing"}
    /\ request' = IF q.was = q.to THEN request ELSE [request EXCEPT ![q.id].is = q.to]
    /\ twist' = twist \union done \union second
    /\ NowAt(j, IF q.at = "refusing" THEN "failed" ELSE "answered")
    /\ UNCHANGED <<profile, allowed>>

ServeLists(j) ==
    LET q == jobs[j] IN
    /\ q.what \in {"wall", "team"} /\ q.at = "sent"
    /\ Becomes(j, [q EXCEPT !.at = "answered",
                            !.requests = [r \in DOMAIN request |-> request[r].is],
                            !.got = {p \in DOMAIN profile : profile[p].alive}])
    /\ Reads

Serve(j) ==
    /\ \/ ApplyChecksProfile(j) \/ ApplyChecksLast(j) \/ InsertRequest(j)
       \/ DecideLoads(j) \/ DecideChecksProfile(j) \/ RemoveLoads(j)
       \/ ReadPermissions(j) \/ Hire(j) \/ Fire(j) \/ WriteDecision(j) \/ ServeLists(j)
    /\ UNCHANGED <<wall, team, removing, starts, lost>>

(* A request dies, or its answer is lost; what is committed stays. *)
LoseJob(j) ==
    LET q == jobs[j] IN
    /\ q # Off /\ q.at # "failed" /\ lost < MaxLost
    /\ lost' = lost + 1
    /\ twist' = twist \union {"lost"}
         \union (IF q.what = "decide" /\ q.at = "writing" /\ q.to = "ACCEPTED" THEN {"died"} ELSE {})
    /\ NowAt(j, "failed")
    /\ UNCHANGED <<request, profile, allowed, wall, team, removing, starts>>

---------------------------------------------------------------------------
(* The vendor's page. *)
Others(j) == {k \in 1 .. Jobs : k # j /\ jobs[k] # Off /\ jobs[k].what # "apply"}

ReceiveVerdict(j) ==
    LET q == jobs[j] IN
    /\ q.what = "decide" /\ q.at = "answered" /\ q.here
    /\ wall' = [r \in DOMAIN wall |-> IF r = q.id THEN q.to ELSE wall[r]]
    /\ Becomes(j, IF q.to = "ACCEPTED" THEN Fresh("team", Anyone, AnySite, 0, "REJECTED") ELSE Off)
    /\ UNCHANGED <<team, removing>>

ReceiveStaffList(j) ==
    LET q == jobs[j] IN
    /\ q.what \in {"wall", "team"} /\ q.at = "answered"
    /\ wall' = IF q.what = "wall" THEN q.requests ELSE wall
    /\ team' = IF q.what = "team" THEN q.got ELSE team
    /\ Becomes(j, Off)
    /\ UNCHANGED removing

(* Whichever removal ends, no button waits any more. *)
ReceiveRemoval(j) ==
    LET q == jobs[j] IN
    /\ q.what = "remove" /\ q.at \in {"answered", "failed"} /\ q.here
    /\ team' = IF q.at = "answered" THEN team \ {q.id} ELSE team
    /\ removing' = 0
    /\ Becomes(j, Off)
    /\ UNCHANGED wall

ReceiveNothing(j) ==
    LET q == jobs[j] IN
    /\ \/ q.at = "failed" /\ (q.what # "remove" \/ ~q.here)
       \/ q.at = "answered" /\ (q.what = "apply" \/ ~q.here)
    /\ Becomes(j, Off)
    /\ UNCHANGED <<wall, team, removing>>

ReceiveJob(j) ==
    /\ jobs[j] # Off
    /\ ReceiveVerdict(j) \/ ReceiveStaffList(j) \/ ReceiveRemoval(j) \/ ReceiveNothing(j)
    /\ twist' = twist
         \union (IF Others(j) # {} /\ jobs[j].what # "apply" THEN {"overtaken"} ELSE {})
         \union (IF ~jobs[j].here THEN {"elsewhere"} ELSE {})
    /\ UNCHANGED <<request, profile, allowed, starts, lost>>

HiringNext ==
    \/ \E u \in Candidate, s \in Site : Apply(u, s)
    \/ \E r \in DOMAIN wall, d \in Deciding : Decide(r, d)
    \/ \E p \in team : Dismiss(p)
    \/ OtherPage
    \/ \E what \in {"wall", "team"} : OpenList(what)
    \/ \E j \in 1 .. Jobs : jobs[j] # Off /\ (Serve(j) \/ LoseJob(j) \/ ReceiveJob(j))

HiringSpec == HiringInit /\ [][HiringNext]_hiringVars

---------------------------------------------------------------------------
(* Who has a profile may work and nobody else may, unless permissions were      *)
(* written that were read before another hired or dismissed the same person, or  *)
(* a profile was dismissed that was already gone (crud.py 105-115, 152-157).       *)
WorkersMayWork ==
    "stale" \notin twist => allowed = {u \in Candidate : HoldsProfile(u)}

(* One request of a user waits at a restaurant, unless two were checked before   *)
(* either was written (service.py 36-46).                                          *)
OneWaits ==
    "twin" \notin twist =>
      \A u \in Candidate, s \in Site :
        Cardinality({r \in Made(u, s) : request[r].is = "PENDING"}) <= 1

(* Whoever works has a request that says ACCEPTED, or is about to, unless the    *)
(* second commit of the acceptance never came, or the request was decided again    *)
(* by a vendor whose page still had its buttons (service.py 56-62).                  *)
AcceptingJob(u) ==
    \E j \in 1 .. Jobs : /\ jobs[j] # Off /\ jobs[j].what = "decide" /\ jobs[j].who = u
                         /\ jobs[j].at = "writing" /\ jobs[j].to = "ACCEPTED"
WorkersWereAccepted ==
    \A u \in Candidate : HoldsProfile(u) =>
      \/ \E r \in DOMAIN request : request[r].by = u /\ request[r].is = "ACCEPTED"
      \/ AcceptingJob(u) \/ twist \intersect {"died", "again"} # {}

(* When nothing is under way the page shows the requests it has with their        *)
(* decisions and the staff there is, unless answers crossed or were lost, another    *)
(* page decided, or an acceptance was refused: that rejects the request behind the page's back            *)
(* (service.py 57-59, VendorDashboardPage.jsx 841-869).                                *)
ListsTrue ==
    (\A j \in 1 .. Jobs : jobs[j] = Off) =>
      /\ twist \intersect {"lost", "overtaken", "elsewhere", "refused"} = {} =>
           \A r \in DOMAIN wall : wall[r] = request[r].is
      /\ twist \intersect {"lost", "overtaken", "elsewhere"} = {} =>
           \A p \in team : profile[p].alive

(* Requests, profiles, permissions and the vendor's page agree. *)
HiringSound == HiringTypeOK /\ WorkersMayWork /\ OneWaits /\ WorkersWereAccepted /\ ListsTrue
=============================================================================
