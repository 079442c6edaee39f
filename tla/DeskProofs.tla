----------------------------- MODULE DeskProofs -----------------------------
(***************************************************************************)
(* Proofs about the desks of the restaurants: hiring, the board of the     *)
(* staff, the dashboard of the vendor and the menu on it.                  *)
(***************************************************************************)
EXTENDS DeskProps, Hiring, FiniteSetTheorems, TLAPS

-----------------------------------------------------------------------------
(* Hiring.  A decision and a removal know whom their row is about; a profile *)
(* that is made has a start that asked for it.                               *)
Application == [by : Candidate, at : Site, is : RequestStatus]
Contract == [of : Candidate, alive : BOOLEAN]

Hires(q) == q # Off /\ q.what = "decide" /\ q.at \in {"sent", "loaded", "free", "read"}
Hirers == {j \in 1 .. Jobs : Hires(jobs[j])}

Aims(q) ==
  /\ q.what = "decide" =>
       /\ q.id \in DOMAIN request /\ q.who = request[q.id].by
       /\ q.at \in {"loaded", "free", "read"} => q.to = "ACCEPTED"
       /\ q.was # "PENDING" => request[q.id].is # "PENDING"
  /\ q.what = "remove" => q.id \in DOMAIN profile /\ q.who = profile[q.id].of
  /\ Len(q.requests) <= Len(request) /\ q.got \subseteq DOMAIN profile

JobsAim == \A j \in 1 .. Jobs : jobs[j] # Off => Aims(jobs[j])
ProfilesCounted == Len(profile) + Cardinality(Hirers) <= starts

(* One living profile of a person; of a person's requests one is pending. *)
OneProfile ==
  \A p, o \in DOMAIN profile :
    profile[p].alive /\ profile[o].alive /\ profile[p].of = profile[o].of => p = o

OnePends ==
  "twin" \notin twist =>
    \A r, x \in DOMAIN request :
      /\ request[r].is = "PENDING" /\ request[x].is = "PENDING"
      /\ request[r].by = request[x].by /\ request[r].at = request[x].at
      => r = x

(* While the page waits for one answer at most, its lists are the server's  *)
(* but for what that answer will change in them.                            *)
PageJobs == {j \in 1 .. Jobs : jobs[j] # Off /\ jobs[j].what # "apply"}
OneAnswer == \A j, k \in PageJobs : j = k

Undecided == {"loaded", "free", "read", "writing"}
Fits(q) ==
  /\ q.what = "decide" /\ q.at = "answered" => request[q.id].is = q.to
  /\ q.what = "decide" /\ q.at \in Undecided => request[q.id].is = q.was
  /\ q.what = "wall" /\ q.at = "answered" =>
       \A r \in DOMAIN q.requests : q.requests[r] = request[r].is

WallFollows ==
  twist \intersect {"lost", "overtaken", "elsewhere", "refused"} = {} /\ OneAnswer =>
    /\ \A r \in DOMAIN wall :
         \/ wall[r] = request[r].is
         \/ \E j \in PageJobs : /\ jobs[j].what = "decide" /\ jobs[j].at = "answered"
                                /\ jobs[j].id = r
    /\ \A j \in PageJobs : Fits(jobs[j])

Lists(q) ==
  q.what = "team" /\ q.at = "answered" => \A p \in q.got : profile[p].alive

TeamFollows ==
  twist \intersect {"lost", "overtaken", "elsewhere"} = {} /\ OneAnswer =>
    /\ \A p \in team :
         \/ profile[p].alive
         \/ \E j \in PageJobs : /\ jobs[j].what = "remove" /\ jobs[j].at = "answered"
                                /\ jobs[j].id = p
    /\ \A j \in PageJobs : Lists(jobs[j])

HiringWell == HiringTypeOK /\ JobsAim /\ ProfilesCounted
HiringInv ==
  /\ HiringWell /\ OneProfile /\ WorkersMayWork /\ OnePends /\ WorkersWereAccepted
  /\ WallFollows /\ TeamFollows

-----------------------------------------------------------------------------
(* Sequences. *)
LEMMA EntryIn ==
  ASSUME NEW T, NEW s \in Seq(T)
  PROVE  /\ Len(s) \in Nat /\ DOMAIN s = 1 .. Len(s)
         /\ \A i \in DOMAIN s : s[i] \in T
  OBVIOUS

LEMMA EntryAdded ==
  ASSUME NEW T, NEW s \in Seq(T), NEW t \in T
  PROVE  /\ Append(s, t) \in Seq(T) /\ Len(Append(s, t)) = Len(s) + 1
         /\ DOMAIN Append(s, t) = 1 .. (Len(s) + 1)
         /\ \A i \in DOMAIN s : Append(s, t)[i] = s[i]
         /\ Append(s, t)[Len(s) + 1] = t
<1>1. Len(s) \in Nat /\ DOMAIN s = 1 .. Len(s)
  OBVIOUS
<1>2. Append(s, t) \in Seq(T) /\ Len(Append(s, t)) = Len(s) + 1
  OBVIOUS
<1>3. DOMAIN Append(s, t) = 1 .. (Len(s) + 1)
  BY <1>2
<1>4. \A i \in 1 .. Len(s) : Append(s, t)[i] = s[i]
  BY <1>1
<1>5. Append(s, t)[Len(s) + 1] = t
  BY <1>1
<1> QED BY <1>1, <1>2, <1>3, <1>4, <1>5

LEMMA EntryChanged ==
  ASSUME NEW T, NEW s \in Seq(T), NEW i \in DOMAIN s, NEW t \in T,
         NEW v, v = [s EXCEPT ![i] = t]
  PROVE  /\ v \in Seq(T) /\ Len(v) = Len(s) /\ DOMAIN v = DOMAIN s
         /\ v[i] = t /\ \A k \in DOMAIN s : k # i => v[k] = s[k]
  OBVIOUS

LEMMA EntriesOf ==
  ASSUME NEW T, NEW n \in Nat, NEW s, DOMAIN s = 1 .. n, s = [k \in 1 .. n |-> s[k]],
         \A k \in 1 .. n : s[k] \in T
  PROVE  s \in Seq(T) /\ Len(s) = n
  OBVIOUS

-----------------------------------------------------------------------------
LEMMA HiringBounds ==
  /\ Jobs \in Nat /\ MaxRequests \in Nat /\ MaxStarts \in Nat /\ MaxLost \in Nat
  /\ AnySite \in Site /\ Anyone \in Candidate
BY HiringAssumption DEF AnySite, Anyone

LEMMA JobIs ==
  ASSUME HiringTypeOK, NEW j \in 1 .. Jobs, jobs[j] # Off
  PROVE  jobs[j] \in Job
  BY DEF HiringTypeOK

LEMMA JobFields ==
  ASSUME NEW q \in Job
  PROVE  /\ q # Off /\ q.who \in Candidate /\ q.site \in Site /\ q.here \in BOOLEAN
         /\ q.id \in 0 .. (MaxRequests + MaxStarts) /\ q.to \in Deciding
         /\ q.was \in RequestStatus /\ q.seen \in BOOLEAN
         /\ q.requests \in Seq(RequestStatus) /\ q.got \subseteq 1 .. MaxStarts
         /\ q.at \in {"sent", "free", "loaded", "read", "writing", "refusing", "answered", "failed"}
         /\ q.what \in {"apply", "decide", "remove", "wall", "team"}
<1>1. q # Off
  BY DEF Job, Off
<1> QED BY <1>1 DEF Job

LEMMA HiringRows ==
  ASSUME HiringTypeOK
  PROVE  /\ request \in Seq(Application) /\ profile \in Seq(Contract)
         /\ Len(request) \in Nat /\ DOMAIN request = 1 .. Len(request)
         /\ Len(profile) \in Nat /\ DOMAIN profile = 1 .. Len(profile)
         /\ \A r \in DOMAIN request : request[r] \in Application
         /\ \A p \in DOMAIN profile : profile[p] \in Contract
         /\ starts \in Nat
<1>1. request \in Seq(Application) /\ profile \in Seq(Contract) /\ starts \in 0 .. MaxStarts
  BY DEF HiringTypeOK, Application, Contract
<1>2. starts \in Nat
  BY <1>1, HiringBounds
<1> QED BY <1>1, <1>2, EntryIn

(* One job is replaced; the others stay. *)
Replaced(j, v) == jobs' = [jobs EXCEPT ![j] = v]

LEMMA JobReplaced ==
  ASSUME HiringTypeOK, NEW j \in 1 .. Jobs, NEW v \in Job \union {Off}, Replaced(j, v)
  PROVE  /\ jobs' \in [1 .. Jobs -> Job \union {Off}]
         /\ jobs'[j] = v /\ \A k \in 1 .. Jobs : k # j => jobs'[k] = jobs[k]
  BY DEF HiringTypeOK, Replaced

LEMMA HirersFinite == IsFiniteSet(Hirers) /\ Cardinality(Hirers) \in Nat
<1>1. IsFiniteSet(1 .. Jobs)
  BY FS_Interval, HiringBounds
<1>2. Hirers \subseteq 1 .. Jobs
  BY DEF Hirers
<1> QED BY <1>1, <1>2, FS_Subset, FS_CardinalityType

LEMMA HirersChange ==
  ASSUME HiringTypeOK, NEW j \in 1 .. Jobs, NEW v \in Job \union {Off}, Replaced(j, v)
  PROVE  /\ Cardinality(Hirers') \in Nat
         /\ Hires(jobs[j]) /\ Hires(v) => Cardinality(Hirers') = Cardinality(Hirers)
         /\ Hires(jobs[j]) /\ ~Hires(v) => Cardinality(Hirers') = Cardinality(Hirers) - 1
         /\ ~Hires(jobs[j]) /\ Hires(v) => Cardinality(Hirers') = Cardinality(Hirers) + 1
         /\ ~Hires(jobs[j]) /\ ~Hires(v) => Cardinality(Hirers') = Cardinality(Hirers)
<1>1. /\ jobs'[j] = v /\ \A k \in 1 .. Jobs : k # j => jobs'[k] = jobs[k]
  BY JobReplaced
<1>2. Hirers' = IF Hires(v) THEN Hirers \union {j} ELSE Hirers \ {j}
  BY <1>1 DEF Hirers, Hires
<1>3. j \in Hirers <=> Hires(jobs[j])
  BY DEF Hirers
<1>4. /\ IsFiniteSet(Hirers) /\ Cardinality(Hirers) \in Nat
      /\ j \notin Hirers => Cardinality(Hirers \union {j}) = Cardinality(Hirers) + 1
      /\ j \in Hirers => Cardinality(Hirers \ {j}) = Cardinality(Hirers) - 1
      /\ Cardinality(Hirers \ {j}) \in Nat
  BY HirersFinite, FS_AddElement, FS_RemoveElement, FS_Subset, FS_CardinalityType
<1>5. j \in Hirers => Hirers \union {j} = Hirers
  OBVIOUS
<1>6. j \notin Hirers => Hirers \ {j} = Hirers
  OBVIOUS
<1> QED BY <1>2, <1>3, <1>4, <1>5, <1>6

(* What never changes of the rows: what they are about, and that a decided  *)
(* request is not pending again.                                            *)
RowsGrow ==
  /\ Len(request) <= Len(request') /\ DOMAIN request \subseteq DOMAIN request'
  /\ \A r \in DOMAIN request :
       /\ request'[r].by = request[r].by /\ request'[r].at = request[r].at
       /\ request[r].is # "PENDING" => request'[r].is # "PENDING"
  /\ DOMAIN profile \subseteq DOMAIN profile'
  /\ \A p \in DOMAIN profile : profile'[p].of = profile[p].of

LEMMA AimsStay ==
  ASSUME HiringTypeOK, RowsGrow, NEW q \in Job, Aims(q), Len(request') \in Nat
  PROVE  Aims(q)'
<1>1. q.what = "decide" =>
        /\ q.id \in DOMAIN request' /\ q.who = request'[q.id].by
        /\ q.was # "PENDING" => request'[q.id].is # "PENDING"
  BY DEF Aims, RowsGrow
<1>2. q.what = "remove" => q.id \in DOMAIN profile' /\ q.who = profile'[q.id].of
  BY DEF Aims, RowsGrow
<1>3. Len(q.requests) <= Len(request')
  <2>1. q.requests \in Seq(RequestStatus)
    BY JobFields
  <2>2. /\ Len(q.requests) \in Nat /\ Len(request) \in Nat
        /\ Len(q.requests) <= Len(request) /\ Len(request) <= Len(request')
    BY <2>1, HiringRows, EntryIn DEF Aims, RowsGrow
  <2> QED BY <2>2
<1>4. q.got \subseteq DOMAIN profile'
  BY DEF Aims, RowsGrow
<1> QED BY <1>1, <1>2, <1>3, <1>4 DEF Aims

LEMMA JobsAimOn ==
  ASSUME HiringTypeOK, JobsAim, RowsGrow, Len(request') \in Nat,
         NEW j \in 1 .. Jobs, NEW v \in Job \union {Off}, Replaced(j, v),
         v # Off => Aims(v)'
  PROVE  JobsAim'
<1> SUFFICES ASSUME NEW k \in 1 .. Jobs, jobs'[k] # Off, NEW q, q = jobs'[k]
             PROVE  Aims(q)'
  BY DEF JobsAim, Aims
<1>1. CASE k = j
  BY <1>1, JobReplaced DEF Aims
<1>2. CASE k # j
  <2>1. q = jobs[k] /\ q \in Job /\ Aims(q)
    BY <1>2, JobReplaced, JobIs DEF JobsAim
  <2> QED BY <2>1, AimsStay
<1> QED BY <1>1, <1>2

-----------------------------------------------------------------------------
(* What serving a request makes of it while it writes nothing. *)
Steps == {"sent", "free", "loaded", "read", "writing", "refusing", "answered", "failed"}
Accepting(q) == q # Off /\ q.what = "decide" /\ q.at = "writing" /\ q.to = "ACCEPTED"

Alike(v, q) ==
  /\ v.what = q.what /\ v.who = q.who /\ v.site = q.site /\ v.here = q.here
  /\ v.id = q.id /\ v.was = q.was /\ v.requests = q.requests /\ v.got = q.got

LEMMA Stepped ==
  ASSUME NEW q \in Job, NEW step \in Steps, NEW v, v = [q EXCEPT !.at = step]
  PROVE  v \in Job /\ v.at = step /\ v.to = q.to /\ Alike(v, q)
  BY DEF Job, Steps, Alike

LEMMA NowAtIs ==
  ASSUME HiringTypeOK, NEW j \in 1 .. Jobs, jobs[j] # Off, NEW step \in Steps, NowAt(j, step)
  PROVE  \E v \in Job : /\ Replaced(j, v) /\ v.at = step /\ v.to = jobs[j].to
                        /\ Alike(v, jobs[j])
<1> DEFINE q == jobs[j]
           v == [q EXCEPT !.at = step]
<1>1. q \in Job
  BY JobIs
<1>2. Replaced(j, v)
  BY DEF NowAt, Replaced, HiringTypeOK
<1>3. v \in Job /\ v.at = step /\ v.to = q.to /\ Alike(v, q)
  BY <1>1, Stepped
<1> QED BY <1>2, <1>3

LEMMA AimsAlike ==
  ASSUME NEW q \in Job, Aims(q), NEW v \in Job, Alike(v, q),
         v.at \in {"loaded", "free", "read"} /\ v.what = "decide" => v.to = "ACCEPTED"
  PROVE  Aims(v)
  BY DEF Aims, Alike

Written == <<request, profile, allowed, wall, team, removing, starts, lost, twist>>

Served(j, v) ==
  /\ v \in Job /\ Replaced(j, v) /\ UNCHANGED Written
  /\ v.what = jobs[j].what /\ v.id = jobs[j].id
  /\ Aims(v)
  /\ (Hires(v) => Hires(jobs[j])) /\ ~Accepting(jobs[j])
  /\ v.at = "answered" => v.what \in {"wall", "team"}
  /\ (Fits(jobs[j]) => Fits(v)) /\ Lists(v)
  /\ jobs[j].at # "answered"

(* The steps that look and go on. *)
LEMMA LookServes ==
  ASSUME HiringWell, NEW j \in 1 .. Jobs, jobs[j] # Off, NEW step \in Steps, NowAt(j, step),
         UNCHANGED Written, jobs[j].at \in {"sent", "free", "loaded"},
         \/ jobs[j].what = "apply" /\ step \in {"failed", "free", "writing"}
         \/ jobs[j].what = "decide" /\ jobs[j].at = "loaded" /\ step = "free"
         \/ jobs[j].what = "remove" /\ step \in {"free", "failed"}
  PROVE  \E v : Served(j, v)
<1>1. PICK v \in Job : /\ Replaced(j, v) /\ v.at = step /\ v.to = jobs[j].to
                       /\ Alike(v, jobs[j])
  BY NowAtIs DEF HiringWell
<1> DEFINE q == jobs[j]
<1>2. q \in Job /\ Aims(q) /\ q # Off
  BY JobIs DEF HiringWell, JobsAim
<1>3. v.at \in {"loaded", "free", "read"} /\ v.what = "decide" => v.to = "ACCEPTED"
  BY <1>1, <1>2 DEF Aims, Alike
<1>4. Aims(v)
  BY <1>1, <1>2, <1>3, AimsAlike
<1>5. (Hires(v) => Hires(q)) /\ ~Accepting(q) /\ v.at # "answered"
  BY <1>1, <1>2 DEF Hires, Accepting, Alike
<1>6. (Fits(q) => Fits(v)) /\ Lists(v)
  BY <1>1, <1>5 DEF Fits, Lists, Alike, Undecided
<1> QED BY <1>1, <1>4, <1>5, <1>6 DEF Served, Alike

LEMMA DecideLoadsServes ==
  ASSUME HiringWell, NEW j \in 1 .. Jobs, jobs[j] # Off, DecideLoads(j),
         UNCHANGED <<wall, team, removing, starts, lost>>
  PROVE  \E v : Served(j, v)
<1> DEFINE q == jobs[j]
           is == request[q.id].is
           step == IF q.to = "ACCEPTED" THEN "loaded" ELSE "writing"
           v == [q EXCEPT !.was = is, !.at = step]
<1>1. q \in Job /\ Aims(q) /\ q # Off /\ q.what = "decide" /\ q.at = "sent"
  BY JobIs DEF HiringWell, JobsAim, DecideLoads
<1>2. Replaced(j, v) /\ UNCHANGED Written
  BY DEF DecideLoads, Becomes, Replaced, Reads, Written
<1>3. is \in RequestStatus
  BY <1>1, HiringRows DEF Aims, HiringWell, Application
<1>4. step \in {"loaded", "writing"} /\ (step = "loaded" => q.to = "ACCEPTED")
  OBVIOUS
<1> HIDE DEF is, step
<1>5. /\ v \in Job /\ v.what = q.what /\ v.id = q.id /\ v.who = q.who /\ v.to = q.to
      /\ v.at = step /\ v.was = is /\ v.requests = q.requests /\ v.got = q.got
  BY <1>1, <1>3, <1>4 DEF Job
<1> HIDE DEF v
<1>6. Aims(v)
  BY <1>1, <1>4, <1>5 DEF Aims, is
<1>7. Hires(q) /\ ~Accepting(q) /\ v.at # "answered" /\ q.at # "answered"
  BY <1>1, <1>4, <1>5 DEF Hires, Accepting
<1>8. Fits(v) /\ Lists(v)
  BY <1>1, <1>4, <1>5 DEF Fits, Lists, is
<1> QED BY <1>2, <1>5, <1>6, <1>7, <1>8 DEF Served

LEMMA DecideRefusesServes ==
  ASSUME HiringWell, NEW j \in 1 .. Jobs, jobs[j] # Off, DecideChecksProfile(j),
         UNCHANGED <<wall, team, removing, starts, lost>>
  PROVE  \E v : Served(j, v)
<1> DEFINE q == jobs[j]
           v == [q EXCEPT !.at = "refusing", !.to = "REJECTED"]
<1>1. q \in Job /\ Aims(q) /\ q # Off /\ q.what = "decide" /\ q.at = "loaded"
  BY JobIs DEF HiringWell, JobsAim, DecideChecksProfile
<1>2. UNCHANGED Written
  BY DEF DecideChecksProfile, Reads, Written
<1>3. CASE NowAt(j, "free")
  BY <1>1, <1>2, <1>3, LookServes DEF Steps
<1>4. CASE Becomes(j, v)
  <2>1. Replaced(j, v)
    BY <1>4 DEF Becomes, Replaced
  <2>2. v \in Job /\ v.at = "refusing" /\ Alike(v, q)
    BY <1>1 DEF Job, Alike, Deciding
  <2> HIDE DEF v
  <2>3. Aims(v)
    BY <1>1, <2>2, AimsAlike
  <2>4. ~Hires(v) /\ ~Accepting(q) /\ v.at # "answered" /\ q.at # "answered"
    BY <1>1, <2>2 DEF Hires, Accepting
  <2>5. Fits(v) /\ Lists(v)
    BY <1>1, <2>2 DEF Fits, Lists, Alike, Undecided
  <2> QED BY <1>2, <2>1, <2>2, <2>3, <2>4, <2>5 DEF Served, Alike
<1> QED BY <1>3, <1>4 DEF DecideChecksProfile

LEMMA ReadPermissionsServes ==
  ASSUME HiringWell, NEW j \in 1 .. Jobs, jobs[j] # Off, ReadPermissions(j),
         UNCHANGED <<wall, team, removing, starts, lost>>
  PROVE  \E v : Served(j, v)
<1> DEFINE q == jobs[j]
           may == q.who \in allowed
           v == [q EXCEPT !.at = "read", !.seen = may]
<1>1. q \in Job /\ Aims(q) /\ q # Off /\ q.what \in {"decide", "remove"} /\ q.at = "free"
  BY JobIs DEF HiringWell, JobsAim, ReadPermissions
<1>2. UNCHANGED Written /\ Replaced(j, v)
  BY DEF ReadPermissions, Becomes, Replaced, Reads, Written
<1>3. may \in BOOLEAN
  OBVIOUS
<1> HIDE DEF may
<1>4. v \in Job /\ v.at = "read" /\ Alike(v, q) /\ v.to = q.to
  BY <1>1, <1>3 DEF Job, Alike
<1> HIDE DEF v
<1>5. v.what = "decide" => v.to = "ACCEPTED"
  BY <1>1, <1>4 DEF Alike, Aims
<1>6. Aims(v)
  BY <1>1, <1>4, <1>5, AimsAlike
<1>7. (Hires(v) => Hires(q)) /\ ~Accepting(q) /\ v.at # "answered" /\ q.at # "answered"
  BY <1>1, <1>4 DEF Hires, Accepting, Alike
<1>8. (Fits(q) => Fits(v)) /\ Lists(v)
  BY <1>1, <1>4 DEF Fits, Lists, Alike, Undecided
<1> QED BY <1>2, <1>4, <1>6, <1>7, <1>8 DEF Served, Alike

LEMMA ListsServed ==
  ASSUME HiringWell, NEW j \in 1 .. Jobs, jobs[j] # Off, ServeLists(j),
         UNCHANGED <<wall, team, removing, starts, lost>>
  PROVE  \E v : Served(j, v)
<1> DEFINE q == jobs[j]
           page == [r \in DOMAIN request |-> request[r].is]
           living == {p \in DOMAIN profile : profile[p].alive}
           v == [q EXCEPT !.at = "answered", !.requests = page, !.got = living]
<1>1. q \in Job /\ q # Off /\ q.what \in {"wall", "team"} /\ q.at = "sent"
  BY JobIs DEF HiringWell, ServeLists
<1>2. UNCHANGED Written /\ Replaced(j, v)
  BY DEF ServeLists, Becomes, Replaced, Reads, Written
<1>3. /\ Len(request) \in Nat /\ DOMAIN request = 1 .. Len(request)
      /\ \A r \in DOMAIN request : request[r].is \in RequestStatus
      /\ Len(profile) \in Nat /\ DOMAIN profile = 1 .. Len(profile)
      /\ Len(profile) <= MaxStarts /\ MaxStarts \in Nat
  BY HiringRows, HiringBounds DEF HiringWell, Application, HiringTypeOK
<1>4. page \in Seq(RequestStatus) /\ Len(page) = Len(request)
  BY <1>3, EntriesOf
<1>5. living \subseteq DOMAIN profile /\ living \subseteq 1 .. MaxStarts
  BY <1>3
<1>6. /\ \A r \in DOMAIN page : page[r] = request[r].is
      /\ \A p \in living : profile[p].alive
  OBVIOUS
<1> HIDE DEF page, living
<1>7. /\ v \in Job /\ v.what = q.what /\ v.id = q.id /\ v.at = "answered"
      /\ v.requests = page /\ v.got = living
  BY <1>1, <1>4, <1>5 DEF Job
<1> HIDE DEF v
<1>8. Aims(v)
  BY <1>1, <1>3, <1>4, <1>5, <1>7 DEF Aims
<1>9. ~Hires(v) /\ ~Accepting(q) /\ q.at # "answered"
  BY <1>1, <1>7 DEF Hires, Accepting
<1>10. Fits(v) /\ Lists(v)
  BY <1>1, <1>6, <1>7 DEF Fits, Lists
<1> QED BY <1>1, <1>2, <1>7, <1>8, <1>9, <1>10 DEF Served

Glances(j) ==
  /\ \/ ApplyChecksProfile(j) \/ ApplyChecksLast(j) \/ DecideLoads(j) \/ DecideChecksProfile(j)
     \/ RemoveLoads(j) \/ ReadPermissions(j) \/ ServeLists(j)
  /\ UNCHANGED <<wall, team, removing, starts, lost>>

LEMMA LooksServe ==
  ASSUME HiringWell, NEW j \in 1 .. Jobs, jobs[j] # Off, Glances(j)
  PROVE  \E v : Served(j, v)
<1>1. CASE ApplyChecksProfile(j)
  <2>1. \E step \in {"failed", "free"} : NowAt(j, step)
    BY <1>1 DEF ApplyChecksProfile
  <2>2. UNCHANGED Written /\ jobs[j].what = "apply" /\ jobs[j].at = "sent"
    BY <1>1 DEF ApplyChecksProfile, Reads, Written, Glances
  <2> QED BY <2>1, <2>2, LookServes DEF Steps
<1>2. CASE ApplyChecksLast(j)
  <2>1. \E step \in {"failed", "writing"} : NowAt(j, step)
    BY <1>2 DEF ApplyChecksLast
  <2>2. UNCHANGED Written /\ jobs[j].what = "apply" /\ jobs[j].at = "free"
    BY <1>2 DEF ApplyChecksLast, Reads, Written, Glances
  <2> QED BY <2>1, <2>2, LookServes DEF Steps
<1>3. CASE RemoveLoads(j)
  <2>1. \E step \in {"failed", "free"} : NowAt(j, step)
    BY <1>3 DEF RemoveLoads
  <2>2. UNCHANGED Written /\ jobs[j].what = "remove" /\ jobs[j].at = "sent"
    BY <1>3 DEF RemoveLoads, Reads, Written, Glances
  <2> QED BY <2>1, <2>2, LookServes DEF Steps
<1> QED BY <1>1, <1>2, <1>3, DecideLoadsServes, DecideRefusesServes, ReadPermissionsServes,
     ListsServed DEF Glances

-----------------------------------------------------------------------------
(* What a change of one request does to each part of the invariant. *)
LEMMA AcceptedOn ==
  ASSUME HiringTypeOK, WorkersWereAccepted, twist \subseteq twist',
         NEW j \in 1 .. Jobs, NEW v \in Job \union {Off}, Replaced(j, v),
         \A u \in Candidate : HoldsProfile(u)' => HoldsProfile(u) \/ (Accepting(v) /\ v.who = u),
         \/ "again" \in twist'
         \/ \A r \in DOMAIN request : request[r].is = "ACCEPTED" =>
              /\ r \in DOMAIN request' /\ request'[r].by = request[r].by
              /\ request'[r].is = "ACCEPTED",
         Accepting(jobs[j]) =>
           \/ Accepting(v) /\ v.who = jobs[j].who
           \/ \E r \in DOMAIN request' : /\ request'[r].by = jobs[j].who
                                         /\ request'[r].is = "ACCEPTED"
           \/ twist' \intersect {"died", "again"} # {}
  PROVE  WorkersWereAccepted'
<1> SUFFICES ASSUME NEW u \in Candidate, HoldsProfile(u)',
                    twist' \intersect {"died", "again"} = {}
             PROVE  \/ \E r \in DOMAIN request' : request'[r].by = u /\ request'[r].is = "ACCEPTED"
                    \/ AcceptingJob(u)'
  BY DEF WorkersWereAccepted
<1>1. /\ jobs'[j] = v /\ \A k \in 1 .. Jobs : k # j => jobs'[k] = jobs[k]
  BY JobReplaced
<1>2. Accepting(v) /\ v.who = u => AcceptingJob(u)'
  BY <1>1 DEF Accepting, AcceptingJob
<1>3. CASE HoldsProfile(u)
  <2>1. \/ \E r \in DOMAIN request : request[r].by = u /\ request[r].is = "ACCEPTED"
        \/ \E k \in 1 .. Jobs : Accepting(jobs[k]) /\ jobs[k].who = u
    BY <1>3 DEF WorkersWereAccepted, AcceptingJob, Accepting
  <2>2. CASE \E r \in DOMAIN request : request[r].by = u /\ request[r].is = "ACCEPTED"
    BY <2>2
  <2>3. ASSUME NEW k \in 1 .. Jobs, Accepting(jobs[k]), jobs[k].who = u
        PROVE  \/ \E r \in DOMAIN request' : request'[r].by = u /\ request'[r].is = "ACCEPTED"
               \/ AcceptingJob(u)'
    <3>1. CASE k = j
      BY <2>3, <3>1, <1>2
    <3>2. CASE k # j
      BY <2>3, <3>2, <1>1 DEF Accepting, AcceptingJob
    <3> QED BY <3>1, <3>2
  <2> QED BY <2>1, <2>2, <2>3
<1> QED BY <1>2, <1>3

LEMMA PagesChange ==
  ASSUME HiringTypeOK, NEW j \in 1 .. Jobs, NEW v \in Job \union {Off}, Replaced(j, v)
  PROVE  /\ v # Off /\ v.what # "apply" => PageJobs' = PageJobs \union {j}
         /\ v = Off \/ v.what = "apply" => PageJobs' = PageJobs \ {j}
  BY JobReplaced DEF PageJobs

(* The rows of a person's profile and requests as they were. *)
LEMMA RowsStay ==
  ASSUME HiringInv, UNCHANGED <<request, profile, allowed>>, twist \subseteq twist'
  PROVE  OneProfile' /\ WorkersMayWork' /\ OnePends' /\ RowsGrow /\ Len(request') \in Nat
<1>1. OneProfile' /\ WorkersMayWork' /\ OnePends'
  BY DEF HiringInv, OneProfile, WorkersMayWork, HoldsProfile, OnePends
<1>2. Len(request) \in Nat /\ request' = request /\ profile' = profile
  BY HiringRows DEF HiringInv, HiringWell
<1> QED BY <1>1, <1>2 DEF RowsGrow

LEMMA CountSame ==
  ASSUME NEW a \in Nat, NEW b \in Nat, NEW c \in Nat, NEW n \in Nat, NEW m \in Nat,
         a + b <= n, c <= b, n <= m
  PROVE  a + c <= m
  OBVIOUS

LEMMA ServedInv ==
  ASSUME HiringInv, NEW j \in 1 .. Jobs, jobs[j] # Off, NEW v, Served(j, v)
  PROVE  HiringInv'
<1>1. HiringWell /\ HiringTypeOK /\ JobsAim /\ jobs[j] \in Job
  BY JobIs DEF HiringInv, HiringWell
<1>2. /\ v \in Job /\ Replaced(j, v) /\ v # Off
      /\ UNCHANGED <<request, profile, allowed, wall, team, removing, starts, lost, twist>>
      /\ v.what = jobs[j].what /\ v.id = jobs[j].id
      /\ jobs[j].at # "answered"
  BY JobFields DEF Served, Written
<1>3. /\ jobs' \in [1 .. Jobs -> Job \union {Off}]
      /\ jobs'[j] = v /\ \A k \in 1 .. Jobs : k # j => jobs'[k] = jobs[k]
  BY <1>1, <1>2, JobReplaced
<1>4. HiringTypeOK'
  BY <1>1, <1>2, <1>3 DEF HiringTypeOK
<1>5. OneProfile' /\ WorkersMayWork' /\ OnePends' /\ RowsGrow /\ Len(request') \in Nat
  BY <1>2, RowsStay
<1>6. Aims(v)'
  BY <1>2 DEF Served, Aims
<1>7. JobsAim'
  BY <1>1, <1>2, <1>5, <1>6, JobsAimOn
<1>8. ProfilesCounted'
  <2>1. Cardinality(Hirers') \in Nat /\ Cardinality(Hirers) \in Nat
    BY <1>1, <1>2, HirersChange, HirersFinite
  <2>2. Cardinality(Hirers') <= Cardinality(Hirers)
    <3>1. Hires(v) => Hires(jobs[j])
      BY DEF Served
    <3>2. \/ Cardinality(Hirers') = Cardinality(Hirers)
          \/ Cardinality(Hirers') = Cardinality(Hirers) - 1
      BY <1>1, <1>2, <3>1, HirersChange
    <3> QED BY <2>1, <3>2
  <2>3. /\ Len(profile) \in Nat /\ starts \in Nat
        /\ Len(profile) + Cardinality(Hirers) <= starts
    BY <1>1, HiringRows DEF HiringWell, ProfilesCounted
  <2> QED BY <1>2, <2>1, <2>2, <2>3, CountSame DEF ProfilesCounted
<1>9. WorkersWereAccepted'
  <2>1. \A u \in Candidate : HoldsProfile(u)' => HoldsProfile(u)
    BY <1>2 DEF HoldsProfile
  <2>2. ~Accepting(jobs[j]) /\ WorkersWereAccepted
    BY DEF Served, HiringInv
  <2>3. \A r \in DOMAIN request : request[r].is = "ACCEPTED" =>
          /\ r \in DOMAIN request' /\ request'[r].by = request[r].by
          /\ request'[r].is = "ACCEPTED"
    BY <1>2
  <2>4. twist \subseteq twist' /\ v \in Job \union {Off}
    BY <1>2
  <2> QED BY <1>1, <1>2, <2>1, <2>2, <2>3, <2>4, AcceptedOn
<1>10. PageJobs' = PageJobs
  BY <1>1, <1>2, PagesChange DEF PageJobs
<1>11. WallFollows'
  <2> SUFFICES ASSUME twist \intersect {"lost", "overtaken", "elsewhere", "refused"} = {},
                      OneAnswer
               PROVE  /\ \A r \in DOMAIN wall :
                           \/ wall[r] = request[r].is
                           \/ \E k \in PageJobs : /\ jobs'[k].what = "decide"
                                                  /\ jobs'[k].at = "answered"
                                                  /\ jobs'[k].id = r
                      /\ \A k \in PageJobs : \A q : q = jobs'[k] => Fits(q)
    BY <1>2, <1>10 DEF WallFollows, OneAnswer, Fits
  <2>1. /\ \A r \in DOMAIN wall :
             \/ wall[r] = request[r].is
             \/ \E k \in PageJobs : /\ jobs[k].what = "decide" /\ jobs[k].at = "answered"
                                    /\ jobs[k].id = r
        /\ \A k \in PageJobs : Fits(jobs[k])
    BY DEF HiringInv, WallFollows
  <2>2. \A k \in PageJobs : k \in 1 .. Jobs
    BY DEF PageJobs
  <2>3. ASSUME NEW k \in PageJobs PROVE Fits(jobs'[k])
    BY <1>3, <2>1, <2>2 DEF Served
  <2>4. ASSUME NEW k \in PageJobs, jobs[k].at = "answered" PROVE jobs'[k] = jobs[k]
    BY <1>2, <1>3, <2>2, <2>4
  <2> QED BY <2>1, <2>3, <2>4
<1>12. TeamFollows'
  <2> SUFFICES ASSUME twist \intersect {"lost", "overtaken", "elsewhere"} = {}, OneAnswer
               PROVE  /\ \A p \in team :
                           \/ profile[p].alive
                           \/ \E k \in PageJobs : /\ jobs'[k].what = "remove"
                                                  /\ jobs'[k].at = "answered"
                                                  /\ jobs'[k].id = p
                      /\ \A k \in PageJobs : \A q : q = jobs'[k] => Lists(q)
    BY <1>2, <1>10 DEF TeamFollows, OneAnswer, Lists
  <2>1. /\ \A p \in team :
             \/ profile[p].alive
             \/ \E k \in PageJobs : /\ jobs[k].what = "remove" /\ jobs[k].at = "answered"
                                    /\ jobs[k].id = p
        /\ \A k \in PageJobs : Lists(jobs[k])
    BY DEF HiringInv, TeamFollows
  <2>2. \A k \in PageJobs : k \in 1 .. Jobs
    BY DEF PageJobs
  <2>3. ASSUME NEW k \in PageJobs PROVE Lists(jobs'[k])
    BY <1>3, <2>1, <2>2 DEF Served
  <2>4. ASSUME NEW k \in PageJobs, jobs[k].at = "answered" PROVE jobs'[k] = jobs[k]
    BY <1>2, <1>3, <2>2, <2>4
  <2> QED BY <2>1, <2>3, <2>4
<1> QED BY <1>4, <1>5, <1>7, <1>8, <1>9, <1>11, <1>12 DEF HiringInv, HiringWell

-----------------------------------------------------------------------------
(* The requests that begin, and those that are lost. *)
LEMMA BeginsInv ==
  ASSUME HiringInv, NEW v \in Job, Begins(v), Aims(v), v.at = "sent",
         removing' \in DOMAIN profile \union {0}
  PROVE  HiringInv'
<1>1. HiringWell /\ HiringTypeOK /\ JobsAim
  BY DEF HiringInv, HiringWell
<1>2. PICK j \in 1 .. Jobs : jobs[j] = Off /\ Replaced(j, v)
  BY DEF Begins, Replaced
<1>3. /\ starts < MaxStarts /\ starts' = starts + 1 /\ v # Off
      /\ UNCHANGED <<request, profile, allowed, wall, team, lost, twist>>
  BY JobFields DEF Begins
<1>4. /\ jobs' \in [1 .. Jobs -> Job \union {Off}]
      /\ jobs'[j] = v /\ \A k \in 1 .. Jobs : k # j => jobs'[k] = jobs[k]
  BY <1>1, <1>2, JobReplaced
<1>5. /\ starts \in Nat /\ starts + 1 \in 0 .. MaxStarts
      /\ Len(profile) \in Nat
  BY <1>1, <1>3, HiringRows, HiringBounds
<1>6. HiringTypeOK'
  BY <1>1, <1>3, <1>4, <1>5 DEF HiringTypeOK
<1>7. OneProfile' /\ WorkersMayWork' /\ OnePends' /\ RowsGrow /\ Len(request') \in Nat
  BY <1>3, RowsStay
<1>8. Aims(v)'
  BY <1>3 DEF Aims
<1>9. JobsAim'
  BY <1>1, <1>2, <1>7, <1>8, JobsAimOn
<1>10. ProfilesCounted'
  <2>1. /\ Cardinality(Hirers') \in Nat /\ Cardinality(Hirers) \in Nat
        /\ \/ Cardinality(Hirers') = Cardinality(Hirers)
           \/ Cardinality(Hirers') = Cardinality(Hirers) + 1
    BY <1>1, <1>2, HirersChange, HirersFinite DEF Hires
  <2>2. Len(profile) + Cardinality(Hirers) <= starts
    BY <1>1 DEF HiringWell, ProfilesCounted
  <2>3. \A a, b, c, n \in Nat : a + b <= n /\ (c = b \/ c = b + 1) => a + c <= n + 1
    OBVIOUS
  <2>4. Len(profile) + Cardinality(Hirers') <= starts + 1
    BY <1>5, <2>1, <2>2, <2>3
  <2> QED BY <1>3, <2>4 DEF ProfilesCounted
<1>11. WorkersWereAccepted'
  <2>1. \A u \in Candidate : HoldsProfile(u)' => HoldsProfile(u)
    BY <1>3 DEF HoldsProfile
  <2>2. ~Accepting(jobs[j]) /\ WorkersWereAccepted
    BY <1>2 DEF HiringInv, Accepting
  <2>3. \A r \in DOMAIN request : request[r].is = "ACCEPTED" =>
          /\ r \in DOMAIN request' /\ request'[r].by = request[r].by
          /\ request'[r].is = "ACCEPTED"
    BY <1>3
  <2>4. twist \subseteq twist'
    BY <1>3
  <2> QED BY <1>1, <1>2, <2>1, <2>2, <2>3, <2>4, AcceptedOn
<1>12. /\ PageJobs \subseteq PageJobs' /\ j \notin PageJobs
       /\ \A k \in PageJobs : k \in 1 .. Jobs /\ jobs'[k] = jobs[k]
       /\ \A k \in PageJobs' : k \in PageJobs \/ k = j
  BY <1>2, <1>4 DEF PageJobs
<1>13. WallFollows'
  <2> SUFFICES ASSUME twist \intersect {"lost", "overtaken", "elsewhere", "refused"} = {},
                      OneAnswer'
               PROVE  /\ \A r \in DOMAIN wall :
                           \/ wall[r] = request[r].is
                           \/ \E k \in PageJobs' : /\ jobs'[k].what = "decide"
                                                   /\ jobs'[k].at = "answered"
                                                   /\ jobs'[k].id = r
                      /\ \A k \in PageJobs' : \A q : q = jobs'[k] => Fits(q)
    BY <1>3 DEF WallFollows, Fits
  <2>1. OneAnswer
    BY <1>12 DEF OneAnswer
  <2>2. /\ \A r \in DOMAIN wall :
             \/ wall[r] = request[r].is
             \/ \E k \in PageJobs : /\ jobs[k].what = "decide" /\ jobs[k].at = "answered"
                                    /\ jobs[k].id = r
        /\ \A k \in PageJobs : Fits(jobs[k])
    BY <2>1 DEF HiringInv, WallFollows
  <2>3. Fits(v)
    BY DEF Fits, Undecided
  <2> QED BY <1>4, <1>12, <2>2, <2>3
<1>14. TeamFollows'
  <2> SUFFICES ASSUME twist \intersect {"lost", "overtaken", "elsewhere"} = {}, OneAnswer'
               PROVE  /\ \A p \in team :
                           \/ profile[p].alive
                           \/ \E k \in PageJobs' : /\ jobs'[k].what = "remove"
                                                   /\ jobs'[k].at = "answered"
                                                   /\ jobs'[k].id = p
                      /\ \A k \in PageJobs' : \A q : q = jobs'[k] => Lists(q)
    BY <1>3 DEF TeamFollows, Lists
  <2>1. OneAnswer
    BY <1>12 DEF OneAnswer
  <2>2. /\ \A p \in team :
             \/ profile[p].alive
             \/ \E k \in PageJobs : /\ jobs[k].what = "remove" /\ jobs[k].at = "answered"
                                    /\ jobs[k].id = p
        /\ \A k \in PageJobs : Lists(jobs[k])
    BY <2>1 DEF HiringInv, TeamFollows
  <2>3. Lists(v)
    BY DEF Lists
  <2> QED BY <1>4, <1>12, <2>2, <2>3
<1> QED BY <1>6, <1>7, <1>9, <1>10, <1>11, <1>13, <1>14 DEF HiringInv, HiringWell

IsFresh(v, what, u, id) ==
  /\ v \in Job /\ v.at = "sent" /\ v.what = what /\ v.who = u /\ v.id = id
  /\ v.was = "PENDING" /\ v.requests = <<>> /\ v.got = {}

LEMMA FreshIs ==
  ASSUME NEW what \in {"apply", "decide", "remove", "wall", "team"}, NEW u \in Candidate,
         NEW s \in Site, NEW id \in 0 .. (MaxRequests + MaxStarts), NEW to \in Deciding
  PROVE  IsFresh(Fresh(what, u, s, id, to), what, u, id)
<1>1. <<>> \in Seq(RequestStatus) /\ {} \in SUBSET (1 .. MaxStarts)
  OBVIOUS
<1>2. Fresh(what, u, s, id, to) \in Job
  BY <1>1 DEF Fresh, Job, RequestStatus
<1> QED BY <1>2 DEF Fresh, IsFresh

LEMMA OfOtherPage ==
  ASSUME NEW what, NEW u, NEW id, NEW v, IsFresh(v, what, u, id)
  PROVE  IsFresh([v EXCEPT !.here = FALSE], what, u, id)
  BY DEF IsFresh, Job

LEMMA FreshAims ==
  ASSUME HiringWell, NEW what, NEW u, NEW id, NEW v, IsFresh(v, what, u, id),
         what = "decide" => id \in DOMAIN request /\ u = request[id].by,
         what = "remove" => id \in DOMAIN profile /\ u = profile[id].of
  PROVE  v \in Job /\ v.at = "sent" /\ Aims(v)
<1>1. Len(<<>>) = 0 /\ Len(request) \in Nat
  BY HiringRows DEF HiringWell
<1> QED BY <1>1 DEF Aims, IsFresh

LEMMA Indices ==
  ASSUME HiringWell
  PROVE  /\ 0 \in 0 .. (MaxRequests + MaxStarts)
         /\ DOMAIN request \subseteq 0 .. (MaxRequests + MaxStarts)
         /\ DOMAIN profile \subseteq 0 .. (MaxRequests + MaxStarts)
         /\ DOMAIN wall \subseteq DOMAIN request
<1>1. /\ Len(request) <= MaxRequests /\ Len(profile) <= MaxStarts
      /\ wall \in Seq(RequestStatus) /\ Len(wall) <= Len(request)
  BY DEF HiringWell, HiringTypeOK
<1>2. /\ Len(request) \in Nat /\ DOMAIN request = 1 .. Len(request)
      /\ Len(profile) \in Nat /\ DOMAIN profile = 1 .. Len(profile)
      /\ MaxRequests \in Nat /\ MaxStarts \in Nat
  BY HiringRows, HiringBounds DEF HiringWell
<1>3. Len(wall) \in Nat /\ DOMAIN wall = 1 .. Len(wall)
  BY <1>1, EntryIn
<1> QED BY <1>1, <1>2, <1>3

LEMMA StartsInv ==
  ASSUME HiringInv,
         \/ \E u \in Candidate, s \in Site : Apply(u, s)
         \/ \E r \in DOMAIN wall, d \in Deciding : Decide(r, d)
         \/ \E p \in team : Dismiss(p)
         \/ OtherPage
         \/ \E what \in {"wall", "team"} : OpenList(what)
  PROVE  HiringInv'
<1>1. HiringWell /\ HiringTypeOK
  BY DEF HiringInv, HiringWell
<1>2. /\ removing \in DOMAIN profile \union {0} /\ team \subseteq DOMAIN profile
      /\ \A r \in DOMAIN request : request[r].by \in Candidate /\ request[r].at \in Site
      /\ \A p \in DOMAIN profile : profile[p].of \in Candidate
      /\ {"ACCEPTED", "REJECTED"} = Deciding
  BY <1>1, HiringRows DEF HiringTypeOK, Application, Contract, Deciding
<1>3. ASSUME NEW u \in Candidate, NEW s \in Site, Apply(u, s) PROVE HiringInv'
  <2> DEFINE f == Fresh("apply", u, s, 0, "REJECTED")
  <2>1. /\ 0 \in 0 .. (MaxRequests + MaxStarts) /\ u \in Candidate /\ s \in Site
        /\ "apply" \in {"apply", "decide", "remove", "wall", "team"} /\ "REJECTED" \in Deciding
    BY <1>1, <1>2, <1>3, Indices, HiringBounds
  <2>2. IsFresh(f, "apply", u, 0)
    BY <2>1, FreshIs
  <2>3. Begins(f) /\ removing' = removing
    BY <1>3 DEF Apply, Starts
  <2> HIDE DEF f
  <2>4. f \in Job /\ f.at = "sent" /\ Aims(f)
    BY <1>1, <1>3, <2>1, <2>2, FreshAims
  <2> QED BY <1>2, <2>1, <2>3, <2>4, BeginsInv
<1>4. ASSUME NEW r \in DOMAIN wall, NEW d \in Deciding, Decide(r, d) PROVE HiringInv'
  <2> DEFINE f == Fresh("decide", request[r].by, request[r].at, r, d)
  <2>1. /\ r \in 0 .. (MaxRequests + MaxStarts) /\ request[r].by \in Candidate /\ request[r].at \in Site
        /\ "decide" \in {"apply", "decide", "remove", "wall", "team"} /\ d \in Deciding
        /\ r \in DOMAIN request
    BY <1>1, <1>2, <1>4, Indices, HiringBounds
  <2>2. IsFresh(f, "decide", request[r].by, r)
    BY <2>1, FreshIs
  <2>3. Begins(f) /\ removing' = removing
    BY <1>4 DEF Decide, Starts
  <2> HIDE DEF f
  <2>4. f \in Job /\ f.at = "sent" /\ Aims(f)
    BY <1>1, <1>4, <2>1, <2>2, FreshAims
  <2> QED BY <1>2, <2>1, <2>3, <2>4, BeginsInv
<1>5. ASSUME NEW p \in team, Dismiss(p) PROVE HiringInv'
  <2> DEFINE f == Fresh("remove", profile[p].of, AnySite, p, "REJECTED")
  <2>1. /\ p \in 0 .. (MaxRequests + MaxStarts) /\ profile[p].of \in Candidate /\ AnySite \in Site
        /\ "remove" \in {"apply", "decide", "remove", "wall", "team"} /\ "REJECTED" \in Deciding
        /\ p \in DOMAIN profile
    BY <1>1, <1>2, <1>5, Indices, HiringBounds
  <2>2. IsFresh(f, "remove", profile[p].of, p)
    BY <2>1, FreshIs
  <2>3. Begins(f) /\ removing' = p
    BY <1>5 DEF Dismiss, Starts
  <2> HIDE DEF f
  <2>4. f \in Job /\ f.at = "sent" /\ Aims(f)
    BY <1>1, <1>5, <2>1, <2>2, FreshAims
  <2> QED BY <1>2, <2>1, <2>3, <2>4, BeginsInv
<1>6. ASSUME NEW what \in {"wall", "team"}, OpenList(what) PROVE HiringInv'
  <2> DEFINE f == Fresh(what, Anyone, AnySite, 0, "REJECTED")
  <2>1. /\ 0 \in 0 .. (MaxRequests + MaxStarts) /\ Anyone \in Candidate /\ AnySite \in Site
        /\ what \in {"apply", "decide", "remove", "wall", "team"} /\ "REJECTED" \in Deciding
    BY <1>1, <1>2, <1>6, Indices, HiringBounds
  <2>2. IsFresh(f, what, Anyone, 0)
    BY <2>1, FreshIs
  <2>3. Begins(f) /\ removing' = removing
    BY <1>6 DEF OpenList, Starts
  <2> HIDE DEF f
  <2>4. f \in Job /\ f.at = "sent" /\ Aims(f)
    BY <1>1, <1>6, <2>1, <2>2, FreshAims
  <2> QED BY <1>2, <2>1, <2>3, <2>4, BeginsInv
<1>7. ASSUME NEW r \in DOMAIN request, NEW d \in Deciding, removing' = removing,
             Begins([Fresh("decide", request[r].by, request[r].at, r, d) EXCEPT !.here = FALSE])
      PROVE  HiringInv'
  <2> DEFINE f == Fresh("decide", request[r].by, request[r].at, r, d)
             v == [f EXCEPT !.here = FALSE]
  <2>1. /\ r \in 0 .. (MaxRequests + MaxStarts) /\ request[r].by \in Candidate /\ request[r].at \in Site
        /\ "decide" \in {"apply", "decide", "remove", "wall", "team"} /\ d \in Deciding
    BY <1>1, <1>2, <1>7, Indices, HiringBounds
  <2>2. IsFresh(f, "decide", request[r].by, r)
    BY <2>1, FreshIs
  <2>3. Begins(v) /\ removing' = removing
    BY <1>7
  <2> HIDE DEF f
  <2>4. IsFresh(v, "decide", request[r].by, r)
    BY <2>2, OfOtherPage
  <2> HIDE DEF v
  <2>5. v \in Job /\ v.at = "sent" /\ Aims(v)
    BY <1>1, <1>7, <2>1, <2>4, FreshAims
  <2> QED BY <1>2, <2>1, <2>3, <2>5, BeginsInv
<1>8. ASSUME NEW p \in DOMAIN profile, removing' = removing,
             Begins([Fresh("remove", profile[p].of, AnySite, p, "REJECTED") EXCEPT !.here = FALSE])
      PROVE  HiringInv'
  <2> DEFINE f == Fresh("remove", profile[p].of, AnySite, p, "REJECTED")
             v == [f EXCEPT !.here = FALSE]
  <2>1. /\ p \in 0 .. (MaxRequests + MaxStarts) /\ profile[p].of \in Candidate /\ AnySite \in Site
        /\ "remove" \in {"apply", "decide", "remove", "wall", "team"} /\ "REJECTED" \in Deciding
    BY <1>1, <1>2, <1>8, Indices, HiringBounds
  <2>2. IsFresh(f, "remove", profile[p].of, p)
    BY <2>1, FreshIs
  <2>3. Begins(v) /\ removing' = removing
    BY <1>8
  <2> HIDE DEF f
  <2>4. IsFresh(v, "remove", profile[p].of, p)
    BY <2>2, OfOtherPage
  <2> HIDE DEF v
  <2>5. v \in Job /\ v.at = "sent" /\ Aims(v)
    BY <1>1, <1>8, <2>1, <2>4, FreshAims
  <2> QED BY <1>2, <2>1, <2>3, <2>5, BeginsInv
<1>9. ASSUME OtherPage PROVE HiringInv'
  BY <1>7, <1>8, <1>9 DEF OtherPage
<1> QED BY <1>3, <1>4, <1>5, <1>6, <1>9

(* A request that dies excuses the lists. *)
LEMMA LoseJobInv ==
  ASSUME HiringInv, NEW j \in 1 .. Jobs, jobs[j] # Off, LoseJob(j)
  PROVE  HiringInv'
<1> DEFINE q == jobs[j]
<1>1. /\ HiringWell /\ HiringTypeOK /\ JobsAim /\ q \in Job /\ Aims(q) /\ lost \in 0 .. MaxLost
      /\ MaxLost \in Nat
  BY JobIs, HiringBounds DEF HiringInv, HiringWell, JobsAim, HiringTypeOK
<1>2. /\ lost < MaxLost /\ lost' = lost + 1
      /\ UNCHANGED <<request, profile, allowed, wall, team, removing, starts>>
      /\ twist \subseteq twist' /\ "lost" \in twist' /\ NowAt(j, "failed")
      /\ Accepting(q) => "died" \in twist'
  BY DEF LoseJob, Accepting
<1>3. twist' \subseteq {"twin", "again", "died", "stale", "refused", "overtaken", "elsewhere", "lost"}
  BY <1>1 DEF LoseJob, HiringTypeOK
<1>4. PICK v \in Job : Replaced(j, v) /\ v.at = "failed" /\ Alike(v, q)
  BY <1>1, <1>2, NowAtIs DEF Steps
<1>5. jobs' \in [1 .. Jobs -> Job \union {Off}]
  BY <1>1, <1>4, JobReplaced
<1>6. HiringTypeOK'
  BY <1>1, <1>2, <1>3, <1>5 DEF HiringTypeOK
<1>7. OneProfile' /\ WorkersMayWork' /\ OnePends' /\ RowsGrow /\ Len(request') \in Nat
  BY <1>2, RowsStay
<1>8. Aims(v)
  BY <1>1, <1>4, AimsAlike
<1>9. JobsAim'
  <2>1. Aims(v)'
    BY <1>2, <1>8 DEF Aims
  <2> QED BY <1>1, <1>4, <1>7, <2>1, JobsAimOn
<1>10. ProfilesCounted'
  <2>1. /\ Cardinality(Hirers') \in Nat /\ Cardinality(Hirers) \in Nat
        /\ \/ Cardinality(Hirers') = Cardinality(Hirers)
           \/ Cardinality(Hirers') = Cardinality(Hirers) - 1
    BY <1>1, <1>4, HirersChange, HirersFinite DEF Hires
  <2>2. /\ Len(profile) \in Nat /\ starts \in Nat
        /\ Len(profile) + Cardinality(Hirers) <= starts
    BY <1>1, HiringRows DEF HiringWell, ProfilesCounted
  <2>3. Cardinality(Hirers') <= Cardinality(Hirers)
    BY <2>1
  <2> QED BY <1>2, <2>1, <2>2, <2>3, CountSame DEF ProfilesCounted
<1>11. WorkersWereAccepted'
  <2>1. \A u \in Candidate : HoldsProfile(u)' => HoldsProfile(u)
    BY <1>2 DEF HoldsProfile
  <2>2. \A r \in DOMAIN request : request[r].is = "ACCEPTED" =>
          /\ r \in DOMAIN request' /\ request'[r].by = request[r].by
          /\ request'[r].is = "ACCEPTED"
    BY <1>2
  <2>3. WorkersWereAccepted /\ (Accepting(q) => twist' \intersect {"died", "again"} # {})
    BY <1>2 DEF HiringInv
  <2> QED BY <1>1, <1>2, <1>4, <2>1, <2>2, <2>3, AcceptedOn
<1>12. WallFollows' /\ TeamFollows'
  BY <1>2 DEF WallFollows, TeamFollows
<1> QED BY <1>6, <1>7, <1>9, <1>10, <1>11, <1>12 DEF HiringInv, HiringWell

-----------------------------------------------------------------------------
(* What is left to show of the lists after a step. *)
Unmixed == twist \intersect {"lost", "overtaken", "elsewhere", "refused"} = {}
Uncrossed == twist \intersect {"lost", "overtaken", "elsewhere"} = {}

LEMMA WallHolds ==
  ASSUME Unmixed' /\ OneAnswer' =>
           /\ \A r \in DOMAIN wall' :
                \/ wall'[r] = request'[r].is
                \/ \E k \in PageJobs' : /\ jobs'[k].what = "decide" /\ jobs'[k].at = "answered"
                                        /\ jobs'[k].id = r
           /\ \A k \in PageJobs' : \A p : p = jobs'[k] => Fits(p)'
  PROVE  WallFollows'
  BY DEF WallFollows, Fits, Unmixed

LEMMA TeamHolds ==
  ASSUME Uncrossed' /\ OneAnswer' =>
           /\ \A p \in team' :
                \/ profile'[p].alive
                \/ \E k \in PageJobs' : /\ jobs'[k].what = "remove" /\ jobs'[k].at = "answered"
                                        /\ jobs'[k].id = p
           /\ \A k \in PageJobs' : \A q : q = jobs'[k] => Lists(q)'
  PROVE  TeamFollows'
  BY DEF TeamFollows, Lists, Uncrossed

-----------------------------------------------------------------------------
(* An application is inserted: a second pending one is a twin. *)
LEMMA InsertInv ==
  ASSUME HiringInv, NEW j \in 1 .. Jobs, jobs[j] # Off, InsertRequest(j),
         UNCHANGED <<wall, team, removing, starts, lost>>
  PROVE  HiringInv'
<1> DEFINE q == jobs[j]
           row == [by |-> q.who, at |-> q.site, is |-> "PENDING"]
<1>1. /\ HiringWell /\ HiringTypeOK /\ JobsAim /\ q \in Job /\ Aims(q)
      /\ q.what = "apply" /\ q.at = "writing"
  BY JobIs DEF HiringInv, HiringWell, JobsAim, InsertRequest
<1>2. /\ Len(request) < MaxRequests /\ request' = Append(request, row)
      /\ UNCHANGED <<profile, allowed, wall, team, removing, starts, lost>>
      /\ NowAt(j, "answered")
      /\ twist' = (IF \E r \in Made(q.who, q.site) : request[r].is = "PENDING"
                   THEN twist \union {"twin"} ELSE twist)
  BY DEF InsertRequest
<1>3. row \in Application /\ row.is = "PENDING" /\ row.by = q.who /\ row.at = q.site
  BY <1>1, JobFields DEF Application, RequestStatus
<1>4. PICK v \in Job : Replaced(j, v) /\ v.at = "answered" /\ Alike(v, q)
  BY <1>1, <1>2, NowAtIs DEF Steps
<1> HIDE DEF row
<1>5. /\ request \in Seq(Application) /\ Len(request) \in Nat
      /\ DOMAIN request = 1 .. Len(request) /\ MaxRequests \in Nat
  BY <1>1, HiringRows, HiringBounds
<1>6. /\ request' \in Seq(Application) /\ Len(request') = Len(request) + 1
      /\ DOMAIN request' = 1 .. (Len(request) + 1)
      /\ \A r \in DOMAIN request : request'[r] = request[r]
      /\ request'[Len(request) + 1] = row
  BY <1>2, <1>3, <1>5, EntryAdded
<1>7. /\ Len(request') \in Nat /\ Len(request') <= MaxRequests /\ Len(request) <= Len(request')
      /\ DOMAIN request \subseteq DOMAIN request'
      /\ \A r \in DOMAIN request' : r \in DOMAIN request \/ r = Len(request) + 1
  BY <1>2, <1>5, <1>6
<1>8. RowsGrow
  BY <1>2, <1>6, <1>7 DEF RowsGrow
<1>9. /\ jobs' \in [1 .. Jobs -> Job \union {Off}]
      /\ jobs'[j] = v /\ \A k \in 1 .. Jobs : k # j => jobs'[k] = jobs[k]
  BY <1>1, <1>4, JobReplaced
<1>10. twist \subseteq twist' /\ twist' \subseteq twist \union {"twin"}
  BY <1>2
<1>11. HiringTypeOK'
  <2>1. Len(wall) <= Len(request')
    <3>1. Len(wall) \in Nat /\ Len(wall) <= Len(request)
      BY <1>1, EntryIn DEF HiringTypeOK
    <3> QED BY <1>5, <1>6, <3>1
  <2>2. request' \in Seq([by : Candidate, at : Site, is : RequestStatus])
    BY <1>6 DEF Application
  <2> QED BY <1>1, <1>2, <1>7, <1>9, <1>10, <2>1, <2>2 DEF HiringTypeOK
<1>12. JobsAim'
  <2>1. Aims(v)
    BY <1>1, <1>4, AimsAlike
  <2>2. Aims(v)'
    BY <1>1, <1>7, <1>8, <2>1, AimsStay
  <2> QED BY <1>1, <1>4, <1>7, <1>8, <2>2, JobsAimOn
<1>13. ProfilesCounted'
  <2>1. Cardinality(Hirers') = Cardinality(Hirers)
    BY <1>1, <1>4, HirersChange DEF Hires, Alike
  <2> QED BY <1>1, <1>2, <2>1 DEF HiringWell, ProfilesCounted
<1>14. OneProfile' /\ WorkersMayWork'
  BY <1>2, <1>10 DEF HiringInv, OneProfile, WorkersMayWork, HoldsProfile
<1>15. OnePends'
  <2> SUFFICES ASSUME "twin" \notin twist',
                      NEW r \in DOMAIN request', NEW x \in DOMAIN request', r # x,
                      request'[r].is = "PENDING", request'[x].is = "PENDING",
                      request'[r].by = request'[x].by, request'[r].at = request'[x].at
               PROVE  FALSE
    BY DEF OnePends
  <2>1. \A o \in DOMAIN request : request[o].is = "PENDING" =>
          ~(request[o].by = q.who /\ request[o].at = q.site)
    BY <1>2 DEF Made
  <2>2. CASE r \in DOMAIN request /\ x \in DOMAIN request
    BY <1>6, <1>10, <2>2 DEF HiringInv, OnePends
  <2>3. CASE r \notin DOMAIN request
    BY <1>3, <1>6, <1>7, <2>1, <2>3
  <2>4. CASE x \notin DOMAIN request
    BY <1>3, <1>6, <1>7, <2>1, <2>4
  <2> QED BY <2>2, <2>3, <2>4
<1>16. WorkersWereAccepted'
  <2>1. \A u \in Candidate : HoldsProfile(u)' => HoldsProfile(u)
    BY <1>2 DEF HoldsProfile
  <2>2. WorkersWereAccepted /\ ~Accepting(q)
    BY <1>1 DEF HiringInv, Accepting
  <2>3. \A r \in DOMAIN request : request[r].is = "ACCEPTED" =>
          /\ r \in DOMAIN request' /\ request'[r].by = request[r].by
          /\ request'[r].is = "ACCEPTED"
    BY <1>6, <1>7
  <2> QED BY <1>1, <1>4, <1>10, <2>1, <2>2, <2>3, AcceptedOn
<1>17. /\ PageJobs' = PageJobs
       /\ \A k \in PageJobs : k \in 1 .. Jobs /\ k # j /\ jobs'[k] = jobs[k]
  <2>1. v.what = "apply"
    BY <1>1, <1>4 DEF Alike
  <2>2. j \notin PageJobs
    BY <1>1 DEF PageJobs
  <2>3. PageJobs' = PageJobs
    BY <1>1, <1>4, <2>1, <2>2, PagesChange
  <2> QED BY <1>9, <2>2, <2>3 DEF PageJobs
<1>18. DOMAIN wall \subseteq DOMAIN request
  BY <1>1, Indices
<1>19. WallFollows'
  <2> SUFFICES ASSUME Unmixed', OneAnswer'
               PROVE  /\ \A r \in DOMAIN wall' :
                           \/ wall'[r] = request'[r].is
                           \/ \E k \in PageJobs' : /\ jobs'[k].what = "decide"
                                                   /\ jobs'[k].at = "answered"
                                                   /\ jobs'[k].id = r
                      /\ \A k \in PageJobs' : \A p : p = jobs'[k] => Fits(p)'
    BY WallHolds
  <2>0. Unmixed /\ OneAnswer
    BY <1>10, <1>17 DEF Unmixed, OneAnswer
  <2>1. /\ \A r \in DOMAIN wall :
             \/ wall[r] = request[r].is
             \/ \E k \in PageJobs : /\ jobs[k].what = "decide" /\ jobs[k].at = "answered"
                                    /\ jobs[k].id = r
        /\ \A k \in PageJobs : Fits(jobs[k])
    BY <2>0 DEF HiringInv, WallFollows, Unmixed
  <2>2. ASSUME NEW k \in PageJobs, NEW p, p = jobs'[k] PROVE Fits(p)'
    <3>1. p = jobs[k] /\ p \in Job /\ Aims(p) /\ Fits(p)
      BY <1>1, <1>17, <2>1, <2>2, JobIs DEF PageJobs, JobsAim
    <3>2. p.what = "decide" => request'[p.id] = request[p.id]
      BY <1>6, <3>1 DEF Aims
    <3>3. \A r \in DOMAIN p.requests : r \in DOMAIN request
      <4>1. p.requests \in Seq(RequestStatus) /\ Len(p.requests) <= Len(request)
        BY <3>1, JobFields DEF Aims
      <4>2. Len(p.requests) \in Nat /\ DOMAIN p.requests = 1 .. Len(p.requests)
        BY <4>1, EntryIn
      <4> QED BY <1>5, <4>1, <4>2
    <3> QED BY <1>6, <3>1, <3>2, <3>3 DEF Fits
  <2> QED BY <1>2, <1>6, <1>17, <1>18, <2>1, <2>2
<1>20. TeamFollows'
  <2>1. \A k \in PageJobs : jobs'[k] = jobs[k]
    BY <1>17
  <2>2. OneAnswer' <=> OneAnswer
    BY <1>17 DEF OneAnswer
  <2>3. TeamFollows
    BY DEF HiringInv
  <2> QED BY <1>2, <1>10, <1>17, <2>1, <2>2, <2>3 DEF TeamFollows, Lists
<1> QED BY <1>11, <1>12, <1>13, <1>14, <1>15, <1>16, <1>19, <1>20 DEF HiringInv, HiringWell

-----------------------------------------------------------------------------
(* Somebody is hired: the profile was asked for by one start, and its       *)
(* acceptance is about to be written.                                       *)
LEMMA HireInv ==
  ASSUME HiringInv, NEW j \in 1 .. Jobs, jobs[j] # Off, Hire(j),
         UNCHANGED <<wall, team, removing, starts, lost>>
  PROVE  HiringInv'
<1> DEFINE q == jobs[j]
           who == q.who
           row == [of |-> who, alive |-> TRUE]
<1>1. /\ HiringWell /\ HiringTypeOK /\ JobsAim /\ q \in Job /\ Aims(q)
      /\ q.what = "decide" /\ q.at = "read" /\ q.to = "ACCEPTED"
      /\ UNCHANGED <<request, wall, team, removing, starts, lost>>
  BY JobIs DEF HiringInv, HiringWell, JobsAim, Hire, Aims
<1>2. CASE HoldsProfile(who)
  <2>1. NowAt(j, "failed") /\ UNCHANGED Written
    BY <1>1, <1>2 DEF Hire, Written
  <2>2. PICK v \in Job : Replaced(j, v) /\ v.at = "failed" /\ Alike(v, q)
    BY <1>1, <2>1, NowAtIs DEF Steps
  <2>3. Aims(v)
    BY <1>1, <2>2, AimsAlike
  <2>4. /\ Hires(q) /\ ~Accepting(q) /\ Fits(v) /\ Lists(v)
    BY <1>1, <2>2 DEF Hires, Accepting, Fits, Lists, Undecided
  <2>5. Served(j, v)
    BY <1>1, <2>1, <2>2, <2>3, <2>4 DEF Served, Alike
  <2> QED BY <2>5, ServedInv
<1>3. CASE ~HoldsProfile(who)
  <2>1. /\ profile' = Append(profile, row) /\ allowed' = Granted(q) /\ NowAt(j, "writing")
        /\ twist' = IF Stale(q) THEN twist \union {"stale"} ELSE twist
    BY <1>1, <1>3 DEF Hire
  <2>2. PICK v \in Job : /\ Replaced(j, v) /\ v.at = "writing" /\ v.to = q.to
                         /\ Alike(v, q)
    BY <1>1, <2>1, NowAtIs DEF Steps
  <2>3. row \in Contract /\ row.of = who /\ row.alive = TRUE /\ who \in Candidate
    BY <1>1, JobFields DEF Contract
  <2> HIDE DEF row, who
  <2>4. /\ profile \in Seq(Contract) /\ Len(profile) \in Nat
        /\ DOMAIN profile = 1 .. Len(profile) /\ starts \in Nat
        /\ \A p \in DOMAIN profile : profile[p] \in Contract
    BY <1>1, HiringRows
  <2>5. /\ profile' \in Seq(Contract) /\ Len(profile') = Len(profile) + 1
        /\ DOMAIN profile' = 1 .. (Len(profile) + 1)
        /\ \A p \in DOMAIN profile : profile'[p] = profile[p]
        /\ profile'[Len(profile) + 1] = row
    BY <2>1, <2>3, <2>4, EntryAdded
  <2>6. /\ DOMAIN profile \subseteq DOMAIN profile'
        /\ \A p \in DOMAIN profile' : p \in DOMAIN profile \/ p = Len(profile) + 1
        /\ Len(profile) + 1 \in DOMAIN profile'
    BY <2>4, <2>5
  <2>7. Len(request') \in Nat /\ RowsGrow
    <3>1. Len(request) \in Nat /\ request' = request
      BY <1>1, HiringRows
    <3> QED BY <2>5, <2>6, <3>1 DEF RowsGrow
  <2>8. /\ jobs' \in [1 .. Jobs -> Job \union {Off}]
        /\ jobs'[j] = v /\ \A k \in 1 .. Jobs : k # j => jobs'[k] = jobs[k]
    BY <1>1, <2>2, JobReplaced
  <2>9. twist \subseteq twist' /\ twist' \subseteq twist \union {"stale"}
    BY <2>1
  <2>10. ProfilesCounted' /\ Len(profile') <= MaxStarts
    <3>1. /\ Cardinality(Hirers') \in Nat /\ Cardinality(Hirers) \in Nat
          /\ Cardinality(Hirers') = Cardinality(Hirers) - 1
      BY <1>1, <2>2, HirersChange, HirersFinite DEF Hires
    <3>2. Len(profile) + Cardinality(Hirers) <= starts
      BY <1>1 DEF HiringWell, ProfilesCounted
    <3>3. starts <= MaxStarts /\ MaxStarts \in Nat
      BY <1>1, HiringBounds DEF HiringTypeOK
    <3>4. \A a, b, c, n, m \in Nat : a + b <= n /\ c = b - 1 /\ n <= m =>
            a + 1 + c <= n /\ a + 1 <= m
      OBVIOUS
    <3>5. Len(profile) + 1 + Cardinality(Hirers') <= starts /\ Len(profile) + 1 <= MaxStarts
      BY <2>4, <3>1, <3>2, <3>3, <3>4
    <3> QED BY <1>1, <2>5, <3>5 DEF ProfilesCounted
  <2>11. allowed' \subseteq Candidate /\ removing' \in DOMAIN profile' \union {0}
         /\ team' \subseteq DOMAIN profile'
    BY <1>1, <2>1, <2>3, <2>6 DEF HiringTypeOK, Granted, who
  <2>12. HiringTypeOK'
    <3>1. profile' \in Seq([of : Candidate, alive : BOOLEAN])
      BY <2>5 DEF Contract
    <3> QED BY <1>1, <2>8, <2>9, <2>10, <2>11, <3>1 DEF HiringTypeOK
  <2>13. JobsAim'
    <3>1. v.what = "decide" => v.to = "ACCEPTED"
      BY <1>1, <2>2
    <3>2. Aims(v)
      BY <1>1, <2>2, <3>1, AimsAlike
    <3>3. Aims(v)'
      BY <1>1, <2>7, <3>2, AimsStay
    <3> QED BY <1>1, <2>2, <2>7, <3>3, JobsAimOn
  <2>14. \A p \in DOMAIN profile : profile[p].alive => profile[p].of # who
    <3> SUFFICES ASSUME NEW p \in DOMAIN profile, profile[p].alive, profile[p].of = who
                 PROVE  FALSE
      OBVIOUS
    <3>1. profile[p] = [of |-> who, alive |-> TRUE]
      BY <2>4 DEF Contract
    <3> QED BY <1>3, <3>1 DEF HoldsProfile
  <2>15. OneProfile'
    <3> SUFFICES ASSUME NEW p \in DOMAIN profile', NEW o \in DOMAIN profile', p # o,
                        profile'[p].alive, profile'[o].alive, profile'[p].of = profile'[o].of
                 PROVE  FALSE
      BY DEF OneProfile
    <3>1. CASE p \in DOMAIN profile /\ o \in DOMAIN profile
      BY <2>5, <3>1 DEF HiringInv, OneProfile
    <3>2. CASE p \notin DOMAIN profile
      BY <2>3, <2>5, <2>6, <2>14, <3>2
    <3>3. CASE o \notin DOMAIN profile
      BY <2>3, <2>5, <2>6, <2>14, <3>3
    <3> QED BY <3>1, <3>2, <3>3
  <2>16. \A u \in Candidate : HoldsProfile(u)' <=> HoldsProfile(u) \/ u = who
    <3>1. ASSUME NEW u \in Candidate, HoldsProfile(u)' PROVE HoldsProfile(u) \/ u = who
      <4>1. PICK p \in DOMAIN profile' : profile'[p] = [of |-> u, alive |-> TRUE]
        BY <3>1 DEF HoldsProfile
      <4>2. CASE p \in DOMAIN profile
        BY <2>5, <4>1, <4>2 DEF HoldsProfile
      <4>3. CASE p = Len(profile) + 1
        BY <2>3, <2>5, <4>1, <4>3
      <4> QED BY <2>6, <4>2, <4>3
    <3>2. ASSUME NEW u \in Candidate, HoldsProfile(u) PROVE HoldsProfile(u)'
      BY <2>5, <2>6, <3>2 DEF HoldsProfile
    <3>3. ASSUME NEW u \in Candidate, u = who PROVE HoldsProfile(u)'
      BY <2>5, <2>6, <3>3 DEF HoldsProfile, row
    <3> QED BY <3>1, <3>2, <3>3
  <2>17. WorkersMayWork'
    <3> SUFFICES ASSUME "stale" \notin twist'
                 PROVE  allowed' = {u \in Candidate : HoldsProfile(u)'}
      BY DEF WorkersMayWork
    <3>1. "stale" \notin twist /\ ~Stale(q)
      BY <2>1, <2>9
    <3>2. allowed = {u \in Candidate : HoldsProfile(u)}
      BY <3>1 DEF HiringInv, WorkersMayWork
    <3>3. who \notin allowed
      BY <1>3, <3>2
    <3>4. allowed' = allowed \union {who}
      BY <2>1, <3>1, <3>3 DEF Granted, Stale, who
    <3> QED BY <2>3, <2>16, <3>2, <3>4
  <2>18. OnePends'
    BY <1>1, <2>9 DEF HiringInv, OnePends
  <2>19. WorkersWereAccepted'
    <3>1. Accepting(v) /\ v.who = who /\ ~Accepting(q)
      BY <1>1, <2>2, JobFields DEF Accepting, Alike, who
    <3>2. \A u \in Candidate : HoldsProfile(u)' => HoldsProfile(u) \/ (Accepting(v) /\ v.who = u)
      BY <2>16, <3>1
    <3>3. \A r \in DOMAIN request : request[r].is = "ACCEPTED" =>
            /\ r \in DOMAIN request' /\ request'[r].by = request[r].by
            /\ request'[r].is = "ACCEPTED"
      BY <1>1
    <3>4. WorkersWereAccepted
      BY DEF HiringInv
    <3> QED BY <1>1, <2>2, <2>9, <3>1, <3>2, <3>3, <3>4, AcceptedOn
  <2>20. /\ PageJobs' = PageJobs
         /\ \A k \in PageJobs : k \in 1 .. Jobs /\ (k # j => jobs'[k] = jobs[k])
         /\ j \in PageJobs
    <3>1. v # Off /\ v.what # "apply"
      BY <1>1, <2>2, JobFields DEF Alike
    <3>2. j \in PageJobs
      BY <1>1 DEF PageJobs
    <3> QED BY <1>1, <2>2, <2>8, <3>1, <3>2, PagesChange DEF PageJobs
  <2>21. WallFollows'
    <3> SUFFICES ASSUME Unmixed', OneAnswer'
                 PROVE  /\ \A r \in DOMAIN wall' :
                             \/ wall'[r] = request'[r].is
                             \/ \E k \in PageJobs' : /\ jobs'[k].what = "decide"
                                                     /\ jobs'[k].at = "answered"
                                                     /\ jobs'[k].id = r
                        /\ \A k \in PageJobs' : \A p : p = jobs'[k] => Fits(p)'
      BY WallHolds
    <3>1. Unmixed /\ OneAnswer
      BY <2>9, <2>20 DEF Unmixed, OneAnswer
    <3>2. /\ \A r \in DOMAIN wall :
               \/ wall[r] = request[r].is
               \/ \E k \in PageJobs : /\ jobs[k].what = "decide" /\ jobs[k].at = "answered"
                                      /\ jobs[k].id = r
          /\ \A k \in PageJobs : Fits(jobs[k])
      BY <3>1 DEF HiringInv, WallFollows, Unmixed
    <3>3. Fits(v)
      <4>1. Fits(q)
        BY <2>20, <3>2
      <4> QED BY <1>1, <2>2, <4>1 DEF Fits, Alike, Undecided
    <3>4. \A k \in PageJobs : Fits(jobs'[k])
      BY <2>8, <2>20, <3>2, <3>3
    <3>5. \A k \in PageJobs' : \A p : p = jobs'[k] => Fits(p)'
      BY <1>1, <2>20, <3>4 DEF Fits
    <3>6. \A k \in PageJobs : jobs[k].at = "answered" => jobs'[k] = jobs[k]
      BY <1>1, <2>20
    <3> QED BY <1>1, <2>20, <3>2, <3>5, <3>6
  <2>22. TeamFollows'
    <3> SUFFICES ASSUME Uncrossed', OneAnswer'
                 PROVE  /\ \A p \in team' :
                             \/ profile'[p].alive
                             \/ \E k \in PageJobs' : /\ jobs'[k].what = "remove"
                                                     /\ jobs'[k].at = "answered"
                                                     /\ jobs'[k].id = p
                        /\ \A k \in PageJobs' : \A p : p = jobs'[k] => Lists(p)'
      BY TeamHolds
    <3>1. Uncrossed /\ OneAnswer
      BY <2>9, <2>20 DEF Uncrossed, OneAnswer
    <3>2. /\ \A p \in team :
               \/ profile[p].alive
               \/ \E k \in PageJobs : /\ jobs[k].what = "remove" /\ jobs[k].at = "answered"
                                      /\ jobs[k].id = p
          /\ \A k \in PageJobs : Lists(jobs[k])
      BY <3>1 DEF HiringInv, TeamFollows, Uncrossed
    <3>3. team \subseteq DOMAIN profile /\ \A p \in team : profile'[p] = profile[p]
      BY <1>1, <2>5 DEF HiringTypeOK
    <3>4. \A k \in PageJobs' : \A p : p = jobs'[k] => Lists(p)'
      <4> SUFFICES ASSUME NEW k \in PageJobs, NEW p, p = jobs'[k], k # j
                   PROVE  Lists(p)'
        BY <1>1, <2>2, <2>8, <2>20 DEF Lists
      <4>1. p = jobs[k] /\ p \in Job /\ Aims(p) /\ Lists(p)
        BY <1>1, <2>20, <3>2, JobIs DEF PageJobs, JobsAim
      <4> QED BY <2>5, <4>1 DEF Lists, Aims
    <3>5. \A k \in PageJobs : jobs[k].at = "answered" => jobs'[k] = jobs[k]
      BY <1>1, <2>20
    <3> QED BY <1>1, <2>20, <3>2, <3>3, <3>4, <3>5
  <2> QED BY <2>12, <2>13, <2>10, <2>15, <2>17, <2>18, <2>19, <2>21, <2>22
          DEF HiringInv, HiringWell
<1> QED BY <1>2, <1>3

(* Somebody is dismissed: he had one living profile at most.                *)
LEMMA FireInv ==
  ASSUME HiringInv, NEW j \in 1 .. Jobs, jobs[j] # Off, Fire(j),
         UNCHANGED <<wall, team, removing, starts, lost>>
  PROVE  HiringInv'
<1> DEFINE q == jobs[j]
           who == q.who
           id == q.id
           row == [profile[id] EXCEPT !.alive = FALSE]
<1>1. /\ HiringWell /\ HiringTypeOK /\ JobsAim /\ q \in Job /\ Aims(q)
      /\ q.what = "remove" /\ q.at = "read"
      /\ id \in DOMAIN profile /\ profile[id].of = who /\ who \in Candidate
      /\ UNCHANGED <<request, wall, team, removing, starts, lost>>
  BY JobIs, JobFields DEF HiringInv, HiringWell, JobsAim, Fire, Aims
<1>2. /\ profile' = [profile EXCEPT ![id] = row] /\ allowed' = Withdrawn(q)
      /\ NowAt(j, "answered")
      /\ twist' = IF Stale(q) \/ ~profile[id].alive THEN twist \union {"stale"} ELSE twist
  BY <1>1 DEF Fire
<1>3. PICK v \in Job : Replaced(j, v) /\ v.at = "answered" /\ Alike(v, q)
  BY <1>1, <1>2, NowAtIs DEF Steps
<1>4. /\ profile \in Seq(Contract) /\ Len(profile) \in Nat
      /\ DOMAIN profile = 1 .. Len(profile) /\ starts \in Nat
      /\ \A p \in DOMAIN profile : profile[p] \in Contract
  BY <1>1, HiringRows
<1>5. row \in Contract /\ row.of = who /\ row.alive = FALSE
  BY <1>1, <1>4 DEF Contract
<1> HIDE DEF row
<1>6. /\ profile' \in Seq(Contract) /\ Len(profile') = Len(profile)
      /\ DOMAIN profile' = DOMAIN profile
      /\ profile'[id] = row /\ \A p \in DOMAIN profile : p # id => profile'[p] = profile[p]
  BY <1>1, <1>2, <1>4, <1>5, EntryChanged
<1>7. Len(request') \in Nat /\ RowsGrow
  <2>1. Len(request) \in Nat /\ request' = request
    BY <1>1, HiringRows
  <2>2. \A p \in DOMAIN profile : profile'[p].of = profile[p].of
    BY <1>1, <1>5, <1>6
  <2> QED BY <1>6, <2>1, <2>2 DEF RowsGrow
<1>8. /\ jobs' \in [1 .. Jobs -> Job \union {Off}]
      /\ jobs'[j] = v /\ \A k \in 1 .. Jobs : k # j => jobs'[k] = jobs[k]
  BY <1>1, <1>3, JobReplaced
<1>9. twist \subseteq twist' /\ twist' \subseteq twist \union {"stale"}
  BY <1>2
<1>10. HiringTypeOK'
  <2>1. profile' \in Seq([of : Candidate, alive : BOOLEAN])
    BY <1>6 DEF Contract
  <2>2. allowed' \subseteq Candidate
    BY <1>1, <1>2 DEF HiringTypeOK, Withdrawn
  <2> QED BY <1>1, <1>6, <1>8, <1>9, <2>1, <2>2 DEF HiringTypeOK
<1>11. JobsAim'
  <2>1. Aims(v)
    BY <1>1, <1>3, AimsAlike
  <2>2. Aims(v)'
    BY <1>1, <1>7, <2>1, AimsStay
  <2> QED BY <1>1, <1>3, <1>7, <2>2, JobsAimOn
<1>12. ProfilesCounted'
  <2>1. Cardinality(Hirers') = Cardinality(Hirers)
    BY <1>1, <1>3, HirersChange DEF Hires, Alike
  <2> QED BY <1>1, <1>6, <2>1 DEF HiringWell, ProfilesCounted
<1>13. OneProfile'
  <2> SUFFICES ASSUME NEW p \in DOMAIN profile', NEW o \in DOMAIN profile', p # o,
                      profile'[p].alive, profile'[o].alive, profile'[p].of = profile'[o].of
               PROVE  FALSE
    BY DEF OneProfile
  <2>1. p # id /\ o # id
    BY <1>5, <1>6
  <2> QED BY <1>6, <2>1 DEF HiringInv, OneProfile
<1>14. \A u \in Candidate : HoldsProfile(u)' => HoldsProfile(u)
  <2> SUFFICES ASSUME NEW u \in Candidate, NEW p \in DOMAIN profile',
                      profile'[p] = [of |-> u, alive |-> TRUE]
               PROVE  HoldsProfile(u)
    BY DEF HoldsProfile
  <2>1. p # id
    BY <1>5, <1>6
  <2> QED BY <1>6, <2>1 DEF HoldsProfile
<1>15. WorkersMayWork'
  <2> SUFFICES ASSUME "stale" \notin twist'
               PROVE  allowed' = {u \in Candidate : HoldsProfile(u)'}
    BY DEF WorkersMayWork
  <2>1. "stale" \notin twist /\ ~Stale(q) /\ profile[id].alive
    BY <1>2, <1>9
  <2>2. allowed = {u \in Candidate : HoldsProfile(u)}
    BY <2>1 DEF HiringInv, WorkersMayWork
  <2>3. profile[id] = [of |-> who, alive |-> TRUE]
    BY <1>1, <1>4, <2>1 DEF Contract
  <2>4. who \in allowed
    BY <1>1, <2>2, <2>3 DEF HoldsProfile
  <2>5. allowed' = allowed \ {who}
    BY <1>2, <2>1, <2>4 DEF Withdrawn, Stale
  <2>6. ASSUME NEW u \in Candidate, HoldsProfile(u)' PROVE u # who
    <3>1. PICK p \in DOMAIN profile' : profile'[p] = [of |-> u, alive |-> TRUE]
      BY <2>6 DEF HoldsProfile
    <3>2. p # id /\ p \in DOMAIN profile /\ profile[p] = [of |-> u, alive |-> TRUE]
      BY <1>5, <1>6, <3>1
    <3>3. profile[p].alive /\ profile[p].of = u
      BY <3>2
    <3> QED BY <1>1, <2>1, <3>2, <3>3 DEF HiringInv, OneProfile
  <2>7. ASSUME NEW u \in Candidate, HoldsProfile(u), u # who PROVE HoldsProfile(u)'
    <3>1. PICK p \in DOMAIN profile : profile[p] = [of |-> u, alive |-> TRUE]
      BY <2>7 DEF HoldsProfile
    <3>2. p # id
      BY <1>1, <2>7, <3>1
    <3> QED BY <1>6, <3>1, <3>2 DEF HoldsProfile
  <2> QED BY <1>14, <2>2, <2>5, <2>6, <2>7
<1>16. OnePends'
  BY <1>1, <1>9 DEF HiringInv, OnePends
<1>17. WorkersWereAccepted'
  <2>1. \A r \in DOMAIN request : request[r].is = "ACCEPTED" =>
          /\ r \in DOMAIN request' /\ request'[r].by = request[r].by
          /\ request'[r].is = "ACCEPTED"
    BY <1>1
  <2>2. WorkersWereAccepted /\ ~Accepting(q)
    BY <1>1 DEF HiringInv, Accepting
  <2> QED BY <1>1, <1>3, <1>9, <1>14, <2>1, <2>2, AcceptedOn
<1>18. /\ PageJobs' = PageJobs
       /\ \A k \in PageJobs : k \in 1 .. Jobs /\ (k # j => jobs'[k] = jobs[k])
       /\ j \in PageJobs /\ v.what = "remove" /\ v.id = id
  <2>1. v # Off /\ v.what = "remove" /\ v.id = id
    BY <1>1, <1>3, JobFields DEF Alike
  <2>2. j \in PageJobs
    BY <1>1 DEF PageJobs
  <2> QED BY <1>1, <1>3, <1>8, <2>1, <2>2, PagesChange DEF PageJobs
<1>19. WallFollows'
  <2> SUFFICES ASSUME Unmixed', OneAnswer'
               PROVE  /\ \A r \in DOMAIN wall' :
                           \/ wall'[r] = request'[r].is
                           \/ \E k \in PageJobs' : /\ jobs'[k].what = "decide"
                                                   /\ jobs'[k].at = "answered"
                                                   /\ jobs'[k].id = r
                      /\ \A k \in PageJobs' : \A p : p = jobs'[k] => Fits(p)'
    BY WallHolds
  <2>1. Unmixed /\ OneAnswer
    BY <1>9, <1>18 DEF Unmixed, OneAnswer
  <2>2. /\ \A r \in DOMAIN wall :
             \/ wall[r] = request[r].is
             \/ \E k \in PageJobs : /\ jobs[k].what = "decide" /\ jobs[k].at = "answered"
                                    /\ jobs[k].id = r
        /\ \A k \in PageJobs : Fits(jobs[k])
    BY <2>1 DEF HiringInv, WallFollows, Unmixed
  <2>3. Fits(v)
    BY <1>18 DEF Fits
  <2>4. \A k \in PageJobs : Fits(jobs'[k])
    BY <1>8, <1>18, <2>2, <2>3
  <2>5. \A k \in PageJobs' : \A p : p = jobs'[k] => Fits(p)'
    BY <1>1, <1>18, <2>4 DEF Fits
  <2>6. \A k \in PageJobs : jobs[k].at = "answered" => jobs'[k] = jobs[k]
    BY <1>1, <1>18
  <2> QED BY <1>1, <1>18, <2>2, <2>5, <2>6
<1>20. TeamFollows'
  <2> SUFFICES ASSUME Uncrossed', OneAnswer'
               PROVE  /\ \A p \in team' :
                           \/ profile'[p].alive
                           \/ \E k \in PageJobs' : /\ jobs'[k].what = "remove"
                                                   /\ jobs'[k].at = "answered"
                                                   /\ jobs'[k].id = p
                      /\ \A k \in PageJobs' : \A p : p = jobs'[k] => Lists(p)'
    BY TeamHolds
  <2>1. Uncrossed /\ OneAnswer
    BY <1>9, <1>18 DEF Uncrossed, OneAnswer
  <2>2. /\ \A p \in team :
             \/ profile[p].alive
             \/ \E k \in PageJobs : /\ jobs[k].what = "remove" /\ jobs[k].at = "answered"
                                    /\ jobs[k].id = p
        /\ \A k \in PageJobs : Lists(jobs[k])
    BY <2>1 DEF HiringInv, TeamFollows, Uncrossed
  <2>3. \A k \in PageJobs : k = j
    BY <1>18, <2>1 DEF OneAnswer
  <2>4. ASSUME NEW p \in team, p # id PROVE profile'[p].alive
    <3>1. p \in DOMAIN profile /\ profile'[p] = profile[p]
      BY <1>1, <1>6, <2>4 DEF HiringTypeOK
    <3>2. profile[p].alive
      BY <1>1, <2>2, <2>3, <2>4
    <3> QED BY <3>1, <3>2
  <2>5. \A k \in PageJobs' : \A p : p = jobs'[k] => Lists(p)'
    BY <1>8, <1>18, <2>3 DEF Lists
  <2> QED BY <1>1, <1>3, <1>8, <1>18, <2>4, <2>5
<1> QED BY <1>10, <1>11, <1>12, <1>13, <1>15, <1>16, <1>17, <1>19, <1>20
        DEF HiringInv, HiringWell

(* A decision is written, whatever became of the request since it was read. *)
LEMMA WriteDecisionInv ==
  ASSUME HiringInv, NEW j \in 1 .. Jobs, jobs[j] # Off, WriteDecision(j),
         UNCHANGED <<wall, team, removing, starts, lost>>
  PROVE  HiringInv'
<1> DEFINE q == jobs[j]
           id == q.id
           to == q.to
           row == [request[id] EXCEPT !.is = to]
<1>1. /\ HiringWell /\ HiringTypeOK /\ JobsAim /\ q \in Job /\ Aims(q)
      /\ q.what = "decide" /\ q.at \in {"writing", "refusing"}
      /\ id \in DOMAIN request /\ request[id].by = q.who /\ to \in Deciding
      /\ q.was # "PENDING" => request[id].is # "PENDING"
      /\ UNCHANGED <<profile, allowed, wall, team, removing, starts, lost>>
  BY JobIs, JobFields DEF HiringInv, HiringWell, JobsAim, WriteDecision, Aims
<1>2. /\ request' = IF q.was = to THEN request ELSE [request EXCEPT ![id] = row]
      /\ twist \subseteq twist'
      /\ twist' \subseteq twist \union {"refused", "again"}
      /\ q.at = "refusing" => "refused" \in twist'
      /\ request[id].is # "PENDING" => "again" \in twist'
      /\ NowAt(j, IF q.at = "refusing" THEN "failed" ELSE "answered")
  BY <1>1 DEF WriteDecision
<1>3. PICK v \in Job : /\ Replaced(j, v) /\ v.to = to /\ Alike(v, q)
                       /\ v.at = IF q.at = "refusing" THEN "failed" ELSE "answered"
  BY <1>1, <1>2, NowAtIs DEF Steps
<1>4. /\ request \in Seq(Application) /\ Len(request) \in Nat
      /\ DOMAIN request = 1 .. Len(request)
      /\ \A r \in DOMAIN request : request[r] \in Application
  BY <1>1, HiringRows
<1>5. /\ row \in Application /\ row.by = request[id].by /\ row.at = request[id].at
      /\ row.is = to /\ to # "PENDING"
  BY <1>1, <1>4 DEF Application, RequestStatus, Deciding
<1> HIDE DEF row, to, id
<1>6. /\ request' \in Seq(Application) /\ Len(request') = Len(request)
      /\ DOMAIN request' = DOMAIN request
      /\ \A r \in DOMAIN request : r # id => request'[r] = request[r]
      /\ request'[id].by = request[id].by /\ request'[id].at = request[id].at
      /\ request'[id].is # "PENDING"
      /\ q.was # to => request'[id].is = to
      /\ q.was = to => request'[id].is = request[id].is /\ request[id].is # "PENDING"
  <2>1. CASE q.was = to
    BY <1>1, <1>2, <1>4, <1>5, <2>1
  <2>2. CASE q.was # to
    <3>1. request' = [request EXCEPT ![id] = row]
      BY <1>2, <2>2
    <3>2. /\ request' \in Seq(Application) /\ Len(request') = Len(request)
          /\ DOMAIN request' = DOMAIN request /\ request'[id] = row
          /\ \A r \in DOMAIN request : r # id => request'[r] = request[r]
      BY <1>1, <1>4, <1>5, <3>1, EntryChanged
    <3> QED BY <1>5, <2>2, <3>2
  <2> QED BY <2>1, <2>2
<1>7. Len(request') \in Nat /\ RowsGrow
  <2>1. Len(request) <= Len(request') /\ Len(request') \in Nat
    BY <1>4, <1>6
  <2>2. \A r \in DOMAIN request :
          /\ request'[r].by = request[r].by /\ request'[r].at = request[r].at
          /\ request[r].is # "PENDING" => request'[r].is # "PENDING"
    BY <1>6
  <2> QED BY <1>1, <1>6, <2>1, <2>2 DEF RowsGrow
<1>8. /\ jobs' \in [1 .. Jobs -> Job \union {Off}]
      /\ jobs'[j] = v /\ \A k \in 1 .. Jobs : k # j => jobs'[k] = jobs[k]
  BY <1>1, <1>3, JobReplaced
<1>9. HiringTypeOK'
  <2>1. request' \in Seq([by : Candidate, at : Site, is : RequestStatus])
    BY <1>6 DEF Application
  <2> QED BY <1>1, <1>2, <1>6, <1>8, <2>1 DEF HiringTypeOK
<1>10. JobsAim'
  <2>1. v.at \in {"failed", "answered"}
    BY <1>3
  <2>2. Aims(v)
    BY <1>1, <1>3, <2>1, AimsAlike
  <2>3. Aims(v)'
    BY <1>1, <1>7, <2>2, AimsStay
  <2> QED BY <1>1, <1>3, <1>7, <2>3, JobsAimOn
<1>11. ProfilesCounted'
  <2>1. ~Hires(q) /\ ~Hires(v)
    BY <1>1, <1>3 DEF Hires
  <2>2. Cardinality(Hirers') = Cardinality(Hirers)
    BY <1>1, <1>3, <2>1, HirersChange
  <2> QED BY <1>1, <2>2 DEF HiringWell, ProfilesCounted
<1>12. OneProfile' /\ WorkersMayWork'
  BY <1>1, <1>2 DEF HiringInv, OneProfile, WorkersMayWork, HoldsProfile
<1>13. OnePends'
  <2> SUFFICES ASSUME "twin" \notin twist',
                      NEW r \in DOMAIN request', NEW x \in DOMAIN request', r # x,
                      request'[r].is = "PENDING", request'[x].is = "PENDING",
                      request'[r].by = request'[x].by, request'[r].at = request'[x].at
               PROVE  FALSE
    BY DEF OnePends
  <2>1. r # id /\ x # id
    BY <1>6
  <2> QED BY <1>2, <1>6, <2>1 DEF HiringInv, OnePends
<1>14. WorkersWereAccepted'
  <2>1. \A u \in Candidate : HoldsProfile(u)' => HoldsProfile(u)
    BY <1>1 DEF HoldsProfile
  <2>2. \/ "again" \in twist'
        \/ \A r \in DOMAIN request : request[r].is = "ACCEPTED" =>
             /\ r \in DOMAIN request' /\ request'[r].by = request[r].by
             /\ request'[r].is = "ACCEPTED"
    BY <1>2, <1>6
  <2>3. Accepting(q) =>
          \/ \E r \in DOMAIN request' : request'[r].by = q.who /\ request'[r].is = "ACCEPTED"
          \/ twist' \intersect {"died", "again"} # {}
    <3>1. Accepting(q) => to = "ACCEPTED"
      BY DEF Accepting, to
    <3>2. CASE q.was # to
      BY <1>1, <1>6, <3>1, <3>2
    <3>3. CASE q.was = to
      BY <1>2, <1>6, <3>3
    <3> QED BY <3>2, <3>3
  <2>4. WorkersWereAccepted /\ v \in Job \union {Off}
    BY DEF HiringInv
  <2> QED BY <1>1, <1>2, <1>3, <2>1, <2>2, <2>3, <2>4, AcceptedOn
<1>15. /\ PageJobs' = PageJobs
       /\ \A k \in PageJobs : k \in 1 .. Jobs /\ (k # j => jobs'[k] = jobs[k])
       /\ j \in PageJobs /\ v.what = "decide" /\ v.id = id
  <2>1. v # Off /\ v.what = "decide" /\ v.id = id
    BY <1>1, <1>3, JobFields DEF Alike, id
  <2>2. j \in PageJobs
    BY <1>1 DEF PageJobs
  <2> QED BY <1>1, <1>3, <1>8, <2>1, <2>2, PagesChange DEF PageJobs
<1>16. WallFollows'
  <2> SUFFICES ASSUME Unmixed', OneAnswer'
               PROVE  /\ \A r \in DOMAIN wall' :
                           \/ wall'[r] = request'[r].is
                           \/ \E k \in PageJobs' : /\ jobs'[k].what = "decide"
                                                   /\ jobs'[k].at = "answered"
                                                   /\ jobs'[k].id = r
                      /\ \A k \in PageJobs' : \A p : p = jobs'[k] => Fits(p)'
    BY WallHolds
  <2>1. Unmixed /\ OneAnswer /\ q.at = "writing" /\ v.at = "answered"
    BY <1>1, <1>2, <1>3, <1>15 DEF Unmixed, OneAnswer
  <2>2. /\ \A r \in DOMAIN wall :
             \/ wall[r] = request[r].is
             \/ \E k \in PageJobs : /\ jobs[k].what = "decide" /\ jobs[k].at = "answered"
                                    /\ jobs[k].id = r
        /\ \A k \in PageJobs : Fits(jobs[k])
    BY <2>1 DEF HiringInv, WallFollows, Unmixed
  <2>3. \A k \in PageJobs : k = j
    BY <1>15, <2>1 DEF OneAnswer
  <2>4. request[id].is = q.was
    <3>1. Fits(q)
      BY <1>15, <2>2
    <3> QED BY <1>1, <2>1, <3>1 DEF Fits, Undecided, id
  <2>5. request'[id].is = to
    BY <1>6, <2>4
  <2>6. ASSUME NEW p, p = v PROVE Fits(p)'
    BY <1>3, <1>15, <2>1, <2>5, <2>6 DEF Fits, Undecided
  <2>7. ASSUME NEW r \in DOMAIN wall, r # id PROVE wall[r] = request'[r].is
    <3>1. r \in DOMAIN request
      BY <1>1, Indices
    <3>2. wall[r] = request[r].is
      BY <2>1, <2>2, <2>3
    <3> QED BY <1>6, <2>7, <3>1, <3>2
  <2> QED BY <1>1, <1>8, <1>15, <2>1, <2>3, <2>6, <2>7
<1>17. TeamFollows'
  <2> SUFFICES ASSUME Uncrossed', OneAnswer'
               PROVE  /\ \A p \in team' :
                           \/ profile'[p].alive
                           \/ \E k \in PageJobs' : /\ jobs'[k].what = "remove"
                                                   /\ jobs'[k].at = "answered"
                                                   /\ jobs'[k].id = p
                      /\ \A k \in PageJobs' : \A p : p = jobs'[k] => Lists(p)'
    BY TeamHolds
  <2>1. Uncrossed /\ OneAnswer
    BY <1>2, <1>15 DEF Uncrossed, OneAnswer
  <2>2. /\ \A p \in team :
             \/ profile[p].alive
             \/ \E k \in PageJobs : /\ jobs[k].what = "remove" /\ jobs[k].at = "answered"
                                    /\ jobs[k].id = p
        /\ \A k \in PageJobs : Lists(jobs[k])
    BY <2>1 DEF HiringInv, TeamFollows, Uncrossed
  <2>3. \A k \in PageJobs : k = j
    BY <1>15, <2>1 DEF OneAnswer
  <2>4. \A p \in team : profile[p].alive
    BY <1>1, <2>2, <2>3
  <2>5. \A k \in PageJobs' : \A p : p = jobs'[k] => Lists(p)'
    BY <1>8, <1>15, <2>3 DEF Lists
  <2> QED BY <1>1, <2>4, <2>5
<1> QED BY <1>9, <1>10, <1>11, <1>12, <1>13, <1>14, <1>16, <1>17
        DEF HiringInv, HiringWell

-----------------------------------------------------------------------------
(* The vendor's page takes an answer. *)
Taken(j, v) ==
  /\ v \in Job \union {Off} /\ Replaced(j, v)
  /\ v # Off => v.at = "sent" /\ v.what = "team" /\ Aims(v)

Answers(j) == ReceiveVerdict(j) \/ ReceiveStaffList(j) \/ ReceiveRemoval(j) \/ ReceiveNothing(j)

LEMMA OffTaken ==
  ASSUME NEW j \in 1 .. Jobs, Becomes(j, Off)
  PROVE  \E v : Taken(j, v)
<1>1. Replaced(j, Off)
  BY DEF Becomes, Replaced
<1> QED BY <1>1 DEF Taken

LEMMA AnswerTaken ==
  ASSUME HiringWell, NEW j \in 1 .. Jobs, jobs[j] # Off, Answers(j)
  PROVE  \E v : Taken(j, v)
<1>1. CASE ReceiveVerdict(j)
  <2> DEFINE f == Fresh("team", Anyone, AnySite, 0, "REJECTED")
  <2>1. /\ 0 \in 0 .. (MaxRequests + MaxStarts) /\ Anyone \in Candidate /\ AnySite \in Site
        /\ "team" \in {"apply", "decide", "remove", "wall", "team"} /\ "REJECTED" \in Deciding
    BY Indices, HiringBounds DEF Deciding
  <2>2. IsFresh(f, "team", Anyone, 0)
    BY <2>1, FreshIs
  <2>3. CASE jobs[j].to = "ACCEPTED"
    <3>1. Replaced(j, f)
      BY <1>1, <2>3 DEF ReceiveVerdict, Becomes, Replaced
    <3> HIDE DEF f
    <3>2. f \in Job /\ f.at = "sent" /\ Aims(f)
      BY <2>2, FreshAims
    <3> QED BY <2>2, <3>1, <3>2 DEF Taken, IsFresh
  <2>4. CASE jobs[j].to # "ACCEPTED"
    <3>1. Replaced(j, Off)
      BY <1>1, <2>4 DEF ReceiveVerdict, Becomes, Replaced
    <3> QED BY <3>1 DEF Taken
  <2> QED BY <2>3, <2>4
<1>2. CASE ReceiveStaffList(j)
  BY <1>2, OffTaken DEF ReceiveStaffList
<1>3. CASE ReceiveRemoval(j)
  BY <1>3, OffTaken DEF ReceiveRemoval
<1>4. CASE ReceiveNothing(j)
  BY <1>4, OffTaken DEF ReceiveNothing
<1> QED BY <1>1, <1>2, <1>3, <1>4 DEF Answers

(* The lists it keeps are lists of what there is. *)
LEMMA ListsTyped ==
  ASSUME HiringWell, NEW j \in 1 .. Jobs, jobs[j] # Off, Answers(j)
  PROVE  /\ wall' \in Seq(RequestStatus) /\ Len(wall') <= Len(request)
         /\ team' \subseteq DOMAIN profile /\ removing' \in DOMAIN profile \union {0}
         /\ jobs[j].at \in {"answered", "failed"}
<1> DEFINE q == jobs[j]
<1>1. /\ wall \in Seq(RequestStatus) /\ Len(wall) <= Len(request)
      /\ team \subseteq DOMAIN profile /\ removing \in DOMAIN profile \union {0}
      /\ q \in Job /\ Aims(q)
  BY JobIs DEF HiringWell, HiringTypeOK, JobsAim
<1>2. /\ q.to \in RequestStatus /\ q.requests \in Seq(RequestStatus)
      /\ Len(q.requests) <= Len(request) /\ q.got \subseteq DOMAIN profile
  BY <1>1, JobFields DEF RequestStatus, Aims
<1>3. CASE ReceiveVerdict(j)
  <2> DEFINE id == q.id
             to == q.to
  <2>1. /\ wall' = [r \in DOMAIN wall |-> IF r = id THEN to ELSE wall[r]]
        /\ UNCHANGED <<team, removing>> /\ q.at = "answered"
    BY <1>3 DEF ReceiveVerdict
  <2>2. /\ Len(wall) \in Nat /\ DOMAIN wall = 1 .. Len(wall)
        /\ \A r \in DOMAIN wall : wall[r] \in RequestStatus
    BY <1>1, EntryIn
  <2> HIDE DEF id, to
  <2>3. \A r \in 1 .. Len(wall) : wall'[r] \in RequestStatus
    BY <1>2, <2>1, <2>2 DEF to
  <2>4. DOMAIN wall' = 1 .. Len(wall) /\ wall' = [r \in 1 .. Len(wall) |-> wall'[r]]
    BY <2>1, <2>2
  <2>5. wall' \in Seq(RequestStatus) /\ Len(wall') = Len(wall)
    BY <2>2, <2>3, <2>4, EntriesOf
  <2> QED BY <1>1, <2>1, <2>5
<1>4. CASE ReceiveStaffList(j)
  BY <1>1, <1>2, <1>4 DEF ReceiveStaffList
<1>5. CASE ReceiveRemoval(j)
  BY <1>1, <1>5 DEF ReceiveRemoval
<1>6. CASE ReceiveNothing(j)
  BY <1>1, <1>6 DEF ReceiveNothing
<1> QED BY <1>3, <1>4, <1>5, <1>6 DEF Answers

(* The only answer it waited for leaves the lists as they are. *)
LEMMA WallTaken ==
  ASSUME HiringWell, NEW j \in 1 .. Jobs, jobs[j] # Off, Answers(j),
         jobs[j].what # "apply", jobs[j].here, Fits(jobs[j]),
         \A r \in DOMAIN wall :
           \/ wall[r] = request[r].is
           \/ jobs[j].what = "decide" /\ jobs[j].at = "answered" /\ jobs[j].id = r
  PROVE  \A r \in DOMAIN wall' : wall'[r] = request[r].is
<1>1. CASE ReceiveVerdict(j)
  BY <1>1 DEF ReceiveVerdict, Fits
<1>2. CASE ReceiveStaffList(j)
  BY <1>2 DEF ReceiveStaffList, Fits
<1>3. CASE ReceiveRemoval(j)
  BY <1>3 DEF ReceiveRemoval
<1>4. CASE ReceiveNothing(j)
  BY <1>4 DEF ReceiveNothing
<1> QED BY <1>1, <1>2, <1>3, <1>4 DEF Answers

LEMMA TeamTaken ==
  ASSUME HiringWell, NEW j \in 1 .. Jobs, jobs[j] # Off, Answers(j),
         jobs[j].what # "apply", jobs[j].here, Lists(jobs[j]),
         \A p \in team :
           \/ profile[p].alive
           \/ jobs[j].what = "remove" /\ jobs[j].at = "answered" /\ jobs[j].id = p
  PROVE  \A p \in team' : profile[p].alive
<1>1. CASE ReceiveVerdict(j)
  BY <1>1 DEF ReceiveVerdict
<1>2. CASE ReceiveStaffList(j)
  BY <1>2 DEF ReceiveStaffList, Lists
<1>3. CASE ReceiveRemoval(j)
  BY <1>3 DEF ReceiveRemoval
<1>4. CASE ReceiveNothing(j)
  BY <1>4 DEF ReceiveNothing
<1> QED BY <1>1, <1>2, <1>3, <1>4 DEF Answers

LEMMA ApplicantAnswered ==
  ASSUME NEW j \in 1 .. Jobs, Answers(j), jobs[j].what = "apply"
  PROVE  UNCHANGED <<wall, team>> /\ Becomes(j, Off)
  BY DEF Answers, ReceiveVerdict, ReceiveStaffList, ReceiveRemoval, ReceiveNothing

LEMMA ReceiveInv ==
  ASSUME HiringInv, NEW j \in 1 .. Jobs, jobs[j] # Off, ReceiveJob(j)
  PROVE  HiringInv'
<1> DEFINE q == jobs[j]
<1>1. /\ HiringWell /\ HiringTypeOK /\ JobsAim /\ q \in Job
      /\ UNCHANGED <<request, profile, allowed, starts, lost>>
      /\ Answers(j)
  BY JobIs DEF HiringInv, HiringWell, ReceiveJob, Answers
<1>2. /\ twist \subseteq twist' /\ twist' \subseteq twist \union {"overtaken", "elsewhere"}
      /\ Others(j) # {} /\ q.what # "apply" => "overtaken" \in twist'
      /\ ~q.here => "elsewhere" \in twist'
  BY DEF ReceiveJob
<1>3. PICK v : Taken(j, v)
  BY <1>1, AnswerTaken
<1>4. /\ v \in Job \union {Off} /\ Replaced(j, v)
      /\ v # Off => v.at = "sent" /\ v.what = "team"
  BY <1>3 DEF Taken
<1>5. /\ jobs' \in [1 .. Jobs -> Job \union {Off}]
      /\ jobs'[j] = v /\ \A k \in 1 .. Jobs : k # j => jobs'[k] = jobs[k]
  BY <1>1, <1>4, JobReplaced
<1>6. /\ wall' \in Seq(RequestStatus) /\ Len(wall') <= Len(request)
      /\ team' \subseteq DOMAIN profile /\ removing' \in DOMAIN profile \union {0}
      /\ q.at \in {"answered", "failed"}
  BY <1>1, ListsTyped
<1>7. HiringTypeOK'
  BY <1>1, <1>2, <1>5, <1>6 DEF HiringTypeOK
<1>8. OneProfile' /\ WorkersMayWork' /\ OnePends' /\ RowsGrow /\ Len(request') \in Nat
  BY <1>1, <1>2, RowsStay
<1>9. JobsAim'
  <2>1. v # Off => Aims(v)'
    BY <1>1, <1>3 DEF Aims, Taken
  <2> QED BY <1>1, <1>4, <1>8, <2>1, JobsAimOn
<1>10. ProfilesCounted'
  <2>1. ~Hires(q) /\ ~Hires(v)
    BY <1>4, <1>6 DEF Hires
  <2>2. Cardinality(Hirers') = Cardinality(Hirers)
    BY <1>1, <1>4, <2>1, HirersChange
  <2> QED BY <1>1, <2>2 DEF HiringWell, ProfilesCounted
<1>11. WorkersWereAccepted'
  <2>1. \A u \in Candidate : HoldsProfile(u)' => HoldsProfile(u)
    BY <1>1 DEF HoldsProfile
  <2>2. \A r \in DOMAIN request : request[r].is = "ACCEPTED" =>
          /\ r \in DOMAIN request' /\ request'[r].by = request[r].by
          /\ request'[r].is = "ACCEPTED"
    BY <1>1
  <2>3. WorkersWereAccepted /\ ~Accepting(q)
    BY <1>6 DEF HiringInv, Accepting
  <2> QED BY <1>1, <1>2, <1>4, <2>1, <2>2, <2>3, AcceptedOn
<1>12. \A k \in PageJobs' : k = j \/ (k \in PageJobs /\ jobs'[k] = jobs[k])
  BY <1>5 DEF PageJobs
<1>13. \A k \in PageJobs : k \in 1 .. Jobs /\ (k = j \/ k \in Others(j))
  BY DEF PageJobs, Others
<1>14. CASE q.what = "apply"
  <2>1. UNCHANGED <<wall, team>> /\ Becomes(j, Off)
    BY <1>1, <1>14, ApplicantAnswered
  <2>2. jobs'[j] = Off
    BY <1>1, <2>1 DEF Becomes, HiringTypeOK
  <2>3. PageJobs' = PageJobs /\ \A k \in PageJobs : jobs'[k] = jobs[k]
    BY <1>5, <1>14, <2>2 DEF PageJobs
  <2>4. OneAnswer' <=> OneAnswer
    BY <2>3 DEF OneAnswer
  <2>5. WallFollows'
    <3>1. WallFollows
      BY DEF HiringInv
    <3> QED BY <1>1, <1>2, <2>1, <2>3, <2>4, <3>1 DEF WallFollows, Fits
  <2>6. TeamFollows'
    <3>1. TeamFollows
      BY DEF HiringInv
    <3> QED BY <1>1, <1>2, <2>1, <2>3, <2>4, <3>1 DEF TeamFollows, Lists
  <2> QED BY <1>7, <1>8, <1>9, <1>10, <1>11, <2>5, <2>6 DEF HiringInv, HiringWell
<1>15. CASE q.what # "apply"
  <2>1. j \in PageJobs
    BY <1>15 DEF PageJobs
  <2>2. Uncrossed' => Uncrossed /\ q.here /\ OneAnswer /\ \A k \in PageJobs : k = j
    BY <1>1, <1>2, <1>13, <1>15, JobFields DEF Uncrossed, OneAnswer
  <2>3. WallFollows'
    <3> SUFFICES ASSUME Unmixed', OneAnswer'
                 PROVE  /\ \A r \in DOMAIN wall' :
                             \/ wall'[r] = request'[r].is
                             \/ \E k \in PageJobs' : /\ jobs'[k].what = "decide"
                                                     /\ jobs'[k].at = "answered"
                                                     /\ jobs'[k].id = r
                        /\ \A k \in PageJobs' : \A p : p = jobs'[k] => Fits(p)'
      BY WallHolds
    <3>1. Uncrossed' /\ Unmixed
      BY <1>2 DEF Unmixed, Uncrossed
    <3>2. /\ \A r \in DOMAIN wall :
               \/ wall[r] = request[r].is
               \/ \E k \in PageJobs : /\ jobs[k].what = "decide" /\ jobs[k].at = "answered"
                                      /\ jobs[k].id = r
          /\ \A k \in PageJobs : Fits(jobs[k])
      BY <2>2, <3>1 DEF HiringInv, WallFollows, Unmixed
    <3>3. \A r \in DOMAIN wall' : wall'[r] = request[r].is
      BY <1>1, <1>15, <2>1, <2>2, <3>1, <3>2, WallTaken
    <3>4. \A k \in PageJobs' : k = j
      BY <1>12, <2>2, <3>1
    <3>5. \A k \in PageJobs' : jobs'[k] = v /\ v # Off
      BY <1>5, <3>4 DEF PageJobs
    <3>6. \A k \in PageJobs' : \A p : p = jobs'[k] => Fits(p)'
      BY <1>4, <3>5 DEF Fits, Undecided
    <3> QED BY <1>1, <3>3, <3>6
  <2>4. TeamFollows'
    <3> SUFFICES ASSUME Uncrossed', OneAnswer'
                 PROVE  /\ \A p \in team' :
                             \/ profile'[p].alive
                             \/ \E k \in PageJobs' : /\ jobs'[k].what = "remove"
                                                     /\ jobs'[k].at = "answered"
                                                     /\ jobs'[k].id = p
                        /\ \A k \in PageJobs' : \A p : p = jobs'[k] => Lists(p)'
      BY TeamHolds
    <3>2. /\ \A p \in team :
               \/ profile[p].alive
               \/ \E k \in PageJobs : /\ jobs[k].what = "remove" /\ jobs[k].at = "answered"
                                      /\ jobs[k].id = p
          /\ \A k \in PageJobs : Lists(jobs[k])
      BY <2>2 DEF HiringInv, TeamFollows, Uncrossed
    <3>3. \A p \in team' : profile[p].alive
      BY <1>1, <1>15, <2>1, <2>2, <3>2, TeamTaken
    <3>4. \A k \in PageJobs' : k = j
      BY <1>12, <2>2
    <3>5. \A k \in PageJobs' : jobs'[k] = v /\ v # Off
      BY <1>5, <3>4 DEF PageJobs
    <3>6. \A k \in PageJobs' : \A p : p = jobs'[k] => Lists(p)'
      BY <1>4, <3>5 DEF Lists
    <3> QED BY <1>1, <3>3, <3>6
  <2> QED BY <1>7, <1>8, <1>9, <1>10, <1>11, <2>3, <2>4 DEF HiringInv, HiringWell
<1> QED BY <1>14, <1>15

-----------------------------------------------------------------------------
LEMMA HiringStarts ==
  ASSUME HiringInit PROVE HiringInv
<1>1. /\ request = <<>> /\ profile = <<>> /\ allowed = {} /\ wall = <<>> /\ team = {}
      /\ jobs = [j \in 1 .. Jobs |-> Off] /\ removing = 0 /\ starts = 0 /\ lost = 0
      /\ twist = {}
  BY DEF HiringInit
<1>2. /\ request \in Seq(Application) /\ profile \in Seq(Contract) /\ wall \in Seq(RequestStatus)
      /\ Len(request) = 0 /\ Len(profile) = 0 /\ Len(wall) = 0
      /\ DOMAIN request = {} /\ DOMAIN profile = {} /\ DOMAIN wall = {}
  BY <1>1
<1>3. HiringTypeOK
  BY <1>1, <1>2, HiringBounds DEF HiringTypeOK, Application, Contract
<1>4. \A j \in 1 .. Jobs : jobs[j] = Off
  BY <1>1
<1>5. Hirers = {} /\ PageJobs = {}
  BY <1>4 DEF Hirers, Hires, PageJobs
<1>6. ProfilesCounted
  BY <1>1, <1>2, <1>5, FS_EmptySet DEF ProfilesCounted
<1>7. JobsAim /\ OneProfile /\ OnePends
  BY <1>2, <1>4 DEF JobsAim, OneProfile, OnePends
<1>8. \A u \in Candidate : ~HoldsProfile(u)
  BY <1>2 DEF HoldsProfile
<1>9. WorkersMayWork /\ WorkersWereAccepted
  BY <1>1, <1>8 DEF WorkersMayWork, WorkersWereAccepted
<1>10. WallFollows /\ TeamFollows
  BY <1>1, <1>2, <1>5 DEF WallFollows, TeamFollows
<1> QED BY <1>3, <1>6, <1>7, <1>9, <1>10 DEF HiringInv, HiringWell

LEMMA HiringUnchanged ==
  ASSUME HiringInv, UNCHANGED hiringVars PROVE HiringInv'
<1>1. /\ request' = request /\ profile' = profile /\ allowed' = allowed /\ jobs' = jobs
      /\ wall' = wall /\ team' = team /\ removing' = removing /\ starts' = starts
      /\ lost' = lost /\ twist' = twist
  BY DEF hiringVars
<1>2. HiringTypeOK' /\ ProfilesCounted'
  BY <1>1 DEF HiringInv, HiringWell, HiringTypeOK, ProfilesCounted, Hirers, Hires
<1>3. JobsAim'
  BY <1>1 DEF HiringInv, HiringWell, JobsAim, Aims
<1>4. OneProfile' /\ OnePends' /\ WorkersMayWork' /\ WorkersWereAccepted'
  BY <1>1 DEF HiringInv, OneProfile, OnePends, WorkersMayWork, WorkersWereAccepted,
              AcceptingJob, HoldsProfile
<1>5. PageJobs' = PageJobs /\ (OneAnswer' <=> OneAnswer)
  BY <1>1 DEF PageJobs, OneAnswer
<1>6. WallFollows'
  BY <1>1, <1>5 DEF HiringInv, WallFollows, Fits
<1>7. TeamFollows'
  BY <1>1, <1>5 DEF HiringInv, TeamFollows, Lists
<1> QED BY <1>2, <1>3, <1>4, <1>6, <1>7 DEF HiringInv, HiringWell

LEMMA HiringStep ==
  ASSUME HiringInv, [HiringNext]_hiringVars PROVE HiringInv'
<1>1. CASE \/ \E u \in Candidate, s \in Site : Apply(u, s)
           \/ \E r \in DOMAIN wall, d \in Deciding : Decide(r, d)
           \/ \E p \in team : Dismiss(p)
           \/ OtherPage
           \/ \E what \in {"wall", "team"} : OpenList(what)
  BY <1>1, StartsInv
<1>2. ASSUME NEW j \in 1 .. Jobs, jobs[j] # Off, Serve(j) PROVE HiringInv'
  <2>1. UNCHANGED <<wall, team, removing, starts, lost>>
    BY <1>2 DEF Serve
  <2>2. CASE Glances(j)
    BY <1>2, <2>2, LooksServe, ServedInv DEF HiringInv
  <2>3. CASE InsertRequest(j)
    BY <1>2, <2>1, <2>3, InsertInv
  <2>4. CASE Hire(j)
    BY <1>2, <2>1, <2>4, HireInv
  <2>5. CASE Fire(j)
    BY <1>2, <2>1, <2>5, FireInv
  <2>6. CASE WriteDecision(j)
    BY <1>2, <2>1, <2>6, WriteDecisionInv
  <2> QED BY <1>2, <2>2, <2>3, <2>4, <2>5, <2>6 DEF Serve, Glances
<1>3. ASSUME NEW j \in 1 .. Jobs, jobs[j] # Off, LoseJob(j) PROVE HiringInv'
  BY <1>3, LoseJobInv
<1>4. ASSUME NEW j \in 1 .. Jobs, jobs[j] # Off, ReceiveJob(j) PROVE HiringInv'
  BY <1>4, ReceiveInv
<1>5. CASE UNCHANGED hiringVars
  BY <1>5, HiringUnchanged
<1> QED BY <1>1, <1>2, <1>3, <1>4, <1>5 DEF HiringNext

LEMMA HiringAgrees ==
  ASSUME HiringInv PROVE HiringSound
<1>1. HiringTypeOK /\ WorkersMayWork /\ WorkersWereAccepted
  BY DEF HiringInv, HiringWell
<1>2. OneWaits
  <2> SUFFICES ASSUME "twin" \notin twist, NEW u \in Candidate, NEW s \in Site
               PROVE  Cardinality({r \in Made(u, s) : request[r].is = "PENDING"}) <= 1
    BY DEF OneWaits
  <2> DEFINE W == {r \in Made(u, s) : request[r].is = "PENDING"}
  <2>1. \A r, x \in W : r = x
    BY DEF HiringInv, OnePends, Made
  <2>2. CASE W = {}
    <3> HIDE DEF W
    <3>1. Cardinality(W) = 0
      BY <2>2, FS_EmptySet
    <3> QED BY <3>1 DEF W
  <2>3. CASE W # {}
    <3>1. PICK r \in W : TRUE
      BY <2>3
    <3>2. W = {r}
      BY <2>1, <3>1
    <3> HIDE DEF W
    <3>3. Cardinality(W) = 1
      BY <3>2, FS_Singleton
    <3> QED BY <3>3 DEF W
  <2> QED BY <2>2, <2>3
<1>3. ListsTrue
  <2> SUFFICES ASSUME \A j \in 1 .. Jobs : jobs[j] = Off
               PROVE  /\ Unmixed => \A r \in DOMAIN wall : wall[r] = request[r].is
                      /\ Uncrossed => \A p \in team : profile[p].alive
    BY DEF ListsTrue, Unmixed, Uncrossed
  <2>1. PageJobs = {} /\ OneAnswer
    BY DEF PageJobs, OneAnswer
  <2>2. Unmixed => \A r \in DOMAIN wall : wall[r] = request[r].is
    BY <2>1 DEF HiringInv, WallFollows, Unmixed
  <2>3. Uncrossed => \A p \in team : profile[p].alive
    BY <2>1 DEF HiringInv, TeamFollows, Uncrossed
  <2> QED BY <2>2, <2>3
<1> QED BY <1>1, <1>2, <1>3 DEF HiringSound

(* However applications, decisions of one page or another, dismissals and     *)
(* their answers interleave, and whichever requests die: who may work has a   *)
(* profile and was accepted, one request of a person waits at a restaurant,   *)
(* and the vendor's lists are the server's, but for what has crossed.         *)
THEOREM HiringStaysSound == HiringSpec => []HiringSound
<1>1. HiringInit => HiringInv
  BY HiringStarts
<1>2. HiringInv /\ [HiringNext]_hiringVars => HiringInv'
  BY HiringStep
<1>3. HiringInv => HiringSound
  BY HiringAgrees
<1> QED BY <1>1, <1>2, <1>3, PTL DEF HiringSpec

-----------------------------------------------------------------------------
(* The staff's board.  A change of status names its order and keeps its      *)
(* button, a switch keeps none.                                              *)
LineFits(q) ==
  /\ q.what = "set" => q.id \in Ticket /\ q.to \in TicketStatus /\ q.for = q.id
  /\ q.what = "dish" => q.to \in {"on", "off"} /\ q.for = 0

LinesFit == \A l \in Line : lines[l].at # "hung" => LineFits(lines[l])

(* A board that is not the server's is loaded again, or somebody has been   *)
(* told to.                                                                  *)
Behind == fault \intersect {"unheard", "overtaken", "lost"} # {}
Brings(q) ==
  /\ q.at # "hung" /\ q.what = "get"
  /\ q.at = "sent" \/ (q.at = "answered" /\ q.got = ticket)
BoardComing ==
  Behind \/ board = Shown(ticket) \/ nudges > 0 \/ \E l \in Line : Brings(lines[l])

(* One button waits, unless the slot is shared. *)
Presses(q) == q.at # "hung" /\ q.for # 0
OnePress ==
  "shared" \in fault \/ \A l, k \in Line : Presses(lines[l]) /\ Presses(lines[k]) => l = k

(* One switch at a time: what it will be once the switch is answered.        *)
Toggles(q) == q.at # "hung" /\ q.what = "dish"
DishCrossed == fault \intersect {"twice", "lost"} # {}
Toggled(q) == dishShown = q.to /\ (q.at = "answered" <=> dish = q.to)
DishFollows ==
  \/ DishCrossed
  \/ /\ \A l, k \in Line : Toggles(lines[l]) /\ Toggles(lines[k]) => l = k
     /\ \A l \in Line : Toggles(lines[l]) => Toggled(lines[l])
     /\ dishShown = dish \/ \E l \in Line : Toggles(lines[l])

LinesSound == LinesFit /\ BoardComing /\ OnePress /\ ButtonWaits /\ ButtonEnds /\ DishFollows
DeskInv == DeskTypeOK /\ LinesSound

LEMMA LineIs ==
  ASSUME DeskTypeOK, NEW l \in Line, lines[l].at # "hung"
  PROVE  lines[l] \in OnLine
  BY DEF DeskTypeOK, Hung

LEMMA LineFields ==
  ASSUME NEW q \in OnLine
  PROVE  /\ q.at \in {"sent", "answered", "refused"} /\ q.what \in {"get", "set", "dish"}
         /\ q.id \in Ticket \union {0} /\ q.for \in Ticket \union {0}
         /\ q.got \in [Ticket -> TicketStatus \union {Absent}]
  BY DEF OnLine

LEMMA ZeroIsNoTicket == 0 \notin Ticket
  BY StaffDeskAssumption

(* One line is changed, and becomes w. *)
LEMMA LineChanged ==
  ASSUME DeskTypeOK, NEW l \in Line, NEW w \in OnLine \union {Hung},
         lines' = [lines EXCEPT ![l] = w]
  PROVE  /\ lines' \in [Line -> OnLine \union {Hung}]
         /\ lines'[l] = w /\ \A k \in Line : k # l => lines'[k] = lines[k]
  BY DEF DeskTypeOK

LEMMA QueryIs ==
  ASSUME NEW what \in {"get", "set", "dish"}, NEW id \in Ticket \union {0},
         NEW to \in TicketStatus \union {"on", "off"}
  PROVE  /\ Query(what, id, to) \in OnLine
         /\ Query(what, id, to).at = "sent" /\ Query(what, id, to).what = what
         /\ Query(what, id, to).id = id /\ Query(what, id, to).to = to
         /\ Query(what, id, to).for = id
<1>1. [t \in Ticket |-> Absent] \in [Ticket -> TicketStatus \union {Absent}]
  OBVIOUS
<1> QED BY <1>1 DEF Query, OnLine

(* A line that was free is taken. *)
LEMMA Dials ==
  ASSUME DeskTypeOK, FreeLines # {}, NEW what \in {"get", "set", "dish"},
         NEW id \in Ticket \union {0}, NEW to \in TicketStatus \union {"on", "off"},
         lines' = Dialled(what, id, to)
  PROVE  \E l \in Line, w \in OnLine :
           /\ lines[l].at = "hung" /\ lines' = [lines EXCEPT ![l] = w]
           /\ w.at = "sent" /\ w.what = what /\ w.id = id /\ w.to = to /\ w.for = id
<1>1. NextLine \in FreeLines
  BY DEF NextLine
<1>2. NextLine \in Line /\ lines[NextLine].at = "hung"
  BY <1>1 DEF FreeLines
<1> DEFINE l == NextLine
           w == Query(what, id, to)
<1>3. lines' = [lines EXCEPT ![l] = w]
  BY DEF Dialled
<1>4. /\ w \in OnLine
      /\ w.at = "sent" /\ w.what = what /\ w.id = id /\ w.to = to /\ w.for = id
  BY QueryIs
<1>5. l \in Line /\ lines[l].at = "hung"
  BY <1>2
<1> HIDE DEF l, w
<1> QED BY <1>3, <1>4, <1>5

-----------------------------------------------------------------------------
(* What a step does to each part. *)
LEMMA BoardStaysComing ==
  ASSUME BoardComing, UNCHANGED <<ticket, board>>, Behind => Behind',
         nudges > 0 =>
           Behind' \/ nudges' > 0 \/ \E k \in Line : \A q : q = lines'[k] => Brings(q),
         \A l \in Line : Brings(lines[l]) =>
           Behind' \/ \E k \in Line : \A q : q = lines'[k] => Brings(q)
  PROVE  BoardComing'
  BY DEF BoardComing, Brings, Shown

LEMMA BoardTold ==
  ASSUME NEW t, NEW s, Turns(t, s), nudges \in Nat, fault' \subseteq Fault
  PROVE  BoardComing'
<1>1. CASE feed = "on"
  BY <1>1 DEF Turns, Nudged, BoardComing
<1>2. CASE feed # "on"
  BY <1>2 DEF Turns, BoardComing, Behind
<1> QED BY <1>1, <1>2

LEMMA FitOn ==
  ASSUME DeskTypeOK, LinesFit, NEW l \in Line, NEW w \in OnLine \union {Hung},
         lines' = [lines EXCEPT ![l] = w], w.at # "hung" => LineFits(w)
  PROVE  LinesFit'
<1>1. ASSUME NEW k \in Line, NEW q, q = lines'[k], q.at # "hung" PROVE LineFits(q)
  BY <1>1, LineChanged DEF LinesFit
<1> QED BY <1>1 DEF LinesFit, LineFits

(* The buttons, while no new one is pressed. *)
LEMMA ButtonsStay ==
  ASSUME DeskTypeOK, OnePress, ButtonWaits, ButtonEnds,
         NEW l \in Line, NEW w \in OnLine \union {Hung},
         lines' = [lines EXCEPT ![l] = w],
         "shared" \in fault => "shared" \in fault',
         \/ Presses(w) /\ Presses(lines[l]) /\ w.for = lines[l].for /\ updating' = updating
         \/ ~Presses(w) /\ ~Presses(lines[l]) /\ updating' = updating
         \/ ~Presses(w) /\ Presses(lines[l]) /\ updating' = 0
  PROVE  OnePress' /\ ButtonWaits' /\ ButtonEnds'
<1>1. /\ lines'[l] = w /\ \A k \in Line : k # l => lines'[k] = lines[k]
  BY LineChanged
<1>2. \A k \in Line : Presses(lines'[k]) =>
        Presses(lines[k]) /\ lines'[k].for = lines[k].for
  BY <1>1
<1>3. OnePress'
  BY <1>2 DEF OnePress, Presses
<1>4. ButtonWaits'
  <2> SUFFICES ASSUME NEW k \in Line, Presses(lines'[k]), lines'[k].for # updating',
                      "shared" \notin fault'
               PROVE  FALSE
    BY DEF ButtonWaits, Presses
  <2>1. Presses(lines[k]) /\ "shared" \notin fault /\ lines'[k].for = lines[k].for
    BY <1>2
  <2>2. lines[k].for = updating
    BY <2>1 DEF ButtonWaits, Presses
  <2>3. Presses(lines[l]) /\ ~Presses(w)
    BY <2>1, <2>2
  <2>4. k = l
    BY <2>1, <2>3 DEF OnePress
  <2> QED BY <1>1, <2>3, <2>4
<1>5. ButtonEnds'
  <2> SUFFICES ASSUME updating' # 0
               PROVE  \E k \in Line : lines'[k].at # "hung" /\ lines'[k].for = updating'
    BY DEF ButtonEnds
  <2>1. updating' = updating /\ (Presses(lines[l]) => Presses(w) /\ w.for = lines[l].for)
    OBVIOUS
  <2>2. PICK k \in Line : lines[k].at # "hung" /\ lines[k].for = updating
    BY <2>1 DEF ButtonEnds
  <2>3. Presses(lines[k])
    BY <2>1, <2>2 DEF Presses
  <2> QED BY <1>1, <2>1, <2>2, <2>3 DEF Presses
<1> QED BY <1>3, <1>4, <1>5

(* A dish, while no switch of it is touched. *)
LEMMA DishStays ==
  ASSUME DeskTypeOK, DishFollows, NEW l \in Line, NEW w \in OnLine \union {Hung},
         lines' = [lines EXCEPT ![l] = w], ~Toggles(lines[l]), ~Toggles(w),
         UNCHANGED <<dish, dishShown>>, DishCrossed => DishCrossed'
  PROVE  DishFollows'
<1>1. /\ lines'[l] = w /\ \A k \in Line : k # l => lines'[k] = lines[k]
  BY LineChanged
<1>2. \A k \in Line : /\ Toggles(lines'[k]) <=> Toggles(lines[k])
                      /\ Toggles(lines[k]) => lines'[k] = lines[k]
  BY <1>1
<1> QED BY <1>2 DEF DishFollows, Toggles, Toggled

(* Nothing is asked and nothing answered. *)
LEMMA LinesRest ==
  ASSUME LinesSound, UNCHANGED <<lines, updating, dish, dishShown>>, fault \subseteq fault',
         BoardComing'
  PROVE  LinesSound'
<1>1. LinesFit'
  BY DEF LinesSound, LinesFit, LineFits
<1>2. OnePress' /\ ButtonWaits' /\ ButtonEnds'
  BY DEF LinesSound, OnePress, Presses, ButtonWaits, ButtonEnds
<1>3. DishFollows'
  BY DEF LinesSound, DishFollows, Toggles, Toggled, DishCrossed
<1> QED BY <1>1, <1>2, <1>3 DEF LinesSound

-----------------------------------------------------------------------------
(* A change of status is asked for. *)
LEMMA StatusAsked ==
  ASSUME DeskTypeOK, LinesSound, NEW t \in Ticket, NEW s \in TicketStatus, AskForStatus(t, s),
         UNCHANGED <<ticket, board, nudges, dish, dishShown>>
  PROVE  /\ LinesSound' /\ lines' \in [Line -> OnLine \union {Hung}]
         /\ updating' \in Ticket \union {0} /\ fault' \subseteq Fault
<1>1. /\ FreeLines # {} /\ lines' = Dialled("set", t, s) /\ updating' = t
      /\ fault \subseteq fault' /\ fault' \subseteq fault \union {"shared"}
      /\ (\E l \in Line : Presses(lines[l])) => "shared" \in fault'
  BY DEF AskForStatus, Presses
<1>2. t \in Ticket \union {0} /\ s \in TicketStatus \union {"on", "off"} /\ t # 0
  BY ZeroIsNoTicket
<1>3. PICK l \in Line, w \in OnLine :
           /\ lines[l].at = "hung" /\ lines' = [lines EXCEPT ![l] = w]
           /\ w.at = "sent" /\ w.what = "set" /\ w.id = t /\ w.to = s /\ w.for = t
  BY <1>1, <1>2, Dials
<1>4. /\ lines' \in [Line -> OnLine \union {Hung}]
      /\ lines'[l] = w /\ \A k \in Line : k # l => lines'[k] = lines[k]
  BY <1>3, LineChanged
<1>5. LineFits(w) /\ ~Toggles(w) /\ ~Toggles(lines[l]) /\ ~Brings(lines[l])
  BY <1>3 DEF LineFits, Toggles, Brings
<1>6. LinesFit'
  BY <1>3, <1>5, FitOn DEF LinesSound
<1>7. BoardComing'
  <2>1. ASSUME NEW k \in Line, Brings(lines[k])
        PROVE  \A q : q = lines'[k] => Brings(q)
    BY <1>4, <1>5, <2>1
  <2>2. Behind => Behind'
    BY <1>1 DEF Behind
  <2> QED BY <2>1, <2>2, BoardStaysComing DEF LinesSound
<1>8. OnePress' /\ ButtonWaits'
  <2>1. "shared" \in fault' \/ \A k \in Line : Presses(lines'[k]) => k = l
    BY <1>1, <1>4
  <2>2. OnePress'
    BY <2>1 DEF OnePress, Presses
  <2>3. ButtonWaits'
    BY <1>1, <1>3, <1>4, <2>1 DEF ButtonWaits, Presses
  <2> QED BY <2>2, <2>3
<1>9. ButtonEnds'
  BY <1>1, <1>3, <1>4 DEF ButtonEnds
<1>10. DishFollows'
  <2>1. DishCrossed => DishCrossed'
    BY <1>1 DEF DishCrossed
  <2> QED BY <1>3, <1>5, <2>1, DishStays DEF LinesSound
<1>11. fault' \subseteq Fault
  BY <1>1 DEF DeskTypeOK, Fault
<1> QED BY <1>1, <1>4, <1>6, <1>7, <1>8, <1>9, <1>10, <1>11 DEF LinesSound

(* The board is loaded. *)
LEMMA Loads ==
  ASSUME DeskTypeOK, LinesSound, FreeLines # {}, lines' = Dialled("get", 0, "on"),
         UNCHANGED <<ticket, board, updating, dish, dishShown, fault>>
  PROVE  LinesSound' /\ lines' \in [Line -> OnLine \union {Hung}]
<1>1. 0 \in Ticket \union {0} /\ "on" \in TicketStatus \union {"on", "off"}
  OBVIOUS
<1>2. PICK l \in Line, w \in OnLine :
           /\ lines[l].at = "hung" /\ lines' = [lines EXCEPT ![l] = w]
           /\ w.at = "sent" /\ w.what = "get" /\ w.id = 0 /\ w.to = "on" /\ w.for = 0
  BY <1>1, Dials
<1>3. /\ lines' \in [Line -> OnLine \union {Hung}]
      /\ lines'[l] = w /\ \A k \in Line : k # l => lines'[k] = lines[k]
  BY <1>2, LineChanged
<1>4. /\ LineFits(w) /\ ~Toggles(w) /\ ~Toggles(lines[l])
      /\ ~Presses(w) /\ ~Presses(lines[l])
  BY <1>2 DEF LineFits, Toggles, Presses
<1>5. LinesFit'
  BY <1>2, <1>4, FitOn DEF LinesSound
<1>6. BoardComing'
  <2>1. ASSUME NEW q, q = lines'[l] PROVE Brings(q)'
    BY <1>2, <1>3, <2>1 DEF Brings
  <2> QED BY <2>1 DEF BoardComing, Brings
<1>7. OnePress' /\ ButtonWaits' /\ ButtonEnds'
  BY <1>2, <1>4, ButtonsStay DEF LinesSound
<1>8. DishFollows'
  <2>1. DishCrossed => DishCrossed'
    BY DEF DishCrossed
  <2> QED BY <1>2, <1>4, <2>1, DishStays DEF LinesSound
<1> QED BY <1>3, <1>5, <1>6, <1>7, <1>8 DEF LinesSound

(* The dish is switched, and shown so at once. *)
LEMMA ToggleSound ==
  ASSUME DeskInv, ToggleDish
  PROVE  DeskInv'
<1> DEFINE to == IF dishShown = "on" THEN "off" ELSE "on"
<1>1. /\ DeskTypeOK /\ LinesSound /\ FreeLines # {}
      /\ dishShown' = to /\ lines' = Dialled("dish", 0, to)
      /\ fault \subseteq fault' /\ fault' \subseteq fault \union {"twice"}
      /\ Busy({"dish"}) # {} => "twice" \in fault'
      /\ UNCHANGED <<ticket, tab, feed, nudges, board, known, alert, ever, held,
                     updating, asked, dish, outages>>
      /\ clicks' \in 0 .. MaxClicks
  BY StaffDeskAssumption DEF ToggleDish, DeskInv, Click, DeskTypeOK
<1>2. /\ 0 \in Ticket \union {0} /\ to \in TicketStatus \union {"on", "off"}
      /\ to \in {"on", "off"} /\ dishShown \in {"on", "off"} /\ dish \in {"on", "off"}
      /\ to # dishShown
  BY <1>1 DEF DeskTypeOK
<1> HIDE DEF to
<1>3. PICK l \in Line, w \in OnLine :
           /\ lines[l].at = "hung" /\ lines' = [lines EXCEPT ![l] = w]
           /\ w.at = "sent" /\ w.what = "dish" /\ w.id = 0 /\ w.to = to /\ w.for = 0
  BY <1>1, <1>2, Dials
<1>4. /\ lines' \in [Line -> OnLine \union {Hung}]
      /\ lines'[l] = w /\ \A k \in Line : k # l => lines'[k] = lines[k]
  BY <1>1, <1>3, LineChanged
<1>5. DeskTypeOK'
  BY <1>1, <1>2, <1>4 DEF DeskTypeOK, Fault
<1>6. /\ LineFits(w) /\ ~Brings(lines[l]) /\ ~Presses(w) /\ ~Presses(lines[l])
  BY <1>2, <1>3 DEF LineFits, Brings, Presses
<1>7. LinesFit'
  BY <1>1, <1>3, <1>6, FitOn DEF LinesSound
<1>8. BoardComing'
  <2>1. ASSUME NEW k \in Line, Brings(lines[k])
        PROVE  \A q : q = lines'[k] => Brings(q)
    BY <1>4, <1>6, <2>1
  <2>2. Behind => Behind'
    BY <1>1 DEF Behind
  <2> QED BY <1>1, <2>1, <2>2, BoardStaysComing DEF LinesSound
<1>9. OnePress' /\ ButtonWaits' /\ ButtonEnds'
  BY <1>1, <1>3, <1>6, ButtonsStay DEF LinesSound
<1>10. DishFollows'
  <2> SUFFICES ASSUME ~DishCrossed'
               PROVE  /\ \A k, m \in Line : Toggles(lines'[k]) /\ Toggles(lines'[m]) => k = m
                      /\ \A k \in Line : Toggles(lines'[k]) =>
                           /\ dishShown' = lines'[k].to
                           /\ lines'[k].at = "answered" <=> dish' = lines'[k].to
                      /\ \E k \in Line : Toggles(lines'[k])
    BY DEF DishFollows, DishCrossed, Toggles, Toggled
  <2>1. ~DishCrossed /\ Busy({"dish"}) = {}
    BY <1>1 DEF DishCrossed
  <2>2. \A k \in Line : ~Toggles(lines[k])
    BY <2>1 DEF Busy, Toggles
  <2>3. dishShown = dish
    BY <1>1, <2>1, <2>2 DEF LinesSound, DishFollows
  <2>4. \A k \in Line : Toggles(lines'[k]) <=> k = l
    BY <1>3, <1>4, <2>2 DEF Toggles
  <2> QED BY <1>1, <1>2, <1>3, <1>4, <2>3, <2>4
<1> QED BY <1>5, <1>7, <1>8, <1>9, <1>10 DEF DeskInv, LinesSound

-----------------------------------------------------------------------------
(* What becomes of a line: the parts that any step of it keeps. *)
LineStep(l, w) ==
  /\ lines[l].at # "hung" /\ w \in OnLine \union {Hung} /\ lines' = [lines EXCEPT ![l] = w]
  /\ w.at # "hung" => LineFits(w)
  /\ \/ Presses(w) /\ Presses(lines[l]) /\ w.for = lines[l].for /\ updating' = updating
     \/ ~Presses(w) /\ ~Presses(lines[l]) /\ updating' = updating
     \/ ~Presses(w) /\ Presses(lines[l]) /\ updating' = 0

LEMMA LineStepped ==
  ASSUME DeskTypeOK, LinesSound, NEW l \in Line, NEW w, LineStep(l, w),
         fault' \subseteq Fault, BoardComing', DishFollows',
         "shared" \in fault => "shared" \in fault'
  PROVE  /\ LinesSound' /\ lines' \in [Line -> OnLine \union {Hung}]
         /\ updating' \in Ticket \union {0}
<1>1. w \in OnLine \union {Hung} /\ lines' = [lines EXCEPT ![l] = w]
  BY DEF LineStep
<1>2. lines' \in [Line -> OnLine \union {Hung}]
  BY <1>1, LineChanged
<1>3. LinesFit'
  BY <1>1, FitOn DEF LineStep, LinesSound
<1>4. OnePress' /\ ButtonWaits' /\ ButtonEnds'
  BY <1>1, ButtonsStay DEF LineStep, LinesSound
<1>5. updating' \in Ticket \union {0}
  BY DEF LineStep, DeskTypeOK
<1> QED BY <1>2, <1>3, <1>4, <1>5 DEF LinesSound

(* A line whose dish is told, refused or taken. *)
LEMMA DishMoves ==
  ASSUME DeskTypeOK, DishFollows, NEW l \in Line, NEW w \in OnLine \union {Hung},
         lines' = [lines EXCEPT ![l] = w], Toggles(lines[l]), DishCrossed => DishCrossed',
         DishCrossed' \/
           (Toggled(lines[l]) =>
              \/ /\ Toggles(w) /\ dishShown' = w.to
                 /\ w.at = "answered" <=> dish' = w.to
              \/ ~Toggles(w) /\ dishShown' = dish')
  PROVE  DishFollows'
<1>1. /\ lines'[l] = w /\ \A k \in Line : k # l => lines'[k] = lines[k]
  BY LineChanged
<1> SUFFICES ASSUME ~DishCrossed'
             PROVE  /\ \A k, m \in Line : Toggles(lines'[k]) /\ Toggles(lines'[m]) => k = m
                    /\ \A k \in Line : Toggles(lines'[k]) =>
                         /\ dishShown' = lines'[k].to
                         /\ lines'[k].at = "answered" <=> dish' = lines'[k].to
                    /\ dishShown' = dish' \/ \E k \in Line : Toggles(lines'[k])
  BY DEF DishFollows, DishCrossed, Toggles, Toggled
<1>2. /\ \A k \in Line : Toggles(lines[k]) => k = l
      /\ Toggled(lines[l])
  BY DEF DishFollows
<1>3. \A k \in Line : Toggles(lines'[k]) => k = l
  BY <1>1, <1>2
<1> QED BY <1>1, <1>2, <1>3

LEMMA AnsweredAs ==
  ASSUME NEW q \in OnLine, NEW at \in {"answered", "refused"}, NEW w, w = [q EXCEPT !.at = at]
  PROVE  /\ w \in OnLine /\ w.at = at /\ w.what = q.what /\ w.id = q.id /\ w.to = q.to
         /\ w.for = q.for /\ w.got = q.got
  BY DEF OnLine

LEMMA ServeSound ==
  ASSUME DeskInv, NEW l \in Line, ServeLine(l)
  PROVE  DeskInv'
<1> DEFINE q == lines[l]
<1>1. /\ DeskTypeOK /\ LinesSound /\ q \in OnLine /\ q.at = "sent" /\ LineFits(q)
      /\ q.at # "hung"
      /\ UNCHANGED <<tab, board, known, alert, ever, updating, held, asked, dishShown, feed,
                     clicks, outages>>
  BY LineIs DEF DeskInv, LinesSound, LinesFit, ServeLine, deskPage
<1>2. CASE q.what = "get"
  <2> DEFINE w == [q EXCEPT !.at = "answered", !.got = ticket]
  <2>1. /\ lines' = [lines EXCEPT ![l] = w] /\ UNCHANGED <<ticket, nudges, dish, fault>>
    BY <1>2 DEF ServeLine
  <2>2. /\ w \in OnLine /\ w.at = "answered" /\ w.what = "get" /\ w.for = q.for /\ w.got = ticket
    BY <1>1, <1>2 DEF OnLine, DeskTypeOK
  <2> HIDE DEF w
  <2>3. LineStep(l, w)
    BY <1>1, <1>2, <2>1, <2>2 DEF LineStep, LineFits, Presses
  <2>4. lines'[l] = w
    BY <1>1, <2>1, <2>2, LineChanged
  <2>5. BoardComing'
    <3>1. ASSUME NEW p, p = lines'[l] PROVE Brings(p)'
      BY <2>1, <2>2, <2>4, <3>1 DEF Brings
    <3> QED BY <3>1 DEF BoardComing, Brings
  <2>6. DishFollows'
    <3>1. ~Toggles(q) /\ ~Toggles(w) /\ (DishCrossed => DishCrossed')
      BY <1>2, <2>1, <2>2 DEF Toggles, DishCrossed
    <3> QED BY <1>1, <2>1, <2>2, <3>1, DishStays DEF LinesSound
  <2>7. fault' \subseteq Fault /\ ("shared" \in fault => "shared" \in fault')
    BY <1>1, <2>1 DEF DeskTypeOK
  <2>8. LinesSound' /\ lines' \in [Line -> OnLine \union {Hung}]
    BY <1>1, <2>3, <2>5, <2>6, <2>7, LineStepped
  <2>9. DeskTypeOK'
    BY <1>1, <2>1, <2>8 DEF DeskTypeOK
  <2> QED BY <2>8, <2>9 DEF DeskInv
<1>3. ASSUME q.what # "get", NEW at \in {"answered", "refused"},
             lines' = [lines EXCEPT ![l].at = at],
             BoardComing', fault \subseteq fault', fault' \subseteq fault \union {"unheard"},
             q.what = "dish" => at = "answered" /\ dish' = q.to,
             q.what # "dish" => dish' = dish,
             ticket' \in [Ticket -> TicketStatus \union {Absent}], nudges' \in Nat
      PROVE  DeskInv'
  <2> DEFINE w == [q EXCEPT !.at = at]
  <2>1. lines' = [lines EXCEPT ![l] = w]
    BY <1>3
  <2>2. /\ w \in OnLine /\ w.at = at /\ w.what = q.what /\ w.for = q.for /\ w.to = q.to
        /\ w.id = q.id
    BY <1>1, AnsweredAs
  <2> HIDE DEF w
  <2>3. LineStep(l, w)
    BY <1>1, <2>1, <2>2 DEF LineStep, LineFits, Presses
  <2>4. DishCrossed => DishCrossed'
    BY <1>3 DEF DishCrossed
  <2>5. DishFollows'
    <3>1. CASE q.what = "dish"
      <4>1. Toggles(q) /\ Toggles(w) /\ w.at = "answered" /\ dish' = w.to
        BY <1>1, <1>3, <2>2, <3>1 DEF Toggles
      <4>2. Toggled(q) => dishShown' = w.to
        BY <1>1, <2>2 DEF Toggled
      <4> QED BY <1>1, <2>1, <2>2, <2>4, <4>1, <4>2, DishMoves DEF LinesSound
    <3>2. CASE q.what # "dish"
      <4>1. ~Toggles(q) /\ ~Toggles(w) /\ UNCHANGED <<dish, dishShown>>
        BY <1>1, <1>3, <2>2, <3>2 DEF Toggles
      <4> QED BY <1>1, <2>1, <2>2, <2>4, <4>1, DishStays DEF LinesSound
    <3> QED BY <3>1, <3>2
  <2>6. fault' \subseteq Fault /\ ("shared" \in fault => "shared" \in fault')
    BY <1>1, <1>3 DEF DeskTypeOK, Fault
  <2>7. LinesSound' /\ lines' \in [Line -> OnLine \union {Hung}]
    BY <1>1, <1>3, <2>3, <2>5, <2>6, LineStepped
  <2>8. dish' \in {"on", "off"}
    BY <1>1, <1>3 DEF DeskTypeOK, LineFits
  <2>9. DeskTypeOK'
    BY <1>1, <1>3, <2>6, <2>7, <2>8 DEF DeskTypeOK
  <2> QED BY <2>7, <2>9 DEF DeskInv
<1>4. ASSUME q.what # "get", UNCHANGED <<ticket, nudges, fault>>, NEW at,
             lines' = [lines EXCEPT ![l].at = at], at \in {"answered", "refused"}
      PROVE  BoardComing'
  <2> DEFINE w == [q EXCEPT !.at = at]
  <2>1. lines' = [lines EXCEPT ![l] = w] /\ w \in OnLine
    BY <1>1, <1>4, AnsweredAs
  <2> HIDE DEF w
  <2>2. \A k \in Line : k # l => lines'[k] = lines[k]
    BY <1>1, <2>1, LineChanged
  <2>3. ASSUME NEW k \in Line, Brings(lines[k])
        PROVE  \A p : p = lines'[k] => Brings(p)
    BY <1>4, <2>2, <2>3 DEF Brings
  <2>4. Behind => Behind'
    BY <1>4 DEF Behind
  <2> QED BY <1>1, <1>4, <2>3, <2>4, BoardStaysComing DEF LinesSound
<1>5. CASE q.what = "set" /\ Allows(q.id, q.to)
  <2>1. Turns(q.id, q.to) /\ lines' = [lines EXCEPT ![l].at = "answered"] /\ dish' = dish
    BY <1>5 DEF ServeLine
  <2>2. /\ ticket' \in [Ticket -> TicketStatus \union {Absent}] /\ nudges' \in Nat
        /\ fault \subseteq fault' /\ fault' \subseteq fault \union {"unheard"}
    BY <1>1, <1>5, <2>1 DEF Turns, Nudged, DeskTypeOK, LineFits
  <2>3. nudges \in Nat /\ fault' \subseteq Fault
    BY <1>1, <2>2 DEF DeskTypeOK, Fault
  <2>4. BoardComing'
    BY <2>1, <2>3, BoardTold
  <2> QED BY <1>3, <1>5, <2>1, <2>2, <2>4
<1>6. CASE q.what = "set" /\ ~Allows(q.id, q.to)
  <2>1. /\ lines' = [lines EXCEPT ![l].at = "refused"]
        /\ UNCHANGED <<ticket, nudges, dish, fault>>
    BY <1>6 DEF ServeLine
  <2>2. ticket' \in [Ticket -> TicketStatus \union {Absent}] /\ nudges' \in Nat
    BY <1>1, <2>1 DEF DeskTypeOK
  <2>3. BoardComing'
    BY <1>4, <1>6, <2>1
  <2> QED BY <1>3, <1>6, <2>1, <2>2, <2>3
<1>7. CASE q.what = "dish"
  <2>1. /\ lines' = [lines EXCEPT ![l].at = "answered"] /\ dish' = q.to
        /\ UNCHANGED <<ticket, nudges, fault>>
    BY <1>7 DEF ServeLine
  <2>2. ticket' \in [Ticket -> TicketStatus \union {Absent}] /\ nudges' \in Nat
    BY <1>1, <2>1 DEF DeskTypeOK
  <2>3. BoardComing'
    BY <1>4, <1>7, <2>1
  <2> QED BY <1>3, <1>7, <2>1, <2>2, <2>3
<1> QED BY <1>1, <1>2, <1>5, <1>6, <1>7, LineFields

LEMMA LoseSound ==
  ASSUME DeskInv, NEW l \in Line, LoseLine(l)
  PROVE  DeskInv'
<1> DEFINE q == lines[l]
           w == [q EXCEPT !.at = "refused"]
<1>1. /\ DeskTypeOK /\ LinesSound /\ q.at \in {"sent", "answered"} /\ q.at # "hung"
      /\ q \in OnLine /\ LineFits(q)
      /\ UNCHANGED <<ticket, tab, board, known, alert, ever, updating, held, asked, dishShown,
                     feed, nudges, dish, clicks>>
      /\ lines' = [lines EXCEPT ![l] = w]
      /\ outages < MaxOutages /\ outages' = outages + 1
      /\ fault \subseteq fault' /\ fault' \subseteq fault \union {"lost"}
      /\ q.at = "answered" \/ q.what = "get" => "lost" \in fault'
  BY LineIs DEF DeskInv, LinesSound, LinesFit, LoseLine, deskPage
<1>2. /\ w \in OnLine /\ w.at = "refused" /\ w.what = q.what /\ w.for = q.for /\ w.to = q.to
      /\ w.id = q.id
  BY <1>1, AnsweredAs
<1> HIDE DEF w
<1>3. LineStep(l, w)
  BY <1>1, <1>2 DEF LineStep, LineFits, Presses
<1>4. BoardComing'
  <2>1. ASSUME NEW k \in Line, Brings(lines[k]), ~Behind'
        PROVE  \A p : p = lines'[k] => Brings(p)
    <3>1. k # l
      BY <1>1, <2>1 DEF Brings, Behind
    <3>2. lines'[k] = lines[k]
      BY <1>1, <1>2, <3>1, LineChanged
    <3> QED BY <2>1, <3>2
  <2>2. Behind => Behind'
    BY <1>1 DEF Behind
  <2> QED BY <1>1, <2>1, <2>2, BoardStaysComing DEF LinesSound
<1>5. DishFollows'
  <2>1. DishCrossed => DishCrossed'
    BY <1>1 DEF DishCrossed
  <2>2. CASE q.what = "dish"
    <3>1. Toggles(q) /\ Toggles(w)
      BY <1>1, <1>2, <2>2 DEF Toggles
    <3>2. DishCrossed' \/ (Toggled(q) => dishShown' = w.to /\ (w.at = "answered" <=> dish' = w.to))
      BY <1>1, <1>2 DEF Toggled, DishCrossed
    <3> QED BY <1>1, <1>2, <2>1, <3>1, <3>2, DishMoves DEF LinesSound
  <2>3. CASE q.what # "dish"
    <3>1. ~Toggles(q) /\ ~Toggles(w)
      BY <1>1, <1>2, <2>3 DEF Toggles
    <3> QED BY <1>1, <1>2, <2>1, <3>1, DishStays DEF LinesSound
  <2> QED BY <2>2, <2>3
<1>6. fault' \subseteq Fault /\ ("shared" \in fault => "shared" \in fault')
  BY <1>1 DEF DeskTypeOK, Fault
<1>7. LinesSound' /\ lines' \in [Line -> OnLine \union {Hung}]
  BY <1>1, <1>3, <1>4, <1>5, <1>6, LineStepped
<1>8. outages' \in 0 .. MaxOutages
  BY <1>1, StaffDeskAssumption DEF DeskTypeOK
<1>9. DeskTypeOK'
  BY <1>1, <1>6, <1>7, <1>8 DEF DeskTypeOK
<1> QED BY <1>7, <1>9 DEF DeskInv

(* An answer is taken. *)
LEMMA ReceiveSound ==
  ASSUME DeskInv, NEW l \in Line, ReceiveLine(l)
  PROVE  DeskInv'
<1> DEFINE q == lines[l]
<1>1. /\ DeskTypeOK /\ LinesSound /\ q.at \in {"answered", "refused"} /\ q.at # "hung"
      /\ q \in OnLine /\ LineFits(q)
      /\ UNCHANGED <<ticket, tab, feed, nudges, held, asked, dish, clicks, outages>>
  BY LineIs DEF DeskInv, LinesSound, LinesFit, ReceiveLine
<1>2. Hung.at = "hung" /\ Hung \in OnLine \union {Hung} /\ ~Toggles(Hung) /\ ~Presses(Hung)
  BY DEF Hung, Toggles, Presses
<1>3. ASSUME lines' = [lines EXCEPT ![l] = Hung], updating' = Freed(l) PROVE LineStep(l, Hung)
  BY <1>1, <1>2, <1>3 DEF LineStep, Freed, Presses
<1>4. CASE ReceiveBoard(l)
  <2> DEFINE got == q.got
             ids == {t \in Ticket : Shown(got)[t] # Absent}
  <2>1. /\ q.what = "get" /\ q.at = "answered" /\ board' = Shown(got) /\ known' = ids
        /\ ever' = ever \union ids /\ alert' = Alerted(ids)
        /\ fault' = After(l) /\ updating' = Freed(l) /\ lines' = [lines EXCEPT ![l] = Hung]
        /\ dishShown' = dishShown
    BY <1>4 DEF ReceiveBoard, ShowBoard
  <2>2. /\ \/ fault' = fault \ {"unheard", "overtaken"} /\ got = ticket
           \/ fault' = fault \union {"overtaken"}
           \/ fault' = fault /\ got = ticket
    BY <2>1 DEF After
  <2>3. fault' \subseteq Fault /\ ("shared" \in fault => "shared" \in fault')
        /\ (DishCrossed => DishCrossed')
    BY <1>1, <2>2 DEF DeskTypeOK, Fault, DishCrossed
  <2>4. BoardComing'
    <3>1. CASE got = ticket
      BY <1>1, <2>1, <3>1 DEF BoardComing, Shown
    <3>2. CASE got # ticket
      BY <2>2, <3>2 DEF BoardComing, Behind
    <3> QED BY <3>1, <3>2
  <2>5. DishFollows'
    <3>1. ~Toggles(q)
      BY <2>1 DEF Toggles
    <3> QED BY <1>1, <1>2, <2>1, <2>3, <3>1, DishStays DEF LinesSound
  <2>6. LineStep(l, Hung)
    BY <1>3, <2>1
  <2>7. /\ LinesSound' /\ lines' \in [Line -> OnLine \union {Hung}]
        /\ updating' \in Ticket \union {0}
    BY <1>1, <2>3, <2>4, <2>5, <2>6, LineStepped
  <2>8. /\ board' \in [Ticket -> (TicketStatus \ {"COMPLETED"}) \union {Absent}]
        /\ known' = {t \in Ticket : board'[t] # Absent}
    <3>1. got \in [Ticket -> TicketStatus \union {Absent}]
      BY <1>1, LineFields
    <3> QED BY <2>1, <3>1 DEF Shown
  <2>9. alert' \in BOOLEAN /\ ever' \subseteq Ticket
    BY <1>1, <2>1 DEF Alerted, DeskTypeOK
  <2>10. DeskTypeOK'
    BY <1>1, <2>1, <2>3, <2>7, <2>8, <2>9 DEF DeskTypeOK
  <2> QED BY <2>7, <2>10 DEF DeskInv
<1>5. CASE ReceiveSet(l)
  <2> DEFINE f == Query("get", 0, "on")
             w == [f EXCEPT !.for = q.id]
  <2>1. /\ q.what = "set" /\ q.at = "answered" /\ lines' = [lines EXCEPT ![l] = w]
        /\ UNCHANGED <<board, known, alert, ever, updating, dishShown, fault>>
    BY <1>5 DEF ReceiveSet
  <2>2. q.id \in Ticket /\ q.for = q.id /\ q.id # 0
    BY <1>1, <2>1, ZeroIsNoTicket DEF LineFits
  <2>3. /\ f \in OnLine /\ f.at = "sent" /\ f.what = "get"
    BY QueryIs
  <2> HIDE DEF f
  <2>4. /\ w \in OnLine /\ w.at = "sent" /\ w.what = "get" /\ w.for = q.id
    BY <2>2, <2>3 DEF OnLine
  <2> HIDE DEF w
  <2>5. LineStep(l, w)
    BY <1>1, <2>1, <2>2, <2>4 DEF LineStep, LineFits, Presses
  <2>6. lines'[l] = w
    BY <1>1, <2>1, <2>4, LineChanged
  <2>7. BoardComing'
    <3>1. ASSUME NEW p, p = lines'[l] PROVE Brings(p)'
      BY <2>4, <2>6, <3>1 DEF Brings
    <3> QED BY <3>1 DEF BoardComing, Brings
  <2>8. DishFollows'
    <3>1. ~Toggles(q) /\ ~Toggles(w) /\ (DishCrossed => DishCrossed')
      BY <2>1, <2>4 DEF Toggles, DishCrossed
    <3> QED BY <1>1, <2>1, <2>4, <3>1, DishStays DEF LinesSound
  <2>9. fault' \subseteq Fault /\ ("shared" \in fault => "shared" \in fault')
    BY <1>1, <2>1 DEF DeskTypeOK
  <2>10. LinesSound' /\ lines' \in [Line -> OnLine \union {Hung}]
    BY <1>1, <2>5, <2>7, <2>8, <2>9, LineStepped
  <2>11. DeskTypeOK'
    BY <1>1, <2>1, <2>10 DEF DeskTypeOK
  <2> QED BY <2>10, <2>11 DEF DeskInv
<1>6. ASSUME q.what # "get" \/ q.at = "refused", UNCHANGED <<board, fault>>,
             lines' = [lines EXCEPT ![l] = Hung]
      PROVE  BoardComing'
  <2>1. \A k \in Line : k # l => lines'[k] = lines[k]
    BY <1>1, <1>2, <1>6, LineChanged
  <2>2. ASSUME NEW k \in Line, Brings(lines[k])
        PROVE  \A p : p = lines'[k] => Brings(p)
    BY <1>1, <1>6, <2>1, <2>2 DEF Brings
  <2>3. Behind => Behind'
    BY <1>6 DEF Behind
  <2> QED BY <1>1, <1>6, <2>2, <2>3, BoardStaysComing DEF LinesSound
<1>7. CASE ReceiveFailure(l)
  <2>1. /\ q.at = "refused" /\ q.what # "dish" /\ updating' = Freed(l)
        /\ lines' = [lines EXCEPT ![l] = Hung]
        /\ UNCHANGED <<board, known, alert, ever, dishShown, fault>>
    BY <1>7 DEF ReceiveFailure
  <2>2. BoardComing' /\ LineStep(l, Hung)
    BY <1>3, <1>6, <2>1
  <2>3. DishFollows'
    <3>1. ~Toggles(q) /\ (DishCrossed => DishCrossed')
      BY <2>1 DEF Toggles, DishCrossed
    <3> QED BY <1>1, <1>2, <2>1, <3>1, DishStays DEF LinesSound
  <2>4. fault' \subseteq Fault /\ ("shared" \in fault => "shared" \in fault')
    BY <1>1, <2>1 DEF DeskTypeOK
  <2>5. /\ LinesSound' /\ lines' \in [Line -> OnLine \union {Hung}]
        /\ updating' \in Ticket \union {0}
    BY <1>1, <2>2, <2>3, <2>4, LineStepped
  <2>6. DeskTypeOK'
    BY <1>1, <2>1, <2>5 DEF DeskTypeOK
  <2> QED BY <2>5, <2>6 DEF DeskInv
<1>8. CASE ReceiveDish(l)
  <2>1. /\ q.what = "dish" /\ dishShown' = DishAfter(q)
        /\ lines' = [lines EXCEPT ![l] = Hung]
        /\ UNCHANGED <<board, known, alert, ever, updating, fault>>
    BY <1>8 DEF ReceiveDish
  <2>2. q.to \in {"on", "off"} /\ q.for = 0 /\ dish \in {"on", "off"}
        /\ dishShown \in {"on", "off"}
    BY <1>1, <2>1 DEF LineFits, DeskTypeOK
  <2>3. LineStep(l, Hung)
    BY <1>1, <1>2, <2>1, <2>2 DEF LineStep, Presses
  <2>4. BoardComing'
    BY <1>6, <2>1
  <2>5. DishFollows'
    <3>1. Toggles(q) /\ (DishCrossed => DishCrossed')
      BY <1>1, <2>1 DEF Toggles, DishCrossed
    <3>2. Toggled(q) => dishShown' = dish'
      BY <1>1, <2>1, <2>2 DEF Toggled, DishAfter
    <3> QED BY <1>1, <1>2, <2>1, <3>1, <3>2, DishMoves DEF LinesSound
  <2>6. fault' \subseteq Fault /\ ("shared" \in fault => "shared" \in fault')
    BY <1>1, <2>1 DEF DeskTypeOK
  <2>7. LinesSound' /\ lines' \in [Line -> OnLine \union {Hung}]
    BY <1>1, <2>3, <2>4, <2>5, <2>6, LineStepped
  <2>8. dishShown' \in {"on", "off"}
    BY <2>1, <2>2 DEF DishAfter
  <2>9. DeskTypeOK'
    BY <1>1, <2>1, <2>7, <2>8 DEF DeskTypeOK
  <2> QED BY <2>7, <2>9 DEF DeskInv
<1> QED BY <1>4, <1>5, <1>7, <1>8 DEF ReceiveLine

-----------------------------------------------------------------------------
(* The customers, the socket and the staff. *)
LEMMA Clicks ==
  ASSUME DeskTypeOK, Click PROVE clicks' \in 0 .. MaxClicks
  BY StaffDeskAssumption DEF DeskTypeOK, Click

LEMMA ElsewhereSound ==
  ASSUME DeskInv, NEW t \in Ticket, Elsewhere(t)
  PROVE  DeskInv'
<1>1. /\ DeskTypeOK /\ LinesSound /\ Click
      /\ UNCHANGED <<tab, board, known, alert, ever, updating, held, asked, dishShown, feed,
                     dish, lines, outages>>
  BY DEF DeskInv, Elsewhere, deskPage
<1>2. PICK s \in {"PENDING", "CANCELLED", "COMPLETED"} : Turns(t, s)
  BY DEF Elsewhere
<1>3. /\ ticket' \in [Ticket -> TicketStatus \union {Absent}] /\ nudges' \in Nat
      /\ fault \subseteq fault' /\ fault' \subseteq Fault /\ nudges \in Nat
  BY <1>1, <1>2 DEF Turns, Nudged, DeskTypeOK, TicketStatus, Fault
<1>4. BoardComing'
  BY <1>2, <1>3, BoardTold
<1>5. LinesSound'
  BY <1>1, <1>3, <1>4, LinesRest
<1>6. clicks' \in 0 .. MaxClicks
  BY <1>1, Clicks
<1>7. DeskTypeOK'
  BY <1>1, <1>3, <1>6 DEF DeskTypeOK
<1> QED BY <1>5, <1>7 DEF DeskInv

(* A button is pressed, or the order's time is asked for. *)
LEMMA CookingAsked ==
  ASSUME DeskInv, NEW c1 \in [id : Ticket, status : TicketStatus], TriggerCooking(c1),
         UNCHANGED <<ticket, board, nudges, dish, dishShown>>
  PROVE  /\ LinesSound' /\ lines' \in [Line -> OnLine \union {Hung}]
         /\ updating' \in Ticket \union {0} /\ fault' \subseteq Fault /\ asked' \in Card
<1>1. DeskTypeOK /\ LinesSound /\ c1.id \in Ticket /\ "ACCEPTED" \in TicketStatus
  BY DEF DeskInv, TicketStatus
<1>2. CASE AskForStatus(c1.id, "ACCEPTED") /\ UNCHANGED asked
  <2>1. asked' \in Card
    BY <1>1, <1>2 DEF DeskTypeOK
  <2> QED BY <1>1, <1>2, <2>1, StatusAsked
<1>3. CASE asked' = c1 /\ UNCHANGED <<lines, updating, fault>>
  <2>1. BoardComing'
    BY <1>1, <1>3 DEF LinesSound, BoardComing, Behind, Brings, Shown
  <2>2. LinesSound'
    BY <1>1, <1>3, <2>1, LinesRest
  <2> QED BY <1>1, <1>3, <2>2 DEF DeskTypeOK, Card
<1> QED BY <1>2, <1>3 DEF TriggerCooking

LEMMA AdvanceSound ==
  ASSUME DeskInv, NEW t \in Ticket, Advance(t) \/ CancelCard(t)
  PROVE  DeskInv'
<1>1. /\ DeskTypeOK /\ LinesSound
      /\ Click
      /\ UNCHANGED <<ticket, tab, feed, nudges, board, known, alert, ever, held,
                     dish, dishShown, outages>>
  BY DEF DeskInv, Advance, CancelCard, CanPress
<1>2. /\ LinesSound' /\ lines' \in [Line -> OnLine \union {Hung}]
      /\ updating' \in Ticket \union {0} /\ fault' \subseteq Fault /\ asked' \in Card
  <2>1. ASSUME NEW s \in TicketStatus, AskForStatus(t, s), UNCHANGED asked
        PROVE  /\ LinesSound' /\ lines' \in [Line -> OnLine \union {Hung}]
               /\ updating' \in Ticket \union {0} /\ fault' \subseteq Fault /\ asked' \in Card
    <3>1. asked' \in Card
      BY <1>1, <2>1 DEF DeskTypeOK
    <3> QED BY <1>1, <2>1, <3>1, StatusAsked
  <2>2. CASE CancelCard(t)
    <3>1. AskForStatus(t, "CANCELLED") /\ UNCHANGED asked
      BY <2>2 DEF CancelCard
    <3> QED BY <2>1, <3>1 DEF TicketStatus
  <2>3. CASE Advance(t) /\ board[t] = "PENDING"
    <3> DEFINE c == [id |-> t, status |-> board[t]]
    <3>1. TriggerCooking(c) /\ c \in [id : Ticket, status : TicketStatus]
      BY <2>3 DEF Advance, TicketStatus
    <3> HIDE DEF c
    <3> QED BY <1>1, <3>1, CookingAsked
  <2>4. CASE Advance(t) /\ board[t] # "PENDING"
    <3> DEFINE s == NEXT_STATUS[board[t]]
    <3>1. board[t] \in {"ACCEPTED", "READY"} /\ AskForStatus(t, s) /\ UNCHANGED asked
      BY <2>4 DEF Advance, NEXT_STATUS
    <3>2. s \in TicketStatus
      BY <3>1 DEF NEXT_STATUS, TicketStatus
    <3> HIDE DEF s
    <3> QED BY <2>1, <3>1, <3>2
  <2> QED BY <2>2, <2>3, <2>4
<1>3. clicks' \in 0 .. MaxClicks
  BY <1>1, Clicks
<1>4. DeskTypeOK'
  BY <1>1, <1>2, <1>3 DEF DeskTypeOK
<1> QED BY <1>2, <1>4 DEF DeskInv

LEMMA DropSound ==
  ASSUME DeskInv, Drop PROVE DeskInv'
<1>1. /\ DeskTypeOK /\ LinesSound /\ held # Nothing /\ held' = Nothing
      /\ UNCHANGED <<ticket, tab, feed, nudges, board, known, alert, ever,
                     dish, dishShown, clicks, outages>>
  BY DEF DeskInv, Drop
<1>2. held \in [id : Ticket, status : TicketStatus]
  BY <1>1 DEF DeskTypeOK, Card
<1>3. /\ LinesSound' /\ lines' \in [Line -> OnLine \union {Hung}]
      /\ updating' \in Ticket \union {0} /\ fault' \subseteq Fault /\ asked' \in Card
  <2>1. CASE TriggerCooking(held)
    BY <1>1, <1>2, <2>1, CookingAsked
  <2>2. CASE AskForStatus(held.id, "READY") /\ UNCHANGED asked
    <3>1. asked' \in Card /\ held.id \in Ticket /\ "READY" \in TicketStatus
      BY <1>1, <1>2, <2>2 DEF DeskTypeOK, TicketStatus
    <3> QED BY <1>1, <2>2, <3>1, StatusAsked
  <2>3. CASE UNCHANGED <<asked, lines, updating, fault>>
    <3>1. BoardComing'
      BY <1>1, <2>3 DEF LinesSound, BoardComing, Behind, Brings, Shown
    <3>2. LinesSound'
      BY <1>1, <2>3, <3>1, LinesRest
    <3> QED BY <1>1, <2>3, <3>2 DEF DeskTypeOK
  <2> QED BY <2>1, <2>2, <2>3 DEF Drop
<1>4. held' \in Card
  BY <1>1 DEF Card
<1>5. DeskTypeOK'
  BY <1>1, <1>3, <1>4 DEF DeskTypeOK
<1> QED BY <1>3, <1>5 DEF DeskInv

LEMMA ConfirmSound ==
  ASSUME DeskInv, ConfirmEta PROVE DeskInv'
<1>1. /\ DeskTypeOK /\ LinesSound /\ asked # Nothing /\ asked' = Nothing /\ Click
      /\ AskForStatus(asked.id, "ACCEPTED")
      /\ UNCHANGED <<ticket, tab, feed, nudges, board, known, alert, ever, held,
                     dish, dishShown, outages>>
  BY DEF DeskInv, ConfirmEta
<1>2. asked.id \in Ticket /\ "ACCEPTED" \in TicketStatus
  BY <1>1 DEF DeskTypeOK, Card, TicketStatus
<1>3. /\ LinesSound' /\ lines' \in [Line -> OnLine \union {Hung}]
      /\ updating' \in Ticket \union {0} /\ fault' \subseteq Fault
  BY <1>1, <1>2, StatusAsked
<1>4. asked' \in Card /\ clicks' \in 0 .. MaxClicks
  BY <1>1, Clicks DEF Card
<1>5. DeskTypeOK'
  BY <1>1, <1>3, <1>4 DEF DeskTypeOK
<1> QED BY <1>3, <1>5 DEF DeskInv

(* What asks for nothing. *)
LEMMA RestSound ==
  ASSUME DeskInv,
         \/ \E t \in Ticket : Drag(t)
         \/ DismissEta \/ DismissAlert \/ FeedOpens \/ FeedBreaks \/ OpenMenu
         \/ UNCHANGED deskVars
  PROVE  DeskInv'
<1>1. /\ DeskTypeOK /\ LinesSound
      /\ UNCHANGED <<ticket, board, known, ever, updating, dish, dishShown, lines>>
  BY DEF DeskInv, Drag, DismissEta, DismissAlert, FeedOpens, FeedBreaks, OpenMenu, deskVars,
         deskPage
<1>2. /\ fault \subseteq fault' /\ fault' \subseteq fault \union {"unheard"}
      /\ nudges' = nudges \/ (nudges' = 0 /\ (nudges > 0 => "unheard" \in fault'))
  BY DEF Drag, DismissEta, DismissAlert, FeedOpens, FeedBreaks, OpenMenu, deskVars
<1>3. BoardComing'
  <2>1. Behind => Behind'
    BY <1>2 DEF Behind
  <2>2. nudges > 0 => Behind' \/ nudges' > 0
    BY <1>2 DEF Behind
  <2> QED BY <1>1, <2>1, <2>2, BoardStaysComing DEF LinesSound
<1>4. LinesSound'
  BY <1>1, <1>2, <1>3, LinesRest
<1>5. fault' \subseteq Fault /\ nudges' \in Nat
  BY <1>1, <1>2 DEF DeskTypeOK, Fault
<1>6. CASE \E t \in Ticket : Drag(t)
  <2>1. PICK t \in Ticket : Drag(t)
    BY <1>6
  <2>2. held' \in Card
    BY <2>1 DEF Drag, Card, TicketStatus
  <2>3. clicks' \in 0 .. MaxClicks
    BY <1>1, <2>1, Clicks DEF Drag
  <2>4. DeskTypeOK'
    BY <1>1, <1>5, <2>1, <2>2, <2>3 DEF DeskTypeOK, Drag
  <2> QED BY <1>4, <2>4 DEF DeskInv
<1>7. CASE DismissEta
  <2>1. DeskTypeOK'
    BY <1>1, <1>5, <1>7 DEF DeskTypeOK, DismissEta, Card
  <2> QED BY <1>4, <2>1 DEF DeskInv
<1>8. CASE DismissAlert
  <2>1. DeskTypeOK'
    BY <1>1, <1>5, <1>8 DEF DeskTypeOK, DismissAlert
  <2> QED BY <1>4, <2>1 DEF DeskInv
<1>9. CASE FeedOpens
  <2>1. DeskTypeOK'
    BY <1>1, <1>5, <1>9 DEF DeskTypeOK, FeedOpens, deskPage
  <2> QED BY <1>4, <2>1 DEF DeskInv
<1>10. CASE FeedBreaks
  <2>1. outages' \in 0 .. MaxOutages
    BY <1>1, <1>10, StaffDeskAssumption DEF DeskTypeOK, FeedBreaks
  <2>2. DeskTypeOK'
    BY <1>1, <1>5, <1>10, <2>1 DEF DeskTypeOK, FeedBreaks, deskPage
  <2> QED BY <1>4, <2>2 DEF DeskInv
<1>11. CASE OpenMenu
  <2>1. clicks' \in 0 .. MaxClicks /\ held' \in Card
    BY <1>1, <1>11, Clicks DEF OpenMenu, Card
  <2>2. DeskTypeOK'
    BY <1>1, <1>5, <1>11, <2>1 DEF DeskTypeOK, OpenMenu
  <2> QED BY <1>4, <2>2 DEF DeskInv
<1>12. CASE UNCHANGED deskVars
  <2>1. DeskTypeOK'
    BY <1>1, <1>5, <1>12 DEF DeskTypeOK, deskVars, deskPage
  <2> QED BY <1>4, <2>1 DEF DeskInv
<1> QED BY <1>6, <1>7, <1>8, <1>9, <1>10, <1>11, <1>12

(* What loads the board. *)
LEMMA NudgeSound ==
  ASSUME DeskInv, Nudge \/ OpenOrders PROVE DeskInv'
<1>1. /\ DeskTypeOK /\ LinesSound /\ FreeLines # {} /\ lines' = Dialled("get", 0, "on")
      /\ UNCHANGED <<ticket, board, known, alert, ever, updating, held, asked, dish, dishShown,
                     outages, fault>>
  BY DEF DeskInv, Nudge, OpenOrders, deskPage
<1>2. LinesSound' /\ lines' \in [Line -> OnLine \union {Hung}]
  BY <1>1, Loads
<1>3. CASE Nudge
  <2>1. nudges' \in Nat
    BY <1>1, <1>3 DEF Nudge, DeskTypeOK
  <2>2. DeskTypeOK'
    BY <1>1, <1>2, <1>3, <2>1 DEF Nudge, DeskTypeOK, deskPage
  <2> QED BY <1>2, <2>2 DEF DeskInv
<1>4. CASE OpenOrders
  <2>1. clicks' \in 0 .. MaxClicks
    BY <1>1, <1>4, Clicks DEF OpenOrders
  <2>2. DeskTypeOK'
    BY <1>1, <1>2, <1>4, <2>1 DEF OpenOrders, DeskTypeOK
  <2> QED BY <1>2, <2>2 DEF DeskInv
<1> QED BY <1>3, <1>4

LEMMA DeskStarts ==
  ASSUME DeskInit PROVE DeskInv
<1>1. /\ ticket \in [Ticket -> TicketStatus \union {Absent}]
      /\ tab = "orders" /\ feed = "down" /\ nudges = 0
      /\ board = [t \in Ticket |-> Absent] /\ known = {} /\ alert = FALSE /\ ever = {}
      /\ updating = 0 /\ held = Nothing /\ asked = Nothing
      /\ dish = "on" /\ dishShown = "on" /\ clicks = 0 /\ outages = 0 /\ fault = {}
  BY DEF DeskInit, TicketStatus
<1> DEFINE f == Query("get", 0, "on")
<1>2. /\ f \in OnLine /\ f.at = "sent" /\ f.what = "get" /\ f.for = 0
  BY QueryIs
<1>3. lines = [l \in Line |-> IF l = 1 THEN f ELSE Hung]
  BY DEF DeskInit
<1> HIDE DEF f
<1>4. 1 \in Line /\ Hung.at = "hung"
  BY StaffDeskAssumption DEF Line, Hung
<1>5. lines \in [Line -> OnLine \union {Hung}]
  BY <1>2, <1>3
<1>6. DeskTypeOK
  <2>1. /\ board \in [Ticket -> (TicketStatus \ {"COMPLETED"}) \union {Absent}]
        /\ known = {t \in Ticket : board[t] # Absent}
    BY <1>1
  <2>2. clicks \in 0 .. MaxClicks /\ outages \in 0 .. MaxOutages
    BY <1>1, StaffDeskAssumption
  <2>3. held \in Card /\ asked \in Card
    BY <1>1 DEF Card
  <2> QED BY <1>1, <1>5, <2>1, <2>2, <2>3 DEF DeskTypeOK
<1>7. \A l \in Line : lines[l].at # "hung" => lines[l] = f
  BY <1>3, <1>4
<1>8. LinesFit /\ OnePress /\ ButtonWaits /\ ButtonEnds
  BY <1>1, <1>2, <1>7 DEF LinesFit, LineFits, OnePress, Presses, ButtonWaits, ButtonEnds
<1>9. BoardComing
  <2>1. lines[1] = f /\ Brings(f)
    BY <1>2, <1>3, <1>4 DEF Brings
  <2> QED BY <1>4, <2>1 DEF BoardComing
<1>10. DishFollows
  BY <1>1, <1>2, <1>7 DEF DishFollows, Toggles
<1> QED BY <1>6, <1>8, <1>9, <1>10 DEF DeskInv, LinesSound

LEMMA DeskStep ==
  ASSUME DeskInv, [DeskNext]_deskVars PROVE DeskInv'
<1>1. ASSUME NEW t \in Ticket, Elsewhere(t) \/ Advance(t) \/ CancelCard(t) PROVE DeskInv'
  BY <1>1, ElsewhereSound, AdvanceSound
<1>2. ASSUME NEW l \in Line, ServeLine(l) \/ LoseLine(l) \/ ReceiveLine(l) PROVE DeskInv'
  BY <1>2, ServeSound, LoseSound, ReceiveSound
<1>3. CASE \/ \E t \in Ticket : Drag(t)
           \/ DismissEta \/ DismissAlert \/ FeedOpens \/ FeedBreaks \/ OpenMenu
           \/ UNCHANGED deskVars
  BY <1>3, RestSound
<1>4. CASE Nudge \/ OpenOrders \/ Drop \/ ConfirmEta \/ ToggleDish
  BY <1>4, NudgeSound, DropSound, ConfirmSound, ToggleSound
<1> QED BY <1>1, <1>2, <1>3, <1>4 DEF DeskNext

LEMMA DeskHonest ==
  ASSUME DeskInv PROVE StaffBoardSound
<1>1. BoardHonest
  <2> SUFFICES ASSUME DeskQuiet, ~Behind PROVE board = Shown(ticket)
    BY DEF BoardHonest, Behind
  <2>1. nudges = 0 /\ \A l \in Line : lines[l].at = "hung"
    BY DEF DeskQuiet, FreeLines
  <2> QED BY <2>1 DEF DeskInv, LinesSound, BoardComing, Brings
<1>2. DishHonest
  <2> SUFFICES ASSUME Busy({"dish"}) = {}, ~DishCrossed PROVE dishShown = dish
    BY DEF DishHonest, DishCrossed
  <2>1. \A l \in Line : ~Toggles(lines[l])
    BY DEF Busy, Toggles
  <2> QED BY <2>1 DEF DeskInv, LinesSound, DishFollows
<1> QED BY <1>1, <1>2 DEF StaffBoardSound, DeskInv, LinesSound

(* However nudges, reloads, buttons and broken connections cross: once        *)
(* nothing is on the way the board is the kitchen's, a change keeps its        *)
(* button, no button waits for nothing, and a dish is shown as it is sold,      *)
(* but for the cases named.                                                      *)
THEOREM StaffBoardStaysSound == DeskSpec => []StaffBoardSound
<1>1. DeskInit => DeskInv
  BY DeskStarts
<1>2. DeskInv /\ [DeskNext]_deskVars => DeskInv'
  BY DeskStep
<1>3. DeskInv => StaffBoardSound
  BY DeskHonest
<1> QED BY <1>1, <1>2, <1>3, PTL DEF DeskSpec

-----------------------------------------------------------------------------
(* The vendor's dashboard.  At most one save, with the reload that follows    *)
(* it, or one creation is under way; it chooses its restaurant when it ends.   *)
Flies(e, whats) == e.at # "cut" /\ e.what \in whats
Savings == {"settings", "list", "create"}
Savers == {w \in 1 .. Wires : Flies(wire[w], Savings)}

OneSaver ==
  /\ \A v, w \in Savers : v = w
  /\ formWait <=> \E w \in Savers : TRUE

(* What a save puts is at the server once it was served; whatever else the    *)
(* page knows of the switches is as the server has it.                        *)
RecordFollows ==
  "elsewhere" \notin upset =>
    /\ \A w \in Savers :
         /\ wire[w].at # "failed"
         /\ wire[w].what = "list" \/ wire[w].at = "answered" => paused[wire[w].of] = wire[w].put
    /\ \A p \in Place : mine[p] = paused[p] \/ \E w \in Savers : wire[w].of = p
    /\ chosen # 0 => copy = paused[chosen] \/ \E w \in Savers : wire[w].of = chosen

ChoiceFollows ==
  "jump" \notin upset =>
    /\ chosen = picked
    /\ \A w \in Savers : wire[w].of = chosen /\ wire[w].what # "create"

(* Orders and figures that are not the chosen restaurant's are being loaded. *)
Fetched(what) == \E w \in 1 .. Wires : Flies(wire[w], {what})
OrdersFollow ==
  "orders" \notin upset /\ panel = "orders" => orders = Of(chosen, query) \/ Fetched("orders")
FiguresFollow ==
  "figures" \notin upset /\ panel = "analytics" => figures.of = chosen \/ Fetched("figures")

(* Whoever's hours are on the way are the hours of the restaurant they were    *)
(* asked of, or are being saved for.                                           *)
HoursOwn(e) ==
  /\ e.at # "cut" /\ e.what = "save hours" => e.week = e.of
  /\ e.at = "answered" /\ e.what = "hours" => e.week = e.of
HoursFollow ==
  "hours" \notin upset =>
    /\ \A p \in Place : kept[p] = p
    /\ \A w \in 1 .. Wires : HoursOwn(wire[w])
    /\ panel = "schedule" /\ ~hoursWait => hours \in {0, chosen}
WeekSent == \A w \in 1 .. Wires : Flies(wire[w], {"save hours"}) => wire[w].week # 0

VendorInv ==
  /\ VendorTypeOK /\ OneSaver /\ RecordFollows /\ ChoiceFollows
  /\ OrdersFollow /\ FiguresFollow /\ HoursFollow /\ WeekSent


-----------------------------------------------------------------------------
(* The requests, and what the effects ask for. *)
LEMMA WireIs ==
  ASSUME VendorTypeOK, NEW w \in 1 .. Wires
  PROVE  /\ wire[w].at = "cut" => wire[w] = Cut
         /\ wire[w].at # "cut" =>
              /\ wire[w] \in SentErrand
              /\ wire[w].at \in {"sent", "answered", "failed"} /\ wire[w].what \in Errand
              /\ wire[w].of \in Place /\ wire[w].of # 0 /\ wire[w].key \in {"first", "other"}
              /\ wire[w].put \in Switch /\ wire[w].week \in Place \union {0, Defaults}
<1>1. wire[w] \in SentErrand \union {Cut}
  BY DEF VendorTypeOK
<1>2. CASE wire[w] = Cut
  BY <1>2 DEF Cut
<1>3. CASE wire[w] \in SentErrand
  BY <1>3, VendorDeskAssumption DEF SentErrand
<1> QED BY <1>1, <1>2, <1>3

LEMMA FreshErrand ==
  ASSUME NEW what \in Errand, NEW p \in Place, NEW q \in {"first", "other"}
  PROVE  /\ NewErrand(what, p, q) \in SentErrand
         /\ NewErrand(what, p, q).at = "sent" /\ NewErrand(what, p, q).what = what
         /\ NewErrand(what, p, q).of = p /\ NewErrand(what, p, q).week = 0
BY DEF NewErrand, SentErrand, Switch

LEMMA SlotFree ==
  ASSUME VendorTypeOK, IdleWires # {}
  PROVE  NextWire \in 1 .. Wires /\ wire[NextWire].at = "cut"
BY DEF IdleWires, NextWire

LEMMA OneWire ==
  ASSUME VendorTypeOK, NEW w \in 1 .. Wires, NEW e \in SentErrand \union {Cut},
         wire' = [wire EXCEPT ![w] = e]
  PROVE  /\ wire' \in [1 .. Wires -> SentErrand \union {Cut}]
         /\ wire'[w] = e /\ \A v \in 1 .. Wires : v # w => wire'[v] = wire[v]
BY DEF VendorTypeOK

LEMMA SaversRest ==
  ASSUME OneSaver, RecordFollows, ChoiceFollows,
         \A w \in 1 .. Wires : wire'[w] = wire[w]
                               \/ (~Flies(wire[w], Savings) /\ ~Flies(wire'[w], Savings)),
         UNCHANGED <<paused, mine, chosen, copy, picked, formWait>>,
         "elsewhere" \in upset <=> "elsewhere" \in upset', "jump" \in upset <=> "jump" \in upset'
  PROVE  OneSaver' /\ RecordFollows' /\ ChoiceFollows'
<1>1. Savers' = Savers /\ \A w \in Savers : wire'[w] = wire[w]
  BY DEF Savers, Flies
<1>2. OneSaver'
  BY <1>1 DEF OneSaver
<1>3. RecordFollows'
  BY <1>1 DEF RecordFollows
<1>4. ChoiceFollows'
  BY <1>1 DEF ChoiceFollows
<1> QED BY <1>2, <1>3, <1>4

(* A panel that is shown anew is loaded, and listens if it shows orders. *)
LEMMA PanelLoads ==
  ASSUME VendorTypeOK, HoursFollow, WeekSent,
         NEW slots \in [1 .. Wires -> SentErrand \union {Cut}],
         \A v \in 1 .. Wires : slots[v] = wire[v] \/ slots[v] = Cut,
         NEW what, NEW e, what = Loading(panel'), panel' \in Panel,
         what # "none" => e \in SentErrand /\ e.at = "sent" /\ e.what = what /\ e.week = 0,
         what = "none" => wire' = slots,
         what # "none" => \E w \in 1 .. Wires : slots[w].at = "cut" /\ wire' = [slots EXCEPT ![w] = e],
         what = "hours" => hoursWait', what # "hours" => hoursWait' = hoursWait,
         kept' = kept, "hours" \in upset => "hours" \in upset'
  PROVE  /\ wire' \in [1 .. Wires -> SentErrand \union {Cut}]
         /\ \A v \in 1 .. Wires :
              wire'[v] = slots[v]
              \/ (~Flies(slots[v], Savings) /\ ~Flies(wire'[v], Savings))
         /\ OrdersFollow' /\ FiguresFollow' /\ HoursFollow' /\ WeekSent'
<1>1. what \in {"orders", "hours", "figures", "none"}
  BY DEF Loading
<1>2. /\ wire' \in [1 .. Wires -> SentErrand \union {Cut}]
      /\ \A v \in 1 .. Wires :
           wire'[v] = slots[v] \/ (slots[v].at = "cut" /\ wire'[v] = e /\ what # "none")
      /\ what # "none" => \E v \in 1 .. Wires : wire'[v] = e
  <2>1. CASE what = "none"
    BY <2>1
  <2>2. CASE what # "none"
    <3>1. PICK w \in 1 .. Wires : slots[w].at = "cut" /\ wire' = [slots EXCEPT ![w] = e]
      BY <2>2
    <3> QED BY <2>2, <3>1
  <2> QED BY <2>1, <2>2
<1>3. \A v \in 1 .. Wires :
        wire'[v] = slots[v] \/ (~Flies(slots[v], Savings) /\ ~Flies(wire'[v], Savings))
  BY <1>1, <1>2 DEF Flies, Savings
<1>8. \A v \in 1 .. Wires :
        \/ wire'[v] = wire[v] \/ wire'[v].at = "cut"
        \/ (wire'[v].at = "sent" /\ wire'[v].what # "save hours")
  <2> SUFFICES ASSUME NEW v \in 1 .. Wires, wire'[v] # wire[v]
               PROVE  wire'[v].at = "cut" \/ (wire'[v].at = "sent" /\ wire'[v].what # "save hours")
    OBVIOUS
  <2>1. CASE wire'[v] = slots[v]
    <3>1. wire'[v] = Cut
      BY <2>1
    <3> QED BY <3>1 DEF Cut
  <2>2. CASE wire'[v] # slots[v]
    BY <1>1, <1>2, <2>2
  <2> QED BY <2>1, <2>2
<1>4. OrdersFollow'
  <2>1. panel' = "orders" => what = "orders"
    BY DEF Loading
  <2> QED BY <1>2, <2>1 DEF OrdersFollow, Fetched, Flies
<1>5. FiguresFollow'
  <2>1. panel' = "analytics" => what = "figures"
    BY DEF Loading
  <2> QED BY <1>2, <2>1 DEF FiguresFollow, Fetched, Flies
<1>6. HoursFollow'
  <2>1. panel' = "schedule" => hoursWait'
    BY DEF Loading
  <2>2. \A v \in 1 .. Wires : HoursOwn(wire[v]) => HoursOwn(wire'[v])
    BY <1>8 DEF HoursOwn
  <2>3. \A v \in 1 .. Wires : HoursOwn(wire[v])' <=> HoursOwn(wire'[v])
    BY DEF HoursOwn
  <2> QED BY <2>1, <2>2, <2>3 DEF HoursFollow
<1>7. WeekSent'
  BY <1>8 DEF WeekSent, Flies
<1> QED BY <1>2, <1>3, <1>4, <1>5, <1>6, <1>7


-----------------------------------------------------------------------------
(* What the vendor does. *)
LEMMA ChoosePlaceInv ==
  ASSUME VendorInv, NEW p \in Place, ChoosePlace(p)
  PROVE  VendorInv'
<1> DEFINE what == Loading(panel)
           e == NewErrand(what, p, query)
<1>1. /\ mine[p] # "unmade" /\ Move /\ chosen' = p /\ copy' = mine[p] /\ picked' = p
      /\ form' = NoForm /\ Effects(wire, p, panel, query)
      /\ upset' = IF Saving THEN upset \union {"jump"} ELSE upset \ {"jump"}
      /\ UNCHANGED <<vendorBase, panel, query, orders, figures, hours, formWait, breakdowns>>
  BY DEF ChoosePlace
<1>2. VendorTypeOK /\ OneSaver /\ RecordFollows /\ HoursFollow /\ WeekSent
  BY DEF VendorInv
<1>3. what # "none" => e \in SentErrand /\ e.at = "sent" /\ e.what = what /\ e.week = 0
  <2>1. what # "none" => what \in Errand
    BY DEF Loading, Errand
  <2>2. query \in {"first", "other"}
    BY <1>2 DEF VendorTypeOK
  <2> HIDE DEF what
  <2> QED BY <2>1, <2>2, FreshErrand
<1>4. /\ what = "none" => wire' = wire
      /\ what # "none" => \E w \in 1 .. Wires : wire[w].at = "cut" /\ wire' = [wire EXCEPT ![w] = e]
      /\ what = "hours" => hoursWait'
      /\ what # "hours" => hoursWait' = hoursWait
      /\ stream' = Listen(p, panel, query)
  BY <1>1 DEF Effects
<1>5. /\ wire \in [1 .. Wires -> SentErrand \union {Cut}]
      /\ kept' = kept /\ paused' = paused /\ mine' = mine /\ panel' = panel /\ panel \in Panel
  BY <1>1, <1>2 DEF VendorTypeOK, vendorBase
<1>6. "hours" \in upset => "hours" \in upset'
  BY <1>1
<1> HIDE DEF e
<1>7. /\ wire' \in [1 .. Wires -> SentErrand \union {Cut}]
      /\ \A v \in 1 .. Wires :
           wire'[v] = wire[v] \/ (~Flies(wire[v], Savings) /\ ~Flies(wire'[v], Savings))
      /\ OrdersFollow' /\ FiguresFollow' /\ HoursFollow' /\ WeekSent'
  BY <1>2, <1>3, <1>4, <1>5, <1>6, PanelLoads
<1>8. Savers' = Savers /\ \A w \in Savers : wire'[w] = wire[w]
  BY <1>7 DEF Savers, Flies
<1>9. OneSaver'
  BY <1>1, <1>2, <1>8 DEF OneSaver
<1>10. RecordFollows'
  <2>1. "elsewhere" \in upset <=> "elsewhere" \in upset'
    BY <1>1
  <2> QED BY <1>1, <1>2, <1>5, <1>8, <2>1 DEF RecordFollows
<1>11. ChoiceFollows'
  <2>1. "jump" \notin upset' => Savers = {}
    BY <1>1 DEF Saving, Savers, Flies, Savings
  <2> QED BY <1>1, <1>8, <2>1 DEF ChoiceFollows
<1>12. VendorTypeOK'
  <2>1. copy' \in Switch /\ moves' \in 0 .. MaxMoves /\ upset' \subseteq Upset
    BY <1>1, <1>2, VendorDeskAssumption DEF VendorTypeOK, Move, Upset
  <2>2. hoursWait' \in BOOLEAN
    BY <1>2, <1>4 DEF VendorTypeOK, Effects
  <2>3. /\ stream' \in Selection /\ p # 0
        /\ stream' # Blank => stream' = Of(p, "first") /\ query = "first" /\ panel = "orders"
    BY <1>2, <1>4, VendorDeskAssumption DEF VendorTypeOK, Listen, Of, Selection, Blank
  <2> QED BY <1>1, <1>2, <1>5, <1>7, <2>1, <2>2, <2>3 DEF VendorTypeOK, vendorBase, Of, NoForm
<1> QED BY <1>7, <1>9, <1>10, <1>11, <1>12 DEF VendorInv


LEMMA OpenPanelInv ==
  ASSUME VendorInv, NEW t \in Panel, OpenPanel(t)
  PROVE  VendorInv'
<1> DEFINE what == Loading(t)
           e == NewErrand(what, chosen, query)
<1>1. /\ chosen # 0 /\ Move /\ panel' = t
      /\ form' = IF t = "settings" THEN copy ELSE form
      /\ Effects(wire, chosen, t, query)
      /\ UNCHANGED <<vendorBase, chosen, copy, picked, query, orders, figures, hours,
                     formWait, breakdowns, upset>>
  BY DEF OpenPanel
<1>2. VendorTypeOK /\ OneSaver /\ RecordFollows /\ ChoiceFollows /\ HoursFollow /\ WeekSent
  BY DEF VendorInv
<1>3. what # "none" => e \in SentErrand /\ e.at = "sent" /\ e.what = what /\ e.week = 0
  <2>1. what # "none" => what \in Errand
    BY DEF Loading, Errand
  <2>2. query \in {"first", "other"} /\ chosen \in Place
    BY <1>1, <1>2 DEF VendorTypeOK
  <2> HIDE DEF what
  <2> QED BY <2>1, <2>2, FreshErrand
<1>4. /\ what = "none" => wire' = wire
      /\ what # "none" => \E w \in 1 .. Wires : wire[w].at = "cut" /\ wire' = [wire EXCEPT ![w] = e]
      /\ what = "hours" => hoursWait'
      /\ what # "hours" => hoursWait' = hoursWait
      /\ stream' = Listen(chosen, t, query)
  BY <1>1 DEF Effects
<1>5. /\ wire \in [1 .. Wires -> SentErrand \union {Cut}]
      /\ kept' = kept /\ paused' = paused /\ mine' = mine /\ t = panel' /\ upset' = upset
  BY <1>1, <1>2 DEF VendorTypeOK, vendorBase
<1> HIDE DEF e
<1>7. /\ wire' \in [1 .. Wires -> SentErrand \union {Cut}]
      /\ \A v \in 1 .. Wires :
           wire'[v] = wire[v] \/ (~Flies(wire[v], Savings) /\ ~Flies(wire'[v], Savings))
      /\ OrdersFollow' /\ FiguresFollow' /\ HoursFollow' /\ WeekSent'
  BY <1>2, <1>3, <1>4, <1>5, PanelLoads
<1>8. OneSaver' /\ RecordFollows' /\ ChoiceFollows'
  BY <1>1, <1>2, <1>5, <1>7, SaversRest
<1>9. VendorTypeOK'
  <2>1. moves' \in 0 .. MaxMoves /\ form' \in Switch \union {NoForm}
    BY <1>1, <1>2, VendorDeskAssumption DEF VendorTypeOK, Move
  <2>2. hoursWait' \in BOOLEAN
    BY <1>2, <1>4 DEF VendorTypeOK, Effects
  <2>3. /\ stream' \in Selection
        /\ stream' # Blank => stream' = Of(chosen, "first") /\ query = "first" /\ t = "orders"
    BY <1>2, <1>4, VendorDeskAssumption DEF VendorTypeOK, Listen, Of, Selection, Blank
  <2> QED BY <1>1, <1>2, <1>5, <1>7, <2>1, <2>2, <2>3 DEF VendorTypeOK, vendorBase, Of, NoForm
<1> QED BY <1>7, <1>8, <1>9 DEF VendorInv

LEMMA TurnInv ==
  ASSUME VendorInv, NEW q \in {"first", "other"}, Turn(q)
  PROVE  VendorInv'
<1> DEFINE what == Loading(panel)
           e == NewErrand(what, chosen, q)
<1>1. /\ panel = "orders" /\ Move /\ query' = q /\ Effects(wire, chosen, panel, q)
      /\ UNCHANGED <<vendorBase, chosen, copy, picked, panel, orders, figures, hours,
                     form, formWait, breakdowns, upset>>
  BY DEF Turn
<1>2. VendorTypeOK /\ OneSaver /\ RecordFollows /\ ChoiceFollows /\ HoursFollow /\ WeekSent
  BY DEF VendorInv
<1>3. what # "none" => e \in SentErrand /\ e.at = "sent" /\ e.what = what /\ e.week = 0
  <2>1. what # "none" => what \in Errand
    BY DEF Loading, Errand
  <2>2. chosen \in Place
    BY <1>1, <1>2 DEF VendorTypeOK
  <2> HIDE DEF what
  <2> QED BY <2>1, <2>2, FreshErrand
<1>4. /\ what = "none" => wire' = wire
      /\ what # "none" => \E w \in 1 .. Wires : wire[w].at = "cut" /\ wire' = [wire EXCEPT ![w] = e]
      /\ what = "hours" => hoursWait'
      /\ what # "hours" => hoursWait' = hoursWait
      /\ stream' = Listen(chosen, panel, q)
  BY <1>1 DEF Effects
<1>5. /\ wire \in [1 .. Wires -> SentErrand \union {Cut}]
      /\ kept' = kept /\ paused' = paused /\ mine' = mine /\ panel' = panel /\ panel \in Panel
  BY <1>1, <1>2 DEF VendorTypeOK, vendorBase
<1>6. "hours" \in upset => "hours" \in upset'
  BY <1>1
<1>a. what = Loading(panel') /\ panel' \in Panel
  BY <1>5
<1> HIDE DEF e, what
<1>7. /\ wire' \in [1 .. Wires -> SentErrand \union {Cut}]
      /\ \A v \in 1 .. Wires :
           wire'[v] = wire[v] \/ (~Flies(wire[v], Savings) /\ ~Flies(wire'[v], Savings))
      /\ OrdersFollow' /\ FiguresFollow' /\ HoursFollow' /\ WeekSent'
  <2>1. VendorTypeOK /\ HoursFollow /\ WeekSent /\ kept' = kept
    BY <1>2, <1>5
  <2>2. wire \in [1 .. Wires -> SentErrand \union {Cut}]
    BY <1>5
  <2>3. \A v \in 1 .. Wires : wire[v] = wire[v] \/ wire[v] = Cut
    OBVIOUS
  <2> QED BY ONLY <1>3, <1>4, <1>6, <1>a, <2>1, <2>2, <2>3, PanelLoads
<1>8. OneSaver' /\ RecordFollows' /\ ChoiceFollows'
  BY <1>1, <1>2, <1>5, <1>7, SaversRest
<1>9. VendorTypeOK'
  <2> USE DEF what
  <2>1. moves' \in 0 .. MaxMoves
    BY <1>1, <1>2, VendorDeskAssumption DEF VendorTypeOK, Move
  <2>2. hoursWait' \in BOOLEAN
    BY <1>2, <1>4 DEF VendorTypeOK, Effects
  <2>3. /\ stream' \in Selection
        /\ stream' # Blank => stream' = Of(chosen, "first") /\ q = "first" /\ panel = "orders"
    BY <1>2, <1>4, VendorDeskAssumption DEF VendorTypeOK, Listen, Of, Selection, Blank
  <2> QED BY <1>1, <1>2, <1>5, <1>7, <2>1, <2>2, <2>3 DEF VendorTypeOK, vendorBase, Of, NoForm
<1> QED BY <1>7, <1>8, <1>9 DEF VendorInv

(* What one request changes of what is loaded. *)
LEMMA LoadsRest ==
  ASSUME VendorInv, NEW w \in 1 .. Wires, NEW e, e = wire'[w],
         \A v \in 1 .. Wires : v # w => wire'[v] = wire[v],
         UNCHANGED <<chosen, panel, query>>
  PROVE  /\ ("orders" \notin upset' => "orders" \notin upset) /\ orders' = orders
            /\ (Flies(wire[w], {"orders"}) => Flies(e, {"orders"})) => OrdersFollow'
         /\ ("figures" \notin upset' => "figures" \notin upset) /\ figures' = figures
            /\ (Flies(wire[w], {"figures"}) => Flies(e, {"figures"})) => FiguresFollow'
         /\ (Flies(e, {"save hours"}) => e.week # 0) => WeekSent'
         /\ kept' = kept /\ hours' = hours /\ (~hoursWait' => ~hoursWait)
            /\ ("hours" \notin upset' => "hours" \notin upset)
            /\ ("hours" \notin upset' => HoursOwn(e)) => HoursFollow'
<1>3. \A v \in 1 .. Wires : HoursOwn(wire[v])' <=> HoursOwn(wire'[v])
  BY DEF HoursOwn
<1>4. ASSUME NEW what, Fetched(what), Flies(wire[w], {what}) => Flies(e, {what})
      PROVE  \E v \in 1 .. Wires : Flies(wire'[v], {what})
  BY <1>4 DEF Fetched
<1>5. \A what : (Fetched(what)' <=> \E v \in 1 .. Wires : Flies(wire'[v], {what}))
  BY DEF Fetched, Flies
<1>6. ASSUME "orders" \notin upset' => "orders" \notin upset, orders' = orders,
             Flies(wire[w], {"orders"}) => Flies(e, {"orders"})
      PROVE  OrdersFollow'
  BY <1>4, <1>5, <1>6 DEF VendorInv, OrdersFollow
<1>7. ASSUME "figures" \notin upset' => "figures" \notin upset, figures' = figures,
             Flies(wire[w], {"figures"}) => Flies(e, {"figures"})
      PROVE  FiguresFollow'
  BY <1>4, <1>5, <1>7 DEF VendorInv, FiguresFollow
<1>8. ASSUME Flies(e, {"save hours"}) => e.week # 0
      PROVE  WeekSent'
  BY <1>8 DEF VendorInv, WeekSent, Flies
<1>9. ASSUME kept' = kept, hours' = hours, ~hoursWait' => ~hoursWait,
             "hours" \notin upset' => "hours" \notin upset, "hours" \notin upset' => HoursOwn(e)
      PROVE  HoursFollow'
  BY <1>3, <1>9 DEF VendorInv, HoursFollow
<1> QED BY <1>6, <1>7, <1>8, <1>9

(* And one that saves nothing. *)
LEMMA WireRests ==
  ASSUME VendorInv, NEW w \in 1 .. Wires, NEW e, e = wire'[w],
         \A v \in 1 .. Wires : v # w => wire'[v] = wire[v],
         ~Flies(wire[w], Savings), ~Flies(e, Savings),
         UNCHANGED <<paused, mine, chosen, copy, picked, formWait>>,
         "elsewhere" \in upset <=> "elsewhere" \in upset', "jump" \in upset <=> "jump" \in upset'
  PROVE  OneSaver' /\ RecordFollows' /\ ChoiceFollows'
<1>1. \A v \in 1 .. Wires :
        wire'[v] = wire[v] \/ (~Flies(wire[v], Savings) /\ ~Flies(wire'[v], Savings))
  OBVIOUS
<1> QED BY <1>1, SaversRest DEF VendorInv

(* One that saves, which is the only one that does. *)
LEMMA SaverAlone ==
  ASSUME VendorInv, NEW w \in 1 .. Wires, NEW e, e = wire'[w],
         \A v \in 1 .. Wires : v # w => wire'[v] = wire[v],
         w \in Savers \/ ~formWait
  PROVE  /\ Savers \subseteq {w}
         /\ Savers' = IF Flies(e, Savings) THEN {w} ELSE {}
         /\ "elsewhere" \notin upset => \A p \in Place :
              /\ mine[p] = paused[p] \/ (w \in Savers /\ wire[w].of = p)
              /\ chosen = p => copy = paused[p] \/ (w \in Savers /\ wire[w].of = p)
<1>1. Savers \subseteq {w}
  BY DEF VendorInv, OneSaver
<1>2. Savers' = IF Flies(e, Savings) THEN {w} ELSE {}
  BY <1>1 DEF Savers, Flies
<1>3. "elsewhere" \notin upset => \A p \in Place :
        /\ mine[p] = paused[p] \/ (w \in Savers /\ wire[w].of = p)
        /\ chosen = p => copy = paused[p] \/ (w \in Savers /\ wire[w].of = p)
  BY <1>1, VendorDeskAssumption DEF VendorInv, RecordFollows
<1> QED BY <1>1, <1>2, <1>3

LEMMA AskInv ==
  ASSUME VendorInv, Hears \/ ChangeOrder
  PROVE  VendorInv'
<1> DEFINE k == NextWire
<1>1. /\ Move /\ IdleWires # {} /\ panel = "orders"
      /\ UNCHANGED <<vendorBase, vendorPick, vendorShown, form, formWait, breakdowns, upset>>
  BY DEF Hears, ChangeOrder, Sends, VendorInv, VendorTypeOK
<1>2. PICK e \in SentErrand : /\ wire' = [wire EXCEPT ![NextWire] = e] /\ e.at = "sent"
                              /\ e.what \in {"orders", "status"}
  <2>1. CASE Hears
    <3>1. stream.of \in Place /\ stream.key \in {"first", "other"}
      BY <2>1 DEF Hears, VendorInv, VendorTypeOK, Of, Blank, Selection
    <3>2. "orders" \in Errand
      BY DEF Errand
    <3> DEFINE n == NewErrand("orders", stream.of, stream.key)
    <3>3. n \in SentErrand /\ n.at = "sent" /\ n.what = "orders"
      BY <3>1, <3>2, FreshErrand
    <3>4. wire' = [wire EXCEPT ![NextWire] = n]
      BY <2>1 DEF Hears, Sends
    <3> HIDE DEF n
    <3> QED BY <3>3, <3>4
  <2>2. CASE ChangeOrder
    <3>1. chosen \in Place /\ query \in {"first", "other"}
      BY <1>1 DEF VendorInv, VendorTypeOK
    <3>2. "status" \in Errand
      BY DEF Errand
    <3> DEFINE n == NewErrand("status", chosen, query)
    <3>3. n \in SentErrand /\ n.at = "sent" /\ n.what = "status"
      BY <3>1, <3>2, FreshErrand
    <3>4. wire' = [wire EXCEPT ![NextWire] = n]
      BY <2>2 DEF ChangeOrder, Sends
    <3> HIDE DEF n
    <3> QED BY <3>3, <3>4
  <2> QED BY <2>1, <2>2
<1>3. k \in 1 .. Wires /\ wire[k].at = "cut"
  BY <1>1, SlotFree DEF VendorInv
<1> HIDE DEF k
<1>4. /\ wire' \in [1 .. Wires -> SentErrand \union {Cut}]
      /\ wire'[k] = e /\ \A v \in 1 .. Wires : v # k => wire'[v] = wire[v]
  BY <1>2, <1>3, OneWire DEF VendorInv, k
<1>5. /\ ~Flies(wire[k], Savings) /\ ~Flies(e, Savings) /\ ~Flies(e, {"save hours"})
      /\ ~Flies(wire[k], {"orders"}) /\ ~Flies(wire[k], {"figures"}) /\ HoursOwn(e)
  BY <1>2, <1>3 DEF Flies, Savings, HoursOwn
<1>6. /\ UNCHANGED <<paused, mine, chosen, copy, picked, formWait, panel, query>>
      /\ UNCHANGED <<orders, figures, kept, hours, hoursWait, upset>>
  BY <1>1 DEF vendorBase, vendorPick, vendorShown
<1>7. /\ OneSaver' /\ RecordFollows' /\ ChoiceFollows'
      /\ OrdersFollow' /\ FiguresFollow' /\ HoursFollow' /\ WeekSent'
  BY <1>3, <1>4, <1>5, <1>6, WireRests, LoadsRest
<1>8. VendorTypeOK'
  <2>1. moves' \in 0 .. MaxMoves
    BY <1>1, VendorDeskAssumption DEF VendorInv, VendorTypeOK, Move
  <2> QED BY <1>1, <1>4, <2>1 DEF VendorInv, VendorTypeOK, vendorBase, vendorPick, vendorShown
<1> QED BY <1>7, <1>8 DEF VendorInv

LEMMA SaveHoursInv ==
  ASSUME VendorInv, SaveHours
  PROVE  VendorInv'
<1> DEFINE k == NextWire
           e == [NewErrand("save hours", chosen, query) EXCEPT !.week = hours]
<1>1. /\ Move /\ IdleWires # {} /\ panel = "schedule" /\ hours # 0 /\ ~hoursWait /\ hoursWait' = TRUE
      /\ wire' = [wire EXCEPT ![NextWire] = e]
      /\ UNCHANGED <<vendorBase, vendorPick, orders, figures, hours, form, formWait, breakdowns, upset>>
  BY DEF SaveHours, MaySave, Sends
<1>2. /\ e \in SentErrand /\ e.at = "sent" /\ e.what = "save hours" /\ e.week = hours
      /\ e.of = chosen
  BY <1>1 DEF VendorInv, VendorTypeOK, NewErrand, SentErrand, Errand, Switch
<1>3. k \in 1 .. Wires /\ wire[k].at = "cut"
  BY <1>1, SlotFree DEF VendorInv
<1> HIDE DEF k, e
<1>4. /\ wire' \in [1 .. Wires -> SentErrand \union {Cut}]
      /\ wire'[k] = e /\ \A v \in 1 .. Wires : v # k => wire'[v] = wire[v]
  BY <1>1, <1>2, <1>3, OneWire DEF VendorInv, k
<1>5. /\ ~Flies(wire[k], Savings) /\ ~Flies(e, Savings) /\ (Flies(e, {"save hours"}) => e.week # 0)
      /\ ~Flies(wire[k], {"orders"}) /\ ~Flies(wire[k], {"figures"})
  BY <1>1, <1>2, <1>3 DEF Flies, Savings
<1>6. /\ UNCHANGED <<paused, mine, chosen, copy, picked, formWait, panel, query>>
      /\ UNCHANGED <<orders, figures, kept, hours, upset>>
  BY <1>1 DEF vendorBase, vendorPick, vendorShown
<1>7. "hours" \notin upset' => HoursOwn(e)
  BY <1>1, <1>2, <1>6 DEF VendorInv, HoursFollow, HoursOwn
<1>8. /\ OneSaver' /\ RecordFollows' /\ ChoiceFollows'
      /\ OrdersFollow' /\ FiguresFollow' /\ HoursFollow' /\ WeekSent'
  BY <1>1, <1>3, <1>4, <1>5, <1>6, <1>7, WireRests, LoadsRest
<1>9. VendorTypeOK'
  <2>1. moves' \in 0 .. MaxMoves
    BY <1>1, VendorDeskAssumption DEF VendorInv, VendorTypeOK, Move
  <2> QED BY <1>1, <1>4, <2>1 DEF VendorInv, VendorTypeOK, vendorBase, vendorPick
<1> QED BY <1>8, <1>9 DEF VendorInv

LEMMA FlipPauseInv ==
  ASSUME VendorInv, FlipPause
  PROVE  VendorInv'
<1>1. /\ Move /\ form' \in Switch
      /\ UNCHANGED <<vendorBase, vendorPick, vendorShown, formWait, wire, breakdowns, upset>>
  BY DEF FlipPause, Other, Switch
<1>2. OneSaver' /\ RecordFollows' /\ ChoiceFollows'
  BY <1>1 DEF VendorInv, OneSaver, RecordFollows, ChoiceFollows, Savers,
       vendorBase, vendorPick, vendorShown
<1>3. OrdersFollow' /\ FiguresFollow' /\ HoursFollow' /\ WeekSent'
  BY <1>1 DEF VendorInv, OrdersFollow, FiguresFollow, HoursFollow, WeekSent, Fetched, HoursOwn,
       vendorBase, vendorPick, vendorShown
<1>4. VendorTypeOK'
  <2>1. moves' \in 0 .. MaxMoves
    BY <1>1, VendorDeskAssumption DEF VendorInv, VendorTypeOK, Move
  <2> QED BY <1>1, <2>1 DEF VendorInv, VendorTypeOK, vendorBase, vendorPick, vendorShown
<1> QED BY <1>2, <1>3, <1>4 DEF VendorInv

LEMMA PauseElsewhereInv ==
  ASSUME VendorInv, NEW p \in Place, PauseElsewhere(p)
  PROVE  VendorInv'
<1>1. /\ Move /\ paused' = [paused EXCEPT ![p] = Other(@)] /\ upset' = upset \union {"elsewhere"}
      /\ UNCHANGED <<kept, mine, vendorPick, vendorShown, form, formWait, wire, breakdowns>>
  BY DEF PauseElsewhere
<1>2. /\ OneSaver' /\ RecordFollows' /\ ChoiceFollows'
      /\ OrdersFollow' /\ FiguresFollow' /\ HoursFollow' /\ WeekSent'
  BY <1>1 DEF VendorInv, OneSaver, RecordFollows, ChoiceFollows, OrdersFollow, FiguresFollow,
       HoursFollow, WeekSent, Fetched, Savers, HoursOwn, vendorPick, vendorShown
<1>3. VendorTypeOK'
  <2>1. moves' \in 0 .. MaxMoves /\ upset' \subseteq Upset
    BY <1>1, VendorDeskAssumption DEF VendorInv, VendorTypeOK, Move, Upset
  <2>2. paused' \in [Place -> Switch \union {"unmade"}]
    BY <1>1 DEF VendorInv, VendorTypeOK, Other, Switch
  <2> QED BY <1>1, <2>1, <2>2 DEF VendorInv, VendorTypeOK, vendorPick, vendorShown
<1> QED BY <1>2, <1>3 DEF VendorInv


LEMMA SaverStarts ==
  ASSUME VendorInv, ~formWait, Move, IdleWires # {}, formWait' = TRUE,
         NEW e \in SentErrand, e.at = "sent", e.what \in {"settings", "create"},
         wire' = [wire EXCEPT ![NextWire] = e],
         "jump" \notin upset' => "jump" \notin upset /\ e.of = chosen /\ e.what = "settings",
         \A u \in Upset : u # "jump" => (u \in upset <=> u \in upset'), upset' \subseteq Upset,
         UNCHANGED <<vendorBase, vendorPick, vendorShown, form, breakdowns>>
  PROVE  VendorInv'
<1> DEFINE k == NextWire
<1>1. k \in 1 .. Wires /\ wire[k].at = "cut" /\ VendorTypeOK
  BY SlotFree DEF VendorInv
<1> HIDE DEF k
<1>2. /\ wire' \in [1 .. Wires -> SentErrand \union {Cut}]
      /\ wire'[k] = e /\ \A v \in 1 .. Wires : v # k => wire'[v] = wire[v]
  BY <1>1, OneWire DEF k
<1>3. k \notin Savers
  BY <1>1 DEF Savers, Flies
<1>4. /\ Savers' = {k}
      /\ "elsewhere" \notin upset => \A p \in Place :
           mine[p] = paused[p] /\ (chosen = p => copy = paused[p])
  <2>1. Flies(e, Savings)
    BY DEF Flies, Savings
  <2> QED BY <1>1, <1>2, <1>3, <2>1, SaverAlone
<1>5. /\ UNCHANGED <<paused, mine, chosen, copy, picked, panel, query>>
      /\ UNCHANGED <<orders, figures, kept, hours, hoursWait>>
      /\ "elsewhere" \in upset <=> "elsewhere" \in upset'
      /\ "orders" \in upset <=> "orders" \in upset'
      /\ "figures" \in upset <=> "figures" \in upset'
      /\ "hours" \in upset <=> "hours" \in upset'
  BY DEF vendorBase, vendorPick, vendorShown, Upset
<1>6. OneSaver'
  BY <1>4 DEF OneSaver
<1>7. RecordFollows'
  <2>1. chosen # 0 => chosen \in Place
    BY <1>1 DEF VendorTypeOK
  <2> QED BY <1>1, <1>2, <1>4, <1>5, <2>1 DEF RecordFollows
<1>8. ChoiceFollows'
  BY <1>1, <1>2, <1>4, <1>5 DEF ChoiceFollows, VendorInv
<1>9. /\ ~Flies(wire[k], {"orders"}) /\ ~Flies(wire[k], {"figures"})
      /\ ~Flies(e, {"save hours"}) /\ HoursOwn(e)
  BY <1>1 DEF Flies, HoursOwn
<1>10. OrdersFollow' /\ FiguresFollow' /\ HoursFollow' /\ WeekSent'
  BY <1>1, <1>2, <1>5, <1>9, LoadsRest
<1>11. VendorTypeOK'
  <2>1. moves' \in 0 .. MaxMoves
    BY <1>1, VendorDeskAssumption DEF VendorTypeOK, Move
  <2> QED BY <1>1, <1>2, <2>1 DEF VendorTypeOK, vendorBase, vendorPick, vendorShown
<1> QED BY <1>6, <1>7, <1>8, <1>10, <1>11 DEF VendorInv

LEMMA SaveInv ==
  ASSUME VendorInv, SaveSettings \/ \E p \in Place : CreateRestaurant(p)
  PROVE  VendorInv'
<1>1. VendorTypeOK
  BY DEF VendorInv
<1>2. CASE SaveSettings
  <2> DEFINE e == [NewErrand("settings", chosen, query) EXCEPT
                     !.put = IF form = NoForm THEN copy ELSE form]
  <2>1. /\ panel = "settings" /\ ~formWait /\ Move /\ IdleWires # {} /\ formWait' = TRUE
        /\ wire' = [wire EXCEPT ![NextWire] = e]
        /\ UNCHANGED <<vendorBase, vendorPick, vendorShown, form, breakdowns, upset>>
    BY <1>2 DEF SaveSettings, Sends
  <2>2. e \in SentErrand /\ e.at = "sent" /\ e.what = "settings" /\ e.of = chosen
    BY <1>1, <2>1 DEF VendorTypeOK, NewErrand, SentErrand, Errand, NoForm
  <2>3. upset' \subseteq Upset /\ upset' = upset
    BY <1>1, <2>1 DEF VendorTypeOK
  <2> HIDE DEF e
  <2> QED BY <2>1, <2>2, <2>3, SaverStarts
<1>3. ASSUME NEW p \in Place, CreateRestaurant(p) PROVE VendorInv'
  <2> DEFINE e == NewErrand("create", p, query)
  <2>1. /\ ~formWait /\ Move /\ IdleWires # {} /\ formWait' = TRUE
        /\ wire' = [wire EXCEPT ![NextWire] = e] /\ upset' = upset \union {"jump"}
        /\ UNCHANGED <<vendorBase, vendorPick, vendorShown, form, breakdowns>>
    BY <1>3 DEF CreateRestaurant, Sends
  <2>2. e \in SentErrand /\ e.at = "sent" /\ e.what = "create"
    BY <1>1 DEF VendorTypeOK, NewErrand, SentErrand, Errand, Switch
  <2>3. /\ upset' \subseteq Upset /\ "jump" \in upset'
        /\ \A u \in Upset : u # "jump" => (u \in upset <=> u \in upset')
    BY <1>1, <2>1 DEF VendorTypeOK, Upset
  <2> HIDE DEF e
  <2> QED BY <2>1, <2>2, <2>3, SaverStarts
<1> QED BY <1>2, <1>3

-----------------------------------------------------------------------------
(* The server. *)
LEMMA ServeErrandInv ==
  ASSUME VendorInv, NEW w \in 1 .. Wires, ServeErrand(w)
  PROVE  VendorInv'
<1> DEFINE q == wire[w]
           e == [q EXCEPT !.at = "answered",
                          !.week = IF q.what = "hours" THEN kept[q.of] ELSE q.week]
<1>1. /\ q.at = "sent"
      /\ paused' = IF q.what \in {"settings", "create"}
                   THEN [paused EXCEPT ![q.of] = q.put] ELSE paused
      /\ kept' = IF q.what = "save hours" THEN [kept EXCEPT ![q.of] = q.week] ELSE kept
      /\ wire' = [wire EXCEPT ![w] = e]
      /\ UNCHANGED <<mine, vendorPick, vendorShown, form, formWait, moves, breakdowns, upset>>
      /\ VendorTypeOK
  BY DEF ServeErrand, VendorInv
<1>2. /\ q \in SentErrand /\ q.what \in Errand /\ q.of \in Place /\ q.of # 0 /\ q.put \in Switch
      /\ q.week \in Place \union {0, Defaults}
  BY <1>1, WireIs
<1>3. kept[q.of] \in Place \union {Defaults}
  BY <1>1, <1>2 DEF VendorTypeOK
<1>4. /\ e \in SentErrand /\ e.at = "answered" /\ e.what = q.what /\ e.of = q.of /\ e.put = q.put
      /\ e.week = IF q.what = "hours" THEN kept[q.of] ELSE q.week
  BY <1>2, <1>3 DEF SentErrand
<1> HIDE DEF e
<1>5. /\ wire' \in [1 .. Wires -> SentErrand \union {Cut}]
      /\ wire'[w] = e /\ \A v \in 1 .. Wires : v # w => wire'[v] = wire[v]
  BY <1>1, <1>4, OneWire
<1>6. UNCHANGED <<mine, chosen, copy, picked, panel, query, orders, figures, hours, hoursWait,
                  formWait, upset>>
  BY <1>1 DEF vendorPick, vendorShown
<1>7. /\ Flies(q, Savings) <=> q.what \in Savings
      /\ Flies(e, Savings) <=> q.what \in Savings
      /\ Flies(q, {"orders"}) => Flies(e, {"orders"})
      /\ Flies(q, {"figures"}) => Flies(e, {"figures"})
      /\ Flies(q, {"save hours"}) <=> q.what = "save hours"
      /\ Flies(e, {"save hours"}) <=> q.what = "save hours"
  BY <1>1, <1>4 DEF Flies
<1>8. OneSaver' /\ RecordFollows' /\ ChoiceFollows'
  <2>1. CASE q.what \notin Savings
    <3>1. paused' = paused
      BY <1>1, <2>1 DEF Savings
    <3> QED BY <1>5, <1>6, <1>7, <2>1, <3>1, WireRests
  <2>2. CASE q.what \in Savings
    <3>1. w \in Savers
      BY <1>7, <2>2 DEF Savers
    <3>2. /\ Savers' = {w} /\ Savers = {w}
          /\ "elsewhere" \notin upset => \A p \in Place :
               /\ mine[p] = paused[p] \/ q.of = p
               /\ chosen = p => copy = paused[p] \/ q.of = p
      <4>1. /\ Savers \subseteq {w} /\ Savers' = IF Flies(e, Savings) THEN {w} ELSE {}
            /\ "elsewhere" \notin upset => \A p \in Place :
                 /\ mine[p] = paused[p] \/ (w \in Savers /\ wire[w].of = p)
                 /\ chosen = p => copy = paused[p] \/ (w \in Savers /\ wire[w].of = p)
        BY <1>5, <3>1, SaverAlone
      <4> QED BY <1>7, <2>2, <3>1, <4>1
    <3>3. /\ \A p \in Place : p # q.of => paused'[p] = paused[p]
          /\ q.what # "list" => paused'[q.of] = q.put
          /\ q.what = "list" => paused' = paused
      BY <1>1, <1>2, <2>2 DEF VendorTypeOK, Savings
    <3>4. OneSaver'
      BY <1>6, <3>2 DEF OneSaver, VendorInv
    <3>5. RecordFollows'
      <4>1. "elsewhere" \notin upset => paused'[q.of] = q.put
        BY <3>1, <3>3 DEF VendorInv, RecordFollows
      <4>2. chosen # 0 => chosen \in Place
        BY <1>1 DEF VendorTypeOK
      <4> QED BY <1>4, <1>5, <1>6, <3>2, <3>3, <4>1, <4>2 DEF RecordFollows
    <3>6. ChoiceFollows'
      BY <1>4, <1>5, <1>6, <3>2 DEF ChoiceFollows, VendorInv
    <3> QED BY <3>4, <3>5, <3>6
  <2> QED BY <2>1, <2>2
<1>9. q.what = "save hours" => q.week # 0
  BY <1>7 DEF VendorInv, WeekSent
<1>10. OrdersFollow' /\ FiguresFollow' /\ WeekSent'
  BY <1>4, <1>5, <1>6, <1>7, <1>9, LoadsRest
<1>11. HoursFollow'
  <2> SUFFICES ASSUME "hours" \notin upset PROVE HoursFollow'
    BY <1>6 DEF HoursFollow
  <2>1. (\A p \in Place : kept[p] = p) /\ HoursOwn(q)
    BY DEF VendorInv, HoursFollow
  <2>2. kept' = kept
    <3>1. CASE q.what = "save hours"
      <4>1. q.week = q.of
        BY <1>1, <2>1, <3>1 DEF HoursOwn
      <4>2. kept' = [kept EXCEPT ![q.of] = kept[q.of]]
        BY <1>1, <1>2, <2>1, <3>1, <4>1
      <4> QED BY <1>1, <4>2 DEF VendorTypeOK
    <3>2. CASE q.what # "save hours"
      BY <1>1, <3>2
    <3> QED BY <3>1, <3>2
  <2>3. HoursOwn(e)
    BY <1>1, <1>2, <1>4, <2>1 DEF HoursOwn
  <2> QED BY <1>5, <1>6, <2>2, <2>3, LoadsRest
<1>12. VendorTypeOK'
  <2>1. paused' \in [Place -> Switch \union {"unmade"}]
    BY <1>1, <1>2 DEF VendorTypeOK
  <2>2. kept' \in [Place -> Place \union {Defaults}]
    BY <1>1, <1>2, <1>9 DEF VendorTypeOK
  <2> QED BY <1>1, <1>5, <2>1, <2>2 DEF VendorTypeOK, vendorPick, vendorShown
<1> QED BY <1>8, <1>10, <1>11, <1>12 DEF VendorInv

LEMMA FailErrandInv ==
  ASSUME VendorInv, NEW w \in 1 .. Wires, FailErrand(w)
  PROVE  VendorInv'
<1> DEFINE q == wire[w]
           e == [q EXCEPT !.at = "failed"]
<1>1. /\ q.at \in {"sent", "answered"} /\ breakdowns < MaxBreakdowns
      /\ wire' = [wire EXCEPT ![w] = e] /\ breakdowns' = breakdowns + 1
      /\ upset' = upset \union (IF q.what \in Savings THEN {"elsewhere"} ELSE {})
      /\ UNCHANGED <<vendorBase, vendorPick, vendorShown, form, formWait, moves>>
      /\ VendorTypeOK
  BY DEF FailErrand, VendorInv, Savings
<1>2. q \in SentErrand /\ q.what \in Errand
  BY <1>1, WireIs
<1>4. /\ e \in SentErrand /\ e.at = "failed" /\ e.what = q.what /\ e.of = q.of /\ e.put = q.put
      /\ e.week = q.week
  BY <1>2 DEF SentErrand
<1> HIDE DEF e
<1>5. /\ wire' \in [1 .. Wires -> SentErrand \union {Cut}]
      /\ wire'[w] = e /\ \A v \in 1 .. Wires : v # w => wire'[v] = wire[v]
  BY <1>1, <1>4, OneWire
<1>6. UNCHANGED <<paused, kept, mine, chosen, copy, picked, panel, query, orders, figures, hours,
                  hoursWait, formWait>>
  BY <1>1 DEF vendorBase, vendorPick, vendorShown
<1>7. /\ Flies(q, Savings) <=> q.what \in Savings
      /\ Flies(e, Savings) <=> q.what \in Savings
      /\ Flies(q, {"orders"}) => Flies(e, {"orders"})
      /\ Flies(q, {"figures"}) => Flies(e, {"figures"})
      /\ Flies(q, {"save hours"}) <=> q.what = "save hours"
      /\ Flies(e, {"save hours"}) <=> q.what = "save hours"
  BY <1>1, <1>4 DEF Flies
<1>8. OneSaver' /\ RecordFollows' /\ ChoiceFollows'
  <2>1. CASE q.what \notin Savings
    <3>1. upset' = upset
      BY <1>1, <2>1
    <3> QED BY <1>5, <1>6, <1>7, <2>1, <3>1, WireRests
  <2>2. CASE q.what \in Savings
    <3>1. w \in Savers
      BY <1>7, <2>2 DEF Savers
    <3>2. Savers' = {w} /\ Savers = {w}
      <4>1. Savers \subseteq {w} /\ Savers' = IF Flies(e, Savings) THEN {w} ELSE {}
        BY <1>5, <3>1, SaverAlone
      <4> QED BY <1>7, <2>2, <3>1, <4>1
    <3>3. "elsewhere" \in upset' /\ ("jump" \in upset <=> "jump" \in upset')
      BY <1>1, <2>2
    <3>4. OneSaver'
      BY <1>6, <3>2 DEF OneSaver, VendorInv
    <3>5. RecordFollows'
      BY <3>3 DEF RecordFollows
    <3>6. ChoiceFollows'
      BY <1>4, <1>5, <1>6, <3>2, <3>3 DEF ChoiceFollows, VendorInv
    <3> QED BY <3>4, <3>5, <3>6
  <2> QED BY <2>1, <2>2
<1>9. q.what = "save hours" => q.week # 0
  BY <1>7 DEF VendorInv, WeekSent
<1>10. "hours" \notin upset => HoursOwn(e)
  BY <1>1, <1>4 DEF VendorInv, HoursFollow, HoursOwn
<1>11. /\ ("orders" \in upset <=> "orders" \in upset')
       /\ ("figures" \in upset <=> "figures" \in upset')
       /\ ("hours" \in upset <=> "hours" \in upset')
  BY <1>1
<1>12. OrdersFollow' /\ FiguresFollow' /\ WeekSent' /\ HoursFollow'
  BY <1>4, <1>5, <1>6, <1>7, <1>9, <1>10, <1>11, LoadsRest
<1>13. VendorTypeOK'
  <2>1. breakdowns' \in 0 .. MaxBreakdowns /\ upset' \subseteq Upset
    BY <1>1, VendorDeskAssumption DEF VendorTypeOK, Upset
  <2> QED BY <1>1, <1>5, <2>1 DEF VendorTypeOK, vendorBase, vendorPick, vendorShown
<1> QED BY <1>8, <1>12, <1>13 DEF VendorInv


-----------------------------------------------------------------------------
(* Answers that load something. *)
LEMMA ReceiveLoadedInv ==
  ASSUME VendorInv, NEW w \in 1 .. Wires, wire[w].at \in {"answered", "failed"},
         ReceiveOrders(w) \/ ReceiveStatus(w) \/ ReceiveFigures(w),
         UNCHANGED <<paused, kept, moves, breakdowns>>
  PROVE  VendorInv'
<1> DEFINE q == wire[w]
<1>1. /\ q.what \in {"orders", "status", "figures"} /\ q.at \in {"answered", "failed"}
      /\ UNCHANGED <<mine, vendorPick, hours, hoursWait, form, formWait>>
      /\ VendorTypeOK
  BY DEF ReceiveOrders, ReceiveStatus, ReceiveFigures, VendorInv, vendorShown
<1>2. q \in SentErrand /\ q.of \in Place /\ q.key \in {"first", "other"}
  BY <1>1, WireIs
<1>3. PICK e \in SentErrand \union {Cut} :
        /\ wire' = [wire EXCEPT ![w] = e]
        /\ e = Cut \/ (e.at = "sent" /\ e.what = "orders")
        /\ q.what = "status" /\ q.at # "failed" => e # Cut
  <2>1. CASE q.what = "status" /\ q.at # "failed"
    <3> DEFINE n == NewErrand("orders", q.of, q.key)
    <3>1. "orders" \in Errand
      BY DEF Errand
    <3>2. n \in SentErrand /\ n.at = "sent" /\ n.what = "orders"
      BY <1>2, <3>1, FreshErrand
    <3>3. wire' = [wire EXCEPT ![w] = n]
      BY <2>1 DEF ReceiveOrders, ReceiveStatus, ReceiveFigures
    <3>4. n # Cut
      BY <3>2 DEF Cut
    <3> HIDE DEF n
    <3> QED BY <3>2, <3>3, <3>4
  <2>2. CASE ~(q.what = "status" /\ q.at # "failed")
    <3>1. wire' = [wire EXCEPT ![w] = Cut]
      BY <2>2 DEF ReceiveOrders, ReceiveStatus, ReceiveFigures, HangUp
    <3> QED BY <2>2, <3>1
  <2> QED BY <2>1, <2>2
<1>4. /\ wire' \in [1 .. Wires -> SentErrand \union {Cut}]
      /\ wire'[w] = e /\ \A v \in 1 .. Wires : v # w => wire'[v] = wire[v]
  BY <1>1, <1>3, OneWire
<1>5. /\ UNCHANGED <<paused, mine, chosen, copy, picked, formWait, panel, query, kept, hours, hoursWait>>
  BY <1>1 DEF vendorPick
<1>6. /\ upset' \subseteq Upset /\ ("elsewhere" \in upset <=> "elsewhere" \in upset')
      /\ ("jump" \in upset <=> "jump" \in upset')
      /\ ("hours" \in upset <=> "hours" \in upset')
      /\ q.what # "orders" => orders' = orders /\ ("orders" \in upset <=> "orders" \in upset')
      /\ q.what # "figures" => figures' = figures /\ ("figures" \in upset <=> "figures" \in upset')
      /\ q.what = "orders" /\ "orders" \notin upset' => orders' = Of(chosen, query)
      /\ q.what = "figures" /\ "figures" \notin upset' => figures'.of = chosen
      /\ orders' \in Selection /\ figures' \in Selection
  <2>1. CASE ReceiveOrders(w)
    BY <1>1, <1>2, <2>1 DEF ReceiveOrders, Blames, VendorTypeOK, Upset, Of, Blank, Selection
  <2>2. CASE ReceiveStatus(w)
    BY <1>1, <1>2, <2>2 DEF ReceiveStatus, VendorTypeOK, vendorShown
  <2>3. CASE ReceiveFigures(w)
    BY <1>1, <1>2, <2>3 DEF ReceiveFigures, Blames, VendorTypeOK, Upset, Of, Blank, Selection
  <2> QED BY <2>1, <2>2, <2>3
<1>7. /\ ~Flies(q, Savings) /\ ~Flies(e, Savings) /\ HoursOwn(e) /\ ~Flies(e, {"save hours"})
      /\ q.what # "orders" => ~Flies(q, {"orders"})
      /\ q.what # "figures" => ~Flies(q, {"figures"})
  <2>1. /\ ~Flies(q, Savings)
        /\ q.what # "orders" => ~Flies(q, {"orders"})
        /\ q.what # "figures" => ~Flies(q, {"figures"})
    BY <1>1 DEF Flies, Savings
  <2>2. e.at = "cut" \/ (e.at = "sent" /\ e.what = "orders")
    BY <1>3 DEF Cut
  <2>3. ~Flies(e, Savings) /\ HoursOwn(e) /\ ~Flies(e, {"save hours"})
    BY <2>2 DEF Flies, Savings, HoursOwn
  <2> QED BY <2>1, <2>3
<1>8. OneSaver' /\ RecordFollows' /\ ChoiceFollows'
  BY <1>4, <1>5, <1>6, <1>7, WireRests
<1>9. HoursFollow' /\ WeekSent'
  BY <1>4, <1>5, <1>6, <1>7, LoadsRest
<1>10. OrdersFollow'
  <2>1. CASE q.what = "orders"
    BY <1>5, <1>6, <2>1 DEF OrdersFollow, Of
  <2>2. CASE q.what # "orders"
    BY <1>4, <1>5, <1>6, <1>7, <2>2, LoadsRest
  <2> QED BY <2>1, <2>2
<1>11. FiguresFollow'
  <2>1. CASE q.what = "figures"
    BY <1>5, <1>6, <2>1 DEF FiguresFollow
  <2>2. CASE q.what # "figures"
    BY <1>4, <1>5, <1>6, <1>7, <2>2, LoadsRest
  <2> QED BY <2>1, <2>2
<1>12. VendorTypeOK'
  BY <1>1, <1>4, <1>6 DEF VendorTypeOK, vendorPick
<1> QED BY <1>8, <1>9, <1>10, <1>11, <1>12 DEF VendorInv

LEMMA ReceiveHoursInv ==
  ASSUME VendorInv, NEW w \in 1 .. Wires, wire[w].at \in {"answered", "failed"},
         ReceiveHours(w), UNCHANGED <<paused, kept, moves, breakdowns>>
  PROVE  VendorInv'
<1> DEFINE q == wire[w]
<1>1. /\ q.what \in {"hours", "save hours"}
      /\ hours' = IF q.at = "answered" THEN q.week
                  ELSE IF q.what = "hours" THEN Defaults ELSE hours
      /\ upset' = IF q.of # chosen \/ (q.at = "failed" /\ hours' # chosen)
                  THEN upset \union {"hours"} ELSE upset
      /\ hoursWait' = FALSE /\ wire' = [wire EXCEPT ![w] = Cut]
      /\ UNCHANGED <<mine, vendorPick, orders, figures, form, formWait>>
      /\ VendorTypeOK
  BY DEF ReceiveHours, VendorInv, HangUp
<1>2. /\ q \in SentErrand /\ q.of \in Place /\ q.of # 0 /\ q.week \in Place \union {0, Defaults}
  BY <1>1, WireIs
<1>3. /\ wire' \in [1 .. Wires -> SentErrand \union {Cut}]
      /\ wire'[w] = Cut /\ \A v \in 1 .. Wires : v # w => wire'[v] = wire[v]
  BY <1>1, OneWire
<1>4. UNCHANGED <<paused, kept, mine, chosen, copy, picked, formWait, panel, query, orders, figures>>
  BY <1>1 DEF vendorPick
<1>5. /\ ~Flies(q, Savings) /\ ~Flies(q, {"orders"}) /\ ~Flies(q, {"figures"})
      /\ ~Flies(Cut, Savings) /\ ~Flies(Cut, {"save hours"}) /\ HoursOwn(Cut)
  BY <1>1 DEF Flies, Savings, HoursOwn, Cut
<1>6. /\ upset' \subseteq Upset /\ ("elsewhere" \in upset <=> "elsewhere" \in upset')
      /\ ("jump" \in upset <=> "jump" \in upset')
      /\ ("orders" \in upset <=> "orders" \in upset')
      /\ ("figures" \in upset <=> "figures" \in upset')
      /\ "hours" \in upset => "hours" \in upset'
  BY <1>1 DEF VendorTypeOK, Upset
<1>7. OneSaver' /\ RecordFollows' /\ ChoiceFollows'
  BY <1>3, <1>4, <1>5, <1>6, WireRests
<1>8. OrdersFollow' /\ FiguresFollow' /\ WeekSent'
  BY <1>3, <1>4, <1>5, <1>6, LoadsRest
<1>9. HoursFollow'
  <2> SUFFICES ASSUME "hours" \notin upset' PROVE HoursFollow'
    BY DEF HoursFollow
  <2>1. /\ "hours" \notin upset /\ q.of = chosen
        /\ (q.at = "failed" => hours' = chosen)
    BY <1>1, <1>6
  <2>2. q.at = "answered" => q.week = q.of
    BY <1>1, <2>1 DEF VendorInv, HoursFollow, HoursOwn
  <2>3. hours' = chosen
    BY <1>1, <2>1, <2>2
  <2>4. \A v \in 1 .. Wires : HoursOwn(wire'[v])
    BY <1>3, <1>5, <2>1 DEF VendorInv, HoursFollow
  <2>5. \A v \in 1 .. Wires : HoursOwn(wire[v])' <=> HoursOwn(wire'[v])
    BY DEF HoursOwn
  <2> QED BY <1>4, <2>1, <2>3, <2>4, <2>5 DEF VendorInv, HoursFollow
<1>10. VendorTypeOK'
  <2>1. hours' \in Place \union {0, Defaults}
    BY <1>1, <1>2 DEF VendorTypeOK
  <2> QED BY <1>1, <1>3, <1>6, <2>1 DEF VendorTypeOK, vendorPick
<1> QED BY <1>7, <1>8, <1>9, <1>10 DEF VendorInv


-----------------------------------------------------------------------------
(* Answers that end a save: what was saved is chosen, and its panel loaded. *)
LEMMA ReceiveSavedInv ==
  ASSUME VendorInv, NEW w \in 1 .. Wires, wire[w].at \in {"answered", "failed"},
         ReceiveSaved(w) \/ (ReceiveCreated(w) /\ wire[w].at = "failed"),
         UNCHANGED <<paused, kept, moves, breakdowns>>
  PROVE  VendorInv'
<1> DEFINE q == wire[w]
           n == [q EXCEPT !.at = "sent", !.what = "list"]
           e == IF q.at = "failed" THEN Cut ELSE n
<1>1. /\ q.what \in {"settings", "create"} /\ q.at \in {"answered", "failed"}
      /\ wire' = [wire EXCEPT ![w] = e]
      /\ formWait' = IF q.at = "failed" THEN FALSE ELSE formWait
      /\ q.at = "answered" => q.what = "settings"
      /\ UNCHANGED <<mine, vendorPick, vendorShown, form, upset>>
      /\ VendorTypeOK
  BY DEF ReceiveSaved, ReceiveCreated, VendorInv, HangUp
<1>2. q \in SentErrand /\ n \in SentErrand /\ n.at = "sent" /\ n.what = "list" /\ n.of = q.of
      /\ n.put = q.put
  <2>1. q \in SentErrand
    BY <1>1, WireIs
  <2> QED BY <2>1 DEF SentErrand, Errand
<1> HIDE DEF n
<1>3. e \in SentErrand \union {Cut} /\ (q.at = "failed" => e = Cut) /\ (q.at = "answered" => e = n)
  BY <1>1, <1>2
<1> HIDE DEF e
<1>4. /\ wire' \in [1 .. Wires -> SentErrand \union {Cut}]
      /\ wire'[w] = e /\ \A v \in 1 .. Wires : v # w => wire'[v] = wire[v]
  BY <1>1, <1>3, OneWire
<1>5. UNCHANGED <<paused, kept, mine, chosen, copy, picked, panel, query, orders, figures, hours,
                  hoursWait, upset>>
  BY <1>1 DEF vendorPick, vendorShown
<1>6. w \in Savers
  BY <1>1 DEF Savers, Flies, Savings
<1>7. /\ Savers' = (IF q.at = "failed" THEN {} ELSE {w}) /\ Savers = {w}
      /\ "elsewhere" \notin upset => \A p \in Place :
           /\ mine[p] = paused[p] \/ q.of = p
           /\ chosen = p => copy = paused[p] \/ q.of = p
  <2>1. Flies(e, Savings) <=> q.at = "answered"
    BY <1>1, <1>2, <1>3 DEF Flies, Savings, Cut
  <2>2. Savers' = (IF Flies(e, Savings) THEN {w} ELSE {})
    BY <1>4, <1>6, SaverAlone
  <2>3. /\ Savers \subseteq {w}
        /\ "elsewhere" \notin upset => \A p \in Place :
             /\ mine[p] = paused[p] \/ q.of = p
             /\ chosen = p => copy = paused[p] \/ q.of = p
    BY <1>4, <1>6, SaverAlone
  <2> QED BY <1>1, <1>6, <2>1, <2>2, <2>3
<1>8. OneSaver'
  BY <1>1, <1>7 DEF OneSaver, VendorInv
<1>9. RecordFollows'
  <2> SUFFICES ASSUME "elsewhere" \notin upset PROVE RecordFollows'
    BY <1>5 DEF RecordFollows
  <2>1. q.at = "answered" /\ paused[q.of] = q.put
    BY <1>1, <1>6 DEF VendorInv, RecordFollows
  <2>2. chosen # 0 => chosen \in Place
    BY <1>1 DEF VendorTypeOK
  <2> QED BY <1>2, <1>3, <1>4, <1>5, <1>7, <2>1, <2>2 DEF RecordFollows
<1>10. ChoiceFollows'
  BY <1>1, <1>2, <1>3, <1>4, <1>5, <1>7 DEF ChoiceFollows, VendorInv
<1>11. /\ ~Flies(q, {"orders"}) /\ ~Flies(q, {"figures"}) /\ ~Flies(e, {"save hours"}) /\ HoursOwn(e)
  <2>1. e.at = "cut" \/ (e.at = "sent" /\ e.what = "list")
    BY <1>1, <1>2, <1>3 DEF Cut
  <2> QED BY <1>1, <2>1 DEF Flies, HoursOwn
<1>12. OrdersFollow' /\ FiguresFollow' /\ HoursFollow' /\ WeekSent'
  BY <1>4, <1>5, <1>11, LoadsRest
<1>13. VendorTypeOK'
  <2>1. formWait' \in BOOLEAN
    BY <1>1 DEF VendorTypeOK
  <2> QED BY <1>1, <1>4, <2>1 DEF VendorTypeOK, vendorPick, vendorShown
<1> QED BY <1>8, <1>9, <1>10, <1>12, <1>13 DEF VendorInv

LEMMA SelectedInv ==
  ASSUME VendorInv, NEW w \in 1 .. Wires, wire[w].at \in {"answered", "failed"},
         ReceiveList(w) \/ (ReceiveCreated(w) /\ wire[w].at = "answered"),
         UNCHANGED <<paused, kept, moves, breakdowns>>
  PROVE  VendorInv'
<1> DEFINE q == wire[w]
           p == wire[w].of
           what == Loading(panel)
           e == NewErrand(what, p, query)
           slots == HangUp(w)
<1>1. /\ q.what \in {"list", "create"} /\ q.at \in {"answered", "failed"}
      /\ mine' = (IF q.what = "list" THEN Refetched(w) ELSE [mine EXCEPT ![p] = q.put])
      /\ q.what = "create" => q.at = "answered"
      /\ chosen' = p /\ copy' = q.put /\ form' = NoForm /\ formWait' = FALSE
      /\ Effects(slots, p, panel, query)
      /\ UNCHANGED <<paused, kept, picked, panel, query, orders, figures, hours, upset>>
      /\ VendorTypeOK
  BY DEF ReceiveList, ReceiveCreated, Selected, Selects, VendorInv
<1>2. q \in SentErrand /\ p \in Place /\ p # 0 /\ q.put \in Switch
  BY <1>1, WireIs
<1>3. what # "none" => e \in SentErrand /\ e.at = "sent" /\ e.what = what /\ e.week = 0
  <2>1. what # "none" => what \in Errand
    BY DEF Loading, Errand
  <2>2. query \in {"first", "other"}
    BY <1>1 DEF VendorTypeOK
  <2> HIDE DEF what, p
  <2> QED BY <1>2, <2>1, <2>2, FreshErrand
<1>4. /\ what = "none" => wire' = slots
      /\ what # "none" => \E v \in 1 .. Wires : slots[v].at = "cut" /\ wire' = [slots EXCEPT ![v] = e]
      /\ what = "hours" => hoursWait'
      /\ what # "hours" => hoursWait' = hoursWait
      /\ stream' = Listen(p, panel, query)
  BY <1>1 DEF Effects
<1>5. /\ slots \in [1 .. Wires -> SentErrand \union {Cut}]
      /\ slots[w] = Cut /\ \A v \in 1 .. Wires : v # w => slots[v] = wire[v]
  BY <1>1 DEF HangUp, VendorTypeOK
<1>6. /\ HoursFollow /\ WeekSent /\ kept' = kept /\ what = Loading(panel') /\ panel' \in Panel
      /\ "hours" \in upset => "hours" \in upset'
  BY <1>1 DEF VendorInv, VendorTypeOK
<1>7. \A v \in 1 .. Wires : slots[v] = wire[v] \/ slots[v] = Cut
  BY <1>5
<1> HIDE DEF e, slots, what
<1>8. /\ wire' \in [1 .. Wires -> SentErrand \union {Cut}]
      /\ \A v \in 1 .. Wires :
           wire'[v] = slots[v] \/ (~Flies(slots[v], Savings) /\ ~Flies(wire'[v], Savings))
      /\ OrdersFollow' /\ FiguresFollow' /\ HoursFollow' /\ WeekSent'
  <2>1. VendorTypeOK /\ HoursFollow /\ WeekSent /\ kept' = kept
    BY <1>1, <1>6
  <2> QED BY ONLY <1>3, <1>4, <1>5, <1>6, <1>7, <2>1, PanelLoads
<1>9. w \in Savers /\ Savers = {w}
  BY <1>1 DEF Savers, Flies, Savings, VendorInv, OneSaver
<1>10. Savers' = {}
  <2>1. ~Flies(slots[w], Savings)
    BY <1>5 DEF Flies, Cut
  <2>2. \A v \in 1 .. Wires : v # w => ~Flies(slots[v], Savings)
    BY <1>5, <1>9 DEF Savers
  <2>3. \A v \in 1 .. Wires : ~Flies(wire'[v], Savings)
    BY <1>8, <2>1, <2>2
  <2> QED BY <2>3 DEF Savers, Flies
<1>11. OneSaver'
  BY <1>1, <1>10 DEF OneSaver
<1>12. RecordFollows'
  <2> SUFFICES ASSUME "elsewhere" \notin upset PROVE RecordFollows'
    BY <1>1 DEF RecordFollows
  <2>1. q.at = "answered" /\ paused[p] = q.put
    BY <1>1, <1>9 DEF VendorInv, RecordFollows
  <2>2. \A x \in Place : mine'[x] = paused[x]
    <3>1. \A x \in Place : x # p => mine[x] = paused[x]
      BY <1>9 DEF VendorInv, RecordFollows
    <3> QED BY <1>1, <2>1, <3>1 DEF Refetched, VendorTypeOK
  <2> QED BY <1>1, <1>10, <2>1, <2>2 DEF RecordFollows
<1>13. ChoiceFollows'
  BY <1>1, <1>9, <1>10 DEF ChoiceFollows, VendorInv
<1>14. VendorTypeOK'
  <2>1. mine' \in [Place -> Switch \union {"unmade"}]
    BY <1>1, <1>2 DEF Refetched, VendorTypeOK
  <2>2. hoursWait' \in BOOLEAN
    BY <1>1 DEF VendorTypeOK, Effects
  <2>3. /\ stream' \in Selection
        /\ stream' # Blank => stream' = Of(p, "first") /\ query = "first" /\ panel = "orders"
    BY <1>1, <1>2, <1>4, VendorDeskAssumption DEF VendorTypeOK, Listen, Of, Selection, Blank
  <2> QED BY <1>1, <1>2, <1>8, <2>1, <2>2, <2>3 DEF VendorTypeOK, Of, NoForm
<1> QED BY <1>8, <1>11, <1>12, <1>13, <1>14 DEF VendorInv

-----------------------------------------------------------------------------
LEMMA VendorStart ==
  ASSUME VendorInit PROVE VendorInv
<1>1. \A w \in 1 .. Wires : wire[w] = Cut /\ wire[w].at = "cut"
  BY DEF VendorInit, Cut
<1>2. Savers = {}
  BY <1>1 DEF Savers, Flies
<1>3. OneSaver /\ ChoiceFollows /\ OrdersFollow /\ FiguresFollow
  BY <1>2 DEF VendorInit, OneSaver, ChoiceFollows, OrdersFollow, FiguresFollow
<1>4. RecordFollows
  BY <1>2 DEF VendorInit, RecordFollows
<1>5. HoursFollow /\ WeekSent
  BY <1>1 DEF VendorInit, HoursFollow, HoursOwn, WeekSent, Flies
<1>6. VendorTypeOK
  <2>1. /\ paused \in [Place -> Switch \union {"unmade"}] /\ mine = paused
        /\ kept \in [Place -> Place \union {Defaults}]
        /\ wire \in [1 .. Wires -> SentErrand \union {Cut}]
    BY DEF VendorInit, Switch
  <2>2. Blank \in Selection
    BY DEF Blank, Of, Selection
  <2>3. moves \in 0 .. MaxMoves /\ breakdowns \in 0 .. MaxBreakdowns
    BY VendorDeskAssumption DEF VendorInit
  <2> QED BY <2>1, <2>2, <2>3 DEF VendorInit, VendorTypeOK, Switch, Panel, NoForm, Upset
<1> QED BY <1>3, <1>4, <1>5, <1>6 DEF VendorInv

LEMMA VendorStep ==
  ASSUME VendorInv, [VendorNext]_vendorVars
  PROVE  VendorInv'
<1>1. CASE UNCHANGED vendorVars
  <2> USE <1>1 DEF vendorVars, vendorBase, vendorPick, vendorShown, VendorInv, Savers
  <2>1. OneSaver' /\ RecordFollows' /\ ChoiceFollows'
    BY DEF OneSaver, RecordFollows, ChoiceFollows
  <2>2. OrdersFollow' /\ FiguresFollow' /\ HoursFollow' /\ WeekSent'
    BY DEF OrdersFollow, FiguresFollow, HoursFollow, WeekSent, Fetched, HoursOwn
  <2>3. VendorTypeOK'
    BY DEF VendorTypeOK
  <2> QED BY <2>1, <2>2, <2>3
<1>2. ASSUME NEW w \in 1 .. Wires, ReceiveErrand(w) PROVE VendorInv'
  <2>1. wire[w].at \in {"answered", "failed"} /\ UNCHANGED <<paused, kept, moves, breakdowns>>
    BY <1>2 DEF ReceiveErrand
  <2>2. CASE ReceiveOrders(w) \/ ReceiveStatus(w) \/ ReceiveFigures(w)
    BY <2>1, <2>2, ReceiveLoadedInv
  <2>3. CASE ReceiveHours(w)
    BY <2>1, <2>3, ReceiveHoursInv
  <2>4. CASE ReceiveSaved(w) \/ (ReceiveCreated(w) /\ wire[w].at = "failed")
    BY <2>1, <2>4, ReceiveSavedInv
  <2>5. CASE ReceiveList(w) \/ (ReceiveCreated(w) /\ wire[w].at = "answered")
    BY <2>1, <2>5, SelectedInv
  <2> QED BY <1>2, <2>1, <2>2, <2>3, <2>4, <2>5 DEF ReceiveErrand
<1>3. CASE VendorNext
  BY <1>2, <1>3, ChoosePlaceInv, OpenPanelInv, TurnInv, AskInv, SaveHoursInv, FlipPauseInv,
     PauseElsewhereInv, SaveInv, ServeErrandInv, FailErrandInv DEF VendorNext
<1> QED BY <1>1, <1>3

(* The vendor's part of VendorPagesSound. *)
VendorDeskSound == /\ VendorTypeOK /\ HoursStayHome /\ OrdersOfChosen /\ FiguresOfChosen
                   /\ ChoiceKept /\ RecordHonest

LEMMA VendorSays ==
  ASSUME VendorInv PROVE VendorDeskSound
<1>1. WiresIdle => \A w \in 1 .. Wires : wire[w].at = "cut"
  BY DEF WiresIdle, IdleWires
<1>2. WiresIdle => Savers = {} /\ ~Fetched("orders") /\ ~Fetched("figures")
  BY <1>1 DEF Savers, Fetched, Flies
<1>3. HoursStayHome /\ ChoiceKept
  BY DEF VendorInv, HoursFollow, ChoiceFollows, HoursStayHome, ChoiceKept
<1>4. OrdersOfChosen /\ FiguresOfChosen
  BY <1>2 DEF VendorInv, OrdersFollow, FiguresFollow, OrdersOfChosen, FiguresOfChosen
<1>5. RecordHonest
  <2> SUFFICES ASSUME WiresIdle, "elsewhere" \notin upset
               PROVE  mine = paused /\ (chosen # 0 => copy = paused[chosen])
    BY DEF RecordHonest
  <2>1. \A p \in Place : mine[p] = paused[p]
    BY <1>2 DEF VendorInv, RecordFollows
  <2>2. mine = [p \in Place |-> mine[p]] /\ paused = [p \in Place |-> paused[p]]
    BY DEF VendorInv, VendorTypeOK
  <2>3. mine = paused
    BY <2>1, <2>2
  <2> QED BY <1>2, <2>3 DEF VendorInv, RecordFollows
<1> QED BY <1>3, <1>4, <1>5 DEF VendorDeskSound, VendorInv

(* Whichever restaurant is chosen while loads and saves cross: hours are kept  *)
(* where they belong, orders and figures shown are the chosen restaurant's,     *)
(* the choice is the vendor's, and the switches known are the server's, but for   *)
(* the cases named.                                                                *)
THEOREM VendorDeskStaysSound == VendorSpec => []VendorDeskSound
<1>1. VendorInit => VendorInv
  BY VendorStart
<1>2. VendorInv /\ [VendorNext]_vendorVars => VendorInv'
  BY VendorStep
<1>3. VendorInv => VendorDeskSound
  BY VendorSays
<1> QED BY <1>1, <1>2, <1>3, PTL DEF VendorSpec

-----------------------------------------------------------------------------
(* The vendor's menu.  Who is asked about was made; groups are numbered as    *)
(* they are made.                                                              *)
Known(d) == card[d] # Unmade
CallRecord ==
  [at : {"sent", "answered", "failed"}, what : {"menu", "flip", "remove"},
   dish : Dish \union {"none"}, to : {"on", "off"}, got : Menu]
CallWell(q) ==
  /\ q \in CallRecord
  /\ q.what # "menu" => q.dish \in Dish /\ Known(q.dish)
  /\ \A d \in Dish : q.got[d] # Gone => Known(d)
CallsWell ==
  /\ DOMAIN calls = 1 .. MenuCalls
  /\ \A c \in 1 .. MenuCalls : calls[c] = Silence \/ CallWell(calls[c])

SaveRecord ==
  [at : {"dish", "drop", "make"}, dish : Dish, fresh : BOOLEAN, olds : SUBSET Group,
   todo : SUBSET Label, want : SUBSET Label]
SaveWell ==
  save = NoSave \/
    /\ save \in SaveRecord
    /\ save.at \in {"dish", "drop"} => save.todo = save.want
    /\ IF save.at = "dish" /\ save.fresh THEN ~Known(save.dish) ELSE Known(save.dish)
    /\ save.fresh => save.olds = {}

PageWell ==
  /\ editing = NoEdit \/ (editing.dish \in Dish /\ Known(editing.dish))
  /\ \A d \in Dish : menu[d] # Gone => Known(d)
  /\ \A r \in dropping : r = [dish |-> r.dish, group |-> r.group] /\ Known(r.dish)
  /\ \A d \in Dish : \A g \in card[d].groups : g.id <= groupsMade

(* The form knows the groups of its dish; a save works on what it knew; what   *)
(* it has not removed yet, and what it has made, are the groups there are.     *)
Has(d, S) == card[d] = Gone \/ card[d].groups = S
FormKnows ==
  editing # NoEdit =>
    Has(editing.dish, editing.groups) /\ (save.dish = editing.dish => save.at \in {"none", "dish"})
SaveKnows ==
  /\ save.at = "dish" => Has(save.dish, save.olds)
  /\ dropping # {} => save.at = "drop" /\ \A r \in dropping : r.dish = save.dish
  /\ save.at = "drop" => Has(save.dish, {r.group : r \in dropping})
  /\ save.at = "make" /\ card[save.dish] # Gone =>
       /\ {g.lab : g \in card[save.dish].groups} = save.want \ save.todo
       /\ \A g, h \in card[save.dish].groups : g.lab = h.lab => g = h

(* A row differs from the server's while its flip is on the way. *)
Rung(c, what) == calls[c] # Silence /\ calls[c].what = what
FlipSent(c, d) == Rung(c, "flip") /\ calls[c].at = "sent" /\ calls[c].dish = d
RowFollows(d) ==
  \/ menu[d] = Listed(card)[d]
  \/ /\ menu[d] # Gone /\ card[d] # Gone /\ menu[d].groups = card[d].groups
     /\ \E c \in 1 .. MenuCalls : FlipSent(c, d)
MenuComing ==
  \/ save # NoSave
  \/ \E c \in 1 .. MenuCalls : Rung(c, "menu") \/ (Rung(c, "remove") /\ calls[c].at = "answered")
MenuFollows ==
  /\ \A c \in 1 .. MenuCalls : calls[c] # Silence => calls[c].at # "failed"
  /\ \A d \in Dish : \A c \in 1 .. MenuCalls :
       FlipSent(c, d) => menu[d] # Gone /\ menu[d].is = calls[c].to
  /\ \A b, c \in 1 .. MenuCalls :
       Rung(b, "flip") /\ Rung(c, "flip") /\ calls[b].dish = calls[c].dish => b = c
  /\ MenuComing \/ \A d \in Dish : RowFollows(d)

MenuInv ==
  /\ MenuTypeOK /\ CallsWell /\ SaveWell /\ PageWell
  /\ woe = {} => FormKnows /\ SaveKnows /\ MenuFollows


-----------------------------------------------------------------------------
(* What is at the server, and how it changes. *)
Row == [is : {"on", "off", "gone", "unmade"}, groups : SUBSET Group]

LEMMA RowsAre ==
  /\ \A e : e \in Entry \union {Gone, Unmade} =>
       /\ e \in Row /\ e = [is |-> e.is, groups |-> e.groups]
       /\ (e = Gone <=> e.is = "gone") /\ (e = Unmade <=> e.is = "unmade")
       /\ (e \in Entry <=> e.is \in {"on", "off"})
       /\ (e.is \in {"gone", "unmade"} => e.groups = {})
  /\ Gone # Unmade /\ Gone \notin Entry /\ Unmade \notin Entry
  /\ Gone.groups = {} /\ Unmade.groups = {} /\ Gone.is = "gone" /\ Unmade.is = "unmade"
BY DEF Row, Entry, Gone, Unmade

LEMMA DishCardIs ==
  ASSUME MenuTypeOK, NEW d \in Dish
  PROVE  /\ card[d] \in Entry \union {Gone, Unmade} /\ card[d] \in Row
         /\ card[d].groups \subseteq Group
         /\ menu[d] \in Entry \union {Gone} /\ menu[d] \in Row /\ menu[d].groups \subseteq Group
BY RowsAre DEF MenuTypeOK, Menu, Row

LEMMA ListedIs ==
  ASSUME MenuTypeOK
  PROVE  /\ Listed(card) \in Menu
         /\ \A d \in Dish : Listed(card)[d] = IF card[d] = Unmade THEN Gone ELSE card[d]
         /\ \A d \in Dish : Listed(card)[d] # Gone => Known(d)
<1>1. \A d \in Dish : Listed(card)[d] = IF card[d] = Unmade THEN Gone ELSE card[d]
  BY DEF Listed
<1>2. \A d \in Dish : Listed(card)[d] \in Entry \union {Gone}
  BY <1>1, DishCardIs
<1>3. Listed(card) = [d \in Dish |-> Listed(card)[d]]
  BY DEF Listed
<1> QED BY <1>1, <1>2, <1>3 DEF Menu, Known

(* How the card of a dish may change. *)
CardGoes ==
  /\ card' \in [Dish -> Entry \union {Gone, Unmade}]
  /\ \A d \in Dish : card[d] # Unmade => card'[d] # Unmade
  /\ \A d \in Dish : \A g \in card'[d].groups : g.id <= groupsMade'
  /\ \A d \in Dish : \A g, h \in card'[d].groups : g.id = h.id => g = h

LEMMA DishCardRests ==
  ASSUME MenuTypeOK, PageWell, UNCHANGED <<card, groupsMade>>
  PROVE  CardGoes
BY DEF MenuTypeOK, PageWell, CardGoes

LEMMA DropsCard ==
  ASSUME MenuTypeOK, PageWell, NEW r \in dropping, card' = Drops(r), groupsMade' = groupsMade
  PROVE  /\ CardGoes
         /\ \A d \in Dish : d # r.dish => card'[d] = card[d]
         /\ card'[r.dish].groups = card[r.dish].groups \ {r.group}
         /\ \A d \in Dish : card'[d].is = card[d].is
<1>1. r.dish \in Dish /\ r.group \in Group
  BY DEF MenuTypeOK
<1>2. card[r.dish] \in Entry \union {Gone, Unmade} /\ card[r.dish].groups \subseteq Group
  BY <1>1, DishCardIs
<1> DEFINE e == [card[r.dish] EXCEPT !.groups = card[r.dish].groups \ {r.group}]
<1>3. card' = [card EXCEPT ![r.dish] = e] /\ card \in [Dish -> Entry \union {Gone, Unmade}]
  BY DEF Drops, MenuTypeOK
<1>4. /\ e.is = card[r.dish].is /\ e.groups = card[r.dish].groups \ {r.group}
      /\ e = [is |-> e.is, groups |-> e.groups]
  BY <1>2 DEF Entry, Gone, Unmade
<1>5. e \in Entry \union {Gone, Unmade}
  BY <1>2, <1>4 DEF Entry, Gone, Unmade
<1> HIDE DEF e
<1>6. /\ card' \in [Dish -> Entry \union {Gone, Unmade}]
      /\ card'[r.dish] = e /\ \A d \in Dish : d # r.dish => card'[d] = card[d]
  BY <1>1, <1>3, <1>5
<1>7. \A d \in Dish : card'[d].is = card[d].is /\ card'[d].groups \subseteq card[d].groups
  BY <1>4, <1>6
<1>8. CardGoes
  <2>1. \A d \in Dish : card[d] # Unmade => card'[d] # Unmade
    BY <1>6, <1>7, DishCardIs, RowsAre
  <2> QED BY <1>6, <1>7, <2>1 DEF CardGoes, MenuTypeOK, PageWell
<1> QED BY <1>4, <1>6, <1>7, <1>8

LEMMA MadeCard ==
  ASSUME MenuTypeOK, PageWell, NEW d \in Dish, NEW l \in Label, Known(d), card[d] # Gone,
         groupsMade < MaxGroups, card' = Created(d, l), groupsMade' = groupsMade + 1
  PROVE  /\ CardGoes /\ groupsMade' \in 0 .. MaxGroups
         /\ \A x \in Dish : x # d => card'[x] = card[x]
         /\ card'[d].groups = card[d].groups \union {[id |-> groupsMade + 1, lab |-> l]}
         /\ card'[d] # Gone /\ \A g \in card[d].groups : g.id # groupsMade + 1
<1> DEFINE n == [id |-> groupsMade + 1, lab |-> l]
           e == [card[d] EXCEPT !.groups = card[d].groups \union {n}]
<1>1. groupsMade \in 0 .. MaxGroups /\ groupsMade + 1 \in 1 .. MaxGroups
  BY VendorMenuAssumption DEF MenuTypeOK
<1>2. n \in Group /\ n.id = groupsMade + 1
  BY <1>1 DEF Group
<1>3. card' = [card EXCEPT ![d] = e] /\ card \in [Dish -> Entry \union {Gone, Unmade}]
  BY DEF Created, MenuTypeOK
<1>4. card[d] \in Entry
  BY DishCardIs DEF Known
<1> HIDE DEF n
<1>5. e \in Entry /\ e.groups = card[d].groups \union {n}
  BY <1>2, <1>4 DEF Entry
<1> HIDE DEF e
<1>6. /\ card' \in [Dish -> Entry \union {Gone, Unmade}]
      /\ card'[d] = e /\ \A x \in Dish : x # d => card'[x] = card[x]
  BY <1>3, <1>5
<1>7. \A x \in Dish : \A g \in card[x].groups : g.id \in 1 .. MaxGroups /\ g.id <= groupsMade
  BY DishCardIs DEF PageWell, Group
<1>8. CardGoes
  <2>1. \A x \in Dish : \A g \in card'[x].groups : g \in card[x].groups \/ (x = d /\ g = n)
    BY <1>5, <1>6
  <2>2. \A x \in Dish : \A g \in card'[x].groups : g.id <= groupsMade'
    BY <1>1, <1>2, <1>7, <2>1
  <2>3. \A x \in Dish : \A g, h \in card'[x].groups : g.id = h.id => g = h
    BY <1>1, <1>2, <1>7, <2>1 DEF MenuTypeOK
  <2>4. \A x \in Dish : card[x] # Unmade => card'[x] # Unmade
    BY <1>5, <1>6, RowsAre
  <2> QED BY <1>6, <2>2, <2>3, <2>4 DEF CardGoes
<1>9. \A g \in card[d].groups : g.id # groupsMade + 1
  BY <1>1, <1>7
<1> QED BY <1>1, <1>5, <1>6, <1>8, <1>9, RowsAre DEF n

LEMMA SavedCard ==
  ASSUME MenuTypeOK, PageWell, NEW d \in Dish, groupsMade' = groupsMade,
         card' = IF card[d] = Unmade THEN [card EXCEPT ![d] = [is |-> "on", groups |-> {}]] ELSE card
  PROVE  /\ CardGoes
         /\ \A x \in Dish : x # d => card'[x] = card[x]
         /\ card'[d].groups = card[d].groups /\ card'[d] # Unmade
         /\ (card'[d] = Gone <=> card[d] = Gone)
<1> DEFINE e == [is |-> "on", groups |-> {}]
<1>1. e \in Entry /\ e.groups = {} /\ card \in [Dish -> Entry \union {Gone, Unmade}]
  BY DEF Entry, MenuTypeOK
<1> HIDE DEF e
<1>2. /\ card' \in [Dish -> Entry \union {Gone, Unmade}]
      /\ card'[d] = (IF card[d] = Unmade THEN e ELSE card[d])
      /\ \A x \in Dish : x # d => card'[x] = card[x]
  BY <1>1 DEF e
<1>3. card'[d].groups = card[d].groups
  BY <1>1, <1>2, RowsAre
<1>4. CardGoes
  BY <1>1, <1>2, <1>3, RowsAre DEF CardGoes, MenuTypeOK, PageWell
<1> QED BY <1>1, <1>2, <1>3, <1>4, RowsAre


CallNext(q) ==
  /\ q \in CallRecord
  /\ q.what # "menu" => q.dish \in Dish /\ card'[q.dish] # Unmade
  /\ \A d \in Dish : q.got[d] # Gone => card'[d] # Unmade

LEMMA CallsGo ==
  ASSUME CallsWell, CardGoes, DOMAIN calls' = 1 .. MenuCalls,
         \A c \in 1 .. MenuCalls :
           calls'[c] = Silence \/ calls'[c] = calls[c] \/ CallNext(calls'[c])
  PROVE  CallsWell'
<1>1. ASSUME NEW c \in 1 .. MenuCalls, CallWell(calls[c]), calls'[c] = calls[c]
      PROVE  CallNext(calls'[c])
  BY <1>1 DEF CallWell, CallNext, CardGoes, Known
<1>2. \A c \in 1 .. MenuCalls : CallWell(calls[c])' <=> CallNext(calls'[c])
  BY DEF CallWell, CallNext, Known
<1> QED BY <1>1, <1>2 DEF CallsWell

LEMMA SaveGoes ==
  ASSUME SaveWell, CardGoes, save' = save,
         save.at = "dish" /\ save.fresh => card'[save.dish] = Unmade
  PROVE  SaveWell'
<1>1. CASE save = NoSave
  BY <1>1 DEF SaveWell
<1>2. CASE save # NoSave
  <2>1. save \in SaveRecord /\ save.dish \in Dish
    BY <1>2 DEF SaveWell, SaveRecord
  <2> QED BY <1>2, <2>1 DEF SaveWell, CardGoes, Known
<1> QED BY <1>1, <1>2

LEMMA PageGoes ==
  ASSUME MenuTypeOK, PageWell, CardGoes, editing' = editing \/ editing' = NoEdit,
         menu' = menu, dropping' \subseteq dropping
  PROVE  PageWell'
<1>1. \A r \in dropping : r.dish \in Dish
  BY DEF MenuTypeOK
<1> QED BY <1>1 DEF PageWell, CardGoes, Known

(* What nobody touches stays as it is known. *)
LEMMA FollowsWhileSaving ==
  ASSUME MenuFollows, UNCHANGED <<calls, menu>>, save' # NoSave
  PROVE  MenuFollows'
BY DEF MenuFollows, MenuComing, Rung, FlipSent

LEMMA FollowsRests ==
  ASSUME MenuFollows, UNCHANGED <<card, calls, menu>>, save' = save
  PROVE  MenuFollows'
BY DEF MenuFollows, MenuComing, RowFollows, Listed, Rung, FlipSent

LEMMA SaveKnowsRests ==
  ASSUME SaveKnows, UNCHANGED <<card, save, dropping>>
  PROVE  SaveKnows'
BY DEF SaveKnows, Has

-----------------------------------------------------------------------------
(* The vendor. *)
LEMMA EditInv ==
  ASSUME MenuInv, NEW d \in Dish, Edit(d)
  PROVE  MenuInv'
<1>1. /\ menu[d] # Gone /\ TakesTurn /\ editing' = [dish |-> d, groups |-> menu[d].groups]
      /\ woe' = IF menu[d].groups # card[d].groups \/ save.dish = d \/ \E r \in dropping : r.dish = d
                THEN woe \union {"stale"} ELSE woe
      /\ UNCHANGED <<card, menu, adding, save, dropping, calls, groupsMade, slips>>
      /\ MenuTypeOK /\ CallsWell /\ SaveWell /\ PageWell
  BY DEF Edit, MenuInv
<1>2. CardGoes
  BY <1>1, DishCardRests
<1>3. CallsWell'
  BY <1>1, <1>2, CallsGo DEF CallsWell
<1>4. SaveWell'
  BY <1>1 DEF SaveWell, Known
<1>5. editing'.dish = d /\ editing'.groups = menu[d].groups /\ menu[d].groups \subseteq Group
  BY <1>1, DishCardIs
<1>6. PageWell'
  BY <1>1, <1>5 DEF PageWell, Known
<1>7. MenuTypeOK'
  <2>1. turns' \in 0 .. MaxTurns /\ woe' \subseteq Woe
    BY <1>1, VendorMenuAssumption DEF MenuTypeOK, TakesTurn, Woe
  <2> QED BY <1>1, <1>5, <2>1 DEF MenuTypeOK
<1>8. ASSUME woe' = {} PROVE FormKnows' /\ SaveKnows' /\ MenuFollows'
  <2>1. woe = {} /\ menu[d].groups = card[d].groups /\ save.dish # d
    BY <1>1, <1>8
  <2>2. FormKnows'
    BY <1>1, <1>5, <2>1 DEF FormKnows, Has
  <2> QED BY <1>1, <2>1, <2>2, SaveKnowsRests, FollowsRests DEF MenuInv
<1> QED BY <1>3, <1>4, <1>6, <1>7, <1>8 DEF MenuInv

LEMMA ToggleFormInv ==
  ASSUME MenuInv, ToggleForm
  PROVE  MenuInv'
<1>1. /\ TakesTurn /\ editing' = NoEdit /\ adding' = ~adding
      /\ UNCHANGED <<card, menu, save, dropping, calls, groupsMade, slips, woe>>
      /\ MenuTypeOK /\ CallsWell /\ SaveWell /\ PageWell
  BY DEF ToggleForm, MenuInv
<1>2. CardGoes
  BY <1>1, DishCardRests
<1>3. CallsWell'
  BY <1>1, <1>2, CallsGo DEF CallsWell
<1>4. SaveWell'
  BY <1>1 DEF SaveWell, Known
<1>5. PageWell'
  BY <1>1 DEF PageWell, Known
<1>6. MenuTypeOK'
  <2>1. turns' \in 0 .. MaxTurns
    BY <1>1, VendorMenuAssumption DEF MenuTypeOK, TakesTurn
  <2> QED BY <1>1, <2>1 DEF MenuTypeOK, NoEdit
<1>7. ASSUME woe' = {} PROVE FormKnows' /\ SaveKnows' /\ MenuFollows'
  <2>1. FormKnows'
    BY <1>1 DEF FormKnows
  <2> QED BY <1>1, <1>7, <2>1, SaveKnowsRests, FollowsRests DEF MenuInv
<1> QED BY <1>3, <1>4, <1>5, <1>6, <1>7 DEF MenuInv

LEMMA SubmitInv ==
  ASSUME MenuInv, Submit
  PROVE  MenuInv'
<1>1. /\ (adding \/ editing # NoEdit) /\ save = NoSave /\ TakesTurn
      /\ UNCHANGED <<card, menu, editing, adding, dropping, calls, groupsMade, slips, woe>>
      /\ MenuTypeOK /\ CallsWell /\ SaveWell /\ PageWell
  BY DEF Submit, MaySubmit, MenuInv
<1>2. PICK want \in SUBSET Label, d \in Dish, olds \in SUBSET Group, fresh \in BOOLEAN :
        /\ save' = [at |-> "dish", dish |-> d, fresh |-> fresh, olds |-> olds,
                    todo |-> want, want |-> want]
        /\ fresh => card[d] = Unmade /\ olds = {}
        /\ ~fresh => editing # NoEdit /\ d = editing.dish /\ olds = editing.groups
  <2>1. CASE editing # NoEdit
    <3>1. PICK want \in SUBSET Label :
            save' = [at |-> "dish", dish |-> editing.dish, fresh |-> FALSE, olds |-> editing.groups,
                     todo |-> want, want |-> want]
      BY <2>1 DEF Submit
    <3>2. editing.dish \in Dish /\ editing.groups \in SUBSET Group
      BY <1>1, <2>1 DEF PageWell, MenuTypeOK
    <3> QED BY <2>1, <3>1, <3>2
  <2>2. CASE editing = NoEdit
    <3>1. PICK want \in SUBSET Label, d \in {e \in Dish : card[e] = Unmade} :
            save' = [at |-> "dish", dish |-> d, fresh |-> TRUE, olds |-> {},
                     todo |-> want, want |-> want]
      BY <2>2 DEF Submit
    <3> QED BY <3>1
  <2> QED BY <2>1, <2>2
<1>3. CardGoes
  BY <1>1, DishCardRests
<1>4. CallsWell'
  BY <1>1, <1>3, CallsGo DEF CallsWell
<1>5. SaveWell'
  <2>1. save' \in SaveRecord
    BY <1>2 DEF SaveRecord
  <2>2. ~fresh => Known(d)
    BY <1>1, <1>2 DEF PageWell
  <2> QED BY <1>1, <1>2, <2>1, <2>2 DEF SaveWell, Known
<1>6. PageWell'
  BY <1>1 DEF PageWell, Known
<1>7. MenuTypeOK'
  <2>1. turns' \in 0 .. MaxTurns
    BY <1>1, VendorMenuAssumption DEF MenuTypeOK, TakesTurn
  <2> QED BY <1>1, <1>2, <2>1 DEF MenuTypeOK
<1>8. ASSUME woe' = {} PROVE FormKnows' /\ SaveKnows' /\ MenuFollows'
  <2>1. FormKnows /\ SaveKnows /\ MenuFollows
    BY <1>1, <1>8 DEF MenuInv
  <2>2. FormKnows'
    BY <1>1, <1>2, <2>1 DEF FormKnows, Has
  <2>3. dropping = {}
    BY <1>1, <2>1 DEF SaveKnows, NoSave
  <2>4. Has(d, olds)
    BY <1>2, <2>1, RowsAre DEF FormKnows, Has
  <2>5. SaveKnows'
    BY <1>1, <1>2, <2>3, <2>4 DEF SaveKnows, Has
  <2>6. save' # NoSave
    BY <1>2 DEF NoSave
  <2> QED BY <1>1, <2>1, <2>2, <2>5, <2>6, FollowsWhileSaving
<1> QED BY <1>4, <1>5, <1>6, <1>7, <1>8 DEF MenuInv


LEMMA CallSlot ==
  ASSUME CallsWell, SilentCalls # {}, NEW q, calls' = [calls EXCEPT ![NextMenuCall] = q]
  PROVE  \E k \in 1 .. MenuCalls :
           /\ calls[k] = Silence /\ calls'[k] = q /\ DOMAIN calls' = 1 .. MenuCalls
           /\ \A c \in 1 .. MenuCalls : c # k => calls'[c] = calls[c]
<1>1. NextMenuCall \in 1 .. MenuCalls /\ calls[NextMenuCall] = Silence
  BY DEF NextMenuCall, SilentCalls
<1>2. DOMAIN calls = 1 .. MenuCalls
  BY DEF CallsWell
<1> QED BY <1>1, <1>2

LEMMA CallIs ==
  ASSUME CallsWell, NEW c \in 1 .. MenuCalls, calls[c] # Silence
  PROVE  /\ CallWell(calls[c]) /\ calls[c] \in CallRecord
         /\ calls[c].at \in {"sent", "answered", "failed"}
         /\ calls[c].what \in {"menu", "flip", "remove"} /\ calls[c].to \in {"on", "off"}
         /\ calls[c].got \in Menu
BY DEF CallsWell, CallWell, CallRecord

LEMMA FlipDishInv ==
  ASSUME MenuInv, NEW d \in Dish, FlipDish(d)
  PROVE  MenuInv'
<1> DEFINE to == menu'[d].is
           q == [at |-> "sent", what |-> "flip", dish |-> d, to |-> to, got |-> menu]
           e == [menu[d] EXCEPT !.is = IF @ = "on" THEN "off" ELSE "on"]
<1>1. /\ menu[d] # Gone /\ TakesTurn /\ menu' = [menu EXCEPT ![d] = e]
      /\ SilentCalls # {} /\ calls' = [calls EXCEPT ![NextMenuCall] = q]
      /\ woe' = IF \E c \in 1 .. MenuCalls \ SilentCalls : calls[c].what = "flip" /\ calls[c].dish = d
                THEN woe \union {"twice"} ELSE woe
      /\ UNCHANGED <<card, menuForm, groupsMade, slips>>
      /\ MenuTypeOK /\ CallsWell /\ SaveWell /\ PageWell
  BY DEF FlipDish, Rings, Switches, MenuInv
<1>2. UNCHANGED <<editing, adding, save, dropping>>
  BY <1>1 DEF menuForm
<1>3. menu[d] \in Entry /\ menu \in Menu
  BY <1>1, DishCardIs DEF MenuTypeOK
<1>4. /\ e \in Entry /\ e.groups = menu[d].groups /\ e.is \in {"on", "off"}
      /\ e.is # menu[d].is /\ e = [is |-> e.is, groups |-> menu[d].groups]
  BY <1>3 DEF Entry
<1> HIDE DEF e
<1>5. /\ menu' \in Menu /\ menu'[d] = e /\ to = e.is
      /\ \A x \in Dish : x # d => menu'[x] = menu[x]
  BY <1>1, <1>3, <1>4 DEF Menu
<1> HIDE DEF to
<1>6. Known(d)
  BY <1>1 DEF PageWell
<1>7. q \in CallRecord /\ q.what = "flip" /\ q.at = "sent" /\ q.dish = d /\ q.to = e.is /\ q.got = menu
  BY <1>3, <1>4, <1>5 DEF CallRecord
<1> HIDE DEF q
<1>8. PICK k \in 1 .. MenuCalls :
        /\ calls[k] = Silence /\ calls'[k] = q /\ DOMAIN calls' = 1 .. MenuCalls
        /\ \A c \in 1 .. MenuCalls : c # k => calls'[c] = calls[c]
  BY <1>1, CallSlot
<1>9. CardGoes
  BY <1>1, DishCardRests
<1>10. CallsWell'
  <2>1. CallNext(q)
    BY <1>1, <1>6, <1>7, <1>9 DEF CallNext, PageWell, Known, CardGoes
  <2> QED BY <1>1, <1>8, <1>9, <2>1, CallsGo
<1>11. SaveWell'
  BY <1>1, <1>2 DEF SaveWell, Known
<1>12. PageWell'
  BY <1>1, <1>2, <1>5, <1>6 DEF PageWell, Known
<1>13. MenuTypeOK'
  <2>1. turns' \in 0 .. MaxTurns /\ woe' \subseteq Woe
    BY <1>1, VendorMenuAssumption DEF MenuTypeOK, TakesTurn, Woe
  <2> QED BY <1>1, <1>2, <1>5, <2>1 DEF MenuTypeOK
<1>14. ASSUME woe' = {} PROVE FormKnows' /\ SaveKnows' /\ MenuFollows'
  <2>1. /\ woe = {} /\ FormKnows /\ SaveKnows /\ MenuFollows
        /\ \A c \in 1 .. MenuCalls : Rung(c, "flip") => calls[c].dish # d
    BY <1>1, <1>14 DEF MenuInv, SilentCalls, Rung
  <2>2. FormKnows'
    BY <1>1, <1>2, <2>1 DEF FormKnows, Has
  <2>3. SaveKnows'
    BY <1>1, <1>2, <2>1, SaveKnowsRests
  <2>4. /\ q # Silence
        /\ \A c \in 1 .. MenuCalls : c # k =>
             \A w : (calls'[c] # Silence /\ calls'[c].what = w) <=> Rung(c, w)
    BY <1>7, <1>8 DEF Rung, Silence
  <2>5. /\ \A c \in 1 .. MenuCalls : calls'[c] # Silence => calls'[c].at # "failed"
        /\ \A b, c \in 1 .. MenuCalls :
             Rung(b, "flip")' /\ Rung(c, "flip")' /\ calls'[b].dish = calls'[c].dish => b = c
    BY <1>7, <1>8, <2>1 DEF MenuFollows, Rung
  <2>6. \A x \in Dish : \A c \in 1 .. MenuCalls :
          FlipSent(c, x)' => menu'[x] # Gone /\ menu'[x].is = calls'[c].to
    <3>1. e # Gone
      BY <1>4, RowsAre
    <3> QED BY <1>5, <1>7, <1>8, <2>1, <3>1 DEF MenuFollows, Rung, FlipSent
  <2>7. CASE MenuComing
    <3>1. \A c \in 1 .. MenuCalls : Rung(c, "menu") => Rung(c, "menu")'
      BY <1>8 DEF Rung
    <3>2. \A c \in 1 .. MenuCalls : Rung(c, "remove") => Rung(c, "remove")' /\ calls'[c] = calls[c]
      BY <1>8 DEF Rung
    <3>3. MenuComing'
      BY <1>2, <2>7, <3>1, <3>2 DEF MenuComing
    <3> QED BY <2>2, <2>3, <2>5, <2>6, <3>3 DEF MenuFollows
  <2>8. CASE \A x \in Dish : RowFollows(x)
    <3>1. ASSUME NEW x \in Dish, x # d PROVE RowFollows(x)'
      <4>1. \A c \in 1 .. MenuCalls : FlipSent(c, x) => FlipSent(c, x)'
        BY <1>8 DEF FlipSent, Rung
      <4>2. menu'[x] = menu[x] /\ Listed(card)' = Listed(card) /\ card'[x] = card[x]
        BY <1>1, <1>5, <3>1 DEF Listed
      <4> QED BY <2>8, <4>1, <4>2 DEF RowFollows
    <3>2. RowFollows(d)'
      <4>1. ~\E c \in 1 .. MenuCalls : FlipSent(c, d)
        BY <2>1 DEF FlipSent
      <4>2. menu[d] = Listed(card)[d]
        BY <2>8, <4>1 DEF RowFollows
      <4>3. card[d] = menu[d]
        BY <1>1, <1>6, <4>2, ListedIs DEF Known
      <4>4. FlipSent(k, d)'
        BY <1>7, <1>8, <2>4 DEF FlipSent, Rung
      <4>5. menu'[d] # Gone /\ menu'[d].groups = card'[d].groups /\ card'[d] # Gone
        BY <1>1, <1>4, <1>5, <4>3, RowsAre
      <4> QED BY <4>4, <4>5 DEF RowFollows
    <3> QED BY <2>2, <2>3, <2>5, <2>6, <3>1, <3>2 DEF MenuFollows
  <2> QED BY <2>1, <2>7, <2>8 DEF MenuFollows
<1> QED BY <1>10, <1>11, <1>12, <1>13, <1>14 DEF MenuInv

(* A request that touches neither page nor server keeps what the page follows. *)
LEMMA CallPlaced ==
  ASSUME MenuFollows, UNCHANGED <<card, menu>>, NEW k \in 1 .. MenuCalls, NEW q, q = calls'[k],
         \A c \in 1 .. MenuCalls : c # k => calls'[c] = calls[c],
         q # Silence => q.at # "failed" /\ q.what # "flip",
         calls[k] = Silence \/ calls[k].at # "sent" \/ calls[k].what # "flip"
  PROVE  MenuComing' \/ (\A d \in Dish : RowFollows(d)) => MenuFollows'
<1>1. /\ \A c \in 1 .. MenuCalls : calls'[c] # Silence => calls'[c].at # "failed"
      /\ \A b, c \in 1 .. MenuCalls :
           Rung(b, "flip")' /\ Rung(c, "flip")' /\ calls'[b].dish = calls'[c].dish => b = c
      /\ \A x \in Dish : \A c \in 1 .. MenuCalls :
           FlipSent(c, x)' => menu'[x] # Gone /\ menu'[x].is = calls'[c].to
  BY DEF MenuFollows, Rung, FlipSent
<1>2. ASSUME \A d \in Dish : RowFollows(d) PROVE \A d \in Dish : RowFollows(d)'
  <2>1. \A d \in Dish : \A c \in 1 .. MenuCalls : FlipSent(c, d) => FlipSent(c, d)'
    BY DEF FlipSent, Rung
  <2> QED BY <1>2, <2>1 DEF RowFollows, Listed
<1> QED BY <1>1, <1>2 DEF MenuFollows


LEMMA RemoveInv ==
  ASSUME MenuInv, NEW d \in Dish, Remove(d)
  PROVE  MenuInv'
<1> DEFINE q == [at |-> "sent", what |-> "remove", dish |-> d, to |-> "off", got |-> menu]
<1>1. /\ menu[d] # Gone /\ TakesTurn
      /\ SilentCalls # {} /\ calls' = [calls EXCEPT ![NextMenuCall] = q]
      /\ UNCHANGED <<card, menu, menuForm, groupsMade, slips, woe>>
      /\ MenuTypeOK /\ CallsWell /\ SaveWell /\ PageWell
  BY DEF Remove, Rings, MenuInv
<1>2. UNCHANGED <<editing, adding, save, dropping>>
  BY <1>1 DEF menuForm
<1>3. q \in CallRecord /\ q.what = "remove" /\ q.at = "sent" /\ q.dish = d /\ q.got = menu
  BY <1>1 DEF CallRecord, MenuTypeOK
<1> HIDE DEF q
<1>4. PICK k \in 1 .. MenuCalls :
        /\ calls[k] = Silence /\ calls'[k] = q /\ DOMAIN calls' = 1 .. MenuCalls
        /\ \A c \in 1 .. MenuCalls : c # k => calls'[c] = calls[c]
  BY <1>1, CallSlot
<1>5. CardGoes
  BY <1>1, DishCardRests
<1>6. CallsWell'
  <2>1. CallNext(q)
    BY <1>1, <1>3, <1>5 DEF CallNext, PageWell, Known, CardGoes
  <2> QED BY <1>1, <1>4, <1>5, <2>1, CallsGo
<1>7. SaveWell' /\ PageWell'
  BY <1>1, <1>2 DEF SaveWell, PageWell, Known
<1>8. MenuTypeOK'
  <2>1. turns' \in 0 .. MaxTurns
    BY <1>1, VendorMenuAssumption DEF MenuTypeOK, TakesTurn
  <2> QED BY <1>1, <1>2, <2>1 DEF MenuTypeOK
<1>9. ASSUME woe' = {} PROVE FormKnows' /\ SaveKnows' /\ MenuFollows'
  <2>1. woe = {} /\ FormKnows /\ SaveKnows /\ MenuFollows
    BY <1>1, <1>9 DEF MenuInv
  <2>2. FormKnows' /\ SaveKnows'
    BY <1>1, <1>2, <2>1, SaveKnowsRests DEF FormKnows, Has
  <2>3. MenuComing => MenuComing'
    <3>1. \A c \in 1 .. MenuCalls : \A w : Rung(c, w) => Rung(c, w)' /\ calls'[c] = calls[c]
      BY <1>4 DEF Rung
    <3> QED BY <1>2, <3>1 DEF MenuComing, Rung
  <2>4. MenuComing' \/ \A x \in Dish : RowFollows(x)
    BY <2>1, <2>3 DEF MenuFollows
  <2> QED BY <1>1, <1>3, <1>4, <2>1, <2>2, <2>4, CallPlaced
<1> QED BY <1>6, <1>7, <1>8, <1>9 DEF MenuInv

-----------------------------------------------------------------------------
(* A save. *)
LEMMA SaveIs ==
  ASSUME SaveWell, save.at \in {"dish", "drop", "make"}
  PROVE  /\ save # NoSave /\ save \in SaveRecord /\ save.dish \in Dish /\ save.fresh \in BOOLEAN
         /\ save.olds \subseteq Group /\ save.todo \subseteq Label /\ save.want \subseteq Label
BY DEF SaveWell, SaveRecord, NoSave

(* What keeps a step of a save within the invariant. *)
LEMMA SaveStepInv ==
  ASSUME MenuInv, CardGoes, calls' = calls, SaveWell', PageWell',
         groupsMade' \in 0 .. MaxGroups, turns' = turns, slips' \in 0 .. MaxSlips,
         woe' \subseteq Woe, woe \subseteq woe', save' = NoSave \/ save'.todo \subseteq save'.want,
         editing' = editing \/ editing' = NoEdit, adding' \in BOOLEAN,
         menu' \in Menu, \A r \in dropping' : r.dish \in Dish /\ r.group \in Group,
         woe' = {} => save' # NoSave /\ FormKnows' /\ SaveKnows',
         woe' = {} => menu' = menu \/ MenuFollows'
  PROVE  MenuInv'
<1>1. MenuTypeOK /\ CallsWell
  BY DEF MenuInv
<1>2. CallsWell'
  BY <1>1, CallsGo DEF CallsWell
<1>3. MenuTypeOK'
  <2>1. /\ editing'.dish \in Dish \union {"none"} /\ editing'.groups \subseteq Group
    BY <1>1 DEF MenuTypeOK, NoEdit
  <2>2. save'.at \in {"none", "dish", "drop", "make"} /\ save'.dish \in Dish \union {"none"}
        /\ save'.want \subseteq Label /\ save'.todo \subseteq save'.want
    BY DEF SaveWell, SaveRecord, NoSave
  <2> QED BY <1>1, <2>1, <2>2 DEF MenuTypeOK, CardGoes
<1>4. ASSUME woe' = {} PROVE FormKnows' /\ SaveKnows' /\ MenuFollows'
  BY <1>4, FollowsWhileSaving DEF MenuInv
<1> QED BY <1>2, <1>3, <1>4 DEF MenuInv


LEMMA SaveDishInv ==
  ASSUME MenuInv, SaveDish
  PROVE  MenuInv' /\ (woe' = {} => save' # NoSave)
<1> DEFINE d == save.dish
<1>1. /\ save.at = "dish" /\ UNCHANGED <<calls, groupsMade, turns>>
      /\ MenuTypeOK /\ CallsWell /\ SaveWell /\ PageWell
  BY DEF SaveDish, MenuInv
<1>2. /\ save # NoSave /\ save \in SaveRecord /\ d \in Dish /\ save.fresh \in BOOLEAN
      /\ save.olds \subseteq Group /\ save.want \subseteq Label /\ save.todo = save.want
      /\ (IF save.fresh THEN ~Known(d) ELSE Known(d)) /\ (save.fresh => save.olds = {})
  BY <1>1, SaveIs DEF SaveWell
<1>3. groupsMade' \in 0 .. MaxGroups
  BY <1>1 DEF MenuTypeOK
<1>4. CASE /\ card[d] # Gone /\ SavesDish
           /\ save' = [save EXCEPT !.at = "drop"]
           /\ dropping' = dropping \union {[dish |-> d, group |-> g] : g \in save.olds}
           /\ editing' = NoEdit
           /\ adding' = IF save.fresh THEN FALSE ELSE adding
           /\ menu' = IF save.fresh THEN [menu EXCEPT ![d] = card'[d]] ELSE menu
           /\ UNCHANGED <<slips, woe>>
  <2>1. /\ CardGoes /\ \A x \in Dish : x # d => card'[x] = card[x]
        /\ card'[d].groups = card[d].groups /\ card'[d] # Unmade /\ card'[d] # Gone
    BY <1>1, <1>2, <1>4, SavedCard DEF SavesDish
  <2>2. /\ save' \in SaveRecord /\ save'.at = "drop" /\ save'.dish = d /\ save'.want = save.want
        /\ save'.todo = save.todo /\ save'.olds = save.olds /\ save'.fresh = save.fresh
        /\ save' # NoSave
    BY <1>2, <1>4 DEF SaveRecord, NoSave
  <2>3. SaveWell'
    BY <1>2, <2>1, <2>2 DEF SaveWell, Known
  <2>4. menu' \in Menu /\ \A x \in Dish : menu'[x] = (IF save.fresh /\ x = d THEN card'[d] ELSE menu[x])
    BY <1>1, <1>2, <1>4, <2>1 DEF MenuTypeOK, CardGoes, Menu
  <2>5. /\ \A r \in dropping' : r \in dropping
                                \/ (r.dish = d /\ r.group \in save.olds
                                    /\ r = [dish |-> r.dish, group |-> r.group])
        /\ \A g \in save.olds : \E r \in dropping' : r.group = g
    <3> DEFINE new == {[dish |-> d, group |-> g] : g \in save.olds}
    <3>1. dropping' = dropping \union new
      BY <1>4
    <3>2. \A r \in new : /\ r.dish = d /\ r.group \in save.olds
                         /\ r = [dish |-> r.dish, group |-> r.group]
      OBVIOUS
    <3>3. \A g \in save.olds : [dish |-> d, group |-> g] \in new /\ [dish |-> d, group |-> g].group = g
      OBVIOUS
    <3> HIDE DEF new
    <3> QED BY <3>1, <3>2, <3>3
  <2>6. PageWell'
    <3>1. \A r \in dropping : r.dish \in Dish
      BY <1>1 DEF MenuTypeOK
    <3>2. \A r \in dropping' : r = [dish |-> r.dish, group |-> r.group] /\ card'[r.dish] # Unmade
      BY <1>1, <2>1, <2>5, <3>1 DEF PageWell, CardGoes, Known
    <3>3. \A x \in Dish : menu'[x] # Gone => card'[x] # Unmade
      BY <1>1, <2>1, <2>4 DEF PageWell, CardGoes, Known
    <3> QED BY <1>4, <2>1, <3>2, <3>3 DEF PageWell, CardGoes, Known
  <2>7. \A r \in dropping' : r.dish \in Dish /\ r.group \in Group
    BY <1>1, <1>2, <2>5 DEF MenuTypeOK
  <2>8. ASSUME woe' = {} PROVE FormKnows' /\ SaveKnows' /\ (menu' = menu \/ MenuFollows')
    <3>1. woe = {} /\ SaveKnows /\ MenuFollows
      BY <1>4, <2>8 DEF MenuInv
    <3>2. FormKnows'
      BY <1>4 DEF FormKnows
    <3>3. dropping = {} /\ Has(d, save.olds)
      BY <1>1, <3>1 DEF SaveKnows
    <3>4. {r.group : r \in dropping'} = save.olds
      BY <2>5, <3>3
    <3>5. SaveKnows'
      BY <1>4, <2>1, <2>2, <2>5, <3>3, <3>4 DEF SaveKnows, Has
    <3>6. menu' = menu \/ MenuFollows'
      <4> SUFFICES ASSUME save.fresh PROVE MenuFollows'
        BY <1>4
      <4>1. ASSUME NEW x \in Dish, NEW c \in 1 .. MenuCalls, FlipSent(c, x) PROVE x # d
        BY <1>1, <1>2, <4>1 DEF FlipSent, Rung, CallsWell, CallWell
      <4>2. \A x \in Dish : \A c \in 1 .. MenuCalls :
              FlipSent(c, x)' => menu'[x] # Gone /\ menu'[x].is = calls'[c].to
        <5>1. \A x \in Dish : \A c \in 1 .. MenuCalls : FlipSent(c, x)' <=> FlipSent(c, x)
          BY <1>1 DEF FlipSent, Rung
        <5> QED BY <1>1, <2>4, <3>1, <4>1, <5>1 DEF MenuFollows
      <4> QED BY <1>1, <2>2, <3>1, <4>2 DEF MenuFollows, MenuComing, Rung
    <3> QED BY <3>2, <3>5, <3>6
  <2>9. adding' \in BOOLEAN /\ slips' \in 0 .. MaxSlips /\ woe' \subseteq Woe
    BY <1>1, <1>4 DEF MenuTypeOK
  <2>10. save'.todo \subseteq save'.want
    BY <1>2, <2>2
  <2> QED BY <1>1, <1>2, <1>3, <1>4, <2>1, <2>2, <2>3, <2>4, <2>6, <2>7, <2>8, <2>9, <2>10, SaveStepInv
<1>5. CASE /\ save' = NoSave /\ woe' # {} /\ woe \subseteq woe' /\ woe' \subseteq Woe
           /\ slips' \in 0 .. MaxSlips /\ CardGoes /\ UNCHANGED <<menu, editing, adding, dropping>>
  <2>1. SaveWell' /\ PageWell'
    BY <1>1, <1>5, PageGoes DEF SaveWell
  <2>2. menu' \in Menu /\ (\A r \in dropping' : r.dish \in Dish /\ r.group \in Group) /\ adding' \in BOOLEAN
    BY <1>1, <1>5 DEF MenuTypeOK
  <2> QED BY <1>1, <1>2, <1>3, <1>5, <2>1, <2>2, SaveStepInv
<1>6. CASE card[d] = Gone /\ StepRefused({"outlived"}) /\ UNCHANGED <<card, menu, editing, adding, dropping, slips>>
  <2>1. CardGoes
    BY <1>1, <1>6, DishCardRests
  <2> QED BY <1>1, <1>5, <1>6, <2>1 DEF StepRefused, MenuTypeOK, Woe
<1>7. CASE /\ Slips /\ save' = NoSave /\ ((card[d] # Gone /\ SavesDish) \/ UNCHANGED card)
           /\ UNCHANGED <<menu, editing, adding, dropping>>
  <2>1. CardGoes
    BY <1>1, <1>2, <1>7, DishCardRests, SavedCard DEF SavesDish
  <2>2. slips' \in 0 .. MaxSlips /\ woe' # {} /\ woe \subseteq woe' /\ woe' \subseteq Woe
    BY <1>1, <1>7, VendorMenuAssumption DEF Slips, MenuTypeOK, Woe
  <2> QED BY <1>5, <1>7, <2>1, <2>2
<1> QED BY <1>4, <1>6, <1>7 DEF SaveDish

LEMMA DropsDoneInv ==
  ASSUME MenuInv, DropsDone
  PROVE  MenuInv' /\ save' # NoSave
<1>1. /\ save.at = "drop" /\ AllDropped /\ save' = [save EXCEPT !.at = "make"]
      /\ UNCHANGED <<card, menu, editing, adding, dropping, calls, groupsMade, turns, slips, woe>>
      /\ MenuTypeOK /\ CallsWell /\ SaveWell /\ PageWell
  BY DEF DropsDone, MenuInv
<1>2. /\ save # NoSave /\ save \in SaveRecord /\ save.dish \in Dish /\ save.todo = save.want
      /\ Known(save.dish) /\ (save.fresh => save.olds = {})
  BY <1>1, SaveIs DEF SaveWell
<1>3. /\ save' \in SaveRecord /\ save'.at = "make" /\ save'.dish = save.dish
      /\ save'.want = save.want /\ save'.todo = save.todo /\ save'.olds = save.olds
      /\ save'.fresh = save.fresh /\ save' # NoSave
  BY <1>1, <1>2 DEF SaveRecord, NoSave
<1>4. CardGoes
  BY <1>1, DishCardRests
<1>5. SaveWell'
  BY <1>1, <1>2, <1>3 DEF SaveWell, Known
<1>6. PageWell'
  BY <1>1, <1>4, PageGoes
<1>7. ASSUME woe' = {} PROVE FormKnows' /\ SaveKnows'
  <2>1. FormKnows /\ SaveKnows
    BY <1>1, <1>7 DEF MenuInv
  <2>2. FormKnows'
    BY <1>1, <1>3, <2>1 DEF FormKnows, Has
  <2>3. dropping = {}
    BY <1>1, <2>1 DEF SaveKnows, AllDropped
  <2>4. card[save.dish] # Gone => card[save.dish].groups = {}
    BY <1>1, <2>1, <2>3 DEF SaveKnows, Has
  <2> QED BY <1>1, <1>2, <1>3, <2>2, <2>3, <2>4 DEF SaveKnows
<1>8. /\ groupsMade' \in 0 .. MaxGroups /\ slips' \in 0 .. MaxSlips /\ woe' \subseteq Woe
      /\ adding' \in BOOLEAN /\ menu' \in Menu /\ \A r \in dropping' : r.dish \in Dish /\ r.group \in Group
  BY <1>1 DEF MenuTypeOK
<1> QED BY <1>1, <1>2, <1>3, <1>4, <1>5, <1>6, <1>7, <1>8, SaveStepInv


LEMMA DropGroupInv ==
  ASSUME MenuInv, NEW r \in dropping, DropGroup(r)
  PROVE  MenuInv' /\ (save # NoSave /\ woe' = {} => save' # NoSave)
<1>1. /\ dropping' = dropping \ {r}
      /\ UNCHANGED <<menu, editing, adding, calls, groupsMade, turns>>
      /\ MenuTypeOK /\ CallsWell /\ SaveWell /\ PageWell
  BY DEF DropGroup, MenuInv
<1>2. /\ r.dish \in Dish /\ groupsMade' \in 0 .. MaxGroups /\ adding' \in BOOLEAN /\ menu' \in Menu
      /\ \A x \in dropping' : x.dish \in Dish /\ x.group \in Group
  BY <1>1 DEF MenuTypeOK
<1>3. save' = save \/ save' = NoSave
  BY DEF DropGroup, EndsSave
<1>4. /\ woe \subseteq woe' /\ woe' \subseteq Woe /\ slips' \in 0 .. MaxSlips
      /\ card' = card \/ card' = Drops(r)
  <2>1. CASE Slips /\ (card' = Drops(r) \/ UNCHANGED card)
    BY <1>1, <2>1, VendorMenuAssumption DEF Slips, MenuTypeOK, Woe
  <2>2. CASE UNCHANGED <<slips, woe>> /\ card' = Drops(r)
    BY <1>1, <2>2 DEF MenuTypeOK
  <2>3. CASE UNCHANGED <<card, slips>>
             /\ woe' = woe \union (IF card[r.dish] = Gone THEN {"outlived"} ELSE {})
    BY <1>1, <2>3 DEF MenuTypeOK, Woe
  <2> QED BY <2>1, <2>2, <2>3 DEF DropGroup
<1>5. /\ CardGoes /\ \A d \in Dish : card'[d].is = card[d].is
      /\ \A d \in Dish : d # r.dish => card'[d] = card[d]
  BY <1>1, <1>4, DishCardRests, DropsCard
<1>6. SaveWell'
  <2>1. CASE save' = NoSave
    BY <2>1 DEF SaveWell
  <2>2. CASE save' = save
    <3>1. save.at = "dish" /\ save.fresh => card'[save.dish] = Unmade
      <4> SUFFICES ASSUME save.at = "dish", save.fresh PROVE card'[save.dish] = Unmade
        OBVIOUS
      <4>1. save.dish \in Dish /\ card[save.dish] = Unmade
        BY <1>1, SaveIs DEF SaveWell, Known
      <4> QED BY <1>5, <4>1, RowsAre DEF CardGoes
    <3> QED BY <1>1, <1>5, <2>2, <3>1, SaveGoes
  <2> QED BY <1>3, <2>1, <2>2
<1>7. PageWell'
  BY <1>1, <1>5, PageGoes
<1>8. ASSUME woe' = {} PROVE save' # NoSave /\ FormKnows' /\ SaveKnows'
  <2>1. woe = {} /\ FormKnows /\ SaveKnows
    BY <1>4, <1>8 DEF MenuInv
  <2>2. /\ save.at = "drop" /\ save.dish = r.dish /\ \A x \in dropping : x.dish = r.dish
        /\ Has(r.dish, {x.group : x \in dropping})
    BY <2>1 DEF SaveKnows
  <2>3. card[r.dish] = Gone \/ r.group \in card[r.dish].groups
    BY <2>2 DEF Has
  <2>4. r.group \in card[r.dish].groups /\ card' = Drops(r) /\ save' = save
    BY <1>8, <2>3 DEF DropGroup, Slips
  <2>5. card[r.dish].groups = {x.group : x \in dropping}
    BY <2>2, <2>4, RowsAre DEF Has
  <2>6. card'[r.dish].groups = card[r.dish].groups \ {r.group}
    BY <1>1, <2>4, DropsCard
  <2>7. \A x \in dropping : x.group = r.group => x = r
    BY <1>1, <2>2 DEF PageWell
  <2>8. card'[r.dish].groups = {x.group : x \in dropping'}
    BY <1>1, <2>5, <2>6, <2>7
  <2>9. FormKnows'
    <3>1. editing # NoEdit => editing.dish \in Dish /\ editing.dish # r.dish
      BY <1>1, <2>1, <2>2 DEF FormKnows, PageWell
    <3> QED BY <1>1, <1>5, <2>1, <2>4, <3>1 DEF FormKnows, Has
  <2>10. SaveKnows'
    BY <1>1, <2>2, <2>4, <2>8 DEF SaveKnows, Has
  <2>11. save' # NoSave
    BY <2>2, <2>4 DEF NoSave
  <2> QED BY <2>9, <2>10, <2>11
<1>9. save' = NoSave \/ save'.todo \subseteq save'.want
  BY <1>1, <1>3 DEF MenuTypeOK
<1> QED BY <1>1, <1>2, <1>4, <1>5, <1>6, <1>7, <1>8, <1>9, SaveStepInv

LEMMA MakeGroupInv ==
  ASSUME MenuInv, MakeGroup
  PROVE  MenuInv' /\ (woe' = {} => save' # NoSave)
<1> DEFINE d == save.dish
           l == FirstOf(save.todo)
<1>1. /\ save.at = "make" /\ save.todo # {} /\ groupsMade < MaxGroups
      /\ UNCHANGED <<menu, editing, adding, dropping, calls, turns>>
      /\ MenuTypeOK /\ CallsWell /\ SaveWell /\ PageWell
  BY DEF MakeGroup, MenuInv
<1>2. /\ save # NoSave /\ save \in SaveRecord /\ d \in Dish /\ Known(d)
      /\ save.todo \subseteq save.want /\ save.want \subseteq Label
      /\ (save.fresh => save.olds = {})
  BY <1>1, SaveIs DEF SaveWell, MenuTypeOK
<1>3. l \in save.todo /\ l \in Label
  BY <1>1, <1>2 DEF FirstOf
<1> HIDE DEF l
<1>4. /\ adding' \in BOOLEAN /\ menu' \in Menu
      /\ \A x \in dropping' : x.dish \in Dish /\ x.group \in Group
  BY <1>1 DEF MenuTypeOK
<1>5. CASE /\ card[d] # Gone /\ card' = Created(d, l) /\ groupsMade' = groupsMade + 1
           /\ save' = [save EXCEPT !.todo = @ \ {l}] /\ UNCHANGED <<slips, woe>>
  <2> DEFINE n == [id |-> groupsMade + 1, lab |-> l]
  <2>1. /\ CardGoes /\ groupsMade' \in 0 .. MaxGroups
        /\ \A x \in Dish : x # d => card'[x] = card[x]
        /\ card'[d].groups = card[d].groups \union {n} /\ card'[d] # Gone
    BY <1>1, <1>2, <1>3, <1>5, MadeCard
  <2>2. n.lab = l
    OBVIOUS
  <2> HIDE DEF n
  <2>3. /\ save' \in SaveRecord /\ save'.at = "make" /\ save'.dish = d /\ save'.want = save.want
        /\ save'.todo = save.todo \ {l} /\ save'.olds = save.olds /\ save'.fresh = save.fresh
        /\ save' # NoSave
    BY <1>1, <1>2, <1>5 DEF SaveRecord, NoSave
  <2>4. SaveWell'
    BY <1>2, <2>1, <2>3 DEF SaveWell, CardGoes, Known
  <2>5. PageWell'
    BY <1>1, <2>1, PageGoes
  <2>6. ASSUME woe' = {} PROVE FormKnows' /\ SaveKnows'
    <3>1. woe = {} /\ FormKnows /\ SaveKnows
      BY <1>5, <2>6 DEF MenuInv
    <3>2. FormKnows'
      <4>1. editing # NoEdit => editing.dish \in Dish /\ editing.dish # d
        BY <1>1, <3>1 DEF FormKnows, PageWell
      <4> QED BY <1>1, <2>1, <2>3, <3>1, <4>1 DEF FormKnows, Has
    <3>3. /\ dropping = {} /\ {g.lab : g \in card[d].groups} = save.want \ save.todo
          /\ \A g, h \in card[d].groups : g.lab = h.lab => g = h
      BY <1>1, <1>5, <3>1 DEF SaveKnows
    <3>4. {g.lab : g \in card'[d].groups} = {g.lab : g \in card[d].groups} \union {l}
      BY <2>1, <2>2
    <3>5. {g.lab : g \in card'[d].groups} = save.want \ (save.todo \ {l})
      BY <1>2, <1>3, <3>3, <3>4
    <3>6. \A g, h \in card'[d].groups : g.lab = h.lab => g = h
      <4>1. \A g \in card[d].groups : g.lab # l
        BY <1>3, <3>3
      <4> QED BY <2>1, <2>2, <3>3, <4>1
    <3>7. SaveKnows'
      BY <1>1, <2>3, <3>3, <3>5, <3>6 DEF SaveKnows
    <3> QED BY <3>2, <3>7
  <2>7. slips' \in 0 .. MaxSlips /\ woe' \subseteq Woe
    BY <1>1, <1>5 DEF MenuTypeOK
  <2>8. save'.todo \subseteq save'.want
    BY <1>2, <2>3
  <2> QED BY <1>1, <1>4, <1>5, <2>1, <2>3, <2>4, <2>5, <2>6, <2>7, <2>8, SaveStepInv
<1>6. CASE /\ save' = NoSave /\ woe' # {} /\ woe \subseteq woe' /\ woe' \subseteq Woe
           /\ slips' \in 0 .. MaxSlips /\ CardGoes /\ groupsMade' \in 0 .. MaxGroups
  <2>1. SaveWell' /\ PageWell'
    BY <1>1, <1>6, PageGoes DEF SaveWell
  <2> QED BY <1>1, <1>4, <1>6, <2>1, SaveStepInv
<1>7. CASE card[d] = Gone /\ StepRefused({"outlived"}) /\ UNCHANGED <<card, groupsMade, slips>>
  <2>1. CardGoes
    BY <1>1, <1>7, DishCardRests
  <2> QED BY <1>1, <1>6, <1>7, <2>1 DEF StepRefused, MenuTypeOK, Woe
<1>8. CASE /\ Slips /\ save' = NoSave
           /\ \/ card[d] # Gone /\ card' = Created(d, l) /\ groupsMade' = groupsMade + 1
              \/ UNCHANGED <<card, groupsMade>>
  <2>1. CardGoes /\ groupsMade' \in 0 .. MaxGroups
    BY <1>1, <1>2, <1>3, <1>8, DishCardRests, MadeCard DEF MenuTypeOK
  <2>2. slips' \in 0 .. MaxSlips /\ woe' # {} /\ woe \subseteq woe' /\ woe' \subseteq Woe
    BY <1>1, <1>8, VendorMenuAssumption DEF Slips, MenuTypeOK, Woe
  <2> QED BY <1>6, <1>8, <2>1, <2>2
<1> QED BY <1>5, <1>7, <1>8 DEF MakeGroup, l

LEMMA SaveDoneInv ==
  ASSUME MenuInv, SaveDone
  PROVE  MenuInv'
<1>1. /\ save.at = "make" /\ save.todo = {} /\ save' = NoSave
      /\ SilentCalls # {} /\ calls' = [calls EXCEPT ![NextMenuCall] = MenuRequest]
      /\ UNCHANGED <<card, menu, editing, adding, dropping, groupsMade, turns, slips, woe>>
      /\ MenuTypeOK /\ CallsWell /\ SaveWell /\ PageWell
  BY DEF SaveDone, Reloads, Rings, MenuInv
<1>2. PICK k \in 1 .. MenuCalls :
        /\ calls[k] = Silence /\ calls'[k] = MenuRequest /\ DOMAIN calls' = 1 .. MenuCalls
        /\ \A c \in 1 .. MenuCalls : c # k => calls'[c] = calls[c]
  BY <1>1, CallSlot
<1>3. /\ MenuRequest \in CallRecord /\ MenuRequest.what = "menu" /\ MenuRequest.at = "sent"
      /\ MenuRequest # Silence /\ MenuRequest.got = Listed(card)
  BY <1>1, ListedIs DEF MenuRequest, CallRecord, Silence
<1>4. CardGoes
  BY <1>1, DishCardRests
<1>5. CallsWell'
  <2>1. CallNext(MenuRequest)
    BY <1>1, <1>3, <1>4, ListedIs DEF CallNext, CardGoes, Known
  <2> QED BY <1>1, <1>2, <1>4, <2>1, CallsGo
<1>6. SaveWell' /\ PageWell'
  BY <1>1, <1>4, PageGoes DEF SaveWell
<1>7. MenuTypeOK'
  BY <1>1 DEF MenuTypeOK, NoSave
<1>8. ASSUME woe' = {} PROVE FormKnows' /\ SaveKnows' /\ MenuFollows'
  <2>1. woe = {} /\ FormKnows /\ SaveKnows /\ MenuFollows
    BY <1>1, <1>8 DEF MenuInv
  <2>2. dropping = {} /\ save'.at = "none"
    BY <1>1, <2>1 DEF SaveKnows, NoSave
  <2>3. SaveKnows'
    BY <1>1, <2>2 DEF SaveKnows
  <2>4. FormKnows'
    BY <1>1, <2>1, <2>2 DEF FormKnows, Has
  <2>5. MenuComing'
    BY <1>2, <1>3 DEF MenuComing, Rung
  <2> DEFINE q == MenuRequest
  <2>6. q = calls'[k] /\ (q # Silence => q.at # "failed" /\ q.what # "flip")
    BY <1>2, <1>3
  <2> HIDE DEF q
  <2>7. MenuFollows'
    BY <1>1, <1>2, <2>1, <2>5, <2>6, CallPlaced
  <2> QED BY <2>3, <2>4, <2>7
<1> QED BY <1>5, <1>6, <1>7, <1>8 DEF MenuInv


-----------------------------------------------------------------------------
(* The server, and its answers. *)
LEMMA CallChanged ==
  ASSUME CallsWell, NEW c \in 1 .. MenuCalls, NEW q, calls' = [calls EXCEPT ![c] = q]
  PROVE  /\ DOMAIN calls' = 1 .. MenuCalls /\ calls'[c] = q
         /\ \A b \in 1 .. MenuCalls : b # c => calls'[b] = calls[b]
BY DEF CallsWell

(* What every step of a call leaves alone. *)
LEMMA CallStepInv ==
  ASSUME MenuInv, CardGoes, CallsWell', menu' \in Menu, woe' \subseteq Woe,
         UNCHANGED <<menuForm, groupsMade>>, turns' = turns, slips' \in 0 .. MaxSlips,
         \A d \in Dish : menu'[d] # Gone => card'[d] # Unmade,
         \A d \in Dish : card[d] = Unmade => card'[d] = Unmade,
         \A d \in Dish : card'[d] = Gone \/ (card[d] # Gone /\ card'[d].groups = card[d].groups),
         woe \subseteq woe', woe' = {} => MenuFollows'
  PROVE  MenuInv'
<1>1. /\ UNCHANGED <<editing, adding, save, dropping>>
      /\ MenuTypeOK /\ CallsWell /\ SaveWell /\ PageWell
  BY DEF menuForm, MenuInv
<1>2. SaveWell'
  <2>1. save.at = "dish" /\ save.fresh => save.dish \in Dish /\ card[save.dish] = Unmade
    BY <1>1, SaveIs DEF SaveWell, Known
  <2> QED BY <1>1, <2>1, SaveGoes
<1>3. PageWell'
  <2>1. \A r \in dropping : r.dish \in Dish
    BY <1>1 DEF MenuTypeOK
  <2> QED BY <1>1, <2>1 DEF PageWell, CardGoes, Known
<1>4. MenuTypeOK'
  BY <1>1 DEF MenuTypeOK, CardGoes
<1>5. ASSUME woe' = {} PROVE FormKnows' /\ SaveKnows' /\ MenuFollows'
  <2>1. FormKnows /\ SaveKnows /\ MenuFollows'
    BY <1>5 DEF MenuInv
  <2>2. FormKnows'
    BY <1>1, <2>1 DEF FormKnows, Has, PageWell
  <2>3. save.at \in {"dish", "drop", "make"} => save.dish \in Dish
    BY <1>1, SaveIs
  <2>4. SaveKnows'
    BY <1>1, <2>1, <2>3 DEF SaveKnows, Has
  <2> QED BY <2>1, <2>2, <2>4
<1> QED BY <1>2, <1>3, <1>4, <1>5 DEF MenuInv

LEMMA CardSame ==
  ASSUME MenuTypeOK, PageWell, UNCHANGED <<card, groupsMade>>
  PROVE  /\ CardGoes
         /\ \A d \in Dish : card[d] = Unmade => card'[d] = Unmade
         /\ \A d \in Dish : card'[d] = Gone \/ (card[d] # Gone /\ card'[d].groups = card[d].groups)
BY DishCardRests

LEMMA ServeCallInv ==
  ASSUME MenuInv, NEW c \in 1 .. MenuCalls, ServeCall(c)
  PROVE  MenuInv'
<1> DEFINE q == calls[c]
           d == q.dish
<1>1. /\ q.at = "sent" /\ q # Silence /\ UNCHANGED <<menu, menuForm, groupsMade, turns, slips>>
      /\ MenuTypeOK /\ CallsWell /\ SaveWell /\ PageWell
  BY DEF ServeCall, MenuInv, Silence
<1>2. CallWell(q) /\ q \in CallRecord /\ q.what \in {"menu", "flip", "remove"} /\ q.to \in {"on", "off"}
  BY <1>1, CallIs
<1>3. menu \in Menu /\ woe \subseteq Woe /\ slips \in 0 .. MaxSlips
      /\ \A x \in Dish : menu[x] # Gone => card[x] # Unmade
  BY <1>1 DEF MenuTypeOK, PageWell, Known
<1>4. CASE q.what = "menu"
  <2> DEFINE n == [q EXCEPT !.at = "answered", !.got = Listed(card)]
  <2>1. calls' = [calls EXCEPT ![c] = n] /\ UNCHANGED <<card, woe>>
    BY <1>4 DEF ServeCall
  <2>2. /\ n \in CallRecord /\ n.what = "menu" /\ n.at = "answered" /\ n.got = Listed(card)
        /\ n # Silence
    BY <1>1, <1>2, <1>4, ListedIs DEF CallRecord, Silence
  <2> HIDE DEF n
  <2>3. /\ DOMAIN calls' = 1 .. MenuCalls /\ calls'[c] = n
        /\ \A b \in 1 .. MenuCalls : b # c => calls'[b] = calls[b]
    BY <1>1, <2>1, CallChanged
  <2>4. /\ CardGoes /\ \A x \in Dish : card[x] = Unmade => card'[x] = Unmade
        /\ \A x \in Dish : card'[x] = Gone \/ (card[x] # Gone /\ card'[x].groups = card[x].groups)
    BY <1>1, <2>1, CardSame
  <2>5. CallsWell'
    <3>1. CallNext(n)
      BY <1>1, <2>1, <2>2, ListedIs DEF CallNext, Known
    <3> QED BY <1>1, <2>3, <2>4, <3>1, CallsGo
  <2>6. woe' = {} => MenuFollows'
    <3>1. woe = {} => MenuFollows
      BY DEF MenuInv
    <3>2. MenuComing'
      BY <2>2, <2>3 DEF MenuComing, Rung
    <3>3. n # Silence => n.at # "failed" /\ n.what # "flip"
      BY <2>2
    <3> QED BY <1>1, <1>4, <2>1, <2>3, <3>1, <3>2, <3>3, CallPlaced
  <2> QED BY <1>1, <1>3, <2>1, <2>4, <2>5, <2>6, CallStepInv
<1>5. CASE q.what # "menu" /\ card[d] = Gone
  <2> DEFINE n == [q EXCEPT !.at = "failed"]
  <2>1. calls' = [calls EXCEPT ![c] = n] /\ woe' = woe \union {"outlived"} /\ card' = card
    BY <1>5 DEF ServeCall
  <2>2. n \in CallRecord /\ n.what = q.what /\ n.dish = d /\ n.got = q.got
    BY <1>2 DEF CallRecord
  <2> HIDE DEF n
  <2>3. /\ DOMAIN calls' = 1 .. MenuCalls /\ calls'[c] = n
        /\ \A b \in 1 .. MenuCalls : b # c => calls'[b] = calls[b]
    BY <1>1, <2>1, CallChanged
  <2>4. /\ CardGoes /\ \A x \in Dish : card[x] = Unmade => card'[x] = Unmade
        /\ \A x \in Dish : card'[x] = Gone \/ (card[x] # Gone /\ card'[x].groups = card[x].groups)
    BY <1>1, <2>1, CardSame
  <2>5. CallsWell'
    <3>1. CallNext(n)
      BY <1>2, <2>1, <2>2 DEF CallNext, CallWell, Known
    <3> QED BY <1>1, <2>3, <2>4, <3>1, CallsGo
  <2>6. woe' # {} /\ woe' \subseteq Woe
    BY <1>3, <2>1 DEF Woe
  <2> QED BY <1>1, <1>3, <2>1, <2>4, <2>5, <2>6, CallStepInv
<1>6. CASE q.what # "menu" /\ card[d] # Gone
  <2> DEFINE n == [q EXCEPT !.at = "answered"]
             e == IF q.what = "remove" THEN Gone ELSE [card[d] EXCEPT !.is = q.to]
  <2>1. calls' = [calls EXCEPT ![c] = n] /\ woe' = woe /\ card' = [card EXCEPT ![d] = e]
    BY <1>6 DEF ServeCall
  <2>2. /\ n \in CallRecord /\ n.at = "answered" /\ n.what = q.what /\ n.dish = d /\ n.got = q.got
        /\ n.to = q.to /\ n # Silence
    BY <1>2 DEF CallRecord, Silence
  <2>3. d \in Dish /\ card[d] \in Entry
    BY <1>1, <1>2, <1>6, DishCardIs DEF CallWell, Known
  <2>4. /\ e \in Entry \union {Gone} /\ (q.what = "remove" => e = Gone)
        /\ (q.what = "flip" => e \in Entry /\ e.is = q.to /\ e.groups = card[d].groups)
    BY <1>2, <2>3 DEF Entry
  <2> HIDE DEF n, e
  <2>5. /\ DOMAIN calls' = 1 .. MenuCalls /\ calls'[c] = n
        /\ \A b \in 1 .. MenuCalls : b # c => calls'[b] = calls[b]
    BY <1>1, <2>1, CallChanged
  <2>6. /\ card' \in [Dish -> Entry \union {Gone, Unmade}] /\ card'[d] = e
        /\ \A x \in Dish : x # d => card'[x] = card[x]
    BY <1>1, <2>1, <2>3, <2>4 DEF MenuTypeOK
  <2>7. e # Unmade /\ (e = Gone \/ e.groups = card[d].groups) /\ card[d] # Unmade
    BY <1>2, <1>6, <2>3, <2>4, RowsAre
  <2>8. CardGoes
    BY <1>1, <2>6, <2>7, RowsAre DEF CardGoes, MenuTypeOK, PageWell
  <2>9. /\ \A x \in Dish : card[x] = Unmade => card'[x] = Unmade
        /\ \A x \in Dish : card'[x] = Gone \/ (card[x] # Gone /\ card'[x].groups = card[x].groups)
    BY <1>6, <2>6, <2>7
  <2>10. CallsWell'
    <3>1. CallNext(n)
      BY <1>2, <2>2, <2>8 DEF CallNext, CallWell, Known, CardGoes
    <3> QED BY <1>1, <2>5, <2>8, <3>1, CallsGo
  <2>11. woe' = {} => MenuFollows'
    <3> SUFFICES ASSUME woe = {} PROVE MenuFollows'
      BY <2>1
    <3>1. MenuFollows
      BY DEF MenuInv
    <3>2. /\ \A b \in 1 .. MenuCalls : calls'[b] # Silence => calls'[b].at # "failed"
          /\ \A a, b \in 1 .. MenuCalls :
               Rung(a, "flip")' /\ Rung(b, "flip")' /\ calls'[a].dish = calls'[b].dish => a = b
      <4>1. \A b \in 1 .. MenuCalls :
              /\ Rung(b, "flip")' => Rung(b, "flip") /\ calls'[b].dish = calls[b].dish
              /\ calls'[b] # Silence => calls'[b].at # "failed"
        BY <1>1, <2>2, <2>5, <3>1 DEF Rung, MenuFollows
      <4> QED BY <3>1, <4>1 DEF MenuFollows
    <3>3. /\ \A b \in 1 .. MenuCalls : \A x : FlipSent(b, x)' <=> FlipSent(b, x) /\ b # c
          /\ \A b \in 1 .. MenuCalls : b # c => calls'[b] = calls[b]
      BY <2>2, <2>5 DEF FlipSent, Rung
    <3>4. \A x \in Dish : \A b \in 1 .. MenuCalls :
            FlipSent(b, x)' => menu'[x] # Gone /\ menu'[x].is = calls'[b].to
      BY <1>1, <3>1, <3>3 DEF MenuFollows
    <3>5. MenuComing => MenuComing'
      <4>1. \A b \in 1 .. MenuCalls : Rung(b, "menu") => Rung(b, "menu")'
        BY <1>6, <2>5 DEF Rung
      <4>2. \A b \in 1 .. MenuCalls : Rung(b, "remove") /\ calls[b].at = "answered"
              => Rung(b, "remove")' /\ calls'[b].at = "answered"
        BY <1>1, <2>5 DEF Rung
      <4>3. save' = save
        BY <1>1 DEF menuForm
      <4> QED BY <4>1, <4>2, <4>3 DEF MenuComing
    <3>6. MenuComing' \/ \A x \in Dish : RowFollows(x)'
      <4>1. CASE MenuComing
        BY <3>5, <4>1
      <4>2. CASE q.what = "remove"
        BY <2>2, <2>5, <4>2 DEF MenuComing, Rung
      <4>3. CASE q.what = "flip" /\ \A x \in Dish : RowFollows(x)
        <5>0. PICK o \in Dish : o = d
          BY <2>3
        <5>1. ASSUME NEW x \in Dish, x # o PROVE RowFollows(x)'
          <6>1. \A b \in 1 .. MenuCalls : FlipSent(b, x) => FlipSent(b, x)'
            BY <3>3, <5>0, <5>1 DEF FlipSent
          <6>2. Listed(card)'[x] = Listed(card)[x] /\ card'[x] = card[x] /\ menu'[x] = menu[x]
            BY <1>1, <2>6, <5>0, <5>1 DEF Listed
          <6> QED BY <4>3, <6>1, <6>2 DEF RowFollows
        <5>2. RowFollows(o)'
          <6>1. FlipSent(c, d)
            BY <1>1, <4>3 DEF FlipSent, Rung
          <6>2. menu[d] # Gone /\ menu[d].is = q.to
            BY <2>3, <3>1, <6>1 DEF MenuFollows
          <6>3. Listed(card)[d] = card[d]
            BY <1>1, <2>3, <2>7, ListedIs
          <6>4. menu[d].groups = card[d].groups
            BY <2>3, <4>3, <6>3 DEF RowFollows
          <6>5. menu[d] = card'[d]
            BY <1>1, <2>3, <2>4, <2>6, <4>3, <6>2, <6>4, DishCardIs, RowsAre
          <6>6. Listed(card)'[o] = card'[o] /\ menu'[o] = card'[o]
            BY <1>1, <2>3, <2>6, <2>7, <5>0, <6>5 DEF Listed
          <6> QED BY <6>6 DEF RowFollows
        <5> QED BY <5>1, <5>2
      <4> QED BY <1>2, <1>6, <3>1, <4>1, <4>2, <4>3 DEF MenuFollows
    <3> QED BY <3>2, <3>4, <3>6 DEF MenuFollows
  <2>12. /\ \A x \in Dish : menu'[x] # Gone => card'[x] # Unmade
    BY <1>1, <1>3, <2>8 DEF CardGoes
  <2> QED BY <1>1, <1>3, <2>1, <2>8, <2>9, <2>10, <2>11, <2>12, CallStepInv
<1> QED BY <1>4, <1>5, <1>6


LEMMA LoseCallInv ==
  ASSUME MenuInv, NEW c \in 1 .. MenuCalls, LoseCall(c)
  PROVE  MenuInv'
<1> DEFINE q == calls[c]
           n == [q EXCEPT !.at = "failed"]
<1>1. /\ q # Silence /\ Slips /\ calls' = [calls EXCEPT ![c] = n]
      /\ UNCHANGED <<card, menu, menuForm, groupsMade, turns>>
      /\ MenuTypeOK /\ CallsWell /\ SaveWell /\ PageWell
  BY DEF LoseCall, MenuInv
<1>2. CallWell(q) /\ q \in CallRecord
  BY <1>1, CallIs
<1>3. n \in CallRecord /\ n.what = q.what /\ n.dish = q.dish /\ n.got = q.got
  BY <1>2 DEF CallRecord
<1> HIDE DEF n
<1>4. /\ DOMAIN calls' = 1 .. MenuCalls /\ calls'[c] = n
      /\ \A b \in 1 .. MenuCalls : b # c => calls'[b] = calls[b]
  BY <1>1, CallChanged
<1>5. /\ CardGoes /\ \A x \in Dish : card[x] = Unmade => card'[x] = Unmade
      /\ \A x \in Dish : card'[x] = Gone \/ (card[x] # Gone /\ card'[x].groups = card[x].groups)
  BY <1>1, CardSame
<1>6. CallsWell'
  <2>1. CallNext(n)
    BY <1>1, <1>2, <1>3 DEF CallNext, CallWell, Known
  <2> QED BY <1>1, <1>4, <1>5, <2>1, CallsGo
<1>7. slips' \in 0 .. MaxSlips /\ woe' # {} /\ woe \subseteq woe' /\ woe' \subseteq Woe
  BY <1>1, VendorMenuAssumption DEF Slips, MenuTypeOK, Woe
<1>8. menu' \in Menu /\ \A x \in Dish : menu'[x] # Gone => card'[x] # Unmade
  BY <1>1 DEF MenuTypeOK, PageWell, Known
<1> QED BY <1>1, <1>5, <1>6, <1>7, <1>8, CallStepInv

LEMMA ReceiveCallInv ==
  ASSUME MenuInv, NEW c \in 1 .. MenuCalls, ReceiveCall(c)
  PROVE  MenuInv'
<1> DEFINE q == calls[c]
<1>1. /\ q # Silence /\ q.at \in {"answered", "failed"}
      /\ UNCHANGED <<card, menuForm, groupsMade, turns, slips>>
      /\ MenuTypeOK /\ CallsWell /\ SaveWell /\ PageWell
  BY DEF ReceiveCall, MenuInv
<1>2. CallWell(q) /\ q.got \in Menu
  BY <1>1, CallIs
<1>3. /\ menu \in Menu /\ woe \subseteq Woe /\ slips \in 0 .. MaxSlips
      /\ \A x \in Dish : menu[x] # Gone => card[x] # Unmade
      /\ \A x \in Dish : q.got[x] # Gone => card[x] # Unmade
  BY <1>1, <1>2 DEF MenuTypeOK, PageWell, CallWell, Known
<1>4. /\ CardGoes /\ \A x \in Dish : card[x] = Unmade => card'[x] = Unmade
      /\ \A x \in Dish : card'[x] = Gone \/ (card[x] # Gone /\ card'[x].groups = card[x].groups)
  BY <1>1, CardSame
<1>5. woe = {} => MenuFollows
  BY DEF MenuInv
<1>6. CASE ReceiveMenu(c)
  <2>1. /\ q.what = "menu" /\ calls' = [calls EXCEPT ![c] = Silence]
        /\ menu' = IF q.at = "answered" THEN q.got ELSE menu
        /\ woe' = IF q.at = "answered" /\ Outdated(q) THEN woe \union {"overtaken"} ELSE woe
    BY <1>6 DEF ReceiveMenu
  <2>2. /\ DOMAIN calls' = 1 .. MenuCalls /\ calls'[c] = Silence
        /\ \A b \in 1 .. MenuCalls : b # c => calls'[b] = calls[b]
    BY <1>1, <2>1, CallChanged
  <2>3. CallsWell'
    BY <1>1, <1>4, <2>2, CallsGo
  <2>4. /\ menu' \in Menu /\ woe' \subseteq Woe /\ woe \subseteq woe'
        /\ \A x \in Dish : menu'[x] # Gone => card'[x] # Unmade
    BY <1>1, <1>2, <1>3, <2>1 DEF Woe
  <2>5. ASSUME woe' = {} PROVE MenuFollows'
    <3>1. woe = {} /\ MenuFollows /\ q.at = "answered" /\ ~Outdated(q)
      BY <1>1, <1>5, <2>1, <2>5 DEF MenuFollows
    <3>2. menu' = Listed(card)
      BY <2>1, <3>1 DEF Outdated
    <3>3. \A b \in 1 .. MenuCalls : \A x : ~FlipSent(b, x)'
      BY <2>2, <3>1 DEF Outdated, FlipSent, Rung
    <3>4. /\ \A b \in 1 .. MenuCalls : calls'[b] # Silence => calls'[b].at # "failed"
          /\ \A a, b \in 1 .. MenuCalls :
               Rung(a, "flip")' /\ Rung(b, "flip")' /\ calls'[a].dish = calls'[b].dish => a = b
      BY <2>2, <3>1 DEF MenuFollows, Rung
    <3>5. \A x \in Dish : RowFollows(x)'
      BY <1>1, <3>2 DEF RowFollows, Listed
    <3> QED BY <3>3, <3>4, <3>5 DEF MenuFollows
  <2> QED BY <1>1, <1>3, <1>4, <2>3, <2>4, <2>5, CallStepInv
<1>7. CASE ReceiveFlip(c)
  <2>1. /\ q.what = "flip" /\ calls' = [calls EXCEPT ![c] = Silence] /\ woe' = woe
        /\ menu' = IF q.at = "failed" THEN q.got ELSE menu
    BY <1>7 DEF ReceiveFlip, FlipBack
  <2>2. /\ DOMAIN calls' = 1 .. MenuCalls /\ calls'[c] = Silence
        /\ \A b \in 1 .. MenuCalls : b # c => calls'[b] = calls[b]
    BY <1>1, <2>1, CallChanged
  <2>3. CallsWell'
    BY <1>1, <1>4, <2>2, CallsGo
  <2>4. menu' \in Menu /\ \A x \in Dish : menu'[x] # Gone => card'[x] # Unmade
    BY <1>1, <1>2, <1>3, <2>1
  <2>5. ASSUME woe' = {} PROVE MenuFollows'
    <3>1. woe = {} /\ MenuFollows /\ menu' = menu /\ q.at = "answered"
      BY <1>1, <1>5, <2>1, <2>5 DEF MenuFollows
    <3>2. MenuComing => MenuComing'
      <4>1. \A b \in 1 .. MenuCalls : Rung(b, "menu") => Rung(b, "menu")'
        BY <2>1, <2>2 DEF Rung
      <4>2. \A b \in 1 .. MenuCalls : Rung(b, "remove") /\ calls[b].at = "answered"
              => Rung(b, "remove")' /\ calls'[b].at = "answered"
        BY <2>1, <2>2 DEF Rung
      <4>3. save' = save
        BY <1>1 DEF menuForm
      <4> QED BY <4>1, <4>2, <4>3 DEF MenuComing
    <3>3. MenuComing' \/ \A x \in Dish : RowFollows(x)
      BY <3>1, <3>2 DEF MenuFollows
    <3> QED BY <1>1, <2>2, <3>1, <3>3, CallPlaced
  <2> QED BY <1>1, <1>3, <1>4, <2>1, <2>3, <2>4, <2>5, CallStepInv
<1>8. CASE ReceiveRemoved(c)
  <2> DEFINE n == IF q.at = "answered" THEN MenuRequest ELSE Silence
  <2>1. q.what = "remove" /\ calls' = [calls EXCEPT ![c] = n] /\ woe' = woe /\ menu' = menu
    BY <1>8 DEF ReceiveRemoved
  <2>2. /\ MenuRequest \in CallRecord /\ MenuRequest.what = "menu" /\ MenuRequest.at = "sent"
        /\ MenuRequest # Silence /\ MenuRequest.got = Listed(card)
    BY <1>1, ListedIs DEF MenuRequest, CallRecord, Silence
  <2>3. CallNext(MenuRequest)
    BY <1>1, <2>2, ListedIs DEF CallNext, Known
  <2>4. n = Silence \/ (CallNext(n) /\ n.what = "menu" /\ n.at = "sent" /\ n # Silence)
    BY <2>2, <2>3
  <2>5. q.at = "answered" => n.what = "menu" /\ n # Silence
    BY <2>2
  <2> HIDE DEF n
  <2>6. /\ DOMAIN calls' = 1 .. MenuCalls /\ calls'[c] = n
        /\ \A b \in 1 .. MenuCalls : b # c => calls'[b] = calls[b]
    BY <1>1, <2>1, CallChanged
  <2>7. CallsWell'
    BY <1>1, <1>4, <2>4, <2>6, CallsGo
  <2>8. ASSUME woe' = {} PROVE MenuFollows'
    <3>1. woe = {} /\ MenuFollows /\ q.at = "answered"
      BY <1>1, <1>5, <2>1, <2>8 DEF MenuFollows
    <3>2. MenuComing'
      BY <2>5, <2>6, <3>1 DEF MenuComing, Rung
    <3>3. n # Silence => n.at # "failed" /\ n.what # "flip"
      BY <2>4
    <3> QED BY <1>1, <2>1, <2>6, <3>1, <3>2, <3>3, CallPlaced
  <2> QED BY <1>1, <1>3, <1>4, <2>1, <2>7, <2>8, CallStepInv
<1> QED BY <1>6, <1>7, <1>8 DEF ReceiveCall

-----------------------------------------------------------------------------
LEMMA MenuStart ==
  ASSUME MenuInit PROVE MenuInv
<1>1. PICK d \in Dish, g \in Group :
        /\ g.id = 1
        /\ card = [e \in Dish |-> IF e = d THEN [is |-> "on", groups |-> {g}] ELSE Unmade]
  BY DEF MenuInit
<1>2. /\ menu = Listed(card) /\ editing = NoEdit /\ adding = FALSE /\ save = NoSave /\ dropping = {}
      /\ calls = [c \in 1 .. MenuCalls |-> Silence]
      /\ groupsMade = 1 /\ turns = 0 /\ slips = 0 /\ woe = {}
  BY DEF MenuInit
<1>3. \A e \in Dish : card[e] = (IF e = d THEN [is |-> "on", groups |-> {g}] ELSE Unmade)
  BY <1>1
<1>4. card \in [Dish -> Entry \union {Gone, Unmade}]
  BY <1>1 DEF Entry
<1>5. \A e \in Dish : Listed(card)[e] = (IF card[e] = Unmade THEN Gone ELSE card[e])
  BY DEF Listed
<1>6. Listed(card) \in Menu
  <2>1. \A e \in Dish : Listed(card)[e] \in Entry \union {Gone}
    BY <1>4, <1>5
  <2>2. Listed(card) = [e \in Dish |-> Listed(card)[e]]
    BY DEF Listed
  <2> QED BY <2>1, <2>2 DEF Menu
<1>7. \A e \in Dish : \A h \in card[e].groups : h = g
  BY <1>3, RowsAre
<1>8. MenuTypeOK
  <2>1. groupsMade \in 0 .. MaxGroups
    BY <1>1, <1>2, VendorMenuAssumption DEF Group
  <2>2. turns \in 0 .. MaxTurns /\ slips \in 0 .. MaxSlips
    BY <1>2, VendorMenuAssumption
  <2> QED BY <1>2, <1>4, <1>6, <1>7, <2>1, <2>2 DEF MenuTypeOK, NoEdit, NoSave, Woe
<1>9. CallsWell /\ SaveWell
  BY <1>2 DEF CallsWell, SaveWell
<1>10. PageWell
  BY <1>1, <1>2, <1>5, <1>7 DEF PageWell, Known
<1>11. FormKnows /\ SaveKnows
  BY <1>2 DEF FormKnows, SaveKnows, NoSave
<1>12. MenuFollows
  BY <1>2 DEF MenuFollows, RowFollows, Rung, FlipSent
<1> QED BY <1>8, <1>9, <1>10, <1>11, <1>12 DEF MenuInv

LEMMA MenuStep ==
  ASSUME MenuInv, [MenuNext]_menuVars
  PROVE  MenuInv'
<1>1. CASE UNCHANGED menuVars
  <2> USE <1>1 DEF menuVars, menuForm, MenuInv
  <2>1. MenuTypeOK'
    BY DEF MenuTypeOK
  <2>2. CallsWell' /\ SaveWell' /\ PageWell'
    BY DEF CallsWell, CallWell, SaveWell, PageWell, Known
  <2>3. FormKnows => FormKnows'
    BY DEF FormKnows, Has
  <2>4. woe' = {} => FormKnows' /\ SaveKnows' /\ MenuFollows'
    BY <2>3, SaveKnowsRests, FollowsRests
  <2> QED BY <2>1, <2>2, <2>4
<1>2. CASE MenuNext
  BY <1>2, EditInv, FlipDishInv, RemoveInv, ToggleFormInv, SubmitInv, SaveDishInv, DropsDoneInv,
     MakeGroupInv, SaveDoneInv, DropGroupInv, ServeCallInv, LoseCallInv, ReceiveCallInv DEF MenuNext
<1> QED BY <1>1, <1>2

(* The menu's part of VendorPagesSound. *)
MenuSound == MenuTypeOK /\ MenuHonest /\ OneSaveAtATime

LEMMA MenuSays ==
  ASSUME MenuInv PROVE MenuSound
<1>1. OneSaveAtATime
  BY DEF MenuInv, SaveKnows, OneSaveAtATime
<1>2. MenuHonest
  <2> SUFFICES ASSUME MenuQuiet, woe = {} PROVE menu = Listed(card)
    BY DEF MenuHonest
  <2>1. \A c \in 1 .. MenuCalls : calls[c] = Silence
    BY DEF MenuQuiet, SilentCalls
  <2>2. ~MenuComing /\ \A d \in Dish : \A c \in 1 .. MenuCalls : ~FlipSent(c, d)
    BY <2>1 DEF MenuComing, Rung, FlipSent, MenuQuiet
  <2>3. \A d \in Dish : menu[d] = Listed(card)[d]
    BY <2>2 DEF MenuInv, MenuFollows, RowFollows
  <2>4. menu = [d \in Dish |-> menu[d]] /\ Listed(card) = [d \in Dish |-> Listed(card)[d]]
    BY DEF MenuInv, MenuTypeOK, Menu, Listed
  <2> QED BY <2>3, <2>4
<1> QED BY <1>1, <1>2 DEF MenuSound, MenuInv

(* Once nothing is under way the menu on the page is the one sold, and no      *)
(* removal of one save meets another's creations, but for the cases named.       *)
THEOREM MenuStaysSound == MenuSpec => []MenuSound
<1>1. MenuInit => MenuInv
  BY MenuStart
<1>2. MenuInv /\ [MenuNext]_menuVars => MenuInv'
  BY MenuStep
<1>3. MenuInv => MenuSound
  BY MenuSays
<1> QED BY <1>1, <1>2, <1>3, PTL DEF MenuSpec

(* Labels that tell groups apart count them. *)
LEMMA LabelsCount ==
  ASSUME MenuTypeOK, NEW d \in Dish, \A g, h \in card[d].groups : g.lab = h.lab => g = h
  PROVE  Cardinality({g.lab : g \in card[d].groups}) = Cardinality(card[d].groups)
<1> DEFINE S == card[d].groups
           L == {g.lab : g \in S}
           f == [g \in S |-> g.id]
           k == [g \in S |-> g.lab]
<1>1. S \subseteq Group /\ \A g, h \in S : g.id = h.id => g = h
  BY DishCardIs DEF MenuTypeOK
<1>2. f \in Injection(S, 1 .. MaxGroups)
  BY <1>1 DEF Injection, IsInjective, Group
<1>3. IsFiniteSet(1 .. MaxGroups)
  BY VendorMenuAssumption, FS_Interval
<1> HIDE DEF S
<1>4. IsFiniteSet(S)
  <2> HIDE DEF f
  <2> QED BY <1>2, <1>3, FS_Injection
<1>5. k \in Bijection(S, L)
  <2>1. k \in [S -> L] /\ \A g, h \in S : k[g] = k[h] => g = h
    BY DEF S
  <2>2. \A l \in L : \E g \in S : k[g] = l
    OBVIOUS
  <2> QED BY <2>1, <2>2 DEF Bijection, Injection, IsInjective, Surjection
<1>6. ExistsBijection(S, L)
  BY <1>5 DEF ExistsBijection
<1> HIDE DEF L, k
<1>7. Cardinality(L) = Cardinality(S)
  BY <1>4, <1>6, FS_Bijection
<1> QED BY <1>7 DEF L, S

(* The step that ends a save. *)
LEMMA SaveEndsAsMeant ==
  ASSUME MenuInv, [MenuNext]_menuVars
  PROVE  /\ SaveEnds(TRUE) /\ woe = {} /\ card[save.dish] # Gone =>
              /\ {g.lab : g \in card[save.dish].groups} = save.want
              /\ Cardinality(card[save.dish].groups) = Cardinality(save.want)
         /\ SaveEnds(FALSE) => woe' # {}
<1>1. ASSUME SaveEnds(TRUE), woe = {}, card[save.dish] # Gone
      PROVE  /\ {g.lab : g \in card[save.dish].groups} = save.want
             /\ Cardinality(card[save.dish].groups) = Cardinality(save.want)
  <2>1. /\ save.at = "make" /\ save.todo = {} /\ MenuTypeOK /\ SaveWell /\ SaveKnows
    BY <1>1 DEF SaveEnds, MenuInv
  <2>2. /\ {g.lab : g \in card[save.dish].groups} = save.want
        /\ \A g, h \in card[save.dish].groups : g.lab = h.lab => g = h
    BY <1>1, <2>1 DEF SaveKnows
  <2>3. save.dish \in Dish
    BY <2>1, SaveIs
  <2> DEFINE d == save.dish
  <2>4. Cardinality({g.lab : g \in card[d].groups}) = Cardinality(card[d].groups)
    BY <2>1, <2>2, <2>3, LabelsCount
  <2> QED BY <2>2, <2>4
<1>2. ASSUME SaveEnds(FALSE) PROVE woe' # {}
  <2>1. save # NoSave /\ save' = NoSave /\ ~(save.at = "make" /\ save.todo = {})
    BY <1>2 DEF SaveEnds
  <2>2. SaveDish \/ DropsDone \/ MakeGroup \/ \E r \in dropping : DropGroup(r)
    BY <2>1 DEF MenuNext, menuVars, menuForm, Edit, FlipDish, Remove, ToggleForm, Submit, MaySubmit,
       SaveDone, ServeCall, LoseCall, ReceiveCall
  <2> QED BY <2>1, <2>2, SaveDishInv, DropsDoneInv, MakeGroupInv, DropGroupInv
<1> QED BY <1>1, <1>2

(* However many groups a dish had and gets, a save that ends well leaves it    *)
(* those of the form, each once, and one that ends badly has lost something or   *)
(* worked on an old row.                                                          *)
THEOREM SavesEndAsMeant == MenuSpec => GroupsAsMeant
<1>1. MenuInit => MenuInv
  BY MenuStart
<1>2. MenuInv /\ [MenuNext]_menuVars => MenuInv'
  BY MenuStep
<1>3. MenuInv /\ [MenuNext]_menuVars =>
        [/\ SaveEnds(TRUE) /\ woe = {} /\ card[save.dish] # Gone =>
              /\ {g.lab : g \in card[save.dish].groups} = save.want
              /\ Cardinality(card[save.dish].groups) = Cardinality(save.want)
         /\ SaveEnds(FALSE) => woe' # {}]_menuVars
  BY SaveEndsAsMeant
<1> QED BY <1>1, <1>2, <1>3, PTL DEF MenuSpec, GroupsAsMeant

(* The vendor's dashboard and the menu on it, which work apart: every panel is   *)
(* the chosen restaurant's and what is saved from it goes there, and the menu     *)
(* shown is the one sold, but for the cases named.                                 *)
THEOREM VendorPagesStaySound == VendorSpec /\ MenuSpec => []VendorPagesSound
BY VendorDeskStaysSound, MenuStaysSound, PTL
   DEF VendorPagesSound, VendorDeskSound, MenuSound

=============================================================================
