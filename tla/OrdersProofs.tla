---------------------------- MODULE OrdersProofs ----------------------------
(***************************************************************************)
(* Proofs about the order service, for any orders, slots and bounds, and   *)
(* about the live views of its orders, for any requests and pages.         *)
(***************************************************************************)
EXTENDS TrackingProps, OrdersProps, SequenceTheorems, TLAPS

LEMMA CommandShape ==
  ASSUME NEW c \in Command
  PROVE  /\ c.target \in Status
         /\ c.op = "complete" => c.target = "COMPLETED"
         /\ c.op \in {"cancel", "force_cancel"} => c.target = "CANCELLED"
  BY DEF Command, Status

LEMMA InFlightWhen ==
  ASSUME TypeOK, NEW r \in Request, req[r] # Idle
  PROVE  /\ req[r] \in InFlight
         /\ req[r].order \in Order
         /\ req[r].cmd \in Command
         /\ req[r].cmd.target \in Status
         /\ req[r].seen \in Status
         /\ req[r].at \in Nat
  BY CommandShape DEF TypeOK, InFlight

LEMMA StageNotIdle ==
  ASSUME NEW r \in Request, req[r].stage \in Stage
  PROVE  req[r] # Idle
  BY DEF Idle, Stage

LEMMA EmptyLog == DOMAIN << >> = {}
  OBVIOUS

LEMMA AppendFacts ==
  ASSUME NEW S, NEW s \in Seq(S), NEW e \in S
  PROVE  /\ Len(s) \in Nat
         /\ DOMAIN s = 1..Len(s)
         /\ Len(Append(s, e)) = Len(s) + 1
         /\ DOMAIN Append(s, e) = 1..(Len(s) + 1)
         /\ \A i \in 1..Len(s) : Append(s, e)[i] = s[i]
         /\ Append(s, e)[Len(s) + 1] = e
  OBVIOUS

(* TypeOK is inductive on its own.                                         *)
LEMMA TypeInit == Init => TypeOK
  BY DEF Init, TypeOK, Status, Idle

LEMMA TypeStep == TypeOK /\ [Next]_vars => TypeOK'
<1> SUFFICES ASSUME TypeOK, [Next]_vars
             PROVE  TypeOK'
  OBVIOUS
<1>1. ASSUME NEW r \in Request, Begin(r)
      PROVE  TypeOK'
  <2>1. PICK o \in Order, c \in Command :
          req' = [req EXCEPT ![r] = [stage |-> "load", order |-> o, cmd |-> c,
                                     seen |-> "PENDING", at |-> Now]]
    BY <1>1 DEF Begin
  <2>2. req' \in [Request -> InFlight \cup {Idle}]
    BY <2>1 DEF TypeOK, InFlight, Stage, Status, Now
  <2> QED BY <1>1, <2>2 DEF Begin, TypeOK
<1>2. ASSUME NEW r \in Request, Load(r)
      PROVE  TypeOK'
  <2>1. req[r] \in InFlight
    BY <1>2, StageNotIdle, InFlightWhen DEF Load, Stage
  <2>2. status[req[r].order] \in Status
    BY <2>1 DEF TypeOK, InFlight
  <2> DEFINE q == [req[r] EXCEPT !.stage = "flush", !.seen = status[req[r].order]]
  <2>3. q \in InFlight
    BY <2>1, <2>2 DEF InFlight, Stage
  <2>4. req' = [req EXCEPT ![r] = q] \/ req' = [req EXCEPT ![r] = Idle]
    BY <1>2 DEF Load, Finish
  <2>5. req' \in [Request -> InFlight \cup {Idle}]
    BY <2>3, <2>4 DEF TypeOK
  <2> QED BY <1>2, <2>5 DEF Load, TypeOK
<1>3. ASSUME NEW r \in Request, Flush(r)
      PROVE  TypeOK'
  <2>1. req[r] \in InFlight
    BY <1>3, StageNotIdle, InFlightWhen DEF Flush, Stage
  <2>2. req' \in [Request -> InFlight \cup {Idle}]
    BY <1>3, <2>1 DEF Flush, TypeOK, InFlight, Stage, Goto
  <2> QED BY <1>3, <2>2 DEF Flush, TypeOK
<1>4. ASSUME NEW r \in Request, Commit(r)
      PROVE  TypeOK'
  <2>1. req[r] \in InFlight /\ req[r].order \in Order
    BY <1>4, StageNotIdle, InFlightWhen DEF Commit, Stage
  <2>2. NewEvent(r) \in Event
    BY <1>4, StageNotIdle, InFlightWhen DEF Commit, Stage, NewEvent, Event
  <2>3. req' \in [Request -> InFlight \cup {Idle}]
    BY <1>4, <2>1 DEF Commit, TypeOK, InFlight, Stage, Goto
  <2>4. status' \in [Order -> Status] /\ ready_at' \in [Order -> BOOLEAN]
    BY <1>4, <2>1, <2>2 DEF Commit, TypeOK, UpdateStatus, StampReady, Event
  <2>5. events' \in [Order -> Seq(Event)] /\ outbox' \in [Order -> Seq(Event)]
    BY <1>4, <2>1, <2>2 DEF Commit, TypeOK, EnqueueEvent
  <2> QED BY <1>4, <2>3, <2>4, <2>5 DEF Commit, TypeOK
<1>5. ASSUME NEW r \in Request, PublishStatus(r)
      PROVE  TypeOK'
  <2>1. req[r] \in InFlight
    BY <1>5, StageNotIdle, InFlightWhen DEF PublishStatus, Stage
  <2>2. req' \in [Request -> InFlight \cup {Idle}]
    BY <1>5, <2>1 DEF PublishStatus, TypeOK, InFlight, Stage, Goto
  <2> QED BY <1>5, <2>2 DEF PublishStatus, TypeOK
<1>6. ASSUME NEW r \in Request, PublishBoard(r)
      PROVE  TypeOK'
  BY <1>6 DEF PublishBoard, TypeOK, Finish
<1>7. ASSUME NEW r \in Request, Abort(r)
      PROVE  TypeOK'
  BY <1>7 DEF Abort, TypeOK, Finish, Release
<1>8. CASE UNCHANGED vars
  BY <1>8 DEF vars, TypeOK
<1> QED BY <1>1, <1>2, <1>3, <1>4, <1>5, <1>6, <1>7, <1>8 DEF Next, Step

(* Every variable keeps its type in every behaviour of the service.        *)
THEOREM OrdersTypeCorrect == Spec => []TypeOK
  BY TypeInit, TypeStep, PTL DEF Spec

-----------------------------------------------------------------------------
(* How a step treats the database: only Commit changes it.                 *)
Data == <<status, ready_at, events, outbox>>

Committed(r) ==
  /\ req[r] \in InFlight
  /\ req[r].stage = "commit"
  /\ NewEvent(r) \in Event
  /\ UpdateStatus(req[r].order, NewEvent(r))
  /\ StampReady(req[r].order, NewEvent(r))
  /\ events' = [events EXCEPT ![req[r].order] = Append(@, NewEvent(r))]
  /\ EnqueueEvent(req[r].order, NewEvent(r))

LEMMA DataSteps ==
  ASSUME TypeOK, [Next]_vars
  PROVE  UNCHANGED Data \/ \E r \in Request : Commit(r) /\ Committed(r)
<1>1. ASSUME NEW r \in Request, Commit(r)
      PROVE  Committed(r)
  BY <1>1, StageNotIdle, InFlightWhen DEF Commit, Committed, Stage, NewEvent, Event
<1>2. ASSUME NEW r \in Request,
             Begin(r) \/ Load(r) \/ Flush(r) \/ PublishStatus(r) \/ PublishBoard(r) \/ Abort(r)
      PROVE  UNCHANGED Data
  BY <1>2 DEF Data, Begin, Load, Flush, PublishStatus, PublishBoard, Abort
<1>3. CASE UNCHANGED vars
  BY <1>3 DEF Data, vars
<1> QED BY <1>1, <1>2, <1>3 DEF Next, Step

(* Transactional outbox: a change is logged iff its notification is queued.*)
THEOREM OrdersOutbox == Spec => []OutboxMatchesLog
<1>1. Init => OutboxMatchesLog
  BY DEF Init, OutboxMatchesLog
<1>2. TypeOK /\ OutboxMatchesLog /\ [Next]_vars => OutboxMatchesLog'
  BY DataSteps DEF OutboxMatchesLog, Data, Committed, EnqueueEvent
<1> QED BY <1>1, <1>2, OrdersTypeCorrect, PTL DEF Spec

(* ready_at is stamped on exactly the orders that were READY.              *)
THEOREM OrdersReadyStamped == Spec => []ReadyStamped
<1>1. Init => ReadyStamped
  BY EmptyLog DEF Init, ReadyStamped
<1>2. TypeOK /\ ReadyStamped /\ [Next]_vars => ReadyStamped'
  <2> SUFFICES ASSUME TypeOK, ReadyStamped, [Next]_vars, NEW o \in Order
               PROVE  ready_at'[o] <=> \E i \in DOMAIN events'[o] : events'[o][i].new = "READY"
    BY DEF ReadyStamped
  <2>1. CASE UNCHANGED Data
    BY <2>1 DEF Data, ReadyStamped
  <2>2. ASSUME NEW r \in Request, Committed(r)
        PROVE  ready_at'[o] <=> \E i \in DOMAIN events'[o] : events'[o][i].new = "READY"
    <3> DEFINE e == NewEvent(r)
    <3>1. events[o] \in Seq(Event) /\ e \in Event /\ ready_at[o] \in BOOLEAN
      BY <2>2 DEF Committed, TypeOK
    <3>2. CASE o = req[r].order
      <4>1. events'[o] = Append(events[o], e)
        BY <2>2, <3>2 DEF Committed, TypeOK
      <4>2. ready_at'[o] <=> (ready_at[o] \/ e.new = "READY")
        BY <2>2, <3>2 DEF Committed, TypeOK, StampReady
      <4>3. (\E i \in DOMAIN events'[o] : events'[o][i].new = "READY")
              <=> ((\E i \in DOMAIN events[o] : events[o][i].new = "READY") \/ e.new = "READY")
        <5> HIDE DEF e
        <5> QED BY <3>1, <4>1, AppendFacts
      <4> QED BY <4>2, <4>3 DEF ReadyStamped
    <3>3. CASE o # req[r].order
      <4>1. events'[o] = events[o] /\ ready_at'[o] = ready_at[o]
        BY <2>2, <3>3 DEF Committed, TypeOK, StampReady
      <4> QED BY <4>1 DEF ReadyStamped
    <3> QED BY <3>2, <3>3
  <2> QED BY <2>1, <2>2, DataSteps
<1> QED BY <1>1, <1>2, OrdersTypeCorrect, PTL DEF Spec

-----------------------------------------------------------------------------
(* The inductive invariant behind CompletedThroughReady.  A request in     *)
(* flight may hold a stale status, but one the order's log has reached;    *)
(* every logged change starts in a status reached before it and is one     *)
(* the checks permit.                                                      *)
Reached(o, s) == s = "PENDING" \/ \E i \in DOMAIN events[o] : events[o][i].new = s

StatusReached == \A o \in Order : Reached(o, status[o])

SeenReached == \A r \in Request : req[r] # Idle => Reached(req[r].order, req[r].seen)

Checked ==
  \A r \in Request :
    req[r].stage \in {"flush", "commit"} => Permitted(req[r].seen, req[r].cmd)

Explained ==
  \A o \in Order : \A i \in DOMAIN events[o] :
    /\ events[o][i].new = "COMPLETED" => events[o][i].old = "READY"
    /\ events[o][i].new = "READY" => events[o][i].old = "ACCEPTED"
    /\ \/ events[o][i].old = "PENDING"
       \/ \E j \in 1..(i - 1) : events[o][j].new = events[o][i].old

LogInv == StatusReached /\ SeenReached /\ Checked /\ Explained

LEMMA PermittedMoves ==
  ASSUME NEW old \in Status, NEW c \in Command, Permitted(old, c)
  PROVE  /\ c.target = "COMPLETED" => old = "READY"
         /\ c.target = "READY" => old = "ACCEPTED"
<1>1. ALLOWED_TRANSITIONS[old] =
        CASE old = "PENDING" -> {"ACCEPTED"} [] old = "ACCEPTED" -> {"READY"}
          [] old = "READY" -> {"COMPLETED"} [] OTHER -> {}
  BY DEF ALLOWED_TRANSITIONS
<1> QED BY <1>1, CommandShape DEF Permitted, ChangeAllowed, Status

LEMMA LogInvInit == Init => LogInv
<1> SUFFICES ASSUME Init PROVE LogInv
  OBVIOUS
<1>1. StatusReached
  BY DEF Init, StatusReached, Reached
<1>2. SeenReached /\ Checked
  BY DEF Init, SeenReached, Checked, Idle
<1>3. Explained
  BY EmptyLog DEF Init, Explained
<1> QED BY <1>1, <1>2, <1>3 DEF LogInv

(* What an order reached it has reached for good.                          *)
LEMMA ReachedStable ==
  ASSUME TypeOK, [Next]_vars, NEW o \in Order, NEW s, Reached(o, s)
  PROVE  Reached(o, s)'
<1>1. CASE UNCHANGED Data
  BY <1>1 DEF Data, Reached
<1>2. ASSUME NEW r \in Request, Committed(r)
      PROVE  Reached(o, s)'
  <2>1. CASE o = req[r].order
    <3>1. events'[o] = Append(events[o], NewEvent(r)) /\ events[o] \in Seq(Event)
      BY <1>2, <2>1 DEF Committed, TypeOK
    <3>2. NewEvent(r) \in Event
      BY <1>2 DEF Committed
    <3> QED BY <3>1, <3>2, AppendFacts DEF Reached
  <2>2. CASE o # req[r].order
    BY <1>2, <2>2 DEF Committed, TypeOK, Reached
  <2> QED BY <2>1, <2>2
<1> QED BY <1>1, <1>2, DataSteps

LEMMA LogInvStep == TypeOK /\ LogInv /\ [Next]_vars => LogInv'
<1> SUFFICES ASSUME TypeOK, LogInv, [Next]_vars
             PROVE  LogInv'
  OBVIOUS
<1>1. StatusReached'
  <2> SUFFICES ASSUME NEW o \in Order
               PROVE  Reached(o, status[o])'
    BY DEF StatusReached
  <2>1. CASE status'[o] = status[o]
    BY <2>1, ReachedStable DEF LogInv, StatusReached, Reached
  <2>2. ASSUME NEW r \in Request, Committed(r), status'[o] # status[o]
        PROVE  Reached(o, status[o])'
    <3>1. o = req[r].order /\ status'[o] = NewEvent(r).new
      BY <2>2 DEF Committed, UpdateStatus, TypeOK
    <3>2. events'[o] = Append(events[o], NewEvent(r)) /\ events[o] \in Seq(Event)
          /\ NewEvent(r) \in Event
      BY <2>2, <3>1 DEF Committed, TypeOK
    <3> QED BY <3>1, <3>2, AppendFacts DEF Reached
  <2> QED BY <2>1, <2>2, DataSteps DEF Data
<1>2. SeenReached' /\ Checked'
  <2> SUFFICES ASSUME NEW r \in Request
               PROVE  /\ (req[r] # Idle => Reached(req[r].order, req[r].seen))'
                      /\ (req[r].stage \in {"flush", "commit"}
                            => Permitted(req[r].seen, req[r].cmd))'
    BY DEF SeenReached, Checked
  <2>1. CASE req'[r] = req[r]
    <3>1. ASSUME req[r] # Idle
          PROVE  Reached(req[r].order, req[r].seen)'
      <4>1. Reached(req[r].order, req[r].seen) /\ req[r].order \in Order
        BY <3>1, InFlightWhen DEF LogInv, SeenReached
      <4>2. \A o \in Order : \A s : Reached(o, s) => Reached(o, s)'
        BY ReachedStable
      <4> QED BY <2>1, <4>1, <4>2 DEF Reached
    <3> QED BY <2>1, <3>1 DEF LogInv, Checked, Permitted, ChangeAllowed
  <2>2. CASE Begin(r)
    BY <2>2 DEF Begin, TypeOK, Reached
  <2>3. CASE Load(r)
    <3>1. req[r] \in InFlight /\ req[r].order \in Order /\ UNCHANGED events
      BY <2>3, StageNotIdle, InFlightWhen DEF Load, Stage
    <3> DEFINE seen == status[req[r].order]
    <3>2. CASE req'[r] = Idle
      BY <3>2 DEF Idle
    <3>3. CASE /\ Permitted(seen, req[r].cmd)
               /\ req' = [req EXCEPT ![r] = [@ EXCEPT !.stage = "flush", !.seen = seen]]
      <4>1. /\ req'[r].order = req[r].order
            /\ req'[r].cmd = req[r].cmd
            /\ req'[r].seen = seen
        BY <3>1, <3>3 DEF TypeOK, InFlight
      <4>2. Reached(req[r].order, seen)
        BY <3>1 DEF LogInv, StatusReached
      <4> QED BY <3>1, <3>3, <4>1, <4>2 DEF Reached, Permitted, ChangeAllowed
    <3> QED BY <2>3, <3>2, <3>3 DEF Load, Finish, TypeOK
  <2>4. CASE Flush(r) \/ Commit(r) \/ PublishStatus(r) \/ PublishBoard(r) \/ Abort(r)
    <3>1. CASE req'[r] = Idle
      BY <3>1 DEF Idle
    <3>2. ASSUME NEW s \in Stage, req' = [req EXCEPT ![r].stage = s], req[r] # Idle,
                 s \in {"flush", "commit"} => req[r].stage = "flush"
          PROVE  /\ (req[r] # Idle => Reached(req[r].order, req[r].seen))'
                 /\ (req[r].stage \in {"flush", "commit"}
                       => Permitted(req[r].seen, req[r].cmd))'
      <4>1. req[r] \in InFlight /\ req[r].order \in Order
        BY <3>2, InFlightWhen
      <4>2. /\ req'[r].order = req[r].order
            /\ req'[r].cmd = req[r].cmd
            /\ req'[r].seen = req[r].seen
            /\ req'[r].stage = s
        BY <3>2, <4>1 DEF TypeOK, InFlight
      <4>3. Reached(req[r].order, req[r].seen)
        BY <3>2 DEF LogInv, SeenReached
      <4>4. \A o \in Order : \A t : Reached(o, t) => Reached(o, t)'
        BY ReachedStable
      <4>5. Reached(req[r].order, req[r].seen)'
        BY <4>1, <4>2, <4>3, <4>4 DEF Reached
      <4>6. s \in {"flush", "commit"} => Permitted(req[r].seen, req[r].cmd)
        BY <3>2 DEF LogInv, Checked
      <4> QED BY <4>2, <4>5, <4>6 DEF Permitted, ChangeAllowed
    <3>3. CASE Flush(r)
      BY <3>2, <3>3, StageNotIdle DEF Flush, Goto, Stage
    <3>4. CASE Commit(r)
      BY <3>2, <3>4, StageNotIdle DEF Commit, Goto, Stage
    <3>5. CASE PublishStatus(r)
      BY <3>2, <3>5, StageNotIdle DEF PublishStatus, Goto, Stage
    <3>6. CASE PublishBoard(r) \/ Abort(r)
      BY <3>1, <3>6 DEF PublishBoard, Abort, Finish, TypeOK
    <3> QED BY <2>4, <3>3, <3>4, <3>5, <3>6
  <2>5. req'[r] = req[r] \/ Begin(r) \/ Load(r) \/ Flush(r) \/ Commit(r)
          \/ PublishStatus(r) \/ PublishBoard(r) \/ Abort(r)
    <3>1. ASSUME NEW q \in Request, q # r, Begin(q) \/ Step(q) \/ Abort(q)
          PROVE  req'[r] = req[r]
      BY <3>1 DEF Begin, Step, Load, Flush, Commit, PublishStatus, PublishBoard, Abort,
                  Goto, Finish, TypeOK
    <3> QED BY <3>1 DEF Next, Step, vars
  <2> QED BY <2>1, <2>2, <2>3, <2>4, <2>5
<1>3. Explained'
  <2> SUFFICES ASSUME NEW o \in Order, NEW i \in DOMAIN events'[o]
               PROVE  /\ events'[o][i].new = "COMPLETED" => events'[o][i].old = "READY"
                      /\ events'[o][i].new = "READY" => events'[o][i].old = "ACCEPTED"
                      /\ \/ events'[o][i].old = "PENDING"
                         \/ \E j \in 1..(i - 1) : events'[o][j].new = events'[o][i].old
    BY DEF Explained
  <2>1. CASE events'[o] = events[o]
    BY <2>1 DEF LogInv, Explained
  <2>2. ASSUME NEW r \in Request, Commit(r), Committed(r), o = req[r].order
        PROVE  /\ events'[o][i].new = "COMPLETED" => events'[o][i].old = "READY"
               /\ events'[o][i].new = "READY" => events'[o][i].old = "ACCEPTED"
               /\ \/ events'[o][i].old = "PENDING"
                  \/ \E j \in 1..(i - 1) : events'[o][j].new = events'[o][i].old
    <3> DEFINE e == NewEvent(r)
    <3>1. events'[o] = Append(events[o], e) /\ events[o] \in Seq(Event) /\ e \in Event
      BY <2>2 DEF Committed, TypeOK
    <3>2. req[r].seen \in Status /\ req[r].cmd \in Command /\ req[r] # Idle
      BY <2>2, StageNotIdle, InFlightWhen DEF Committed, Stage
    <3>3. Permitted(req[r].seen, req[r].cmd)
      BY <2>2 DEF Committed, LogInv, Checked
    <3>4. e.old = req[r].seen /\ e.new = req[r].cmd.target
      BY DEF NewEvent
    <3>5. (e.new = "COMPLETED" => e.old = "READY") /\ (e.new = "READY" => e.old = "ACCEPTED")
      BY <3>2, <3>3, <3>4, PermittedMoves
    <3>6. Reached(o, e.old)
      BY <2>2, <3>2, <3>4 DEF LogInv, SeenReached
    <3> HIDE DEF e
    <3>7. CASE i \in 1..Len(events[o])
      <4>1. events'[o][i] = events[o][i] /\ i \in DOMAIN events[o]
        BY <3>1, <3>7, AppendFacts
      <4>2. \A j \in 1..(i - 1) : events'[o][j] = events[o][j]
        BY <3>1, <3>7, AppendFacts
      <4> QED BY <4>1, <4>2 DEF LogInv, Explained
    <3>8. CASE i = Len(events[o]) + 1
      <4>1. events'[o][i] = e
        BY <3>1, <3>8, AppendFacts
      <4>2. \A j \in DOMAIN events[o] : j \in 1..(i - 1) /\ events'[o][j] = events[o][j]
        BY <3>1, <3>8, AppendFacts
      <4> QED BY <3>5, <3>6, <4>1, <4>2 DEF Reached
    <3> QED BY <3>1, <3>7, <3>8, AppendFacts
  <2>3. ASSUME NEW r \in Request, Committed(r), o # req[r].order
        PROVE  events'[o] = events[o]
    BY <2>3 DEF Committed, TypeOK
  <2> QED BY <2>1, <2>2, <2>3, DataSteps DEF Data
<1> QED BY <1>1, <1>2, <1>3 DEF LogInv

(* Nobody skips the kitchen: an order logged COMPLETED was READY before,   *)
(* and ACCEPTED before that, whatever stale statuses requests acted on.    *)
THEOREM OrdersCompletedThroughReady == Spec => []CompletedThroughReady
<1>1. TypeOK /\ LogInv => CompletedThroughReady
  <2> SUFFICES ASSUME TypeOK, LogInv, NEW o \in Order, NEW k \in DOMAIN events[o],
                      events[o][k].new = "COMPLETED"
               PROVE  \E j \in 1..(k - 1) :
                        /\ events[o][j].new = "READY"
                        /\ \E i \in 1..(j - 1) : events[o][i].new = "ACCEPTED"
    BY DEF CompletedThroughReady
  <2>1. DOMAIN events[o] = 1..Len(events[o]) /\ Len(events[o]) \in Nat
    BY DEF TypeOK
  <2>2. PICK j \in 1..(k - 1) : events[o][j].new = "READY"
    BY DEF LogInv, Explained
  <2>3. j \in DOMAIN events[o]
    BY <2>1
  <2>4. \E i \in 1..(j - 1) : events[o][i].new = "ACCEPTED"
    BY <2>2, <2>3 DEF LogInv, Explained
  <2> QED BY <2>2, <2>4
<1> QED BY <1>1, LogInvInit, LogInvStep, OrdersTypeCorrect, PTL DEF Spec

-----------------------------------------------------------------------------
(* The row and its log: the status is what the last effective change set,   *)
(* for the UPDATE leaves the column out exactly when the change is none.     *)
THEOREM OrdersStatusIsLastEffective == Spec => []StatusIsLastEffectiveEvent
<1>1. Init => StatusIsLastEffectiveEvent
  BY EmptyLog DEF Init, StatusIsLastEffectiveEvent
<1>2. TypeOK /\ StatusIsLastEffectiveEvent /\ [Next]_vars => StatusIsLastEffectiveEvent'
  <2> DEFINE Explains(s, log) ==
        \/ s = "PENDING" /\ \A i \in DOMAIN log : ~Effective(log[i])
        \/ \E i \in DOMAIN log : /\ Effective(log[i])
                               /\ s = log[i].new
                               /\ \A j \in (i + 1)..Len(log) : ~Effective(log[j])
  <2>1. StatusIsLastEffectiveEvent <=> \A o \in Order : Explains(status[o], events[o])
    BY DEF StatusIsLastEffectiveEvent
  <2>2. StatusIsLastEffectiveEvent' <=> \A o \in Order : Explains(status'[o], events'[o])
    BY DEF StatusIsLastEffectiveEvent, Effective
  <2> SUFFICES ASSUME TypeOK, [Next]_vars, NEW o \in Order, Explains(status[o], events[o])
               PROVE  Explains(status'[o], events'[o])
    BY <2>1, <2>2
  <2>3. CASE UNCHANGED Data
    BY <2>3 DEF Data
  <2>4. ASSUME NEW r \in Request, Committed(r)
        PROVE  Explains(status'[o], events'[o])
    <3>1. CASE o # req[r].order
      BY <2>4, <3>1 DEF Committed, TypeOK, UpdateStatus
    <3>2. CASE o = req[r].order
      <4> DEFINE e == NewEvent(r)
      <4>1. events[o] \in Seq(Event) /\ e \in Event /\ events'[o] = Append(events[o], e)
        BY <2>4, <3>2 DEF Committed, TypeOK
      <4>2. status'[o] = IF e.new # e.old THEN e.new ELSE status[o]
        BY <2>4, <3>2 DEF Committed, TypeOK, UpdateStatus
      <4> HIDE DEF e
      <4>3. CASE Effective(e)
        <5>1. events'[o][Len(events[o]) + 1] = e
          BY <4>1, AppendFacts
        <5>2. Len(events[o]) + 1 \in DOMAIN events'[o]
          BY <4>1, AppendFacts
        <5>3. Len(events'[o]) = Len(events[o]) + 1 /\ Len(events[o]) \in Nat
          BY <4>1, AppendFacts
        <5> QED BY <4>2, <4>3, <5>1, <5>2, <5>3 DEF Effective
      <4>4. CASE ~Effective(e)
        <5>1. /\ Len(events[o]) \in Nat
              /\ DOMAIN events[o] = 1..Len(events[o])
              /\ DOMAIN events'[o] = 1..(Len(events[o]) + 1)
              /\ Len(events'[o]) = Len(events[o]) + 1
              /\ \A i \in 1..Len(events[o]) : events'[o][i] = events[o][i]
              /\ events'[o][Len(events[o]) + 1] = e
          BY <4>1, AppendFacts
        <5>2. status'[o] = status[o]
          BY <4>2, <4>4 DEF Effective
        <5>3. \A i \in 1..(Len(events[o]) + 1) : i \in 1..Len(events[o]) \/ i = Len(events[o]) + 1
          BY <5>1
        <5>4. CASE \E i \in DOMAIN events[o] :
                     /\ Effective(events[o][i])
                     /\ status[o] = events[o][i].new
                     /\ \A j \in (i + 1)..Len(events[o]) : ~Effective(events[o][j])
          <6>1. PICK i \in 1..Len(events[o]) :
                  /\ Effective(events[o][i])
                  /\ status[o] = events[o][i].new
                  /\ \A j \in (i + 1)..Len(events[o]) : ~Effective(events[o][j])
            BY <5>1, <5>4
          <6>2. \A j \in (i + 1)..(Len(events[o]) + 1) : ~Effective(events'[o][j])
            BY <4>4, <5>1, <5>3, <6>1
          <6>3. /\ i \in DOMAIN events'[o]
                /\ Effective(events'[o][i]) /\ status'[o] = events'[o][i].new
            BY <5>1, <5>2, <6>1
          <6>4. \A j \in (i + 1)..Len(events'[o]) : ~Effective(events'[o][j])
            BY <5>1, <6>2
          <6> QED BY <6>3, <6>4
        <5>5. CASE status[o] = "PENDING" /\ \A i \in DOMAIN events[o] : ~Effective(events[o][i])
          BY <4>4, <5>1, <5>2, <5>3, <5>5
        <5> QED BY <5>4, <5>5
      <4> QED BY <4>3, <4>4
    <3> QED BY <3>1, <3>2
  <2> QED BY <2>3, <2>4, DataSteps
<1> QED BY <1>1, <1>2, OrdersTypeCorrect, PTL DEF Spec

-----------------------------------------------------------------------------
(* One request at a time on an order: then a status that was read stays what *)
(* it was until it is overwritten, and a change is stamped later than all     *)
(* that its order has logged.                                                  *)
Serial ==
  \A r, q \in Request :
    req[r] # Idle /\ req[q] # Idle /\ req[r].order = req[q].order => r = q

SeenIsCurrent ==
  \A r \in Request :
    req[r].stage \in {"flush", "commit"} => req[r].seen = status[req[r].order]

StampsPast ==
  /\ \A o \in Order : \A i \in DOMAIN events[o] : events[o][i].at <= begun
  /\ \A r \in Request : req[r] # Idle => req[r].at <= begun

StampsLater ==
  \A r \in Request : req[r].stage \in {"load", "flush", "commit"} =>
    \A i \in DOMAIN events[req[r].order] : events[req[r].order][i].at < req[r].at

SerialInv == Serial /\ SeenIsCurrent /\ StampsPast /\ StampsLater

LEMMA SerialInvInit == Init => SerialInv
<1> SUFFICES ASSUME Init PROVE SerialInv
  OBVIOUS
<1>1. Serial /\ SeenIsCurrent /\ StampsLater
  BY DEF Init, Serial, SeenIsCurrent, StampsLater, Idle
<1>2. StampsPast
  BY EmptyLog DEF Init, StampsPast, Idle
<1> QED BY <1>1, <1>2 DEF SerialInv

(* What a step makes of the request in a slot: it starts one, takes it to     *)
(* its next stage, or ends it.                                                 *)
LEMMA RequestSteps ==
  ASSUME TypeOK, [Next]_vars, NEW r \in Request, req'[r] # Idle, req'[r] # req[r]
  PROVE  \/ Begin(r)
         \/ /\ req[r] # Idle
            /\ UNCHANGED begun
            /\ req'[r].order = req[r].order /\ req'[r].cmd = req[r].cmd /\ req'[r].at = req[r].at
            /\ \/ /\ req[r].stage = "load" /\ req'[r].stage = "flush"
                  /\ req'[r].seen = status[req[r].order]
                  /\ UNCHANGED Data
               \/ /\ req[r].stage = "flush" /\ req'[r].stage = "commit"
                  /\ req'[r].seen = req[r].seen
                  /\ UNCHANGED Data
               \/ /\ req[r].stage \in {"commit", "publish_status"}
                  /\ req'[r].stage \in {"publish_status", "publish_board"}
<1>1. PICK q \in Request : Begin(q) \/ Step(q) \/ Abort(q)
  BY DEF Next, vars
<1>2. q = r
  BY <1>1 DEF Begin, Step, Load, Flush, Commit, PublishStatus, PublishBoard, Abort,
              Goto, Finish, TypeOK
<1>3. CASE Load(r)
  <2>1. req[r] \in InFlight /\ req[r] # Idle
    BY <1>3, StageNotIdle, InFlightWhen DEF Load, Stage
  <2>2. req' = [req EXCEPT ![r] = [req[r] EXCEPT !.stage = "flush",
                                                !.seen = status[req[r].order]]]
    BY <1>3 DEF Load, Finish, TypeOK
  <2>3. req[r].stage = "load" /\ UNCHANGED begun /\ UNCHANGED Data
    BY <1>3 DEF Load, Data
  <2> QED BY <2>1, <2>2, <2>3 DEF TypeOK, InFlight
<1>4. CASE Flush(r)
  <2>1. req[r] \in InFlight /\ req[r] # Idle
    BY <1>4, StageNotIdle, InFlightWhen DEF Flush, Stage
  <2> QED BY <1>4, <2>1 DEF Flush, Goto, TypeOK, InFlight, Data
<1>5. CASE Commit(r)
  <2>1. req[r] \in InFlight /\ req[r] # Idle
    BY <1>5, StageNotIdle, InFlightWhen DEF Commit, Stage
  <2> QED BY <1>5, <2>1 DEF Commit, Goto, TypeOK, InFlight
<1>6. CASE PublishStatus(r)
  <2>1. req[r] \in InFlight /\ req[r] # Idle
    BY <1>6, StageNotIdle, InFlightWhen DEF PublishStatus, Stage
  <2> QED BY <1>6, <2>1 DEF PublishStatus, Goto, TypeOK, InFlight
<1>7. CASE PublishBoard(r) \/ Abort(r)
  BY <1>7 DEF PublishBoard, Abort, Finish, TypeOK
<1> QED BY <1>1, <1>2, <1>3, <1>4, <1>5, <1>6, <1>7 DEF Step

LEMMA CommitKeepsSlot ==
  ASSUME TypeOK, NEW r \in Request, Commit(r)
  PROVE  /\ req[r] # Idle /\ UNCHANGED begun
         /\ req'[r].stage = "publish_status" /\ req'[r].order = req[r].order
         /\ \A q \in Request \ {r} : req'[q] = req[q]
<1>1. req[r] \in InFlight /\ req[r] # Idle
  BY StageNotIdle, InFlightWhen DEF Commit, Stage
<1> QED BY <1>1 DEF Commit, Goto, TypeOK, InFlight

LEMMA SerialStep == OneAtATime /\ TypeOK /\ Serial /\ [Next]_vars => Serial'
<1> SUFFICES ASSUME OneAtATime, TypeOK, Serial, [Next]_vars,
                    NEW r \in Request, NEW q \in Request, r # q,
                    req'[r] # Idle, req'[q] # Idle, req'[r].order = req'[q].order
             PROVE  FALSE
  BY DEF Serial
<1>1. ASSUME NEW p \in Request, req'[p] # Idle, ~Begin(p)
      PROVE  req[p] # Idle /\ req'[p].order = req[p].order
  <2>1. CASE req'[p] = req[p]
    BY <1>1, <2>1
  <2>2. CASE req'[p] # req[p]
    BY <1>1, <2>2, RequestSteps
  <2> QED BY <2>1, <2>2
<1>2. ASSUME NEW p \in Request, NEW u \in Request, p # u, Begin(p),
             req'[p].order = req'[u].order, req'[u] # Idle
      PROVE  FALSE
  <2>1. req'[u] = req[u]
    BY <1>2 DEF Begin, TypeOK
  <2>2. ~Busy(req'[p].order)
    BY <1>2 DEF Begin, TypeOK
  <2> QED BY <1>2, <2>1, <2>2 DEF Busy
<1>3. req[r] # Idle /\ req[q] # Idle /\ req[r].order = req[q].order
  BY <1>1, <1>2
<1> QED BY <1>3 DEF Serial

LEMMA SerialInvStep == OneAtATime /\ TypeOK /\ SerialInv /\ [Next]_vars => SerialInv'
<1> SUFFICES ASSUME OneAtATime, TypeOK, SerialInv, [Next]_vars
             PROVE  SerialInv'
  OBVIOUS
<1>1. Serial'
  BY SerialStep DEF SerialInv
<1>2. begun \in Nat /\ begun' \in Nat /\ begun <= begun'
  <2>1. begun \in Nat
    BY DEF TypeOK
  <2>2. begun' = begun \/ begun' = begun + 1
    BY DEF Next, vars, Begin, Step, Load, Flush, Commit, PublishStatus, PublishBoard, Abort
  <2> QED BY <2>1, <2>2
(* Another request than r leaves the status and the log of r's order alone.   *)
<1>3. ASSUME NEW r \in Request, req[r] # Idle,
             status'[req[r].order] # status[req[r].order]
               \/ events'[req[r].order] # events[req[r].order]
      PROVE  Commit(r)
  <2>1. PICK p \in Request : Commit(p) /\ Committed(p)
    BY <1>3, DataSteps DEF Data
  <2>2. req[p].order = req[r].order /\ req[p] # Idle
    BY <1>3, <2>1, CommitKeepsSlot DEF Committed, UpdateStatus, TypeOK
  <2> QED BY <1>3, <2>1, <2>2 DEF SerialInv, Serial
<1>4. SeenIsCurrent'
  <2> SUFFICES ASSUME NEW r \in Request, req'[r].stage \in {"flush", "commit"}
               PROVE  req'[r].seen = status'[req'[r].order]
    BY DEF SeenIsCurrent
  <2>1. req'[r] # Idle
    BY DEF Idle
  <2>2. CASE req'[r] = req[r]
    <3>1. ~Commit(r)
      BY <2>2, CommitKeepsSlot
    <3>2. status'[req[r].order] = status[req[r].order]
      BY <1>3, <2>1, <2>2, <3>1
    <3> QED BY <2>2, <3>2 DEF SerialInv, SeenIsCurrent
  <2>3. CASE Begin(r)
    BY <2>3 DEF Begin, TypeOK
  <2>4. CASE req'[r] # req[r] /\ ~Begin(r)
    BY <2>1, <2>4, RequestSteps DEF SerialInv, SeenIsCurrent, Data
  <2> QED BY <2>2, <2>3, <2>4
<1>5. StampsPast'
  <2>1. ASSUME NEW o \in Order, NEW i \in DOMAIN events'[o]
        PROVE  events'[o][i].at <= begun'
    <3>1. CASE events'[o] = events[o]
      <4>1. events[o][i] \in Event
        BY <2>1, <3>1 DEF TypeOK
      <4>2. events[o][i].at <= begun
        BY <2>1, <3>1 DEF SerialInv, StampsPast
      <4> QED BY <1>2, <3>1, <4>1, <4>2 DEF Event
    <3>2. ASSUME NEW p \in Request, Committed(p), o = req[p].order, req[p] # Idle
          PROVE  events'[o][i].at <= begun'
      <4> DEFINE e == NewEvent(p)
      <4>1. events'[o] = Append(events[o], e) /\ events[o] \in Seq(Event) /\ e \in Event
        BY <3>2 DEF Committed, TypeOK
      <4>2. e.at <= begun /\ e.at \in Nat
        BY <3>2, InFlightWhen DEF NewEvent, SerialInv, StampsPast
      <4> HIDE DEF e
      <4>3. i \in 1..Len(events[o]) \/ i = Len(events[o]) + 1
        BY <4>1, AppendFacts
      <4>4. CASE i \in 1..Len(events[o])
        <5>1. events'[o][i] = events[o][i] /\ events[o][i].at <= begun /\ events[o][i] \in Event
          BY <4>1, <4>4, AppendFacts DEF SerialInv, StampsPast
        <5> QED BY <1>2, <5>1 DEF Event
      <4>5. CASE i = Len(events[o]) + 1
        BY <1>2, <4>1, <4>2, <4>5, AppendFacts
      <4> QED BY <4>3, <4>4, <4>5
    <3>3. events'[o] # events[o] => \E p \in Request : Committed(p) /\ o = req[p].order /\ req[p] # Idle
      BY DataSteps, CommitKeepsSlot DEF Data, Committed, TypeOK
    <3> QED BY <3>1, <3>2, <3>3
  <2>2. ASSUME NEW r \in Request, req'[r] # Idle
        PROVE  req'[r].at <= begun'
    <3>1. CASE Begin(r)
      BY <1>2, <3>1 DEF Begin, TypeOK, Now
    <3>2. CASE ~Begin(r)
      <4>1. req[r] # Idle /\ req'[r].at = req[r].at
        BY <2>2, <3>2, RequestSteps
      <4> QED BY <1>2, <4>1, InFlightWhen DEF SerialInv, StampsPast
    <3> QED BY <3>1, <3>2
  <2> QED BY <2>1, <2>2 DEF StampsPast
<1>6. StampsLater'
  <2> SUFFICES ASSUME NEW r \in Request, req'[r].stage \in {"load", "flush", "commit"},
                      NEW i \in DOMAIN events'[req'[r].order]
               PROVE  events'[req'[r].order][i].at < req'[r].at
    BY DEF StampsLater
  <2>1. req'[r] # Idle
    BY DEF Idle
  <2>2. CASE Begin(r)
    <3>1. req'[r].at = begun + 1 /\ req'[r].order \in Order /\ UNCHANGED events
      BY <2>2 DEF Begin, TypeOK, Now
    <3>2. events[req'[r].order][i] \in Event
      BY <3>1 DEF TypeOK
    <3>3. events[req'[r].order][i].at <= begun /\ events[req'[r].order][i].at \in Nat
      BY <3>1, <3>2 DEF SerialInv, StampsPast, Event
    <3> QED BY <1>2, <3>1, <3>3
  <2>3. CASE ~Begin(r)
    <3>1. /\ req[r] # Idle /\ req'[r].order = req[r].order /\ req'[r].at = req[r].at
          /\ req[r].stage \in {"load", "flush", "commit"} /\ ~Commit(r)
      BY <2>1, <2>3, RequestSteps, CommitKeepsSlot
    <3>2. events'[req[r].order] = events[req[r].order]
      BY <1>3, <3>1
    <3> QED BY <3>1, <3>2 DEF SerialInv, StampsLater
  <2> QED BY <2>2, <2>3
<1> QED BY <1>1, <1>4, <1>5, <1>6 DEF SerialInv

(* The invariant holds wherever requests on one order come one at a time.     *)
LEMMA SerialAlways == OneAtATime => (Spec => []SerialInv)
<1> SUFFICES ASSUME OneAtATime PROVE Spec => []SerialInv
  OBVIOUS
<1>1. TypeOK /\ SerialInv /\ [Next]_vars => SerialInv'
  BY SerialInvStep
<1> QED BY <1>1, SerialInvInit, OrdersTypeCorrect, PTL DEF Spec

(* A commit then appends a change that starts where the order stands, and      *)
(* leaves the order where the change ends: a step of the life cycle.             *)
LEMMA SerialCommit ==
  ASSUME TypeOK, SerialInv, NEW r \in Request, Commit(r)
  PROVE  LET o == req[r].order
             e == NewEvent(r)
         IN  /\ o \in Order /\ e \in Event
             /\ e.old = status[o] /\ e.new = req[r].cmd.target
             /\ \A i \in DOMAIN events[o] : events[o][i].at < e.at
             /\ status' = [status EXCEPT ![o] = e.new]
             /\ events' = [events EXCEPT ![o] = Append(events[o], e)]
<1>1. req[r] \in InFlight /\ req[r] # Idle /\ req[r].stage = "commit"
  BY StageNotIdle, InFlightWhen DEF Commit, Stage
<1>2. req[r].order \in Order /\ NewEvent(r) \in Event
  BY <1>1, InFlightWhen DEF NewEvent, Event
<1>3. NewEvent(r).old = status[req[r].order] /\ NewEvent(r).new = req[r].cmd.target
  BY <1>1 DEF SerialInv, SeenIsCurrent, NewEvent
<1>4. \A i \in DOMAIN events[req[r].order] : events[req[r].order][i].at < NewEvent(r).at
  BY <1>1 DEF SerialInv, StampsLater, NewEvent
<1>5. status' = [status EXCEPT ![req[r].order] = NewEvent(r).new]
  BY <1>2, <1>3 DEF Commit, UpdateStatus, TypeOK
<1>6. events' = [events EXCEPT ![req[r].order] = Append(events[req[r].order], NewEvent(r))]
  BY DEF Commit
<1> QED BY <1>2, <1>3, <1>4, <1>5, <1>6

(* What of a log the life cycle knows. *)
Moves(log) == [i \in DOMAIN log |-> [old |-> log[i].old, new |-> log[i].new]]
MovesOfAll == [o \in Order |-> Moves(events[o])]

LEMMA MovesFacts ==
  ASSUME NEW log \in Seq(Event)
  PROVE  /\ Moves(log) \in Seq([old : Status, new : Status])
         /\ Len(Moves(log)) = Len(log) /\ Len(log) \in Nat
         /\ Moves(log) = <<>> <=> log = <<>>
         /\ log # <<>> => Len(log) \in 1..Len(log)
         /\ \A i \in 1..Len(log) : Moves(log)[i] = [old |-> log[i].old, new |-> log[i].new]
<1>1. DOMAIN log = 1..Len(log) /\ Len(log) \in Nat
  OBVIOUS
<1>2. \A i \in 1..Len(log) : log[i] \in Event
  BY <1>1
<1>3. Moves(log) \in [1..Len(log) -> [old : Status, new : Status]]
  BY <1>1, <1>2 DEF Moves, Event
<1>4. Moves(log) \in Seq([old : Status, new : Status])
  <2> DEFINE S == [old : Status, new : Status]
  <2> HIDE DEF S
  <2>1. Moves(log) \in [1..Len(log) -> S]
    BY <1>3 DEF S
  <2>2. Moves(log) \in Seq(S)
    BY <1>1, <2>1, SeqDef
  <2> QED BY <2>2 DEF S
<1>5. Len(Moves(log)) = Len(log)
  BY <1>1, <1>3, <1>4
<1>6. (Moves(log) = <<>> <=> Len(Moves(log)) = 0) /\ (log = <<>> <=> Len(log) = 0)
  BY <1>4
<1>7. \A i \in 1..Len(log) : Moves(log)[i] = [old |-> log[i].old, new |-> log[i].new]
  BY <1>1 DEF Moves
<1> QED BY <1>1, <1>4, <1>5, <1>6, <1>7

LEMMA MovesAppend ==
  ASSUME NEW log \in Seq(Event), NEW e \in Event
  PROVE  Moves(Append(log, e)) = Append(Moves(log), [old |-> e.old, new |-> e.new])
<1> DEFINE l == Append(log, e)
           t == Append(Moves(log), [old |-> e.old, new |-> e.new])
           S == [old : Status, new : Status]
<1>1. [old |-> e.old, new |-> e.new] \in S
  BY DEF Event
<1>2. /\ l \in Seq(Event) /\ Len(log) \in Nat /\ Len(l) = Len(log) + 1
      /\ \A i \in 1..Len(log) : l[i] = log[i]
      /\ l[Len(log) + 1] = e
  BY AppendFacts
<1>3. /\ t \in Seq(S) /\ Len(t) = Len(log) + 1
      /\ \A i \in 1..Len(log) : t[i] = Moves(log)[i]
      /\ t[Len(log) + 1] = [old |-> e.old, new |-> e.new]
  <2>1. Moves(log) \in Seq(S) /\ Len(Moves(log)) = Len(log)
    BY MovesFacts
  <2> HIDE DEF S
  <2> QED BY <1>1, <2>1, AppendProperties
<1>4. /\ Moves(l) \in Seq(S) /\ Len(Moves(l)) = Len(l)
      /\ \A i \in 1..Len(l) : Moves(l)[i] = [old |-> l[i].old, new |-> l[i].new]
  BY <1>2, MovesFacts
<1> HIDE DEF l, t
<1>5. ASSUME NEW i \in 1..Len(l)
      PROVE  Moves(l)[i] = t[i]
  <2>1. CASE i \in 1..Len(log)
    <3>1. Moves(log)[i] = [old |-> log[i].old, new |-> log[i].new]
      BY <2>1, MovesFacts
    <3> QED BY <1>2, <1>3, <1>4, <2>1, <3>1
  <2>2. CASE i = Len(log) + 1
    BY <1>2, <1>3, <1>4, <2>2
  <2> QED BY <1>2, <2>1, <2>2
<1>6. Moves(l) = t
  BY <1>2, <1>3, <1>4, <1>5, SeqEqual
<1> QED BY <1>6 DEF l, t

(* The chain, said of the log itself. *)
LogChain ==
  \A o \in Order :
    /\ \A i \in 1..Len(events[o]) :
         events[o][i].old = IF i = 1 THEN "PENDING" ELSE events[o][i - 1].new
    /\ status[o] = IF events[o] = <<>> THEN "PENDING" ELSE events[o][Len(events[o])].new

LEMMA ChainIsLogChain == TypeOK => (HistoryChain <=> LogChain)
<1> SUFFICES ASSUME TypeOK PROVE HistoryChain <=> LogChain
  OBVIOUS
<1>1. HistoryChain <=>
        \A o \in Order :
          /\ \A i \in 1..Len(MovesOfAll[o]) :
               MovesOfAll[o][i].old = IF i = 1 THEN "PENDING" ELSE MovesOfAll[o][i - 1].new
          /\ status[o] = IF MovesOfAll[o] = <<>> THEN "PENDING"
                         ELSE MovesOfAll[o][Len(MovesOfAll[o])].new
  BY DEF HistoryChain, Lifecycle!HistoryChain, MovesOfAll, Moves
<1>2. ASSUME NEW o \in Order
      PROVE  /\ Len(MovesOfAll[o]) = Len(events[o]) /\ Len(events[o]) \in Nat
             /\ MovesOfAll[o] = <<>> <=> events[o] = <<>>
             /\ events[o] # <<>> => Len(events[o]) \in 1..Len(events[o])
             /\ \A i \in 1..Len(events[o]) : /\ MovesOfAll[o][i].old = events[o][i].old
                                            /\ MovesOfAll[o][i].new = events[o][i].new
  <2>1. events[o] \in Seq(Event)
    BY DEF TypeOK
  <2>2. /\ Len(Moves(events[o])) = Len(events[o]) /\ Len(events[o]) \in Nat
        /\ Moves(events[o]) = <<>> <=> events[o] = <<>>
        /\ events[o] # <<>> => Len(events[o]) \in 1..Len(events[o])
        /\ \A i \in 1..Len(events[o]) :
             Moves(events[o])[i] = [old |-> events[o][i].old, new |-> events[o][i].new]
    BY <2>1, MovesFacts
  <2>3. MovesOfAll[o] = Moves(events[o])
    BY DEF MovesOfAll
  <2>4. Len(MovesOfAll[o]) = Len(events[o]) /\ Len(events[o]) \in Nat
    BY <2>2, <2>3
  <2>5. MovesOfAll[o] = <<>> <=> events[o] = <<>>
    BY <2>2, <2>3
  <2>6. events[o] # <<>> => Len(events[o]) \in 1..Len(events[o])
    BY <2>2
  <2>7. ASSUME NEW i \in 1..Len(events[o])
        PROVE  MovesOfAll[o][i].old = events[o][i].old /\ MovesOfAll[o][i].new = events[o][i].new
    <3>1. MovesOfAll[o][i] = [old |-> events[o][i].old, new |-> events[o][i].new]
      BY <2>2, <2>3
    <3> QED BY <3>1
  <2> QED BY <2>4, <2>5, <2>6, <2>7
<1>3. ASSUME NEW o \in Order, NEW i \in 1..Len(events[o])
      PROVE  (IF i = 1 THEN "PENDING" ELSE MovesOfAll[o][i - 1].new)
               = (IF i = 1 THEN "PENDING" ELSE events[o][i - 1].new)
  <2>1. i # 1 => i - 1 \in 1..Len(events[o])
    BY <1>2
  <2> QED BY <1>2, <2>1
<1>4. ASSUME NEW o \in Order
      PROVE  (\A i \in 1..Len(MovesOfAll[o]) :
                MovesOfAll[o][i].old = IF i = 1 THEN "PENDING" ELSE MovesOfAll[o][i - 1].new)
             <=> (\A i \in 1..Len(events[o]) :
                    events[o][i].old = IF i = 1 THEN "PENDING" ELSE events[o][i - 1].new)
  BY <1>2, <1>3
<1>5. ASSUME NEW o \in Order
      PROVE  (IF MovesOfAll[o] = <<>> THEN "PENDING" ELSE MovesOfAll[o][Len(MovesOfAll[o])].new)
               = (IF events[o] = <<>> THEN "PENDING" ELSE events[o][Len(events[o])].new)
  BY <1>2
<1>6. ASSUME NEW o \in Order
      PROVE  (status[o] = IF MovesOfAll[o] = <<>> THEN "PENDING"
                          ELSE MovesOfAll[o][Len(MovesOfAll[o])].new)
             <=> (status[o] = IF events[o] = <<>> THEN "PENDING" ELSE events[o][Len(events[o])].new)
  BY <1>5
<1>7. LogChain <=>
        \A o \in Order :
          /\ \A i \in 1..Len(events[o]) :
               events[o][i].old = IF i = 1 THEN "PENDING" ELSE events[o][i - 1].new
          /\ status[o] = IF events[o] = <<>> THEN "PENDING" ELSE events[o][Len(events[o])].new
  BY DEF LogChain
<1> QED BY ONLY <1>1, <1>4, <1>6, <1>7

LEMMA ChainStep == TypeOK /\ SerialInv /\ LogChain /\ [Next]_vars => LogChain'
<1> SUFFICES ASSUME TypeOK, SerialInv, LogChain, [Next]_vars, NEW o \in Order
             PROVE  /\ \A i \in 1..Len(events'[o]) :
                         events'[o][i].old = IF i = 1 THEN "PENDING" ELSE events'[o][i - 1].new
                    /\ status'[o] = IF events'[o] = <<>> THEN "PENDING"
                                    ELSE events'[o][Len(events'[o])].new
  BY DEF LogChain
<1>1. CASE status'[o] = status[o] /\ events'[o] = events[o]
  BY <1>1 DEF LogChain
<1>2. ASSUME NEW r \in Request, Commit(r), o = req[r].order
      PROVE  /\ \A i \in 1..Len(events'[o]) :
                  events'[o][i].old = IF i = 1 THEN "PENDING" ELSE events'[o][i - 1].new
             /\ status'[o] = IF events'[o] = <<>> THEN "PENDING"
                             ELSE events'[o][Len(events'[o])].new
  <2> DEFINE e == NewEvent(r)
  <2>1. /\ e \in Event /\ e.old = status[o] /\ status'[o] = e.new
        /\ events'[o] = Append(events[o], e) /\ events[o] \in Seq(Event)
    BY <1>2, SerialCommit DEF TypeOK
  <2> HIDE DEF e
  <2>2. /\ Len(events[o]) \in Nat
        /\ Len(events'[o]) = Len(events[o]) + 1
        /\ \A i \in 1..Len(events[o]) : events'[o][i] = events[o][i]
        /\ events'[o][Len(events[o]) + 1] = e
        /\ events'[o] # <<>>
    BY <2>1, AppendFacts
  <2>3. Len(events[o]) = 0 <=> events[o] = <<>>
    BY <2>1
  <2>4. ASSUME NEW i \in 1..Len(events'[o])
        PROVE  events'[o][i].old = IF i = 1 THEN "PENDING" ELSE events'[o][i - 1].new
    <3>1. CASE i \in 1..Len(events[o])
      <4>1. events[o][i].old = IF i = 1 THEN "PENDING" ELSE events[o][i - 1].new
        BY <3>1 DEF LogChain
      <4>2. i # 1 => events'[o][i - 1] = events[o][i - 1]
        BY <2>2, <3>1
      <4> QED BY <2>2, <3>1, <4>1, <4>2
    <3>2. CASE i = Len(events[o]) + 1
      <4>1. status[o] = IF events[o] = <<>> THEN "PENDING" ELSE events[o][Len(events[o])].new
        BY DEF LogChain
      <4>2. i # 1 => events'[o][i - 1] = events[o][Len(events[o])]
        BY <2>2, <3>2
      <4> QED BY <2>1, <2>2, <2>3, <3>2, <4>1, <4>2
    <3> QED BY <2>2, <3>1, <3>2
  <2> QED BY <2>1, <2>2, <2>4
<1>3. (status'[o] # status[o] \/ events'[o] # events[o])
        => \E r \in Request : Commit(r) /\ o = req[r].order
  BY DataSteps, SerialCommit DEF Data, TypeOK
<1> QED BY <1>1, <1>2, <1>3

LEMMA SortedStep == TypeOK /\ SerialInv /\ HistorySorted /\ [Next]_vars => HistorySorted'
<1> SUFFICES ASSUME TypeOK, SerialInv, HistorySorted, [Next]_vars, NEW o \in Order,
                    NEW i \in DOMAIN events'[o], NEW j \in DOMAIN events'[o], i < j
             PROVE  events'[o][i].at < events'[o][j].at
  BY DEF HistorySorted
<1>1. CASE events'[o] = events[o]
  BY <1>1 DEF HistorySorted
<1>2. ASSUME NEW r \in Request, Commit(r), o = req[r].order
      PROVE  events'[o][i].at < events'[o][j].at
  <2> DEFINE e == NewEvent(r)
  <2>1. /\ e \in Event /\ events'[o] = Append(events[o], e) /\ events[o] \in Seq(Event)
        /\ \A k \in DOMAIN events[o] : events[o][k].at < e.at
    BY <1>2, SerialCommit DEF TypeOK
  <2> HIDE DEF e
  <2>2. /\ Len(events[o]) \in Nat
        /\ i \in 1..(Len(events[o]) + 1) /\ j \in 1..(Len(events[o]) + 1)
        /\ DOMAIN events[o] = 1..Len(events[o])
        /\ \A k \in 1..Len(events[o]) : events'[o][k] = events[o][k]
        /\ events'[o][Len(events[o]) + 1] = e
    BY <2>1, AppendFacts
  <2>3. i \in 1..Len(events[o]) /\ (j \in 1..Len(events[o]) \/ j = Len(events[o]) + 1)
    BY <2>2
  <2> QED BY <2>1, <2>2, <2>3 DEF HistorySorted
<1>3. events'[o] # events[o] => \E r \in Request : Commit(r) /\ o = req[r].order
  BY DataSteps, SerialCommit DEF Data, TypeOK
<1> QED BY <1>1, <1>2, <1>3

(* The history an administrator reads is one chain, in order, whenever no two   *)
(* requests touch one order at the same time.                                     *)
THEOREM OrdersHistoryIntact == OneAtATime => (Spec => []HistoryIntact)
<1> SUFFICES ASSUME OneAtATime PROVE Spec => []HistoryIntact
  OBVIOUS
<1>1. Init => LogChain /\ HistorySorted
  BY EmptyLog DEF Init, LogChain, HistorySorted
<1>2. /\ TypeOK /\ SerialInv /\ LogChain /\ HistorySorted
      /\ [Next]_vars
      => LogChain' /\ HistorySorted'
  BY ChainStep, SortedStep
<1>3. TypeOK /\ LogChain /\ HistorySorted => HistoryIntact
  BY ChainIsLogChain DEF HistoryIntact
<1>4. Spec => []SerialInv
  BY SerialAlways
<1> QED BY <1>1, <1>2, <1>3, <1>4, OrdersTypeCorrect, PTL DEF Spec

(* The code implements the life cycle it documents: one at a time on an order, *)
(* each commit is an advance, a cancellation or a forced one, and nothing else   *)
(* is seen to change.                                                             *)
THEOREM OrdersImplementsLifecycle == OneAtATime => (Spec => ImplementsLifecycle)
<1> SUFFICES ASSUME OneAtATime PROVE Spec => ImplementsLifecycle
  OBVIOUS
<1>1. Init => Lifecycle!Init
  <2> SUFFICES ASSUME Init PROVE Lifecycle!Init
    OBVIOUS
  <2>1. ASSUME NEW o \in Order
        PROVE  Moves(events[o]) = <<>>
    <3>1. events[o] = <<>> /\ events[o] \in Seq(Event)
      BY DEF Init
    <3> QED BY <3>1, MovesFacts
  <2> QED BY <2>1 DEF Init, Lifecycle!Init, Moves
<1>2. TypeOK /\ LogInv /\ SerialInv /\ [Next]_vars => [Lifecycle!Next]_(Lifecycle!vars)
  <2> SUFFICES ASSUME TypeOK, LogInv, SerialInv, [Next]_vars
               PROVE  [Lifecycle!Next]_(Lifecycle!vars)
    OBVIOUS
  <2>1. CASE UNCHANGED Data
    BY <2>1 DEF Data, Lifecycle!vars
  <2>2. ASSUME NEW r \in Request, Commit(r), Committed(r)
        PROVE  Lifecycle!Next
    <3> DEFINE e == NewEvent(r)
    <3>0. PICK o \in Order : o = req[r].order
      BY <2>2, SerialCommit
    <3>1. /\ e \in Event
          /\ e.old = status[o] /\ e.new = req[r].cmd.target
          /\ status' = [status EXCEPT ![o] = e.new]
          /\ events' = [events EXCEPT ![o] = Append(events[o], e)]
      BY <2>2, <3>0, SerialCommit
    <3>2. req[r].cmd \in Command /\ Permitted(status[o], req[r].cmd)
      <4>1. req[r] # Idle /\ req[r].stage = "commit"
        BY <2>2, StageNotIdle DEF Commit, Stage
      <4> QED BY <3>0, <4>1, InFlightWhen DEF LogInv, Checked, SerialInv, SeenIsCurrent
    <3>3. MovesOfAll' = [MovesOfAll EXCEPT ![o] = Append(@, [old |-> status[o], new |-> e.new])]
      <4>1. Moves(events'[o]) = Append(Moves(events[o]), [old |-> status[o], new |-> e.new])
        BY <3>1, MovesAppend DEF TypeOK
      <4>2. \A p \in Order \ {o} : events'[p] = events[p]
        BY <3>1 DEF TypeOK
      <4> QED BY <4>1, <4>2 DEF MovesOfAll
    <3>4. ASSUME NEW s, s = e.new
          PROVE  Lifecycle!Move(o, s)
      BY <3>1, <3>3, <3>4 DEF Lifecycle!Move, MovesOfAll, Moves
    <3> HIDE DEF e
    <3>5. CASE req[r].cmd.op = "change_status"
      <4>1. e.new \in ALLOWED_TRANSITIONS[status[o]]
        BY <3>1, <3>2, <3>5 DEF Permitted, ChangeAllowed
      <4>2. e.new \in Lifecycle!Allowed[status[o]]
        BY <4>1 DEF ALLOWED_TRANSITIONS, Lifecycle!Allowed, Status, Lifecycle!Status
      <4>3. Lifecycle!Advance(o)
        BY <3>4, <4>2 DEF Lifecycle!Advance
      <4> QED BY <3>1, <4>3 DEF Lifecycle!Next
    <3>6. CASE req[r].cmd.op = "complete"
      <4>1. e.new = "COMPLETED" /\ status[o] = "READY"
        BY <3>1, <3>2, <3>6, CommandShape DEF Permitted
      <4>2. e.new \in Lifecycle!Allowed[status[o]]
        BY <4>1 DEF Lifecycle!Allowed, Lifecycle!Status
      <4>3. Lifecycle!Advance(o)
        BY <3>4, <4>2 DEF Lifecycle!Advance
      <4> QED BY <3>1, <4>3 DEF Lifecycle!Next
    <3>7. CASE req[r].cmd.op = "cancel"
      <4>1. e.new = "CANCELLED" /\ status[o] \in CANCELLABLE_STATUSES
        BY <3>1, <3>2, <3>7, CommandShape DEF Permitted
      <4>2. Lifecycle!Cancel(o)
        BY <3>4, <4>1 DEF Lifecycle!Cancel, Lifecycle!Cancellable, CANCELLABLE_STATUSES
      <4> QED BY <3>1, <4>2 DEF Lifecycle!Next
    <3>8. CASE req[r].cmd.op = "force_cancel"
      <4>1. e.new = "CANCELLED"
        BY <3>1, <3>2, <3>8, CommandShape
      <4>2. Lifecycle!ForceCancel(o)
        BY <3>4, <4>1 DEF Lifecycle!ForceCancel
      <4> QED BY <3>1, <4>2 DEF Lifecycle!Next
    <3> QED BY <3>2, <3>5, <3>6, <3>7, <3>8 DEF Command
  <2> QED BY <2>1, <2>2, DataSteps
<1>3. Spec => []SerialInv
  BY SerialAlways
<1>4. TypeOK /\ LogInv /\ [Next]_vars => LogInv'
  BY LogInvStep
<1> QED BY <1>1, <1>2, <1>3, <1>4, LogInvInit, OrdersTypeCorrect, PTL DEF Spec, ImplementsLifecycle

-----------------------------------------------------------------------------
(* The live views. *)
(* What the handler of a socket has still to do before it waits for        *)
(* messages.  The page of an order has subscribed by the time it waits.    *)
Shape(p) ==
  /\ ~p.open => p.todo = <<>> /\ p.channel = "off"
  /\ p.open /\ p.kind = "tracking" =>
       \/ p.todo = <<"subscribe", "read">>
       \/ p.todo \in {<<"read">>, <<>>} /\ p.channel # "off"
  /\ p.open /\ p.kind = "board" =>
       p.todo \in {<<"read", "subscribe">>, <<"subscribe">>, <<"read">>, <<>>}

PageOK(p) ==
  /\ p \in PageType
  /\ p.kind = "board" => p.view \in [Order -> Columns \cup {"nothing"}]
  /\ Shape(p)

(* The screen has read before it subscribes: what comes in between counts. *)
HasRead(p) == p.open /\ p.todo \in {<<>>, <<"subscribe">>}
Forgiven(p) == IF p.kind = "board" THEN p.missed # {} ELSE Excused(p)
Fresh(p) == HasRead(p) => Current(p) \/ NewsComing(p) \/ Forgiven(p)

PagesInv ==
  /\ page \in [Page -> PageType]
  /\ connects \in 0..MaxConnects
  /\ \A k \in Page : PageOK(page[k]) /\ Fresh(page[k])

-----------------------------------------------------------------------------
LEMMA ScriptFacts ==
  /\ Head(<<"subscribe", "read">>) = "subscribe" /\ Tail(<<"subscribe", "read">>) = <<"read">>
  /\ Head(<<"read", "subscribe">>) = "read" /\ Tail(<<"read", "subscribe">>) = <<"subscribe">>
  /\ Head(<<"read">>) = "read" /\ Tail(<<"read">>) = <<>>
  /\ Head(<<"subscribe">>) = "subscribe" /\ Tail(<<"subscribe">>) = <<>>
  /\ <<"subscribe", "read">> # <<>> /\ <<"read", "subscribe">> # <<>>
  /\ <<"read">> # <<>> /\ <<"subscribe">> # <<>> /\ <<"read">> # <<"subscribe">>
  /\ <<"subscribe", "read">> # <<"subscribe">> /\ <<"read", "subscribe">> # <<"subscribe">>
  /\ \A t \in {<<>>, <<"read">>, <<"subscribe">>, <<"read", "subscribe">>,
               <<"subscribe", "read">>} : t \in Seq({"subscribe", "read"})
  OBVIOUS

LEMMA PageShape ==
  ASSUME NEW p \in PageType
  PROVE  /\ p.kind \in {"tracking", "board"} /\ p.order \in Order /\ p.open \in BOOLEAN
         /\ p.todo \in Seq({"subscribe", "read"}) /\ p.channel \in {"off", "asked", "on"}
         /\ p.inbox \in Nat
         /\ p.view \in [Order -> Status \cup Columns \cup {"nothing"}]
         /\ p.missed \in SUBSET {"lost", "gap", "late"}
         /\ Watched(p) \subseteq Order
  BY DEF PageType, Kind, Script, Watched

(* The picture of a page depends on its kind and its order alone.          *)
LEMMA PictureShape ==
  ASSUME TypeOK, NEW p \in PageType
  PROVE  /\ Picture(p) \in [Order -> Status \cup Columns \cup {"nothing"}]
         /\ p.kind = "board" => Picture(p) \in [Order -> Columns \cup {"nothing"}]
         /\ \A o \in Watched(p) : Picture(p)[o] = IF p.kind = "board" THEN Column(status[o])
                                                  ELSE status[o]
<1>1. \A s \in Status : Column(s) \in Columns
  BY DEF Column, Columns
<1>2. status \in [Order -> Status]
  BY DEF TypeOK
<1>3. \A o \in Watched(p) : o \in Order /\ (p.kind # "board" => o = p.order)
  BY PageShape DEF Watched
<1> QED BY <1>1, <1>2, <1>3 DEF Picture

-----------------------------------------------------------------------------
(* A page that is up to date stays so when the orders it watches keep      *)
(* their statuses and what is owed to it stays owed.                       *)
LEMMA FreshKept ==
  ASSUME NEW p \in PageType, Fresh(p), TypeOK, TypeOK',
         \A o \in Watched(p) : status'[o] = status[o],
         \A r \in Request : Owes(r, p) => Owes(r, p)'
  PROVE  Fresh(p)'
<1>1. Current(p) => Current(p)'
  <2> SUFFICES ASSUME Current(p), NEW o \in Watched(p)
               PROVE  p.view[o] = Picture(p)'[o]
    BY DEF Current, Watched
  <2>1. o \in Order /\ (p.kind # "board" => o = p.order)
    BY PageShape DEF Watched
  <2>2. Picture(p)[o] = IF p.kind = "board" THEN Column(status[o]) ELSE status[o]
    BY <2>1 DEF Picture
  <2>3. Picture(p)'[o] = IF p.kind = "board" THEN Column(status'[o]) ELSE status'[o]
    BY <2>1 DEF Picture, Column
  <2>4. p.view[o] = Picture(p)[o] /\ status'[o] = status[o]
    BY DEF Current
  <2> QED BY <2>2, <2>3, <2>4
<1>2. NewsComing(p) => NewsComing(p)'
  BY DEF NewsComing
<1>3. Forgiven(p) => Forgiven(p)'
  BY DEF Forgiven, Excused
<1> QED BY <1>1, <1>2, <1>3 DEF Fresh, HasRead

LEMMA FreshOwed ==
  ASSUME NEW p \in PageType, NEW r \in Request, Owes(r, p)'
  PROVE  Fresh(p)'
  BY DEF Fresh, NewsComing

(* A step of a page.                                                       *)
LEMMA PageStep ==
  ASSUME TypeOK, PagesInv, UNCHANGED vars, connects' \in 0..MaxConnects, NEW k \in Page,
         NEW v \in PageType, page' = [page EXCEPT ![k] = v], PageOK(v), Fresh(v)
  PROVE  TypeOK' /\ PagesInv'
<1>1. TypeOK'
  BY DEF TypeOK, vars
<1>2. page' \in [Page -> PageType] /\ \A j \in Page : page'[j] = IF j = k THEN v ELSE page[j]
  BY DEF PagesInv
<1>3. \A q \in PageType : Fresh(q) => Fresh(q)'
  BY DEF Fresh, Current, Picture, NewsComing, Owes, Forgiven, Excused, HasRead, Watched, vars,
         Column
<1>4. \A j \in Page : PageOK(page'[j]) /\ Fresh(page[j]) /\ page[j] \in PageType
  BY <1>2 DEF PagesInv
<1>5. \A j \in Page : \A q \in PageType : page'[j] = q => (Fresh(q) => Fresh(page[j])')
  BY <1>3
<1>6. ASSUME NEW j \in Page
      PROVE  Fresh(page[j])'
  <2>1. CASE j = k
    BY <1>2, <1>5, <2>1
  <2>2. CASE j # k
    BY <1>2, <1>4, <1>5, <2>2
  <2> QED BY <2>1, <2>2
<1>7. ASSUME NEW j \in Page
      PROVE  PageOK(page[j])'
  BY <1>4 DEF PageOK, Shape
<1> QED BY <1>1, <1>2, <1>6, <1>7 DEF PagesInv


LEMMA ClosedPage ==
  ASSUME NEW p \in PageType, p.kind = "board" => p.view \in [Order -> Columns \cup {"nothing"}]
  PROVE  Closed(p) \in PageType /\ PageOK(Closed(p)) /\ Fresh(Closed(p))
<1>1. Closed(p) \in PageType /\ Closed(p).kind = p.kind /\ Closed(p).view = p.view
      /\ Closed(p).open = FALSE /\ Closed(p).todo = <<>> /\ Closed(p).channel = "off"
  BY PageShape, ScriptFacts DEF Closed, PageType
<1> QED BY <1>1 DEF PageOK, Shape, Fresh, HasRead

LEMMA PageSteps ==
  ASSUME TypeOK, PagesInv, NEW k \in Page,
         Connect(k) \/ Subscribe(k) \/ SubscribeArrives(k) \/ Read(k) \/ Take(k) \/ Drop(k)
  PROVE  TypeOK' /\ PagesInv'
<1> DEFINE p == page[k]
<1>0. /\ p \in PageType /\ PageOK(p) /\ Fresh(p) /\ Shape(p)
      /\ p.kind = "board" => p.view \in [Order -> Columns \cup {"nothing"}]
      /\ connects \in 0..MaxConnects
  BY DEF PagesInv, PageOK
<1>a. /\ p.kind \in {"tracking", "board"} /\ p.order \in Order /\ p.open \in BOOLEAN
      /\ p.todo \in Seq({"subscribe", "read"}) /\ p.inbox \in Nat
  BY <1>0, PageShape
<1>b. /\ ~p.open => p.todo = <<>>
      /\ p.todo # <<>> => p.todo \in {<<"read">>, <<"subscribe">>, <<"read", "subscribe">>,
                                      <<"subscribe", "read">>}
  BY <1>0, <1>a DEF Shape
<1>1. CASE Connect(k)
  <2> DEFINE v == [p EXCEPT !.open = TRUE, !.todo = Script[p.kind]]
  <2>1. /\ page' = [page EXCEPT ![k] = v] /\ UNCHANGED vars
        /\ ~p.open /\ connects < MaxConnects /\ connects' = connects + 1
    BY <1>1 DEF Connect, PagesInv
  <2>2. Script[p.kind] = IF p.kind = "board" THEN <<"read", "subscribe">>
                         ELSE <<"subscribe", "read">>
    BY <1>a DEF Script
  <2>3. v \in PageType /\ v.open = TRUE /\ v.kind = p.kind /\ v.view = p.view
        /\ v.todo = IF p.kind = "board" THEN <<"read", "subscribe">> ELSE <<"subscribe", "read">>
    BY <1>0, <1>a, <2>2, ScriptFacts DEF PageType
  <2> HIDE DEF v
  <2>4. PageOK(v)
    BY <1>0, <1>a, <2>3 DEF PageOK, Shape
  <2>5. Fresh(v)
    BY <1>a, <2>3, ScriptFacts DEF Fresh, HasRead
  <2>6. connects' \in 0..MaxConnects
    BY <1>0, <2>1, TrackingAssumption
  <2> HIDE DEF p
  <2> QED BY <2>1, <2>3, <2>4, <2>5, <2>6, PageStep
<1>2. CASE Subscribe(k)
  <2> DEFINE v == [p EXCEPT !.channel = "asked", !.todo = Tail(p.todo)]
  <2>1. /\ page' = [page EXCEPT ![k] = v] /\ UNCHANGED vars /\ connects' = connects
        /\ p.todo # <<>> /\ Head(p.todo) = "subscribe"
    BY <1>2 DEF Subscribe, Due
  <2>2. \/ p.todo = <<"subscribe">> /\ Tail(p.todo) = <<>>
        \/ p.todo = <<"subscribe", "read">> /\ Tail(p.todo) = <<"read">>
    BY <1>b, <2>1, ScriptFacts
  <2>3. /\ v \in PageType /\ v.open = p.open /\ v.kind = p.kind /\ v.view = p.view
        /\ v.todo = Tail(p.todo) /\ v.channel = "asked" /\ v.missed = p.missed
        /\ v.inbox = p.inbox /\ v.order = p.order
    BY <1>0, <1>a, <2>2, ScriptFacts DEF PageType
  <2> HIDE DEF v
  <2>4. PageOK(v)
    BY <1>0, <1>a, <1>b, <2>1, <2>2, <2>3 DEF PageOK, Shape
  <2>5. Fresh(v)
    <3>1. CASE p.todo = <<"subscribe">>
      <4>1. Current(p) => Current(v)
        BY <2>3 DEF Current, Watched, Picture
      <4>2. NewsComing(p) => NewsComing(v)
        BY <2>3 DEF NewsComing, Owes, Watched
      <4>3. Forgiven(p) => Forgiven(v)
        BY <2>3 DEF Forgiven, Excused
      <4>4. HasRead(v) => HasRead(p)
        BY <2>3, <3>1 DEF HasRead
      <4> QED BY <1>0, <4>1, <4>2, <4>3, <4>4 DEF Fresh
    <3>2. CASE p.todo = <<"subscribe", "read">>
      BY <2>2, <2>3, <3>2, ScriptFacts DEF Fresh, HasRead
    <3> QED BY <2>2, <3>1, <3>2
  <2> HIDE DEF p
  <2> QED BY <1>0, <2>1, <2>3, <2>4, <2>5, PageStep
<1>3. CASE SubscribeArrives(k)
  <2> DEFINE v == [p EXCEPT !.channel = "on"]
  <2>1. /\ page' = [page EXCEPT ![k] = v] /\ UNCHANGED vars /\ connects' = connects
        /\ p.channel = "asked"
    BY <1>3 DEF SubscribeArrives
  <2>2. /\ v \in PageType /\ v.open = p.open /\ v.kind = p.kind /\ v.view = p.view
        /\ v.todo = p.todo /\ v.channel = "on" /\ v.missed = p.missed
        /\ v.inbox = p.inbox /\ v.order = p.order
    BY <1>0 DEF PageType
  <2> HIDE DEF v
  <2>3. PageOK(v)
    BY <1>0, <2>1, <2>2 DEF PageOK, Shape
  <2>4. Fresh(v)
    <3>1. Current(p) => Current(v)
      BY <2>2 DEF Current, Watched, Picture
    <3>2. NewsComing(p) => NewsComing(v)
      BY <2>2 DEF NewsComing, Owes, Watched
    <3>3. (Forgiven(p) => Forgiven(v)) /\ (HasRead(v) => HasRead(p))
      BY <2>2 DEF Forgiven, Excused, HasRead
    <3> QED BY <1>0, <3>1, <3>2, <3>3 DEF Fresh
  <2> HIDE DEF p
  <2> QED BY <1>0, <2>1, <2>2, <2>3, <2>4, PageStep
<1>4. CASE Read(k)
  <2> DEFINE r == [p EXCEPT !.todo = Tail(p.todo), !.missed = {}, !.view = Picture(p)]
             v == IF Ends(r) THEN Closed(r) ELSE r
  <2>1. /\ page' = [page EXCEPT ![k] = v] /\ UNCHANGED vars /\ connects' = connects
        /\ p.todo # <<>> /\ Head(p.todo) = "read"
    BY <1>4 DEF Read, Due
  <2>2. \/ p.todo = <<"read">> /\ Tail(p.todo) = <<>>
        \/ p.todo = <<"read", "subscribe">> /\ Tail(p.todo) = <<"subscribe">>
    BY <1>b, <2>1, ScriptFacts
  <2>3. /\ r \in PageType /\ r.open = p.open /\ r.kind = p.kind /\ r.view = Picture(p)
        /\ r.todo = Tail(p.todo) /\ r.channel = p.channel /\ r.order = p.order
    BY <1>0, <1>a, <2>2, ScriptFacts, PictureShape DEF PageType
  <2>4. r.kind = "board" => r.view \in [Order -> Columns \cup {"nothing"}]
    BY <1>0, <2>3, PictureShape
  <2>5. Current(r)
    BY <2>3 DEF Current, Picture
  <2> HIDE DEF r
  <2>6. PageOK(r)
    BY <1>0, <1>a, <1>b, <2>1, <2>2, <2>3, <2>4, ScriptFacts DEF PageOK, Shape
  <2>7. v \in PageType /\ PageOK(v) /\ Fresh(v)
    BY <2>3, <2>4, <2>5, <2>6, ClosedPage DEF Fresh
  <2> HIDE DEF v, p
  <2> QED BY <1>0, <2>1, <2>7, PageStep
<1>5. CASE Take(k)
  <2> DEFINE v == [p EXCEPT !.inbox = @ - 1, !.todo = <<"read">>]
  <2>1. /\ page' = [page EXCEPT ![k] = v] /\ UNCHANGED vars /\ connects' = connects
        /\ p.open /\ p.todo = <<>> /\ p.inbox > 0
    BY <1>5 DEF Take
  <2>2. /\ v \in PageType /\ v.open = p.open /\ v.kind = p.kind /\ v.view = p.view
        /\ v.todo = <<"read">> /\ v.channel = p.channel
    <3>1. p.inbox - 1 \in Nat
      BY <1>a, <2>1
    <3>2. <<"read">> \in Seq({"subscribe", "read"})
      BY ScriptFacts
    <3> QED BY <1>0, <3>1, <3>2 DEF PageType
  <2> HIDE DEF v
  <2>3. PageOK(v)
    BY <1>0, <2>1, <2>2, ScriptFacts DEF PageOK, Shape
  <2>4. Fresh(v)
    BY <2>2, ScriptFacts DEF Fresh, HasRead
  <2> HIDE DEF p
  <2> QED BY <1>0, <2>1, <2>2, <2>3, <2>4, PageStep
<1>6. CASE Drop(k)
  <2>1. page' = [page EXCEPT ![k] = Closed(p)] /\ UNCHANGED vars /\ connects' = connects
    BY <1>6 DEF Drop
  <2>2. Closed(p) \in PageType /\ PageOK(Closed(p)) /\ Fresh(Closed(p))
    BY <1>0, ClosedPage
  <2> DEFINE v == Closed(p)
  <2> HIDE DEF v
  <2>3. page' = [page EXCEPT ![k] = v] /\ v \in PageType /\ PageOK(v) /\ Fresh(v)
    BY <2>1, <2>2 DEF v
  <2> HIDE DEF p
  <2> QED BY <1>0, <2>1, <2>3, PageStep
<1> QED BY <1>1, <1>2, <1>3, <1>4, <1>5, <1>6


-----------------------------------------------------------------------------
(* What a message does to a page.                                          *)
LEMMA HeardPage ==
  ASSUME NEW p \in PageType, PageOK(p)
  PROVE  /\ Heard(p) \in PageType /\ PageOK(Heard(p))
         /\ HasRead(Heard(p)) =>
              \/ Heard(p).inbox > 0
              \/ Forgiven(Heard(p))
<1>0. /\ p.kind \in {"tracking", "board"} /\ p.open \in BOOLEAN /\ p.inbox \in Nat
      /\ p.missed \in SUBSET {"lost", "gap", "late"} /\ p.channel \in {"off", "asked", "on"}
      /\ Shape(p)
      /\ p.kind = "board" => p.view \in [Order -> Columns \cup {"nothing"}]
  BY PageShape DEF PageOK
<1>1. CASE ~p.open
  <2>1. Heard(p) = p
    BY <1>0, <1>1 DEF Heard, Shape
  <2> QED BY <1>1, <2>1 DEF HasRead
<1>2. CASE p.open /\ p.channel = "on"
  <2> DEFINE v == [p EXCEPT !.inbox = @ + 1]
  <2>1. Heard(p) = v
    BY <1>2 DEF Heard
  <2>2. p.inbox + 1 \in Nat /\ p.inbox + 1 > 0
    BY <1>0
  <2>3. /\ v \in PageType /\ v.inbox > 0 /\ v.open = p.open /\ v.kind = p.kind
        /\ v.todo = p.todo /\ v.channel = p.channel /\ v.view = p.view
    BY <2>2 DEF PageType
  <2> HIDE DEF v
  <2> QED BY <1>0, <2>1, <2>3 DEF PageOK, Shape
<1>3. CASE p.open /\ p.channel # "on"
  <2> DEFINE w == IF p.channel = "asked" THEN "late" ELSE "gap"
             v == [p EXCEPT !.missed = @ \cup {w}]
  <2>1. Heard(p) = v
    BY <1>0, <1>3 DEF Heard
  <2>2. p.missed \cup {w} \in SUBSET {"lost", "gap", "late"}
    BY <1>0
  <2>3. /\ v \in PageType /\ v.missed = p.missed \cup {w} /\ v.open = p.open /\ v.kind = p.kind
        /\ v.todo = p.todo /\ v.channel = p.channel /\ v.view = p.view
    BY <2>2 DEF PageType
  <2> HIDE DEF v
  <2>4. PageOK(v)
    BY <1>0, <2>3 DEF PageOK, Shape
  <2>5. HasRead(v) => Forgiven(v)
    <3>1. CASE p.kind = "board"
      BY <2>3, <3>1 DEF Forgiven
    <3>2. CASE p.kind = "tracking"
      <4>1. HasRead(v) => p.channel = "asked"
        BY <1>0, <1>3, <2>3, <3>2, ScriptFacts DEF HasRead, Shape
      <4> QED BY <2>3, <3>2, <4>1 DEF Forgiven, Excused
    <3> QED BY <1>0, <3>1, <3>2
  <2> QED BY <2>1, <2>3, <2>4, <2>5
<1> QED BY <1>0, <1>1, <1>2, <1>3

LEMMA LostPage ==
  ASSUME NEW p \in PageType, PageOK(p)
  PROVE  LET v == [p EXCEPT !.missed = @ \cup {"lost"}] IN
         v \in PageType /\ PageOK(v) /\ Forgiven(v)
<1> DEFINE v == [p EXCEPT !.missed = @ \cup {"lost"}]
<1>0. p.missed \cup {"lost"} \in SUBSET {"lost", "gap", "late"}
  BY PageShape
<1>1. /\ v \in PageType /\ v.missed = p.missed \cup {"lost"} /\ v.open = p.open
      /\ v.kind = p.kind /\ v.todo = p.todo /\ v.channel = p.channel /\ v.view = p.view
  BY <1>0 DEF PageType
<1> HIDE DEF v
<1>2. PageOK(v) /\ Forgiven(v)
  BY <1>1 DEF PageOK, Shape, Forgiven, Excused
<1> QED BY <1>1, <1>2 DEF v

(* A page the message of an order makes read again.                        *)
LEMMA FreshHeard ==
  ASSUME NEW p \in PageType, PageOK(p)
  PROVE  Fresh(Heard(p))'
<1>1. HasRead(Heard(p)) => Heard(p).inbox > 0 \/ Forgiven(Heard(p))
  BY HeardPage
<1> QED BY <1>1 DEF Fresh, NewsComing, HasRead, Forgiven, Excused, Heard

(* A step of the order service, from what it does to each page.            *)
LEMMA ServiceStep ==
  ASSUME TypeOK, TypeOK', PagesInv, connects' = connects,
         page' = [k \in Page |-> page'[k]],
         \A k \in Page : page'[k] \in PageType /\ PageOK(page'[k]) /\ Fresh(page[k])'
  PROVE  PagesInv'
<1>1. page' \in [Page -> PageType]
  OBVIOUS
<1>2. \A k \in Page : PageOK(page[k])'
  BY DEF PageOK, Shape
<1> QED BY <1>1, <1>2 DEF PagesInv

(* Which debts a step of the service keeps.                                *)
LEMMA DebtsKept ==
  ASSUME TypeOK, NEW r \in Request, NEW p \in PageType,
         \A s \in Request \ {r} : req'[s] = req[s],
         Owes(r, p) => Owes(r, p)'
  PROVE  \A s \in Request : Owes(s, p) => Owes(s, p)'
  BY DEF Owes


LEMMA WorksKeeps ==
  ASSUME TypeOK, PagesInv, NEW r \in Request, Works(r)
  PROVE  TypeOK' /\ PagesInv'
<1>0. TypeOK' /\ page' = page /\ connects' = connects
  BY TypeStep DEF Works, Next, Step
<1>1. \A k \in Page : page[k] \in PageType /\ PageOK(page[k]) /\ Fresh(page[k])
  BY DEF PagesInv
<1>2. ASSUME NEW p \in PageType, Fresh(p)
      PROVE  Fresh(p)'
  <2>1. CASE Begin(r) \/ Load(r) \/ Flush(r)
    <3>1. status' = status /\ ~Owes(r, p) /\ \A s \in Request \ {r} : req'[s] = req[s]
      <4>1. CASE Begin(r)
        BY <4>1 DEF Begin, Owes, TypeOK
      <4>2. CASE Load(r)
        BY <4>2 DEF Load, Owes, TypeOK, Finish
      <4>3. CASE Flush(r)
        BY <4>3 DEF Flush, Owes, TypeOK, Goto
      <4> QED BY <2>1, <4>1, <4>2, <4>3
    <3>2. \A s \in Request : Owes(s, p) => Owes(s, p)'
      BY <3>1, DebtsKept
    <3> QED BY <1>0, <1>2, <3>1, <3>2, FreshKept
  <2>2. CASE Commit(r)
    <3> DEFINE o == req[r].order
    <3>1. /\ req[r].stage = "commit" /\ req[r] # Idle /\ o \in Order
          /\ req' = [req EXCEPT ![r] = [req[r] EXCEPT !.stage = "publish_status"]]
      <4>1. req[r].stage = "commit"
        BY <2>2 DEF Commit
      <4>2. req[r] # Idle
        BY <4>1, StageNotIdle DEF Stage
      <4>3. req' = [req EXCEPT ![r].stage = "publish_status"]
        BY <2>2 DEF Commit, Goto
      <4> QED BY <4>1, <4>2, <4>3, InFlightWhen DEF TypeOK
    <3>2. /\ req'[r].stage = "publish_status" /\ req'[r].order = o
          /\ \A s \in Request \ {r} : req'[s] = req[s]
      BY <3>1, InFlightWhen DEF TypeOK, InFlight
    <3>3. CASE o \in Watched(p)
      <4>1. req'[r] # Idle
        BY <3>2 DEF Idle
      <4>2. Owes(r, p)'
        BY <3>2, <3>3, <4>1 DEF Owes, Watched
      <4> QED BY <4>2, FreshOwed
    <3>4. CASE o \notin Watched(p)
      <4>1. \A x \in Watched(p) : status'[x] = status[x]
        BY <2>2, <3>4, PageShape DEF Commit, UpdateStatus, TypeOK
      <4>2. ~Owes(r, p)
        BY <3>4 DEF Owes
      <4>3. \A s \in Request : Owes(s, p) => Owes(s, p)'
        BY <3>2, <4>2, DebtsKept
      <4> QED BY <1>0, <1>2, <4>1, <4>3, FreshKept
    <3> QED BY <3>3, <3>4
  <2> QED BY <2>1, <2>2 DEF Works
<1>3. \A k \in Page : \A p \in PageType : page'[k] = p => (Fresh(p) => Fresh(page[k])')
  BY <1>2
<1>4. \A k \in Page : Fresh(page[k])'
  BY <1>0, <1>1, <1>3
<1> QED BY <1>0, <1>1, <1>4 DEF PagesInv, PageOK, Shape

(* A message of one kind is published, and what the request owed with it.  *)
LEMMA ToldKeeps ==
  ASSUME TypeOK, TypeOK', PagesInv, NEW r \in Request, NEW kind \in Kind,
         req[r] # Idle, Told(kind, r), connects' = connects, status' = status,
         \A s \in Request \ {r} : req'[s] = req[s],
         \A p \in PageType : p.kind # kind \/ req[r].order \notin Watched(p) =>
                               (Owes(r, p) => Owes(r, p)')
  PROVE  PagesInv'
<1>1. page' = [k \in Page |->
             IF page[k].kind = kind /\ req[r].order \in Watched(page[k])
             THEN Heard(page[k]) ELSE page[k]]
  BY DEF Told
<1>2. \A k \in Page : page[k] \in PageType /\ PageOK(page[k]) /\ Fresh(page[k])
  BY DEF PagesInv
<1>3. ASSUME NEW p \in PageType, PageOK(p), Fresh(p),
             p.kind # kind \/ req[r].order \notin Watched(p)
      PROVE  Fresh(p)'
  <2>1. \A s \in Request : Owes(s, p) => Owes(s, p)'
    BY <1>3, DebtsKept
  <2> QED BY <1>3, <2>1, FreshKept
<1>4. \A p \in PageType : PageOK(p) => /\ Heard(p) \in PageType /\ PageOK(Heard(p))
                                       /\ Fresh(Heard(p))'
  BY HeardPage, FreshHeard
<1>5. ASSUME NEW k \in Page
      PROVE  page'[k] \in PageType /\ PageOK(page'[k]) /\ Fresh(page[k])'
  <2>1. CASE page[k].kind = kind /\ req[r].order \in Watched(page[k])
    <3>1. page'[k] = Heard(page[k])
      BY <1>1, <2>1
    <3>2. \A p \in PageType : page[k] = p /\ PageOK(p) => Fresh(page[k])'
      <4> SUFFICES ASSUME NEW p \in PageType, page[k] = p, PageOK(p)
                   PROVE  Fresh(page[k])'
        OBVIOUS
      <4>1. page'[k] = Heard(p) /\ Fresh(Heard(p))'
        BY <1>4, <3>1
      <4> QED BY <4>1
    <3> QED BY <1>2, <1>4, <3>1, <3>2
  <2>2. CASE ~(page[k].kind = kind /\ req[r].order \in Watched(page[k]))
    <3>1. page'[k] = page[k]
      BY <1>1, <2>2
    <3>2. \A p \in PageType : page[k] = p /\ PageOK(p) /\ Fresh(p) => Fresh(page[k])'
      BY <1>3, <2>2, <3>1
    <3> QED BY <1>2, <3>1, <3>2
  <2> QED BY <2>1, <2>2
<1> QED BY <1>1, <1>5, ServiceStep

LEMMA TellKeeps ==
  ASSUME TypeOK, PagesInv, NEW r \in Request, TellTracking(r) \/ TellBoard(r)
  PROVE  TypeOK' /\ PagesInv'
<1>0. TypeOK'
  BY TypeStep DEF TellTracking, TellBoard, Next, Step
<1>1. CASE TellTracking(r)
  <2>1. /\ req[r].stage = "publish_status" /\ req[r] # Idle
        /\ req' = [req EXCEPT ![r] = [req[r] EXCEPT !.stage = "publish_board"]]
        /\ status' = status /\ connects' = connects /\ Told("tracking", r)
    BY <1>1, StageNotIdle DEF TellTracking, PublishStatus, Goto, TypeOK, Stage
  <2>2. /\ req'[r].stage = "publish_board" /\ req'[r].order = req[r].order
        /\ \A s \in Request \ {r} : req'[s] = req[s]
    BY <2>1, InFlightWhen DEF TypeOK, InFlight
  <2>3. req'[r] # Idle
    BY <2>2 DEF Idle
  <2>4. \A p \in PageType : p.kind # "tracking" \/ req[r].order \notin Watched(p) =>
                              (Owes(r, p) => Owes(r, p)')
    BY <2>2, <2>3, PageShape DEF Owes, Watched
  <2>5. "tracking" \in Kind
    BY DEF Kind, Script
  <2> QED BY <1>0, <2>1, <2>2, <2>4, <2>5, ToldKeeps
<1>2. CASE TellBoard(r)
  <2>1. /\ req[r].stage = "publish_board" /\ req[r] # Idle
        /\ req' = [req EXCEPT ![r] = Idle]
        /\ status' = status /\ connects' = connects /\ Told("board", r)
    BY <1>2, StageNotIdle DEF TellBoard, PublishBoard, Finish, TypeOK, Stage
  <2>2. \A s \in Request \ {r} : req'[s] = req[s]
    BY <2>1 DEF TypeOK
  <2>3. \A p \in PageType : p.kind # "board" \/ req[r].order \notin Watched(p) =>
                              (Owes(r, p) => Owes(r, p)')
    BY <2>1 DEF Owes
  <2>4. "board" \in Kind
    BY DEF Kind, Script
  <2> QED BY <1>0, <2>1, <2>2, <2>3, <2>4, ToldKeeps
<1> QED BY <1>1, <1>2

(* A request that dies before it has told leaves its cause on the page.    *)
LEMMA FailsKeeps ==
  ASSUME TypeOK, PagesInv, NEW r \in Request, Fails(r)
  PROVE  TypeOK' /\ PagesInv'
<1>0. TypeOK'
  BY TypeStep DEF Fails, Next
<1>1. /\ req' = [req EXCEPT ![r] = Idle] /\ status' = status /\ connects' = connects
      /\ page' = [k \in Page |->
                IF page[k].open /\ Owes(r, page[k])
                THEN [page[k] EXCEPT !.missed = @ \cup {"lost"}] ELSE page[k]]
  BY DEF Fails, Abort, Finish
<1>2. \A s \in Request \ {r} : req'[s] = req[s]
  BY <1>1 DEF TypeOK
<1>3. \A k \in Page : page[k] \in PageType /\ PageOK(page[k]) /\ Fresh(page[k])
  BY DEF PagesInv
<1>4. ASSUME NEW p \in PageType, PageOK(p), Fresh(p), ~(p.open /\ Owes(r, p))
      PROVE  Fresh(p)'
  <2>1. CASE p.open
    <3>1. \A s \in Request : Owes(s, p) => Owes(s, p)'
      BY <1>2, <1>4, <2>1, DebtsKept
    <3> QED BY <1>0, <1>1, <1>4, <3>1, FreshKept
  <2>2. CASE ~p.open
    BY <2>2 DEF Fresh, HasRead
  <2> QED BY <2>1, <2>2
<1>5. ASSUME NEW p \in PageType, PageOK(p)
      PROVE  LET v == [p EXCEPT !.missed = @ \cup {"lost"}] IN
             v \in PageType /\ PageOK(v) /\ Fresh(v)'
  <2> DEFINE v == [p EXCEPT !.missed = @ \cup {"lost"}]
  <2>1. v \in PageType /\ PageOK(v) /\ Forgiven(v)
    BY <1>5, LostPage
  <2> HIDE DEF v
  <2>2. Fresh(v)'
    BY <2>1 DEF Fresh, Forgiven, Excused
  <2> QED BY <2>1, <2>2 DEF v
<1>6. ASSUME NEW k \in Page
      PROVE  page'[k] \in PageType /\ PageOK(page'[k]) /\ Fresh(page[k])'
  <2>1. CASE page[k].open /\ Owes(r, page[k])
    <3> SUFFICES ASSUME NEW p \in PageType, page[k] = p, PageOK(p)
                 PROVE  page'[k] \in PageType /\ PageOK(page'[k]) /\ Fresh(page[k])'
      BY <1>3
    <3> DEFINE v == [p EXCEPT !.missed = @ \cup {"lost"}]
    <3>1. page'[k] = v
      BY <1>1, <2>1
    <3>2. v \in PageType /\ PageOK(v) /\ Fresh(v)'
      BY <1>5
    <3> QED BY <3>1, <3>2
  <2>2. CASE ~(page[k].open /\ Owes(r, page[k]))
    <3>1. page'[k] = page[k]
      BY <1>1, <2>2
    <3>2. \A p \in PageType : page[k] = p /\ PageOK(p) /\ Fresh(p) => Fresh(page[k])'
      BY <1>4, <2>2, <3>1
    <3> QED BY <1>3, <3>1, <3>2
  <2> QED BY <2>1, <2>2
<1> QED BY <1>0, <1>1, <1>6, ServiceStep

-----------------------------------------------------------------------------
LEMMA PagesInit == TrackingInit => TypeOK /\ PagesInv
<1> SUFFICES ASSUME TrackingInit PROVE TypeOK /\ PagesInv
  OBVIOUS
<1>1. TypeOK
  BY TypeInit DEF TrackingInit
<1>2. ASSUME NEW kind \in Kind, NEW o \in Order
      PROVE  LET v == NewPage(kind, o) IN v \in PageType /\ PageOK(v) /\ Fresh(v)
  <2> DEFINE v == NewPage(kind, o)
  <2>1. /\ v \in PageType /\ v.open = FALSE /\ v.todo = <<>> /\ v.channel = "off"
        /\ v.view \in [Order -> Columns \cup {"nothing"}]
    BY ScriptFacts DEF NewPage, PageType
  <2> HIDE DEF v
  <2>2. PageOK(v) /\ Fresh(v)
    BY <2>1 DEF PageOK, Shape, Fresh, HasRead
  <2> QED BY <2>1, <2>2 DEF v
<1>3. \A k \in Page : page[k] \in PageType /\ PageOK(page[k]) /\ Fresh(page[k])
  BY <1>2 DEF TrackingInit
<1>4. page \in [Page -> PageType]
  BY <1>3 DEF TrackingInit
<1>5. connects \in 0..MaxConnects
  BY TrackingAssumption DEF TrackingInit
<1> QED BY <1>1, <1>3, <1>4, <1>5 DEF PagesInv

LEMMA PagesNext == TypeOK /\ PagesInv /\ [TrackingNext]_tvars => TypeOK' /\ PagesInv'
<1> SUFFICES ASSUME TypeOK, PagesInv, [TrackingNext]_tvars
             PROVE  TypeOK' /\ PagesInv'
  OBVIOUS
<1>1. CASE UNCHANGED tvars
  <2>1. UNCHANGED vars /\ page' = page /\ connects' = connects /\ req' = req /\ status' = status
    BY <1>1 DEF tvars, vars
  <2>2. TypeOK'
    BY <2>1 DEF vars, TypeOK
  <2>3. \A p \in PageType : Fresh(p) => Fresh(p)'
    <3>1. \A r \in Request, p \in PageType : Owes(r, p) => Owes(r, p)'
      BY <2>1 DEF Owes, Watched
    <3> QED BY <2>1, <2>2, <3>1, FreshKept
  <2>4. \A k \in Page : \A p \in PageType : page[k] = p /\ Fresh(p) => Fresh(page[k])'
    BY <2>1, <2>3
  <2> QED BY <2>1, <2>2, <2>4 DEF PagesInv, PageOK, Shape
<1>2. CASE TrackingNext
  BY <1>2, PageSteps, WorksKeeps, TellKeeps, FailsKeeps DEF TrackingNext
<1> QED BY <1>1, <1>2

LEMMA PagesInvSound == PagesInv => PagesInSync
<1> SUFFICES ASSUME PagesInv PROVE PagesInSync
  OBVIOUS
<1>1. TrackingTypeOK
  BY DEF PagesInv, PageOK, TrackingTypeOK
<1>2. \A k \in Page : Waits(page[k]) => Current(page[k]) \/ NewsComing(page[k]) \/ Forgiven(page[k])
  BY DEF PagesInv, Fresh, HasRead, Waits
<1>3. TrackerInSync /\ BoardInSync
  BY <1>2 DEF TrackerInSync, BoardInSync, Forgiven
<1> QED BY <1>1, <1>3 DEF PagesInSync

(* For any number of orders, requests and pages, and whatever is committed *)
(* while a page connects: a page that waits shows the orders as they are,  *)
(* or has news coming, or has missed a message for one of the reasons.     *)
THEOREM PagesStayInSync == TrackingSpec => []PagesInSync
<1>1. TrackingInit => TypeOK /\ PagesInv
  BY PagesInit
<1>2. (TypeOK /\ PagesInv) /\ [TrackingNext]_tvars => (TypeOK /\ PagesInv)'
  BY PagesNext
<1>3. PagesInv => PagesInSync
  BY PagesInvSound
<1> QED BY <1>1, <1>2, <1>3, PTL DEF TrackingSpec
=============================================================================
