---------------------------- MODULE OutboxProofs ----------------------------
(***************************************************************************)
(* Proofs about the transactional outbox, for any rows, workers, batches   *)
(* and faults.                                                             *)
(***************************************************************************)
EXTENDS OutboxProps, DeliveryProps, FiniteSetTheorems, TLAPS

(* Which variables of a row and of a batch each step may change.           *)
LEMMA TaskShape ==
  ASSUME OutboxTypeOK, NEW w \in Worker
  PROVE  /\ task[w] \in Task
         /\ task[w].todo \in SUBSET Event
         /\ task[w].ok \in SUBSET Event
         /\ task[w].failed \in SUBSET Event
  BY DEF OutboxTypeOK, Task

LEMMA MarkOkEffect ==
  ASSUME OutboxTypeOK, NEW w \in Worker, NEW e \in Event, MarkOk(w, e)
  PROVE  /\ task' \in [Worker -> Task]
         /\ task'[w].todo = task[w].todo \ {e}
         /\ task'[w].ok = task[w].ok \cup {e}
         /\ \A v \in Worker \ {w} : task'[v] = task[v]
  BY TaskShape DEF MarkOk, OutboxTypeOK, Task

LEMMA MarkFailedEffect ==
  ASSUME OutboxTypeOK, NEW w \in Worker, NEW e \in Event, MarkFailed(w, e)
  PROVE  /\ task' \in [Worker -> Task]
         /\ task'[w].todo = task[w].todo \ {e}
         /\ task'[w].ok = task[w].ok
         /\ \A v \in Worker \ {w} : task'[v] = task[v]
  BY TaskShape DEF MarkFailed, OutboxTypeOK, Task

LEMMA PollEffect ==
  ASSUME OutboxTypeOK, NEW w \in Worker, Poll(w)
  PROVE  /\ task' \in [Worker -> Task]
         /\ task[w].todo = {} /\ task[w].ok = {} /\ task'[w].ok = {}
         /\ \A e \in task'[w].todo : row[e] = "PENDING"
         /\ \A v \in Worker \ {w} : task'[v] = task[v]
<1>1. PICK B \in SUBSET Due : task' = [task EXCEPT ![w].todo = B]
  BY DEF Poll
<1>2. B \in SUBSET Event /\ \A e \in B : row[e] = "PENDING"
  BY DEF Due
<1>3. task[w] = Sleeping /\ task \in [Worker -> Task]
  BY DEF Poll, OutboxTypeOK
<1>4. /\ task'[w] = [task[w] EXCEPT !.todo = B]
      /\ \A v \in Worker \ {w} : task'[v] = task[v]
      /\ task' = [task EXCEPT ![w] = [task[w] EXCEPT !.todo = B]]
  BY <1>1, <1>3
<1>5. /\ [task[w] EXCEPT !.todo = B] \in Task
      /\ task[w].todo = {} /\ task[w].ok = {}
      /\ task'[w].todo = B /\ task'[w].ok = {}
  BY <1>2, <1>3, <1>4 DEF Sleeping, Task
<1> QED BY <1>2, <1>3, <1>4, <1>5

(* The worker that sleeps again has forgotten its batch.                   *)
LEMMA SleepEffect ==
  ASSUME OutboxTypeOK, NEW w \in Worker, task' = [task EXCEPT ![w] = Sleeping]
  PROVE  /\ task' \in [Worker -> Task]
         /\ task'[w].todo = {} /\ task'[w].ok = {}
         /\ \A v \in Worker \ {w} : task'[v] = task[v]
  BY DEF OutboxTypeOK, Task, Sleeping

LEMMA PublishOnce ==
  ASSUME OutboxTypeOK, NEW e \in Event, sent' = [sent EXCEPT ![e] = @ + 1]
  PROVE  /\ sent' \in [Event -> Nat]
         /\ sent'[e] = sent[e] + 1
         /\ \A f \in Event \ {e} : sent'[f] = sent[f]
  BY DEF OutboxTypeOK

-----------------------------------------------------------------------------
LEMMA TypeInit == OutboxInit => OutboxTypeOK
  BY DEF OutboxInit, OutboxTypeOK, Task, Sleeping

LEMMA TypeStep == OutboxTypeOK /\ [OutboxNext]_outbox_vars => OutboxTypeOK'
<1> SUFFICES ASSUME OutboxTypeOK, [OutboxNext]_outbox_vars
             PROVE  OutboxTypeOK'
  OBVIOUS
<1>1. ASSUME NEW e \in Event, Enqueue(e) \/ DelayPasses(e)
      PROVE  OutboxTypeOK'
  BY <1>1 DEF Enqueue, DelayPasses, OutboxTypeOK
<1>2. ASSUME NEW w \in Worker, Poll(w)
      PROVE  OutboxTypeOK'
  BY <1>2, PollEffect DEF Poll, OutboxTypeOK
<1>3. ASSUME NEW w \in Worker, CommitBatch(w)
      PROVE  OutboxTypeOK'
  <2>1. task' = [task EXCEPT ![w] = Sleeping]
    BY <1>3 DEF CommitBatch
  <2>2. task' \in [Worker -> Task]
    BY <2>1, SleepEffect
  <2>3. row' \in [Event -> {"none", "PENDING", "PUBLISHED"}]
    BY <1>3 DEF CommitBatch, RowAfter, OutboxTypeOK
  <2>4. due' \in [Event -> BOOLEAN]
    BY <1>3 DEF CommitBatch
  <2>5. UNCHANGED <<up, sent, faults, outages>>
    BY <1>3 DEF CommitBatch
  <2> QED BY <2>2, <2>3, <2>4, <2>5 DEF OutboxTypeOK
<1>4. ASSUME NEW w \in Worker, TickFails(w)
      PROVE  OutboxTypeOK'
  <2>1. task' = [task EXCEPT ![w] = Sleeping]
    BY <1>4 DEF TickFails
  <2>2. task' \in [Worker -> Task]
    BY <2>1, SleepEffect
  <2> QED BY <1>4, <2>2 DEF TickFails, OutboxTypeOK
<1>5. ASSUME NEW w \in Worker, NEW e \in Event, PublishConfirmed(w, e)
      PROVE  OutboxTypeOK'
  BY <1>5, MarkOkEffect, PublishOnce DEF PublishConfirmed, OutboxTypeOK
<1>6. ASSUME NEW w \in Worker, NEW e \in Event, PublishUnconfirmed(w, e)
      PROVE  OutboxTypeOK'
  BY <1>6, MarkFailedEffect, PublishOnce DEF PublishUnconfirmed, OutboxTypeOK
<1>7. ASSUME NEW w \in Worker, NEW e \in Event, PublishFailed(w, e)
      PROVE  OutboxTypeOK'
  BY <1>7, MarkFailedEffect DEF PublishFailed, OutboxTypeOK
<1>8. CASE BrokerDown \/ BrokerUp
  <2>1. up' \in BOOLEAN
    BY <1>8 DEF BrokerDown, BrokerUp
  <2>2. outages' \in Nat
    BY <1>8 DEF BrokerDown, BrokerUp, OutboxTypeOK
  <2> QED BY <1>8, <2>1, <2>2 DEF BrokerDown, BrokerUp, OutboxTypeOK
<1>9. CASE UNCHANGED outbox_vars
  BY <1>9 DEF outbox_vars, OutboxTypeOK
<1> QED BY <1>1, <1>2, <1>3, <1>4, <1>5, <1>6, <1>7, <1>8, <1>9 DEF OutboxNext, Publish

(* The state of the outbox keeps its type in every behaviour.              *)
THEOREM OutboxTypeCorrect == OutboxSpec => []OutboxTypeOK
<1>1. OutboxInit => OutboxTypeOK
  BY TypeInit
<1>2. OutboxTypeOK /\ [OutboxNext]_outbox_vars => OutboxTypeOK'
  BY TypeStep
<1> QED BY <1>1, <1>2, PTL DEF OutboxSpec

-----------------------------------------------------------------------------
(* PublishedWasSent is not inductive: a batch remembers what it published  *)
(* until it is committed, and the broker must have had that too.           *)
HeldWasSent == \A w \in Worker : \A e \in task[w].ok : sent[e] > 0

SentInv == PublishedWasSent /\ HeldWasSent

LEMMA SentInit == OutboxInit => SentInv
  BY DEF OutboxInit, SentInv, PublishedWasSent, HeldWasSent, Sleeping

LEMMA SentStep == OutboxTypeOK /\ SentInv /\ [OutboxNext]_outbox_vars => SentInv'
<1> SUFFICES ASSUME OutboxTypeOK, SentInv, [OutboxNext]_outbox_vars
             PROVE  SentInv'
  OBVIOUS
<1> USE DEF SentInv, PublishedWasSent, HeldWasSent
<1>1. ASSUME NEW e \in Event, Enqueue(e) \/ DelayPasses(e)
      PROVE  SentInv'
  BY <1>1 DEF Enqueue, DelayPasses, OutboxTypeOK
<1>2. ASSUME NEW w \in Worker, Poll(w)
      PROVE  SentInv'
  BY <1>2, PollEffect DEF Poll
<1>3. ASSUME NEW w \in Worker, CommitBatch(w)
      PROVE  SentInv'
  <2>1. task' = [task EXCEPT ![w] = Sleeping] /\ UNCHANGED sent
    BY <1>3 DEF CommitBatch
  <2>2. HeldWasSent'
    BY <2>1, SleepEffect
  <2>3. PublishedWasSent'
    BY <1>3, <2>1 DEF CommitBatch, RowAfter
  <2> QED BY <2>2, <2>3
<1>4. ASSUME NEW w \in Worker, TickFails(w)
      PROVE  SentInv'
  BY <1>4, SleepEffect DEF TickFails
<1>5. ASSUME NEW w \in Worker, NEW e \in Event, PublishConfirmed(w, e)
      PROVE  SentInv'
  <2>1. MarkOk(w, e) /\ sent' = [sent EXCEPT ![e] = @ + 1] /\ UNCHANGED row
    BY <1>5 DEF PublishConfirmed
  <2>2. \A f \in Event : sent[f] > 0 => sent'[f] > 0
    BY <2>1, PublishOnce DEF OutboxTypeOK
  <2>3. sent'[e] > 0
    BY <2>1, PublishOnce DEF OutboxTypeOK
  <2>4. \A v \in Worker : task[v].ok \subseteq Event
    BY TaskShape
  <2> QED BY <2>1, <2>2, <2>3, <2>4, MarkOkEffect
<1>6. ASSUME NEW w \in Worker, NEW e \in Event, PublishUnconfirmed(w, e)
      PROVE  SentInv'
  <2>1. MarkFailed(w, e) /\ sent' = [sent EXCEPT ![e] = @ + 1] /\ UNCHANGED row
    BY <1>6 DEF PublishUnconfirmed
  <2>2. \A f \in Event : sent[f] > 0 => sent'[f] > 0
    BY <2>1, PublishOnce DEF OutboxTypeOK
  <2>3. \A v \in Worker : task[v].ok \subseteq Event
    BY TaskShape
  <2> QED BY <2>1, <2>2, <2>3, MarkFailedEffect
<1>7. ASSUME NEW w \in Worker, NEW e \in Event, PublishFailed(w, e)
      PROVE  SentInv'
  BY <1>7, MarkFailedEffect DEF PublishFailed
<1>8. CASE BrokerDown \/ BrokerUp
  BY <1>8 DEF BrokerDown, BrokerUp
<1>9. CASE UNCHANGED outbox_vars
  BY <1>9 DEF outbox_vars
<1> QED BY <1>1, <1>2, <1>3, <1>4, <1>5, <1>6, <1>7, <1>8, <1>9 DEF OutboxNext, Publish

(* Whatever outages, crashes and overlapping batches, a row is marked      *)
(* PUBLISHED only after the broker accepted its message.                   *)
THEOREM OutboxPublishedWasSent == OutboxSpec => []PublishedWasSent
<1>1. OutboxInit => OutboxTypeOK /\ SentInv
  BY TypeInit, SentInit
<1>2. OutboxTypeOK /\ SentInv /\ [OutboxNext]_outbox_vars => (OutboxTypeOK /\ SentInv)'
  BY TypeStep, SentStep
<1>3. SentInv => PublishedWasSent
  BY DEF SentInv
<1> QED BY <1>1, <1>2, <1>3, PTL DEF OutboxSpec

(* A stale batch never takes a PUBLISHED row back.                         *)
THEOREM OutboxPublishedIsFinal == OutboxSpec => PublishedIsFinal
<1> DEFINE Final == \A e \in Event : row[e] = "PUBLISHED" => row'[e] = "PUBLISHED"
<1>1. ASSUME OutboxTypeOK, [OutboxNext]_outbox_vars
      PROVE  [Final]_outbox_vars
  <2>1. ASSUME NEW e \in Event, Enqueue(e)
        PROVE  Final
    BY <1>1, <2>1 DEF Enqueue, OutboxTypeOK
  <2>2. ASSUME NEW w \in Worker, CommitBatch(w)
        PROVE  Final
    BY <2>2 DEF CommitBatch, RowAfter
  <2>3. CASE UNCHANGED row
    BY <2>3
  <2> QED BY <1>1, <2>1, <2>2, <2>3
      DEF OutboxNext, Publish, Poll, TickFails, DelayPasses, PublishConfirmed,
          PublishUnconfirmed, PublishFailed, BrokerDown, BrokerUp, outbox_vars
<1>2. OutboxTypeOK /\ [OutboxNext]_outbox_vars => [Final]_outbox_vars
  BY <1>1
<1> QED BY <1>2, OutboxTypeCorrect, PTL DEF OutboxSpec, PublishedIsFinal

-----------------------------------------------------------------------------
(* CopiesHaveCause counts the copies of a row against workers.  Until the  *)
(* row is PUBLISHED each copy but those of faults is in the ok part of a   *)
(* batch; afterwards nobody polls the row again, and the workers that have *)
(* not published their copy of it are copies still to come.                *)
Achieved(e) == {w \in Worker : e \in task[w].ok}
Spent(e) == {w \in Worker : e \notin task[w].todo}
Credit(e) == IF row[e] = "PUBLISHED" THEN Spent(e) ELSE Achieved(e)

Tidy == \A w \in Worker : task[w].todo \cap task[w].ok = {}

CopiesBounded == \A e \in Event : sent[e] <= Cardinality(Credit(e)) + faults

CopiesInv == Tidy /\ CopiesBounded

LEMMA CreditGrows ==
  ASSUME IsFiniteSet(Worker), NEW S \in SUBSET Worker, NEW T \in SUBSET Worker
  PROVE  /\ Cardinality(S) \in Nat /\ Cardinality(T) \in Nat
         /\ S \subseteq T => Cardinality(S) <= Cardinality(T)
         /\ \A w \in T : w \notin S /\ S \subseteq T => Cardinality(S) + 1 <= Cardinality(T)
         /\ \A w : S \subseteq T \cup {w} => Cardinality(S) <= Cardinality(T) + 1
<1>1. IsFiniteSet(S) /\ IsFiniteSet(T)
  BY FS_Subset
<1>2. Cardinality(S) \in Nat /\ Cardinality(T) \in Nat
  BY <1>1, FS_CardinalityType
<1>3. S \subseteq T => Cardinality(S) <= Cardinality(T)
  BY <1>1, FS_Subset
<1>4. ASSUME NEW w \in T, w \notin S, S \subseteq T
      PROVE  Cardinality(S) + 1 <= Cardinality(T)
  <2>1. Cardinality(S \cup {w}) = Cardinality(S) + 1
    BY <1>1, <1>4, FS_AddElement
  <2>2. Cardinality(S \cup {w}) <= Cardinality(T)
    BY <1>1, <1>4, FS_Subset
  <2> QED BY <2>1, <2>2
<1>5. ASSUME NEW w, S \subseteq T \cup {w}
      PROVE  Cardinality(S) <= Cardinality(T) + 1
  <2>1. IsFiniteSet(T \cup {w}) /\ Cardinality(T \cup {w}) <= Cardinality(T) + 1
    BY <1>1, <1>2, FS_AddElement
  <2>2. Cardinality(S) <= Cardinality(T \cup {w})
    BY <1>5, <2>1, FS_Subset
  <2>3. Cardinality(T \cup {w}) \in Nat
    BY <2>1, FS_CardinalityType
  <2> QED BY <1>2, <2>1, <2>2, <2>3
<1> QED BY <1>2, <1>3, <1>4, <1>5

LEMMA CopiesInit == OutboxInit => CopiesInv
<1> SUFFICES ASSUME OutboxInit
             PROVE  CopiesInv
  OBVIOUS
<1>1. Tidy
  BY DEF OutboxInit, Tidy, Sleeping
<1>2. ASSUME NEW e \in Event
      PROVE  sent[e] <= Cardinality(Credit(e)) + faults
  <2>1. Credit(e) \in SUBSET Worker
    BY DEF Credit, Spent, Achieved
  <2>2. Cardinality(Credit(e)) \in Nat
    BY <2>1, CreditGrows, OutboxAssumption
  <2> QED BY <2>2 DEF OutboxInit
<1> QED BY <1>1, <1>2 DEF CopiesInv, CopiesBounded

(* The four ways in which a step may disturb the count of a row.           *)
LEMMA CopiesCount ==
  ASSUME OutboxTypeOK, OutboxTypeOK', CopiesBounded, NEW e \in Event,
         \/ /\ sent'[e] = sent[e] /\ faults' = faults
            /\ Credit(e) \subseteq Credit(e)'
         \/ /\ sent'[e] = sent[e] + 1 /\ faults' = faults
            /\ Credit(e) \subseteq Credit(e)'
            /\ \E w \in Credit(e)' : w \notin Credit(e)
         \/ /\ sent'[e] <= sent[e] + 1 /\ faults' = faults + 1
            /\ Credit(e) \subseteq Credit(e)'
         \/ /\ sent'[e] = sent[e] /\ faults' = faults + 1
            /\ \E w \in Worker : Credit(e) \subseteq Credit(e)' \cup {w}
  PROVE  (sent[e] <= Cardinality(Credit(e)) + faults)'
<1> DEFINE S == Credit(e)
           T == Credit(e)'
<1>1. S \in SUBSET Worker /\ T \in SUBSET Worker
  BY DEF Credit, Spent, Achieved
<1>2. sent[e] <= Cardinality(S) + faults
  BY DEF CopiesBounded
<1>3. sent[e] \in Nat /\ sent'[e] \in Nat /\ faults \in Nat /\ faults' \in Nat
  BY DEF OutboxTypeOK
<1> SUFFICES sent'[e] <= Cardinality(T) + faults'
  OBVIOUS
<1> HIDE DEF S, T
<1>4. /\ Cardinality(S) \in Nat /\ Cardinality(T) \in Nat
      /\ S \subseteq T => Cardinality(S) <= Cardinality(T)
      /\ \A w \in T : w \notin S /\ S \subseteq T => Cardinality(S) + 1 <= Cardinality(T)
      /\ \A w : S \subseteq T \cup {w} => Cardinality(S) <= Cardinality(T) + 1
  BY <1>1, CreditGrows, OutboxAssumption
<1>5. CASE sent'[e] = sent[e] /\ faults' = faults /\ S \subseteq T
  BY <1>2, <1>3, <1>4, <1>5
<1>6. CASE /\ sent'[e] = sent[e] + 1 /\ faults' = faults
           /\ S \subseteq T /\ \E w \in T : w \notin S
  BY <1>2, <1>3, <1>4, <1>6
<1>7. CASE sent'[e] <= sent[e] + 1 /\ faults' = faults + 1 /\ S \subseteq T
  BY <1>2, <1>3, <1>4, <1>7
<1>8. CASE sent'[e] = sent[e] /\ faults' = faults + 1 /\ \E w \in Worker : S \subseteq T \cup {w}
  BY <1>2, <1>3, <1>4, <1>8
<1> QED BY <1>5, <1>6, <1>7, <1>8 DEF S, T

LEMMA TidyStep == OutboxTypeOK /\ Tidy /\ [OutboxNext]_outbox_vars => Tidy'
<1> SUFFICES ASSUME OutboxTypeOK, Tidy, [OutboxNext]_outbox_vars
             PROVE  Tidy'
  OBVIOUS
<1> USE DEF Tidy
<1>1. ASSUME NEW w \in Worker, Poll(w)
      PROVE  Tidy'
  BY <1>1, PollEffect
<1>2. ASSUME NEW w \in Worker, CommitBatch(w) \/ TickFails(w)
      PROVE  Tidy'
  BY <1>2, SleepEffect DEF CommitBatch, TickFails
<1>3. ASSUME NEW w \in Worker, NEW e \in Event, MarkOk(w, e)
      PROVE  Tidy'
  BY <1>3, MarkOkEffect
<1>4. ASSUME NEW w \in Worker, NEW e \in Event, MarkFailed(w, e)
      PROVE  Tidy'
  BY <1>4, MarkFailedEffect
<1>5. CASE UNCHANGED task
  BY <1>5
<1> QED BY <1>1, <1>2, <1>3, <1>4, <1>5
    DEF OutboxNext, Publish, Enqueue, DelayPasses, PublishConfirmed, PublishUnconfirmed,
        PublishFailed, BrokerDown, BrokerUp, outbox_vars

LEMMA CopiesStep ==
  OutboxTypeOK /\ CopiesInv /\ [OutboxNext]_outbox_vars => CopiesInv'
<1> SUFFICES ASSUME OutboxTypeOK, CopiesInv, [OutboxNext]_outbox_vars, NEW f \in Event
             PROVE  (sent[f] <= Cardinality(Credit(f)) + faults)'
  BY TidyStep DEF CopiesInv, CopiesBounded
<1>0. OutboxTypeOK' /\ CopiesBounded /\ Tidy
  BY TypeStep DEF CopiesInv
<1> USE DEF Credit, Spent, Achieved
<1>1. ASSUME NEW e \in Event, Enqueue(e) \/ DelayPasses(e)
      PROVE  (sent[f] <= Cardinality(Credit(f)) + faults)'
  <2>1. UNCHANGED <<sent, faults, task>> /\ (row'[f] = "PUBLISHED" <=> row[f] = "PUBLISHED")
    BY <1>1 DEF Enqueue, DelayPasses, OutboxTypeOK
  <2>2. Credit(f)' = Credit(f)
    BY <2>1
  <2> QED BY <1>0, <2>1, <2>2, CopiesCount
<1>2. ASSUME NEW w \in Worker, Poll(w)
      PROVE  (sent[f] <= Cardinality(Credit(f)) + faults)'
  <2>1. UNCHANGED <<sent, faults, row>>
    BY <1>2 DEF Poll
  <2>2. Credit(f) \subseteq Credit(f)'
    BY <1>2, <2>1, PollEffect
  <2> QED BY <1>0, <2>1, <2>2, CopiesCount
<1>3. ASSUME NEW w \in Worker, CommitBatch(w)
      PROVE  (sent[f] <= Cardinality(Credit(f)) + faults)'
  <2>1. UNCHANGED <<sent, faults>> /\ task' = [task EXCEPT ![w] = Sleeping]
        /\ task[w].todo = {}
    BY <1>3 DEF CommitBatch
  <2>2. row'[f] = RowAfter(w, f)
    BY <1>3 DEF CommitBatch
  <2>3. Spent(f)' = Spent(f)
    BY <2>1, SleepEffect
  <2>4. Achieved(f) \subseteq Spent(f)
    BY <1>0 DEF Tidy
  <2>5. CASE row'[f] = "PUBLISHED"
    <3>1. Credit(f) \subseteq Credit(f)'
      BY <2>3, <2>4, <2>5
    <3> QED BY <1>0, <2>1, <3>1, CopiesCount
  <2>6. CASE row'[f] # "PUBLISHED"
    <3>1. row[f] # "PUBLISHED" /\ f \notin task[w].ok
      BY <2>2, <2>6 DEF RowAfter
    <3>2. Credit(f) \subseteq Credit(f)'
      BY <2>1, <2>6, <3>1, SleepEffect
    <3> QED BY <1>0, <2>1, <3>2, CopiesCount
  <2> QED BY <2>5, <2>6
<1>4. ASSUME NEW w \in Worker, TickFails(w)
      PROVE  (sent[f] <= Cardinality(Credit(f)) + faults)'
  <2>1. UNCHANGED <<sent, row>> /\ faults' = faults + 1 /\ task' = [task EXCEPT ![w] = Sleeping]
    BY <1>4 DEF TickFails
  <2>2. Credit(f) \subseteq Credit(f)' \cup {w}
    BY <2>1, SleepEffect
  <2> QED BY <1>0, <2>1, <2>2, CopiesCount
<1>5. ASSUME NEW w \in Worker, NEW e \in Event, PublishConfirmed(w, e)
      PROVE  (sent[f] <= Cardinality(Credit(f)) + faults)'
  <2>1. /\ MarkOk(w, e) /\ sent' = [sent EXCEPT ![e] = @ + 1]
        /\ UNCHANGED <<row, faults>> /\ e \in task[w].todo
    BY <1>5 DEF PublishConfirmed, NextInBatch
  <2>2. Credit(f) \subseteq Credit(f)'
    BY <2>1, MarkOkEffect
  <2>3. CASE f = e
    <3>1. w \in Credit(f)' /\ w \notin Credit(f)
      BY <1>0, <2>1, <2>3, MarkOkEffect DEF Tidy
    <3>2. sent'[f] = sent[f] + 1
      BY <2>1, <2>3, PublishOnce
    <3> QED BY <1>0, <2>1, <2>2, <3>1, <3>2, CopiesCount
  <2>4. CASE f # e
    <3>1. sent'[f] = sent[f]
      BY <2>1, <2>4, PublishOnce
    <3> QED BY <1>0, <2>1, <2>2, <3>1, CopiesCount
  <2> QED BY <2>3, <2>4
<1>6. ASSUME NEW w \in Worker, NEW e \in Event, PublishUnconfirmed(w, e)
      PROVE  (sent[f] <= Cardinality(Credit(f)) + faults)'
  <2>1. /\ MarkFailed(w, e) /\ sent' = [sent EXCEPT ![e] = @ + 1]
        /\ UNCHANGED row /\ faults' = faults + 1
    BY <1>6 DEF PublishUnconfirmed
  <2>2. Credit(f) \subseteq Credit(f)'
    BY <2>1, MarkFailedEffect
  <2>3. sent'[f] <= sent[f] + 1
    BY <2>1, PublishOnce DEF OutboxTypeOK
  <2> QED BY <1>0, <2>1, <2>2, <2>3, CopiesCount
<1>7. ASSUME NEW w \in Worker, NEW e \in Event, PublishFailed(w, e)
      PROVE  (sent[f] <= Cardinality(Credit(f)) + faults)'
  <2>1. MarkFailed(w, e) /\ UNCHANGED <<sent, row, faults>>
    BY <1>7 DEF PublishFailed
  <2>2. Credit(f) \subseteq Credit(f)'
    BY <2>1, MarkFailedEffect
  <2> QED BY <1>0, <2>1, <2>2, CopiesCount
<1>8. CASE UNCHANGED <<sent, row, faults, task>>
  <2>1. Credit(f)' = Credit(f)
    BY <1>8
  <2> QED BY <1>0, <1>8, <2>1, CopiesCount
<1> QED BY <1>1, <1>2, <1>3, <1>4, <1>5, <1>6, <1>7, <1>8
    DEF OutboxNext, Publish, BrokerDown, BrokerUp, outbox_vars

(* However many workers overlap and however often they fail, a message is  *)
(* sent at most once per worker and once more per fault.                   *)
THEOREM OutboxCopiesHaveCause == OutboxSpec => []CopiesHaveCause
<1>1. OutboxInit => OutboxTypeOK /\ CopiesInv
  BY TypeInit, CopiesInit
<1>2. OutboxTypeOK /\ CopiesInv /\ [OutboxNext]_outbox_vars => (OutboxTypeOK /\ CopiesInv)'
  BY TypeStep, CopiesStep
<1>3. ASSUME OutboxTypeOK, CopiesInv
      PROVE  CopiesHaveCause
  <2> SUFFICES ASSUME NEW e \in Event
               PROVE  sent[e] <= Cardinality(Worker) + faults
    BY DEF CopiesHaveCause
  <2>1. Credit(e) \in SUBSET Worker /\ Worker \in SUBSET Worker
    BY DEF Credit, Spent, Achieved
  <2>2. /\ Cardinality(Credit(e)) \in Nat /\ Cardinality(Worker) \in Nat
        /\ Cardinality(Credit(e)) <= Cardinality(Worker)
    BY <2>1, CreditGrows, OutboxAssumption
  <2>3. /\ sent[e] <= Cardinality(Credit(e)) + faults
        /\ sent[e] \in Nat /\ faults \in Nat
    BY <1>3 DEF CopiesInv, CopiesBounded, OutboxTypeOK
  <2> QED BY <2>2, <2>3
<1>4. OutboxTypeOK /\ CopiesInv => CopiesHaveCause
  BY <1>3
<1> QED BY <1>1, <1>2, <1>4, PTL DEF OutboxSpec

-----------------------------------------------------------------------------
(* Delivery.  A message that is still to be shown is a unit of its event:  *)
(* the i-th of the messages that are alike.                                *)
Open == {"ready", "taken"}

Units(f, e) ==
  {u \in Message \X Nat : u[1].event = e /\ u[1].at \in Open /\ 1 <= u[2] /\ u[2] <= f[u[1]]}

(* What may still be shown has its cause already.                          *)
UnitsHaveCause ==
  \A e \in Event : /\ IsFiniteSet(Units(msgs["inapp"], e))
                   /\ shown[e] + Cardinality(Units(msgs["inapp"], e)) <= sent[e] + cuts + faults

(* Of what a queue was given, a message is open until its effect or its    *)
(* loss is on record; acks and redeliveries come after that.               *)
OpenMessage(q, e) == \E m \in Message : m.event = e /\ m.at \in Open /\ InQueue(q, m)

GivenIsOpen ==
  /\ \A e \in routed["inapp"] : OpenMessage("inapp", e) \/ shown[e] > 0 \/ e \in swallowed
  /\ \A e \in routed["bot"] : OpenMessage("bot", e) \/ e \in told \/ e \in dead

GivenToBound == \A q \in Queue : routed[q] # {} => bound[q]

DeliveryInv == TypeOK /\ UnitsHaveCause /\ GivenIsOpen /\ GivenToBound

Counts(m, e) == m.event = e /\ m.at \in Open
Load(f, e) == Cardinality(Units(f, e))

LEMMA MessageShape ==
  /\ \A m \in Message : m.event \in Event /\ m.retry \in 0..RetryLimit
  /\ \A m \in Message, s \in {"ready", "taken", "handled", "copied"} :
       /\ Shift(m, s) \in Message
       /\ Shift(m, s).event = m.event /\ Shift(m, s).at = s
       /\ s # m.at => Shift(m, s) # m
  /\ \A e \in Event, n \in 0..RetryLimit :
       /\ Msg(e, n, "ready") \in Message
       /\ Msg(e, n, "ready").event = e /\ Msg(e, n, "ready").at = "ready"
  BY DEF Message, Shift, Msg

(* One message more is one unit more of its event, if it is open.          *)
LEMMA WithLoad ==
  ASSUME NEW f \in [Message -> Nat], NEW m \in Message, NEW e \in Event,
         IsFiniteSet(Units(f, e))
  PROVE  /\ With(f, m) \in [Message -> Nat]
         /\ IsFiniteSet(Units(With(f, m), e))
         /\ Counts(m, e) => Load(With(f, m), e) = Load(f, e) + 1
         /\ ~Counts(m, e) => Load(With(f, m), e) = Load(f, e)
         /\ Load(f, e) \in Nat
<1>1. With(f, m) \in [Message -> Nat] /\ With(f, m)[m] = f[m] + 1
      /\ \A k \in Message \ {m} : With(f, m)[k] = f[k]
  BY DEF With
<1>2. Load(f, e) \in Nat
  BY FS_CardinalityType DEF Load
<1>3. ASSUME Counts(m, e)
      PROVE  /\ IsFiniteSet(Units(With(f, m), e))
             /\ Load(With(f, m), e) = Load(f, e) + 1
  <2> DEFINE u == <<m, f[m] + 1>>
  <2>1. u \in Message \X Nat /\ u[1] = m /\ u[2] = f[m] + 1
    OBVIOUS
  <2>2. u \notin Units(f, e)
    BY <2>1 DEF Units
  <2>3. Units(With(f, m), e) = Units(f, e) \cup {u}
    <3>1. ASSUME NEW v \in Message \X Nat
          PROVE  v \in Units(With(f, m), e) <=> v \in Units(f, e) \cup {u}
      <4>1. CASE v[1] = m
        <5>1. v \in Units(With(f, m), e) <=> 1 <= v[2] /\ v[2] <= f[m] + 1
          BY <1>1, <1>3, <4>1 DEF Units, Counts
        <5>2. v \in Units(f, e) <=> 1 <= v[2] /\ v[2] <= f[m]
          BY <1>3, <4>1 DEF Units, Counts
        <5>3. v = u <=> v[2] = f[m] + 1
          BY <4>1
        <5>4. v[2] \in Nat /\ f[m] \in Nat
          OBVIOUS
        <5> HIDE DEF u
        <5> QED BY <5>1, <5>2, <5>3, <5>4
      <4>2. CASE v[1] # m
        BY <1>1, <2>1, <4>2 DEF Units
      <4> QED BY <4>1, <4>2
    <3>2. Units(With(f, m), e) \subseteq Message \X Nat /\ Units(f, e) \cup {u} \subseteq Message \X Nat
      BY <2>1 DEF Units
    <3> QED BY <3>1, <3>2
  <2> HIDE DEF u
  <2> QED BY <2>2, <2>3, FS_AddElement DEF Load
<1>4. ASSUME ~Counts(m, e)
      PROVE  Units(With(f, m), e) = Units(f, e)
  BY <1>1, <1>4 DEF Units, Counts
<1> QED BY <1>1, <1>2, <1>3, <1>4 DEF Load

(* One message less is one unit less.                                      *)
LEMMA WithoutLoad ==
  ASSUME NEW f \in [Message -> Nat], NEW m \in Message, f[m] > 0, NEW e \in Event,
         IsFiniteSet(Units(f, e))
  PROVE  /\ Without(f, m) \in [Message -> Nat]
         /\ IsFiniteSet(Units(Without(f, m), e))
         /\ Counts(m, e) => Load(Without(f, m), e) = Load(f, e) - 1
         /\ ~Counts(m, e) => Load(Without(f, m), e) = Load(f, e)
         /\ Load(f, e) \in Nat
<1>1. Without(f, m) \in [Message -> Nat] /\ Without(f, m)[m] = f[m] - 1
      /\ \A k \in Message \ {m} : Without(f, m)[k] = f[k]
  BY DEF Without
<1>2. Load(f, e) \in Nat
  BY FS_CardinalityType DEF Load
<1>3. ASSUME Counts(m, e)
      PROVE  /\ IsFiniteSet(Units(Without(f, m), e))
             /\ Load(Without(f, m), e) = Load(f, e) - 1
  <2> DEFINE u == <<m, f[m]>>
  <2>1. u \in Message \X Nat /\ u[1] = m /\ u[2] = f[m]
    OBVIOUS
  <2>2. u \in Units(f, e)
    BY <1>3, <2>1 DEF Units, Counts
  <2>3. Units(Without(f, m), e) = Units(f, e) \ {u}
    <3>1. ASSUME NEW v \in Message \X Nat
          PROVE  v \in Units(Without(f, m), e) <=> v \in Units(f, e) \ {u}
      <4>1. CASE v[1] = m
        <5>1. v \in Units(Without(f, m), e) <=> 1 <= v[2] /\ v[2] <= f[m] - 1
          BY <1>1, <1>3, <4>1 DEF Units, Counts
        <5>2. v \in Units(f, e) <=> 1 <= v[2] /\ v[2] <= f[m]
          BY <1>3, <4>1 DEF Units, Counts
        <5>3. v = u <=> v[2] = f[m]
          BY <4>1
        <5>4. v[2] \in Nat /\ f[m] \in Nat
          OBVIOUS
        <5> HIDE DEF u
        <5> QED BY <5>1, <5>2, <5>3, <5>4
      <4>2. CASE v[1] # m
        BY <1>1, <2>1, <4>2 DEF Units
      <4> QED BY <4>1, <4>2
    <3>2. Units(Without(f, m), e) \subseteq Message \X Nat /\ Units(f, e) \ {u} \subseteq Message \X Nat
      BY DEF Units
    <3> QED BY <3>1, <3>2
  <2> HIDE DEF u
  <2> QED BY <2>2, <2>3, FS_RemoveElement DEF Load
<1>4. ASSUME ~Counts(m, e)
      PROVE  Units(Without(f, m), e) = Units(f, e)
  BY <1>1, <1>4 DEF Units, Counts
<1> QED BY <1>1, <1>2, <1>3, <1>4 DEF Load

(* A message that changes its state.                                       *)
LEMMA MoveLoad ==
  ASSUME NEW f \in [Message -> Nat], NEW m \in Message, f[m] > 0, NEW e \in Event,
         NEW s \in {"ready", "taken", "handled", "copied"}, IsFiniteSet(Units(f, e))
  PROVE  LET g == With(Without(f, m), Shift(m, s)) IN
         /\ g \in [Message -> Nat]
         /\ IsFiniteSet(Units(g, e))
         /\ Load(g, e) \in Nat /\ Load(f, e) \in Nat
         /\ Load(g, e) <= Load(f, e) + 1
         /\ m.at \in Open \/ s \notin Open => Load(g, e) <= Load(f, e)
         /\ Counts(m, e) /\ s \notin Open => Load(g, e) = Load(f, e) - 1
<1> DEFINE h == Without(f, m)
           g == With(h, Shift(m, s))
<1>1. /\ h \in [Message -> Nat] /\ IsFiniteSet(Units(h, e))
      /\ Counts(m, e) => Load(h, e) = Load(f, e) - 1
      /\ ~Counts(m, e) => Load(h, e) = Load(f, e)
      /\ Load(f, e) \in Nat
  BY WithoutLoad
<1>2. Shift(m, s) \in Message /\ (Counts(Shift(m, s), e) <=> m.event = e /\ s \in Open)
  BY MessageShape DEF Counts
<1> HIDE DEF h
<1>3. /\ g \in [Message -> Nat] /\ IsFiniteSet(Units(g, e))
      /\ Counts(Shift(m, s), e) => Load(g, e) = Load(h, e) + 1
      /\ ~Counts(Shift(m, s), e) => Load(g, e) = Load(h, e)
      /\ Load(h, e) \in Nat
  BY <1>1, <1>2, WithLoad
<1> HIDE DEF g
<1>4. /\ Load(g, e) \in Nat
      /\ Load(g, e) <= Load(f, e) + 1
      /\ m.at \in Open \/ s \notin Open => Load(g, e) <= Load(f, e)
      /\ Counts(m, e) /\ s \notin Open => Load(g, e) = Load(f, e) - 1
  BY <1>1, <1>2, <1>3 DEF Counts
<1> QED BY <1>1, <1>3, <1>4 DEF g, h


-----------------------------------------------------------------------------
(* What a step does to the messages.                                       *)
LEMMA MoveType ==
  ASSUME TypeOK, NEW q \in Queue, NEW m \in Message, InQueue(q, m),
         NEW s \in {"ready", "taken", "handled", "copied"}, Move(q, m, s)
  PROVE  /\ msgs' \in [Queue -> [Message -> Nat]]
         /\ msgs'[q] = With(Without(msgs[q], m), Shift(m, s))
         /\ \A p \in Queue \ {q} : msgs'[p] = msgs[p]
         /\ \A e \in Event, p \in Queue :
              s \in Open /\ OpenMessage(p, e) => OpenMessage(p, e)'
         /\ \A e \in Event, p \in Queue :
              m.at \notin Open /\ OpenMessage(p, e) => OpenMessage(p, e)'
         /\ \A e \in Event, p \in Queue :
              OpenMessage(p, e) /\ (p # q \/ m.event # e) => OpenMessage(p, e)'
<1>0. msgs \in [Queue -> [Message -> Nat]] /\ msgs[q] \in [Message -> Nat] /\ msgs[q][m] > 0
  BY DEF TypeOK, InQueue
<1> DEFINE k == Shift(m, s)
           g == With(Without(msgs[q], m), k)
<1>1. k \in Message /\ k.event = m.event /\ k.at = s
  BY MessageShape
<1> HIDE DEF k
<1>2. /\ g \in [Message -> Nat]
      /\ g[k] > 0
      /\ \A j \in Message \ {m} : g[j] >= msgs[q][j]
  BY <1>0, <1>1 DEF With, Without
<1>3. msgs' = [msgs EXCEPT ![q] = g]
  BY DEF Move, k
<1> HIDE DEF g
<1>4. /\ msgs' \in [Queue -> [Message -> Nat]]
      /\ msgs'[q] = g
      /\ \A p \in Queue \ {q} : msgs'[p] = msgs[p]
  BY <1>0, <1>2, <1>3
<1>5. ASSUME NEW e \in Event, NEW p \in Queue, OpenMessage(p, e),
             s \in Open \/ m.at \notin Open \/ p # q \/ m.event # e
      PROVE  OpenMessage(p, e)'
  <2>1. PICK j \in Message : j.event = e /\ j.at \in Open /\ msgs[p][j] > 0
    BY <1>5 DEF OpenMessage, InQueue
  <2>2. CASE p # q
    BY <1>4, <2>1, <2>2 DEF OpenMessage, InQueue
  <2>3. CASE p = q /\ j # m
    <3>1. msgs'[p][j] > 0
      BY <1>0, <1>2, <1>4, <2>1, <2>3
    <3> QED BY <2>1, <3>1 DEF OpenMessage, InQueue
  <2>4. CASE p = q /\ j = m
    <3>1. s \in Open /\ k.event = e
      BY <1>1, <1>5, <2>1, <2>4
    <3>2. msgs'[p][k] > 0
      BY <1>2, <1>4, <2>4
    <3> QED BY <1>1, <3>1, <3>2 DEF OpenMessage, InQueue
  <2> QED BY <2>2, <2>3, <2>4
<1> QED BY <1>4, <1>5 DEF g, k

LEMMA RemoveType ==
  ASSUME TypeOK, NEW q \in Queue, NEW m \in Message, InQueue(q, m), Remove(q, m)
  PROVE  /\ msgs' \in [Queue -> [Message -> Nat]]
         /\ msgs'[q] = Without(msgs[q], m)
         /\ \A p \in Queue \ {q} : msgs'[p] = msgs[p]
         /\ \A e \in Event, p \in Queue :
              OpenMessage(p, e) /\ (p # q \/ m.event # e \/ m.at \notin Open) => OpenMessage(p, e)'
<1>0. msgs \in [Queue -> [Message -> Nat]] /\ msgs[q] \in [Message -> Nat] /\ msgs[q][m] > 0
  BY DEF TypeOK, InQueue
<1> DEFINE g == Without(msgs[q], m)
<1>1. /\ g \in [Message -> Nat]
      /\ \A j \in Message \ {m} : g[j] = msgs[q][j]
  BY <1>0 DEF Without
<1>2. msgs' = [msgs EXCEPT ![q] = g]
  BY DEF Remove
<1> HIDE DEF g
<1>3. /\ msgs' \in [Queue -> [Message -> Nat]]
      /\ msgs'[q] = g
      /\ \A p \in Queue \ {q} : msgs'[p] = msgs[p]
  BY <1>0, <1>1, <1>2
<1>4. ASSUME NEW e \in Event, NEW p \in Queue, OpenMessage(p, e),
             p # q \/ m.event # e \/ m.at \notin Open
      PROVE  OpenMessage(p, e)'
  <2>1. PICK j \in Message : j.event = e /\ j.at \in Open /\ msgs[p][j] > 0
    BY <1>4 DEF OpenMessage, InQueue
  <2>2. p # q \/ j # m
    BY <1>4, <2>1
  <2>3. msgs'[p][j] > 0
    BY <1>0, <1>1, <1>3, <2>1, <2>2
  <2> QED BY <2>1, <2>3 DEF OpenMessage, InQueue
<1> QED BY <1>3, <1>4 DEF g

(* A step that adds messages takes no open one away.                       *)
LEMMA OpenKept ==
  ASSUME NEW e \in Event, NEW q \in Queue, OpenMessage(q, e),
         \A m \in Message : m.at \in Open /\ InQueue(q, m) => InQueue(q, m)'
  PROVE  OpenMessage(q, e)'
  BY DEF OpenMessage

LEMMA RouteType ==
  ASSUME TypeOK, NEW m \in Message, Route(m), m.at \in Open
  PROVE  /\ msgs' \in [Queue -> [Message -> Nat]]
         /\ \A q \in Queue : msgs'[q] = IF bound[q] THEN With(msgs[q], m) ELSE msgs[q]
         /\ routed' \in [Queue -> SUBSET Event]
         /\ \A e \in Event, q \in Queue : OpenMessage(q, e) => OpenMessage(q, e)'
         /\ \A q \in Queue : bound[q] => OpenMessage(q, m.event)' /\ routed'[q] = routed[q] \cup {m.event}
         /\ \A q \in Queue : ~bound[q] => routed'[q] = routed[q]
<1>0. msgs \in [Queue -> [Message -> Nat]] /\ routed \in [Queue -> SUBSET Event] /\ m.event \in Event
  BY MessageShape DEF TypeOK
<1>1. \A q \in Queue : /\ With(msgs[q], m) \in [Message -> Nat]
                       /\ With(msgs[q], m)[m] > 0
                       /\ \A j \in Message : With(msgs[q], m)[j] >= msgs[q][j]
  BY <1>0 DEF With
<1>2. /\ msgs' \in [Queue -> [Message -> Nat]]
      /\ \A q \in Queue : msgs'[q] = IF bound[q] THEN With(msgs[q], m) ELSE msgs[q]
  BY <1>0, <1>1 DEF Route
<1>3. /\ routed' \in [Queue -> SUBSET Event]
      /\ \A q \in Queue : ~bound[q] => routed'[q] = routed[q]
      /\ \A q \in Queue : bound[q] => routed'[q] = routed[q] \cup {m.event}
  BY <1>0 DEF Route
<1>4. \A q \in Queue, j \in Message : InQueue(q, j) => InQueue(q, j)'
  <2> SUFFICES ASSUME NEW q \in Queue, NEW j \in Message, msgs[q][j] > 0
               PROVE  msgs'[q][j] > 0
    BY DEF InQueue
  <2>1. CASE bound[q]
    <3>1. msgs'[q] = With(msgs[q], m)
      BY <1>2, <2>1
    <3> QED BY <1>0, <1>1, <3>1
  <2>2. CASE ~bound[q]
    BY <1>2, <2>2
  <2> QED BY <2>1, <2>2
<1>5. ASSUME NEW q \in Queue, bound[q]
      PROVE  OpenMessage(q, m.event)'
  BY <1>1, <1>2, <1>5 DEF OpenMessage, InQueue
<1>6. \A e \in Event, q \in Queue : OpenMessage(q, e) => OpenMessage(q, e)'
  BY <1>4, OpenKept
<1> QED BY <1>2, <1>3, <1>5, <1>6


(* A retry leaves the message and adds its copy, which is open.            *)
LEMMA CopyType ==
  ASSUME TypeOK, NEW m \in Message, InQueue("bot", m), m.at = "taken", m.retry < RetryLimit,
         Copy(m)
  PROVE  LET copy == Msg(m.event, m.retry + 1, "ready") IN
         /\ copy \in Message /\ copy.event = m.event /\ copy.at = "ready"
         /\ msgs' \in [Queue -> [Message -> Nat]]
         /\ bound["inapp"] => msgs'["inapp"] = With(msgs["inapp"], copy)
         /\ ~bound["inapp"] => msgs'["inapp"] = msgs["inapp"]
         /\ \A e \in Event : OpenMessage("inapp", e) => OpenMessage("inapp", e)'
         /\ \A e \in Event : OpenMessage("bot", e) /\ bound["bot"] => OpenMessage("bot", e)'
<1>0. /\ msgs \in [Queue -> [Message -> Nat]] /\ msgs["bot"] \in [Message -> Nat]
      /\ msgs["inapp"] \in [Message -> Nat] /\ msgs["bot"][m] > 0
      /\ "inapp" \in Queue /\ "bot" \in Queue /\ m.event \in Event
  BY MessageShape DEF TypeOK, InQueue, Queue
<1> DEFINE copy == Msg(m.event, m.retry + 1, "ready")
           k == Shift(m, "copied")
           g == With(Without(msgs["bot"], m), k)
<1>1. copy \in Message /\ copy.event = m.event /\ copy.at = "ready"
  <2>1. m.retry + 1 \in 0..RetryLimit
    BY MessageShape, DeliveryAssumption
  <2> QED BY <1>0, <2>1, MessageShape
<1>2. k \in Message
  BY MessageShape
<1>3. msgs' = [q \in Queue |->
                 LET f == IF q = "bot" THEN g ELSE msgs[q]
                 IN  IF bound[q] THEN With(f, copy) ELSE f]
  BY DEF Copy
<1> HIDE DEF copy, k
<1>4. g \in [Message -> Nat] /\ \A j \in Message \ {m} : g[j] >= msgs["bot"][j]
  BY <1>0, <1>2 DEF With, Without
<1> HIDE DEF g
<1>5. /\ With(g, copy) \in [Message -> Nat] /\ With(g, copy)[copy] > 0
      /\ \A j \in Message : With(g, copy)[j] >= g[j]
      /\ With(msgs["inapp"], copy) \in [Message -> Nat]
      /\ \A j \in Message : With(msgs["inapp"], copy)[j] >= msgs["inapp"][j]
  BY <1>0, <1>1, <1>4 DEF With
<1>6. /\ bound["inapp"] => msgs'["inapp"] = With(msgs["inapp"], copy)
      /\ ~bound["inapp"] => msgs'["inapp"] = msgs["inapp"]
      /\ bound["bot"] => msgs'["bot"] = With(g, copy)
      /\ ~bound["bot"] => msgs'["bot"] = g
  BY <1>0, <1>3
<1>7. msgs' \in [Queue -> [Message -> Nat]]
  BY <1>0, <1>3, <1>4, <1>5 DEF Queue
<1>8. ASSUME NEW e \in Event, OpenMessage("inapp", e)
      PROVE  OpenMessage("inapp", e)'
  <2>1. PICK j \in Message : j.event = e /\ j.at \in Open /\ msgs["inapp"][j] > 0
    BY <1>8 DEF OpenMessage, InQueue
  <2>2. msgs'["inapp"][j] > 0
    BY <1>0, <1>5, <1>6, <2>1
  <2> QED BY <2>1, <2>2 DEF OpenMessage, InQueue
<1>9. ASSUME NEW e \in Event, OpenMessage("bot", e), bound["bot"]
      PROVE  OpenMessage("bot", e)'
  <2>1. PICK j \in Message : j.event = e /\ j.at \in Open /\ msgs["bot"][j] > 0
    BY <1>9 DEF OpenMessage, InQueue
  <2>2. CASE j = m
    <3>1. msgs'["bot"][copy] > 0
      BY <1>5, <1>6, <1>9
    <3> QED BY <1>1, <2>1, <2>2, <3>1 DEF OpenMessage, InQueue, Open
  <2>3. CASE j # m
    <3>1. g[j] > 0
      BY <1>0, <1>4, <2>1, <2>3
    <3>2. msgs'["bot"][j] > 0
      BY <1>4, <1>5, <1>6, <1>9, <3>1
    <3> QED BY <2>1, <3>2 DEF OpenMessage, InQueue
  <2> QED BY <2>2, <2>3
<1> QED BY <1>1, <1>6, <1>7, <1>8, <1>9 DEF copy

-----------------------------------------------------------------------------
LEMMA DeliveryInit == Init => DeliveryInv
<1> SUFFICES ASSUME Init PROVE DeliveryInv
  OBVIOUS
<1>1. TypeOK
  BY TypeInit DEF Init, TypeOK
<1>2. ASSUME NEW e \in Event
      PROVE  /\ IsFiniteSet(Units(msgs["inapp"], e))
             /\ shown[e] + Cardinality(Units(msgs["inapp"], e)) <= sent[e] + cuts + faults
  <2>1. Units(msgs["inapp"], e) = {}
    BY DEF Init, Units, Queue
  <2>2. shown[e] = 0 /\ sent[e] = 0 /\ cuts = 0 /\ faults = 0
    BY DEF Init, OutboxInit
  <2> QED BY <2>1, <2>2, FS_EmptySet
<1>3. GivenIsOpen /\ GivenToBound
  BY DEF Init, GivenIsOpen, GivenToBound, Queue
<1> QED BY <1>1, <1>2, <1>3 DEF DeliveryInv, UnitsHaveCause

(* A step that leaves the messages and their causes alone.                 *)
LEMMA UnitsKept ==
  ASSUME UnitsHaveCause, TypeOK, TypeOK', msgs'["inapp"] = msgs["inapp"], shown' = shown,
         \A e \in Event : sent'[e] >= sent[e], cuts' >= cuts, faults' >= faults
  PROVE  UnitsHaveCause'
<1> SUFFICES ASSUME NEW e \in Event
             PROVE  /\ IsFiniteSet(Units(msgs'["inapp"], e))
                    /\ shown'[e] + Cardinality(Units(msgs'["inapp"], e)) <= sent'[e] + cuts' + faults'
  BY DEF UnitsHaveCause
<1>1. /\ IsFiniteSet(Units(msgs["inapp"], e))
      /\ shown[e] + Cardinality(Units(msgs["inapp"], e)) <= sent[e] + cuts + faults
  BY DEF UnitsHaveCause
<1>2. Cardinality(Units(msgs["inapp"], e)) \in Nat
  BY <1>1, FS_CardinalityType
<1>3. /\ shown[e] \in Nat /\ sent[e] \in Nat /\ sent'[e] \in Nat
      /\ cuts \in Nat /\ cuts' \in Nat /\ faults \in Nat /\ faults' \in Nat
  BY DEF TypeOK, OutboxTypeOK
<1> QED BY <1>1, <1>2, <1>3

(* The steps that settle, with their messages' worth.                      *)
LEMMA UnitsSettled ==
  ASSUME UnitsHaveCause, TypeOK, TypeOK',
         \A e \in Event :
            /\ IsFiniteSet(Units(msgs'["inapp"], e))
            /\ shown'[e] + Load(msgs'["inapp"], e) - sent'[e] - cuts' - faults'
                 <= shown[e] + Load(msgs["inapp"], e) - sent[e] - cuts - faults
  PROVE  UnitsHaveCause'
<1> SUFFICES ASSUME NEW e \in Event
             PROVE  /\ IsFiniteSet(Units(msgs'["inapp"], e))
                    /\ shown'[e] + Cardinality(Units(msgs'["inapp"], e)) <= sent'[e] + cuts' + faults'
  BY DEF UnitsHaveCause
<1>1. /\ IsFiniteSet(Units(msgs["inapp"], e)) /\ IsFiniteSet(Units(msgs'["inapp"], e))
      /\ shown[e] + Load(msgs["inapp"], e) <= sent[e] + cuts + faults
      /\ shown'[e] + Load(msgs'["inapp"], e) - sent'[e] - cuts' - faults'
           <= shown[e] + Load(msgs["inapp"], e) - sent[e] - cuts - faults
  BY DEF UnitsHaveCause, Load
<1>2. Load(msgs["inapp"], e) \in Nat /\ Load(msgs'["inapp"], e) \in Nat
  BY <1>1, FS_CardinalityType DEF Load
<1>3. /\ shown[e] \in Nat /\ sent[e] \in Nat /\ sent'[e] \in Nat /\ shown'[e] \in Nat
      /\ cuts \in Nat /\ cuts' \in Nat /\ faults \in Nat /\ faults' \in Nat
  BY DEF TypeOK, OutboxTypeOK
<1>4. shown'[e] + Load(msgs'["inapp"], e) <= sent'[e] + cuts' + faults'
  BY <1>1, <1>2, <1>3
<1> QED BY <1>1, <1>4 DEF Load


(* What was given stays open, or is settled on record.                     *)
LEMMA GivenKept ==
  ASSUME GivenIsOpen, TypeOK, TypeOK', routed' = routed,
         \A e \in Event : shown'[e] >= shown[e],
         swallowed \subseteq swallowed', told \subseteq told', dead \subseteq dead',
         \A e \in routed["inapp"] :
            OpenMessage("inapp", e) => OpenMessage("inapp", e)' \/ shown'[e] > 0 \/ e \in swallowed',
         \A e \in routed["bot"] :
            OpenMessage("bot", e) => OpenMessage("bot", e)' \/ e \in told' \/ e \in dead'
  PROVE  GivenIsOpen'
<1>1. /\ shown \in [Event -> Nat] /\ shown' \in [Event -> Nat]
      /\ routed["inapp"] \subseteq Event /\ routed["bot"] \subseteq Event
  BY DEF TypeOK, Queue
<1>2. ASSUME NEW e \in routed["inapp"]
      PROVE  OpenMessage("inapp", e)' \/ shown'[e] > 0 \/ e \in swallowed'
  <2>1. shown[e] > 0 => shown'[e] > 0
    BY <1>1
  <2> QED BY <2>1 DEF GivenIsOpen
<1>3. ASSUME NEW e \in routed["bot"]
      PROVE  OpenMessage("bot", e)' \/ e \in told' \/ e \in dead'
  BY DEF GivenIsOpen
<1> QED BY <1>2, <1>3 DEF GivenIsOpen

-----------------------------------------------------------------------------
LEMMA OutboxStepKeeps ==
  ASSUME DeliveryInv, OutboxStep
  PROVE  DeliveryInv'
<1>0. TypeOK /\ UnitsHaveCause /\ GivenIsOpen /\ GivenToBound /\ UNCHANGED delivery_vars
  BY DEF DeliveryInv, OutboxStep
<1>1. OutboxNext
  BY DEF OutboxStep, OutboxNext, Publish
<1>2. TypeOK'
  <2>1. OutboxTypeOK'
    BY <1>0, <1>1, TypeStep DEF TypeOK
  <2> QED BY <1>0, <2>1 DEF TypeOK, delivery_vars
<1>3. (\A e \in Event : sent'[e] >= sent[e]) /\ faults' >= faults
  <2>1. sent \in [Event -> Nat] /\ faults \in Nat
    BY <1>0 DEF TypeOK, OutboxTypeOK
  <2>2. sent' = sent /\ (faults' = faults \/ faults' = faults + 1)
    BY DEF OutboxStep, Enqueue, DelayPasses, Poll, CommitBatch, TickFails, PublishFailed,
           BrokerDown, BrokerUp
  <2> QED BY <2>1, <2>2
<1>4. UnitsHaveCause'
  <2>1. msgs' = msgs /\ shown' = shown /\ cuts' = cuts /\ cuts \in Nat
    BY <1>0 DEF delivery_vars, TypeOK
  <2>2. cuts' >= cuts
    BY <2>1
  <2> QED BY <1>0, <1>2, <1>3, <2>1, <2>2, UnitsKept
<1>5. GivenIsOpen' /\ GivenToBound'
  <2>1. msgs' = msgs /\ shown' = shown /\ told' = told /\ dead' = dead /\ swallowed' = swallowed
        /\ routed' = routed /\ bound' = bound
    BY <1>0 DEF delivery_vars
  <2> QED BY <1>0, <2>1 DEF GivenIsOpen, GivenToBound, OpenMessage, InQueue
<1> QED BY <1>2, <1>4, <1>5 DEF DeliveryInv

LEMMA PublishRoutedKeeps ==
  ASSUME DeliveryInv, NEW w \in Worker, NEW e \in Event, PublishRouted(w, e)
  PROVE  DeliveryInv'
<1> DEFINE m == Msg(e, 0, "ready")
<1>0. TypeOK /\ UnitsHaveCause /\ GivenIsOpen /\ GivenToBound
  BY DEF DeliveryInv
<1>1. m \in Message /\ m.event = e /\ m.at = "ready" /\ m.at \in Open
  <2>1. 0 \in 0..RetryLimit
    BY DeliveryAssumption
  <2> QED BY <2>1, MessageShape DEF Open
<1>2. /\ Route(m)
      /\ bound' = bound /\ shown' = shown /\ told' = told /\ dead' = dead
      /\ swallowed' = swallowed /\ cuts' = cuts
  BY DEF PublishRouted
<1> HIDE DEF m
<1>3. /\ msgs' \in [Queue -> [Message -> Nat]]
      /\ \A q \in Queue : msgs'[q] = IF bound[q] THEN With(msgs[q], m) ELSE msgs[q]
      /\ routed' \in [Queue -> SUBSET Event]
      /\ \A f \in Event, q \in Queue : OpenMessage(q, f) => OpenMessage(q, f)'
      /\ \A q \in Queue : bound[q] => OpenMessage(q, m.event)' /\ routed'[q] = routed[q] \cup {m.event}
      /\ \A q \in Queue : ~bound[q] => routed'[q] = routed[q]
  BY <1>0, <1>1, <1>2, RouteType
<1>4. OutboxNext
  BY DEF PublishRouted, OutboxNext, Publish
<1>5. TypeOK'
  <2>1. OutboxTypeOK'
    BY <1>0, <1>4, TypeStep DEF TypeOK
  <2> QED BY <1>0, <1>2, <1>3, <2>1 DEF TypeOK
<1>6. /\ sent' = [sent EXCEPT ![e] = @ + 1]
      /\ faults' = faults \/ faults' = faults + 1
  BY DEF PublishRouted, PublishConfirmed, PublishUnconfirmed
<1>7. UnitsHaveCause'
  <2> SUFFICES ASSUME NEW f \in Event
               PROVE  /\ IsFiniteSet(Units(msgs'["inapp"], f))
                      /\ shown'[f] + Load(msgs'["inapp"], f) - sent'[f] - cuts' - faults'
                           <= shown[f] + Load(msgs["inapp"], f) - sent[f] - cuts - faults
    BY <1>0, <1>5, UnitsSettled
  <2>1. /\ msgs["inapp"] \in [Message -> Nat] /\ IsFiniteSet(Units(msgs["inapp"], f))
        /\ shown[f] \in Nat /\ sent[f] \in Nat /\ cuts \in Nat /\ faults \in Nat
        /\ sent \in [Event -> Nat]
    BY <1>0 DEF TypeOK, OutboxTypeOK, UnitsHaveCause, Queue
  <2>2. /\ IsFiniteSet(Units(With(msgs["inapp"], m), f))
        /\ f = e => Load(With(msgs["inapp"], m), f) = Load(msgs["inapp"], f) + 1
        /\ f # e => Load(With(msgs["inapp"], m), f) = Load(msgs["inapp"], f)
        /\ Load(msgs["inapp"], f) \in Nat
    BY <1>1, <2>1, WithLoad DEF Counts
  <2>3. msgs'["inapp"] = With(msgs["inapp"], m) \/ msgs'["inapp"] = msgs["inapp"]
    BY <1>3 DEF Queue
  <2>4. sent'[f] = IF f = e THEN sent[f] + 1 ELSE sent[f]
    BY <1>6, <2>1
  <2>5. /\ IsFiniteSet(Units(msgs'["inapp"], f))
        /\ Load(msgs'["inapp"], f) \in Nat
        /\ Load(msgs'["inapp"], f) <= Load(msgs["inapp"], f) + (IF f = e THEN 1 ELSE 0)
    BY <2>1, <2>2, <2>3
  <2>6. shown'[f] = shown[f] /\ cuts' = cuts /\ faults' \in Nat /\ faults' >= faults
    BY <1>2, <1>6, <2>1
  <2> QED BY <2>1, <2>2, <2>4, <2>5, <2>6
<1>8. GivenIsOpen'
  <2>1. "inapp" \in Queue /\ "bot" \in Queue
        /\ routed["inapp"] \subseteq Event /\ routed["bot"] \subseteq Event
    BY <1>0 DEF Queue, TypeOK
  <2>2. \A q \in Queue : \A f \in routed'[q] : f \in routed[q] \/ OpenMessage(q, f)'
    BY <1>3
  <2>3. ASSUME NEW f \in routed'["inapp"]
        PROVE  OpenMessage("inapp", f)' \/ shown'[f] > 0 \/ f \in swallowed'
    BY <1>0, <1>2, <1>3, <2>1, <2>2 DEF GivenIsOpen
  <2>4. ASSUME NEW f \in routed'["bot"]
        PROVE  OpenMessage("bot", f)' \/ f \in told' \/ f \in dead'
    BY <1>0, <1>2, <1>3, <2>1, <2>2 DEF GivenIsOpen
  <2> QED BY <2>3, <2>4 DEF GivenIsOpen
<1>9. GivenToBound'
  BY <1>0, <1>2, <1>3 DEF GivenToBound
<1> QED BY <1>5, <1>7, <1>8, <1>9 DEF DeliveryInv

LEMMA BindKeeps ==
  ASSUME DeliveryInv, NEW q \in Queue, Bind(q)
  PROVE  DeliveryInv'
<1>0. /\ TypeOK /\ UnitsHaveCause /\ GivenIsOpen /\ GivenToBound
      /\ bound' = [bound EXCEPT ![q] = TRUE]
      /\ UNCHANGED <<outbox_vars, msgs, shown, told, dead, swallowed, routed, cuts>>
  BY DEF DeliveryInv, Bind
<1>1. TypeOK'
  BY <1>0 DEF TypeOK, OutboxTypeOK, outbox_vars, Event
<1>2. UnitsHaveCause' /\ GivenIsOpen'
  BY <1>0 DEF UnitsHaveCause, GivenIsOpen, OpenMessage, InQueue, outbox_vars
<1>3. GivenToBound'
  BY <1>0 DEF GivenToBound, TypeOK
<1> QED BY <1>1, <1>2, <1>3 DEF DeliveryInv


(* The message of a queue, for the lemmas on its units.                    *)
LEMMA QueueShape ==
  ASSUME TypeOK, UnitsHaveCause, NEW q \in Queue, NEW m \in Message, InQueue(q, m)
  PROVE  /\ msgs[q] \in [Message -> Nat] /\ msgs["inapp"] \in [Message -> Nat]
         /\ msgs[q][m] > 0 /\ m.event \in Event
         /\ \A e \in Event : IsFiniteSet(Units(msgs["inapp"], e)) /\ Load(msgs["inapp"], e) \in Nat
         /\ shown \in [Event -> Nat] /\ sent \in [Event -> Nat] /\ cuts \in Nat /\ faults \in Nat
         /\ "inapp" \in Queue /\ "bot" \in Queue
<1>1. \A e \in Event : IsFiniteSet(Units(msgs["inapp"], e)) /\ Load(msgs["inapp"], e) \in Nat
  BY FS_CardinalityType DEF UnitsHaveCause, Load
<1> QED BY <1>1, MessageShape DEF TypeOK, OutboxTypeOK, InQueue, Queue

(* Moves of the bot's messages do not concern what is to be shown; those   *)
(* of the in-app queue cost what MoveLoad says.                            *)
LEMMA MoveUnits ==
  ASSUME TypeOK, UnitsHaveCause, NEW q \in Queue, NEW m \in Message, InQueue(q, m),
         NEW s \in {"ready", "taken", "handled", "copied"}, Move(q, m, s), NEW e \in Event
  PROVE  /\ IsFiniteSet(Units(msgs'["inapp"], e))
         /\ Load(msgs'["inapp"], e) \in Nat
         /\ Load(msgs'["inapp"], e) <= Load(msgs["inapp"], e) + 1
         /\ m.at \in Open \/ s \notin Open => Load(msgs'["inapp"], e) <= Load(msgs["inapp"], e)
         /\ q = "inapp" /\ m.event = e /\ m.at \in Open /\ s \notin Open =>
              Load(msgs'["inapp"], e) = Load(msgs["inapp"], e) - 1
<1>1. /\ msgs[q] \in [Message -> Nat] /\ msgs[q][m] > 0
      /\ IsFiniteSet(Units(msgs["inapp"], e)) /\ Load(msgs["inapp"], e) \in Nat
      /\ "inapp" \in Queue
  BY QueueShape
<1>2. /\ msgs'[q] = With(Without(msgs[q], m), Shift(m, s))
      /\ \A p \in Queue \ {q} : msgs'[p] = msgs[p]
  BY MoveType
<1>3. CASE q = "inapp"
  <2>1. IsFiniteSet(Units(msgs[q], e))
    BY <1>1, <1>3
  <2> DEFINE g == With(Without(msgs[q], m), Shift(m, s))
  <2>2. /\ IsFiniteSet(Units(g, e)) /\ Load(g, e) \in Nat
        /\ Load(g, e) <= Load(msgs[q], e) + 1
        /\ m.at \in Open \/ s \notin Open => Load(g, e) <= Load(msgs[q], e)
        /\ Counts(m, e) /\ s \notin Open => Load(g, e) = Load(msgs[q], e) - 1
    BY <1>1, <2>1, MoveLoad
  <2>3. msgs'["inapp"] = g
    BY <1>2, <1>3
  <2> HIDE DEF g
  <2> QED BY <1>3, <2>2, <2>3 DEF Counts
<1>4. CASE q # "inapp"
  <2>1. msgs'["inapp"] = msgs["inapp"]
    BY <1>1, <1>2, <1>4
  <2> QED BY <1>1, <1>4, <2>1
<1> QED BY <1>3, <1>4

LEMMA TakeKeeps ==
  ASSUME DeliveryInv, NEW q \in Queue, NEW m \in Message, Take(q, m)
  PROVE  DeliveryInv'
<1>0. /\ TypeOK /\ UnitsHaveCause /\ GivenIsOpen /\ GivenToBound
      /\ m.at = "ready" /\ InQueue(q, m) /\ Move(q, m, "taken")
      /\ UNCHANGED <<outbox_vars, bound, shown, told, dead, swallowed, routed, cuts>>
  BY DEF DeliveryInv, Take
<1>1. /\ msgs' \in [Queue -> [Message -> Nat]]
      /\ \A e \in Event, p \in Queue : OpenMessage(p, e) => OpenMessage(p, e)'
  BY <1>0, MoveType DEF Open
<1>2. TypeOK'
  BY <1>0, <1>1 DEF TypeOK, OutboxTypeOK, outbox_vars, Event
<1>3. UnitsHaveCause'
  <2>1. \A e \in Event : /\ IsFiniteSet(Units(msgs'["inapp"], e))
                         /\ Load(msgs'["inapp"], e) \in Nat
                         /\ Load(msgs'["inapp"], e) <= Load(msgs["inapp"], e)
    BY <1>0, MoveUnits DEF Open
  <2>2. \A e \in Event : Load(msgs["inapp"], e) \in Nat /\ shown[e] \in Nat /\ sent[e] \in Nat
    BY <1>0, QueueShape
  <2>3. shown' = shown /\ sent' = sent /\ cuts' = cuts /\ faults' = faults
        /\ cuts \in Nat /\ faults \in Nat
    BY <1>0, QueueShape DEF outbox_vars
  <2>4. \A e \in Event : shown'[e] + Load(msgs'["inapp"], e) - sent'[e] - cuts' - faults'
                           <= shown[e] + Load(msgs["inapp"], e) - sent[e] - cuts - faults
    BY <2>1, <2>2, <2>3
  <2> QED BY <1>0, <1>2, <2>1, <2>4, UnitsSettled
<1>4. GivenIsOpen'
  <2>1. \A e \in Event : shown'[e] >= shown[e]
    BY <1>0, QueueShape
  <2>2. routed["inapp"] \subseteq Event /\ routed["bot"] \subseteq Event
    BY <1>0 DEF TypeOK, Queue
  <2> QED BY <1>0, <1>1, <1>2, <2>1, <2>2, GivenKept, QueueShape
<1>5. GivenToBound'
  BY <1>0 DEF GivenToBound
<1> QED BY <1>2, <1>3, <1>4, <1>5 DEF DeliveryInv

LEMMA ShowKeeps ==
  ASSUME DeliveryInv, NEW m \in Message, Show(m)
  PROVE  DeliveryInv'
<1>0. /\ TypeOK /\ UnitsHaveCause /\ GivenIsOpen /\ GivenToBound
      /\ m.at = "taken" /\ InQueue("inapp", m) /\ Move("inapp", m, "handled")
      /\ shown' = [shown EXCEPT ![m.event] = @ + 1]
      /\ UNCHANGED <<outbox_vars, bound, told, dead, swallowed, routed, cuts>>
      /\ "inapp" \in Queue /\ "bot" \in Queue
  BY DEF DeliveryInv, Show, Queue
<1>1. /\ msgs' \in [Queue -> [Message -> Nat]]
      /\ \A e \in Event : OpenMessage("inapp", e) /\ m.event # e => OpenMessage("inapp", e)'
      /\ \A e \in Event : OpenMessage("bot", e) => OpenMessage("bot", e)'
  BY <1>0, MoveType
<1>2. /\ shown \in [Event -> Nat] /\ m.event \in Event /\ cuts \in Nat /\ faults \in Nat
      /\ \A e \in Event : Load(msgs["inapp"], e) \in Nat /\ sent[e] \in Nat
  BY <1>0, QueueShape
<1>3. /\ shown' \in [Event -> Nat]
      /\ \A e \in Event : shown'[e] = IF e = m.event THEN shown[e] + 1 ELSE shown[e]
  BY <1>0, <1>2
<1>4. TypeOK'
  BY <1>0, <1>1, <1>3 DEF TypeOK, OutboxTypeOK, outbox_vars, Event
<1>5. UnitsHaveCause'
  <2>1. \A e \in Event : /\ IsFiniteSet(Units(msgs'["inapp"], e))
                         /\ Load(msgs'["inapp"], e) \in Nat
                         /\ Load(msgs'["inapp"], e) <= Load(msgs["inapp"], e)
                         /\ m.event = e => Load(msgs'["inapp"], e) = Load(msgs["inapp"], e) - 1
    BY <1>0, MoveUnits DEF Open
  <2>2. sent' = sent /\ cuts' = cuts /\ faults' = faults
    BY <1>0 DEF outbox_vars
  <2>3. \A e \in Event : shown'[e] + Load(msgs'["inapp"], e) - sent'[e] - cuts' - faults'
                           <= shown[e] + Load(msgs["inapp"], e) - sent[e] - cuts - faults
    BY <1>2, <1>3, <2>1, <2>2
  <2> QED BY <1>0, <1>4, <2>1, <2>3, UnitsSettled
<1>6. GivenIsOpen'
  <2>1. \A e \in Event : shown'[e] >= shown[e] /\ (e = m.event => shown'[e] > 0)
    BY <1>2, <1>3
  <2>2. routed["inapp"] \subseteq Event /\ routed["bot"] \subseteq Event
    BY <1>0 DEF TypeOK
  <2>3. \A e \in routed["inapp"] : OpenMessage("inapp", e) => OpenMessage("inapp", e)' \/ shown'[e] > 0
    BY <1>1, <2>1, <2>2
  <2>4. \A e \in routed["bot"] : OpenMessage("bot", e) => OpenMessage("bot", e)'
    BY <1>1, <2>2
  <2> QED BY <1>0, <1>4, <2>1, <2>3, <2>4, GivenKept
<1>7. GivenToBound'
  BY <1>0 DEF GivenToBound
<1> QED BY <1>4, <1>5, <1>6, <1>7 DEF DeliveryInv

LEMMA SwallowKeeps ==
  ASSUME DeliveryInv, NEW m \in Message, Swallow(m)
  PROVE  DeliveryInv'
<1>0. /\ TypeOK /\ UnitsHaveCause /\ GivenIsOpen /\ GivenToBound
      /\ m.at = "taken" /\ InQueue("inapp", m) /\ Move("inapp", m, "handled")
      /\ faults' = faults + 1 /\ swallowed' = swallowed \cup {m.event}
      /\ UNCHANGED <<row, due, task, up, sent, outages, bound, shown, told, dead, routed, cuts>>
      /\ "inapp" \in Queue /\ "bot" \in Queue
  BY DEF DeliveryInv, Swallow, Queue
<1>1. /\ msgs' \in [Queue -> [Message -> Nat]]
      /\ \A e \in Event : OpenMessage("inapp", e) /\ m.event # e => OpenMessage("inapp", e)'
      /\ \A e \in Event : OpenMessage("bot", e) => OpenMessage("bot", e)'
  BY <1>0, MoveType
<1>2. /\ shown \in [Event -> Nat] /\ m.event \in Event /\ cuts \in Nat /\ faults \in Nat
      /\ \A e \in Event : Load(msgs["inapp"], e) \in Nat /\ sent[e] \in Nat /\ shown[e] \in Nat
  BY <1>0, QueueShape
<1>3. TypeOK'
  <2>1. OutboxTypeOK'
    BY <1>0, <1>2 DEF TypeOK, OutboxTypeOK, Event
  <2> QED BY <1>0, <1>1, <1>2, <2>1 DEF TypeOK, Event
<1>4. UnitsHaveCause'
  <2>1. \A e \in Event : /\ IsFiniteSet(Units(msgs'["inapp"], e))
                         /\ Load(msgs'["inapp"], e) \in Nat
                         /\ Load(msgs'["inapp"], e) <= Load(msgs["inapp"], e)
    BY <1>0, MoveUnits DEF Open
  <2>2. \A e \in Event : shown'[e] + Load(msgs'["inapp"], e) - sent'[e] - cuts' - faults'
                           <= shown[e] + Load(msgs["inapp"], e) - sent[e] - cuts - faults
    BY <1>0, <1>2, <2>1
  <2> QED BY <1>0, <1>3, <2>1, <2>2, UnitsSettled
<1>5. GivenIsOpen'
  <2>1. \A e \in Event : shown'[e] >= shown[e]
    BY <1>0, <1>2
  <2>2. routed["inapp"] \subseteq Event /\ routed["bot"] \subseteq Event
    BY <1>0 DEF TypeOK
  <2>3. \A e \in routed["inapp"] :
          OpenMessage("inapp", e) => OpenMessage("inapp", e)' \/ e \in swallowed'
    BY <1>0, <1>1, <2>2
  <2>4. \A e \in routed["bot"] : OpenMessage("bot", e) => OpenMessage("bot", e)'
    BY <1>1, <2>2
  <2> QED BY <1>0, <1>3, <2>1, <2>3, <2>4, GivenKept
<1>6. GivenToBound'
  BY <1>0 DEF GivenToBound
<1> QED BY <1>3, <1>4, <1>5, <1>6 DEF DeliveryInv


LEMMA TellKeeps ==
  ASSUME DeliveryInv, NEW m \in Message, Tell(m)
  PROVE  DeliveryInv'
<1>0. /\ TypeOK /\ UnitsHaveCause /\ GivenIsOpen /\ GivenToBound
      /\ m.at = "taken" /\ InQueue("bot", m) /\ Move("bot", m, "handled")
      /\ told' = told \cup {m.event}
      /\ UNCHANGED <<outbox_vars, bound, shown, dead, swallowed, routed, cuts>>
      /\ "inapp" \in Queue /\ "bot" \in Queue
  BY DEF DeliveryInv, Tell, Queue
<1>1. /\ msgs' \in [Queue -> [Message -> Nat]]
      /\ msgs'["inapp"] = msgs["inapp"]
      /\ \A e \in Event : OpenMessage("bot", e) /\ m.event # e => OpenMessage("bot", e)'
      /\ \A e \in Event : OpenMessage("inapp", e) => OpenMessage("inapp", e)'
  BY <1>0, MoveType
<1>2. /\ m.event \in Event /\ cuts \in Nat /\ faults \in Nat
      /\ \A e \in Event : sent[e] \in Nat /\ shown[e] \in Nat
  BY <1>0, QueueShape
<1>3. TypeOK'
  BY <1>0, <1>1, <1>2 DEF TypeOK, OutboxTypeOK, outbox_vars, Event
<1>4. UnitsHaveCause'
  <2>1. (\A e \in Event : sent'[e] >= sent[e]) /\ cuts' >= cuts /\ faults' >= faults
    BY <1>0, <1>2 DEF outbox_vars
  <2> QED BY <1>0, <1>1, <1>3, <2>1, UnitsKept
<1>5. GivenIsOpen'
  <2>1. \A e \in Event : shown'[e] >= shown[e]
    BY <1>0, <1>2
  <2>2. routed["inapp"] \subseteq Event /\ routed["bot"] \subseteq Event
    BY <1>0 DEF TypeOK
  <2>3. \A e \in routed["inapp"] : OpenMessage("inapp", e) => OpenMessage("inapp", e)'
    BY <1>1, <2>2
  <2>4. \A e \in routed["bot"] : OpenMessage("bot", e) => OpenMessage("bot", e)' \/ e \in told'
    BY <1>0, <1>1, <2>2
  <2> QED BY <1>0, <1>3, <2>1, <2>3, <2>4, GivenKept
<1>6. GivenToBound'
  BY <1>0 DEF GivenToBound
<1> QED BY <1>3, <1>4, <1>5, <1>6 DEF DeliveryInv

LEMMA RejectKeeps ==
  ASSUME DeliveryInv, NEW m \in Message, Reject(m)
  PROVE  DeliveryInv'
<1>0. /\ TypeOK /\ UnitsHaveCause /\ GivenIsOpen /\ GivenToBound
      /\ m.at = "taken" /\ InQueue("bot", m) /\ Remove("bot", m)
      /\ faults' = faults + 1 /\ dead' = dead \cup {m.event}
      /\ UNCHANGED <<row, due, task, up, sent, outages, bound, shown, told, swallowed,
                     routed, cuts>>
      /\ "inapp" \in Queue /\ "bot" \in Queue
  BY DEF DeliveryInv, Reject, Queue
<1>1. /\ msgs' \in [Queue -> [Message -> Nat]]
      /\ msgs'["inapp"] = msgs["inapp"]
      /\ \A e \in Event : OpenMessage("bot", e) /\ m.event # e => OpenMessage("bot", e)'
      /\ \A e \in Event : OpenMessage("inapp", e) => OpenMessage("inapp", e)'
  BY <1>0, RemoveType
<1>2. /\ m.event \in Event /\ cuts \in Nat /\ faults \in Nat
      /\ \A e \in Event : sent[e] \in Nat /\ shown[e] \in Nat
  BY <1>0, QueueShape
<1>3. TypeOK'
  <2>1. OutboxTypeOK'
    BY <1>0, <1>2 DEF TypeOK, OutboxTypeOK, Event
  <2> QED BY <1>0, <1>1, <1>2, <2>1 DEF TypeOK, Event
<1>4. UnitsHaveCause'
  <2>1. (\A e \in Event : sent'[e] >= sent[e]) /\ cuts' >= cuts /\ faults' >= faults
    BY <1>0, <1>2
  <2> QED BY <1>0, <1>1, <1>3, <2>1, UnitsKept
<1>5. GivenIsOpen'
  <2>1. \A e \in Event : shown'[e] >= shown[e]
    BY <1>0, <1>2
  <2>2. routed["inapp"] \subseteq Event /\ routed["bot"] \subseteq Event
    BY <1>0 DEF TypeOK
  <2>3. \A e \in routed["inapp"] : OpenMessage("inapp", e) => OpenMessage("inapp", e)'
    BY <1>1, <2>2
  <2>4. \A e \in routed["bot"] : OpenMessage("bot", e) => OpenMessage("bot", e)' \/ e \in dead'
    BY <1>0, <1>1, <2>2
  <2> QED BY <1>0, <1>3, <2>1, <2>3, <2>4, GivenKept
<1>6. GivenToBound'
  BY <1>0 DEF GivenToBound
<1> QED BY <1>3, <1>4, <1>5, <1>6 DEF DeliveryInv

(* The copy a retry makes for the in-app queue is paid for by its fault.   *)
LEMMA RetryKeeps ==
  ASSUME DeliveryInv, NEW m \in Message, Retry(m)
  PROVE  DeliveryInv'
<1> DEFINE copy == Msg(m.event, m.retry + 1, "ready")
<1>0. /\ TypeOK /\ UnitsHaveCause /\ GivenIsOpen /\ GivenToBound
      /\ m.at = "taken" /\ InQueue("bot", m) /\ m.retry < RetryLimit /\ Copy(m)
      /\ faults' = faults + 1
      /\ UNCHANGED <<row, due, task, up, sent, outages, bound, shown, told, dead,
                     swallowed, routed, cuts>>
      /\ "inapp" \in Queue /\ "bot" \in Queue
  BY DEF DeliveryInv, Retry, Queue
<1>1. /\ copy \in Message
      /\ msgs' \in [Queue -> [Message -> Nat]]
      /\ msgs'["inapp"] = With(msgs["inapp"], copy) \/ msgs'["inapp"] = msgs["inapp"]
      /\ \A e \in Event : OpenMessage("inapp", e) => OpenMessage("inapp", e)'
      /\ \A e \in Event : OpenMessage("bot", e) /\ bound["bot"] => OpenMessage("bot", e)'
  BY <1>0, CopyType
<1> HIDE DEF copy
<1>2. /\ m.event \in Event /\ cuts \in Nat /\ faults \in Nat /\ msgs["inapp"] \in [Message -> Nat]
      /\ \A e \in Event : /\ sent[e] \in Nat /\ shown[e] \in Nat
                          /\ IsFiniteSet(Units(msgs["inapp"], e)) /\ Load(msgs["inapp"], e) \in Nat
  BY <1>0, QueueShape
<1>3. TypeOK'
  <2>1. OutboxTypeOK'
    BY <1>0, <1>2 DEF TypeOK, OutboxTypeOK, Event
  <2> QED BY <1>0, <1>1, <1>2, <2>1 DEF TypeOK, Event
<1>4. UnitsHaveCause'
  <2>1. \A e \in Event : /\ IsFiniteSet(Units(With(msgs["inapp"], copy), e))
                         /\ Load(With(msgs["inapp"], copy), e) = Load(msgs["inapp"], e)
                            \/ Load(With(msgs["inapp"], copy), e) = Load(msgs["inapp"], e) + 1
    BY <1>1, <1>2, WithLoad
  <2>2. \A e \in Event : /\ IsFiniteSet(Units(msgs'["inapp"], e))
                         /\ Load(msgs'["inapp"], e) = Load(msgs["inapp"], e)
                            \/ Load(msgs'["inapp"], e) = Load(msgs["inapp"], e) + 1
    BY <1>1, <1>2, <2>1
  <2>3. \A e \in Event : shown'[e] + Load(msgs'["inapp"], e) - sent'[e] - cuts' - faults'
                           <= shown[e] + Load(msgs["inapp"], e) - sent[e] - cuts - faults
    BY <1>0, <1>2, <2>2
  <2> QED BY <1>0, <1>3, <2>2, <2>3, UnitsSettled
<1>5. GivenIsOpen'
  <2>1. \A e \in Event : shown'[e] >= shown[e]
    BY <1>0, <1>2
  <2>2. routed["inapp"] \subseteq Event /\ routed["bot"] \subseteq Event
    BY <1>0 DEF TypeOK
  <2>3. \A e \in routed["inapp"] : OpenMessage("inapp", e) => OpenMessage("inapp", e)'
    BY <1>1, <2>2
  <2>4. \A e \in routed["bot"] : OpenMessage("bot", e) => OpenMessage("bot", e)'
    BY <1>0, <1>1, <2>2 DEF GivenToBound
  <2> QED BY <1>0, <1>3, <2>1, <2>3, <2>4, GivenKept
<1>6. GivenToBound'
  BY <1>0 DEF GivenToBound
<1> QED BY <1>3, <1>4, <1>5, <1>6 DEF DeliveryInv

(* An ack takes away what had its effect.                                  *)
LEMMA AckKeeps ==
  ASSUME DeliveryInv, NEW q \in Queue, NEW m \in Message, Ack(q, m)
  PROVE  DeliveryInv'
<1>0. /\ TypeOK /\ UnitsHaveCause /\ GivenIsOpen /\ GivenToBound
      /\ m.at \notin Open /\ InQueue(q, m) /\ Remove(q, m)
      /\ UNCHANGED <<outbox_vars, bound, shown, told, dead, swallowed, routed, cuts>>
      /\ "inapp" \in Queue /\ "bot" \in Queue
  BY DEF DeliveryInv, Ack, Acked, Open, Queue
<1>1. /\ msgs' \in [Queue -> [Message -> Nat]]
      /\ msgs'[q] = Without(msgs[q], m)
      /\ \A p \in Queue \ {q} : msgs'[p] = msgs[p]
      /\ \A e \in Event, p \in Queue : OpenMessage(p, e) => OpenMessage(p, e)'
  BY <1>0, RemoveType
<1>2. /\ cuts \in Nat /\ faults \in Nat /\ msgs[q] \in [Message -> Nat] /\ msgs[q][m] > 0
      /\ \A e \in Event : /\ sent[e] \in Nat /\ shown[e] \in Nat
                          /\ IsFiniteSet(Units(msgs["inapp"], e)) /\ Load(msgs["inapp"], e) \in Nat
  BY <1>0, QueueShape
<1>3. TypeOK'
  BY <1>0, <1>1 DEF TypeOK, OutboxTypeOK, outbox_vars, Event
<1>4. UnitsHaveCause'
  <2>1. ASSUME NEW e \in Event
        PROVE  /\ IsFiniteSet(Units(msgs'["inapp"], e))
               /\ Load(msgs'["inapp"], e) = Load(msgs["inapp"], e)
    <3>1. CASE q = "inapp"
      <4>1. ~Counts(m, e)
        BY <1>0 DEF Counts
      <4>2. /\ IsFiniteSet(Units(Without(msgs[q], m), e))
            /\ Load(Without(msgs[q], m), e) = Load(msgs[q], e)
        BY <1>2, <3>1, <4>1, WithoutLoad
      <4> QED BY <1>1, <3>1, <4>2
    <3>2. CASE q # "inapp"
      <4>1. msgs'["inapp"] = msgs["inapp"]
        BY <1>0, <1>1, <3>2
      <4> QED BY <1>2, <4>1
    <3> QED BY <3>1, <3>2
  <2>2. sent' = sent /\ shown' = shown /\ cuts' = cuts /\ faults' = faults
    BY <1>0 DEF outbox_vars
  <2>3. \A e \in Event : shown'[e] + Load(msgs'["inapp"], e) - sent'[e] - cuts' - faults'
                           <= shown[e] + Load(msgs["inapp"], e) - sent[e] - cuts - faults
    BY <1>2, <2>1, <2>2
  <2> QED BY <1>0, <1>3, <2>1, <2>3, UnitsSettled
<1>5. GivenIsOpen'
  <2>1. \A e \in Event : shown'[e] >= shown[e]
    BY <1>0, <1>2
  <2>2. routed["inapp"] \subseteq Event /\ routed["bot"] \subseteq Event
    BY <1>0 DEF TypeOK
  <2> QED BY <1>0, <1>1, <1>3, <2>1, <2>2, GivenKept
<1>6. GivenToBound'
  BY <1>0 DEF GivenToBound
<1> QED BY <1>3, <1>4, <1>5, <1>6 DEF DeliveryInv

LEMMA RedeliverKeeps ==
  ASSUME DeliveryInv, NEW q \in Queue, NEW m \in Message, Redeliver(q, m)
  PROVE  DeliveryInv'
<1>0. /\ TypeOK /\ UnitsHaveCause /\ GivenIsOpen /\ GivenToBound
      /\ InQueue(q, m) /\ Move(q, m, "ready") /\ cuts' = cuts + 1
      /\ UNCHANGED <<outbox_vars, bound, shown, told, dead, swallowed, routed>>
      /\ "inapp" \in Queue /\ "bot" \in Queue
  BY DEF DeliveryInv, Redeliver, Queue
<1>1. /\ msgs' \in [Queue -> [Message -> Nat]]
      /\ \A e \in Event, p \in Queue : OpenMessage(p, e) => OpenMessage(p, e)'
  BY <1>0, MoveType DEF Open
<1>2. /\ cuts \in Nat /\ faults \in Nat
      /\ \A e \in Event : sent[e] \in Nat /\ shown[e] \in Nat /\ Load(msgs["inapp"], e) \in Nat
  BY <1>0, QueueShape
<1>3. TypeOK'
  <2>1. cuts' \in Nat
    BY <1>0, <1>2
  <2> QED BY <1>0, <1>1, <2>1 DEF TypeOK, OutboxTypeOK, outbox_vars, Event
<1>4. UnitsHaveCause'
  <2>1. \A e \in Event : /\ IsFiniteSet(Units(msgs'["inapp"], e))
                         /\ Load(msgs'["inapp"], e) \in Nat
                         /\ Load(msgs'["inapp"], e) <= Load(msgs["inapp"], e) + 1
    BY <1>0, MoveUnits
  <2>2. sent' = sent /\ shown' = shown /\ faults' = faults
    BY <1>0 DEF outbox_vars
  <2>3. \A e \in Event : shown'[e] + Load(msgs'["inapp"], e) - sent'[e] - cuts' - faults'
                           <= shown[e] + Load(msgs["inapp"], e) - sent[e] - cuts - faults
    BY <1>0, <1>2, <2>1, <2>2
  <2> QED BY <1>0, <1>3, <2>1, <2>3, UnitsSettled
<1>5. GivenIsOpen'
  <2>1. \A e \in Event : shown'[e] >= shown[e]
    BY <1>0, <1>2
  <2>2. routed["inapp"] \subseteq Event /\ routed["bot"] \subseteq Event
    BY <1>0 DEF TypeOK
  <2> QED BY <1>0, <1>1, <1>3, <2>1, <2>2, GivenKept
<1>6. GivenToBound'
  BY <1>0 DEF GivenToBound
<1> QED BY <1>3, <1>4, <1>5, <1>6 DEF DeliveryInv

-----------------------------------------------------------------------------
LEMMA DeliveryStep == DeliveryInv /\ [Next]_vars => DeliveryInv'
<1> SUFFICES ASSUME DeliveryInv, [Next]_vars PROVE DeliveryInv'
  OBVIOUS
<1>1. CASE OutboxStep
  BY <1>1, OutboxStepKeeps
<1>2. CASE \E w \in Worker, e \in Event : PublishRouted(w, e)
  BY <1>2, PublishRoutedKeeps
<1>3. CASE \E q \in Queue : Bind(q)
  BY <1>3, BindKeeps
<1>4. CASE \E m \in Message : Handle(m) \/ Swallow(m) \/ Retry(m) \/ Reject(m)
  BY <1>4, ShowKeeps, TellKeeps, SwallowKeeps, RetryKeeps, RejectKeeps DEF Handle
<1>5. CASE \E q \in Queue, m \in Message : Take(q, m) \/ Ack(q, m) \/ Redeliver(q, m)
  BY <1>5, TakeKeeps, AckKeeps, RedeliverKeeps
<1>6. CASE UNCHANGED vars
  <2>1. UNCHANGED outbox_vars /\ UNCHANGED delivery_vars
    BY <1>6 DEF vars
  <2>2. TypeOK'
    BY <2>1 DEF DeliveryInv, TypeOK, OutboxTypeOK, outbox_vars, delivery_vars
  <2>3. UnitsHaveCause' /\ GivenIsOpen' /\ GivenToBound'
    BY <2>1 DEF DeliveryInv, UnitsHaveCause, GivenIsOpen, GivenToBound, OpenMessage, InQueue,
                outbox_vars, delivery_vars
  <2> QED BY <2>2, <2>3 DEF DeliveryInv
<1> QED BY <1>1, <1>2, <1>3, <1>4, <1>5, <1>6 DEF Next

LEMMA DeliveryInvSound == DeliveryInv => DeliveryAccounted
<1> SUFFICES ASSUME DeliveryInv PROVE TypeOK /\ AcceptedIsAccounted /\ ShownHasCause
  BY DEF DeliveryAccounted
<1>1. TypeOK /\ UnitsHaveCause /\ GivenIsOpen
  BY DEF DeliveryInv
<1>2. AcceptedIsAccounted
  <2>1. \A e \in Event, q \in Queue : OpenMessage(q, e) => Waiting(q, e)
    BY DEF OpenMessage, Waiting
  <2> QED BY <1>1, <2>1 DEF GivenIsOpen, AcceptedIsAccounted, TypeOK, Queue
<1>3. ASSUME NEW e \in Event
      PROVE  shown[e] <= sent[e] + cuts + faults
  <2>1. /\ IsFiniteSet(Units(msgs["inapp"], e))
        /\ shown[e] + Cardinality(Units(msgs["inapp"], e)) <= sent[e] + cuts + faults
    BY <1>1 DEF UnitsHaveCause
  <2>2. Cardinality(Units(msgs["inapp"], e)) \in Nat
    BY <2>1, FS_CardinalityType
  <2>3. shown[e] \in Nat /\ sent[e] \in Nat /\ cuts \in Nat /\ faults \in Nat
    BY <1>1 DEF TypeOK, OutboxTypeOK
  <2> QED BY <2>1, <2>2, <2>3
<1> QED BY <1>1, <1>2, <1>3 DEF ShownHasCause

(* For any number of events, workers, retries, faults and redeliveries: of *)
(* what a queue was given nothing is lost without a record, and no         *)
(* notification is stored without a message, a redelivery or a retry of    *)
(* its own event.                                                          *)
THEOREM DeliveryStaysAccounted == Spec => []DeliveryAccounted
<1>1. Init => DeliveryInv
  BY DeliveryInit
<1>2. DeliveryInv /\ [Next]_vars => DeliveryInv'
  BY DeliveryStep
<1>3. DeliveryInv => DeliveryAccounted
  BY DeliveryInvSound
<1> QED BY <1>1, <1>2, <1>3, PTL DEF Spec

=============================================================================
