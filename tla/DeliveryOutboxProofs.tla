------------------------ MODULE DeliveryOutboxProofs ------------------------
(***************************************************************************)
(* Proofs about DeliveryOutbox, for every set of editions and workers and  *)
(* every configuration.  One theorem per invariant, each by induction over *)
(* the steps of Next; the later ones take the earlier ones as known.       *)
(***************************************************************************)
EXTENDS DeliveryOutbox, FiniteSetTheorems, TLAPS

USE DEF workerVars, rowVars, history

\* A countdown and a remaining delay stay within the range they started in.
LEMMA CountDownRange ==
  ASSUME NEW n \in Nat, NEW m \in 0..n
  PROVE  CountDown(m) \in 0..n
BY DEF CountDown

LEMMA LeftOfRange ==
  ASSUME NEW attempt, NEW spent \in 0..MaxBackoff
  PROVE  LeftOf(Backoff(attempt), spent) \in 0..MaxBackoff
<1>1. MaxBackoff \in Nat \ {0}
  BY ConfigAssumption
<1>2. Backoff(attempt) \in 1..MaxBackoff
  BY <1>1 DEF Backoff
<1> QED
  BY <1>1, <1>2 DEF LeftOf

\* What the two shared parts of a recording step do to the types.
LEMMA NextRowType ==
  ASSUME TypeOK, NEW w \in Workers, NextRow(w)
  PROVE  /\ pc' \in [Workers -> {"idle", "next", "card", "file", "record"}]
         /\ snapshot' \in [Workers -> [Editions -> Nat]]
         /\ current' \in [Workers -> Editions \cup {NoEdition}]
         /\ outcome' \in [Workers -> {"none", "ok", "transient", "permanent"}]
<1>1. [snapshot[w] EXCEPT ![current[w]] = 0] \in [Editions -> Nat]
  BY DEF TypeOK
<1>2. snapshot' \in [Workers -> [Editions -> Nat]]
  BY <1>1 DEF TypeOK, NextRow
<1>3. pc' \in [Workers -> {"idle", "next", "card", "file", "record"}]
  <2>1. PICK p \in {"idle", "next"} : pc' = [pc EXCEPT ![w] = p]
    BY DEF NextRow
  <2> QED
    BY <2>1 DEF TypeOK
<1>4. current' \in [Workers -> Editions \cup {NoEdition}]
  BY DEF TypeOK, NextRow
<1>5. outcome' \in [Workers -> {"none", "ok", "transient", "permanent"}]
  BY DEF TypeOK, NextRow
<1> QED
  BY <1>2, <1>3, <1>4, <1>5

LEMMA ReleaseType ==
  ASSUME TypeOK, NEW e, NEW row \in OutboxStatus, NEW run \in EditionStatus,
         NEW code \in {"none", "transient", "permanent", "exhausted"},
         Release(e, row, code, run)
  PROVE  /\ edition' \in [Editions -> EditionStatus]
         /\ outbox' \in [Editions -> OutboxStatus \cup {"none"}]
         /\ owner' \in [Editions -> STRING \cup {NoOwner}]
         /\ leaseLeft' \in [Editions -> 0..LeaseMinutes]
         /\ errorCode' \in [Editions -> {"none", "transient", "permanent", "exhausted"}]
<1>1. edition' \in [Editions -> EditionStatus]
  BY DEF Release, TypeOK
<1>2. outbox' \in [Editions -> OutboxStatus \cup {"none"}]
  BY DEF Release, TypeOK
<1>3. owner' \in [Editions -> STRING \cup {NoOwner}]
  BY DEF Release, TypeOK
<1>4. leaseLeft' \in [Editions -> 0..LeaseMinutes]
  <2>1. 0 \in 0..LeaseMinutes
    BY ConfigAssumption
  <2> QED
    BY <2>1 DEF Release, TypeOK
<1>5. errorCode' \in [Editions -> {"none", "transient", "permanent", "exhausted"}]
  BY DEF Release, TypeOK
<1> QED
  BY <1>1, <1>2, <1>3, <1>4, <1>5

LEMMA RecordType ==
  ASSUME TypeOK, NEW w \in Workers, NEW row \in OutboxStatus, NEW run \in EditionStatus,
         NEW code \in {"none", "transient", "permanent", "exhausted"},
         Release(current[w], row, code, run), NextRow(w),
         NEW wait \in 0..MaxBackoff,
         waitLeft' = [waitLeft EXCEPT ![current[w]] = wait],
         UNCHANGED <<attempts, usage, accepted, elapsed, history, interventions>>
  PROVE  TypeOK'
<1>1. waitLeft' \in [Editions -> 0..MaxBackoff]
  BY DEF TypeOK
<1>2. /\ pc' \in [Workers -> {"idle", "next", "card", "file", "record"}]
      /\ snapshot' \in [Workers -> [Editions -> Nat]]
      /\ current' \in [Workers -> Editions \cup {NoEdition}]
      /\ outcome' \in [Workers -> {"none", "ok", "transient", "permanent"}]
  BY NextRowType
<1>3. /\ edition' \in [Editions -> EditionStatus]
      /\ outbox' \in [Editions -> OutboxStatus \cup {"none"}]
      /\ owner' \in [Editions -> STRING \cup {NoOwner}]
      /\ leaseLeft' \in [Editions -> 0..LeaseMinutes]
      /\ errorCode' \in [Editions -> {"none", "transient", "permanent", "exhausted"}]
  BY ReleaseType
<1> QED
  BY <1>1, <1>2, <1>3 DEF TypeOK

\* Every variable keeps its type: attempt counts are numbers, countdowns stay
\* within the configured lease and backoff.
THEOREM TypeCorrect == Spec => []TypeOK
<1>1. Init => TypeOK
  BY ConfigAssumption, WorkerAssumption DEF Init, TypeOK, EditionStatus, OutboxStatus, Parts
<1>2. TypeOK /\ [Next]_vars => TypeOK'
  <2> SUFFICES ASSUME TypeOK, [Next]_vars PROVE TypeOK'
    OBVIOUS
  <2> USE ConfigAssumption, WorkerAssumption
  <2> USE DEF EditionStatus, OutboxStatus, Parts
  <2>0. 0 \in 0..MaxBackoff
    BY ConfigAssumption
  <2>1. ASSUME NEW e \in Editions, Enqueue(e) PROVE TypeOK'
    BY <2>1 DEF TypeOK, Enqueue
  <2>2. ASSUME NEW w \in Workers, NEW S \in SUBSET Editions, Claim(w, S) PROVE TypeOK'
    BY <2>2 DEF TypeOK, Claim, CountAttempt
  <2>3. ASSUME NEW w \in Workers, NEW e \in Editions, StartDelivery(w, e) PROVE TypeOK'
    BY <2>3 DEF TypeOK, StartDelivery
  <2>4. ASSUME NEW w \in Workers, SendCard(w) PROVE TypeOK'
    BY <2>4 DEF TypeOK, SendCard
  <2>5. ASSUME NEW w \in Workers, SendFile(w) PROVE TypeOK'
    BY <2>5 DEF TypeOK, SendFile
  <2>6. ASSUME NEW w \in Workers, NEW kind \in {"transient", "permanent"},
               DeliverFails(w, kind)
        PROVE  TypeOK'
    BY <2>6 DEF TypeOK, DeliverFails
  <2>7. ASSUME NEW w \in Workers, RecordSuccess(w) PROVE TypeOK'
    <3>1. /\ Release(current[w], "delivered", "none", "delivered")
          /\ waitLeft' = [waitLeft EXCEPT ![current[w]] = 0]
          /\ NextRow(w)
          /\ UNCHANGED <<attempts, usage, accepted, elapsed, history, interventions>>
      BY <2>7 DEF RecordSuccess
    <3> QED
      BY <2>0, <3>1, RecordType
  <2>8. ASSUME NEW w \in Workers, RecordRetry(w) PROVE TypeOK'
    <3>1. elapsed[w] \in 0..MaxBackoff
      BY DEF TypeOK
    <3>2. LeftOf(Backoff(snapshot[w][current[w]]), elapsed[w]) \in 0..MaxBackoff
      BY <3>1, LeftOfRange
    <3> QED
      BY <2>8, <3>2, RecordType DEF RecordRetry
  <2>9. ASSUME NEW w \in Workers, RecordTerminal(w) PROVE TypeOK'
    <3>1. PICK code \in {"exhausted", "permanent"} :
            /\ Release(current[w], "terminal", code, "terminal")
            /\ waitLeft' = [waitLeft EXCEPT ![current[w]] = 0]
            /\ NextRow(w)
            /\ UNCHANGED <<attempts, usage, accepted, elapsed, history, interventions>>
      BY <2>9 DEF RecordTerminal
    <3> QED
      BY <2>0, <3>1, RecordType
  <2>10. ASSUME NEW w \in Workers, LeaseLost(w) PROVE TypeOK'
    BY <2>10 DEF TypeOK, LeaseLost, ProcessEnds
  <2>11. ASSUME NEW w \in Workers, Crash(w) PROVE TypeOK'
    BY <2>11 DEF TypeOK, Crash, ProcessEnds
  <2>12. ASSUME NEW e \in Editions, Redeliver(e) PROVE TypeOK'
    BY <2>12 DEF TypeOK, Redeliver
  <2>13. CASE Tick
    BY <2>13, CountDownRange DEF TypeOK, Tick
  <2>14. CASE UNCHANGED vars
    BY <2>14 DEF TypeOK, vars
  <2> QED
    BY <2>1, <2>2, <2>3, <2>4, <2>5, <2>6, <2>7, <2>8, <2>9, <2>10, <2>11,
       <2>12, <2>13, <2>14 DEF Next, Work
<1> QED
  BY <1>1, <1>2, PTL DEF Spec

-----------------------------------------------------------------------------
(* The outbox row and the edition run never diverge.                       *)

\* Recording a result for a row that is being sent moves both tables.
LEMMA ReleaseAgrees ==
  ASSUME TypeOK, OutboxAgrees, NEW w \in Workers, Holds(w, current[w]),
         NEW row \in OutboxStatus, NEW run \in EditionStatus, NEW code,
         Agrees(row, run), Release(current[w], row, code, run)
  PROVE  OutboxAgrees'
<1> SUFFICES ASSUME NEW e \in Editions PROVE Agrees(outbox'[e], edition'[e])
  BY DEF OutboxAgrees, Agrees
<1>1. CASE e = current[w]
  <2>1. edition[e] = "delivering"
    BY <1>1 DEF Holds, OutboxAgrees, Agrees
  <2>2. outbox'[e] = row /\ edition'[e] = run
    BY <1>1, <2>1 DEF Release, TypeOK
  <2> QED
    BY <2>2
<1>2. CASE e # current[w]
  <2>1. outbox'[e] = outbox[e] /\ edition'[e] = edition[e]
    BY <1>2 DEF Release, TypeOK
  <2> QED
    BY <2>1 DEF OutboxAgrees
<1> QED
  BY <1>1, <1>2

\* "Queued, delivering, delivered, and terminal states do not diverge across a
\* process crash": every transaction moves both tables or neither.
THEOREM OutboxAgreesAlways == Spec => []OutboxAgrees
<1>1. Init => OutboxAgrees
  BY DEF Init, OutboxAgrees, Agrees
<1>2. TypeOK /\ OutboxAgrees /\ [Next]_vars => OutboxAgrees'
  <2> SUFFICES ASSUME TypeOK, OutboxAgrees, [Next]_vars PROVE OutboxAgrees'
    OBVIOUS
  <2> USE DEF OutboxStatus, EditionStatus
  <2>1. ASSUME NEW e \in Editions, Enqueue(e) PROVE OutboxAgrees'
    BY <2>1 DEF Enqueue, OutboxAgrees, Agrees, TypeOK
  <2>2. ASSUME NEW w \in Workers, NEW S \in SUBSET Editions, Claim(w, S)
        PROVE  OutboxAgrees'
    <3> SUFFICES ASSUME NEW e \in Editions PROVE Agrees(outbox'[e], edition'[e])
      BY DEF OutboxAgrees, Agrees
    <3>1. CASE e \in S
      <4>1. edition[e] \in {"queued", "delivering"}
        BY <2>2, <3>1 DEF Claim, DueRows, Due, Lapsed
      <4>2. outbox'[e] = "sending" /\ edition'[e] = "delivering"
        BY <2>2, <3>1, <4>1 DEF Claim
      <4> QED
        BY <4>2 DEF Agrees
    <3>2. CASE e \notin S
      BY <2>2, <3>2 DEF Claim, OutboxAgrees, Agrees
    <3> QED
      BY <3>1, <3>2
  <2>3. ASSUME NEW w \in Workers, RecordSuccess(w) PROVE OutboxAgrees'
    <3>1. Agrees("delivered", "delivered")
      BY DEF Agrees
    <3> QED
      BY <2>3, <3>1, ReleaseAgrees DEF RecordSuccess
  <2>4. ASSUME NEW w \in Workers, RecordRetry(w) PROVE OutboxAgrees'
    <3>1. Agrees("retry_wait", "queued")
      BY DEF Agrees
    <3> QED
      BY <2>4, <3>1, ReleaseAgrees DEF RecordRetry
  <2>5. ASSUME NEW w \in Workers, RecordTerminal(w) PROVE OutboxAgrees'
    <3>1. Agrees("terminal", "terminal")
      BY DEF Agrees
    <3> QED
      BY <2>5, <3>1, ReleaseAgrees DEF RecordTerminal
  <2>6. ASSUME NEW e \in Editions, Redeliver(e) PROVE OutboxAgrees'
    BY <2>6 DEF Redeliver, OutboxAgrees, Agrees, TypeOK
  <2>7. ASSUME UNCHANGED <<edition, outbox>> PROVE OutboxAgrees'
    BY <2>7 DEF OutboxAgrees, Agrees
  <2>8. ASSUME NEW w \in Workers, NEW e \in Editions, StartDelivery(w, e)
        PROVE  OutboxAgrees'
    BY <2>7, <2>8 DEF StartDelivery
  <2>9. ASSUME NEW w \in Workers, SendCard(w) PROVE OutboxAgrees'
    BY <2>7, <2>9 DEF SendCard
  <2>10. ASSUME NEW w \in Workers, SendFile(w) PROVE OutboxAgrees'
    BY <2>7, <2>10 DEF SendFile
  <2>11. ASSUME NEW w \in Workers, NEW kind, DeliverFails(w, kind) PROVE OutboxAgrees'
    BY <2>7, <2>11 DEF DeliverFails
  <2>12. ASSUME NEW w \in Workers, LeaseLost(w) \/ Crash(w) PROVE OutboxAgrees'
    BY <2>7, <2>12 DEF LeaseLost, Crash
  <2>13. CASE Tick \/ UNCHANGED vars
    BY <2>7, <2>13 DEF Tick, vars
  <2> QED
    BY <2>1, <2>2, <2>3, <2>4, <2>5, <2>6, <2>8, <2>9, <2>10, <2>11, <2>12,
       <2>13 DEF Next, Work
<1> QED
  BY <1>1, <1>2, TypeCorrect, PTL DEF Spec

-----------------------------------------------------------------------------
(* Leases.                                                                 *)

\* A row has an owner and a running lease exactly while it is being sent.
THEOREM LeaseFieldsMatchAlways == Spec => []LeaseFieldsMatch
<1>1. Init => LeaseFieldsMatch
  BY DEF Init, LeaseFieldsMatch
<1>2. TypeOK /\ LeaseFieldsMatch /\ [Next]_vars => LeaseFieldsMatch'
  <2> SUFFICES ASSUME TypeOK, LeaseFieldsMatch, [Next]_vars,
                      NEW e \in Editions
               PROVE  /\ outbox'[e] = "sending" <=> owner'[e] # NoOwner
                      /\ leaseLeft'[e] > 0 => outbox'[e] = "sending"
    BY DEF LeaseFieldsMatch
  <2>0. /\ outbox[e] = "sending" <=> owner[e] # NoOwner
        /\ leaseLeft[e] > 0 => outbox[e] = "sending"
    BY DEF LeaseFieldsMatch
  <2>1. ASSUME NEW d \in Editions, Enqueue(d)
        PROVE  /\ outbox'[e] = "sending" <=> owner'[e] # NoOwner
               /\ leaseLeft'[e] > 0 => outbox'[e] = "sending"
    BY <2>0, <2>1 DEF Enqueue, TypeOK
  <2>2. ASSUME NEW w \in Workers, NEW S \in SUBSET Editions, Claim(w, S)
        PROVE  /\ outbox'[e] = "sending" <=> owner'[e] # NoOwner
               /\ leaseLeft'[e] > 0 => outbox'[e] = "sending"
    <3>1. IdOf[w] # NoOwner
      BY WorkerAssumption
    <3> QED
      BY <2>0, <2>2, <3>1 DEF Claim
  <2>3. ASSUME NEW d, NEW row \in {"delivered", "retry_wait", "terminal"}, NEW code,
               NEW run, Release(d, row, code, run)
        PROVE  /\ outbox'[e] = "sending" <=> owner'[e] # NoOwner
               /\ leaseLeft'[e] > 0 => outbox'[e] = "sending"
    BY <2>0, <2>3 DEF Release, TypeOK
  <2>4. ASSUME NEW w \in Workers, RecordSuccess(w) \/ RecordRetry(w) \/ RecordTerminal(w)
        PROVE  /\ outbox'[e] = "sending" <=> owner'[e] # NoOwner
               /\ leaseLeft'[e] > 0 => outbox'[e] = "sending"
    BY <2>3, <2>4 DEF RecordSuccess, RecordRetry, RecordTerminal
  <2>5. ASSUME NEW d \in Editions, Redeliver(d)
        PROVE  /\ outbox'[e] = "sending" <=> owner'[e] # NoOwner
               /\ leaseLeft'[e] > 0 => outbox'[e] = "sending"
    BY <2>0, <2>5 DEF Redeliver, TypeOK
  <2>6. CASE Tick
    <3>1. leaseLeft'[e] = CountDown(leaseLeft[e])
      BY <2>6 DEF Tick
    <3>2. leaseLeft'[e] > 0 => leaseLeft[e] > 0
      BY <3>1 DEF CountDown, TypeOK
    <3> QED
      BY <2>0, <2>6, <3>2 DEF Tick
  <2>7. ASSUME UNCHANGED <<outbox, owner, leaseLeft>>
        PROVE  /\ outbox'[e] = "sending" <=> owner'[e] # NoOwner
               /\ leaseLeft'[e] > 0 => outbox'[e] = "sending"
    BY <2>0, <2>7
  <2>8. ASSUME NEW w \in Workers, LeaseLost(w) \/ Crash(w) \/ SendCard(w) \/ SendFile(w)
        PROVE  UNCHANGED <<outbox, owner, leaseLeft>>
    BY <2>8 DEF LeaseLost, Crash, SendCard, SendFile
  <2>9. ASSUME NEW w \in Workers, NEW d, StartDelivery(w, d) \/ DeliverFails(w, d)
        PROVE  UNCHANGED <<outbox, owner, leaseLeft>>
    BY <2>9 DEF StartDelivery, DeliverFails
  <2>10. CASE UNCHANGED vars
    BY <2>7, <2>10 DEF vars
  <2> QED
    BY <2>1, <2>2, <2>4, <2>5, <2>6, <2>7, <2>8, <2>9, <2>10 DEF Next, Work
<1> QED
  BY <1>1, <1>2, TypeCorrect, PTL DEF Spec

\* Where a worker is in run_once tells which row it has in hand.
WorkerOK == \A w \in Workers :
  /\ pc[w] = "idle" => Claimed(w) = {}
  /\ pc[w] \in {"card", "file", "record"} => current[w] \in Claimed(w)

LEMMA WorkerOKAlways == Spec => []WorkerOK
<1>1. Init => WorkerOK
  BY DEF Init, WorkerOK, Claimed
<1>2. TypeOK /\ WorkerOK /\ [Next]_vars => WorkerOK'
  <2> SUFFICES ASSUME TypeOK, WorkerOK, [Next]_vars PROVE WorkerOK'
    OBVIOUS
  <2>1. ASSUME NEW w \in Workers, NEW S \in SUBSET Editions, Claim(w, S) PROVE WorkerOK'
    BY <2>1 DEF Claim, WorkerOK, Claimed, TypeOK
  <2>2. ASSUME NEW w \in Workers, NEW e \in Editions, StartDelivery(w, e) PROVE WorkerOK'
    BY <2>2 DEF StartDelivery, WorkerOK, Claimed, TypeOK
  <2>3. ASSUME NEW w \in Workers, SendCard(w) \/ SendFile(w) PROVE WorkerOK'
    BY <2>3 DEF SendCard, SendFile, WorkerOK, Claimed, TypeOK
  <2>4. ASSUME NEW w \in Workers, NEW kind, DeliverFails(w, kind) PROVE WorkerOK'
    BY <2>4 DEF DeliverFails, WorkerOK, Claimed, TypeOK
  <2>5. ASSUME NEW w \in Workers, NextRow(w) PROVE WorkerOK'
    <3>1. Claimed(w)' = Claimed(w) \ {current[w]}
      BY <2>5 DEF NextRow, Claimed, TypeOK
    <3>2. pc'[w] = IF Claimed(w)' = {} THEN "idle" ELSE "next"
      BY <2>5, <3>1 DEF NextRow, TypeOK
    <3>3. \A v \in Workers \ {w} :
             pc'[v] = pc[v] /\ current'[v] = current[v] /\ Claimed(v)' = Claimed(v)
      BY <2>5 DEF NextRow, Claimed, TypeOK
    <3>4. \A v \in Workers : pc'[v] = "idle" => Claimed(v)' = {}
      BY <3>2, <3>3 DEF WorkerOK
    <3>5. \A v \in Workers : pc'[v] \in {"card", "file", "record"} => current'[v] \in Claimed(v)'
      BY <3>2, <3>3 DEF WorkerOK
    <3> QED
      BY <3>4, <3>5 DEF WorkerOK
  <2>6. ASSUME NEW w \in Workers, RecordSuccess(w) \/ RecordRetry(w) \/ RecordTerminal(w)
        PROVE  WorkerOK'
    BY <2>5, <2>6 DEF RecordSuccess, RecordRetry, RecordTerminal
  <2>7. ASSUME NEW w \in Workers, ProcessEnds(w) PROVE WorkerOK'
    BY <2>7 DEF ProcessEnds, WorkerOK, Claimed, TypeOK
  <2>8. ASSUME NEW w \in Workers, LeaseLost(w) \/ Crash(w) PROVE WorkerOK'
    BY <2>7, <2>8 DEF LeaseLost, Crash
  <2>9. ASSUME UNCHANGED <<pc, snapshot, current>> PROVE WorkerOK'
    BY <2>9 DEF WorkerOK, Claimed
  <2>10. ASSUME NEW e \in Editions, Enqueue(e) \/ Redeliver(e) PROVE WorkerOK'
    BY <2>9, <2>10 DEF Enqueue, Redeliver
  <2>11. CASE Tick \/ UNCHANGED vars
    BY <2>9, <2>11 DEF Tick, vars
  <2> QED
    BY <2>1, <2>2, <2>3, <2>4, <2>6, <2>8, <2>10, <2>11 DEF Next, Work
<1> QED
  BY <1>1, <1>2, TypeCorrect, PTL DEF Spec

-----------------------------------------------------------------------------
(* Who has a row in hand, and its attempts.                                *)

\* A claim of a batch counts an attempt for each of its rows, and a takeover
\* for each whose lease had run out.
LEMMA ClaimSteps ==
  ASSUME TypeOK, WorkerOK, NEW w \in Workers, NEW S \in SUBSET Editions, Claim(w, S),
         NEW e \in Editions
  PROVE  /\ Claimed(w) = {}
         /\ e \in S => /\ outbox'[e] = "sending" /\ attempts'[e] = attempts[e] + 1
                       /\ snapshot'[w][e] = attempts[e] + 1
                       /\ \/ outbox[e] \in {"pending", "retry_wait"} /\ lapses'[e] = lapses[e]
                          \/ outbox[e] = "sending" /\ lapses'[e] = lapses[e] + 1
         /\ e \notin S => /\ outbox'[e] = outbox[e] /\ attempts'[e] = attempts[e]
                          /\ snapshot'[w][e] = 0 /\ lapses'[e] = lapses[e]
         /\ \A v \in Workers \ {w} : snapshot'[v] = snapshot[v]
<1>1. Claimed(w) = {}
  BY DEF Claim, WorkerOK
<1>2. snapshot'[w] = [d \in Editions |-> IF d \in S THEN attempts[d] + 1 ELSE 0]
  BY DEF Claim, TypeOK
<1>3. \A v \in Workers \ {w} : snapshot'[v] = snapshot[v]
  BY DEF Claim, TypeOK
<1>4. e \in S => Due(e)
  BY DEF Claim, DueRows
<1>5. lapses'[e] = lapses[e] + (IF e \in S /\ Lapsed(e) THEN 1 ELSE 0) /\ lapses[e] \in Nat
  BY DEF Claim, TypeOK
<1>6. outbox'[e] = (IF e \in S THEN "sending" ELSE outbox[e]) /\ attempts'[e] = (IF e \in S THEN attempts[e] + 1 ELSE attempts[e])
  BY DEF Claim, CountAttempt
<1> QED
  BY <1>1, <1>2, <1>3, <1>4, <1>5, <1>6 DEF Due, Lapsed

\* The worker is done with row d, which leaves its batch.
LEMMA NextRowLeaves ==
  ASSUME TypeOK, WorkerOK, NEW w \in Workers, pc[w] = "record", NextRow(w)
  PROVE  /\ current[w] \in Editions /\ snapshot[w][current[w]] > 0
         /\ snapshot'[w][current[w]] = 0
         /\ \A v \in Workers, e \in Editions :
              v # w \/ e # current[w] => snapshot'[v][e] = snapshot[v][e]
<1>1. current[w] \in Claimed(w)
  BY DEF WorkerOK
<1> QED
  BY <1>1 DEF Claimed, NextRow, TypeOK

\* The workers with row e in hand, those of them with attempts left to decide
\* on, and the two counts the budget is kept with.
Held(e) == {w \in Workers : snapshot[w][e] > 0}
Young(e) == {w \in Workers : snapshot[w][e] > 0 /\ snapshot[w][e] < MaxAttempts}
One(b) == IF b THEN 1 ELSE 0

HeldOK(e) == Cardinality(Held(e)) <= lapses[e] + One(outbox[e] = "sending")

SpentOK(e) ==
  /\ outbox[e] = "none" => attempts[e] = 0
  /\ attempts[e] >= MaxAttempts =>
       attempts[e] + Cardinality(Young(e)) + One(outbox[e] \in {"pending", "retry_wait"})
         <= MaxAttempts + lapses[e] + redelivered[e]
  /\ \A w \in Workers : snapshot[w][e] <= attempts[e]
  /\ errorCode[e] = "exhausted" => attempts[e] >= MaxAttempts

LEMMA HeldFinite ==
  ASSUME IsFiniteSet(Workers), NEW e
  PROVE  /\ IsFiniteSet(Held(e)) /\ Cardinality(Held(e)) \in Nat
         /\ IsFiniteSet(Young(e)) /\ Cardinality(Young(e)) \in Nat
         /\ Cardinality(Young(e)) <= Cardinality(Held(e))
<1>1. Held(e) \in SUBSET Workers /\ Young(e) \in SUBSET Held(e)
  BY DEF Held, Young
<1> QED
  BY <1>1, FS_Subset, FS_CardinalityType

\* A worker takes row e in hand, at an attempt past the last.
LEMMA HeldGrows ==
  ASSUME IsFiniteSet(Workers), NEW e, NEW w \in Workers, w \notin Held(e),
         snapshot'[w][e] > 0, \A v \in Workers \ {w} : snapshot'[v] = snapshot[v]
  PROVE  /\ Cardinality(Held(e)') = Cardinality(Held(e)) + 1
         /\ ~(snapshot'[w][e] < MaxAttempts) => Cardinality(Young(e)') = Cardinality(Young(e))
<1>1. Held(e)' = Held(e) \cup {w}
  BY DEF Held
<1>2. ~(snapshot'[w][e] < MaxAttempts) => Young(e)' = Young(e)
  BY DEF Held, Young
<1> QED
  BY <1>1, <1>2, HeldFinite, FS_AddElement

\* A worker lets row e go.
LEMMA HeldShrinks ==
  ASSUME IsFiniteSet(Workers), NEW e, NEW w \in Workers, w \in Held(e),
         snapshot'[w][e] = 0, \A v \in Workers \ {w} : snapshot'[v][e] = snapshot[v][e]
  PROVE  /\ Cardinality(Held(e)') = Cardinality(Held(e)) - 1
         /\ Cardinality(Young(e)') = Cardinality(Young(e)) - One(snapshot[w][e] < MaxAttempts)
<1>0. ~(snapshot'[w][e] > 0)
  OBVIOUS
<1>1. Held(e)' = Held(e) \ {w}
  BY <1>0 DEF Held
<1>2. Cardinality(Held(e)') = Cardinality(Held(e)) - 1
  BY <1>1, HeldFinite, FS_RemoveElement
<1>3. CASE snapshot[w][e] < MaxAttempts
  <2>1. Young(e)' = Young(e) \ {w} /\ w \in Young(e)
    BY <1>0, <1>3 DEF Young, Held
  <2> QED
    BY <1>2, <1>3, <2>1, HeldFinite, FS_RemoveElement DEF One
<1>4. CASE ~(snapshot[w][e] < MaxAttempts)
  <2>1. Young(e)' = Young(e)
    BY <1>0, <1>4 DEF Young
  <2> QED
    BY <1>2, <1>4, <2>1, HeldFinite DEF One
<1> QED
  BY <1>3, <1>4

\* Some workers let row e go, and the row stays as it is.
LEMMA HeldStays ==
  ASSUME IsFiniteSet(Workers), TypeOK, NEW e \in Editions, HeldOK(e), SpentOK(e),
         \A w \in Workers : snapshot'[w][e] = 0 \/ snapshot'[w][e] = snapshot[w][e],
         outbox'[e] = outbox[e], attempts'[e] = attempts[e], lapses'[e] = lapses[e],
         redelivered'[e] = redelivered[e], errorCode'[e] = errorCode[e]
  PROVE  HeldOK(e)' /\ SpentOK(e)'
<1>1. Held(e)' \in SUBSET Held(e) /\ Young(e)' \in SUBSET Young(e)
  BY DEF Held, Young
<1>2. /\ Cardinality(Held(e)') <= Cardinality(Held(e)) /\ Cardinality(Held(e)') \in Nat
      /\ Cardinality(Young(e)') <= Cardinality(Young(e)) /\ Cardinality(Young(e)') \in Nat
  BY <1>1, HeldFinite, FS_Subset, FS_CardinalityType
<1>3. /\ Cardinality(Held(e)) \in Nat /\ Cardinality(Young(e)) \in Nat
      /\ attempts[e] \in Nat /\ lapses[e] \in Nat /\ redelivered[e] \in Nat /\ MaxAttempts \in Nat
  BY HeldFinite, ConfigAssumption DEF TypeOK
<1>4. HeldOK(e)'
  BY <1>2, <1>3 DEF HeldOK, One
<1>5. \A w \in Workers : snapshot'[w][e] <= attempts'[e]
  BY <1>3 DEF SpentOK
<1>6. attempts'[e] >= MaxAttempts =>
        attempts'[e] + Cardinality(Young(e)') + One(outbox'[e] \in {"pending", "retry_wait"})
          <= MaxAttempts + lapses'[e] + redelivered'[e]
  BY <1>2, <1>3 DEF SpentOK, One
<1> QED
  BY <1>4, <1>5, <1>6 DEF SpentOK

LEMMA ClaimKeepsBudget ==
  ASSUME IsFiniteSet(Workers), TypeOK, WorkerOK, NEW w \in Workers,
         NEW S \in SUBSET Editions, Claim(w, S),
         NEW e \in Editions, HeldOK(e), SpentOK(e)
  PROVE  HeldOK(e)' /\ SpentOK(e)'
<1>1. /\ Claimed(w) = {}
      /\ e \in S => /\ outbox'[e] = "sending" /\ attempts'[e] = attempts[e] + 1
                    /\ snapshot'[w][e] = attempts[e] + 1
                    /\ \/ outbox[e] \in {"pending", "retry_wait"} /\ lapses'[e] = lapses[e]
                       \/ outbox[e] = "sending" /\ lapses'[e] = lapses[e] + 1
      /\ e \notin S => /\ outbox'[e] = outbox[e] /\ attempts'[e] = attempts[e]
                       /\ snapshot'[w][e] = 0 /\ lapses'[e] = lapses[e]
      /\ \A v \in Workers \ {w} : snapshot'[v] = snapshot[v]
  BY ClaimSteps
<1>2. errorCode'[e] = errorCode[e] /\ redelivered'[e] = redelivered[e]
  BY DEF Claim
<1>3. CASE e \notin S
  BY <1>1, <1>2, <1>3, HeldStays
<1>4. CASE e \in S
  <2>1. /\ attempts[e] \in Nat /\ lapses[e] \in Nat /\ redelivered[e] \in Nat
        /\ MaxAttempts \in Nat /\ \A v \in Workers : snapshot[v][e] \in Nat
    BY ConfigAssumption DEF TypeOK
  <2>2. w \notin Held(e)
    BY <1>1 DEF Held, Claimed
  <2>3. snapshot'[w][e] > 0
    BY <1>1, <1>4, <2>1
  <2>4. /\ Cardinality(Held(e)') = Cardinality(Held(e)) + 1
        /\ ~(snapshot'[w][e] < MaxAttempts) => Cardinality(Young(e)') = Cardinality(Young(e))
    BY <1>1, <2>2, <2>3, HeldGrows
  <2>5. /\ Cardinality(Held(e)) \in Nat /\ Cardinality(Young(e)) \in Nat
        /\ Cardinality(Young(e)) <= Cardinality(Held(e))
    BY HeldFinite
  <2>6. HeldOK(e)'
    BY <1>1, <1>4, <2>1, <2>4, <2>5 DEF HeldOK, One
  <2>7. \A v \in Workers : snapshot'[v][e] <= attempts'[e]
    <3> SUFFICES ASSUME NEW v \in Workers PROVE snapshot'[v][e] <= attempts'[e]
      OBVIOUS
    <3>1. snapshot[v][e] <= attempts[e]
      BY DEF SpentOK
    <3>2. CASE v = w
      BY <1>1, <1>4, <2>1, <3>2
    <3>3. CASE v # w
      BY <1>1, <1>4, <2>1, <3>1, <3>3
    <3> QED
      BY <3>2, <3>3
  <2>8. attempts'[e] >= MaxAttempts =>
          attempts'[e] + Cardinality(Young(e)') + One(outbox'[e] \in {"pending", "retry_wait"})
            <= MaxAttempts + lapses'[e] + redelivered'[e]
    <3>0. One(outbox'[e] \in {"pending", "retry_wait"}) = 0
      BY <1>1, <1>4 DEF One
    <3> SUFFICES ASSUME attempts'[e] >= MaxAttempts
                 PROVE  attempts[e] + 1 + Cardinality(Young(e)) <= MaxAttempts + lapses'[e] + redelivered[e]
      <4>1. attempts'[e] = attempts[e] + 1 /\ snapshot'[w][e] = attempts[e] + 1
        BY <1>1, <1>4
      <4>2. attempts'[e] >= MaxAttempts => Cardinality(Young(e)') = Cardinality(Young(e))
        BY <2>1, <2>4, <4>1
      <4>3. attempts'[e] >= MaxAttempts =>
              attempts'[e] + Cardinality(Young(e)') + 0 = attempts[e] + 1 + Cardinality(Young(e))
        BY <2>1, <2>5, <4>1, <4>2
      <4> QED
        BY <1>2, <3>0, <4>3
    <3>1. CASE attempts[e] >= MaxAttempts
      BY <1>1, <1>4, <2>1, <2>5, <3>1 DEF SpentOK, One
    <3>2. CASE attempts[e] < MaxAttempts
      BY <1>1, <1>4, <2>1, <2>5, <3>2 DEF HeldOK, One
    <3> QED
      BY <2>1, <3>1, <3>2
  <2>9. errorCode'[e] = "exhausted" => attempts'[e] >= MaxAttempts
    BY <1>1, <1>2, <1>4, <2>1 DEF SpentOK
  <2>10. outbox'[e] # "none"
    BY <1>1, <1>4
  <2> QED
    BY <2>6, <2>7, <2>8, <2>9, <2>10 DEF SpentOK
<1> QED
  BY <1>3, <1>4

\* Recording takes one holder off the row and may owe it one more claim, which
\* only a worker with attempts left does.
LEMMA RecordKeepsBudget ==
  ASSUME IsFiniteSet(Workers), TypeOK, WorkerOK, NEW w \in Workers,
         pc[w] = "record", Holds(w, current[w]),
         NEW row, row = "delivered" \/ row = "retry_wait" \/ row = "terminal",
         NEW code, NEW run, Release(current[w], row, code, run), NextRow(w),
         UNCHANGED <<attempts, lapses, redelivered>>,
         row = "retry_wait" => snapshot[w][current[w]] < MaxAttempts,
         code = "exhausted" => ~(snapshot[w][current[w]] < MaxAttempts),
         NEW e \in Editions, HeldOK(e), SpentOK(e)
  PROVE  HeldOK(e)' /\ SpentOK(e)'
<1>1. /\ current[w] \in Editions /\ snapshot[w][current[w]] > 0
      /\ snapshot'[w][current[w]] = 0
      /\ \A v \in Workers, d \in Editions :
           v # w \/ d # current[w] => snapshot'[v][d] = snapshot[v][d]
  BY NextRowLeaves
<1>2. CASE e # current[w]
  <2>1. outbox'[e] = outbox[e] /\ errorCode'[e] = errorCode[e]
    BY <1>1, <1>2 DEF Release, TypeOK
  <2> QED
    BY <1>1, <1>2, <2>1, HeldStays
<1>3. CASE e = current[w]
  <2>1. /\ attempts[e] \in Nat /\ lapses[e] \in Nat /\ redelivered[e] \in Nat
        /\ MaxAttempts \in Nat /\ \A v \in Workers : snapshot[v][e] \in Nat
    BY ConfigAssumption DEF TypeOK
  <2>2. outbox[e] = "sending" /\ outbox'[e] = row /\ errorCode'[e] = code
    BY <1>3 DEF Holds, Release, TypeOK
  <2>3. w \in Held(e)
    BY <1>1, <1>3 DEF Held
  <2>4. /\ Cardinality(Held(e)') = Cardinality(Held(e)) - 1
        /\ Cardinality(Young(e)') = Cardinality(Young(e)) - One(snapshot[w][e] < MaxAttempts)
    BY <1>1, <1>3, <2>3, HeldShrinks
  <2>5. Cardinality(Held(e)) \in Nat /\ Cardinality(Young(e)) \in Nat
    BY HeldFinite
  <2>6. HeldOK(e)'
    BY <2>1, <2>2, <2>4, <2>5 DEF HeldOK, One
  <2>7. \A v \in Workers : snapshot'[v][e] <= attempts'[e]
    BY <1>1, <1>3, <2>1 DEF SpentOK
  <2>8. attempts[e] >= MaxAttempts =>
          attempts[e] + Cardinality(Young(e)') + One(row \in {"pending", "retry_wait"})
            <= MaxAttempts + lapses[e] + redelivered[e]
    BY <1>3, <2>1, <2>2, <2>4, <2>5 DEF SpentOK, One
  <2>9. code = "exhausted" => attempts[e] >= MaxAttempts
    BY <1>3, <2>1 DEF SpentOK
  <2> QED
    BY <2>2, <2>6, <2>7, <2>8, <2>9 DEF SpentOK
<1> QED
  BY <1>2, <1>3

\* Every row is in the hands of no more processes than leases of it ran out,
\* and the attempts it can still be charged are those they and the row allow.
LEMMA BudgetInv ==
  IsFiniteSet(Workers) => (Spec => [](\A e \in Editions : HeldOK(e) /\ SpentOK(e)))
<1> SUFFICES ASSUME IsFiniteSet(Workers)
             PROVE  Spec => [](\A e \in Editions : HeldOK(e) /\ SpentOK(e))
  OBVIOUS
<1> DEFINE Inv == \A e \in Editions : HeldOK(e) /\ SpentOK(e)
<1>1. Init => Inv
  <2> SUFFICES ASSUME Init, NEW e \in Editions PROVE HeldOK(e) /\ SpentOK(e)
    OBVIOUS
  <2>1. /\ \A w \in Workers : snapshot[w][e] = 0
        /\ attempts[e] = 0 /\ lapses[e] = 0 /\ redelivered[e] = 0
        /\ outbox[e] = "none" /\ errorCode[e] = "none"
    BY DEF Init
  <2>2. Held(e) = {}
    BY <2>1 DEF Held
  <2>3. HeldOK(e)
    BY <2>1, <2>2, FS_EmptySet DEF HeldOK, One
  <2>4. ~(attempts[e] >= MaxAttempts)
    BY <2>1, ConfigAssumption
  <2> QED
    BY <2>1, <2>3, <2>4 DEF SpentOK
<1>2. TypeOK /\ WorkerOK /\ Inv /\ [Next]_vars => Inv'
  <2> SUFFICES ASSUME TypeOK, WorkerOK, Inv, [Next]_vars, NEW e \in Editions
               PROVE  HeldOK(e)' /\ SpentOK(e)'
    OBVIOUS
  <2>0. HeldOK(e) /\ SpentOK(e)
    OBVIOUS
  <2> HIDE DEF Inv
  <2>1. ASSUME NEW w \in Workers, NEW S \in SUBSET Editions, Claim(w, S)
        PROVE  HeldOK(e)' /\ SpentOK(e)'
    BY <2>0, <2>1, ClaimKeepsBudget
  <2>2. ASSUME NEW w \in Workers, RecordSuccess(w) PROVE HeldOK(e)' /\ SpentOK(e)'
    <3>1. /\ pc[w] = "record" /\ Holds(w, current[w]) /\ NextRow(w)
          /\ Release(current[w], "delivered", "none", "delivered")
          /\ UNCHANGED <<attempts, lapses, redelivered>>
      BY <2>2 DEF RecordSuccess
    <3> QED
      BY <2>0, <3>1, RecordKeepsBudget
  <2>3. ASSUME NEW w \in Workers, RecordRetry(w) PROVE HeldOK(e)' /\ SpentOK(e)'
    <3>1. /\ pc[w] = "record" /\ Holds(w, current[w]) /\ NextRow(w)
          /\ Release(current[w], "retry_wait", "transient", "queued")
          /\ UNCHANGED <<attempts, lapses, redelivered>>
          /\ snapshot[w][current[w]] < MaxAttempts
      BY <2>3 DEF RecordRetry, Retries
    <3> QED
      BY <2>0, <3>1, RecordKeepsBudget
  <2>4. ASSUME NEW w \in Workers, RecordTerminal(w) PROVE HeldOK(e)' /\ SpentOK(e)'
    <3>1. PICK code \in {"exhausted", "permanent"} :
             /\ Release(current[w], "terminal", code, "terminal")
             /\ code = "exhausted" => outcome[w] = "transient"
      BY <2>4 DEF RecordTerminal
    <3>2. /\ pc[w] = "record" /\ Holds(w, current[w]) /\ NextRow(w)
          /\ UNCHANGED <<attempts, lapses, redelivered>>
          /\ outcome[w] = "transient" => ~(snapshot[w][current[w]] < MaxAttempts)
      BY <2>4 DEF RecordTerminal, Retries
    <3> QED
      BY <2>0, <3>1, <3>2, RecordKeepsBudget
  <2>5. ASSUME NEW d \in Editions, Enqueue(d) PROVE HeldOK(e)' /\ SpentOK(e)'
    <3>1. UNCHANGED <<snapshot, attempts, lapses, redelivered, errorCode>>
      BY <2>5 DEF Enqueue
    <3>2. CASE e # d
      <4>1. outbox'[e] = outbox[e]
        BY <2>5, <3>2 DEF Enqueue, TypeOK
      <4> QED
        BY <2>0, <3>1, <4>1, HeldStays
    <3>3. CASE e = d
      <4>1. outbox[e] = "none" /\ outbox'[e] = "pending"
        BY <2>5, <3>3 DEF Enqueue, TypeOK
      <4>2. attempts'[e] = 0 /\ ~(attempts'[e] >= MaxAttempts)
        BY <2>0, <3>1, <4>1, ConfigAssumption DEF SpentOK
      <4>3. HeldOK(e)'
        BY <2>0, <3>1, <4>1 DEF HeldOK, Held, One
      <4> QED
        BY <2>0, <3>1, <4>1, <4>2, <4>3 DEF SpentOK
    <3> QED
      BY <3>2, <3>3
  <2>6. ASSUME NEW d \in Editions, Redeliver(d) PROVE HeldOK(e)' /\ SpentOK(e)'
    <3>1. UNCHANGED <<snapshot, attempts, lapses>>
      BY <2>6 DEF Redeliver
    <3>2. CASE e # d
      <4>1. outbox'[e] = outbox[e] /\ redelivered'[e] = redelivered[e] /\ errorCode'[e] = errorCode[e]
        BY <2>6, <3>2 DEF Redeliver, TypeOK
      <4> QED
        BY <2>0, <3>1, <4>1, HeldStays
    <3>3. CASE e = d
      <4>1. /\ outbox[e] = "terminal" /\ outbox'[e] = "pending"
            /\ redelivered'[e] = redelivered[e] + 1 /\ errorCode'[e] = "none"
        BY <2>6, <3>3 DEF Redeliver, TypeOK
      <4>2. HeldOK(e)'
        BY <2>0, <3>1, <4>1 DEF HeldOK, Held, One
      <4>3. Young(e)' = Young(e) /\ Cardinality(Young(e)) \in Nat
        BY <3>1, HeldFinite DEF Young
      <4>4. attempts[e] \in Nat /\ lapses[e] \in Nat /\ redelivered[e] \in Nat /\ MaxAttempts \in Nat
        BY ConfigAssumption DEF TypeOK
      <4>5. attempts'[e] >= MaxAttempts =>
              attempts'[e] + Cardinality(Young(e)') + One(outbox'[e] \in {"pending", "retry_wait"})
                <= MaxAttempts + lapses'[e] + redelivered'[e]
        BY <2>0, <3>1, <4>1, <4>3, <4>4 DEF SpentOK, One
      <4> QED
        BY <2>0, <3>1, <4>1, <4>2, <4>5 DEF SpentOK
    <3> QED
      BY <3>2, <3>3
  <2>7. ASSUME NEW w \in Workers, ProcessEnds(w), UNCHANGED <<rowVars, history>>
        PROVE  HeldOK(e)' /\ SpentOK(e)'
    <3>1. \A v \in Workers : snapshot'[v][e] = 0 \/ snapshot'[v][e] = snapshot[v][e]
      BY <2>7 DEF ProcessEnds, TypeOK
    <3> QED
      BY <2>0, <2>7, <3>1, HeldStays
  <2>8. ASSUME NEW w \in Workers, LeaseLost(w) \/ Crash(w) PROVE HeldOK(e)' /\ SpentOK(e)'
    BY <2>7, <2>8 DEF LeaseLost, Crash
  <2>9. ASSUME UNCHANGED <<outbox, attempts, errorCode, snapshot, history>>
        PROVE  HeldOK(e)' /\ SpentOK(e)'
    BY <2>0, <2>9, HeldStays
  <2>10. ASSUME NEW w \in Workers, NEW d, \/ StartDelivery(w, d) \/ DeliverFails(w, d)
                                          \/ SendCard(w) \/ SendFile(w)
         PROVE  HeldOK(e)' /\ SpentOK(e)'
    BY <2>9, <2>10 DEF StartDelivery, DeliverFails, SendCard, SendFile
  <2>11. CASE Tick \/ UNCHANGED vars
    BY <2>9, <2>11 DEF Tick, vars
  <2> QED
    BY <2>1, <2>2, <2>3, <2>4, <2>5, <2>6, <2>8, <2>10, <2>11 DEF Next, Work
<1> QED
  BY <1>1, <1>2, TypeCorrect, WorkerOKAlways, PTL DEF Spec

\* Two processes have an edition in hand only after a lease of it ran out,
\* whatever ids they pass, crash or lose, for every batch and lease time.
THEOREM LeaseExcludesAlways == IsFiniteSet(Workers) => (Spec => []LeaseExcludes)
<1> SUFFICES ASSUME IsFiniteSet(Workers) PROVE Spec => []LeaseExcludes
  OBVIOUS
<1>1. (\A e \in Editions : HeldOK(e) /\ SpentOK(e)) => LeaseExcludes
  <2> SUFFICES ASSUME NEW e \in Editions, HeldOK(e)
               PROVE  Cardinality(Holders(e)) <= lapses[e] + (IF outbox[e] = "sending" THEN 1 ELSE 0)
    BY DEF LeaseExcludes
  <2>1. Holders(e) = Held(e)
    BY DEF Holders, Held, Claimed
  <2> QED
    BY <2>1 DEF HeldOK, One
<1> QED
  BY <1>1, BudgetInv, PTL

\* With whatever ids, an edition is claimed max_attempts times at most, plus
\* once for every lease that ran out and every redelivery: a process deciding
\* from an old attempt_count never adds a claim of its own.
THEOREM RetryBudgetAlways == IsFiniteSet(Workers) => (Spec => []RetryBudget)
<1> SUFFICES ASSUME IsFiniteSet(Workers) PROVE Spec => []RetryBudget
  OBVIOUS
<1>1. TypeOK /\ (\A e \in Editions : HeldOK(e) /\ SpentOK(e)) => RetryBudget
  <2> SUFFICES ASSUME TypeOK, NEW e \in Editions, SpentOK(e)
               PROVE  /\ attempts[e] + (IF outbox[e] \in {"pending", "retry_wait"} THEN 1 ELSE 0)
                           <= MaxAttempts + lapses[e] + redelivered[e]
                      /\ errorCode[e] = "exhausted" => attempts[e] >= MaxAttempts
    BY DEF RetryBudget
  <2>1. attempts[e] \in Nat /\ lapses[e] \in Nat /\ redelivered[e] \in Nat /\ MaxAttempts \in Nat
    BY ConfigAssumption DEF TypeOK
  <2>2. Cardinality(Young(e)) \in Nat
    BY HeldFinite
  <2> QED
    BY <2>1, <2>2 DEF SpentOK, One
<1> QED
  BY <1>1, BudgetInv, TypeCorrect, PTL

-----------------------------------------------------------------------------
(* What reached the chat.                                                  *)

\* A worker past the card has had it accepted, and one with a receipt both.
SendOK == \A w \in Workers :
  /\ pc[w] = "file" => "card" \in accepted[current[w]]
  /\ pc[w] = "record" /\ outcome[w] = "ok" => accepted[current[w]] = Parts

\* A provider call only adds messages, so the other workers keep what they know.
LEMMA SendKeeps ==
  ASSUME TypeOK, WorkerOK, SendOK, DeliveredWasAccepted, NEW w \in Workers,
         \A e \in Editions : accepted[e] \subseteq accepted'[e] /\ accepted'[e] \subseteq Parts,
         \A v \in Workers \ {w} : pc'[v] = pc[v] /\ outcome'[v] = outcome[v],
         UNCHANGED <<outbox, current>>,
         pc'[w] = "file" => "card" \in accepted'[current[w]],
         pc'[w] = "record" /\ outcome'[w] = "ok" => accepted'[current[w]] = Parts
  PROVE  SendOK' /\ DeliveredWasAccepted'
<1>1. DeliveredWasAccepted'
  <2> SUFFICES ASSUME NEW e \in Editions, outbox[e] = "delivered"
               PROVE  accepted'[e] = Parts
    BY DEF DeliveredWasAccepted
  <2>1. accepted[e] = Parts
    BY DEF DeliveredWasAccepted
  <2>2. accepted[e] \subseteq accepted'[e] /\ accepted'[e] \subseteq Parts
    OBVIOUS
  <2> QED
    BY ONLY <2>1, <2>2
<1>2. ASSUME NEW v \in Workers
      PROVE  /\ pc'[v] = "file" => "card" \in accepted'[current'[v]]
             /\ pc'[v] = "record" /\ outcome'[v] = "ok" => accepted'[current'[v]] = Parts
  <2>1. CASE v = w
    BY <2>1
  <2>2. CASE v # w
    <3>1. pc'[v] = pc[v] /\ outcome'[v] = outcome[v] /\ current'[v] = current[v]
      BY <2>2
    <3>2. pc[v] \in {"file", "record"} => current[v] \in Editions
      BY DEF WorkerOK, Claimed
    <3>3. ASSUME pc[v] = "file" PROVE "card" \in accepted'[current[v]]
      BY <3>2, <3>3 DEF SendOK
    <3>4. ASSUME pc[v] = "record", outcome[v] = "ok" PROVE accepted'[current[v]] = Parts
      <4>1. accepted[current[v]] = Parts
        BY <3>4 DEF SendOK
      <4>2. /\ accepted[current[v]] \subseteq accepted'[current[v]]
            /\ accepted'[current[v]] \subseteq Parts
        BY <3>2, <3>4
      <4> QED
        BY ONLY <4>1, <4>2
    <3> QED
      BY <3>1, <3>3, <3>4
  <2> QED
    BY <2>1, <2>2
<1> QED
  BY <1>1, <1>2 DEF SendOK

LEMMA SentAlways == Spec => [](SendOK /\ DeliveredWasAccepted)
<1> DEFINE Inv == SendOK /\ DeliveredWasAccepted
<1>1. Init => Inv
  BY DEF Init, SendOK, DeliveredWasAccepted
<1>2. TypeOK /\ WorkerOK /\ Inv /\ [Next]_vars => Inv'
  <2> SUFFICES ASSUME TypeOK, WorkerOK, SendOK, DeliveredWasAccepted, [Next]_vars
               PROVE  SendOK' /\ DeliveredWasAccepted'
    OBVIOUS
  <2>0. \A w \in Workers : pc[w] \in {"card", "file", "record"} => current[w] \in Editions
    BY DEF WorkerOK, Claimed
  <2>1. ASSUME NEW w \in Workers, NEW S \in SUBSET Editions, Claim(w, S)
        PROVE  SendOK' /\ DeliveredWasAccepted'
    BY <2>1 DEF Claim, SendOK, DeliveredWasAccepted, TypeOK
  <2>2. ASSUME NEW w \in Workers, NEW e \in Editions, StartDelivery(w, e)
        PROVE  SendOK' /\ DeliveredWasAccepted'
    BY <2>2 DEF StartDelivery, SendOK, DeliveredWasAccepted, TypeOK
  <2>3. ASSUME NEW w \in Workers, SendCard(w) PROVE SendOK' /\ DeliveredWasAccepted'
    <3>1. \A e \in Editions : accepted[e] \subseteq accepted'[e] /\ accepted'[e] \subseteq Parts
      BY <2>3 DEF SendCard, TypeOK, Parts
    <3>2. "card" \in accepted'[current[w]]
      BY <2>0, <2>3 DEF SendCard, TypeOK
    <3>3. /\ pc'[w] = "file" /\ UNCHANGED <<outbox, current>>
          /\ \A v \in Workers \ {w} : pc'[v] = pc[v] /\ outcome'[v] = outcome[v]
      BY <2>3 DEF SendCard, TypeOK
    <3> QED
      BY <3>1, <3>2, <3>3, SendKeeps
  <2>4. ASSUME NEW w \in Workers, SendFile(w) PROVE SendOK' /\ DeliveredWasAccepted'
    <3>1. \A e \in Editions : accepted[e] \subseteq accepted'[e] /\ accepted'[e] \subseteq Parts
      BY <2>4 DEF SendFile, TypeOK, Parts
    <3>2. accepted'[current[w]] = Parts
      BY <2>0, <2>4, <3>1 DEF SendFile, SendOK, TypeOK, Parts
    <3>3. /\ pc'[w] = "record" /\ UNCHANGED <<outbox, current>>
          /\ \A v \in Workers \ {w} : pc'[v] = pc[v] /\ outcome'[v] = outcome[v]
      BY <2>4 DEF SendFile, TypeOK
    <3> QED
      BY <3>1, <3>2, <3>3, SendKeeps
  <2>5. ASSUME NEW w \in Workers, NEW kind \in {"transient", "permanent"},
               DeliverFails(w, kind)
        PROVE  SendOK' /\ DeliveredWasAccepted'
    <3>1. \A e \in Editions : accepted[e] \subseteq accepted'[e] /\ accepted'[e] \subseteq Parts
      BY <2>5 DEF DeliverFails, TypeOK, Parts
    <3>2. /\ pc'[w] = "record" /\ outcome'[w] # "ok" /\ UNCHANGED <<outbox, current>>
          /\ \A v \in Workers \ {w} : pc'[v] = pc[v] /\ outcome'[v] = outcome[v]
      BY <2>5 DEF DeliverFails, TypeOK
    <3> QED
      BY <3>1, <3>2, SendKeeps
  <2>6. ASSUME NEW w \in Workers, NextRow(w) \/ ProcessEnds(w), UNCHANGED accepted
        PROVE  SendOK'
    <3>1. pc'[w] \in {"idle", "next"}
      BY <2>6 DEF NextRow, ProcessEnds, TypeOK
    <3>2. \A v \in Workers \ {w} : /\ pc'[v] = pc[v] /\ current'[v] = current[v]
                                   /\ outcome'[v] = outcome[v]
      BY <2>6 DEF NextRow, ProcessEnds, TypeOK
    <3> QED
      BY <2>6, <3>1, <3>2 DEF SendOK
  <2>7. ASSUME NEW w \in Workers, RecordSuccess(w) PROVE SendOK' /\ DeliveredWasAccepted'
    <3>1. accepted[current[w]] = Parts
      BY <2>7 DEF RecordSuccess, SendOK
    <3>2. outbox' = [outbox EXCEPT ![current[w]] = "delivered"] /\ UNCHANGED accepted
      BY <2>7 DEF RecordSuccess, Release
    <3>3. DeliveredWasAccepted'
      BY <3>1, <3>2 DEF DeliveredWasAccepted, TypeOK
    <3> QED
      BY <2>6, <2>7, <3>3 DEF RecordSuccess
  <2>8. ASSUME NEW w \in Workers, RecordRetry(w) \/ RecordTerminal(w)
        PROVE  SendOK' /\ DeliveredWasAccepted'
    <3>1. PICK row \in {"retry_wait", "terminal"} :
            outbox' = [outbox EXCEPT ![current[w]] = row] /\ UNCHANGED accepted
      BY <2>8 DEF RecordRetry, RecordTerminal, Release
    <3>2. DeliveredWasAccepted'
      BY <3>1 DEF DeliveredWasAccepted, TypeOK
    <3> QED
      BY <2>6, <2>8, <3>2 DEF RecordRetry, RecordTerminal
  <2>9. ASSUME NEW w \in Workers, LeaseLost(w) \/ Crash(w)
        PROVE  SendOK' /\ DeliveredWasAccepted'
    BY <2>6, <2>9 DEF LeaseLost, Crash, DeliveredWasAccepted
  <2>10. ASSUME NEW d \in Editions, Enqueue(d) \/ Redeliver(d)
         PROVE  SendOK' /\ DeliveredWasAccepted'
    BY <2>10 DEF Enqueue, Redeliver, SendOK, DeliveredWasAccepted, TypeOK
  <2>11. CASE Tick \/ UNCHANGED vars
    BY <2>11 DEF Tick, vars, SendOK, DeliveredWasAccepted
  <2> QED
    BY <2>1, <2>2, <2>3, <2>4, <2>5, <2>7, <2>8, <2>9, <2>10, <2>11 DEF Next, Work
<1> QED
  BY <1>1, <1>2, TypeCorrect, WorkerOKAlways, PTL DEF Spec

\* Whoever sent it and whoever recorded it, a delivered edition has both its
\* messages in the chat, also when worker ids are shared.
THEOREM DeliveredWasAcceptedAlways == Spec => []DeliveredWasAccepted
  BY SentAlways, PTL

-----------------------------------------------------------------------------
(* The usage ledger.                                                       *)

\* The rows a worker has claimed and not yet begun with.
Waiting(w) == {e \in Claimed(w) : pc[w] \in {"card", "file", "record"} => e # current[w]}

\* C are the claims that were charged.
Charged(C) ==
  /\ C \subseteq Claims /\ IsFiniteSet(C) /\ Cardinality(C) = usage
  /\ \A w \in Workers : \A e \in Waiting(w) : <<e, snapshot[w][e]>> \notin C

\* Every claim is made once, and charged once at most.
ChargeOK ==
  /\ \A w \in Workers : \A e \in Editions : snapshot[w][e] <= attempts[e]
  /\ \A v, w \in Workers : v # w => \A e \in Claimed(v) : snapshot[v][e] # snapshot[w][e]
  /\ \E C \in SUBSET Claims : Charged(C)

Reached == {e \in Editions : accepted[e] # {}}
Calling == {w \in Workers : pc[w] = "card" /\ accepted[current[w]] = {}}

CallsOK == usage >= Cardinality(Reached) + Cardinality(Calling)

LEMMA ClaimsAre ==
  \A e, n : <<e, n>> \in Claims <=> e \in Editions /\ n \in 1..attempts[e]
BY DEF Claims

LEMMA ClaimsFinite == ASSUME TypeOK, IsFiniteSet(Editions) PROVE IsFiniteSet(Claims)
<1> DEFINE of == [e \in Editions |-> {e} \X (1..attempts[e])]
           all == {{e} \X (1..attempts[e]) : e \in Editions}
<1>1. of \in Surjection(Editions, all)
  BY DEF Surjection
<1>2. IsFiniteSet(all)
  BY <1>1, FS_Surjection
<1>3. ASSUME NEW e \in Editions PROVE IsFiniteSet({e} \X (1..attempts[e]))
  <2> DEFINE T == {e} \X (1..attempts[e])
             f == [n \in 1..attempts[e] |-> <<e, n>>]
  <2>1. attempts[e] \in Int
    BY DEF TypeOK
  <2>2. IsFiniteSet(1..attempts[e])
    BY <2>1, FS_Interval
  <2>3. f \in Surjection(1..attempts[e], T)
    BY DEF Surjection
  <2> QED
    BY <2>2, <2>3, FS_Surjection
<1> QED
  BY <1>2, <1>3, FS_UNION DEF Claims

LEMMA ChargeStays ==
  ASSUME TypeOK, ChargeOK, UNCHANGED <<attempts, usage>>,
         \A w \in Workers : \A e \in Editions : snapshot'[w][e] \in {0, snapshot[w][e]},
         \A w \in Workers : Waiting(w)' \subseteq Waiting(w)
  PROVE  ChargeOK'
<1>1. \A w \in Workers : \A e \in Editions :
        /\ snapshot[w][e] \in Nat /\ attempts[e] \in Nat /\ snapshot[w][e] <= attempts[e]
        /\ e \in Claimed(w)' => e \in Claimed(w) /\ snapshot'[w][e] = snapshot[w][e]
  BY DEF TypeOK, ChargeOK, Claimed
<1>2. \A w \in Workers : \A e \in Editions : snapshot'[w][e] <= attempts'[e]
  BY <1>1
<1>3. ASSUME NEW v \in Workers, NEW w \in Workers, v # w, NEW e \in Claimed(v)'
      PROVE  snapshot'[v][e] # snapshot'[w][e]
  <2>1. e \in Editions /\ snapshot'[v][e] > 0 /\ e \in Claimed(v) /\ snapshot'[v][e] = snapshot[v][e]
    BY <1>1 DEF Claimed
  <2>2. snapshot[v][e] # snapshot[w][e]
    BY <1>3, <2>1 DEF ChargeOK
  <2> QED
    BY <1>1, <2>1, <2>2
<1>4. PICK C \in SUBSET Claims : Charged(C)
  BY DEF ChargeOK
<1>5. \A w \in Workers : \A e \in Waiting(w)' :
        e \in Waiting(w) /\ snapshot'[w][e] = snapshot[w][e]
  BY <1>1 DEF Waiting, Claimed
<1>6. Claims' = Claims
  BY DEF Claims
<1>7. Charged(C)'
  BY <1>4, <1>5, <1>6 DEF Charged
<1> QED
  BY <1>2, <1>3, <1>4, <1>6, <1>7 DEF ChargeOK

LEMMA ClaimCharge ==
  ASSUME TypeOK, ChargeOK, NEW w \in Workers, NEW S \in SUBSET Editions, Claim(w, S)
  PROVE  ChargeOK'
<1>1. /\ snapshot'[w] = [e \in Editions |-> IF e \in S THEN attempts[e] + 1 ELSE 0]
      /\ \A v \in Workers \ {w} : snapshot'[v] = snapshot[v] /\ pc'[v] = pc[v]
      /\ \A e \in Editions : attempts'[e] = IF e \in S THEN attempts[e] + 1 ELSE attempts[e]
      /\ UNCHANGED <<usage, current>>
  BY DEF Claim, CountAttempt, TypeOK
<1>2. \A v \in Workers : \A e \in Editions :
        snapshot[v][e] \in Nat /\ attempts[e] \in Nat /\ snapshot[v][e] <= attempts[e]
  BY DEF TypeOK, ChargeOK
<1>3. \A v \in Workers : \A e \in Editions : snapshot'[v][e] <= attempts'[e]
  BY <1>1, <1>2
<1>4. ASSUME NEW u \in Workers, NEW v \in Workers, u # v, NEW e \in Claimed(u)'
      PROVE  snapshot'[u][e] # snapshot'[v][e]
  <2>1. e \in Editions /\ snapshot'[u][e] > 0
    BY DEF Claimed
  <2>2. CASE u = w
    <3>1. snapshot'[u][e] = attempts[e] + 1 /\ snapshot'[v][e] = snapshot[v][e]
      BY <1>1, <1>4, <2>1, <2>2
    <3> QED
      BY <1>2, <2>1, <3>1
  <2>3. CASE v = w
    <3>1. snapshot'[v][e] \in {0, attempts[e] + 1} /\ snapshot'[u][e] = snapshot[u][e]
      BY <1>1, <1>4, <2>1, <2>3
    <3> QED
      BY <1>2, <2>1, <3>1
  <2>4. CASE u # w /\ v # w
    <3>1. snapshot'[v][e] = snapshot[v][e] /\ snapshot'[u][e] = snapshot[u][e] /\ e \in Claimed(u)
      BY <1>1, <2>1, <2>4 DEF Claimed
    <3> QED
      BY <1>4, <3>1 DEF ChargeOK
  <2> QED
    BY <2>2, <2>3, <2>4
<1>5. PICK C \in SUBSET Claims : Charged(C)
  BY DEF ChargeOK
<1>6. \A e \in Editions : \A n : n \in 1..attempts[e] => n \in 1..attempts'[e]
  BY <1>1, <1>2
<1>7. Claims \subseteq Claims'
  BY <1>6 DEF Claims
<1>8. ASSUME NEW v \in Workers, NEW e \in Waiting(v)' PROVE <<e, snapshot'[v][e]>> \notin C
  <2>1. e \in Editions /\ snapshot'[v][e] > 0
    BY DEF Waiting, Claimed
  <2>2. CASE v = w
    <3>1. snapshot'[v][e] = attempts[e] + 1
      BY <1>1, <2>1, <2>2
    <3>2. snapshot'[v][e] \notin 1..attempts[e]
      BY <1>2, <2>1, <3>1
    <3> QED
      BY <2>1, <3>2, ClaimsAre
  <2>3. CASE v # w
    <3>1. e \in Waiting(v) /\ snapshot'[v][e] = snapshot[v][e]
      BY <1>1, <2>3 DEF Waiting, Claimed
    <3> QED
      BY <1>5, <3>1 DEF Charged
  <2> QED
    BY <2>2, <2>3
<1>9. Charged(C)'
  BY <1>1, <1>5, <1>7, <1>8 DEF Charged
<1> QED
  BY <1>3, <1>4, <1>7, <1>9 DEF ChargeOK

LEMMA StartCharge ==
  ASSUME TypeOK, ChargeOK, NEW w \in Workers, NEW e \in Editions, StartDelivery(w, e)
  PROVE  ChargeOK'
<1>1. /\ pc[w] = "next" /\ e \in Claimed(w) /\ usage' = usage + 1 /\ usage \in Nat
      /\ pc'[w] = "card" /\ current'[w] = e /\ UNCHANGED <<attempts, snapshot>>
      /\ \A v \in Workers \ {w} : pc'[v] = pc[v] /\ current'[v] = current[v]
  BY DEF StartDelivery, TypeOK
<1>2. PICK C \in SUBSET Claims : Charged(C)
  BY DEF ChargeOK
<1> DEFINE c == <<e, snapshot[w][e]>>
<1>3. c \notin C
  BY <1>1, <1>2 DEF Charged, Waiting
<1>4. c \in Claims
  <2>1. snapshot[w][e] \in 1..attempts[e]
    BY <1>1 DEF ChargeOK, Claimed, TypeOK
  <2> QED
    BY <2>1, ClaimsAre
<1>5. IsFiniteSet(C \cup {c}) /\ Cardinality(C \cup {c}) = usage'
  BY <1>1, <1>2, <1>3, FS_AddElement DEF Charged
<1>6. ASSUME NEW v \in Workers, NEW d \in Waiting(v)'
      PROVE  <<d, snapshot[v][d]>> \notin C \cup {c}
  <2>1. d \in Waiting(v)
    BY <1>1 DEF Waiting, Claimed
  <2>2. <<d, snapshot[v][d]>> # c
    <3>1. CASE v = w
      BY <1>1, <3>1 DEF Waiting
    <3>2. CASE v # w
      BY <1>1, <3>2 DEF ChargeOK
    <3> QED
      BY <3>1, <3>2
  <2> QED
    BY <1>2, <2>1, <2>2 DEF Charged
<1>7. Claims' = Claims /\ \A v \in Workers : Claimed(v)' = Claimed(v)
  BY <1>1 DEF Claims, Claimed
<1> HIDE DEF c
<1>8. \A D : D = C \cup {c} => Charged(D)'
  BY <1>1, <1>2, <1>4, <1>5, <1>6, <1>7 DEF Charged
<1>9. \E D \in SUBSET Claims : D = C \cup {c}
  BY <1>4
<1> QED
  BY <1>1, <1>7, <1>8, <1>9 DEF ChargeOK

LEMMA CallsFinite ==
  ASSUME IsFiniteSet(Editions), IsFiniteSet(Workers)
  PROVE  /\ IsFiniteSet(Reached) /\ Cardinality(Reached) \in Nat
         /\ IsFiniteSet(Calling) /\ Cardinality(Calling) \in Nat
<1>1. Reached \in SUBSET Editions /\ Calling \in SUBSET Workers
  BY DEF Reached, Calling
<1>2. IsFiniteSet(Reached) /\ IsFiniteSet(Calling)
  BY <1>1, FS_Subset
<1> QED
  BY <1>2, FS_CardinalityType

\* Nobody begins a call.
LEMMA CallsStay ==
  ASSUME TypeOK, IsFiniteSet(Editions), IsFiniteSet(Workers), CallsOK, UNCHANGED usage,
         Reached' = Reached, Calling' \subseteq Calling
  PROVE  CallsOK'
<1>1. Calling' \in SUBSET Calling
  OBVIOUS
<1>2. IsFiniteSet(Calling') /\ Cardinality(Calling') <= Cardinality(Calling) /\ Cardinality(Calling') \in Nat
  BY <1>1, CallsFinite, FS_Subset, FS_CardinalityType
<1>3. usage \in Nat /\ Cardinality(Reached) \in Nat /\ Cardinality(Calling) \in Nat
  BY CallsFinite DEF TypeOK
<1>4. usage' >= Cardinality(Reached') + Cardinality(Calling')
  BY <1>2, <1>3 DEF CallsOK
<1> QED
  BY <1>4 DEF CallsOK

\* A worker that has begun a call gets through, for the first time or again.
LEMMA ReachesCalls ==
  ASSUME TypeOK, WorkerOK, SendOK, IsFiniteSet(Editions), IsFiniteSet(Workers), CallsOK, UNCHANGED <<usage, current>>,
         NEW w \in Workers, pc[w] = "card" \/ pc[w] = "file", pc'[w] # "card",
         \A v \in Workers \ {w} : pc'[v] = pc[v],
         NEW part, accepted' = accepted \/ accepted' = [accepted EXCEPT ![current[w]] = @ \cup {part}]
  PROVE  CallsOK'
<1> DEFINE e == current[w]
<1>1. e \in Editions
  BY DEF WorkerOK, Claimed
<1>2. \A d \in Editions : accepted[d] \subseteq accepted'[d] /\ (d # e => accepted'[d] = accepted[d])
  BY DEF TypeOK
<1>3. \A v \in Workers : v \in Calling' => v \in Calling /\ v # w
  <2> SUFFICES ASSUME NEW v \in Workers, v \in Calling' PROVE v \in Calling /\ v # w
    OBVIOUS
  <2>1. pc'[v] = "card" /\ accepted'[current[v]] = {}
    BY DEF Calling
  <2>2. v # w /\ pc[v] = "card"
    BY <2>1
  <2>3. current[v] \in Editions
    BY <2>2 DEF WorkerOK, Claimed
  <2>4. accepted[current[v]] = {}
    BY <1>2, <2>1, <2>3
  <2> QED
    BY <2>2, <2>4 DEF Calling
<1>4. CASE accepted' = accepted \/ accepted[e] # {}
  <2>1. Reached' = Reached
    BY <1>1, <1>2, <1>4 DEF Reached
  <2>2. Calling' \subseteq Calling
    BY <1>3 DEF Calling
  <2> QED
    BY <2>1, <2>2, CallsStay
<1>5. CASE accepted' # accepted /\ accepted[e] = {}
  <2>1. pc[w] = "card"
    BY <1>5 DEF SendOK
  <2>2. w \in Calling
    BY <1>5, <2>1 DEF Calling
  <2>3. accepted'[e] # {}
    BY <1>1, <1>5 DEF TypeOK
  <2>4. Reached' = Reached \cup {e} /\ e \notin Reached
    BY <1>1, <1>2, <1>5, <2>3 DEF Reached
  <2>5. Cardinality(Reached') = Cardinality(Reached) + 1
    BY <2>4, CallsFinite, FS_AddElement
  <2>6. Calling' \in SUBSET (Calling \ {w})
    BY <1>3 DEF Calling
  <2>7. /\ IsFiniteSet(Calling \ {w}) /\ Cardinality(Calling \ {w}) = Cardinality(Calling) - 1
    BY <2>2, CallsFinite, FS_RemoveElement
  <2>8. IsFiniteSet(Calling') /\ Cardinality(Calling') <= Cardinality(Calling) - 1 /\ Cardinality(Calling') \in Nat
    BY <2>6, <2>7, FS_Subset, FS_CardinalityType
  <2>9. usage \in Nat /\ Cardinality(Reached) \in Nat /\ Cardinality(Calling) \in Nat
    BY CallsFinite DEF TypeOK
  <2>10. usage' >= Cardinality(Reached') + Cardinality(Calling')
    BY <2>5, <2>8, <2>9 DEF CallsOK
  <2> QED
    BY <2>10 DEF CallsOK
<1> QED
  BY <1>4, <1>5

LEMMA StartCalls ==
  ASSUME TypeOK, IsFiniteSet(Editions), IsFiniteSet(Workers), CallsOK,
         NEW w \in Workers, NEW e \in Editions, StartDelivery(w, e)
  PROVE  CallsOK'
<1>1. /\ usage' = usage + 1 /\ usage \in Nat /\ UNCHANGED accepted
      /\ \A v \in Workers \ {w} : pc'[v] = pc[v] /\ current'[v] = current[v]
  BY DEF StartDelivery, TypeOK
<1>2. Calling' \in SUBSET (Calling \cup {w}) /\ Reached' = Reached
  BY <1>1 DEF Calling, Reached
<1>3. /\ Cardinality(Reached) \in Nat /\ Cardinality(Calling) \in Nat /\ IsFiniteSet(Calling)
  BY CallsFinite
<1>4. IsFiniteSet(Calling \cup {w}) /\ Cardinality(Calling \cup {w}) <= Cardinality(Calling) + 1
  <2>1. CASE w \in Calling
    <3>1. Calling \cup {w} = Calling
      BY <2>1
    <3>2. IsFiniteSet(Calling \cup {w}) /\ Cardinality(Calling \cup {w}) = Cardinality(Calling)
      BY <1>3, <3>1, Zenon
    <3> QED
      BY <1>3, <3>2
  <2>2. CASE w \notin Calling
    <3>1. IsFiniteSet(Calling \cup {w}) /\ Cardinality(Calling \cup {w}) = Cardinality(Calling) + 1
      BY <1>3, <2>2, FS_AddElement
    <3> QED
      BY <1>3, <3>1
  <2> QED
    BY <2>1, <2>2
<1>5. Cardinality(Calling \cup {w}) \in Nat
  BY <1>4, FS_CardinalityType
<1>6. IsFiniteSet(Calling') /\ Cardinality(Calling') <= Cardinality(Calling) + 1 /\ Cardinality(Calling') \in Nat
  BY <1>2, <1>3, <1>4, <1>5, FS_Subset, FS_CardinalityType
<1>7. usage' >= Cardinality(Reached') + Cardinality(Calling')
  BY <1>1, <1>2, <1>3, <1>6 DEF CallsOK
<1> QED
  BY <1>7 DEF CallsOK

\* "Usage is recorded before the external call": whatever processes overlap,
\* die or lose their lease, with ids of their own or shared, the ledger has an
\* attempt for every call begun and every edition that reached the chat, and none
\* that was not claimed.  Inductive is that the attempts charged are as many
\* different claims, none of which waits in a batch.
THEOREM UsageCoversCallsAlways ==
  IsFiniteSet(Editions) /\ IsFiniteSet(Workers) => (Spec => []UsageCoversCalls)
<1> SUFFICES ASSUME IsFiniteSet(Editions), IsFiniteSet(Workers) PROVE Spec => []UsageCoversCalls
  OBVIOUS
<1> DEFINE Inv == ChargeOK /\ CallsOK
<1>1. Init => Inv
  <2> SUFFICES ASSUME Init PROVE ChargeOK /\ CallsOK
    OBVIOUS
  <2>1. Charged({})
    BY FS_EmptySet DEF Init, Charged, Waiting, Claimed
  <2>2. ChargeOK
    BY <2>1 DEF Init, ChargeOK, Claimed
  <2>3. Reached = {} /\ Calling = {}
    BY DEF Init, Reached, Calling
  <2>4. CallsOK
    BY <2>3, FS_EmptySet DEF Init, CallsOK
  <2> QED
    BY <2>2, <2>4
<1>2. TypeOK /\ WorkerOK /\ SendOK /\ Inv /\ [Next]_vars => Inv'
  <2> SUFFICES ASSUME TypeOK, WorkerOK, SendOK, ChargeOK, CallsOK, [Next]_vars
               PROVE  ChargeOK' /\ CallsOK'
    OBVIOUS
  <2>1. ASSUME NEW w \in Workers, NEW S \in SUBSET Editions, Claim(w, S)
        PROVE  ChargeOK' /\ CallsOK'
    <3>1. Reached' = Reached /\ Calling' \subseteq Calling /\ UNCHANGED usage
      BY <2>1 DEF Claim, Reached, Calling, TypeOK
    <3> QED
      BY <2>1, <3>1, ClaimCharge, CallsStay
  <2>2. ASSUME NEW w \in Workers, NEW e \in Editions, StartDelivery(w, e)
        PROVE  ChargeOK' /\ CallsOK'
    BY <2>2, StartCharge, StartCalls
  <2>3. ASSUME NEW w \in Workers, NEW kind,
               SendCard(w) \/ SendFile(w) \/ DeliverFails(w, kind)
        PROVE  ChargeOK' /\ CallsOK'
    <3>1. /\ UNCHANGED <<usage, current, attempts, snapshot>>
          /\ pc[w] \in {"card", "file"} /\ pc'[w] \in {"file", "record"}
          /\ \A v \in Workers \ {w} : pc'[v] = pc[v]
      BY <2>3 DEF SendCard, SendFile, DeliverFails, TypeOK
    <3>2. \E part : accepted' = accepted \/ accepted' = [accepted EXCEPT ![current[w]] = @ \cup {part}]
      BY <2>3 DEF SendCard, SendFile, DeliverFails
    <3>3. \A v \in Workers : Waiting(v)' \subseteq Waiting(v)
      BY <3>1 DEF Waiting, Claimed
    <3>4. ChargeOK'
      <4>1. \A v \in Workers : \A e \in Editions : snapshot'[v][e] \in {0, snapshot[v][e]}
        BY <3>1
      <4> QED
        BY <3>1, <3>3, <4>1, ChargeStays
    <3>5. CallsOK'
      <4>1. PICK part : accepted' = accepted \/ accepted' = [accepted EXCEPT ![current[w]] = @ \cup {part}]
        BY <3>2
      <4>2. pc'[w] # "card" /\ (pc[w] = "card" \/ pc[w] = "file")
        BY <3>1
      <4>3. UNCHANGED <<usage, current>> /\ \A v \in Workers \ {w} : pc'[v] = pc[v]
        BY <3>1
      <4> QED
        BY <4>1, <4>2, <4>3, ReachesCalls
    <3> QED
      BY <3>4, <3>5
  <2>4. ASSUME NEW w \in Workers, NextRow(w) \/ ProcessEnds(w), UNCHANGED <<usage, attempts, accepted>>,
               pc[w] = "record" \/ ProcessEnds(w)
        PROVE  ChargeOK' /\ CallsOK'
    <3>1. pc'[w] \in {"idle", "next"} /\ \A v \in Workers \ {w} : pc'[v] = pc[v] /\ current'[v] = current[v]
      BY <2>4 DEF NextRow, ProcessEnds, TypeOK
    <3>2. \A v \in Workers : \A e \in Editions :
            snapshot'[v][e] \in {0, snapshot[v][e]} /\ (v # w => snapshot'[v][e] = snapshot[v][e])
      BY <2>4 DEF NextRow, ProcessEnds, TypeOK
    <3>3. \A e \in Editions : snapshot'[w][e] = 0 \/ (pc[w] = "record" /\ e # current[w] /\ snapshot'[w][e] = snapshot[w][e])
      BY <2>4 DEF NextRow, ProcessEnds, TypeOK
    <3>4. \A v \in Workers : Waiting(v)' \subseteq Waiting(v)
      BY <3>1, <3>2, <3>3 DEF Waiting, Claimed, TypeOK
    <3>5. Reached' = Reached /\ Calling' \subseteq Calling
      BY <2>4, <3>1 DEF Reached, Calling
    <3> QED
      BY <2>4, <3>2, <3>4, <3>5, ChargeStays, CallsStay
  <2>5. ASSUME NEW w \in Workers,
               RecordSuccess(w) \/ RecordRetry(w) \/ RecordTerminal(w) \/ LeaseLost(w) \/ Crash(w)
        PROVE  ChargeOK' /\ CallsOK'
    BY <2>4, <2>5 DEF RecordSuccess, RecordRetry, RecordTerminal, LeaseLost, Crash
  <2>6. ASSUME UNCHANGED <<usage, attempts, accepted, snapshot, pc, current>>
        PROVE  ChargeOK' /\ CallsOK'
    <3>1. \A v \in Workers : Waiting(v)' = Waiting(v)
      BY <2>6 DEF Waiting, Claimed
    <3>2. Reached' = Reached /\ Calling' = Calling
      BY <2>6 DEF Reached, Calling
    <3> QED
      BY <2>6, <3>1, <3>2, ChargeStays, CallsStay
  <2>7. ASSUME NEW e \in Editions, Enqueue(e) \/ Redeliver(e) PROVE ChargeOK' /\ CallsOK'
    BY <2>6, <2>7 DEF Enqueue, Redeliver
  <2>8. CASE Tick \/ UNCHANGED vars
    BY <2>6, <2>8 DEF Tick, vars
  <2> QED
    BY <2>1, <2>2, <2>3, <2>5, <2>7, <2>8 DEF Next, Work
<1>3. TypeOK /\ Inv => UsageCoversCalls
  <2> SUFFICES ASSUME TypeOK, ChargeOK, CallsOK PROVE UsageCoversCalls
    OBVIOUS
  <2>1. PICK C \in SUBSET Claims : Charged(C)
    BY DEF ChargeOK
  <2>2. usage <= Cardinality(Claims)
    BY <2>1, ClaimsFinite, FS_Subset DEF Charged
  <2> QED
    BY <2>2 DEF UsageCoversCalls, CallsOK, Reached, Calling
<1> QED
  BY <1>1, <1>2, <1>3, TypeCorrect, WorkerOKAlways, SentAlways, PTL DEF Spec

-----------------------------------------------------------------------------
(* Steps.                                                                  *)

\* Recording needs a sending row, so neither final status is overwritten.
THEOREM FinalStatusAlways == Spec => FinalStatus
<1> DEFINE Final == \A e \in Editions :
             /\ outbox[e] = "delivered" => outbox'[e] = "delivered"
             /\ outbox[e] = "terminal" => outbox'[e] \in {"terminal", "pending"}
<1>1. TypeOK /\ [Next]_vars => Final
  <2> SUFFICES ASSUME TypeOK, [Next]_vars PROVE Final
    OBVIOUS
  <2>1. ASSUME NEW w \in Workers, NEW S \in SUBSET Editions, Claim(w, S) PROVE Final
    <3>1. \A e \in S : outbox[e] \notin {"delivered", "terminal"}
      BY <2>1 DEF Claim, DueRows, Due, Lapsed
    <3> QED
      BY <2>1, <3>1 DEF Claim
  <2>2. ASSUME NEW w \in Workers, Holds(w, current[w]), NEW row,
               outbox' = [outbox EXCEPT ![current[w]] = row]
        PROVE  Final
    BY <2>2 DEF Holds, TypeOK
  <2>3. ASSUME NEW w \in Workers, RecordSuccess(w) \/ RecordRetry(w) \/ RecordTerminal(w)
        PROVE  Final
    BY <2>2, <2>3 DEF RecordSuccess, RecordRetry, RecordTerminal, Release
  <2>4. ASSUME NEW d \in Editions, Enqueue(d) \/ Redeliver(d) PROVE Final
    BY <2>4 DEF Enqueue, Redeliver, TypeOK
  <2>5. ASSUME UNCHANGED outbox PROVE Final
    BY <2>5
  <2>6. ASSUME NEW w \in Workers, NEW d, \/ StartDelivery(w, d) \/ DeliverFails(w, d)
                                         \/ SendCard(w) \/ SendFile(w)
                                         \/ LeaseLost(w) \/ Crash(w)
        PROVE  Final
    BY <2>5, <2>6 DEF StartDelivery, DeliverFails, SendCard, SendFile, LeaseLost, Crash
  <2>7. CASE Tick \/ UNCHANGED vars
    BY <2>5, <2>7 DEF Tick, vars
  <2> QED
    BY <2>1, <2>3, <2>4, <2>6, <2>7 DEF Next, Work
<1> QED
  BY <1>1, TypeCorrect, PTL DEF Spec, FinalStatus

\* The outbox drives an edition only along the transitions the lifecycle
\* allows: the detailed specification implements EditionLifecycle.
THEOREM ImplementsLifecycle == Spec => LifecycleSpec
<1>1. Init => Lifecycle!Init
  BY DEF Init, Lifecycle!Init
<1>2. TypeOK /\ TypeOK' /\ OutboxAgrees /\ [Next]_vars => [Lifecycle!Next]_edition
  <2> SUFFICES ASSUME TypeOK, TypeOK', OutboxAgrees, [Next]_vars, edition' # edition
               PROVE  Lifecycle!Next
    OBVIOUS
  <2> USE DEF Lifecycle!MayMove, Lifecycle!Transitions, Lifecycle!Redelivery
  <2>0. edition' \in [Editions -> Lifecycle!Status]
    BY DEF TypeOK, EditionStatus, Lifecycle!Status
  <2> SUFFICES ASSUME NEW e \in Editions PROVE Lifecycle!MayMove(edition[e], edition'[e])
    BY <2>0 DEF Lifecycle!Next
  <2>1. ASSUME NEW d \in Editions, Enqueue(d) \/ Redeliver(d)
        PROVE  Lifecycle!MayMove(edition[e], edition'[e])
    BY <2>1 DEF Enqueue, Redeliver, TypeOK
  <2>2. ASSUME NEW w \in Workers, NEW S \in SUBSET Editions, Claim(w, S)
        PROVE  Lifecycle!MayMove(edition[e], edition'[e])
    BY <2>2 DEF Claim
  <2>3. ASSUME NEW w \in Workers, NEW row, NEW run \in {"delivered", "queued", "terminal"},
               NEW code, Release(current[w], row, code, run)
        PROVE  Lifecycle!MayMove(edition[e], edition'[e])
    BY <2>3 DEF Release, TypeOK
  <2>4. ASSUME NEW w \in Workers, RecordSuccess(w) \/ RecordRetry(w) \/ RecordTerminal(w)
        PROVE  Lifecycle!MayMove(edition[e], edition'[e])
    BY <2>3, <2>4 DEF RecordSuccess, RecordRetry, RecordTerminal
  <2>5. ASSUME NEW w \in Workers, NEW d, \/ StartDelivery(w, d) \/ DeliverFails(w, d)
                                         \/ SendCard(w) \/ SendFile(w)
                                         \/ LeaseLost(w) \/ Crash(w)
        PROVE  FALSE
    BY <2>5 DEF StartDelivery, DeliverFails, SendCard, SendFile, LeaseLost, Crash
  <2>6. ~Tick /\ ~UNCHANGED vars
    BY DEF Tick, vars
  <2> QED
    BY <2>1, <2>2, <2>4, <2>5, <2>6 DEF Next, Work
<1> QED
  BY <1>1, <1>2, TypeCorrect, OutboxAgreesAlways, PTL
     DEF Spec, LifecycleSpec, Lifecycle!Spec

=============================================================================
