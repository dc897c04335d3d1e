--------------------------- MODULE DeliveryOutbox ---------------------------
(***************************************************************************)
(* The durable delivery outbox: edition_runs and delivery_outbox in        *)
(* SQLite, the delivery-run processes that claim, send and record (class   *)
(* DeliveryWorker), the Feishu client they call, and the operator's        *)
(* edition-redeliver.                                                      *)
(*                                                                         *)
(* Every repository method is one BEGIN IMMEDIATE transaction and hence    *)
(* one action.  Between two of them a worker may be overtaken by another   *)
(* process, by time (its lease runs out) or die: systemd starts one        *)
(* delivery-run a minute, and an operator may start more by hand.          *)
(*                                                                         *)
(* Time is a countdown, in minutes: what the guards compare is whether a   *)
(* timestamp has passed, so the model keeps the minutes left to            *)
(* lease_expires_at and next_attempt_at, and the minutes since the worker  *)
(* took its own clock reading (started_at).  The ORDER BY of the claim     *)
(* only decides who is first when more rows are due than the batch takes;  *)
(* the model lets any of the due rows be first.                            *)
(***************************************************************************)
EXTENDS Integers, FiniteSets

CONSTANTS
  Editions,         \* edition runs, each with at most one outbox row
  Workers,          \* delivery-run processes that may run at the same time
  IdOf,             \* the worker_id each process passes to the repository
  NoOwner,          \* lease_owner IS NULL
  NoEdition,        \* a worker that is not inside the delivery loop body
  MaxAttempts,      \* config.feishu.max_attempts
  BatchSize,        \* config.feishu.batch_size
  LeaseMinutes,     \* config.feishu.lease_minutes
  MaxBackoff,       \* config.feishu.max_backoff_minutes
  Timely,           \* TRUE: a running worker finishes within its lease
  MaxClaims,        \* bound of the model: claims of one row
  MaxInterventions  \* bound of the model: crashes plus redeliveries

ASSUME WorkerAssumption ==
  /\ IdOf \in [Workers -> STRING]
  /\ NoOwner \notin STRING
  /\ NoEdition \notin Editions

\* DeliveryWorker.__init__ refuses other values.
ASSUME ConfigAssumption ==
  /\ MaxAttempts \in Nat \ {0}
  /\ BatchSize \in Nat \ {0}
  /\ LeaseMinutes \in Nat \ {0}
  /\ MaxBackoff \in Nat \ {0}
  /\ Timely \in BOOLEAN

VARIABLES
  \* edition_runs.status
  edition,
  \* delivery_outbox: status ("none" without a row), attempt_count,
  \* lease_owner, minutes to lease_expires_at and to next_attempt_at, error_code
  outbox, attempts, owner, leaseLeft, waitLeft, errorCode,
  \* provider_usage.attempts of the "delivery" category
  usage,
  \* the messages Feishu accepted for each edition, by stable uuid
  accepted,
  \* the worker processes: position in run_once, the attempt_count of every
  \* claimed row not yet recorded (0: not claimed), the row in hand, what
  \* deliver() returned, minutes since started_at
  pc, snapshot, current, outcome, elapsed,
  \* history: claims that took a row over after its lease ran out, and
  \* edition-redelivers of a row
  lapses, redelivered,
  \* crashes and redeliveries so far
  interventions

rowVars    == <<outbox, attempts, owner, leaseLeft, waitLeft, errorCode>>
workerVars == <<pc, snapshot, current, outcome, elapsed>>
history    == <<lapses, redelivered>>
vars == <<edition, rowVars, usage, accepted, workerVars, history, interventions>>

OutboxStatus == {"pending", "sending", "retry_wait", "delivered", "terminal"}
EditionStatus == {"rendered", "degraded", "queued", "delivering", "delivered",
                  "terminal"}
Parts == {"card", "file"}

TypeOK ==
  /\ edition \in [Editions -> EditionStatus]
  /\ outbox \in [Editions -> OutboxStatus \cup {"none"}]
  /\ attempts \in [Editions -> Nat]
  /\ owner \in [Editions -> STRING \cup {NoOwner}]
  /\ leaseLeft \in [Editions -> 0..LeaseMinutes]
  /\ waitLeft \in [Editions -> 0..MaxBackoff]
  /\ errorCode \in [Editions -> {"none", "transient", "permanent", "exhausted"}]
  /\ usage \in Nat
  /\ accepted \in [Editions -> SUBSET Parts]
  /\ pc \in [Workers -> {"idle", "next", "card", "file", "record"}]
  /\ snapshot \in [Workers -> [Editions -> Nat]]
  /\ current \in [Workers -> Editions \cup {NoEdition}]
  /\ outcome \in [Workers -> {"none", "ok", "transient", "permanent"}]
  /\ elapsed \in [Workers -> 0..MaxBackoff]
  /\ lapses \in [Editions -> Nat]
  /\ redelivered \in [Editions -> Nat]
  /\ interventions \in Nat

Init ==
  /\ edition \in [Editions -> {"rendered", "degraded"}]
  /\ outbox = [e \in Editions |-> "none"]
  /\ attempts = [e \in Editions |-> 0]
  /\ owner = [e \in Editions |-> NoOwner]
  /\ leaseLeft = [e \in Editions |-> 0]
  /\ waitLeft = [e \in Editions |-> 0]
  /\ errorCode = [e \in Editions |-> "none"]
  /\ usage = 0
  /\ accepted = [e \in Editions |-> {}]
  /\ pc = [w \in Workers |-> "idle"]
  /\ snapshot = [w \in Workers |-> [e \in Editions |-> 0]]
  /\ current = [w \in Workers |-> NoEdition]
  /\ outcome = [w \in Workers |-> "none"]
  /\ elapsed = [w \in Workers |-> 0]
  /\ lapses = [e \in Editions |-> 0]
  /\ redelivered = [e \in Editions |-> 0]
  /\ interventions = 0

-----------------------------------------------------------------------------
(* Minutes.                                                                *)

CountDown(minutes) == IF minutes = 0 THEN 0 ELSE minutes - 1

\* min(2 ** (attempt - 1), max_backoff_minutes)
Backoff(attempt) ==
  LET wait == 2 ^ (attempt - 1)
  IN  IF wait \in 1..MaxBackoff THEN wait ELSE MaxBackoff

\* Minutes still to wait when a delay counted from started_at is stored now.
LeftOf(delay, spent) == IF spent < delay THEN delay - spent ELSE 0

-----------------------------------------------------------------------------
(* Enqueueing, the last step of EditionBuilder.                            *)

EnqueueKeepsEdition(e) ==
  /\ edition[e] \in {"rendered", "degraded"}
  /\ outbox[e] = "none"
  /\ outbox' = [outbox EXCEPT ![e] = "pending"]
  /\ UNCHANGED <<edition, attempts, owner, leaseLeft, waitLeft, errorCode, usage,
                 accepted, workerVars, history, interventions>>

\* A second call for the same edition returns the row that is there.
Enqueue(e) ==
  /\ edition[e] \in {"rendered", "degraded"}
  /\ outbox[e] = "none"
  /\ outbox' = [outbox EXCEPT ![e] = "pending"]
  /\ edition' = [edition EXCEPT ![e] = "queued"]
  /\ UNCHANGED <<attempts, owner, leaseLeft, waitLeft, errorCode, usage,
                 accepted, workerVars, history, interventions>>

-----------------------------------------------------------------------------
(* One delivery-run process.                                               *)

DueNeverReclaimed(e) ==
  /\ edition[e] \in {"queued", "delivering"}
  /\ \/ outbox[e] = "pending"
     \/ outbox[e] = "retry_wait" /\ waitLeft[e] = 0

DueWhileLeased(e) ==
  /\ edition[e] \in {"queued", "delivering"}
  /\ \/ outbox[e] \in {"pending", "sending"}
     \/ outbox[e] = "retry_wait" /\ waitLeft[e] = 0

Lapsed(e) == outbox[e] = "sending" /\ leaseLeft[e] = 0

Due(e) ==
  /\ edition[e] \in {"queued", "delivering"}
  /\ \/ outbox[e] = "pending"
     \/ outbox[e] = "retry_wait" /\ waitLeft[e] = 0
     \/ Lapsed(e)

DueRows == {e \in Editions : Due(e)}

\* LIMIT batch_size
FitsBatch(S) == IF Cardinality(DueRows) <= BatchSize
                  THEN S = DueRows
                  ELSE Cardinality(S) = BatchSize

CountNoAttempt(S) == attempts

\* attempt_count = attempt_count + 1 for every claimed row.
CountAttempt(S) == [e \in Editions |-> IF e \in S THEN attempts[e] + 1 ELSE attempts[e]]

\* claim_due_deliveries.  A process that finds nothing due exits unchanged.
Claim(w, S) ==
  /\ pc[w] = "idle"
  /\ S # {} /\ S \subseteq DueRows /\ FitsBatch(S)
  /\ \A e \in S : attempts[e] < MaxClaims
  /\ outbox' = [e \in Editions |-> IF e \in S THEN "sending" ELSE outbox[e]]
  /\ attempts' = CountAttempt(S)
  /\ owner' = [e \in Editions |-> IF e \in S THEN IdOf[w] ELSE owner[e]]
  /\ leaseLeft' = [e \in Editions |-> IF e \in S THEN LeaseMinutes ELSE leaseLeft[e]]
  /\ edition' = [e \in Editions |->
                   IF e \in S /\ edition[e] \in {"queued", "delivering"}
                     THEN "delivering" ELSE edition[e]]
  /\ snapshot' = [snapshot EXCEPT ![w] =
                   [e \in Editions |-> IF e \in S THEN attempts[e] + 1 ELSE 0]]
  /\ pc' = [pc EXCEPT ![w] = "next"]
  /\ elapsed' = [elapsed EXCEPT ![w] = 0]
  /\ lapses' = [e \in Editions |-> lapses[e] + (IF e \in S /\ Lapsed(e) THEN 1 ELSE 0)]
  /\ UNCHANGED <<waitLeft, errorCode, usage, accepted, current, outcome, redelivered,
                 interventions>>

Claimed(w) == {e \in Editions : snapshot[w][e] > 0}

StartUncharged(w, e) ==
  /\ pc[w] = "next"
  /\ e \in Claimed(w)
  /\ current' = [current EXCEPT ![w] = e]
  /\ pc' = [pc EXCEPT ![w] = "card"]
  /\ UNCHANGED <<edition, rowVars, usage, accepted, snapshot, outcome, elapsed,
                 history, interventions>>

\* The loop body begins: the attempt is written to the usage ledger.
StartDelivery(w, e) ==
  /\ pc[w] = "next"
  /\ e \in Claimed(w)
  /\ usage' = usage + 1
  /\ current' = [current EXCEPT ![w] = e]
  /\ pc' = [pc EXCEPT ![w] = "card"]
  /\ UNCHANGED <<edition, rowVars, accepted, snapshot, outcome, elapsed, history,
                 interventions>>

SendCardOnly(w) ==
  /\ pc[w] = "card"
  /\ accepted' = [accepted EXCEPT ![current[w]] = @ \cup {"card"}]
  /\ outcome' = [outcome EXCEPT ![w] = "ok"]
  /\ pc' = [pc EXCEPT ![w] = "record"]
  /\ UNCHANGED <<edition, rowVars, usage, snapshot, current, elapsed, history, interventions>>

\* FeishuClient.deliver: artifact digest, token, upload and summary card.
SendCard(w) ==
  /\ pc[w] = "card"
  /\ accepted' = [accepted EXCEPT ![current[w]] = @ \cup {"card"}]
  /\ pc' = [pc EXCEPT ![w] = "file"]
  /\ UNCHANGED <<edition, rowVars, usage, snapshot, current, outcome, elapsed, history,
                 interventions>>

\* ... then the file message, whose answer ends the delivery.
SendFile(w) ==
  /\ pc[w] = "file"
  /\ accepted' = [accepted EXCEPT ![current[w]] = @ \cup {"file"}]
  /\ outcome' = [outcome EXCEPT ![w] = "ok"]
  /\ pc' = [pc EXCEPT ![w] = "record"]
  /\ UNCHANGED <<edition, rowVars, usage, snapshot, current, elapsed, history, interventions>>

\* An AppError, retryable or not, before or after the provider acted: the
\* answer to an accepted message may be lost (timeout) or unreadable.
DeliverFails(w, kind) ==
  /\ pc[w] \in {"card", "file"}
  /\ accepted' \in {accepted, [accepted EXCEPT ![current[w]] = @ \cup {pc[w]}]}
  /\ outcome' = [outcome EXCEPT ![w] = kind]
  /\ pc' = [pc EXCEPT ![w] = "record"]
  /\ UNCHANGED <<edition, rowVars, usage, snapshot, current, elapsed, history, interventions>>

\* WHERE id = ? AND status = 'sending' AND lease_owner = ?
HoldsByStatus(w, e) == outbox[e] = "sending"

Holds(w, e) == outbox[e] = "sending" /\ owner[e] = IdOf[w]

\* The row is done with: on to the next claimed row, or the process ends.
NextRow(w) ==
  LET left == Claimed(w) \ {current[w]}
  IN  /\ snapshot' = [snapshot EXCEPT ![w][current[w]] = 0]
      /\ pc' = [pc EXCEPT ![w] = IF left = {} THEN "idle" ELSE "next"]
      /\ current' = [current EXCEPT ![w] = NoEdition]
      /\ outcome' = [outcome EXCEPT ![w] = "none"]

\* What the three record_delivery_* methods do to the row and its edition:
\* the lease is released, and only a delivering edition moves.
Release(e, rowStatus, code, editionStatus) ==
  /\ outbox' = [outbox EXCEPT ![e] = rowStatus]
  /\ errorCode' = [errorCode EXCEPT ![e] = code]
  /\ owner' = [owner EXCEPT ![e] = NoOwner]
  /\ leaseLeft' = [leaseLeft EXCEPT ![e] = 0]
  /\ edition' = IF edition[e] = "delivering"
                  THEN [edition EXCEPT ![e] = editionStatus] ELSE edition

RecordSuccess(w) ==
  LET e == current[w]
  IN  /\ pc[w] = "record" /\ outcome[w] = "ok" /\ Holds(w, e)
      /\ Release(e, "delivered", "none", "delivered")
      /\ waitLeft' = [waitLeft EXCEPT ![e] = 0]
      /\ NextRow(w)
      /\ UNCHANGED <<attempts, usage, accepted, elapsed, history, interventions>>

\* error.retryable and delivery.attempt_count < max_attempts, both read from
\* the record the claim returned
RetriesOneTooMany(w) ==
  outcome[w] = "transient" /\ snapshot[w][current[w]] <= MaxAttempts

Retries(w) == outcome[w] = "transient" /\ snapshot[w][current[w]] < MaxAttempts

RecordRetry(w) ==
  LET e == current[w]
  IN  /\ pc[w] = "record" /\ Retries(w) /\ Holds(w, e)
      /\ Release(e, "retry_wait", "transient", "queued")
      /\ waitLeft' = [waitLeft EXCEPT ![e] =
                        LeftOf(Backoff(snapshot[w][e]), elapsed[w])]
      /\ NextRow(w)
      /\ UNCHANGED <<attempts, usage, accepted, elapsed, history, interventions>>

RecordTerminal(w) ==
  LET e == current[w]
  IN  /\ pc[w] = "record" /\ outcome[w] \in {"transient", "permanent"}
      /\ ~Retries(w) /\ Holds(w, e)
      /\ Release(e, "terminal",
                 IF outcome[w] = "transient" THEN "exhausted" ELSE "permanent",
                 "terminal")
      /\ waitLeft' = [waitLeft EXCEPT ![e] = 0]
      /\ NextRow(w)
      /\ UNCHANGED <<attempts, usage, accepted, elapsed, history, interventions>>

\* The process is gone with everything it held in memory.
ProcessEnds(w) ==
  /\ pc' = [pc EXCEPT ![w] = "idle"]
  /\ snapshot' = [snapshot EXCEPT ![w] = [e \in Editions |-> 0]]
  /\ current' = [current EXCEPT ![w] = NoEdition]
  /\ outcome' = [outcome EXCEPT ![w] = "none"]

\* "... requires the current worker lease": the ValueError leaves run_once,
\* and the rows of the batch not yet sent stay claimed until their lease ends.
LeaseLost(w) ==
  /\ pc[w] = "record" /\ ~Holds(w, current[w])
  /\ ProcessEnds(w)
  /\ UNCHANGED <<edition, rowVars, usage, accepted, elapsed, history, interventions>>

-----------------------------------------------------------------------------
(* What happens to the workers: crashes, the operator, time.               *)

Crash(w) ==
  /\ pc[w] # "idle"
  /\ interventions < MaxInterventions
  /\ interventions' = interventions + 1
  /\ ProcessEnds(w)
  /\ UNCHANGED <<edition, rowVars, usage, accepted, elapsed, history>>

RedeliverFromRender(e) ==
  /\ edition[e] = "terminal" /\ outbox[e] = "terminal"
  /\ interventions < MaxInterventions
  /\ interventions' = interventions + 1
  /\ outbox' = [outbox EXCEPT ![e] = "none"]
  /\ edition' = [edition EXCEPT ![e] = "rendered"]
  /\ UNCHANGED <<attempts, owner, leaseLeft, waitLeft, errorCode, usage, accepted,
                 workerVars, history>>

\* redeliver_terminal.  attempt_count is not reset.
Redeliver(e) ==
  /\ edition[e] = "terminal" /\ outbox[e] = "terminal"
  /\ interventions < MaxInterventions
  /\ interventions' = interventions + 1
  /\ outbox' = [outbox EXCEPT ![e] = "pending"]
  /\ errorCode' = [errorCode EXCEPT ![e] = "none"]
  /\ waitLeft' = [waitLeft EXCEPT ![e] = 0]
  /\ owner' = [owner EXCEPT ![e] = NoOwner]
  /\ leaseLeft' = [leaseLeft EXCEPT ![e] = 0]
  /\ edition' = [edition EXCEPT ![e] = "queued"]
  /\ redelivered' = [redelivered EXCEPT ![e] = @ + 1]
  /\ UNCHANGED <<attempts, usage, accepted, workerVars, lapses>>

\* A minute passes.  Under Timely no worker is overtaken by its own lease.
Tick ==
  /\ Timely => \A w \in Workers : \A e \in Claimed(w) :
                 Holds(w, e) => leaseLeft[e] > 1
  /\ leaseLeft' = [e \in Editions |-> CountDown(leaseLeft[e])]
  /\ waitLeft' = [e \in Editions |-> CountDown(waitLeft[e])]
  /\ elapsed' = [w \in Workers |->
                   IF pc[w] # "idle" /\ elapsed[w] < MaxBackoff
                     THEN elapsed[w] + 1 ELSE elapsed[w]]
  /\ UNCHANGED <<edition, outbox, attempts, owner, errorCode, usage, accepted,
                 pc, snapshot, current, outcome, history, interventions>>

-----------------------------------------------------------------------------

Work(w) ==
  \/ \E S \in SUBSET Editions : Claim(w, S)
  \/ \E e \in Editions : StartDelivery(w, e)
  \/ SendCard(w)
  \/ SendFile(w)
  \/ \E kind \in {"transient", "permanent"} : DeliverFails(w, kind)
  \/ RecordSuccess(w)
  \/ RecordRetry(w)
  \/ RecordTerminal(w)
  \/ LeaseLost(w)

Next ==
  \/ \E e \in Editions : Enqueue(e)
  \/ \E w \in Workers : Work(w)
  \/ \E w \in Workers : Crash(w)
  \/ \E e \in Editions : Redeliver(e)
  \/ Tick

Spec == Init /\ [][Next]_vars

\* The timer starts delivery-run every minute, a started process runs on, the
\* builder enqueues what it rendered, and time passes.
Fairness ==
  /\ \A e \in Editions : WF_vars(Enqueue(e))
  /\ \A w \in Workers : WF_vars(Work(w))
  /\ WF_vars(Tick)

FairSpec == Spec /\ Fairness

-----------------------------------------------------------------------------
(* Properties.                                                             *)

Agrees(row, run) ==
  CASE row = "none"                     -> run \in {"rendered", "degraded"}
    [] row \in {"pending", "retry_wait"} -> run = "queued"
    [] row = "sending"                  -> run = "delivering"
    [] row = "delivered"                -> run = "delivered"
    [] row = "terminal"                 -> run = "terminal"

\* The two tables never diverge: in every reachable state, whatever crashes
\* and races came before, the outbox row of an edition and the edition's own
\* status say the same thing.
OutboxAgrees == \A e \in Editions : Agrees(outbox[e], edition[e])

\* A row has a lease owner exactly while it is being sent, so no lease is
\* left on a released row and no sending row is without a holder to wait for.
LeaseFieldsMatch == \A e \in Editions :
  /\ outbox[e] = "sending" <=> owner[e] # NoOwner
  /\ leaseLeft[e] > 0 => outbox[e] = "sending"

\* An edition recorded as delivered has reached the chat completely: Feishu
\* accepted both the card and the file, whichever attempts sent them.
DeliveredWasAccepted ==
  \A e \in Editions : outbox[e] = "delivered" => accepted[e] = Parts

\* The processes with the row in a batch of theirs: they send it, or will.
Holders(e) == {w \in Workers : e \in Claimed(w)}

\* Two processes have the same edition in hand only after a lease ran out, one
\* more for every lease that did, although all of them pass one worker_id and
\* the statements cannot tell them apart.
LeaseExcludes == \A e \in Editions :
  Cardinality(Holders(e)) <= lapses[e] + (IF outbox[e] = "sending" THEN 1 ELSE 0)

\* An edition is claimed max_attempts times, plus once for every lease that ran
\* out and every edition-redeliver, however many processes decide on the row
\* from the attempt_count their own claim returned; a claim that is still to
\* come (pending, retry_wait) counts.  It is written off as exhausted only
\* after max_attempts of them.
RetryBudget == \A e \in Editions :
  /\ attempts[e] + (IF outbox[e] \in {"pending", "retry_wait"} THEN 1 ELSE 0)
       <= MaxAttempts + lapses[e] + redelivered[e]
  /\ errorCode[e] = "exhausted" => attempts[e] >= MaxAttempts

\* The claims so far: one for every value a row's attempt_count has had.
Claims == UNION {{e} \X (1..attempts[e]) : e \in Editions}

\* Every provider call was charged to the usage ledger first, and nothing is
\* charged that was not claimed.
UsageCoversCalls ==
  /\ usage <= Cardinality(Claims)
  /\ usage >= Cardinality({e \in Editions : accepted[e] # {}})
                + Cardinality({w \in Workers : pc[w] = "card" /\ accepted[current[w]] = {}})

\* A delivered edition is never sent, retried or written off again, and a
\* terminal one comes back only as a fresh pending row.
FinalStatus ==
  [][\A e \in Editions :
       /\ outbox[e] = "delivered" => outbox'[e] = "delivered"
       /\ outbox[e] = "terminal" => outbox'[e] \in {"terminal", "pending"}]_vars

\* Every queued edition is eventually delivered or reported as terminal.
EventuallyResolved == \A e \in Editions :
  (outbox[e] = "pending") ~> (outbox[e] \in {"delivered", "terminal"})

\* An edition's status moves as EditionLifecycle promises.
Lifecycle == INSTANCE EditionLifecycle WITH status <- edition
LifecycleSpec == Lifecycle!Spec

=============================================================================
