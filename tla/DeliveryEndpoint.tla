------------------------- MODULE DeliveryEndpoint -------------------------
(***************************************************************************)
(* The endpoint delivery ledger: the rows of delivery_queue, the queue     *)
(* consumers that claim a row, POST its activity and book the outcome, the *)
(* dead-letter / reconcile cycle and the sweep that re-publishes wakeups.  *)
(*                                                                         *)
(* Sources: lib/delivery/queue-delivery.ts, lib/delivery/queue.ts and      *)
(* processReconcileJob of lib/delivery/queue-batching.ts.                  *)
(*                                                                         *)
(* The database is the authority; queue messages are wakeups.  A wakeup    *)
(* may be lost, delayed, reordered or delivered more than once, so a queue *)
(* is a set.  Wall-clock comparisons are the flags due, stale and age of a *)
(* row, raised by the Time actions.                                        *)
(***************************************************************************)
EXTENDS Naturals, FiniteSets

CONSTANTS
  Jobs,           \* delivery_queue ids, hash(activity, endpoint)
  Runners,        \* concurrent executions of processDeliverEndpoint
  Tokens,         \* crypto.randomUUID() values
  NoToken,        \* SQL NULL in processing_token
  Responses,      \* HTTP statuses a POST may end with; 0 is a network error
  MaxAttempts,    \* DELIVERY_MAX_ATTEMPTS, 8 in the code
  MaxReconcile,   \* MAX_RECONCILE_ATTEMPTS, 5 in the code
  MaxFaults       \* bound: crashes, thrown handlers and stalled claimants

ASSUME DeliveryAssumption ==
  /\ NoToken \notin Tokens
  /\ Responses \subseteq Nat
  /\ MaxAttempts \in Nat \ {0}
  /\ MaxReconcile \in Nat
  /\ MaxFaults \in Nat

VARIABLES
  rows,      \* delivery_queue, one row (or "absent") per job id
  target,    \* what a job delivers: its activity, and whether its endpoint has a host
  main,      \* DELIVERY_QUEUE: deliver_endpoint and reconcile_job messages
  dlq,       \* DELIVERY_DLQ: structured dlq messages
  run,       \* local state of each execution
  lapsed,    \* history: the execution's claim timed out or its row went away
  faults     \* faults spent so far

vars == <<rows, target, main, dlq, run, lapsed, faults>>

-----------------------------------------------------------------------------
Terminal == {"delivered", "dead_letter", "failed"}
Waiting == {"pending", "retry_wait"}
Active == Waiting \cup {"processing"}

Row == [status : Terminal \cup Active \cup {"absent"},
        attempts : Nat, gen : Nat, dlqPending : BOOLEAN,
        token : Tokens \cup {NoToken},
        due : BOOLEAN,      \* next_attempt_at <= now
        stale : BOOLEAN,    \* processing_started_at is over two minutes old
        age : 0..2]         \* created_at: fresh, over 2 minutes, over 30 days

\* resolveSigningActor finds no key for an "unsigned" activity.
Target == [activity : {"live", "unsigned", "gone"}, host : BOOLEAN]

Absent == [status |-> "absent", attempts |-> 0, gen |-> 0, dlqPending |-> FALSE,
           token |-> NoToken, due |-> FALSE, stale |-> FALSE, age |-> 0]

NewRow == [status |-> "pending", attempts |-> 0, gen |-> 0, dlqPending |-> FALSE,
           token |-> NoToken, due |-> TRUE, stale |-> FALSE, age |-> 0]

\* The handler never reads the generation of a deliver_endpoint message: the
\* row owns it.  Only reconcile_job messages carry a meaningful one.
Deliver(j) == [type |-> "deliver_endpoint", job |-> j, gen |-> 0]
Reconcile(j, g) == [type |-> "reconcile_job", job |-> j, gen |-> g]
Message == [type : {"deliver_endpoint", "reconcile_job"}, job : Jobs, gen : Nat]
DlqMessage == [job : Jobs, gen : Nat]

Stages == {"idle", "admitted", "claimed", "posting", "accepted", "rejected",
           "refused", "counted", "signal", "wakeup"}
\* The stages of an execution whose claim UPDATE changed a row.
Holding == {"claimed", "posting", "accepted", "rejected", "refused", "counted"}

Run == [pc : Stages, job : Jobs, gen : Nat, token : Tokens \cup {NoToken},
        count : Nat]     \* attempts returned by incrementDeliveryAttempts

\* At-least-once delivery: the copy that was received may come again.
Remaining(queue, m) == {queue, queue \ {m}}

\* A v4 UUID: equal to no token that a row or an execution still remembers.
FreshTokens == Tokens \ ({rows[j].token : j \in Jobs} \cup
                         {run[r].token : r \in Runners})

\* Mutant of Owns: the fence forgets the token.
OwnsAnyToken(r) == LET row == rows[run[r].job] IN
  row.status = "processing" /\ row.gen = run[r].gen

\* The fence of every write after the claim.
Owns(r) == LET row == rows[run[r].job] IN
  /\ row.status = "processing"
  /\ row.gen = run[r].gen
  /\ row.token = run[r].token

\* 4xx that are the remote's verdict on this activity, not a passing condition.
Transient4xx == {401, 404, 408, 425, 429}
PermanentFailure(s) == s \in 400..499 /\ s \notin Transient4xx
Ok(s) == s \in 200..299

Finish(r) == run' = [run EXCEPT ![r] =
  [@ EXCEPT !.pc = "idle", !.token = NoToken, !.count = 0, !.gen = 0]]
GoTo(r, stage) == run' = [run EXCEPT ![r] = [@ EXCEPT !.pc = stage]]

\* Deleting a row cuts off whoever holds a claim on it.
CutOff(j) == lapsed' = [r \in Runners |->
                          lapsed[r] \/ (run[r].pc \in Holding /\ run[r].job = j)]

-----------------------------------------------------------------------------
Init ==
  /\ rows = [j \in Jobs |-> Absent]
  /\ \E host \in [Jobs -> BOOLEAN] :
       target = [j \in Jobs |-> [activity |-> "live", host |-> host[j]]]
  /\ main = {}
  /\ dlq = {}
  /\ \E j \in Jobs : run = [r \in Runners |->
        [pc |-> "idle", job |-> j, gen |-> 0, token |-> NoToken, count |-> 0]]
  /\ lapsed = [r \in Runners |-> FALSE]
  /\ faults = 0

-----------------------------------------------------------------------------
(* Producers.                                                              *)

\* upsertDeliveryJob, then the wakeup its callers send.  A conflict keeps the
\* existing row and its budget.  The planner read the activity earlier, so the
\* row may be materialised after the activity is gone.
UpsertDeliveryJob(j) ==
  /\ rows' = IF rows[j].status = "absent" THEN [rows EXCEPT ![j] = NewRow] ELSE rows
  /\ main' = main \cup {Deliver(j)}
  /\ UNCHANGED <<target, dlq, run, lapsed, faults>>

\* activityDeleteCascadeStatements removes row and activity; the projection-only
\* form and the last recipient's tombstone remove the row alone.
DeleteJob(j) ==
  /\ rows[j].status # "absent"
  /\ rows' = [rows EXCEPT ![j] = Absent]
  /\ \/ target' = [target EXCEPT ![j] = [@ EXCEPT !.activity = "gone"]]
     \/ UNCHANGED target
  /\ CutOff(j)
  /\ UNCHANGED <<main, dlq, run, faults>>

\* The signing key disappears while the activity is still there.
DropSigner(j) ==
  /\ target[j].activity = "live"
  /\ target' = [target EXCEPT ![j] = [@ EXCEPT !.activity = "unsigned"]]
  /\ UNCHANGED <<rows, main, dlq, run, lapsed, faults>>

-----------------------------------------------------------------------------
(* processDeliverEndpoint.  A wakeup for a row that is not due, that has a *)
(* live claimant, or whose circuit is open is sent again and acknowledged: *)
(* the queue is what it was, so those early returns are stuttering steps.  *)

\* Missing or terminal row: acknowledge, never POST.  A retained repair intent
\* has its DLQ signal sent again.
AckTerminal(j) ==
  /\ Deliver(j) \in main
  /\ rows[j].status \in Terminal \cup {"absent"}
  /\ main' \in Remaining(main, Deliver(j))
  /\ dlq' = IF rows[j].status = "dead_letter" /\ rows[j].dlqPending
              THEN dlq \cup {[job |-> j, gen |-> rows[j].gen]}
              ELSE dlq
  /\ UNCHANGED <<rows, target, run, lapsed, faults>>

Ready(row) == /\ row.status \in Active
              /\ row.due
              /\ row.status = "processing" => row.stale

\* Mutant of FailedRow: the claim is not cleared.
FailedRowKeepsToken(row) == [row EXCEPT !.status = "failed", !.dlqPending = FALSE]

FailedRow(row) == [row EXCEPT !.status = "failed", !.token = NoToken,
                              !.stale = FALSE, !.dlqPending = FALSE]

\* An endpoint without a host is never claimed; its fence is the row as read.
FailInvalidEndpoint(j) ==
  /\ ~target[j].host
  /\ Deliver(j) \in main
  /\ Ready(rows[j])
  /\ rows' = [rows EXCEPT ![j] = FailedRow(@)]
  /\ main' \in Remaining(main, Deliver(j))
  /\ UNCHANGED <<target, dlq, run, lapsed, faults>>

\* The row was read as ready and the circuit let the attempt through; the
\* execution now waits for its bulkhead slots with the generation it read.
Admit(r, j) ==
  /\ run[r].pc = "idle"
  /\ target[j].host
  /\ Deliver(j) \in main
  /\ Ready(rows[j])
  /\ main' \in Remaining(main, Deliver(j))
  /\ run' = [run EXCEPT ![r] = [pc |-> "admitted", job |-> j, gen |-> rows[j].gen,
                                token |-> NoToken, count |-> 0]]
  /\ lapsed' = [lapsed EXCEPT ![r] = FALSE]
  /\ UNCHANGED <<rows, target, dlq, faults>>

\* Mutant of Claimable: the CAS trusts the staleness test made before the wait.
ClaimableUnverified(r) == LET row == rows[run[r].job] IN
  row.gen = run[r].gen /\ row.due /\ row.status \in Active

\* The verified CAS: everything that was read is checked again.
Claimable(r) == LET row == rows[run[r].job] IN
  /\ row.gen = run[r].gen
  /\ row.due
  /\ \/ row.status \in Waiting
     \/ row.status = "processing" /\ row.stale

ClaimedRow(row, t) ==
  [row EXCEPT !.status = "processing", !.token = t, !.stale = FALSE]

Claim(r) ==
  /\ run[r].pc = "admitted"
  /\ Claimable(r)
  /\ \E t \in FreshTokens :
       /\ rows' = [rows EXCEPT ![run[r].job] = ClaimedRow(@, t)]
       /\ run' = [run EXCEPT ![r] = [@ EXCEPT !.pc = "claimed", !.token = t]]
  /\ UNCHANGED <<target, main, dlq, lapsed, faults>>

ClaimLost(r) ==
  /\ run[r].pc = "admitted"
  /\ ~Claimable(r)
  /\ Finish(r)
  /\ UNCHANGED <<rows, target, main, dlq, lapsed, faults>>

\* failJob under the ownership fence.
FailJob(r) == rows' = IF Owns(r) THEN [rows EXCEPT ![run[r].job] = FailedRow(@)]
                                 ELSE rows

\* activity_not_found and signing_actor_not_found end the job.
LoadActivity(r) ==
  /\ run[r].pc = "claimed"
  /\ \/ /\ target[run[r].job].activity = "live"
        /\ GoTo(r, "posting")
        /\ UNCHANGED rows
     \/ /\ target[run[r].job].activity # "live"
        /\ FailJob(r)
        /\ Finish(r)
  /\ UNCHANGED <<target, main, dlq, lapsed, faults>>

Post(r, s) ==
  /\ run[r].pc = "posting"
  /\ GoTo(r, IF Ok(s) THEN "accepted"
             ELSE IF PermanentFailure(s) THEN "rejected" ELSE "refused")
  /\ UNCHANGED <<rows, target, main, dlq, lapsed, faults>>

DeliveredRow(row) == [row EXCEPT !.status = "delivered", !.token = NoToken,
                                 !.stale = FALSE, !.dlqPending = FALSE]

MarkDelivered(r) ==
  /\ run[r].pc = "accepted"
  /\ rows' = IF Owns(r) THEN [rows EXCEPT ![run[r].job] = DeliveredRow(@)] ELSE rows
  /\ Finish(r)
  /\ UNCHANGED <<target, main, dlq, lapsed, faults>>

\* The remote accepted but the bookkeeping write failed: acknowledged anyway.
BookkeepingFails(r) ==
  /\ run[r].pc = "accepted"
  /\ faults < MaxFaults
  /\ faults' = faults + 1
  /\ Finish(r)
  /\ UNCHANGED <<rows, target, main, dlq, lapsed>>

MarkRejected(r) ==
  /\ run[r].pc = "rejected"
  /\ FailJob(r)
  /\ Finish(r)
  /\ UNCHANGED <<target, main, dlq, lapsed, faults>>

CountedRow(row) == [row EXCEPT !.attempts = @ + 1]

IncrementDeliveryAttempts(r) ==
  /\ run[r].pc = "refused"
  /\ \/ /\ Owns(r)
        /\ rows' = [rows EXCEPT ![run[r].job] = CountedRow(@)]
        /\ run' = [run EXCEPT ![r] =
             [@ EXCEPT !.pc = "counted", !.count = rows[run[r].job].attempts + 1]]
     \/ /\ ~Owns(r)
        /\ Finish(r)
        /\ UNCHANGED rows
  /\ UNCHANGED <<target, main, dlq, lapsed, faults>>

\* Mutant of DeadLetterRow: off by one at the last generation.
DeadLetterRowOneMore(row, g) ==
  [row EXCEPT !.status = "dead_letter", !.token = NoToken, !.stale = FALSE,
              !.dlqPending = (g <= MaxReconcile), !.due = FALSE]

DeadLetterRow(row, g) ==
  [row EXCEPT !.status = "dead_letter", !.token = NoToken, !.stale = FALSE,
              !.dlqPending = (g < MaxReconcile), !.due = FALSE]

\* Mutant of Exhausted: off by one at the last attempt.
ExhaustedLate(r) == run[r].count > MaxAttempts

Exhausted(r) == run[r].count >= MaxAttempts

DeadLetter(r) ==
  /\ run[r].pc = "counted"
  /\ Exhausted(r)
  /\ \/ /\ Owns(r)
        /\ rows' = [rows EXCEPT ![run[r].job] = DeadLetterRow(@, run[r].gen)]
        /\ GoTo(r, "signal")
     \/ /\ ~Owns(r)
        /\ Finish(r)
        /\ UNCHANGED rows
  /\ UNCHANGED <<target, main, dlq, lapsed, faults>>

SendDlqMessage(r) ==
  /\ run[r].pc = "signal"
  /\ dlq' = dlq \cup {[job |-> run[r].job, gen |-> run[r].gen]}
  /\ Finish(r)
  /\ UNCHANGED <<rows, target, main, lapsed, faults>>

RetryRow(row) == [row EXCEPT !.status = "retry_wait", !.token = NoToken,
                             !.stale = FALSE, !.due = FALSE]

\* Unlike DeadLetter this UPDATE's row count is not looked at.
RetryWait(r) ==
  /\ run[r].pc = "counted"
  /\ ~Exhausted(r)
  /\ rows' = IF Owns(r) THEN [rows EXCEPT ![run[r].job] = RetryRow(@)] ELSE rows
  /\ GoTo(r, "wakeup")
  /\ UNCHANGED <<target, main, dlq, lapsed, faults>>

SendWakeup(r) ==
  /\ run[r].pc = "wakeup"
  /\ main' = main \cup {Deliver(run[r].job)}
  /\ Finish(r)
  /\ UNCHANGED <<rows, target, dlq, lapsed, faults>>

\* The process dies, or a database or queue call throws and the batch handler
\* calls message.retry(): either way the wakeup comes back.
Crash(r) ==
  /\ run[r].pc # "idle"
  /\ faults < MaxFaults
  /\ faults' = faults + 1
  /\ main' = main \cup {Deliver(run[r].job)}
  /\ Finish(r)
  /\ UNCHANGED <<rows, target, dlq, lapsed>>

-----------------------------------------------------------------------------
(* Dead letters and reconciliation.                                        *)

\* handleDeliveryDlqBatch, structured bodies.
HandleDlq(m) ==
  /\ m \in dlq
  /\ dlq' \in Remaining(dlq, m)
  /\ main' = IF m.gen >= MaxReconcile THEN main
             ELSE main \cup {Reconcile(m.job, m.gen + 1)}
  /\ UNCHANGED <<rows, target, run, lapsed, faults>>

\* Mutant of Revivable: any row of the predecessor generation is revived.
RevivableAny(m) == /\ m.gen \in 1..MaxReconcile
                   /\ rows[m.job].status # "absent"
                   /\ m.gen = rows[m.job].gen + 1

Revivable(m) == LET row == rows[m.job] IN
  /\ m.gen \in 1..MaxReconcile
  /\ row.status = "dead_letter"
  /\ row.dlqPending
  /\ m.gen = row.gen + 1

RevivedRow(row, g) ==
  [row EXCEPT !.status = "pending", !.gen = g, !.dlqPending = FALSE,
              !.attempts = 0, !.token = NoToken, !.stale = FALSE, !.due = TRUE]

\* processReconcileJob: an early successor is sent again (a stuttering step);
\* after the transition either the wakeup is out or the message is retried.
ProcessReconcileJob(m) ==
  /\ m \in main
  /\ m.type = "reconcile_job"
  /\ \/ /\ Revivable(m)
        /\ rows[m.job].due
        /\ rows' = [rows EXCEPT ![m.job] = RevivedRow(@, m.gen)]
        /\ \E rest \in Remaining(main, m) : main' \in {rest \cup {Deliver(m.job)}, main}
     \/ /\ ~Revivable(m)
        /\ main' \in Remaining(main, m)
        /\ UNCHANGED rows
  /\ UNCHANGED <<target, dlq, run, lapsed, faults>>

-----------------------------------------------------------------------------
(* enqueuePendingDeliveryEndpointJobs.                                     *)

Purgeable == {j \in Jobs : /\ rows[j].status \in Terminal
                           /\ ~rows[j].dlqPending
                           /\ rows[j].age = 2}

\* Mutant of Repairs: the last generation's intent is never scanned.
RepairsButLast == {j \in Jobs : /\ rows[j].status = "dead_letter"
                                /\ rows[j].dlqPending
                                /\ rows[j].gen + 1 < MaxReconcile
                                /\ rows[j].due}

Repairs == {j \in Jobs : /\ rows[j].status = "dead_letter"
                         /\ rows[j].dlqPending
                         /\ rows[j].gen < MaxReconcile
                         /\ rows[j].due}

\* Mutant of Scanned: abandoned claims are not scanned for.
ScannedWaiting(fresh, deferred) ==
  {j \in Jobs : \/ rows[j].status = "pending" /\ (fresh \/ rows[j].age > 0)
                \/ rows[j].status = "retry_wait" /\ (deferred \/ rows[j].due)}

\* The two options are set by the sweep of the local runtime, whose queue is
\* process memory.
Scanned(fresh, deferred) ==
  {j \in Jobs : \/ rows[j].status = "pending" /\ (fresh \/ rows[j].age > 0)
                \/ rows[j].status = "retry_wait" /\ (deferred \/ rows[j].due)
                \/ rows[j].status = "processing" /\ rows[j].stale}

Sweep(fresh, deferred) ==
  /\ rows' = [j \in Jobs |-> IF j \in Purgeable THEN Absent ELSE rows[j]]
  /\ main' = main \cup {Reconcile(j, rows[j].gen + 1) : j \in Repairs}
                  \cup {Deliver(j) : j \in Scanned(fresh, deferred)}
  /\ lapsed' = [r \in Runners |-> \/ lapsed[r]
                                  \/ run[r].pc \in Holding /\ run[r].job \in Purgeable]
  /\ UNCHANGED <<target, dlq, run, faults>>

-----------------------------------------------------------------------------
(* Environment: lost messages and the passage of time.                     *)

Lose ==
  /\ \/ \E m \in main : main' = main \ {m} /\ UNCHANGED dlq
     \/ \E m \in dlq : dlq' = dlq \ {m} /\ UNCHANGED main
  /\ UNCHANGED <<rows, target, run, lapsed, faults>>

BecomeDue(j) ==
  /\ rows[j].status \in Active \cup {"dead_letter"}
  /\ ~rows[j].due
  /\ rows' = [rows EXCEPT ![j] = [@ EXCEPT !.due = TRUE]]
  /\ UNCHANGED <<target, main, dlq, run, lapsed, faults>>

HasHolder(j) == \E r \in Runners :
  run[r].pc \in Holding /\ run[r].job = j /\ run[r].token = rows[j].token

\* Two minutes pass since the claim.  With a claimant still at work this is a
\* stall (its POST times out after eight seconds) and counts as a fault.
ClaimTimesOut(j) ==
  /\ rows[j].status = "processing"
  /\ ~rows[j].stale
  /\ HasHolder(j) => faults < MaxFaults
  /\ faults' = IF HasHolder(j) THEN faults + 1 ELSE faults
  /\ rows' = [rows EXCEPT ![j] = [@ EXCEPT !.stale = TRUE]]
  /\ CutOff(j)
  /\ UNCHANGED <<target, main, dlq, run>>

Older(row) == [row EXCEPT !.age = @ + 1]

GrowOld(j) ==
  /\ rows[j].status # "absent"
  /\ rows[j].age < 2
  /\ rows' = [rows EXCEPT ![j] = Older(@)]
  /\ UNCHANGED <<target, main, dlq, run, lapsed, faults>>

-----------------------------------------------------------------------------
RunnerStep(r) ==
  \/ Claim(r) \/ ClaimLost(r) \/ LoadActivity(r)
  \/ \E s \in Responses : Post(r, s)
  \/ MarkDelivered(r) \/ MarkRejected(r) \/ IncrementDeliveryAttempts(r)
  \/ DeadLetter(r) \/ SendDlqMessage(r) \/ RetryWait(r) \/ SendWakeup(r)

Next ==
  \/ \E j \in Jobs : \/ UpsertDeliveryJob(j) \/ DeleteJob(j) \/ DropSigner(j)
                     \/ AckTerminal(j) \/ FailInvalidEndpoint(j)
                     \/ BecomeDue(j) \/ ClaimTimesOut(j) \/ GrowOld(j)
  \/ \E r \in Runners, j \in Jobs : Admit(r, j)
  \/ \E r \in Runners : RunnerStep(r) \/ BookkeepingFails(r) \/ Crash(r)
  \/ \E m \in dlq : HandleDlq(m)
  \/ \E m \in main : ProcessReconcileJob(m)
  \/ \E fresh, deferred \in BOOLEAN : Sweep(fresh, deferred)
  \/ Lose

Spec == Init /\ [][Next]_vars

\* Cron, the request middleware and the end of every batch run the sweep;
\* received messages are handled, time passes, and a circuit that denies an
\* attempt admits one later (DeliveryGate), so an endless series of ready
\* wakeups is admitted in the end.
Fairness ==
  /\ WF_vars(Sweep(FALSE, FALSE))
  /\ \A r \in Runners : WF_vars(RunnerStep(r))
  /\ \A j \in Jobs : /\ SF_vars(\E r \in Runners : Admit(r, j))
                     /\ SF_vars(FailInvalidEndpoint(j))
                     /\ SF_vars(\E g \in 1..MaxReconcile :
                                  /\ Revivable(Reconcile(j, g))
                                  /\ ProcessReconcileJob(Reconcile(j, g)))
                     /\ WF_vars(BecomeDue(j))
                     /\ WF_vars(ClaimTimesOut(j))
                     /\ WF_vars(GrowOld(j))

FairSpec == Spec /\ Fairness

-----------------------------------------------------------------------------
(* Properties.                                                             *)

RowShape(row) ==
  /\ (row.status = "processing") <=> (row.token # NoToken)
  /\ row.stale => row.status = "processing"
  /\ row.status = "absent" => row = Absent

\* Every row, message and execution has the shape the code gives it; every way
\* out of "processing" clears the claim columns.
TypeOK ==
  /\ rows \in [Jobs -> Row]
  /\ \A j \in Jobs : RowShape(rows[j])
  /\ target \in [Jobs -> Target]
  /\ main \subseteq Message
  /\ dlq \subseteq DlqMessage
  /\ run \in [Runners -> Run]
  /\ lapsed \in [Runners -> BOOLEAN]
  /\ faults \in 0..MaxFaults

\* The claim CAS and the processing token: of two executions that hold claims
\* on one job at most one has a claim that is neither timed out nor cut off by
\* the deletion of the row.  So the activity is POSTed by two executions at a
\* time only after a claim was abandoned for two minutes.
SingleLiveClaimant ==
  \A r, q \in Runners :
    /\ r # q
    /\ run[r].pc \in Holding /\ run[q].pc \in Holding
    /\ run[r].job = run[q].job
    => lapsed[r] \/ lapsed[q]

\* dlq_pending is the durable authority to reconcile: a dead letter owns an
\* intent exactly while its generation is below the maximum, and no other
\* status does.  Otherwise a job is stranded or is revived past its budget.
RepairIntent ==
  \A j \in Jobs : rows[j].dlqPending <=>
    (rows[j].status = "dead_letter" /\ rows[j].gen < MaxReconcile)

\* No sequence of wakeups, duplicates and revivals takes a row past the last
\* reconcile generation, and a series exceeds its attempt budget by at most the
\* number of faults that hit a claimant between counting and booking a failure.
BudgetBounded ==
  \A j \in Jobs : /\ rows[j].gen <= MaxReconcile
                  /\ rows[j].attempts <= MaxAttempts + faults

\* The row as DeliveryLedger sees it.
LedgerState(row) ==
  CASE row.status = "absent" -> "none"
    [] row.status \in Active -> "open"
    [] row.status = "dead_letter" -> IF row.dlqPending THEN "parked" ELSE "given_up"
    [] OTHER -> row.status

LedgerEntry(row) == [state |-> LedgerState(row), series |-> row.gen, spent |-> row.attempts]

Ledger == INSTANCE DeliveryLedger WITH ledger <- [j \in Jobs |-> LedgerEntry(rows[j])]

\* The rows implement the abstract ledger: no late claimant, duplicate wakeup,
\* producer conflict or stale reconcile message reopens a terminal job or mints
\* a budget; a series ends parked exactly while generations are left; only the
\* consumption of the intent starts the next one, one generation on.
RefinesLedger == Ledger!LedgerSpec

LostClaimIsIdle ==
  \A r \in Runners :
    /\ run[r].pc \in Holding
    /\ run[r].token # rows[run[r].job].token
    /\ run'[r] # run[r]
    => UNCHANGED rows

\* An execution that lost its claim (to a replacement, a deletion, or a row
\* created anew under the same id) changes no row by any of its later steps.
LostClaimWritesNothing == [][LostClaimIsIdle]_vars

\* Every active job comes to rest: it is delivered, failed, dead-lettered or
\* deleted, whatever wakeups are lost and whichever claimant dies.
ComesToRest ==
  \A j \in Jobs : rows[j].status \in Active ~> rows[j].status \notin Active

\* A repair intent does not stay for ever: the due-time sweep replaces every
\* lost DLQ or reconcile signal.
IntentIsConsumed ==
  \A j \in Jobs : rows[j].dlqPending ~> ~rows[j].dlqPending
=============================================================================
