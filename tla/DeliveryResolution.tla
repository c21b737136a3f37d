------------------------ MODULE DeliveryResolution ------------------------
(***************************************************************************)
(* The resolution of recipients whose inbox is not known, for one Activity *)
(* and remote recipients who share an inbox: the delivery_resolutions      *)
(* outbox, its claims, and the endpoint jobs a resolution materialises.    *)
(*                                                                         *)
(* Sources: lib/delivery/resolution-outbox.ts; processResolveActor of      *)
(* queue-batching.ts; upsertDeliveryJob and enqueueResolveForEndpointActors*)
(* of queue.ts; the tombstone fences of migrations 0028 and 0029.          *)
(*                                                                         *)
(* The processing token of a claim is the runner that drew it: a runner    *)
(* has one execution at a time.  A wakeup leaves the queue when it is      *)
(* acknowledged and not before, so two runners can have the same one.      *)
(***************************************************************************)
EXTENDS Integers, FiniteSets

CONSTANTS
  Recipients,        \* recipients to resolve
  CoRecipients,      \* recipients of the same inbox that a fanout page planned
  Runners, Nobody,
  MaxResolve,        \* MAX_RESOLVE_ATTEMPTS, 8 in the code
  MaxEvents          \* bound: failures, and changes by other parts of the system

ASSUME ResolutionAssumption ==
  /\ MaxResolve \in Nat \ {0} /\ MaxEvents \in Nat /\ Nobody \notin Runners
  /\ Recipients \cap CoRecipients = {}

VARIABLES
  activity,    \* whether the activities row exists
  blocked,
  gone,        \* remote_actor_tombstones
  cache,       \* actor_cache of each recipient
  rows,        \* delivery_resolutions of each recipient
  job,         \* delivery_endpoint_recipients of the job for the shared inbox
  msgs,        \* resolve_actor wakeups on the MAIN queue
  run,         \* what each runner is doing
  expiring,    \* an invalidation of the inbox has not expired the cache rows yet
  events       \* how many failures and outside changes there were

outside == <<activity, blocked, gone>>
vars == <<outside, cache, rows, job, msgs, run, expiring, events>>

Terminal == {"resolved", "failed", "discarded"}
Settled == Terminal \cup {"none"}

Row == [status : {"pending", "queued", "processing", "retry_wait"} \cup Settled,
        attempts : 0..MaxResolve,
        owner : Runners \cup {Nobody},     \* processing_token
        late : BOOLEAN]  \* retry_wait: it is due; queued, processing: it is stale

RowOf(status, attempts) ==
  [status |-> status, attempts |-> attempts, owner |-> Nobody, late |-> FALSE]
NoRow == RowOf("none", 0)

\* buildResolveActorMessage.
Wakeup(r, attempts) == [to |-> r, attempts |-> attempts]

Idle == [pc |-> "idle", msg |-> [to |-> Nobody, attempts |-> 0], held |-> {},
         managed |-> FALSE, seen |-> 0, outcome |-> "none"]
At(w, stage) == run[w].pc = stage
To(w) == run[w].msg.to
Set(w, r) == run' = [run EXCEPT ![w] = r]
Acknowledge(w) == Set(w, [Idle EXCEPT !.pc = "ack", !.msg = run[w].msg])

\* The intents are persisted before any Queue RPC.
Init ==
  /\ activity = TRUE /\ blocked = {} /\ gone = {}
  /\ cache \in [Recipients -> {"absent", "fresh"}]
  /\ rows = [r \in Recipients |-> RowOf("pending", 0)]
  /\ job = CoRecipients /\ msgs = {} /\ run = [w \in Runners |-> Idle]
  /\ expiring = FALSE /\ events = 0

-----------------------------------------------------------------------------
(* Shared writes.                                                          *)

\* Mutant of Upserted: the batch without the recipient fence.
UpsertedUnfenced(rs) == job \cup rs

\* upsertDeliveryJob: the trigger of migration 0029 strips a tombstoned
\* recipient, and a job that stands for nobody is deleted in the same batch.
Upserted(rs) == job \cup (rs \ gone)

\* persistDeliveryResolutionJobs: insert or ignore; the trigger of 0028 removes
\* the row of a tombstoned recipient.
Persisted(rs) == [r \in Recipients |->
  IF r \in rs \ gone /\ rows[r].status = "none" THEN RowOf("pending", 0) ELSE rows[r]]

Due(row) == row.status = "pending" \/ (row.status = "retry_wait" /\ row.late)

\* The UPDATE of sendRows, after sendBatch.
Queued(row) == IF row.status \in {"pending", "retry_wait"}
                 THEN RowOf("queued", row.attempts) ELSE row

-----------------------------------------------------------------------------
(* enqueuePendingDeliveryResolutionJobs, and the request path, which does  *)
(* the same for its own rows.                                              *)

\* Mutant of Reset: a row that was claimed is not recovered.
ResetQueued(row) ==
  IF row.status = "queued" /\ row.late THEN RowOf("pending", row.attempts) ELSE row

Reset(row) ==
  IF row.status \in {"queued", "processing"} /\ row.late
    THEN RowOf("pending", row.attempts) ELSE row

Sweep(w) ==
  LET fresh == [r \in Recipients |-> Reset(rows[r])]
      due == {r \in Recipients : Due(fresh[r])}
  IN /\ At(w, "idle") /\ due # {}
     /\ rows' = fresh
     /\ msgs' = msgs \cup {Wakeup(r, fresh[r].attempts) : r \in due}
     /\ Set(w, [Idle EXCEPT !.pc = "mark", !.held = due])
     /\ UNCHANGED <<outside, cache, job, expiring, events>>

MarkQueued(w) ==
  /\ At(w, "mark")
  /\ rows' = [r \in Recipients |-> IF r \in run[w].held THEN Queued(rows[r]) ELSE rows[r]]
  /\ Set(w, Idle)
  /\ UNCHANGED <<outside, cache, job, msgs, expiring, events>>

-----------------------------------------------------------------------------
(* claimDeliveryResolutionJob.                                             *)

\* A wakeup for a settled row is acknowledged.  A row that is not due leaves its
\* wakeup on the queue (message.retry), and nothing else changes.
Drop(w, m) ==
  /\ At(w, "idle") /\ rows[m.to].status \in Terminal
  /\ msgs' = msgs \ {m}
  /\ UNCHANGED <<outside, cache, rows, job, run, expiring, events>>

\* Without a row the wakeup is handled on its own ("missing").
ReadRow(w, m) ==
  LET row == rows[m.to] IN
  /\ At(w, "idle") /\ row.status \notin Terminal
  /\ row.status = "retry_wait" => row.late
  /\ Set(w, [Idle EXCEPT !.pc = IF row.status = "none" THEN "check" ELSE "claim",
                         !.msg = m, !.seen = row.attempts])
  /\ UNCHANGED <<outside, cache, rows, job, msgs, expiring, events>>

Claimable(row) ==
  \/ row.status \in {"pending", "queued"}
  \/ row.status \in {"retry_wait", "processing"} /\ row.late

Claim(w) ==
  /\ At(w, "claim") /\ Claimable(rows[To(w)])
  /\ rows' = [rows EXCEPT ![To(w)] = [status |-> "processing", attempts |-> @.attempts,
                                      owner |-> w, late |-> FALSE]]
  /\ Set(w, [run[w] EXCEPT !.pc = "check", !.managed = TRUE])
  /\ UNCHANGED <<outside, cache, job, msgs, expiring, events>>

\* "busy": the wakeup stays on the queue.
ClaimLost(w) ==
  /\ At(w, "claim") /\ ~Claimable(rows[To(w)])
  /\ Set(w, Idle)
  /\ UNCHANGED <<outside, cache, rows, job, msgs, expiring, events>>

-----------------------------------------------------------------------------
(* processResolveActor.                                                    *)

Withdrawn(r) == ~activity \/ r \in gone \/ r \in blocked

Finishing(w, outcome) == [run[w] EXCEPT !.pc = "finish", !.seen = 0, !.outcome = outcome]

\* The Activity, the tombstone, the blocklist and the cache are read before any
\* remote request.
CheckRecipient(w) ==
  /\ At(w, "check")
  /\ Set(w, IF Withdrawn(To(w)) THEN Finishing(w, "discarded")
            ELSE [run[w] EXCEPT !.pc = IF cache[To(w)] \in {"fresh", "none"}
                                         THEN "upsert" ELSE "fetch"])
  /\ UNCHANGED <<outside, cache, rows, job, msgs, expiring, events>>

\* Mutant of Owned: the write is fenced by the status of the row only.
OwnedByStatus(w) == run[w].managed /\ rows[To(w)].status = "processing"

\* The fence of complete, retry and defer: the row still has this claim's token.
Owned(w) == run[w].managed /\ rows[To(w)].owner = w

Event == events < MaxEvents /\ events' = events + 1

\* The blocklist cannot be read: deferDeliveryResolutionJob charges no attempt.
\* Without a row the exception returns the wakeup to the queue.
Defer(w) ==
  /\ At(w, "check") /\ Event
  /\ rows' = IF Owned(w) THEN [rows EXCEPT ![To(w)] = RowOf("retry_wait", @.attempts)]
             ELSE rows
  /\ IF run[w].managed /\ ~Owned(w) THEN Acknowledge(w) ELSE Set(w, Idle)
  /\ UNCHANGED <<outside, cache, job, msgs, expiring>>

\* fetchAndCacheRemoteActor: an inbox, or a document without a usable one.
FetchActor(w) ==
  /\ At(w, "fetch")
  /\ \E found \in {"fresh", "none"} : cache' = [cache EXCEPT ![To(w)] = found]
  /\ Set(w, [run[w] EXCEPT !.pc = "upsert"])
  /\ UNCHANGED <<outside, rows, job, msgs, expiring, events>>

\* retryDeliveryResolutionJob, from the attempts that the claim read.
FailedFetch(attempts) ==
  RowOf(IF attempts + 1 >= MaxResolve THEN "failed" ELSE "retry_wait", attempts + 1)

\* The request failed.  A wakeup whose row waits stays on the queue.
FetchFails(w) ==
  LET failed == FailedFetch(run[w].seen)
  IN /\ At(w, "fetch") /\ Owned(w)
     /\ rows' = [rows EXCEPT ![To(w)] = failed]
     /\ IF failed.status = "failed" THEN Acknowledge(w) ELSE Set(w, Idle)
     /\ UNCHANGED <<outside, cache, job, msgs, expiring, events>>

\* A claim that was taken over, and a wakeup without a row, which has its own count.
FetchFailsUnowned(w) ==
  LET attempts == run[w].msg.attempts + 1
  IN /\ At(w, "fetch") /\ ~Owned(w)
     /\ msgs' = IF run[w].managed \/ attempts > MaxResolve THEN msgs
                ELSE msgs \cup {Wakeup(To(w), attempts)}
     /\ Acknowledge(w)
     /\ UNCHANGED <<outside, cache, rows, job, expiring, events>>

\* The cache is read again after the fetch; a row that was expired meanwhile
\* still has its inbox.
UpsertJob(w) ==
  LET found == cache[To(w)] \in {"fresh", "stale"}
  IN /\ At(w, "upsert")
     /\ job' = IF found THEN Upserted({To(w)}) ELSE job
     /\ Set(w, Finishing(w, IF found /\ job' # {} THEN "resolved" ELSE "discarded"))
     /\ UNCHANGED <<outside, cache, rows, msgs, expiring, events>>

\* completeDeliveryResolutionJob, after the wakeup of the job was sent.
Finish(w) ==
  /\ At(w, "finish")
  /\ rows' = IF Owned(w) THEN [rows EXCEPT ![To(w)] = RowOf(run[w].outcome, @.attempts)]
             ELSE rows
  /\ Acknowledge(w)
  /\ UNCHANGED <<outside, cache, job, msgs, expiring, events>>

Ack(w) ==
  /\ At(w, "ack")
  /\ msgs' = msgs \ {run[w].msg}
  /\ Set(w, Idle)
  /\ UNCHANGED <<outside, cache, rows, job, expiring, events>>

-----------------------------------------------------------------------------
(* Failures, time, and what other parts of the system change.              *)

\* An execution ends where it is, by a crash or an exception; its wakeup stays.
Crash(w) ==
  /\ Event /\ ~At(w, "idle")
  /\ Set(w, Idle)
  /\ UNCHANGED <<outside, cache, rows, job, msgs, expiring>>

\* A Bun restart, or a wakeup whose redrives are spent.
LoseWakeups ==
  /\ Event /\ msgs # {}
  /\ msgs' = {}
  /\ UNCHANGED <<outside, cache, rows, job, run, expiring>>

\* next_attempt_at or the two-minute staleness threshold passes.
Later(r) == rows' = [rows EXCEPT ![r] = [@ EXCEPT !.late = TRUE]]

\* An execution is at work on the claim it drew on r.
Held(r) == \E w \in Runners : run[w].managed /\ To(w) = r /\ rows[r].owner = w

BecomeLate(r) ==
  /\ rows[r].status \in {"queued", "processing", "retry_wait"} /\ ~rows[r].late
  /\ ~Held(r)
  /\ Later(r)
  /\ UNCHANGED <<outside, cache, job, msgs, run, expiring, events>>

\* A claimant is slower than that.  Its only long wait is a fetch with a timeout
\* of 8 seconds, so that this is a stall of the execution.
Stall(r) ==
  /\ Event /\ Held(r) /\ ~rows[r].late
  /\ Later(r)
  /\ UNCHANGED <<outside, cache, job, msgs, run, expiring>>

\* A fanout page that was planned earlier is written now.
LatePage(r) ==
  /\ Event
  /\ \/ rows' = Persisted({r}) /\ UNCHANGED job
     \/ job' = Upserted({r}) /\ UNCHANGED rows
  /\ UNCHANGED <<outside, cache, msgs, run, expiring>>

\* activityDeleteCascadeStatements: one batch.
DeleteActivity ==
  /\ Event /\ activity
  /\ activity' = FALSE
  /\ rows' = [r \in Recipients |-> NoRow] /\ job' = {}
  /\ UNCHANGED <<blocked, gone, cache, msgs, run, expiring>>

\* The delivery part of the batch that handles a verified Delete of an actor.
Tombstone(r) ==
  /\ Event /\ r \notin gone
  /\ gone' = gone \cup {r}
  /\ cache' = [x \in Recipients |-> IF x = r THEN "absent" ELSE cache[x]]
  /\ rows' = [x \in Recipients |-> IF x = r THEN NoRow ELSE rows[x]]
  /\ job' = job \ {r}
  /\ UNCHANGED <<activity, blocked, msgs, run, expiring>>

Block(r) ==
  /\ Event /\ r \notin blocked
  /\ blocked' = blocked \cup {r}
  /\ UNCHANGED <<activity, gone, cache, rows, job, msgs, run, expiring>>

Cached == {r \in Recipients : cache[r] \in {"fresh", "stale"}}

\* A POST of the job got 404 or 410.  enqueueResolveForEndpointActors reopens the
\* resolution of the actors cached at that inbox and sends their wakeups ...
RejectInbox ==
  LET due == {r \in Cached \ (blocked \cup gone) : rows[r].status \in Settled \/ Due(rows[r])}
      attempts(r) == IF rows[r].status \in Settled THEN 0 ELSE rows[r].attempts
  IN /\ Event /\ activity /\ job # {} /\ due # {}
     /\ rows' = [r \in Recipients |-> IF r \in due THEN RowOf("queued", attempts(r))
                                      ELSE rows[r]]
     /\ msgs' = msgs \cup {Wakeup(r, attempts(r)) : r \in due}
     /\ expiring' = TRUE
     /\ UNCHANGED <<outside, cache, job, run>>

\* ... and the cache rows are expired after that.
ExpireCache ==
  /\ expiring
  /\ expiring' = FALSE
  /\ cache' = [r \in Recipients |-> IF r \in Cached THEN "stale" ELSE cache[r]]
  /\ UNCHANGED <<outside, rows, job, msgs, run, events>>

-----------------------------------------------------------------------------
Proceed(w) ==
  \/ MarkQueued(w) \/ Claim(w) \/ ClaimLost(w) \/ CheckRecipient(w) \/ FetchActor(w)
  \/ FetchFails(w) \/ FetchFailsUnowned(w) \/ UpsertJob(w) \/ Finish(w) \/ Ack(w)

Receive(w, m) == Drop(w, m) \/ ReadRow(w, m)

Next ==
  \/ \E w \in Runners : Sweep(w) \/ Proceed(w) \/ Defer(w) \/ Crash(w)
  \/ \E w \in Runners, m \in msgs : Receive(w, m)
  \/ \E r \in Recipients : BecomeLate(r) \/ Stall(r) \/ LatePage(r) \/ Block(r)
  \/ \E r \in Recipients \cup CoRecipients : Tombstone(r)
  \/ LoseWakeups \/ DeleteActivity \/ RejectInbox \/ ExpireCache

\* Executions run on, time passes, the queue goes on offering the wakeups it has,
\* and the outbox is swept with every request, batch and timer.
Fairness ==
  /\ \A w \in Runners : WF_vars(Proceed(w))
  /\ \A r \in Recipients :
       /\ WF_vars(BecomeLate(r))
       /\ SF_vars(\E w \in Runners, m \in msgs : m.to = r /\ Receive(w, m))
  /\ SF_vars(\E w \in Runners : Sweep(w))

Spec == Init /\ [][Next]_vars /\ Fairness

-----------------------------------------------------------------------------
(* Properties.                                                             *)

\* Types; a row has a token exactly while it is being processed.
TypeOK ==
  /\ rows \in [Recipients -> Row]
  /\ \A r \in Recipients : rows[r].status = "processing" <=> rows[r].owner # Nobody
  /\ job \subseteq Recipients \cup CoRecipients

\* A tombstoned recipient has no delivery work, whichever of the Delete batch, a
\* fanout page planned before it and a resolution claimed before it comes last,
\* and a co-recipient of the same inbox keeps the job.
NoWorkForTombstoned ==
  \A r \in gone : r \notin job /\ (r \in Recipients => rows[r].status = "none")

\* A resolution is settled as resolved only when the endpoint job stands for its
\* recipient: claims that expired, resets and replays do not settle it early.
ResolvedHasJob == \A r \in Recipients : rows[r].status = "resolved" => r \in job

=============================================================================
