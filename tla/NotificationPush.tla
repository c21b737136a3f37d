-------------------------- MODULE NotificationPush --------------------------
(***************************************************************************)
(* One notification of one account (Owner), its push job, and the          *)
(* subscriptions (pushers) it is sent to (lib/notification-push.ts,        *)
(* routes/notification-pushers.ts, routes/notifications.ts, lib/web-push/  *)
(* send.ts).  The inbox row creates the job (a trigger).  A sweep puts the *)
(* job on the queue; a worker claims it with a token, fixes the pushers it *)
(* is for, sends to one after the other and refreshes its lease before     *)
(* each; whoever finds the job stale takes it over.                        *)
(*                                                                         *)
(* updated_at is used as a compare-and-swap stamp: Worker.fresh says that  *)
(* the row is the one the worker read, and age stands for the time since.  *)
(***************************************************************************)
EXTENDS Naturals, FiniteSets

CONSTANTS
  Keys,         \* pushkeys: subscriptions of browsers or devices
  Workers,      \* bound: queue consumers at work
  MaxAttempts,  \* MAX_NOTIFICATION_PUSH_ATTEMPTS (5)
  MaxRegs,      \* bound: registrations of a behaviour
  MaxTries      \* deliveries of a message before it is a dead letter

VARIABLES
  job,          \* the row of notification_push_jobs
  age,          \* 0, 1: past STALE_PROCESSING_MS, 2: past the in-flight bound
  due,          \* next_attempt_at has passed
  tries,        \* deliveries of the message on the queue; Nothing: none there
  sweep,        \* the sweep has sent the job and not marked it
  row,          \* [Keys -> registration or NoRow]
  login,        \* [Accounts -> number of the current session]
  regs,         \* registrations made
  work          \* [Workers -> worker]

pusherVars == <<row, login, regs>>
vars == <<job, age, due, tries, sweep, row, login, regs, work>>

Owner == "owner"
Accounts == {Owner, "other"}
NoRow == [by |-> "none", id |-> 0, session |-> 0, early |-> FALSE]
Active == {"pending", "queued", "processing", "retry_wait"}
Job(st, n, pend) ==
  [status |-> st, attempts |-> n, pending |-> pend, token |-> "none"]
NoJob == Job("none", 0, {})
Idle == [pc |-> "idle", fresh |-> FALSE, rows |-> {}, at |-> "none",
         settled |-> {}, retry |-> {}]

(* The pushers of a job are ids of registrations; {0}: not fixed yet.      *)
NotFixed == {0}
Nothing == MaxTries + 1
OnQueue == tries # Nothing
Init ==
  /\ job = Job("new", 0, NotFixed) /\ age = 0 /\ due = TRUE
  /\ tries = Nothing /\ sweep = FALSE
  /\ row = [k \in Keys |-> NoRow] /\ login = [a \in Accounts |-> 1] /\ regs = 0
  /\ work = [w \in Workers |-> Idle]

(* Every write of the job row renews updated_at: no one else's stamp holds.*)
Touched(except) ==
  [v \in Workers |-> IF v = except THEN work[v]
                     ELSE [work[v] EXCEPT !.fresh = FALSE]]

-----------------------------------------------------------------------------
(* The notification.  Whether it may still be pushed (unread, not archived,*)
(* not of a muted or blocked actor: Eligible) changes with the requests of *)
(* the reader; the worker that asks gets either answer.                    *)

(* An unread inbox row gets exactly one job (a trigger).                   *)
Notify ==
  /\ job.status = "new"
  /\ job' = [job EXCEPT !.status = "pending"]
  /\ UNCHANGED <<age, due, tries, sweep, pusherVars, work>>

(* cleanupArchivedNotifications removes the inbox row, and with it the job *)
(* unless a worker has it (a trigger).                                     *)
Cleanup ==
  /\ job.status \in Active \ {"processing"}
  /\ job' = NoJob /\ age' = 0 /\ due' = TRUE /\ work' = Touched("none")
  /\ UNCHANGED <<tries, sweep, pusherVars>>

-----------------------------------------------------------------------------
(* Subscriptions.                                                          *)

(* POST /pushers: an upsert on the pushkey.  Another account's row is      *)
(* taken over with a new id; the account's own row keeps its id.           *)
Register(a, k) ==
  LET same == row[k].by = a IN
  /\ regs < MaxRegs
  /\ regs' = regs + 1
  /\ row' = [row EXCEPT ![k] =
       [by |-> a, id |-> IF same THEN row[k].id ELSE regs + 1,
        session |-> login[a],
        early |-> IF same THEN row[k].early ELSE job.status = "new"]]
  /\ UNCHANGED <<job, age, due, tries, sweep, login, work>>

(* DELETE /pushers.                                                        *)
Unregister(a, k) ==
  /\ row[k].by = a
  /\ row' = [row EXCEPT ![k] = NoRow]
  /\ UNCHANGED <<job, age, due, tries, sweep, login, regs, work>>

(* Rows that no one has renewed for ninety days expire; registrations over *)
(* the quota of an account push out the oldest the same way.               *)
Expire(k) ==
  /\ row[k] # NoRow
  /\ row' = [row EXCEPT ![k] = NoRow]
  /\ UNCHANGED <<job, age, due, tries, sweep, login, regs, work>>

(* pusherSessionIsLive.                                                    *)
SessionLive(p) == p.by \in Accounts /\ p.session = login[p.by]

(* POST /logout removes the rows of the session, if that succeeds, and the *)
(* session; the account's next one is another.                             *)
Logout(a, cleaned) ==
  LET mine == {k \in Keys : row[k].by = a /\ SessionLive(row[k])} IN
  /\ mine # {}
  /\ login' = [login EXCEPT ![a] = @ + 1]
  /\ row' = [k \in Keys |-> IF cleaned /\ k \in mine THEN NoRow ELSE row[k]]
  /\ UNCHANGED <<job, age, due, tries, sweep, regs, work>>

-----------------------------------------------------------------------------
(* The sweep, the queue and the clock.                                     *)

HasPusher == \E k \in Keys : row[k].by = Owner

(* Mutant of Reclaimed: a reclaim costs no attempt.                        *)
ReclaimedFree(j) ==
  [Job("pending", j.attempts, j.pending) EXCEPT !.token = "none"]
(* One attempt is spent; the budget ends the job.                          *)
Reclaimed(j) ==
  Job(IF j.attempts + 1 >= MaxAttempts THEN "failed" ELSE "pending",
      j.attempts + 1, j.pending)

(* enqueuePendingNotificationPushJobs takes back what is in flight for too *)
(* long ...                                                                *)
Reclaim ==
  /\ job.status \in {"queued", "processing"} /\ age = 2
  /\ job' = Reclaimed(job) /\ age' = 0 /\ work' = Touched("none")
  /\ UNCHANGED <<due, tries, sweep, pusherVars>>

(* ... sends what is due ...                                               *)
SweepSend ==
  /\ ~sweep /\ job.status \in {"pending", "retry_wait"} /\ due /\ HasPusher
  /\ sweep' = TRUE /\ tries' = 0
  /\ UNCHANGED <<job, age, due, pusherVars, work>>

(* ... and marks it, unless a worker was quicker.                          *)
SweepMark ==
  /\ sweep /\ sweep' = FALSE
  /\ IF job.status \in {"pending", "retry_wait"}
     THEN /\ job' = [job EXCEPT !.status = "queued", !.token = "none"]
          /\ age' = 0 /\ work' = Touched("none")
     ELSE UNCHANGED <<job, age, work>>
  /\ UNCHANGED <<due, tries, pusherVars>>

(* The queue drops a message, or gives it up to the dead-letter queue,     *)
(* whose consumer resets the job (recoverDeadLetteredNotificationPushJob). *)
MessageLost ==
  /\ OnQueue /\ tries' = Nothing
  /\ UNCHANGED <<job, age, due, sweep, pusherVars, work>>

DeadLetter ==
  /\ tries = MaxTries /\ tries' = Nothing
  /\ IF job.status \in Active
     THEN job' = Reclaimed(job) /\ age' = 0 /\ due' = TRUE
          /\ work' = Touched("none")
     ELSE UNCHANGED <<job, age, due, work>>
  /\ UNCHANGED <<sweep, pusherVars>>

Ages ==
  /\ job.status \in {"queued", "processing"} /\ age < 2 /\ age' = age + 1
  /\ UNCHANGED <<job, due, tries, sweep, pusherVars, work>>

Due ==
  /\ ~due /\ due' = TRUE
  /\ UNCHANGED <<job, age, tries, sweep, pusherVars, work>>

(* Rows of finished jobs are removed after ninety days.                    *)
Purge ==
  /\ job.status \in {"delivered", "failed"}
  /\ job' = NoJob /\ work' = Touched("none")
  /\ UNCHANGED <<age, due, tries, sweep, pusherVars>>

-----------------------------------------------------------------------------
(* The worker: processNotificationPushJob.                                 *)

To(w, rec) == work' = [work EXCEPT ![w] = rec]
Ack == tries' = Nothing

(* The message is taken and the job read; it is acknowledged when the job  *)
(* is over, and put back while another worker is at it.                    *)
Receive(w) ==
  /\ work[w].pc = "idle" /\ tries < MaxTries
  /\ IF job.status \in Active
     THEN /\ tries' = tries + 1
          /\ IF job.status = "processing" /\ age = 0
             THEN UNCHANGED work
             ELSE To(w, [Idle EXCEPT !.pc = "claim", !.fresh = TRUE])
     ELSE Ack /\ UNCHANGED work
  /\ UNCHANGED <<job, age, due, sweep, pusherVars>>

(* The row is still the one that was read; a stale owner's job is first    *)
(* set back to queued.                                                     *)
Claim(w) ==
  /\ work[w].pc = "claim"
  /\ IF work[w].fresh /\ due
     THEN /\ job' = [job EXCEPT !.status = "processing", !.token = w]
          /\ age' = 0
          /\ work' = [Touched(w) EXCEPT ![w].pc = "fix"]
     ELSE To(w, Idle) /\ UNCHANGED <<job, age>>
  /\ UNCHANGED <<due, tries, sweep, pusherVars>>

(* Mutant of Leased: whoever processes.                                    *)
LeasedAnyone(w) == job.status = "processing"
(* processingLeaseWhere.                                                   *)
Leased(w) == job.status = "processing" /\ job.token = w

(* finishJob, when the lease is still held.                                *)
Finish(w) ==
  /\ IF Leased(w) THEN job' = Job("delivered", job.attempts, {}) ELSE UNCHANGED job
  /\ work' = [Touched("none") EXCEPT ![w] = Idle]
  /\ Ack

(* The pushers are fixed once: the owner's that were there before the job. *)
Fix(w, eligible) ==
  LET ids == IF job.pending # NotFixed THEN job.pending
             ELSE {row[k].id : k \in {x \in Keys : row[x].by = Owner /\ row[x].early}}
  IN
  /\ work[w].pc = "fix"
  /\ IF ~eligible \/ (Leased(w) /\ ids = {})
     THEN Finish(w) /\ UNCHANGED age
     ELSE IF Leased(w)
     THEN /\ job' = [job EXCEPT !.pending = ids] /\ age' = 0
          /\ To(w, [work[w] EXCEPT !.pc = "load"])
          /\ UNCHANGED tries
     ELSE To(w, Idle) /\ Ack /\ UNCHANGED <<job, age>>
  /\ UNCHANGED <<due, sweep, pusherVars>>

(* The rows to send to; a pusher that is gone is settled.                  *)
Load(w) ==
  LET rows == {k \in Keys : row[k].by = Owner /\ row[k].id \in job.pending} IN
  /\ work[w].pc = "load"
  /\ IF rows = {} THEN Finish(w)
     ELSE /\ To(w, [work[w] EXCEPT
               !.pc = "send", !.rows = {<<k, row[k]>> : k \in rows},
               !.settled = job.pending \ {row[k].id : k \in rows}])
          /\ UNCHANGED <<job, tries>>
  /\ UNCHANGED <<age, due, sweep, pusherVars>>

(* refreshProcessingLease before each pusher; without it the rest is left. *)
Refresh(w, k) ==
  LET mine == {x \in work[w].rows : x[1] = k} IN
  /\ work[w].pc = "send" /\ mine # {}
  /\ IF Leased(w)
     THEN /\ age' = 0
          /\ To(w, [work[w] EXCEPT !.pc = "sending", !.at = k])
          /\ UNCHANGED tries
     ELSE To(w, Idle) /\ Ack /\ UNCHANGED age
  /\ UNCHANGED <<job, due, sweep, pusherVars>>

(* deletePusherRow: the very row that was loaded.                          *)
RemoveRow(k, p) == IF row[k] = p THEN [row EXCEPT ![k] = NoRow] ELSE row

(* What the push service of a browser may answer (classifyWebPushResponse),*)
(* and what a gateway may say of a pushkey: without a proper answer it is  *)
(* tried again, and so is a key the gateway names as retryable and nowhere *)
(* else.                                                                   *)
WebPushAnswers == {"delivered", "gone", "retry", "failed"}
GatewayAnswers == {"delivered", "gone", "retry", "failed"}

(* deliverWebPushPusher, deliverGatewayGroup: the session has ended or the *)
(* answer is gone: the row goes; delivered or failed: the pusher is        *)
(* settled.                                                                *)
Outcome(w, res) ==
  LET x == CHOOSE y \in work[w].rows : y[1] = work[w].at
      end == IF SessionLive(x[2]) THEN res ELSE "gone"
      next == [work[w] EXCEPT !.pc = "send", !.rows = @ \ {x}]
  IN
  /\ work[w].pc = "sending"
  /\ row' = IF end = "gone" THEN RemoveRow(x[1], x[2]) ELSE row
  /\ To(w, IF end = "retry" THEN [next EXCEPT !.retry = @ \union {x[2].id}]
           ELSE [next EXCEPT !.settled = @ \union {x[2].id}])
  /\ UNCHANGED <<job, age, due, tries, sweep, login, regs>>

(* A failed attempt: the job waits, or is given up; the message comes back.*)
GiveBack(w, pend) ==
  LET n == job.attempts + 1 IN
  /\ IF Leased(w)
     THEN /\ job' = Job(IF n >= MaxAttempts THEN "failed" ELSE "retry_wait",
                        n, pend)
          /\ due' = FALSE
          /\ IF n >= MaxAttempts THEN Ack ELSE UNCHANGED tries
     ELSE Ack /\ UNCHANGED <<job, due>>
  /\ work' = [Touched("none") EXCEPT ![w] = Idle]

Conclude(w) ==
  /\ work[w].pc = "send" /\ work[w].rows = {}
  /\ IF work[w].retry = {} THEN Finish(w) /\ UNCHANGED due
     ELSE GiveBack(w, work[w].retry)
  /\ UNCHANGED <<age, sweep, pusherVars>>

(* An exception: what is settled is taken off the list.                    *)
Throw(w) ==
  /\ work[w].pc \in {"fix", "load", "send"}
  /\ GiveBack(w, job.pending \ work[w].settled)
  /\ UNCHANGED <<age, sweep, pusherVars>>

(* The worker dies; the queue delivers the message again.                  *)
Dies(w) ==
  /\ work[w].pc # "idle"
  /\ To(w, Idle)
  /\ UNCHANGED <<job, age, due, tries, sweep, pusherVars>>

-----------------------------------------------------------------------------
Work(w) ==
  \/ Receive(w) \/ Claim(w) \/ Load(w) \/ Conclude(w)
  \/ \E eligible \in BOOLEAN : Fix(w, eligible)
  \/ \E k \in Keys : Refresh(w, k)
  \/ \E res \in WebPushAnswers \union GatewayAnswers : Outcome(w, res)

Next ==
  \/ Notify \/ Cleanup
  \/ \E a \in Accounts, k \in Keys : Register(a, k) \/ Unregister(a, k)
  \/ \E k \in Keys : Expire(k)
  \/ \E a \in Accounts, cleaned \in BOOLEAN : Logout(a, cleaned)
  \/ Reclaim \/ SweepSend \/ SweepMark \/ MessageLost \/ DeadLetter \/ Ages
  \/ Due \/ Purge
  \/ \E w \in Workers : Work(w) \/ Throw(w) \/ Dies(w)

(* The sweep runs every minute, time passes, and a worker that does not    *)
(* die goes on; that messages arrive is not assumed.                       *)
Fairness ==
  /\ WF_vars(Reclaim) /\ WF_vars(SweepSend) /\ WF_vars(SweepMark)
  /\ WF_vars(DeadLetter) /\ WF_vars(Ages) /\ WF_vars(Due)
  /\ \A w \in Workers : WF_vars(Work(w))

Spec == Init /\ [][Next]_vars

TypeOK ==
  /\ job.status \in Active \union {"new", "none", "delivered", "failed"}
  /\ job.attempts \in 0..MaxAttempts /\ age \in 0..2
  /\ tries \in 0..Nothing
  /\ regs \in 0..MaxRegs
  /\ \A w \in Workers : work[w].at \in Keys \union {"none"}

(* A worker that was overtaken cannot undo what its successor settled: the *)
(* list of pushers a job is still for only shrinks once it is fixed, and   *)
(* a finished job stays finished (processingLeaseWhere).                   *)
SettledStaysSettled ==
  [][/\ job.pending # NotFixed => job'.pending \subseteq job.pending
     /\ job.status \in {"delivered", "failed"} =>
          job'.status \in {job.status, "none"}]_vars

(* A subscription that another login took over while a push was on its way *)
(* is not removed with the row that was loaded for the push.               *)
TakeoverKept ==
  [][\A w \in Workers, k \in Keys :
       work[w].pc = "sending" /\ work'[w].pc = "send" /\ row'[k] # row[k] =>
         <<k, row[k]>> \in work[w].rows]_vars
=============================================================================
