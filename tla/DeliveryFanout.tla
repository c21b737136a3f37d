-------------------------- MODULE DeliveryFanout --------------------------
(***************************************************************************)
(* The fanout of one committed Activity: the delivery_fanouts row that     *)
(* retains the intent, and the chain of wakeups that walks the audience    *)
(* page by page.                                                           *)
(*                                                                         *)
(* Sources: lib/delivery/fanout-outbox.ts; processFanoutFollowers,         *)
(* processFanoutCommunity, enqueueFollowerEndpointDeliveries of            *)
(* queue-batching.ts; planner.ts; the DLQ redrive of queue.ts.             *)
(*                                                                         *)
(* Audience members are the numbers 1..N, in the order of their ids.  A    *)
(* follower fanout is the instance with the one stage "remote_followers"   *)
(* (a page is then what one invocation may scan), a community fanout the   *)
(* one with all three stages.  A wakeup leaves the queue when it is        *)
(* acknowledged and not before, so two runners can have the same one.  The *)
(* Queue bindings are present: without them nothing is published.          *)
(***************************************************************************)
EXTENDS Integers, Sequences, FiniteSets, FiniteSetsExt, Functions

CONSTANTS
  N,                 \* size of the audience
  Local,             \* members hosted on this server (the author is not one)
  Members, Followers,\* community members, accepted followers at the start
  Stages,            \* the fanout stages, in order
  PageSize,          \* FANOUT_FOLLOWER_PAGE_SIZE, or FANOUT_MAX_FOLLOWERS
  Runners,
  MaxRedrives,       \* MAX_AUTO_DLQ_REDRIVES, 3 in the code
  MaxEvents          \* bound: failures, and changes by other parts of the system

Actors == 1..N

ASSUME FanoutAssumption ==
  /\ N \in Nat /\ {Local, Members, Followers} \subseteq SUBSET Actors
  /\ Stages \in {<<"remote_followers">>,
                 <<"local_members", "remote_members", "remote_followers">>}
  /\ Len(Stages) = 1 => Members = {}     \* a follower fanout has no community
  /\ PageSize \in Nat \ {0}
  /\ {MaxRedrives, MaxEvents} \subseteq Nat

VARIABLES
  activity,    \* whether the activities row exists
  members, followers, blocked,
  fanout,      \* status of the delivery_fanouts row
  served,      \* who has an inbox row, or an endpoint job or a resolution row
  msgs,        \* wakeups on the MAIN queue
  run,         \* what each runner is doing
  replay,      \* the Bun server has started and not yet swept
  events       \* how many failures and outside changes there were

outside == <<activity, members, followers, blocked>>
vars == <<outside, fanout, served, msgs, run, replay, events>>

Active == {"pending", "published"}
Terminal == {"completed", "failed", "discarded"}

\* buildFanoutMessage and the continuations; redrive is autoDlqAttempt.
Wakeup(stage, cursor) == [stage |-> stage, cursor |-> cursor, redrive |-> 0]
Wakeups == [stage : 1..Len(Stages), cursor : 0..N, redrive : 0..MaxRedrives]

Idle == [pc |-> "idle", msg |-> Wakeup(1, 0), page |-> {}, left |-> {}]
At(w, stage) == run[w].pc = stage
Set(w, r) == run' = [run EXCEPT ![w] = r]

Init ==
  /\ activity = TRUE /\ members = Members /\ followers = Followers /\ blocked = {}
  /\ fanout = "pending"     \* committed with the Activity, before any Queue RPC
  /\ served = {} /\ msgs = {} /\ run = [w \in Runners |-> Idle]
  /\ replay = FALSE /\ events = 0

\* setDeliveryFanoutStatus and markRowsPublished write an active row only.
FanoutBecomes(status) == fanout' = IF fanout \in Active THEN status ELSE fanout

-----------------------------------------------------------------------------
(* enqueueDeliveryFanoutJob, enqueuePendingDeliveryFanoutJobs: the wakeup   *)
(* first, the row after it.                                                *)

Republished == fanout = "pending" \/ (replay /\ fanout = "published")

Publish(w) ==
  /\ At(w, "idle") /\ Republished
  /\ msgs' = msgs \cup {Wakeup(1, 0)}
  /\ replay' = FALSE
  /\ Set(w, [Idle EXCEPT !.pc = "publish"])
  /\ UNCHANGED <<outside, fanout, served, events>>

MarkPublished(w) ==
  /\ At(w, "publish")
  /\ FanoutBecomes("published")
  /\ Set(w, Idle)
  /\ UNCHANGED <<outside, served, msgs, replay, events>>

-----------------------------------------------------------------------------
(* processFanoutFollowers, processFanoutCommunity.                         *)

\* A wakeup of a settled fanout is acknowledged ...
DropSettled(w, m) ==
  /\ At(w, "idle") /\ fanout \in Terminal
  /\ msgs' = msgs \ {m}
  /\ UNCHANGED <<outside, fanout, served, run, replay, events>>

\* ... and one of a deleted Activity settles it.
DiscardDeleted(w, m) ==
  /\ At(w, "idle") /\ fanout \notin Terminal /\ ~activity
  /\ FanoutBecomes("discarded")
  /\ msgs' = msgs \ {m}
  /\ UNCHANGED <<outside, served, run, replay, events>>

Audience(stage) == IF stage = "remote_followers" THEN followers ELSE members

\* The rows after the cursor, ordered by id, at most a page of them.
PageAt(m) ==
  LET rest == {a \in Audience(Stages[m.stage]) : a > m.cursor}
  IN {a \in rest : Cardinality({b \in rest : b <= a}) <= PageSize}

\* Local members are served by the first stage, the others by the later ones;
\* planEndpointsFromActorCache drops the recipients the operator has blocked.
Recipients(m, page) ==
  IF Stages[m.stage] = "local_members" THEN page \cap Local
  ELSE (page \ Local) \ blocked

\* The row, the Activity, the page and the plan are read before anything is
\* written.
PlanPage(w, m) ==
  LET page == PageAt(m)
      left == Recipients(m, page)
  IN /\ At(w, "idle") /\ fanout \notin Terminal /\ activity
     /\ Set(w, [pc |-> IF left = {} THEN "next" ELSE "serve",
                msg |-> m, page |-> page, left |-> left])
     /\ UNCHANGED <<outside, fanout, served, msgs, replay, events>>

\* Inbox rows go in one batch; remote recipients one endpoint group at a time
\* (upsertDeliveryJob), and last those without a fresh endpoint in the cache
\* (enqueueDeliveryResolutionJobs).
Serve(w) ==
  /\ At(w, "serve")
  /\ \E group \in SUBSET run[w].left \ {{}} :
       /\ Stages[run[w].msg.stage] = "local_members" => group = run[w].left
       /\ served' = served \cup group
       /\ Set(w, [run[w] EXCEPT !.pc = IF group = run[w].left THEN "next" ELSE "serve",
                                !.left = @ \ group])
  /\ UNCHANGED <<outside, fanout, msgs, replay, events>>

\* Mutant of Last: a page that is not full ends the fanout whatever its stage.
LastOfStage(m, page) == Cardinality(page) < PageSize

Last(m, page) == Cardinality(page) < PageSize /\ m.stage = Len(Stages)

Continuation(m, page) ==
  IF Cardinality(page) = PageSize THEN Wakeup(m.stage, Max(page))
  ELSE Wakeup(m.stage + 1, 0)

\* The continuation is sent, or the intent completed, before the wakeup is
\* acknowledged.
NextPage(w) ==
  LET m == run[w].msg
      page == run[w].page
  IN /\ At(w, "next")
     /\ \/ Last(m, page) /\ FanoutBecomes("completed") /\ UNCHANGED msgs
        \/ /\ ~Last(m, page)
           /\ msgs' = msgs \cup {Continuation(m, page)}
           /\ UNCHANGED fanout
     /\ Set(w, [Idle EXCEPT !.pc = "ack", !.msg = m])
     /\ UNCHANGED <<outside, served, replay, events>>

Ack(w) ==
  /\ At(w, "ack")
  /\ msgs' = msgs \ {run[w].msg}
  /\ Set(w, Idle)
  /\ UNCHANGED <<outside, fanout, served, replay, events>>

-----------------------------------------------------------------------------
(* Failures.                                                               *)

Event == events < MaxEvents /\ events' = events + 1

\* An execution ends where it is, by a crash or an exception; its wakeup stays.
Crash(w) ==
  /\ Event /\ ~At(w, "idle")
  /\ Set(w, Idle)
  /\ UNCHANGED <<outside, fanout, served, msgs, replay>>

\* The platform moves a wakeup to the DLQ, and handleAutoDeadLetteredMessage
\* sends it back from the same position or, its redrives spent, gives it up.
Redrive(m) ==
  /\ Event /\ m.redrive < MaxRedrives
  /\ msgs' = (msgs \ {m}) \cup {[m EXCEPT !.redrive = @ + 1]}
  /\ UNCHANGED <<outside, fanout, served, run, replay>>

\* Mutant of Abandoned: the row of a given-up wakeup is left as it is.
AbandonedSilently == UNCHANGED fanout

Abandoned == FanoutBecomes("failed")

GiveUp(m) ==
  /\ Event /\ m.redrive >= MaxRedrives
  /\ msgs' = msgs \ {m}
  /\ Abandoned
  /\ UNCHANGED <<outside, served, run, replay>>

\* The Bun server restarts: its queue is process memory.
Restart ==
  /\ Event
  /\ msgs' = {} /\ run' = [w \in Runners |-> Idle]
  /\ replay' = TRUE
  /\ UNCHANGED <<outside, fanout, served>>

-----------------------------------------------------------------------------
(* What other parts of the system change.                                  *)

\* activityDeleteCascadeStatements: one batch.
DeleteActivity ==
  /\ Event /\ activity
  /\ activity' = FALSE /\ fanout' = "none" /\ served' = {}
  /\ UNCHANGED <<members, followers, blocked, msgs, run, replay>>

\* Membership and follow are rows of their own, removed in batches of their own.
Leave(a) ==
  /\ Event /\ a \in members
  /\ members' = members \ {a}
  /\ UNCHANGED <<activity, followers, blocked, fanout, served, msgs, run, replay>>

Unfollow(a) ==
  /\ Event /\ a \in followers
  /\ followers' = followers \ {a}
  /\ UNCHANGED <<activity, members, blocked, fanout, served, msgs, run, replay>>

Block(a) ==
  /\ Event /\ a \notin Local \cup blocked
  /\ blocked' = blocked \cup {a}
  /\ UNCHANGED <<activity, members, followers, fanout, served, msgs, run, replay>>

\* purgeTerminalDeliveryFanoutJobs: 30 days later nothing of it is in flight.
PurgeTerminal ==
  /\ Event /\ fanout \in Terminal
  /\ msgs = {} /\ \A w \in Runners : At(w, "idle")
  /\ fanout' = "none"
  /\ UNCHANGED <<outside, served, msgs, run, replay>>

-----------------------------------------------------------------------------
Proceed(w) == MarkPublished(w) \/ Serve(w) \/ NextPage(w) \/ Ack(w)
Receive(w, m) == DropSettled(w, m) \/ DiscardDeleted(w, m) \/ PlanPage(w, m)

Next ==
  \/ \E w \in Runners : Publish(w) \/ Proceed(w) \/ Crash(w) \/ \E m \in msgs : Receive(w, m)
  \/ \E m \in msgs : Redrive(m) \/ GiveUp(m)
  \/ Restart \/ DeleteActivity \/ PurgeTerminal
  \/ \E a \in Actors : Leave(a) \/ Unfollow(a) \/ Block(a)

\* Executions run on, the queue goes on offering what it has, and the outbox is
\* swept with every request, batch and timer.
Spec ==
  /\ Init /\ [][Next]_vars
  /\ \A w \in Runners : WF_vars(Proceed(w))
  /\ WF_vars(\E w \in Runners, m \in msgs : Receive(w, m))
  /\ SF_vars(\E w \in Runners : Publish(w))

-----------------------------------------------------------------------------
(* Properties.                                                             *)

\* Types; no position beyond the last stage is ever queued.
TypeOK ==
  /\ fanout \in Active \cup Terminal \cup {"none"}
  /\ msgs \subseteq Wakeups
  /\ served \subseteq Actors
  /\ \A w \in Runners : run[w].left \subseteq run[w].page

\* A fanout is completed only when everybody who stayed in its audience was
\* served, however its pages were replayed, redriven, cut off by a crash or ended
\* exactly at a page boundary.  A local follower reads the Activity where it is.
CompletedServedAll ==
  fanout = "completed" =>
    \A a \in members \cup followers : a \in served \cup blocked \cup (Local \ members)

\* The intent does not outlive its wakeups: a fanout is settled in the end, though
\* executions crash, the server restarts without its queue, or the platform
\* gives a wakeup up.
FanoutSettles == fanout \in Active ~> fanout \notin Active
=============================================================================
