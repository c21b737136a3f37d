# A TLA+ model of yurucommu-core

yurucommu-core is an ActivityPub community server in TypeScript. One code base
runs on Cloudflare (Workers, D1, Queues, Durable Objects) and on Bun (one
process, SQLite, an in-memory queue). There are no multi-statement transactions
that span an `await`: every request, queue handler and timer is a sequence of
single statements or guarded batches, and everything else in the process, in
other isolates and at federation peers runs in between. That is what these
modules model. Source paths are relative to the repository root; `lib/`,
`routes/`, `runtime/` stand for `src/backend/lib/` and so on.

Contents: [inventory](#inventory) · [modules](#modules-and-how-they-correspond-to-the-code)
· [runs](#runs) · [fairness](#fairness) · [proofs](#proofs) ·
[disagreements found](#disagreements-between-the-code-and-its-comments) ·
[not modelled](#not-modelled-and-why) · [plan](#plan)

## Inventory

### Delivery: what the server sends

| Part | State | Operations | Talks to |
|---|---|---|---|
| Fan-out outbox (`lib/delivery/fanout-outbox.ts`, `queue-batching.ts`) | `delivery_fanouts` | persist with the activity, publish a wakeup, walk the audience in pages and stages, redrive, give up, purge | planner, endpoint jobs, resolution rows |
| Recipient resolution (`resolution-outbox.ts`, `processResolveActor`) | `delivery_resolutions` | persist, send wakeups, claim by token, fetch the actor, retry, defer, complete, sweep | actor cache, endpoint jobs, actor tombstones |
| Endpoint jobs (`queue.ts`, `queue-delivery.ts`) | `delivery_queue`, `delivery_endpoint_recipients` | upsert, claim by token, POST, retry, dead-letter, revive, sweep, purge | gate, peers, DLQ |
| Gate (`circuit.ts`, `Bulkhead` in `queue.ts`) | `delivery_circuit`, two in-process semaphores per host | check, half-open, record; acquire, release | endpoint jobs |

The queue (Cloudflare Queues or the in-process queue of Bun) gives at-least-once
wakeups at best, and on Bun forgets everything at a restart. The database rows
are the authority; messages only say "look at this row".

Hard: two handlers of one wakeup; a claimant that outlives its two-minute
staleness limit; the counter and the status of a failed attempt written in two
statements; wakeups lost after the row was changed, or sent before it was; a
dead letter whose DLQ message is lost; deletion of the activity between the
check and the write; blind read-then-write of the circuit row; a semaphore slot
that is free for one microtask.

Correct means: at most one live claimant of a job; a claimant that lost its
claim writes nothing; a series of attempts ends once and starts again only by
consuming its repair intent; everything published is settled, served to the
whole audience, and withdrawn when the activity or the recipient is gone.

### Inbound: what peers send

| Part | State | Operations | Talks to |
|---|---|---|---|
| Dispatch claim (`routes/activitypub/inbox.ts`) | `activities.processed`, `inbound_activity_claims` | receive, claim with a two-minute lease, commit, release, 202/503 | every handler |
| Update order (`lib/inbound-note-update-order.ts`, `inbound-note-update-projection.ts`) | `inbound_note_update_events`, `inbound_note_update_heads` | admit, load window, fold, guarded commit | Create, Update, Announce |
| Content handlers (`inbox-content-handlers.ts`) | `objects`, `inbox`, `inbound_object_deletions` | Create, Update, Delete, fetch of an announced Note | cascade, notifications |
| Interaction handlers (`inbox-interaction-handlers.ts`) | `announces`, `likes`, counters | Announce, Like, Undo | objects |
| Operator purge (`routes/moderation.ts`, `lib/blocklist-purge.ts`) | blocklist rows, purge cursors | block, purge objects and activities | all of the above |
| Actor lifecycle (`handlers/`, `lib/activitypub-actor-cache.ts`) | `actor_cache`, `remote_actor_tombstones` | Delete(actor), Move, refresh | delivery, follows |

Hard: an Update before its Create, a Delete during either, a fetch of the same
Note by an Announce; a failure between the projection and its notification; a
202 to the loser of a claim whose owner dies; guards that refuse for ever; a
purge that runs through all of it.

Correct means: a deleted Note stays deleted; an acknowledged Update is never
lost and Updates apply once, in the order of admission; a Create that is done
has notified; an acknowledged activity has been dispatched; retries end.

### What local accounts do

| Part | State | Hard part | What makes it correct |
|---|---|---|---|
| Local account deletion (`routes/account-deletion-lifecycle.ts`, `routes/account-teardown.ts`, `lib/account-deletion-admission.ts`, migration 0031) | reservation of the owner and its personas, renewable lease, targets | a worker outlives its lease inside the teardown; uploads under way | nothing of a deleted account is left; followers are told before their edges go |
| Uploads and media (`routes/media.ts`, `lib/media-upload-lifecycle.ts`, `lib/staged-media-retention.ts`, `lib/media-deletion-claims.ts`, migrations 0034, 0035) | attempts, staged lifetimes, journal of references, jobs, claims | a put that comes late; a reference during deletion | no referenced byte is deleted, none is left without an owner |
| File store (`runtime/bun.ts`) | generations, lease files, a marker | two processes on one directory; death between two system calls | what the marker names is whole; nothing in use is reclaimed |
| Follows and remote actors (`routes/follow.ts`, `lib/follow-edge-mutations.ts`, `inbox-follow-handlers.ts`, `lib/activitypub-actor-cache.ts`, `lib/account-migration.ts`) | edges, counters, blocks, cache, tombstones, failure leases | the edge read before the batch; a fetch that ends after Delete(actor) | counters cover edges; no tombstoned actor is cached |
| Communities (`routes/communities`) | members, roles, count, bans, invites, messages | role read before the batch; teardown of an account | count equals rows; an invite admits one; messages change only by who may |
| Posts, likes, stories (`routes/posts`, `routes/stories`) | objects, edges, counters | batch after the object has gone; two deleters of one story | no edge outlives its object; recomputed counters are exact |
| Direct messages, receipts (`routes/dm`, `lib/talk-read-receipts.ts`, `lib/talk-peer-archives.ts`) | messages, read modes, archives, requests | scope resolved before the batch; membership left and joined again | receipts belong to their membership; a late write stays in its scope |
| Notification push (`lib/notification-push.ts`) | job, pushers, lease | overtaken worker; subscription that changes hands | a settled job stays settled, a new owner keeps the subscription, jobs settle |
| Notification list (`routes/notifications.ts`) | inbox rows, archive markers | cleanup in two statements; a cursor over rows with equal times | archived stays archived; a walk misses nothing |
| Calls (`runtime/call-hub-core.ts`, `runtime/call-relay*.ts`, `rtc-client.ts`) | hub calls, rows, relay journal | glare; lost and late signals; an id used again | hubs agree how far a call is; a result ends only its own call |
| Realtime and tickets (`runtime/realtime-stream.ts`, `runtime/one-time-ticket.ts`, `realtime-client.ts`) | numbered events, ring buffer, tickets, sockets | reconnection at the edge of the buffer | who was told to have caught up has everything |
| Authentication (`routes/auth*.ts`, `lib/auth-lockout.ts`) | actors, sessions, states, lockout | first logins that race; a handle freed and taken again | one owner; a session is of the identity that signed in |
| Read gate and surfaces (`lib/post-visibility.ts`, `lib/community-visibility.ts`, every route that lists) | none of their own | the rule is repeated in some twenty queries; the gate reads table after table | no surface shows what the gate refuses; no reply to what its author may not read |

Besides: retention (`retention.ts`, sweeps of the above), the schema with its
guarded batches and triggers, signatures, SSRF checks, documents, middleware,
adapters and the API client.

`PROJECT.json` lists all 28 components with what each module covers, and every
hazard at the line where it bites.

## Modules and how they correspond to the code

`PROJECT.json` maps each definition to the lines it stands for. A definition
whose comment begins with "Mutant" is not part of a specification: it is the
plausible bug that shows a property can fail.

Conventions. A step between two `await`s is one action. A statement with a
`WHERE` fence, and a batch with an assertion, are one action with two outcomes.
Wall-clock time is replaced by flags that a separate action raises: `due`
(`next_attempt_at` is past), `stale` (older than the two-minute limit), `age`
(retention), `elapsed` (circuit window), `live` (lease), `late`.

### `DeliveryEndpoint` (abstract specification `DeliveryLedger`)

A function from job ids to `delivery_queue` rows, the two queues as sets of
messages, and any number of executions of `processDeliverEndpoint`. The queues
are sets because a wakeup may come again, late or never; receiving a message
keeps or removes it. The pc of an execution is the `await` it is at: `admitted`
(waiting for the bulkhead with the generation it read), `claimed`, `posting`,
`accepted` / `rejected` / `refused`, `counted` (after
`incrementDeliveryAttempts`, before the status is written), `signal` and
`wakeup` (the row is written, the message not yet sent). `lapsed` is history:
the execution's claim timed out or its row went away. Deferred wakeups (not
due, live claimant, open circuit) leave the queue as it was and are stuttering
steps. `Crash` is a handler that throws or an isolate that dies: its message
may come again; `BookkeepingFails` is the write after an accepted POST failing.
The staging-only shadow probe is left out.

`DeliveryLedger` is what the queue promises of one job: a series of attempts
that is opened, spent and ended once; a given-up series is either final or
parked with one repair intent; only the consumption of the intent opens the next
series. The refinement maps statuses to ledger states (`LedgerState`), the
reconcile generation to the series and the attempt counter to what was spent.

### `DeliveryGate`

One endpoint's circuit row, with loads and blind writes as separate steps, and
the global and per-host semaphores. The microtask queue is modelled as the
sequence `ready`, because whether a woken waiter or a newcomer takes the slot
depends on its order. The attempt itself is any of success, failure, or an end
without a record. `failures` is held at the threshold, beyond which nothing
tells values apart.

### `DeliveryFanout`

One `delivery_fanouts` row and the wakeups that walk its audience. Members are
numbers in the order of their ids; a community fan-out has the stages local
members, remote members, remote followers, and a follower fan-out is the
instance with one stage. `served` stands for the inbox rows, endpoint jobs and
resolution rows that serving creates. Outside changes (a member leaves, unfollows, is
blocked, the activity is deleted) interleave with the pages.

### `DeliveryResolution`

Rows for recipients without a known inbox who share one, the endpoint job that
stands for them (with a co-recipient a fan-out page planned), the claim token
(the runner that drew it), tombstones and the triggers that fence them, the
404/410 path that reopens resolutions and later expires the cache.

`DeliveryFanout` → `DeliveryResolution` → `DeliveryEndpoint` → `DeliveryGate`
is the order in which work flows. Each module keeps only the rows its handlers
write; what the previous one hands over is an action of the next one
(`UpsertDeliveryJob`, `LatePage`, `Admit`).

### `InboundNote`

One remote Note: its Create, Updates and Delete by the author, and an Announce
by somebody else that may fetch it. A delivery is one HTTP request that the
peer repeats until it is answered 2xx; `Twice` are activities sent to two
inboxes of this instance. The pc of a delivery is the `await` its handler is
at, and `before`, `applied`, `latest`, `creation` are the snapshot it took
there (`loadInboundNoteUpdateWindow`, `readNoteProjection`). `CommitProjection`
is the guarded batch over exactly that snapshot. `since` is history: the
sequence the retained Note was inserted after.

Abstractions: the Note is public and mentions a local actor; an Update edits
content and is accepted or refused by policy; the signature, rate limit and
tombstone gates are in front of the model; every activity resolves one
recipient, so the 422 of an undeliverable one does not arise; counters and media
are left out; the reads that decide what to make of a conflict are one step.

### `AccountDeletion`, `MediaLifecycle`

`MediaLifecycle` is the state of each r2 key: the upload attempt announced
before the put, the metadata row and staged lifetime after it, the rows that
name the key (`source`) and the journal the triggers of migration 0034 keep of
them (`journal`), deletion jobs and permanent claims. `LatePut` is a put whose
writer gave up or died. `Legacy` keys were stored before the journal existed:
nothing may claim them before the backfill.

`AccountDeletion` extends it with the operation row (token and lease), workers
at each `await` of `runOperation`, and what the teardown removes: rows, follower
edges after the snapshot of who must be told, media. Every write of a worker is
a guarded batch (`Authority`); calls to the object store are outside of any, so
a worker that lost its lease may still make one. `Actors` are an owner and its
personas; an ordinary write is admitted only while neither is reserved.

### `ObjectStorage`

The object store of the Bun adapter for one key, one system call per step: a
write assembles a body and a metadata file under a lease file and publishes them
by renaming the marker; readers take leases; whoever finishes last, in any
process on the directory, reclaims superseded generations, and so does the scan
of a process that starts. `Die` ends a process anywhere, leaving leases that are
provably dead or unknown. `MediaLifecycle` sees only what this store promises: a
put or a delete happens once, perhaps late.

### `FollowGraph`, `ActorCache`

`ActorCache`: cached actors, tombstones, the row of failed fetches with the lease
that lets one request recover an actor. `FollowGraph` extends it with the edges
between local and remote actors, both counters, personal and operator blocks,
Delete(actor) and Move. A handler is one or more reads followed by one batch;
`req[r].seen` is what it read. `UnfollowCounts` and its like keep apart what a
batch decides from the read and what it decides inside the statement.

### `Communities`

One community with local members, a remote member (a follow edge), one invite,
one message. `Slot.seen` is the role a request has read, which also picks the
statement it will run. The teardown of an account's membership (with the heir of
a sole owner) is here too.

### `Posts`

A Note, a reply and a story with likes, reposts, bookmarks, story rows,
counters and the activities stored for the Note (`log`). `Guarded` is
`guardObjectWrites`; the routes that do not use it are modelled without it. The
edit is one of them (see the disagreements).

### `DirectMessages`

The conversations of one account with a local peer, a remote peer and a
community chat. A time in `epoch` is the membership the receipts belong to;
`mode` is the exact mode of a scope, `lastRead` the timestamp mode. `Shared`
says that both peers have one historical conversation id, which is what makes
archives and receipts ambiguous (`Ambiguous`).

### `NotificationPush`

The job of one notification, from the trigger that inserts it to its end.
`updated_at` is the compare-and-swap stamp (`fresh`), `age` the time since. `row`
are subscriptions, which the same browser may register for another account while a
worker that read them is sending. `MCJobs` puts it beside `DeliveryFanout`, with
which it shares no state: in its run the fanout stays as it began.

### `CallSignaling`, `CallRelay`

`CallSignaling`: two hubs with their calls map and rows, one tab each, POSTs
between the hubs that are sent, held, answered, lost or late, frames that are
queued. `Low` is the impolite side of glare. The awaits inside a handler are
steps of their own where others may come in between: a tab that dials
(`dialling`, from the look at `this.call` to the answer of `POST /api/rtc/calls`,
`Placed`), and a hub that fetches ICE servers (`provisions`: an invite is not in
the map before, `InviteReady`; a ring is broadcast after, whatever has become of
the call, `RingReady`). `CallRelay`: the same signals for a hub that runs as an
Actor and must not wait inside a turn: effects in a journal, jobs at the
dispatcher, callbacks, deadlines, generations of one call id. A frame or a signal
that finds no room in the journal ends the call. The hub has a state
`connected` that nothing sets (`markConnected` has no caller), so that for it a
call connects until it ends.

### `Realtime`

The numbered events of one user, the ring buffer, tickets and their limit, and a
browser that connects, drops, says hello with the last event it has and fetches
on resync. What came before an event that reached the browser on a socket
which was gone before `hello_ok` is recorded in `skipped`: the next hello does not
ask for it (see the disagreements).

### `Sessions`

Actors by handle with a generation for each identity, sessions and cookies,
OAuth states, lockout record, and requests at each `await` of login, callback,
switch, add and logout. Verdicts of passwords, tokens and id tokens are inputs;
the grant of an id token is parsed as the code does (`Granted`, `IsAppOwner`).

### `Visibility`, `NotificationList`

`Visibility`: one stored object (post, post in a room, chat message, story, any
visibility and addressing), the relations between a local and a remote account,
the operator's list and a room. `MayRead` is the canonical gate; each surface is
an operator of its own with the clauses of its query. For a reply of the remote
account the gate runs read by read (`ReadOperator`, `ReadRoom`, ...) and its
receipt is asserted by the batch that stores the reply.
`NotificationList`: inbox rows with creation times that may be equal, archive
markers, the cleanup in several workers, and a walk through the pages by cursor.

### Runs of several parts

`MCGuards`, `MCAccounts`, `MCSocial`, `MCAccess` and `MCTalk` put
parts side by side that share no state. A behaviour is one of the part it begins
with; the others have no state or stay in their initial one, so the states of a
run are the sum of its parts, not their product. The properties of such a module
name the part they are about. Symmetry, where used, is a group of permutations
under which every part is symmetric. In `MCSocial` a part also begins
in use (a community with a member and a message, accounts that follow each
other, a Note with likes), states that its requests produce, because the number
of requests in a behaviour is bounded.

## Runs

| Run | Instance | What it shows |
|---|---|---|
| `endpoint` | 1 job, 2 executions, 3 tokens, 2 attempts, 1 generation, 1 fault; 630 000 states | claims exclude each other, a lost claim writes nothing, dead letters keep exactly one repair intent, attempts stay within the budget plus the faults, and the rows refine the ledger |
| `endpoint_live` | 1 execution, 2 tokens, 2 faults, no symmetry | every job comes to rest and every repair intent is consumed, whatever wakeups are lost |
| `guards` | gate: 3 workers, limits 2 and 1, threshold 2, window 3, 2 probes; resolution: 1 recipient and 1 co-recipient, 2 runners, 2 attempts, 2 events; 135 000 states | no slot leaks or is minted and the counters stay in range (`GateAccounts`); an open circuit reopens and every waiter gets in (`GateOpens`); no work for a tombstoned recipient; a resolved row has its job (`ResolutionSound`); every row settles (`RecipientsSettle`) |
| `fanout` | 2 members (one local, one remote who also follows), 3 stages, page size 2, 2 runners, 1 redrive, 2 events; 560 000 states | a completed fan-out has served its audience (`FanoutComplete`); every fan-out settles |
| `notes` | Create, 2 Updates (one refused), Delete, queue of 1; 470 000 states | the Delete wins; Updates apply once, in order, and none is lost; the mention is notified |
| `inbound_faults` | Create to two inboxes and an Announce that fetches; 1 crash, 1 fault (handler error, outlived lease or purge) | acknowledged means dispatched as long as nobody died; retries end |
| `inbound_crash` | Create, 1 Update, 1 crash | violation: acknowledged and never dispatched (see the disagreements) |
| `push` | 1 subscription, 2 workers, 2 attempts, 2 registrations, 2 deliveries of the message; 410 000 states | an overtaken worker neither revives a settled job nor removes a subscription that changed hands (`OvertakenHarmless`); the job settles (`JobSettles`) |
| `accounts` | owner and persona, one legacy and one new upload, 2 workers, 2 tokens; store: 2 requests in 1 or 2 processes, 1 fault; 1.6 million states | nothing of a deleted account is left; edges go after the snapshot; bytes and rows go together (`BlobsAccounted`); published generations are whole and leases respected (`StoreIntact`) |
| `social` | talks: 2 peers with one thread id, 2 messages, 2 requests; community: 3 accounts, 1 peer, 3 requests; follows: 2 local and 2 remote actors, 3 requests; posts: 2 accounts, 3 requests; 780 000 states | `TalksSound`, `RoomsSound`, `GraphSound`, `BoardSound` (counters and edges match their objects, stored activities the Note, receipts their membership), and a late write does only what it may do when it commits (`WritesInScope`) |
| `access` | 1 object, 1 room, 2 accounts; 2 browsers, 3 requests, 2 identities; 2 notifications, 2 workers; 1.3 million states | surfaces are as strict as the gate; one owner and right identities; archived stays away and walks are complete; replies only to what is readable |
| `talk` | 1 call per side, 2 POSTs, 1 fault; 3 effects, 2 generations; 4 events with a buffer of 2; 1.3 million states | hubs agree (`CallsAgree`); results stay with their generation (`RelayIsOwn`); a greeted browser has every event but those it skipped (`CaughtUp`) |

Why these bounds are enough to be interesting. Two executions are what a race
needs, and a third token is what a row claimed a second time needs. Two attempts
give a first failure, a last one and a revival; one generation gives a revival
and a final dead letter. `MaxFaults` and `MaxEvents` bound how many unusual
things happen in one behaviour (crashes, stalls, lost queues, outside changes);
each kind still occurs at every point, and two of them together in `fanout` and
`guards`. In `talk` a call that is timed out is one of them, so that the run has
no timer beside a lost POST; `CallsDoAgree` is proved for any number of both.
Page size 2 over 2 members makes a page end exactly at the end of its audience,
with an empty continuation after it. `MaxPending = 1` with two Updates makes the
queue overflow. The limits of the gate are below the number of workers, so that
both semaphores have waiters. Two worker tokens are a lease and its takeover; a
legacy key and a new one are the two kinds of media the claim must tell apart.
Three requests let two race and a third observe or prepare (promote, tombstone,
delete). A buffer of 2 under 4 events makes a reconnection fall inside, at the
edge of and outside the window. Two rows and pages of one make a cursor stand
between rows of the same time; no row arrives in the middle of a walk of several
pages, which a third row would need, but `ListSteady` is proved for any number
of rows. `inbound_faults` sends no Update, because a Create that arrives twice,
an Announce and an Update with faults are beyond TLC's reach; the Updates of
`notes` meet no fault. In `access` the one subject is allowed but not pinned as
owner and the server has a single owner: the configuration in which first logins
race.

Runs other than the endpoint's have `CHECK_DEADLOCK FALSE`: requests of a
behaviour are bounded, a settled row has nothing left to do, and peers whose
deliveries are all acknowledged are silent.

No run with a liveness property uses symmetry.

## Fairness

Nothing assumes that a message arrives. What is assumed:

- `DeliveryEndpoint!Fairness`: an execution that began runs on (the POST has a
  timeout of eight seconds); the sweep runs again and again
  (`enqueuePendingDeliveryEndpointJobs` after mutating requests and at most
  every minute otherwise in `index.ts`, from `retention.ts` on the cron, from
  the reconciler of `server.ts` on Bun) and finds old rows; a wakeup that keeps
  being there is received (strong fairness, because the sweep puts it there
  again after each loss); time passes. A claim, a deletion, a loss or a crash
  is never required.
- `DeliveryGate!Spec`: executions run on and the circuit window elapses. New
  deliveries are never required.
- `DeliveryFanout!Spec`, `DeliveryResolution!Spec`: executions run on, the
  queue keeps offering what it has, and the outbox is swept; strong fairness on
  sweeping because a runner is not always idle.
- `MCGuards!MCFairness`: the fairness of gate and resolution, joined action
  by action. As a behaviour belongs to one part, at most one of two joined actions
  is ever enabled, and each is treated as in its own module.
- `NotificationPush!Fairness` (`MCJobs!PushSpec`): the sweep runs again and again (cron, or the
  reconciler on Bun), a worker that began goes on, leases age, retry times come,
  dead letters are handled. That a message arrives, or that a worker does not die,
  is not assumed.
- `InboundNote!FairSpec`: weak fairness of each delivery's steps: the peer
  repeats what was not answered 2xx, and the server runs what it accepted. The
  expiry of leases is not assumed: the loser of a claim is acknowledged, so no
  delivery waits for a lease.

## Proofs

TLAPS proves the following for every value of the constants that satisfies the
modules' named assumptions: sets of jobs, executions, tokens, accounts, actors,
keys, Updates, deliveries and requests of any size, and every value of every bound.
The assumptions, and why the code justifies them:

- `DeliveryAssumption`, `InboundAssumption`, `ResolutionAssumption`,
  `DeletionAssumption`, `MediaAssumption`: limits are numbers, model values
  differ from one another, each key has one uploader.
- `FanoutAssumption`: the stages are those of `queue-batching.ts` (a community
  fan-out walks members before followers, a follower fan-out has no community
  and so no members); the audience is finite.
- `GateAssumption`: finitely many executions, and every limit is at least one
  (they are positive constants of `circuit.ts` and `queue.ts`).
- `TalkAssumption`, `SocialAssumption`: the id of a community chat is not the
  id of a peer; finitely many local and remote actors, none of them both; the
  initial states name an owner, two further accounts and a peer.
- `VisibilityAssumption`, `AccessAssumption`: the two accounts differ, and the
  words for a visitor and for no room or another server's audience name neither;
  a subject (`provider:id`) is none of the other names a session may be of; the
  lockout limit and the page size are positive.
- `CallAssumption`, `RelayAssumption`, `StreamAssumption`: the two actors differ;
  limits are numbers, finitely many relay effects; at least one ticket may be out.
- `PushAssumption`, `StoreAssumption`: the token of no worker is that of a free
  row, and a job may be tried at least once; a scan is not a request, and neither
  is called what marks a lease of the dead.

Each invariant was checked with TLC, as an invariant of the run it belongs to,
before it was proved. The modules of a run of several parts share no state, so a
part has an invariant of its own, and a step of one part leaves the others as they
were.

`DeliveryEndpointProofs`

- `TypeCorrect` (`TypeOK`): `RowValues`, `RowTicks` and `NewRows` say that what
  each UPDATE makes of a row has the shape of a row, in particular that every
  way out of `processing` clears token and start time; the theorem is one step
  per action on top of them.
- `ClaimFence` (`SingleLiveClaimant`): not inductive by itself. `ClaimInv` adds
  that an execution which holds a claim has a token, that the tokens of different
  executions differ, that a row carries an execution's token only if it is that
  execution's job in the generation it read, and that a holder which has not
  lapsed owns its row: processing, not stale, with the holder's token. Two live
  holders of one job would then share the row's one token. The delicate cases are
  the claim itself (a fresh token, and a row that is stale or not processing, so
  that nobody live held it) and the steps that let a row go (`OwnerLetsGo`).
- `RepairIntentExact` (`RepairIntent`): by the row steps of `RowSteps`.
- `EndpointRefinesLedger` (`RefinesLedger`): initial states map to initial
  states, and each action maps to a ledger step or a stutter of each job; a row
  changes only as `RowChange` says.
- `LateClaimantIsHarmless` (`LostClaimWritesNothing`): from the fence `Owns` of
  every write after the claim.
- `BudgetIsBounded` (`BudgetBounded`): the attempts of a row exceed the limit by
  at most the faults. `BudgetInv` says which rows are at the limit: none that may
  be claimed, and a row in `processing` only while the claimant that counted the
  last attempt has still to book it, or one below while a claimant that was timed
  out may still count its own. A fault pays for the step from there.

`GuardsProofs` (both parts of `MCGuards`)

- `GateIsSound` (`GateAccounts`). `SlotsInv`: the free slots of a semaphore are
  its limit less the executions that hold one, negative when a newcomer took the
  slot of a waiter that was woken. It needs `WaitersInv`: whoever is queued is
  suspended, and is queued once; so a resumed continuation is one execution that
  gains one slot. `CircuitInv` bounds the row and every stale copy of it
  that a blind write may bring back.
- `TombstonedHaveNoWork` (`NoWorkForTombstoned`) and `ResolutionIsSound`
  (`ResolutionSound`): `RowSound` ties `processing` to a claim, `RunnerSound` says
  that a runner about to settle its own claim as resolved has a job that stands
  for the recipient. A claim is drawn by one runner, and a job is withdrawn
  only together with the claims that rely on it (`RowKept`).

`JobProofs` (the two jobs a queue wakes up)

- `FanoutIsComplete` (`FanoutComplete`). `Covered`: everybody before the position
  of a wakeup is served, or left the audience. It is kept because `PageOf` says
  that a page holds everybody after the cursor or is full and holds the least of
  them, and that whoever is no longer in `left` is handled; the audience
  only narrows after the activity is committed (`Narrowing`), so what was covered
  stays covered. `LeastOf`, `MaxOf` and the lemmas about pages are by well-founded
  induction on numbers.
- `OvertakenDoesNoHarm` (`OvertakenHarmless`): `PushInv`. A worker that still has
  the lease has on its hands only what is on the job's list (`PushWorkerSound`),
  so what it writes back only makes the list shorter; one that was overtaken fails
  the guard of each of its updates, and what it found active it may claim only
  while the stamp it read is unchanged. `JobKept` and `RowsKept` say what every
  step leaves of the job and of the rows: the last is the delete of a gone
  subscription, which matches all that was loaded of the row, its session with it.

`InboundNoteProofs`

- `Invariant`: the inductive invariant `Inv`. It says for each handler what its
  position tells about the rows while others run: a Delete past its receipt
  finds the receipt (`DeleteRun`), an Update past its admission is in the queue
  and when it finishes is below the watermark or the Note is not retained
  (`UpdateRun`), nobody is notified of an absent Note (`NoGhost`). `Stable` is
  what a step may do to the rows the other deliveries rely on; `OthersKeep` and
  `Frame` reduce the proof of each action to the delivery that takes it.
- `DeleteWins` (`DeletedIsGone`) and `NoUpdateIsLost` (`DoneUpdateIsApplied`)
  follow from it.
- `TypeCorrect` (`TypeOK`): `TypeInv`, among it that the queue is within its limit
  and the Note was inserted after a sequence that has been applied.
- `EditsInOrder` (`EditsFollowAdmission`): the retained Note carries what `Fold`
  makes of the events from its insertion to the watermark. `Fold` is a recursive
  function; that it exists, that it ends in the events of a longer log and that
  one more event is one more step (`UnfoldingExists` and the lemmas after it) are
  proved by the least number for which they would fail.
- `CreateNotifies` (`CreateHasNotified`): `CreateInv`, that a handler whose
  snapshot saw the Create recorded saw the truth, and that a dispatch of the
  Create about to finish has told or had nothing to tell.
- `AcksAreSafe` (`AckedIsDispatched`): `DispatchInv`, that while no request
  has died the owner of a claim is at work.

All hold with crashes, faults and purges of any number, except where the property
itself speaks of none.

`AccountProofs`

- `BlobsAreAccounted` (`BlobsAccounted`): `KeySound` says of each key how far its
  upload is (`UploadSound`) and that a row has its bytes and no fence, a fenced
  key is named by nothing, and bytes have a row, an attempt or a job. `Lawful` is
  what every step leaves of the media; each action of the lifecycle is one lemma.
- `DeletionIsComplete` (`DeletedLeavesNothing`): `HolderSound` says for the worker
  that holds the operation what is done of its target at each stage; a worker
  that lost its lease holds no current token and its guarded batches do nothing,
  and admission keeps others from adding to a reserved account (`Lawful`).
- `SnapshotComesFirst` (`EdgesErasedAfterSnapshot`): from `HolderSound` at the
  stage `edges`.
- `StoreStaysIntact` (`StoreIntact`): `StoreInv` and `QuietInv`.
  A file may be unlinked when its generation is `Superseded` (no unfinished
  request will publish it, and the marker does not name it) and `Unread` (no
  reader that holds a lease has read it from the marker). `ScanSound` says
  how far a scan has established that at each of its checks, over several system
  calls between which others go on: a file it listed was nobody's, or of a writer
  whose lease it then finds in the list of leases (`ListedSound`); a reader
  that has yet to read the marker will not find a superseded generation there.
  `WriterSound` and `ReaderSound` say the same of a request at each of its steps,
  and a recovery that found no marker has no reader before it. `StoreMoves` is
  what a step of one task may do to what the others rely on (`StoreFrame`), so
  that each action is a lemma about the task that takes it.
  That nothing superseded remains at rest needs `Undisturbed`: as long as nothing
  failed, each superseded file has somebody who `WillLook` at it, namely a request
  whose own scan is still to come, a scan that has the file before it, or the one
  more scan that was asked for meanwhile. A scan that passes a file over does so
  because of a lease, whose owner looks later (`BusyLooks`).

`SocialProofs`

- `TalksAreSound` (`TalksSound`): `TalkInv`, where receipts are of live messages
  and of the mode, for a community the membership, their scope is in
  (`ReceiptSound`), and the intents of a message to a remote peer are its
  revisions in order, ended by its Delete (`RowSound`).
- `RoomsAreSound` (`RoomsSound`): `RoomInv`. The counter equals the rows although
  the statement is picked by a role read earlier, because each statement counts
  the rows it changes; the invite is claimed by one request before the member
  row is written (`InviteSound`).
- `WritesStayInScope` (`WritesInScope`): an action property of messages and rooms,
  from what a request has resolved (`SlotSound`, `SlotFits`) and the `WHERE` of
  its batch.
- `BoardIsRight` (`BoardSound`): `BoardInv`, with `PostsCovered` (an author's
  counter covers the live objects and the story a sweep has removed but not yet
  counted), `EdgesSound` and `RepliesSound`; and `LogInv`, for which an edit that
  waits has read the Note (`EditsRead`).
- `GraphIsRight` (`GraphSound`): `GraphInv`. `EdgesCovered` is about the
  cardinality of sets of edges: lemmas say what severing, raising, erasing
  and moving edges does to every counter at once. `CacheSound` keeps the actor
  cache clear of tombstoned actors, through the leases of failed fetches.

`AccessProofs` (three parts, `AccessInv`)

- `RepliesAreReadable` (`RepliesReadable`): an action property. `AskSound` says at
  each stage of the read gate what its receipt already holds of the object as it
  was read (`FoundTime`, `FoundRoom`, `FoundReader`); at the batch the predicates
  of the receipt carry each of these facts to the tables of that moment
  (`ReceiptHolds`). Nothing is said of the tables between the reads, which is why
  the property is worth having: only the batch makes it true.
- `SurfacesAreSound` (`SurfacesSound`): one lemma per family of surfaces
  (`FeedShows`, `SearchShows`, `StoriesShow`, `PagesShow`, `MediaShows`,
  `OutboxShows`). They need two facts of the state: which combinations of
  audience and room are stored (`ObjectFits`), and that a retired room has no
  members (`RoomEmpty`), which is why a list that asks for a membership row need
  not ask whether the room is still there.
- `LoginSound` (`LoginIsSound`): `LoginInv`. `CallFits` says that a login about to
  open a session for a subject holds an identity which, as long as the handle has
  that generation, is the subject's; generations only grow, so an actor made
  anew under the handle is told apart. One owner: every write that makes a live
  owner is guarded by there being none (`OneOwnerIn`).
- `ListSteady` (`ListIsSteady`): `ListInv`. A cleanup deletes a marker only after
  the row it hid (`CleanSound`), so a marker that is gone has no row
  (`MarkersSound`); a row listed throughout a walk was shown or comes after the
  cursor in the order `(created_at, id)` (`WalkSound`), which lemmas show total
  and transitive, with a last element on every page.

`TalkProofs` (three parts, `TalkInv`)

- `CallsDoAgree` (`CallsAgree`): `CallsInv`. What a step may do to a call of a hub
  is one of five things (`CellStep`: begin, connect, end, take an offer, nothing),
  and the rows only move on (`RowsMoveOn`). The delicate part is a row that is
  over: a second offer would let the called hub ring again, behind the back of a
  caller that is connecting. `OfferedOnce` excludes it: at most one offer of a call
  is under way or waits behind a glare (`Owed`), none once the called side has
  a row, and none before the caller has one or while its tab has yet to say it.
  `ProvisionsFit` says what a handler that waits for ICE servers may still do: an
  invite is of a call that has no row yet, a ring of one that has.
- `RelayStaysOwn` (`RelayIsOwn`): `RelayInv` counts the slots by the jobs that were
  given out and the worker; `OwnResult` is what a turn may end by a result.
- `BrowserCaughtUp` (`CaughtUp`): the property is unconditional: wherever sockets
  dropped, a greeted browser has every event that is not in `skipped`, and only a
  drop between an early event and `hello_ok` puts events there. `StreamInv` says what is under way to a browser
  in each of four situations: without a socket nothing (`Away`), before its hello
  is read new events only (`Unheard`), then what it missed or a resync, its
  `hello_ok`, and the events since (`Heard`), and after that exactly the events
  it has not got (`Greeted`). The buffer is the last `Retain` events (`BufferIs`),
  so that a replay leaves no gap (`GapIs`).

Model-checked only: liveness (`ComesToRest`, `IntentIsConsumed`, `GateOpens`,
`RecipientsSettle`, `FanoutSettles`, `JobSettles`, `DeliveriesEnd`), because
temporal reasoning under fairness needs ENABLED, which this prover does not
support. Every other property of a passing run is the statement of a theorem,
`WalkIsComplete` as a conjunct of `ListIsSteady`.

## Disagreements between the code and its comments

The run `inbound_crash` finds a violation of a sentence of the repository:
`inbox.ts:491` answers 202 to the loser of a claim because "the owner returns 5xx
and releases the claim if its dispatch fails". An owner that dies answers
nothing; its peer's retry inside the lease is that loser, and nothing dispatches
the row again.

Seen while modelling, without a run of their own; the modules follow the code.
The first three were found as counterexamples of TLC in `CallSignaling`,
`Realtime` and `Posts`; `CallsAgree`, `CaughtUp` and `BoardSound` say what holds
there.

- `call-hub-core.ts:403-408` resolves glare so that "Both sides then converge on
  the impolite side's call". `CallClient.startCall` looks at `this.call` before it
  awaits `POST /api/rtc/calls` and assigns it afterwards (`rtc-client.ts:258`,
  `:279`). A call that rings at the polite side in between is forgotten by its tab
  and kept by its hub, which had no call of its own when the offer came and so
  cancels nothing; the impolite hub ignores the offer that follows. Each tab goes
  on calling in a call of its own until a timer ends it.
- `realtime-client.ts:15-18` says that transient failures reconnect and "replay
  the missed gap via `hello{lastEventId}`". An event may be broadcast to the new
  socket before its hello is answered; `onmessage` raises `lastEventId` to it
  (`:247`), and when this socket drops too, the next hello names that event. The
  gap before it is neither replayed nor reported by `resync`. `skipped` is that
  gap.
- `routes/posts/routes.ts:609` says "The edited object and its outbound
  Update/fanout intent are one mutation." The batch does not assert that the row
  is there: after a Delete that committed in between it edits nothing and stores
  the Update, which goes out behind the Delete. Likes, reposts and bookmarks in
  the same directory have the guard (`guardObjectWrites`). Of the stored
  activities it holds that the Create is the first and that there is a Delete
  exactly when the Note is gone (`ActivitiesTell`).
- `queue-batching.ts` says "Never recreate delivery work for a deleted Activity":
  the existence of the activity is read before the actor is fetched and is not
  asserted by the upsert (`DeliveryResolution`).
- `inbox-interaction-handlers.ts:127` says never to retain a relationship to an
  object the instance does not retain: the target is read before the batch and not
  asserted in it (`InboundNote!ReadTarget`).
- `docs/design/delivery-reconciliation.md:6` speaks of an eight-attempt budget.
  The attempt is counted in a statement of its own; an execution that dies before
  the next leaves a stale row at its maximum that is POSTed once more.
  `BudgetBounded` is what holds: one more per such fault.
- `circuit.ts:213` says that the bulkhead bounds the concurrency.
  `Semaphore.release` increments before the woken waiter decrements, so that an
  `acquire` in the microtask between takes the slot too; `GateAccounts` counts the
  limit as negative there.
- `membership-shared.ts:232` closes the race of two owners who leave. A removal
  that read the member before its promotion still runs the statement for members,
  and can remove the last owner (`Communities`).
- `follow.ts:469` says that a pending edge was never counted. The edge is deleted
  whatever it has become since it was read, and an acceptance in between leaves a
  counter one too high; `CountsCover` claims only a lower bound.
- `dm/conversations-helpers.ts:17` says that every recipient of a direct message is
  recorded in `object_recipients`. For a remote peer `dm/messages.ts:785-795`
  writes the Note and the activity only.

## Not modelled, and why

- Cryptography, wire formats, SSRF checks, remote fetching: functions over bytes,
  and I/O. The models start from a verified activity and a fetch that succeeds or
  fails.
- Middleware (cache headers, rate limits, errors) and the adapters, other than
  the file store: modelled through what they guarantee (atomic batches, queues
  that lose and repeat, a process that restarts).
- Rendering, ranking, text search, unread counts and poll tallies; typing
  indicators; SDP and ICE candidates, which are carried and not looked at.
- Delivery: the staging-only shadow probe; the reaper of drained activities.
- Inbound: several recipients of one activity, stories and group Notes of peers,
  Add, Remove, Flag and polls. A domain-wide purge works through many objects with
  a cursor; `InboundNote` has one object, so that what slips behind the cursor
  is not seen (`blocklist-purge.ts:601`).
- The profile that a refresh of a remote actor stores.
- Media: `Visibility!checkMediaAuthorization` is the rule for a file attached to an
  object. Profile images and community icons are attached to none, and their
  branches (`media.ts:479-544`) read only the row that names the file.
- Calls: the writes a Durable Object hub queues behind its answers and the reload
  after one of them fails (`call-signaling-do.ts:292-343`). `Evict` brings a hub
  back with all its map held, because a queue of writes beside every event
  multiplies the states of the two hubs; that a hub may come back some writes
  behind is therefore not examined. One tab per account.
- Communities: a new message is inserted without a guard (`messages.ts:586`), and
  the model inserts it so; no property speaks of it, as nothing in the code
  promises more. `WritesInScope` is about edits and deletes, which are guarded.
- Retention of plain expired rows (states, tickets, caches).

## Plan

The modules the plan named are written, and each safety and action property the
runs check is proved.

To model: the reaper, a purge that scans with a cursor, a second recipient and a
local owner in `InboundNote`.
