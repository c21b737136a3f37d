----------------------------- MODULE ActorCache -----------------------------
(***************************************************************************)
(* The stored documents of remote actors (actor_cache), the tombstones of  *)
(* deleted ones (remote_actor_tombstones), and the record of failed        *)
(* fetches with the lease that lets one request recover an actor           *)
(* (lib/activitypub-actor-cache.ts).                                       *)
(*                                                                         *)
(* A fetch leaves this database for the network; whatever it brings back   *)
(* is written long after its first read.                                   *)
(***************************************************************************)
EXTENDS Naturals, FiniteSets

CONSTANTS
  Remote,     \* remote actors
  Requests    \* bound: the requests of a behaviour, all concurrent

VARIABLES
  cached,     \* SUBSET Remote: rows of actor_cache
  tomb,       \* SUBSET Remote: remote_actor_tombstones
  fail,       \* [Remote -> row]: remote_actor_fetch_failures
  req         \* [Requests -> slot]

cacheVars == <<cached, tomb, fail>>

NoFailure == [kind |-> "none", counted |-> FALSE, due |-> TRUE,
              token |-> "none", leased |-> FALSE]
Slot(pc, x, y, seen) ==
  [pc |-> pc, by |-> x, on |-> y, seen |-> seen, todo |-> {}]
Ended == Slot("ended", "none", "none", "none")

Free(r) == req[r].pc = "new"
Done(r) == req' = [req EXCEPT ![r] = Ended]
Wait(r, pc, x, y, seen) == req' = [req EXCEPT ![r] = Slot(pc, x, y, seen)]

CacheInit ==
  /\ cached = {} /\ tomb = {}
  /\ fail = [p \in Remote |-> NoFailure]
  /\ req = [r \in Requests |-> [Ended EXCEPT !.pc = "new"]]

-----------------------------------------------------------------------------
(* A fetch for a signature, a delivery, a search or an Update.             *)
Refresh(r, p) ==
  /\ Free(r)
  /\ Wait(r, "fetching", "none", p, "none")
  /\ UNCHANGED cacheVars

(* GET an actor that is related to a local one and not cached: an active   *)
(* failure answers, otherwise the caller tries to claim the fetch.         *)
Recover(r, p) ==
  /\ Free(r) /\ p \notin cached
  /\ fail[p].kind # "gone" /\ fail[p].due
  /\ Wait(r, "claiming", "none", p, "none")
  /\ UNCHANGED cacheVars

(* claimRemoteActorFetch: a new row, or one that is due and unleased.      *)
Claimable(p) ==
  \/ fail[p].kind = "none"
  \/ /\ fail[p].kind # "gone" /\ fail[p].due
     /\ fail[p].token = "none" \/ ~fail[p].leased

Claim(r) ==
  LET p == req[r].on IN
  /\ req[r].pc = "claiming"
  /\ \/ /\ Claimable(p)
        /\ fail' = [fail EXCEPT ![p] =
             [fail[p] EXCEPT !.token = r, !.leased = TRUE,
                !.kind = IF @ = "none" THEN "unavailable" ELSE @]]
        /\ Wait(r, "recovering", "none", p, "none")
     \/ ~Claimable(p) /\ Done(r) /\ UNCHANGED fail
  /\ UNCHANGED <<cached, tomb>>

(* The condition of both statements of cacheRemoteActorDocument.           *)
TombstoneAbsent(p) == p \notin tomb

(* fetchAndUpsertActorCache succeeds: the row and the removal of the       *)
(* failure in one batch, each with the tombstone absent.                   *)
Fetching == {"fetching", "recovering", "followFetch"}
CacheDocument(r) ==
  LET p == req[r].on IN
  /\ req[r].pc \in Fetching
  /\ cached' = IF TombstoneAbsent(p) THEN cached \union {p} ELSE cached
  /\ fail' = IF TombstoneAbsent(p) THEN [fail EXCEPT ![p] = NoFailure]
             ELSE fail
  /\ CASE p \in tomb /\ req[r].pc = "recovering" ->
            Wait(r, "failed", "none", p, "gone")
       [] p \notin tomb /\ req[r].pc = "followFetch" ->
            Wait(r, "follow", req[r].by, p, "none")
       [] OTHER -> Done(r)
  /\ UNCHANGED tomb

(* The peer does not answer, answers 410 or sends an invalid document.     *)
FetchFails(r) ==
  LET p == req[r].on IN
  /\ req[r].pc \in Fetching
  /\ IF req[r].pc = "recovering"
     THEN \E k \in {"unavailable", "gone"} : Wait(r, "failed", "none", p, k)
     ELSE Done(r)
  /\ UNCHANGED cacheVars

(* recordRemoteActorFetchFailure: its token still holds, and no concurrent *)
(* fetch has stored the actor.                                             *)
Recordable(r, p) == fail[p].token = r /\ p \notin cached

RecordFailure(r) ==
  LET p == req[r].on IN
  /\ req[r].pc = "failed"
  /\ \/ /\ Recordable(r, p)
        /\ fail' = [fail EXCEPT ![p] =
             [kind |-> req[r].seen, counted |-> TRUE, token |-> "none",
              due |-> req[r].seen = "gone", leased |-> FALSE]]
        /\ Done(r)
     \/ /\ ~Recordable(r, p) /\ p \in cached
        /\ Wait(r, "releasing", "none", p, "none") /\ UNCHANGED fail
     \/ ~Recordable(r, p) /\ p \notin cached /\ Done(r) /\ UNCHANGED fail
  /\ UNCHANGED <<cached, tomb>>

(* The loser of that race drops its own claim.                             *)
ReleaseClaim(r) ==
  LET p == req[r].on IN
  /\ req[r].pc = "releasing"
  /\ fail' = IF fail[p].token = r THEN [fail EXCEPT ![p] = NoFailure] ELSE fail
  /\ Done(r)
  /\ UNCHANGED <<cached, tomb>>

(* Time passes: a lease of 30 s ends, a back-off is over.                  *)
LeaseExpires(p) ==
  /\ fail[p].leased
  /\ fail' = [fail EXCEPT ![p].leased = FALSE]
  /\ UNCHANGED <<cached, tomb, req>>

BackoffPasses(p) ==
  /\ ~fail[p].due
  /\ fail' = [fail EXCEPT ![p].due = TRUE]
  /\ UNCHANGED <<cached, tomb, req>>

(* reapRemoteActorFetchFailures: old rows without a live lease.            *)
ReapFailure(p) ==
  /\ fail[p].kind # "none" /\ ~fail[p].leased
  /\ fail' = [fail EXCEPT ![p] = NoFailure]
  /\ UNCHANGED <<cached, tomb, req>>

(* The share of handleRemoteActorDelete that concerns the cache.           *)
DropActor(p) ==
  /\ tomb' = tomb \union {p}
  /\ cached' = cached \ {p}
  /\ fail' = [fail EXCEPT ![p] = NoFailure]

CacheNext ==
  \/ \E r \in Requests, p \in Remote : Refresh(r, p)
  \/ \E r \in Requests :
       Claim(r) \/ CacheDocument(r) \/ FetchFails(r) \/ RecordFailure(r)
       \/ ReleaseClaim(r)
  \/ \E p \in Remote : LeaseExpires(p) \/ BackoffPasses(p) \/ ReapFailure(p)

-----------------------------------------------------------------------------
CacheTypeOK ==
  /\ cached \subseteq Remote /\ tomb \subseteq Remote
  /\ fail \in [Remote ->
       [kind : {"none", "unavailable", "gone"}, counted : BOOLEAN,
        due : BOOLEAN, token : Requests \union {"none"}, leased : BOOLEAN]]

(* No fetch that was in flight while its actor was deleted brings the      *)
(* actor's document back: "it can never commit between these effects"      *)
(* (inbox-content-handlers.ts:1112).                                       *)
TombstonedNotCached == tomb \intersect cached = {}

(* A recorded failure never stands beside a stored document: a request     *)
(* that lost the race to a successful fetch must not leave the actor       *)
(* refused until the back-off ends (recordRemoteActorFetchFailure).        *)
CachedNotRefused == \A p \in cached : ~fail[p].counted
=============================================================================
