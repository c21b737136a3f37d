-------------------------- MODULE AccountDeletion --------------------------
(***************************************************************************)
(* Deletion of a local account and of the personas it owns, composed with  *)
(* the media it has uploaded.  One batch reserves every target; a worker   *)
(* that holds the lease of the operation by token tears the targets down   *)
(* one after the other, and one last batch tombstones them all             *)
(* (routes/account-deletion-lifecycle.ts, routes/account-teardown.ts,      *)
(* lib/account-deletion-admission.ts and the triggers of migration 0031).  *)
(*                                                                         *)
(* Every write of a worker is one guarded batch: assertion, payload,       *)
(* assertion (db/guarded-writes.ts).  Calls to object storage are outside  *)
(* any batch, so a worker that lost its lease may still make one.          *)
(***************************************************************************)
EXTENDS MediaLifecycle

CONSTANTS
  Workers,    \* requests and retention runs that execute a deletion
  Peers,      \* remote followers
  MaxTokens   \* bound: worker tokens minted for the operation

ASSUME DeletionAssumption == MaxTokens \in Nat \ {0}

VARIABLES
  op,         \* [token, held]: the row of account_deletions; token 0: none
  tokens,     \* tokens minted so far
  worker,     \* [Workers -> [pc, token, at]]
  rows,       \* [Actors -> BOOLEAN]: authored objects and edges remain
  followers,  \* [Actors -> SUBSET Peers]: accepted remote followers
  told        \* [Actors -> SUBSET Peers]: snapshot of the Delete deliveries

workVars == <<op, tokens, worker, rows, followers, told>>
vars == <<mediaVars, actor, target, workVars>>

Idle == [pc |-> "idle", token |-> 0, at |-> Root]
NoOp == [token |-> 0, held |-> FALSE]

Init ==
  /\ MediaInit
  /\ actor = [a \in Actors |-> IF a = Root THEN "live" ELSE "absent"]
  /\ target = [a \in Actors |-> "none"]
  /\ op = NoOp
  /\ tokens = 0
  /\ worker = [w \in Workers |-> Idle]
  /\ rows = [a \in Actors |-> a = Root]
  /\ followers = [a \in Actors |-> {}]
  /\ told = [a \in Actors |-> {}]

Targets == {a \in Actors : target[a] # "none"}
Pending == {a \in Actors : target[a] = "reserved"}
OwnTokens(w) == op.token # 0 /\ op.token = worker[w].token

(* The assertion of a guarded batch: own token, lease not expired.         *)
Authority(w) == OwnTokens(w) /\ op.held

Step(w, pc) == worker' = [worker EXCEPT ![w].pc = pc]

-----------------------------------------------------------------------------
(* Ordinary life, under the admission guard and the reservation triggers.  *)

(* POST /accounts: the insert checks the owner in the same statement.      *)
CreatePersona(a) ==
  /\ a # Root
  /\ actor[a] = "absent"
  /\ Admitted(Root)
  /\ actor' = [actor EXCEPT ![a] = "live"]
  /\ rows' = [rows EXCEPT ![a] = TRUE]
  /\ UNCHANGED <<mediaVars, target, op, tokens, worker, followers, told>>

(* A session of the actor writes a post, an interaction, a membership.     *)
WriteRows(a) ==
  /\ Admitted(a)
  /\ rows' = [rows EXCEPT ![a] = TRUE]
  /\ UNCHANGED <<mediaVars, actor, target, op, tokens, worker, followers,
                 told>>

(* Remote Follow and Undo: the triggers freeze the edges of a target.      *)
FollowEdge(a, p) ==
  /\ actor[a] = "live"
  /\ target[a] = "none"
  /\ followers' = [followers EXCEPT ![a] =
                     IF p \in @ THEN @ \ {p} ELSE @ \union {p}]
  /\ UNCHANGED <<mediaVars, actor, target, op, tokens, worker, rows, told>>

-----------------------------------------------------------------------------
(* The operation.                                                          *)

Start(w) ==
  /\ tokens' = tokens + 1
  /\ op' = [token |-> tokens + 1, held |-> TRUE]
  /\ worker' = [worker EXCEPT ![w] =
                  [pc |-> "next", token |-> tokens + 1, at |-> Root]]

\* Mutant of Reserve: the personas are not part of the plan.
ReserveRootOnly(w) ==
  /\ worker[w].pc = "idle"
  /\ op.token = 0
  /\ actor[Root] = "live"
  /\ tokens < MaxTokens
  /\ target' = [target EXCEPT ![Root] = "reserved"]
  /\ Start(w)
  /\ UNCHANGED <<mediaVars, actor, rows, followers, told>>

(* reserveOperation: the owner with every live actor of its account, or a  *)
(* persona alone.  Targets are unique, so the plans of an owner and of its *)
(* persona exclude each other.                                             *)
Reserve(w) ==
  /\ worker[w].pc = "idle"
  /\ op.token = 0
  /\ tokens < MaxTokens
  /\ \E r \in Actors :
       /\ actor[r] = "live"
       /\ target' = [a \in Actors |->
                       IF actor[a] = "live" /\ r \in {a, Root}
                       THEN "reserved" ELSE target[a]]
  /\ Start(w)
  /\ UNCHANGED <<mediaVars, actor, rows, followers, told>>

(* claimExpiredOperation, from a retried request or from the resumption    *)
(* sweep of retention: compare-and-set on an expired lease.                *)
ClaimExpired(w) ==
  /\ worker[w].pc = "idle"
  /\ op.token # 0
  /\ ~op.held
  /\ tokens < MaxTokens
  /\ Start(w)
  /\ UNCHANGED <<mediaVars, actor, target, rows, followers, told>>

(* Time passes the lease of a worker that does not renew it.               *)
LeaseExpires ==
  /\ op.held
  /\ tokens < MaxTokens
  /\ op' = [op EXCEPT !.held = FALSE]
  /\ UNCHANGED <<mediaVars, actor, target, tokens, worker, rows, followers,
                 told>>

\* Mutant of NextTarget: a resumed operation takes the snapshot for done.
NextTargetResumed(w) ==
  /\ worker[w].pc = "next"
  /\ Authority(w)
  /\ \E a \in Pending :
       /\ \A k \in KeysOf(a) : attempt[k] = "none"
       /\ worker' = [worker EXCEPT ![w].at = a,
            ![w].pc = IF worker[w].token = 1 THEN "snapshot" ELSE "edges"]
  /\ UNCHANGED <<mediaVars, actor, target, op, tokens, rows, followers, told>>

(* runOperation: the next target that is not complete, after a renewal;    *)
(* upload attempts of the actor must have settled and been cleaned.        *)
NextTarget(w) ==
  /\ worker[w].pc = "next"
  /\ Authority(w)
  /\ \E a \in Pending :
       /\ \A k \in KeysOf(a) : attempt[k] = "none"
       /\ worker' = [worker EXCEPT ![w].pc = "snapshot", ![w].at = a]
  /\ UNCHANGED <<mediaVars, actor, target, op, tokens, rows, followers, told>>

(* ensureDeleteFollowerSnapshot: the Delete activity and one delivery job  *)
(* for each follower, durable before any edge is removed.                  *)
Snapshot(w) ==
  /\ worker[w].pc = "snapshot"
  /\ Authority(w)
  /\ LET a == worker[w].at
     IN told' = [told EXCEPT ![a] = @ \union followers[a]]
  /\ Step(w, "edges")
  /\ UNCHANGED <<mediaVars, actor, target, op, tokens, rows, followers>>

(* The follow edges with the counters of their other ends, then blocks,    *)
(* mutes, interactions, notifications, conversations and memberships.      *)
RemoveEdges(w) ==
  /\ worker[w].pc = "edges"
  /\ Authority(w)
  /\ followers' = [followers EXCEPT ![worker[w].at] = {}]
  /\ Step(w, "objects")
  /\ UNCHANGED <<mediaVars, actor, target, op, tokens, rows, told>>

(* The activities but the Delete, the objects and the profile images: the  *)
(* uploader's sources of its keys are gone and leave deletion jobs.        *)
RemoveObjects(w) ==
  /\ worker[w].pc = "objects"
  /\ Authority(w)
  /\ LET a == worker[w].at
         named == {k \in KeysOf(a) : "own" \in source[k]}
     IN /\ rows' = [rows EXCEPT ![a] = FALSE]
        /\ source' = [k \in Keys |->
             IF k \in named THEN source[k] \ {"own"} ELSE source[k]]
        /\ journal' = [k \in Keys |->
             IF k \in named THEN journal[k] \ {"own"} ELSE journal[k]]
        /\ jobs' = jobs \union (named \intersect upload)
  /\ Step(w, "intents")
  /\ UNCHANGED <<attempt, writer, late, blob, upload, life, indexed, claims,
                 cleaning, drain, actor, target, op, tokens, followers, told>>

(* purgeActorMediaUploads: a durable job for every upload of the actor.    *)
MediaIntents(w) ==
  /\ worker[w].pc = "intents"
  /\ Authority(w)
  /\ jobs' = jobs \union (KeysOf(worker[w].at) \intersect upload)
  /\ Step(w, "claim")
  /\ UNCHANGED <<attempt, writer, late, blob, upload, life, source, journal,
                 indexed, claims, cleaning, drain, actor, target, op, tokens,
                 rows, followers, told>>

(* All of them must be claimed, under the marker of the operation, and the *)
(* lease renewed, before storage is touched.                               *)
MediaClaim(w) ==
  /\ worker[w].pc = "claim"
  /\ Authority(w)
  /\ LET mine == KeysOf(worker[w].at) \intersect (jobs \union upload)
         won == {k \in mine : Claimable(k)}
     IN /\ \A k \in mine \ won : Claimed(k)
        /\ claims' = claims \union won
        /\ upload' = upload \ won
  /\ Step(w, "delete")
  /\ UNCHANGED <<attempt, writer, late, blob, life, source, journal, indexed,
                 jobs, cleaning, drain, actor, target, op, tokens, rows,
                 followers, told>>

(* The external call: nothing checks the lease while it is under way.      *)
MediaDelete(w) ==
  /\ worker[w].pc = "delete"
  /\ blob' = blob \ {k \in KeysOf(worker[w].at) : Claimed(k)}
  /\ Step(w, "ack")
  /\ UNCHANGED <<attempt, writer, late, upload, life, source, journal,
                 indexed, jobs, claims, cleaning, drain, actor, target, op,
                 tokens, rows, followers, told>>

MediaAck(w) ==
  /\ worker[w].pc = "ack"
  /\ Authority(w)
  /\ jobs' = jobs \ {k \in KeysOf(worker[w].at) : Claimed(k)}
  /\ Step(w, "mark")
  /\ UNCHANGED <<attempt, writer, late, blob, upload, life, source, journal,
                 indexed, claims, cleaning, drain, actor, target, op, tokens,
                 rows, followers, told>>

(* cascade_complete, which the trigger of 0035 refuses while an upload or  *)
(* a job of the actor remains.                                             *)
MarkComplete(w) ==
  /\ worker[w].pc = "mark"
  /\ Authority(w)
  /\ KeysOf(worker[w].at) \intersect (upload \union jobs) = {}
  /\ target' = [target EXCEPT ![worker[w].at] = "complete"]
  /\ Step(w, "next")
  /\ UNCHANGED <<mediaVars, actor, op, tokens, rows, followers, told>>

(* The last batch: its assertion also proves every target complete and     *)
(* free of uploads, jobs and attempts; the tombstones, the sessions and    *)
(* the plan itself go together.                                            *)
Finalize(w) ==
  /\ worker[w].pc = "next"
  /\ Authority(w)
  /\ Pending = {}
  /\ \A a \in Targets : \A k \in KeysOf(a) :
       attempt[k] = "none" /\ k \notin upload /\ k \notin jobs
  /\ actor' = [a \in Actors |-> IF a \in Targets THEN "deleted" ELSE actor[a]]
  /\ target' = [a \in Actors |-> "none"]
  /\ op' = NoOp
  /\ worker' = [worker EXCEPT ![w] = Idle]
  /\ UNCHANGED <<mediaVars, tokens, rows, followers, told>>

(* A refused batch, an unresolved attempt, a reference that survives or an *)
(* unavailable service: the worker gives its lease up and the plan stays.  *)
Fail(w) ==
  /\ worker[w].pc # "idle"
  /\ OwnTokens(w) => tokens < MaxTokens
  /\ op' = IF OwnTokens(w) THEN [op EXCEPT !.held = FALSE] ELSE op
  /\ worker' = [worker EXCEPT ![w] = Idle]
  /\ UNCHANGED <<mediaVars, actor, target, tokens, rows, followers, told>>

WorkerStep(w) ==
  \/ NextTarget(w) \/ Snapshot(w) \/ RemoveEdges(w) \/ RemoveObjects(w)
  \/ MediaIntents(w) \/ MediaClaim(w) \/ MediaDelete(w) \/ MediaAck(w)
  \/ MarkComplete(w) \/ Finalize(w)

Next ==
  \/ MediaNext /\ UNCHANGED <<actor, target, workVars>>
  \/ \E a \in Actors : \/ CreatePersona(a) \/ WriteRows(a)
                       \/ \E p \in Peers : FollowEdge(a, p)
  \/ \E w \in Workers : Reserve(w) \/ ClaimExpired(w) \/ WorkerStep(w) \/ Fail(w)
  \/ LeaseExpires

Spec == Init /\ [][Next]_vars

-----------------------------------------------------------------------------
TypeOK ==
  /\ MediaTypeOK
  /\ actor \in [Actors -> {"absent", "live", "deleted"}]
  /\ target \in [Actors -> {"none", "reserved", "complete"}]
  /\ op \in [token : 0..MaxTokens, held : BOOLEAN]
  /\ tokens \in 0..MaxTokens
  /\ worker \in [Workers -> [pc : {"idle", "next", "snapshot", "edges",
                                   "objects", "intents", "claim", "delete",
                                   "ack", "mark"},
                             token : 0..MaxTokens, at : Actors]]
  /\ rows \in [Actors -> BOOLEAN]
  /\ followers \in [Actors -> SUBSET Peers]
  /\ told \in [Actors -> SUBSET Peers]

(* A deleted account leaves nothing behind: no persona of the owner is     *)
(* live, and no deleted actor has rows, followers, media rows or bytes,    *)
(* whatever put was under way when it was reserved and whichever workers   *)
(* took part in its deletion.                                              *)
DeletedLeavesNothing ==
  \A a \in Actors : actor[a] = "deleted" =>
    /\ a = Root => \A b \in Actors : actor[b] # "live"
    /\ ~rows[a]
    /\ followers[a] = {}
    /\ \A k \in KeysOf(a) :
         k \notin blob /\ k \notin upload /\ k \notin late

(* A follow edge of a target disappears only after its follower is in the  *)
(* durable snapshot of the Delete, in whichever attempt that happened.     *)
EdgesErasedAfterSnapshot ==
  [][\A a \in Actors :
       target[a] # "none" => followers[a] \ followers'[a] \subseteq told[a]]_vars
=============================================================================
