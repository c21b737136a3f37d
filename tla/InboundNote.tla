---------------------------- MODULE InboundNote ----------------------------
(***************************************************************************)
(* One remote Note and the activities peers send about it: its Create, the *)
(* Updates that edit it, its Delete, and an Announce by another actor that *)
(* makes this instance fetch a Note it has never seen.                     *)
(*                                                                         *)
(* Sources: the dispatch claim of routes/activitypub/inbox.ts; handleCreate*)
(* handleUpdate, handleDelete and fetchAndPersistAnnouncedNote of          *)
(* handlers/inbox-content-handlers.ts; handleAnnounce and handleInteraction*)
(* of handlers/inbox-interaction-handlers.ts; the update queue of          *)
(* lib/inbound-note-update-order.ts and commitNoteProjection; the operator *)
(* purge of lib/blocklist-purge.ts.                                        *)
(*                                                                         *)
(* The Note is public and mentions a local actor; an Update is an edit of  *)
(* its content, which current policy may refuse.  A guarded batch is one   *)
(* step: its assertion and its writes commit together or not at all.  Each *)
(* await between two statements is a place where other deliveries run.     *)
(***************************************************************************)
EXTENDS Naturals, Sequences, FiniteSets

CONSTANTS
  Updates,       \* the Update activities
  Refused,       \* Updates that projectAdmittedNotePatch rejects
  Once, Twice,   \* activities sent to one inbox, and to two inboxes, of this instance
  Nobody,
  MaxPending,    \* MAX_PENDING_NOTE_UPDATES, 16 in the code
  MaxCrashes,    \* bound: requests that die without releasing their claim
  MaxFaults      \* bound: handler errors, leases outlived and operator purges

Author == {"create", "delete"} \cup Updates     \* activities of the Note's author
Activities == Author \cup {"announce"}
Sent == Once \cup Twice

\* A delivery is one HTTP request of the peer, repeated until it gets a 2xx.
Deliveries == (Sent \X {1}) \cup (Twice \X {2})
Act(d) == d[1]

ASSUME InboundAssumption ==
  /\ Refused \subseteq Updates /\ Sent \subseteq Activities
  /\ Updates \cap {"create", "delete", "announce"} = {} /\ Nobody \notin Deliveries
  /\ MaxPending \in Nat \ {0} /\ MaxCrashes \in Nat /\ MaxFaults \in Nat

VARIABLES
  note,        \* the objects row
  events,      \* inbound_note_update_events in order of sequence
  head,        \* inbound_note_update_heads
  receipt,     \* inbound_object_deletions has the author's receipt
  inbox,       \* the inbox row that notifies the mentioned actor of the Create
  edge,        \* the announces row
  processed,   \* activities.processed of each activity
  claim,       \* inbound_activity_claims
  run,         \* what each delivery is doing
  purge,       \* how far an operator block has purged the author
  since,       \* history: the sequence the retained Note was inserted after
  crashes, faults

noteVars == <<note, events, head, receipt, inbox, edge, since>>
vars == <<noteVars, processed, claim, run, purge, crashes, faults>>

NoNote == [base |-> "none", edits |-> <<>>]
Unclaimed == [stored |-> TRUE, owner |-> Nobody, live |-> FALSE]
NoClaim == [Unclaimed EXCEPT !.stored = FALSE]

Handling == {"admit", "head", "events", "note", "commit", "conflict", "notify",
             "receipt", "object", "cascade", "row", "known", "target", "edge", "finish"}
Snap(pc, applied, latest, creation, lost, before) ==
  [pc |-> pc, applied |-> applied, latest |-> latest, creation |-> creation,
   lost |-> lost, before |-> before]
Fresh(pc) == Snap(pc, 0, 0, "none", FALSE, NoNote)
Idle == Fresh("owed")

\* The snapshot a handler works on: loadInboundNoteUpdateWindow and readNoteProjection.
Run == [pc : Handling \cup {"owed", "claim", "clear", "release", "acked"},
        applied : Nat, latest : Nat, creation : {"none", "create"},
        lost : BOOLEAN,        \* a patch of the window had already been consumed
        before : [base : {"none", "created", "fetched"}, edits : Seq(Updates)]]

Init ==
  /\ note = NoNote /\ events = <<>> /\ head = [applied |-> 0, creation |-> "none"]
  /\ receipt = FALSE /\ inbox = FALSE /\ edge = FALSE /\ since = 0
  /\ processed = [a \in Activities |-> 0]
  /\ claim = [a \in Activities |-> NoClaim]
  /\ run = [d \in Deliveries |-> Idle]
  /\ purge = "no" /\ crashes = 0 /\ faults = 0

At(d, pc) == run[d].pc = pc
Becomes(d, r) == run' = [run EXCEPT ![d] = r]
Go(d, pc) == Becomes(d, Fresh(pc))      \* the snapshot is not needed any more
Owns(d) == claim[Act(d)].owner = d
\* Mutant: a failed dispatch leaves its claim to the lease.
FreedByLease(d) == claim

Freed(d) == IF Owns(d) THEN [claim EXCEPT ![Act(d)] = Unclaimed] ELSE claim
Blocked(a) == purge # "no" /\ a \in Author

-----------------------------------------------------------------------------
(* The dispatch claim. *)

\* The blocklist gate, the two idempotent inserts and the read of processed.
Receive(d) ==
  /\ At(d, "owed")
  /\ LET a == Act(d) IN
     \/ Blocked(a) /\ Go(d, "acked") /\ UNCHANGED claim
     \/ /\ ~Blocked(a)
        /\ claim' = IF claim[a].stored THEN claim ELSE [claim EXCEPT ![a] = Unclaimed]
        /\ Go(d, IF processed[a] = 0 THEN "claim" ELSE "acked")
  /\ UNCHANGED <<noteVars, processed, purge, crashes, faults>>

Claimable(a) == claim[a].stored /\ (claim[a].owner = Nobody \/ ~claim[a].live)

Handler(a) == IF a = "create" THEN "head" ELSE IF a = "delete" THEN "receipt"
              ELSE IF a = "announce" THEN "known" ELSE "admit"

\* The fenced update of the claim row; a request that loses it answers 202.
Claim(d) ==
  /\ At(d, "claim")
  /\ \/ /\ Claimable(Act(d))
        /\ claim' = [claim EXCEPT ![Act(d)] = [stored |-> TRUE, owner |-> d, live |-> TRUE]]
        /\ Go(d, Handler(Act(d)))
     \/ ~Claimable(Act(d)) /\ Go(d, "acked") /\ UNCHANGED claim
  /\ UNCHANGED <<noteVars, processed, purge, crashes, faults>>

\* commitActivityDispatch: the ledger first, under the token, then the claim.
CommitDispatch(d) ==
  /\ At(d, "finish")
  /\ IF Owns(d) THEN processed' = [processed EXCEPT ![Act(d)] = 1] /\ Go(d, "clear")
                ELSE Go(d, "release") /\ UNCHANGED processed
  /\ UNCHANGED <<noteVars, claim, purge, crashes, faults>>

ClearClaim(d) ==
  /\ At(d, "clear") /\ claim' = Freed(d) /\ Go(d, "acked")
  /\ UNCHANGED <<noteVars, processed, purge, crashes, faults>>

\* releaseActivityDispatch and the 503 that makes the peer deliver again.
Release(d) ==
  /\ At(d, "release") /\ claim' = Freed(d) /\ Becomes(d, Idle)
  /\ UNCHANGED <<noteVars, processed, purge, crashes, faults>>

-----------------------------------------------------------------------------
(* The update queue and the projection. *)

Pending == Len(events) - head.applied
Admitted(u) == \E i \in 1..Len(events) : events[i] = u

\* Mutant: one more than the queue holds.
HasRoomOneMore(u) == Admitted(u) \/ Pending <= MaxPending

HasRoom(u) == Admitted(u) \/ Pending < MaxPending

\* admitInboundNoteUpdate: a duplicate keeps its sequence, a deleted Note drops
\* the Update, a full queue is an error.
AdmitUpdate(d) ==
  /\ At(d, "admit")
  /\ LET u == Act(d) IN
     /\ events' = IF receipt \/ Admitted(u) \/ ~HasRoom(u) THEN events ELSE Append(events, u)
     /\ Go(d, IF receipt THEN "finish" ELSE IF HasRoom(u) THEN "head" ELSE "release")
  /\ UNCHANGED <<note, head, receipt, inbox, edge, since,
                 processed, claim, purge, crashes, faults>>

\* loadInboundNoteUpdateWindow reads the head and then the events after it; an
\* overfull window is a conflict, which only a Create catches at this point.
LoadHead(d) ==
  /\ At(d, "head")
  /\ Becomes(d, Snap("events", head.applied, 0, head.creation, FALSE, NoNote))
  /\ UNCHANGED <<noteVars, processed, claim, purge, crashes, faults>>

AfterEvents(d) ==
  IF Len(events) - run[d].applied <= MaxPending THEN "note"
  ELSE IF Act(d) = "create" THEN "conflict" ELSE "release"

LoadEvents(d) ==
  LET r == run[d] IN
  /\ At(d, "events")
  /\ IF AfterEvents(d) # "note" THEN Go(d, AfterEvents(d))
     ELSE Becomes(d, Snap("note", r.applied, Len(events), r.creation,
                          head.applied > r.applied, NoNote))
  /\ UNCHANGED <<noteVars, processed, claim, purge, crashes, faults>>

\* An Update without a Note waits in the queue; a Create that made a Note which is
\* gone since has nothing left to do.
ReadEnds(d) ==
  note = NoNote /\ (Act(d) \in Updates \/ (Act(d) = "create" /\ run[d].creation = "create"))

ReadNote(d) ==
  LET r == run[d] IN
  /\ At(d, "note")
  /\ IF ReadEnds(d) THEN Go(d, "finish")
     ELSE Becomes(d, Snap("commit", r.applied, r.latest, r.creation, r.lost, note))
  /\ UNCHANGED <<noteVars, processed, claim, purge, crashes, faults>>

\* foldAdmittedNoteUpdates over the events from + 1 .. to of a log: a refused
\* event is consumed and changes nothing.
Fold(log, from, to) ==
  LET f[i \in from..to] == IF i = from THEN <<>>
                           ELSE IF log[i] \in Refused THEN f[i - 1]
                           ELSE Append(f[i - 1], log[i])
  IN f[to]

Folded(from, to) == Fold(events, from, to)

\* Mutant: the window without the deletion receipt.
WindowHoldsDeleted(r) ==
  /\ note = r.before /\ Len(events) = r.latest
  /\ head = [applied |-> r.applied, creation |-> r.creation]

\* Mutant: the creator is compared with "=", which no NULL satisfies.
WindowHoldsNull(r) ==
  /\ note = r.before /\ ~receipt
  /\ head = [applied |-> r.applied, creation |-> r.creation] /\ r.creation # "none"
  /\ Len(events) = r.latest

\* Mutant: the window without the latest sequence.
WindowHoldsOlder(r) ==
  /\ note = r.before /\ ~receipt
  /\ head = [applied |-> r.applied, creation |-> r.creation]

\* guardInboundNoteUpdateWindow with noteProjectionSourceSql.
WindowHolds(r) ==
  /\ note = r.before /\ ~receipt
  /\ head = [applied |-> r.applied, creation |-> r.creation]
  /\ Len(events) = r.latest

\* Mutant: only the dispatch that inserted the Note notifies.
MayNotifyOnce(r) == r.before = NoNote

\* Whether this Create may notify: it made the Note, now or in an earlier dispatch.
MayNotify(r) == r.before = NoNote \/ r.creation = "create"

AfterCommit(d) == IF Act(d) = "announce" THEN "target"
                  ELSE IF Act(d) = "create" /\ MayNotify(run[d]) THEN "notify" ELSE "finish"

\* Mutant: folds every admitted event and not the window.
ProjectedFromStart(d, r) ==
  [base |-> IF r.before # NoNote THEN r.before.base
            ELSE IF Act(d) = "create" THEN "created" ELSE "fetched",
   edits |-> r.before.edits \o Folded(0, r.latest)]

Projected(d, r) ==
  [base |-> IF r.before # NoNote THEN r.before.base
            ELSE IF Act(d) = "create" THEN "created" ELSE "fetched",
   edits |-> r.before.edits \o Folded(r.applied, r.latest)]

\* commitNoteProjection: the row, the watermark and, for a new row, its creator.
Creator(d, r) == IF r.before # NoNote THEN r.creation
                 ELSE IF Act(d) = "create" THEN "create" ELSE "none"

CommitProjection(d) ==
  LET r == run[d] IN
  /\ At(d, "commit")
  /\ \/ /\ ~r.lost /\ WindowHolds(r)
        /\ note' = Projected(d, r)
        /\ head' = [applied |-> r.latest, creation |-> Creator(d, r)]
        /\ since' = IF r.before = NoNote THEN r.applied ELSE since
        /\ IF AfterCommit(d) # "notify" THEN Go(d, AfterCommit(d))
           ELSE Becomes(d, Snap("notify", r.latest, r.latest, Creator(d, r), FALSE,
                                Projected(d, r)))
     \/ /\ r.lost \/ ~WindowHolds(r)
        /\ Go(d, IF r.lost THEN "release" ELSE "conflict")
        /\ UNCHANGED <<note, head, since>>
  /\ UNCHANGED <<events, receipt, inbox, edge, processed, claim, purge, crashes, faults>>

\* upsertActivityAndNotify under the guard of the committed window.
Notify(d) ==
  /\ At(d, "notify")
  /\ inbox' = (inbox \/ WindowHolds(run[d]))
  /\ Go(d, IF WindowHolds(run[d]) THEN "finish" ELSE "conflict")
  /\ UNCHANGED <<note, events, head, receipt, edge, since,
                 processed, claim, purge, crashes, faults>>

\* What each handler makes of an InboundNoteUpdateConflict.
Superseded(d) == receipt \/ (Act(d) = "create" /\ note = NoNote /\ head.creation = "create")
AfterConflict(d) == IF ~Superseded(d) THEN "release"
                    ELSE IF Act(d) = "announce" THEN "target" ELSE "finish"

Conflict(d) ==
  /\ At(d, "conflict") /\ Go(d, AfterConflict(d))
  /\ UNCHANGED <<noteVars, processed, claim, purge, crashes, faults>>
-----------------------------------------------------------------------------
(* Delete. *)

\* handleDelete writes its receipt before it reads the object.
WriteReceipt(d) ==
  /\ At(d, "receipt") /\ receipt' = TRUE /\ Go(d, "object")
  /\ UNCHANGED <<note, events, head, inbox, edge, since,
                 processed, claim, purge, crashes, faults>>

ReadObject(d) ==
  /\ At(d, "object")
  /\ IF note = NoNote THEN Go(d, "finish")
     ELSE Becomes(d, Snap("cascade", 0, 0, "none", FALSE, note))
  /\ UNCHANGED <<noteVars, processed, claim, purge, crashes, faults>>

\* deleteObjectCascade drops the edges, the notifications and the claims of every
\* activity about the Note, except the one whose dispatch runs it.
ClaimsAfterCascade(kept) ==
  [a \in Activities |-> IF a \in kept THEN claim[a] ELSE NoClaim]

Cascade(d) ==
  /\ At(d, "cascade")
  /\ IF note = run[d].before
     THEN /\ inbox' = FALSE /\ edge' = FALSE /\ claim' = ClaimsAfterCascade({Act(d)})
          /\ Becomes(d, Snap("row", 0, 0, "none", FALSE, note))
     ELSE Go(d, "release") /\ UNCHANGED <<inbox, edge, claim>>
  /\ UNCHANGED <<note, events, head, receipt, since, processed, purge, crashes, faults>>

DeleteRow(d) ==
  /\ At(d, "row")
  /\ IF note = run[d].before THEN note' = NoNote /\ Go(d, "finish")
                             ELSE Go(d, "release") /\ UNCHANGED note
  /\ UNCHANGED <<events, head, receipt, inbox, edge, since,
                 processed, claim, purge, crashes, faults>>

-----------------------------------------------------------------------------
(* Announce. *)

\* handleAnnounce fetches an unknown Note when the booster has a local follower
\* and the fetch and its validation succeed.
LookUp(d) ==
  /\ At(d, "known")
  /\ \/ Go(d, "target")
     \/ note = NoNote /\ Go(d, "head")
  /\ UNCHANGED <<noteVars, processed, claim, purge, crashes, faults>>

\* handleInteraction drops an interaction with an object that is not retained ...
ReadTarget(d) ==
  /\ At(d, "target") /\ Go(d, IF note = NoNote THEN "finish" ELSE "edge")
  /\ UNCHANGED <<noteVars, processed, claim, purge, crashes, faults>>

\* ... and then writes the edge and its count in a batch of their own.
WriteEdge(d) ==
  /\ At(d, "edge") /\ edge' = TRUE /\ Go(d, "finish")
  /\ UNCHANGED <<note, events, head, receipt, inbox, since,
                 processed, claim, purge, crashes, faults>>

-----------------------------------------------------------------------------
(* The operator blocks the author and purges what was ingested. *)

Block ==
  /\ purge = "no" /\ faults < MaxFaults /\ purge' = "blocked" /\ faults' = faults + 1
  /\ UNCHANGED <<noteVars, processed, claim, run, crashes>>

PurgeCascade ==
  /\ purge = "blocked"
  /\ IF note = NoNote
     THEN purge' = "objects" /\ UNCHANGED <<inbox, edge, claim>>
     ELSE purge' = "row" /\ inbox' = FALSE /\ edge' = FALSE /\ claim' = ClaimsAfterCascade({})
  /\ UNCHANGED <<note, events, head, receipt, since, processed, run, crashes, faults>>

PurgeRow ==
  /\ purge = "row" /\ purge' = "objects" /\ note' = NoNote
  /\ UNCHANGED <<events, head, receipt, inbox, edge, since,
                 processed, claim, run, crashes, faults>>

\* purgeActorActivities: the ledger rows of the author and their projections.
PurgeActivities ==
  /\ purge = "objects" /\ purge' = "done" /\ inbox' = FALSE
  /\ processed' = [a \in Activities |-> IF a \in Author THEN 0 ELSE processed[a]]
  /\ claim' = ClaimsAfterCascade(Activities \ Author)
  /\ UNCHANGED <<note, events, head, receipt, edge, since, run, crashes, faults>>

-----------------------------------------------------------------------------
(* Faults. *)

\* A statement, a fetch or the media purge fails inside a handler.
HandlerFails(d) ==
  /\ run[d].pc \in Handling /\ faults < MaxFaults /\ faults' = faults + 1
  /\ Go(d, "release")
  /\ UNCHANGED <<noteVars, processed, claim, purge, crashes>>

\* A request dies; the peer sees no answer and the claim keeps its lease.
Crash(d) ==
  /\ run[d].pc \in Handling \cup {"clear", "release"}
  /\ crashes < MaxCrashes /\ crashes' = crashes + 1
  /\ Becomes(d, Idle)
  /\ UNCHANGED <<noteVars, processed, claim, purge, faults>>

\* INBOUND_DISPATCH_LEASE_MS passes.  The lease of a running request is outlived
\* only within the bound.
LeaseExpires(a) ==
  /\ claim[a].owner # Nobody /\ claim[a].live
  /\ claim' = [claim EXCEPT ![a].live = FALSE]
  /\ \/ run[claim[a].owner].pc \notin Handling \cup {"clear", "release"} /\ UNCHANGED faults
     \/ run[claim[a].owner].pc \in Handling \cup {"clear", "release"}
        /\ faults < MaxFaults /\ faults' = faults + 1
  /\ UNCHANGED <<noteVars, processed, run, purge, crashes>>

-----------------------------------------------------------------------------
Step(d) ==
  \/ Receive(d) \/ Claim(d) \/ CommitDispatch(d) \/ ClearClaim(d) \/ Release(d)
  \/ AdmitUpdate(d) \/ LoadHead(d) \/ LoadEvents(d) \/ ReadNote(d)
  \/ CommitProjection(d) \/ Notify(d) \/ Conflict(d)
  \/ WriteReceipt(d) \/ ReadObject(d) \/ Cascade(d) \/ DeleteRow(d)
  \/ LookUp(d) \/ ReadTarget(d) \/ WriteEdge(d)

Purging == PurgeCascade \/ PurgeRow \/ PurgeActivities

Next ==
  \/ \E d \in Deliveries : Step(d) \/ HandlerFails(d) \/ Crash(d)
  \/ \E a \in Activities : LeaseExpires(a)
  \/ Block \/ Purging

Spec == Init /\ [][Next]_vars

\* A peer repeats a delivery until it is acknowledged and the server runs every
\* request it accepted.
Fairness == \A d \in Deliveries : WF_vars(Step(d))

FairSpec == Spec /\ Fairness

-----------------------------------------------------------------------------
(* The rows have the shape the schema gives them, a claim is held by a       *)
(* delivery of its own activity, and the watermark never runs ahead of the   *)
(* admitted sequence, whose pending part the admission guard bounds.         *)
TypeOK ==
  /\ note \in [base : {"none", "created", "fetched"}, edits : Seq(Updates)]
  /\ events \in Seq(Updates)
  /\ head \in [applied : 0..Len(events), creation : {"none", "create"}]
  /\ Pending <= MaxPending
  /\ {receipt, inbox, edge} \subseteq BOOLEAN
  /\ processed \in [Activities -> {0, 1}]
  /\ claim \in [Activities ->
       [stored : BOOLEAN, owner : Deliveries \cup {Nobody}, live : BOOLEAN]]
  /\ \A a \in Activities : claim[a].owner # Nobody => Act(claim[a].owner) = a
  /\ run \in [Deliveries -> Run]
  /\ purge \in {"no", "blocked", "row", "objects", "done"}
  /\ since \in 0..head.applied /\ crashes \in 0..MaxCrashes /\ faults \in 0..MaxFaults

(* Once a Delete is committed its Note is gone and nobody is notified of it, *)
(* whatever Create, Update or Announce was in flight: handleDelete's receipt *)
(* precedes its read, and every insert asserts that there is none.  Only a   *)
(* purge, which asserts nothing, can leave a notification for a while.       *)
DeletedIsGone ==
  processed["delete"] = 1 => note = NoNote /\ (purge = "no" => ~inbox)

(* A retained Note carries the accepted Updates admitted since it was        *)
(* inserted, each once and in the order of their sequences, up to the        *)
(* watermark: foldAdmittedNoteUpdates over a window that cannot be stale.    *)
EditsFollowAdmission == note # NoNote => note.edits = Folded(since, head.applied)

(* An Update that was acknowledged as done is in a retained Note's history:  *)
(* it is never left behind by the Create or the fetch it overtook.           *)
DoneUpdateIsApplied ==
  \A u \in Updates : processed[u] = 1 /\ note # NoNote /\ ~receipt =>
    \E i \in 1..head.applied : events[i] = u

(* A Create that is done and made the Note has notified the mentioned actor: *)
(* a notification refused by its guard is repaired by the peer's retry.      *)
CreateHasNotified ==
  processed["create"] = 1 /\ head.creation = "create" /\ note # NoNote
    /\ ~receipt /\ purge = "no" => inbox

AllAcked(a) == \A d \in Deliveries : Act(d) = a => At(d, "acked")

(* An activity whose every delivery was answered 2xx has been dispatched, as *)
(* long as no request died: a 202 to the loser of a claim is safe because    *)
(* the winner fails with a 503 and is delivered again.                       *)
AckedIsDispatched ==
  crashes = 0 /\ purge = "no" =>
    \A a \in Sent : AllAcked(a) => processed[a] = 1 \/ receipt

(* Every delivery is eventually answered 2xx: the retries that a refused     *)
(* guard, a failure or a lost lease causes come to an end, unless the Note   *)
(* was purged, when Updates of it can fill the queue for good.               *)
DeliveriesEnd == <>[](purge = "no" => \A a \in Sent : AllAcked(a))

(* What claimActivityForDispatch says of its 202 ("the owner returns 5xx and *)
(* releases the claim if its dispatch fails"): no acknowledged activity is   *)
(* left undispatched.                                                        *)
NothingBlackHoled ==
  purge = "no" => \A a \in Sent : AllAcked(a) => processed[a] = 1 \/ receipt

============================================================================
