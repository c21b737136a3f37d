-------------------------- MODULE MediaLifecycle --------------------------
(***************************************************************************)
(* Uploaded media of yurucommu: a blob in object storage and the rows of   *)
(* the database that carry authority over it.  Storage and database cannot *)
(* commit together, so every blob is announced by an upload attempt before *)
(* the put, adopted by a metadata row with a staged lifetime after it, and *)
(* deleted only under a permanent claim that a complete journal of         *)
(* references allows (routes/media.ts, lib/media-upload-lifecycle.ts,      *)
(* lib/staged-media-retention.ts, lib/media-deletion-claims.ts,            *)
(* routes/posts/delete-cascade.ts and the triggers of migrations 0031,     *)
(* 0034 and 0035).                                                         *)
(*                                                                         *)
(* A key is minted for one upload and never reused.  Time is abstracted: a *)
(* staged lifetime may expire at any moment.                               *)
(***************************************************************************)
EXTENDS Integers, FiniteSets

CONSTANTS
  Actors,    \* local actors: an owner and its personas
  Root,      \* the owner
  Keys,      \* r2 keys
  Uploader,  \* [Keys -> Actors]: who uploads a key
  Legacy     \* keys stored before migration 0034, referenced and unindexed

ASSUME MediaAssumption ==
  /\ Root \in Actors
  /\ Uploader \in [Keys -> Actors]
  /\ Legacy \subseteq Keys

VARIABLES
  actor,     \* [Actors -> {"absent","live","deleted"}]: rows of actors
  target,    \* [Actors -> {"none","reserved","complete"}]: deletion targets
  attempt,   \* [Keys -> {"none","putting","cleanup"}]: media_upload_attempts
  writer,    \* [Keys -> the request that uploads the key]
  late,      \* keys whose put may still reach storage without its writer
  blob,      \* keys with bytes in object storage
  upload,    \* keys with a row in media_uploads
  life,      \* [Keys -> {"none","staged","published","deleting"}]
  source,    \* [Keys -> SUBSET Sources]: live rows that name the key
  journal,   \* [Keys -> SUBSET Sources]: media_staged_references
  indexed,   \* the reference backfill is complete
  jobs,      \* keys in media_blob_deletion_jobs
  claims,    \* keys in media_blob_deletion_claims
  cleaning,  \* cleanup attempts whose blob the cleaner has deleted
  drain      \* [keys, at]: the retention drain of deletion jobs

mediaVars == <<attempt, writer, late, blob, upload, life, source, journal,
               indexed, jobs, claims, cleaning, drain>>

(* An object or a profile of the uploader, or a row of somebody else (the  *)
(* icon of a community another manager keeps, a foreign object).           *)
Sources == {"own", "foreign"}

KeysOf(a) == {k \in Keys : Uploader[k] = a}

(* actorNotReservedSql: neither the actor nor its owner is a target.       *)
NotReserved(a) == target[a] = "none" /\ target[Root] = "none"

(* The predicate every ordinary write of a session asserts in its batch.   *)
Admitted(a) == actor[a] = "live" /\ NotReserved(a)

MediaInit ==
  /\ attempt = [k \in Keys |-> "none"]
  /\ writer = [k \in Keys |-> IF k \in Legacy THEN "done" ELSE "none"]
  /\ late = {}
  /\ blob = Legacy
  /\ upload = Legacy
  /\ life = [k \in Keys |-> "none"]
  /\ source = [k \in Keys |-> IF k \in Legacy THEN Sources ELSE {}]
  /\ journal = [k \in Keys |-> {}]
  /\ indexed = FALSE
  /\ jobs = {}
  /\ claims = {}
  /\ cleaning = {}
  /\ drain = [keys |-> {}, at |-> "idle"]

-----------------------------------------------------------------------------
(* Uploads.                                                                *)

(* The attempt row is durable before the first byte is sent.               *)
BeginUpload(k) ==
  /\ writer[k] = "none"
  /\ Admitted(Uploader[k])
  /\ attempt' = [attempt EXCEPT ![k] = "putting"]
  /\ writer' = [writer EXCEPT ![k] = "putting"]
  /\ UNCHANGED <<late, blob, upload, life, source, journal, indexed, jobs,
                 claims, cleaning, drain>>

(* The put settles: stored, or rejected with or without bytes written.     *)
PutSettles(k) ==
  /\ writer[k] = "putting"
  /\ \/ /\ writer' = [writer EXCEPT ![k] = "stored"]
        /\ blob' = blob \union {k}
     \/ /\ writer' = [writer EXCEPT ![k] = "failed"]
        /\ blob' \in {blob, blob \union {k}}
  /\ UNCHANGED <<attempt, late, upload, life, source, journal, indexed, jobs,
                 claims, cleaning, drain>>

(* The isolate that runs the upload disappears; a put it had sent may      *)
(* still arrive.                                                           *)
WriterDies(k) ==
  /\ writer[k] \in {"putting", "stored", "failed", "settled"}
  /\ late' = IF writer[k] = "putting" THEN late \union {k} ELSE late
  /\ writer' = [writer EXCEPT ![k] = "dead"]
  /\ UNCHANGED <<attempt, blob, upload, life, source, journal, indexed, jobs,
                 claims, cleaning, drain>>

LatePut(k) ==
  /\ k \in late
  /\ late' = late \ {k}
  /\ blob' = blob \union {k}
  /\ UNCHANGED <<attempt, writer, upload, life, source, journal, indexed,
                 jobs, claims, cleaning, drain>>

(* One batch, under the admission guard and the triggers of 0034: drop the *)
(* attempt, insert the metadata and its lifetime, already published when a *)
(* row names the key.                                                      *)
Adopt(k) ==
  /\ writer[k] = "stored"
  /\ Admitted(Uploader[k])
  /\ attempt[k] = "putting"
  /\ attempt' = [attempt EXCEPT ![k] = "none"]
  /\ upload' = upload \union {k}
  /\ life' = [life EXCEPT ![k] =
                IF journal[k] = {} THEN "staged" ELSE "published"]
  /\ writer' = [writer EXCEPT ![k] = "done"]
  /\ UNCHANGED <<late, blob, source, journal, indexed, jobs, claims,
                 cleaning, drain>>

(* The batch failed, or the put was rejected: the writer that saw its put  *)
(* settle turns the attempt over to cleanup, outside the admission guard.  *)
Settle(k) ==
  /\ writer[k] \in {"stored", "failed"}
  /\ attempt' = [attempt EXCEPT ![k] =
                   IF attempt[k] = "putting" THEN "cleanup" ELSE @]
  /\ writer' = [writer EXCEPT ![k] = "settled"]
  /\ UNCHANGED <<late, blob, upload, life, source, journal, indexed, jobs,
                 claims, cleaning, drain>>

(* A cleaner (the request, the global drain, a deletion worker) deletes    *)
(* the bytes of a settled attempt, then its row.                           *)
CleanupBlob(k) ==
  /\ attempt[k] = "cleanup"
  /\ k \notin cleaning
  /\ blob' = blob \ {k}
  /\ cleaning' = cleaning \union {k}
  /\ UNCHANGED <<attempt, writer, late, upload, life, source, journal,
                 indexed, jobs, claims, drain>>

CleanupAck(k) ==
  /\ k \in cleaning
  /\ cleaning' = cleaning \ {k}
  /\ attempt' = [attempt EXCEPT ![k] =
                   IF attempt[k] = "cleanup" THEN "none" ELSE @]
  /\ UNCHANGED <<writer, late, blob, upload, life, source, journal, indexed,
                 jobs, claims, drain>>

-----------------------------------------------------------------------------
(* References.  The triggers of 0034 keep the journal with every write of  *)
(* a source row and abort the write that would name a deleted key.         *)

Fenced(k) == k \in claims \/ life[k] = "deleting"

Attach(k, s) ==
  /\ writer[k] # "none"
  /\ s \notin source[k]
  /\ s = "own" => Admitted(Uploader[k])
  /\ ~Fenced(k)
  /\ source' = [source EXCEPT ![k] = @ \union {s}]
  /\ journal' = [journal EXCEPT ![k] = @ \union {s}]
  /\ life' = [life EXCEPT ![k] = IF @ = "staged" THEN "published" ELSE @]
  /\ UNCHANGED <<attempt, writer, late, blob, upload, indexed, jobs, claims,
                 cleaning, drain>>

(* The row is deleted or names another key.  A source of the uploader      *)
(* leaves a pending deletion job behind (0035 and delete-cascade.ts).      *)
Detach(k, s) ==
  /\ s \in source[k]
  /\ s = "own" => Admitted(Uploader[k])
  /\ source' = [source EXCEPT ![k] = @ \ {s}]
  /\ journal' = [journal EXCEPT ![k] = @ \ {s}]
  /\ jobs' = IF s = "own" /\ k \in upload THEN jobs \union {k} ELSE jobs
  /\ UNCHANGED <<attempt, writer, late, blob, upload, life, indexed, claims,
                 cleaning, drain>>

(* The backfill indexes the rows written before the triggers existed.      *)
Backfill ==
  /\ ~indexed
  /\ indexed' = TRUE
  /\ journal' = source
  /\ UNCHANGED <<attempt, writer, late, blob, upload, life, source, jobs,
                 claims, cleaning, drain>>

-----------------------------------------------------------------------------
(* Deletion.                                                               *)

\* Mutant of Claimable: the backfill need not be complete.
ClaimableUnindexed(k) ==
  /\ k \in jobs \ claims
  /\ journal[k] = {}
  /\ attempt[k] = "none"

(* media_blob_deletion_claimable: a job, a complete journal that does not  *)
(* name the key, no attempt, and no reservation of another operation.      *)
Claimable(k) ==
  /\ k \in jobs \ claims
  /\ indexed
  /\ journal[k] = {}
  /\ attempt[k] = "none"

Claimed(k) == k \in jobs /\ Fenced(k)

(* An expired staged upload that nothing names: claim, job and removal of  *)
(* the metadata are one statement and its triggers.                        *)
ClaimStaged(k) ==
  /\ life[k] = "staged"
  /\ indexed
  /\ journal[k] = {}
  /\ attempt[k] = "none"
  /\ k \in upload
  /\ target[Uploader[k]] = "none"
  /\ life' = [life EXCEPT ![k] = "deleting"]
  /\ jobs' = jobs \union {k}
  /\ upload' = upload \ {k}
  /\ UNCHANGED <<attempt, writer, late, blob, source, journal, indexed,
                 claims, cleaning, drain>>

(* The drain of retention, and the trailing purge of a request: claim what *)
(* may be claimed of the jobs it read, delete the bytes, delete the jobs.  *)
DrainClaim ==
  /\ drain.at = "idle"
  /\ jobs # {}
  /\ LET won == {k \in jobs : Claimable(k) /\ target[Uploader[k]] = "none"}
     IN /\ claims' = claims \union won
        /\ upload' = upload \ won
        /\ drain' = [keys |-> won \union {k \in jobs : Claimed(k)},
                     at |-> "delete"]
  /\ drain'.keys # {}
  /\ UNCHANGED <<attempt, writer, late, blob, life, source, journal, indexed,
                 jobs, cleaning>>

DrainDelete ==
  /\ drain.at = "delete"
  /\ blob' = blob \ drain.keys
  /\ drain' = [drain EXCEPT !.at = "ack"]
  /\ UNCHANGED <<attempt, writer, late, upload, life, source, journal,
                 indexed, jobs, claims, cleaning>>

DrainAck ==
  /\ drain.at = "ack"
  /\ jobs' = jobs \ drain.keys
  /\ drain' = [keys |-> {}, at |-> "idle"]
  /\ UNCHANGED <<attempt, writer, late, blob, upload, life, source, journal,
                 indexed, claims, cleaning>>

(* Storage is unavailable or the process stops; the jobs remain.           *)
DrainFails ==
  /\ drain.at # "idle"
  /\ drain' = [keys |-> {}, at |-> "idle"]
  /\ UNCHANGED <<attempt, writer, late, blob, upload, life, source, journal,
                 indexed, jobs, claims, cleaning>>

MediaNext ==
  \/ \E k \in Keys :
       \/ BeginUpload(k) \/ PutSettles(k) \/ WriterDies(k) \/ LatePut(k)
       \/ Adopt(k) \/ Settle(k) \/ CleanupBlob(k) \/ CleanupAck(k)
       \/ ClaimStaged(k)
       \/ \E s \in Sources : Attach(k, s) \/ Detach(k, s)
  \/ Backfill \/ DrainClaim \/ DrainDelete \/ DrainAck \/ DrainFails

-----------------------------------------------------------------------------
MediaTypeOK ==
  /\ attempt \in [Keys -> {"none", "putting", "cleanup"}]
  /\ writer \in [Keys -> {"none", "putting", "stored", "failed", "settled",
                          "dead", "done"}]
  /\ late \subseteq Keys /\ blob \subseteq Keys /\ upload \subseteq Keys
  /\ life \in [Keys -> {"none", "staged", "published", "deleting"}]
  /\ source \in [Keys -> SUBSET Sources]
  /\ journal \in [Keys -> SUBSET Sources]
  /\ indexed \in BOOLEAN
  /\ jobs \subseteq Keys /\ claims \subseteq Keys /\ cleaning \subseteq Keys
  /\ drain \in [keys : SUBSET Keys, at : {"idle", "delete", "ack"}]

(* A stored upload that some row still names keeps its bytes: no deletion  *)
(* path (replaced attachment, staged expiry, account teardown, a drain     *)
(* that stalls with its claims) reaches a key that is referenced, the keys *)
(* of rows older than the journal included.                                *)
ReferencedBlobKept ==
  \A k \in Keys :
    (k \in upload \/ life[k] # "none" \/ k \in claims) /\ source[k] # {}
      => k \in blob

(* Bytes in storage are never orphaned: an attempt, a metadata row or a    *)
(* deletion job still names them, so that some retry can remove them.      *)
NoOrphanBytes ==
  \A k \in blob : attempt[k] # "none" \/ k \in upload \/ k \in jobs
=============================================================================
