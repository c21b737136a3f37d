--------------------------- MODULE ObjectStorage ----------------------------
(***************************************************************************)
(* The object store of a self-hosted instance on its file system           *)
(* (BunStorage, runtime/bun.ts), for one key.  Each write assembles a      *)
(* generation, a body and a metadata file, under a lease file, and         *)
(* publishes it by renaming a commit marker over the last one.  Readers    *)
(* take a lease of their own.  Superseded generations are reclaimed by     *)
(* whoever finishes last, in any process that shares the directory, and by *)
(* the recovery scan of a process that starts.  Every step is one system   *)
(* call or one look at the memory of the process.                          *)
(*                                                                         *)
(* A process may die at any point; what it held in memory is gone and its  *)
(* lease files stay, provably dead or, where /proc cannot tell, unknown.   *)
(* rename(2) replaces the marker atomically, so a marker that was once     *)
(* there is never missing; loss of power is not modelled.                  *)
(***************************************************************************)
EXTENDS Naturals, FiniteSets

CONSTANTS
  Homes,        \* SUBSET [Slots -> Procs]: where requests may run
  Procs,        \* processes (adapter instances) sharing the directory
  Slots,        \* requests that may run at once
  MaxOps,       \* bound on requests
  MaxFaults     \* bound on failed writes and deaths

VARIABLES
  files,        \* generation files: set of <<generation, Body or Meta>>
  temps,        \* generations or marker ids with a temporary file
  lease,        \* [Ids -> "none", "held", "dead" or "unknown"]
  readers,      \* tasks with a reader lease file; "dead", "unknown": left over
  marker,       \* the generation the marker names, None or Tomb
  legacy,       \* the body in the old layout is there
  dir,          \* the key's directory is there
  home,         \* [Slots -> Procs]: the process a request runs in
  task,         \* [Slots \cup Procs -> what a request or a scan is doing]
  again,        \* [Procs -> BOOLEAN]: a trailing reclaim is requested
  up,           \* processes that run
  ops, faults

diskVars == <<files, temps, lease, readers, marker, legacy, dir>>
runVars == <<up, home, ops, faults>>
vars == <<files, temps, lease, readers, marker, legacy, dir, home, task, again,
          up, ops, faults>>

Tasks == Slots \cup Procs       \* the task of a process is its own scan
Ids == 0..MaxOps
None == MaxOps + 1             \* no marker
Tomb == MaxOps + 2             \* a marker that says deleted
Body == 1
Meta == 2
Pair(g) == {<<g, Body>>, <<g, Meta>>}

Proc(t) == IF t \in Procs THEN t ELSE home[t]

Idle == [pc |-> "idle", kind |-> "none", phase |-> "none", id |-> 0,
         seen |-> None, todo |-> {}, tmp |-> {}, names |-> {}, by |-> {}]

Scan == [Idle EXCEPT !.kind = "scan", !.pc = "retained"]

Set(t, r) == task' = [task EXCEPT ![t] = r]
Go(t, pc) == Set(t, [task[t] EXCEPT !.pc = pc])
At(t, pc) == task[t].pc = pc /\ Proc(t) \in up

Writing == {"tempBody", "body", "tempMeta", "meta", "tempMark", "mark"}
Assembling == Writing \cup {"lease"}

(* The memory of a process: generations being written, keys and            *)
(* generations being read.                                                 *)
activeGenerations(p) ==
  {task[s].id : s \in {s \in Slots : /\ home[s] = p /\ task[s].kind = "put"
                                     /\ task[s].pc \in Assembling}}

Resolving(t) ==
  task[t].kind = "get" /\ task[t].pc \in {"readerLease", "resolve", "openBody",
                                          "openMeta", "legacyBody"}
hasKeyReadReservation(p) == \E s \in Slots : home[s] = p /\ Resolving(s)
hasGenerationLease(p, g) ==
  \E s \in Slots : /\ home[s] = p /\ task[s].kind = "get"
                   /\ task[s].pc \in {"openBody", "openMeta"} /\ task[s].seen = g

Guarded(p, g) == \/ g \in activeGenerations(p) \/ hasGenerationLease(p, g)
                 \/ hasKeyReadReservation(p)

(* What others can tell of the leases of a process that died: gone for     *)
(* certain, or not to be told from alive (another boot or namespace, a     *)
(* hidden /proc).  Only the first does not count.                          *)
classifyLeaseOwner == {"dead", "unknown"}
isLiveTempLease(g) == lease[g] \in {"held", "unknown"}
hasLiveReaderLease == readers \ {"dead"} # {}

(* The marker is read through one descriptor: the old one or the new.      *)
readCommitRecord == marker

(* The lookups drop the lease files of the dead.                           *)
DropDead ==
  /\ readers' = readers \ {"dead"}
  /\ lease' = [g \in Ids |-> IF lease[g] = "dead" THEN "none" ELSE lease[g]]

(***************************************************************************)
(* put                                                                     *)
(***************************************************************************)
Start(s, kind) ==
  /\ task[s] = Idle /\ home[s] \in up /\ task[home[s]].kind # "recover"
  /\ ops < MaxOps /\ ops' = ops + 1
  /\ Set(s, [Idle EXCEPT !.kind = kind, !.id = ops + 1,
               !.pc = CASE kind = "put" -> "begin"
                        [] kind = "delete" -> "exists"
                        [] kind = "get" -> "readerLease"])
  /\ UNCHANGED <<diskVars, again, up, home, faults>>

(* The directory is made and the generation to supersede is read.          *)
PutBegin(s) ==
  /\ At(s, "begin") /\ dir' = TRUE
  /\ Set(s, [task[s] EXCEPT !.pc = "lease", !.seen = readCommitRecord])
  /\ UNCHANGED <<files, temps, lease, readers, marker, legacy, again, runVars>>

createTempLease(s) ==
  /\ At(s, "lease")
  /\ lease' = [lease EXCEPT ![task[s].id] = "held"]
  /\ Go(s, IF task[s].kind = "put" THEN "tempBody" ELSE "tempMark")
  /\ UNCHANGED <<files, temps, readers, marker, legacy, dir, again, runVars>>

WriteTemp(s) ==
  /\ \E step \in {<<"tempBody", "body">>, <<"tempMeta", "meta">>,
                  <<"tempMark", "mark">>} :
       At(s, step[1]) /\ Go(s, step[2])
  /\ temps' = temps \cup {task[s].id}
  /\ UNCHANGED <<files, lease, readers, marker, legacy, dir, again, runVars>>

RenameFile(s) ==
  /\ task[s].id \in temps /\ temps' = temps \ {task[s].id}
  /\ \/ /\ At(s, "body") /\ Go(s, "tempMeta")
        /\ files' = files \cup {<<task[s].id, Body>>}
     \/ /\ At(s, "meta") /\ Go(s, "tempMark")
        /\ files' = files \cup {<<task[s].id, Meta>>}
  /\ UNCHANGED <<lease, readers, marker, legacy, dir, again, runVars>>

(* The marker is renamed into place while the lease is still owned.        *)
RenameMarker(s, to) ==
  /\ At(s, "mark") /\ lease[task[s].id] = "held" /\ task[s].id \in temps
  /\ temps' = temps \ {task[s].id}
  /\ marker' = to /\ Go(s, "release")
  /\ UNCHANGED <<files, lease, readers, legacy, dir, again, runVars>>

Publish(s) == task[s].kind = "put" /\ RenameMarker(s, task[s].id)

(* The tombstone of a delete.                                              *)
writeCommitRecord(s) == task[s].kind = "delete" /\ RenameMarker(s, Tomb)

ReleaseLease(s) ==
  /\ At(s, "release")
  /\ lease' = [lease EXCEPT ![task[s].id] = "none"] /\ Go(s, "legacy")
  /\ UNCHANGED <<files, temps, readers, marker, legacy, dir, again, runVars>>

(* removeGenerationIfUnreferenced starts after the old layout is gone.     *)
DropLegacy(s) ==
  /\ At(s, "legacy") /\ legacy' = FALSE
  /\ LET old == task[s].seen
     IN Set(s, [task[s] EXCEPT
          !.phase = "remove", !.seen = None,
          !.todo = IF old \in Ids THEN Pair(old) ELSE {},
          !.pc = "pick"])
  /\ UNCHANGED <<files, temps, lease, readers, marker, dir, again, runVars>>

(* A write fails: what is not published is removed, and nothing reclaimed. *)
WriteFails(s) ==
  /\ faults < MaxFaults /\ faults' = faults + 1
  /\ home[s] \in up
  /\ task[s].pc \in Writing \cup {"release"}
  /\ lease' = [lease EXCEPT ![task[s].id] = "none"]
  /\ IF task[s].pc = "release"
       THEN UNCHANGED <<files, temps>>
       ELSE /\ files' = files \ Pair(task[s].id)
            /\ temps' = temps \ {task[s].id}
  /\ Set(s, Idle)
  /\ UNCHANGED <<readers, marker, legacy, dir, again, up, home, ops>>

(***************************************************************************)
(* delete                                                                  *)
(***************************************************************************)
DeleteBegin(s) ==
  /\ At(s, "exists")
  /\ IF marker = None /\ ~legacy
       THEN Set(s, Idle) /\ UNCHANGED dir
       ELSE /\ Set(s, [task[s] EXCEPT !.pc = "lease", !.seen = readCommitRecord])
            /\ dir' = TRUE
  /\ UNCHANGED <<files, temps, lease, readers, marker, legacy, again, runVars>>

(***************************************************************************)
(* get                                                                     *)
(***************************************************************************)
createReaderLease(s) ==
  /\ At(s, "readerLease")
  /\ readers' = IF dir THEN readers \cup {s} ELSE readers
  /\ Go(s, "resolve")
  /\ UNCHANGED <<files, temps, lease, marker, legacy, dir, again, runVars>>

(* A scan of the process starts, or runs once more when it is done.        *)
scheduleReclaim(p, f) ==
  /\ task' = IF f[p] = Idle THEN [f EXCEPT ![p] = Scan] ELSE f
  /\ again' = IF f[p] = Idle THEN again ELSE [again EXCEPT ![p] = TRUE]

(* Leases and reservation are given back, and superseded files looked for. *)
Resolved(s) ==
  /\ readers' = readers \ {s}
  /\ scheduleReclaim(home[s], [task EXCEPT ![s] = Idle])

resolveObject(s) ==
  /\ At(s, "resolve")
  /\ \/ /\ readCommitRecord = Tomb /\ Resolved(s)
     \/ /\ readCommitRecord \in Ids
        /\ Set(s, [task[s] EXCEPT !.pc = "openBody", !.seen = readCommitRecord])
        /\ UNCHANGED <<readers, again>>
     \/ /\ readCommitRecord = None /\ Go(s, "legacyBody")
        /\ UNCHANGED <<readers, again>>
  /\ UNCHANGED <<files, temps, lease, marker, legacy, dir, runVars>>

(* A file that is gone sends the reader back to the marker.                *)
OpenFile(s) ==
  /\ \/ /\ At(s, "openBody")
        /\ Go(s, IF <<task[s].seen, Body>> \in files THEN "openMeta" ELSE "resolve")
        /\ UNCHANGED <<readers, again>>
     \/ /\ At(s, "openMeta")
        /\ IF <<task[s].seen, Meta>> \in files
             THEN Resolved(s)
             ELSE Go(s, "resolve") /\ UNCHANGED <<readers, again>>
  /\ UNCHANGED <<files, temps, lease, marker, legacy, dir, runVars>>

(* No marker: the old layout is looked at, at once or after some more      *)
(* looks at the marker when the directory is there.                        *)
LegacyBody(s) ==
  /\ At(s, "legacyBody")
  /\ \/ Resolved(s)
     \/ dir /\ marker # None /\ Go(s, "resolve") /\ UNCHANGED <<readers, again>>
  /\ UNCHANGED <<files, temps, lease, marker, legacy, dir, runVars>>

(***************************************************************************)
(* canReclaimGeneration: leases, marker, leases again; then the unlink.    *)
(***************************************************************************)
Cand(t) == CHOOSE e \in task[t].todo : \A d \in task[t].todo : e[1] < d[1]
                                      \/ (e[1] = d[1] /\ e[2] <= d[2])

(* Refused: a removal gives up and goes on to the scan, a scan skips on.   *)
Refuse(t) ==
  Set(t, IF task[t].phase = "remove"
           THEN [task[t] EXCEPT !.todo = {}, !.pc = "retained"]
           ELSE [task[t] EXCEPT !.todo = @ \ {Cand(t)}, !.pc = "pick"])

(* The memory of the process and the lease of the writer, before and after *)
(* the marker; a recovery that found no marker has only its listing.       *)
Pick(t) ==
  /\ At(t, "pick")
  /\ IF task[t].todo = {}
       THEN Go(t, IF task[t].phase = "remove" THEN "retained" ELSE "temps")
       ELSE LET g == Cand(t)[1]
            IN IF task[t].kind = "recover" /\ task[t].seen = None
                 THEN Go(t, "unlink")
                 ELSE IF Guarded(Proc(t), g) \/ isLiveTempLease(g)
                        THEN Refuse(t)
                        ELSE Go(t, "readers1")
  /\ UNCHANGED <<diskVars, again, runVars>>

CheckLease(t) ==
  /\ At(t, "lease2")
  /\ IF isLiveTempLease(Cand(t)[1]) THEN Refuse(t) ELSE Go(t, "unlink")
  /\ UNCHANGED <<diskVars, again, runVars>>

(* Mutant of CheckReaders: only the readers of this process are known.     *)
CheckReadersOwn(t) ==
  /\ \E step \in {<<"readers1", "current">>, <<"readers2", "lease2">>} :
       At(t, step[1]) /\ Go(t, step[2])
  /\ DropDead
  /\ UNCHANGED <<files, temps, marker, legacy, dir, again, runVars>>

CheckReaders(t) ==
  /\ \E step \in {<<"readers1", "current">>, <<"readers2", "lease2">>} :
       /\ At(t, step[1])
       /\ IF hasLiveReaderLease THEN Refuse(t) ELSE Go(t, step[2])
  /\ DropDead
  /\ UNCHANGED <<files, temps, marker, legacy, dir, again, runVars>>

(* The marker is read afresh; without one there is no authority.           *)
CheckMarker(t) ==
  /\ At(t, "current")
  /\ IF readCommitRecord \in {None, Cand(t)[1]} THEN Refuse(t)
                                                ELSE Go(t, "readers2")
  /\ UNCHANGED <<diskVars, again, runVars>>

Unlink(t) ==
  /\ At(t, "unlink")
  /\ files' = files \ {Cand(t)}
  /\ Set(t, [task[t] EXCEPT !.todo = @ \ {Cand(t)}, !.pc = "pick"])
  /\ UNCHANGED <<temps, lease, readers, marker, legacy, dir, again, runVars>>

(***************************************************************************)
(* reclaimUnreferencedGenerations and recoverInternalStore: a listing, the *)
(* leases of that listing, the marker (before the listing in a scan, after *)
(* it in a recovery), then one file after the other.                       *)
(***************************************************************************)
ReadRetained(t) ==
  /\ At(t, "retained")
  /\ Set(t, [task[t] EXCEPT !.seen = readCommitRecord, !.pc = "list",
                            !.phase = "scan"])
  /\ UNCHANGED <<diskVars, again, runVars>>

ListFiles(t) ==
  /\ At(t, "list")
  /\ Set(t, [task[t] EXCEPT
       !.todo = files, !.tmp = temps, !.pc = "live",
       !.names = {g \in Ids : lease[g] # "none"}, !.by = readers])
  /\ UNCHANGED <<diskVars, again, runVars>>

(* Of the listed leases, those that still count.                           *)
Live(t) == {g \in task[t].names : isLiveTempLease(g)}
LiveReader(t) == (task[t].by \ {"dead"}) \cap readers # {}

Ended(t) ==
  IF t \in Procs
    THEN /\ again' = [again EXCEPT ![t] = FALSE]
         /\ Set(t, IF again[t] THEN Scan ELSE Idle)
    ELSE Set(t, Idle) /\ UNCHANGED again

(* What a scan may look at, and what a recovery may.                       *)
Reclaimable(t) ==
  {e \in task[t].todo : e[1] \notin Live(t) \cup {task[t].seen}}
Recoverable(t) ==
  {e \in task[t].todo : e[1] \notin Live(t) /\ ~LiveReader(t)}

liveTempLeases(t) ==
  /\ At(t, "live") /\ DropDead
  /\ LET known == [task[t] EXCEPT !.tmp = @ \ Live(t), !.names = {}, !.by = {}]
     IN \/ /\ task[t].kind = "recover"
           /\ Set(t, [known EXCEPT !.pc = "record", !.todo = Recoverable(t)])
           /\ UNCHANGED again
        \/ /\ task[t].kind # "recover" /\ ~LiveReader(t)
           /\ Set(t, [known EXCEPT !.pc = "pick", !.todo = Reclaimable(t)])
           /\ UNCHANGED again
        \/ task[t].kind # "recover" /\ LiveReader(t) /\ Ended(t)
  /\ UNCHANGED <<files, temps, marker, legacy, dir, runVars>>

(* Recovery keeps the generation of the marker if its pair is there.       *)
ReadRecord(p) ==
  /\ At(p, "record")
  /\ LET whole == marker \in Ids /\ Pair(marker) \subseteq files
         kept == IF whole THEN marker ELSE None
     IN Set(p, [task[p] EXCEPT !.seen = marker, !.pc = "pick",
                  !.todo = {e \in @ : e[1] # kept}])
  /\ UNCHANGED <<diskVars, again, runVars>>

(* Temporary files of no live lease; recovery ends, and requests start.    *)
ReclaimTemps(t) ==
  /\ At(t, "temps")
  /\ temps' = {g \in temps : g \notin task[t].tmp \/ Guarded(Proc(t), g)}
  /\ Ended(t)
  /\ UNCHANGED <<files, lease, readers, marker, legacy, dir, runVars>>

(***************************************************************************)
(* Death of a process and its next life.                                   *)
(***************************************************************************)
Die(p) ==
  /\ p \in up /\ faults < MaxFaults /\ faults' = faults + 1
  /\ up' = up \ {p}
  /\ LET gone == {t \in Tasks : Proc(t) = p}
         ids == {task[s].id : s \in gone \cap Slots}
     IN \E left \in classifyLeaseOwner :
          /\ lease' = [g \in Ids |-> IF g \in ids /\ lease[g] = "held"
                                      THEN left ELSE lease[g]]
          /\ readers' = (readers \ gone)
                          \cup {left : r \in readers \cap gone}
          /\ task' = [t \in Tasks |-> IF t \in gone THEN Idle ELSE task[t]]
  /\ again' = [again EXCEPT ![p] = FALSE]
  /\ UNCHANGED <<files, temps, marker, legacy, dir, home, ops>>

Restart(p) ==
  /\ p \notin up /\ (\E s \in Slots : home[s] = p) /\ up' = up \cup {p}
  /\ Set(p, [Idle EXCEPT !.kind = "recover", !.phase = "recover",
                          !.pc = "list"])
  /\ UNCHANGED <<diskVars, again, home, ops, faults>>

Init ==
  /\ legacy \in BOOLEAN /\ dir = ~legacy
  /\ files = IF legacy THEN {} ELSE Pair(0)
  /\ marker = IF legacy THEN None ELSE 0
  /\ temps = {} /\ lease = [g \in Ids |-> "none"] /\ readers = {}
  /\ home \in Homes
  /\ task = [t \in Tasks |-> Idle] /\ again = [p \in Procs |-> FALSE]
  /\ up = {home[s] : s \in Slots} /\ ops = 0 /\ faults = 0

Next ==
  \/ \E s \in Slots :
       \/ \E kind \in {"put", "get", "delete"} : Start(s, kind)
       \/ PutBegin(s) \/ createTempLease(s) \/ WriteTemp(s) \/ RenameFile(s)
       \/ Publish(s) \/ ReleaseLease(s) \/ DropLegacy(s) \/ WriteFails(s)
       \/ DeleteBegin(s) \/ writeCommitRecord(s)
       \/ createReaderLease(s) \/ resolveObject(s) \/ OpenFile(s)
       \/ LegacyBody(s)
  \/ \E t \in Tasks :
       \/ Pick(t) \/ CheckLease(t) \/ CheckReaders(t) \/ CheckMarker(t)
       \/ Unlink(t) \/ ReadRetained(t) \/ ListFiles(t) \/ liveTempLeases(t)
       \/ ReclaimTemps(t)
  \/ \E p \in Procs : ReadRecord(p) \/ Die(p) \/ Restart(p)

Spec == Init /\ [][Next]_vars

(* The generation the marker names has both its files, whoever reclaims,   *)
(* recovers, dies or fails meanwhile.                                      *)
PublishedIntact == marker \in Ids => Pair(marker) \subseteq files

(* Reclaim never takes away what somebody relies on: a reader with a lease *)
(* finds the generation it read from the marker, and a writer finds the    *)
(* temporary file it is about to rename.                                   *)
LeasesRespected ==
  \A s \in Slots :
    /\ task[s].pc \in {"openBody", "openMeta"} /\ s \in readers
         => Pair(task[s].seen) \subseteq files
    /\ task[s].pc \in {"body", "meta", "mark"} => task[s].id \in temps

(* When nothing failed and everything has ended, no superseded file is     *)
(* left: every skipped reclaim was made good by a later one.               *)
QuiescentClean ==
  faults = 0 /\ (\A t \in Tasks : task[t] = Idle)
    => /\ \A e \in files : e[1] = marker
       /\ temps = {}

=============================================================================
