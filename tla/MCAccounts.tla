----------------------------- MODULE MCAccounts -----------------------------
(***************************************************************************)
(* The deletion of an account with its uploads, and the object store that  *)
(* keeps the uploads of a Bun server.  The parts share no state here (the  *)
(* deletion sees a store whose put and delete may come late): a behaviour  *)
(* is one of the part it begins with.                                      *)
(***************************************************************************)
EXTENDS AccountDeletion, TLC

CONSTANTS Procs, Slots, MaxOps, MaxFaults, SlotA, ProcP, ProcQ

\* The leases left by the dead are told from requests and from scans.
ASSUME StoreAssumption ==
  /\ MaxOps \in Nat /\ Slots \cap Procs = {}
  /\ "dead" \notin Slots /\ "unknown" \notin Slots

VARIABLES
  part,
  files, temps, lease, readers, marker, legacy, dir, home, task, again, up,
  ops, faults

(* An owner with one legacy upload, a persona with a new one.              *)
MCUploader == [k \in Keys |-> IF k = "k1" THEN Root ELSE "sub"]

(* Two requests in one process, or in two that share the directory.        *)
MCHomes == [Slots -> Procs] \ {[s \in Slots |-> IF s = SlotA THEN ProcQ ELSE ProcP]}

Store == INSTANCE ObjectStorage WITH Homes <- MCHomes

storeVars == <<files, temps, lease, readers, marker, legacy, dir, home, task,
               again, up, ops, faults>>

(* A part that does not run has no state.                                  *)
NoStore ==
  /\ files = 0 /\ temps = 0 /\ lease = 0 /\ readers = 0 /\ marker = 0
  /\ legacy = 0 /\ dir = 0 /\ home = 0 /\ task = 0 /\ again = 0 /\ up = 0
  /\ ops = 0 /\ faults = 0

MCInit ==
  /\ Init
  /\ \/ part = "deletion" /\ NoStore
     \/ part = "store" /\ Store!Init

DeletionStep == part = "deletion" /\ Next /\ UNCHANGED <<part, storeVars>>
StoreStep == part = "store" /\ Store!Next /\ UNCHANGED <<part, vars>>

MCNext == DeletionStep \/ StoreStep

MCSpec == MCInit /\ [][MCNext]_<<part, vars, storeVars>>

(* Both parts stay what they are when the two workers, the two requests    *)
(* and the two processes change places.                                    *)
Symmetry ==
  {f \in Permutations(Workers \cup Slots \cup Procs) :
     /\ \A S \in {Workers, Slots, Procs} : \A x \in S : f[x] \in S
     /\ \A x, y \in DOMAIN f : f[x] = x <=> f[y] = y}

(* Bytes and rows go together: what a live row names is in the store, and  *)
(* what is in the store has a row, an attempt or a job that will remove it.*)
BlobsAccounted == TypeOK /\ ReferencedBlobKept /\ NoOrphanBytes

(* What the marker names is whole, nothing a reader or a writer relies on  *)
(* is reclaimed, and when nothing runs and nothing failed only what is     *)
(* published is on disk (ObjectStorage).                                   *)
StoreIntact ==
  part = "store" =>
    Store!PublishedIntact /\ Store!LeasesRespected /\ Store!QuiescentClean
=============================================================================
