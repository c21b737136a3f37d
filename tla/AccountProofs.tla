----------------------------- MODULE AccountProofs -----------------------------
(***************************************************************************)
(* What holds of the deletion of accounts and of the media of an account   *)
(* for every set of actors, keys, workers and followers: bytes and rows go *)
(* together, a deleted account leaves nothing behind, and no follow edge   *)
(* is erased before the follower is in the snapshot of the Delete.  And    *)
(* what holds of the object store for every set of requests and processes: *)
(* what is published stays whole, what is relied on stays, and what is     *)
(* superseded goes.                                                        *)
(***************************************************************************)
EXTENDS MCAccounts, WellFoundedInduction, TLAPS

-----------------------------------------------------------------------------
(* The inductive invariant.                                                *)

\* How far the upload of a key is, and what may then be said of it elsewhere.
UploadSound(k) ==
  /\ writer[k] \in {"putting", "stored", "failed"} => attempt[k] = "putting"
  /\ writer[k] \in {"none", "done"} => attempt[k] = "none"
  /\ writer[k] = "stored" => k \in blob
  /\ k \in late => writer[k] = "dead" /\ attempt[k] = "putting"
  /\ k \in cleaning => attempt[k] = "cleanup" /\ k \notin blob
  /\ k \in upload \cup jobs \cup claims \/ life[k] # "none" => writer[k] = "done"

\* A key with its row has its bytes; a key that is fenced is named by nothing,
\* and only fenced keys are drained.
KeySound(k) ==
  /\ UploadSound(k)
  /\ k \in upload => k \in blob /\ ~Fenced(k)
  /\ life[k] # "none" /\ k \notin upload => Fenced(k)
  /\ Fenced(k) => source[k] = {}
  /\ indexed => journal[k] = source[k]
  /\ k \in blob => attempt[k] # "none" \/ k \in upload \/ k \in jobs
  /\ k \in drain.keys => Fenced(k)
  /\ k \in drain.keys /\ drain.at = "ack" => k \notin blob

MediaInv == MediaTypeOK /\ \A k \in Keys : KeySound(k)

\* What is planned, and what is done of it.
ActorSound(a) ==
  /\ target[a] # "none" => actor[a] = "live"
  /\ target[Root] # "none" /\ actor[a] = "live" => target[a] # "none"
  /\ actor[Root] # "live" => actor[a] # "live"
  /\ target[a] = "complete" \/ actor[a] = "deleted" => ~rows[a] /\ followers[a] = {}
  /\ actor[a] = "deleted" =>
       \A k \in KeysOf(a) : attempt[k] = "none" /\ k \notin upload /\ k \notin jobs

\* The stages of a target, in their order: what is done of it from each stage on.
FromObjects == {"objects", "intents", "claim", "delete", "ack", "mark"}
FromIntents == FromObjects \ {"objects"}

\* The holder of the operation, at its target.
HolderSound(w) ==
  LET pc == worker[w].pc  a == worker[w].at IN
  /\ pc \notin {"idle", "next"} => target[a] # "none"
  /\ pc = "edges" => followers[a] \subseteq told[a]
  /\ pc \in FromObjects => followers[a] = {}
  /\ pc \in FromIntents => ~rows[a]
  /\ pc \in {"delete", "ack"} =>
       \A k \in KeysOf(a) : k \notin upload /\ (k \in jobs => Fenced(k))
  /\ pc = "ack" => \A k \in KeysOf(a) : k \in jobs => k \notin blob

WorkerSound(w) == worker[w].token <= tokens /\ (OwnTokens(w) => HolderSound(w))

AccountInv ==
  /\ TypeOK /\ MediaInv /\ op.token <= tokens
  /\ \A a \in Actors : ActorSound(a)
  /\ \A w \in Workers : WorkerSound(w)

-----------------------------------------------------------------------------
(* What every step leaves of the media.                                    *)

\* A step begins no upload and adopts none without admission; a job is for an
\* upload; a fence stays; and bytes come from an upload that is under way.
Lawful(k) ==
  /\ attempt'[k] # "none" => attempt[k] # "none" \/ Admitted(Uploader[k])
  /\ k \in upload' => k \in upload \/ Admitted(Uploader[k])
  /\ k \in jobs' => k \in jobs \/ k \in upload
  /\ Fenced(k) => Fenced(k)'
  /\ k \in blob' => k \in blob \/ attempt[k] # "none"

MediaKept == MediaInv' /\ \A k \in Keys : Lawful(k)

LEMMA MediaUnchanged ==
  ASSUME MediaInv, UNCHANGED mediaVars
  PROVE  MediaKept
BY DEF MediaInv, MediaTypeOK, KeySound, UploadSound, Fenced, Lawful, MediaKept, mediaVars

LEMMA BeginUploadStep ==
  ASSUME MediaInv, NEW k \in Keys, BeginUpload(k)
  PROVE  MediaKept
<1>1. MediaTypeOK'
  BY DEF MediaInv, MediaTypeOK, BeginUpload
<1>2. KeySound(k)' /\ Lawful(k)
  BY DEF MediaInv, MediaTypeOK, KeySound, UploadSound, Fenced, Lawful, BeginUpload
<1>3. ASSUME NEW j \in Keys, j # k
      PROVE  KeySound(j)' /\ Lawful(j)
  BY <1>3 DEF MediaInv, MediaTypeOK, KeySound, UploadSound, Fenced, Lawful, BeginUpload
<1> QED
  BY <1>1, <1>2, <1>3 DEF MediaKept, MediaInv

LEMMA PutSettlesStep ==
  ASSUME MediaInv, NEW k \in Keys, PutSettles(k)
  PROVE  MediaKept
<1>1. MediaTypeOK'
  BY DEF MediaInv, MediaTypeOK, PutSettles
<1>2. KeySound(k)' /\ Lawful(k)
  BY DEF MediaInv, MediaTypeOK, KeySound, UploadSound, Fenced, Lawful, PutSettles
<1>3. ASSUME NEW j \in Keys, j # k
      PROVE  KeySound(j)' /\ Lawful(j)
  BY <1>3 DEF MediaInv, MediaTypeOK, KeySound, UploadSound, Fenced, Lawful, PutSettles
<1> QED
  BY <1>1, <1>2, <1>3 DEF MediaKept, MediaInv

LEMMA WriterDiesStep ==
  ASSUME MediaInv, NEW k \in Keys, WriterDies(k)
  PROVE  MediaKept
<1>1. MediaTypeOK'
  BY DEF MediaInv, MediaTypeOK, WriterDies
<1>2. KeySound(k)' /\ Lawful(k)
  BY DEF MediaInv, MediaTypeOK, KeySound, UploadSound, Fenced, Lawful, WriterDies
<1>3. ASSUME NEW j \in Keys, j # k
      PROVE  KeySound(j)' /\ Lawful(j)
  BY <1>3 DEF MediaInv, MediaTypeOK, KeySound, UploadSound, Fenced, Lawful, WriterDies
<1> QED
  BY <1>1, <1>2, <1>3 DEF MediaKept, MediaInv

LEMMA LatePutStep ==
  ASSUME MediaInv, NEW k \in Keys, LatePut(k)
  PROVE  MediaKept
<1>1. MediaTypeOK'
  BY DEF MediaInv, MediaTypeOK, LatePut
<1>2. KeySound(k)' /\ Lawful(k)
  BY DEF MediaInv, MediaTypeOK, KeySound, UploadSound, Fenced, Lawful, LatePut
<1>3. ASSUME NEW j \in Keys, j # k
      PROVE  KeySound(j)' /\ Lawful(j)
  BY <1>3 DEF MediaInv, MediaTypeOK, KeySound, UploadSound, Fenced, Lawful, LatePut
<1> QED
  BY <1>1, <1>2, <1>3 DEF MediaKept, MediaInv

LEMMA AdoptStep ==
  ASSUME MediaInv, NEW k \in Keys, Adopt(k)
  PROVE  MediaKept
<1>1. MediaTypeOK'
  BY DEF MediaInv, MediaTypeOK, Adopt
<1>2. KeySound(k)' /\ Lawful(k)
  BY DEF MediaInv, MediaTypeOK, KeySound, UploadSound, Fenced, Lawful, Adopt
<1>3. ASSUME NEW j \in Keys, j # k
      PROVE  KeySound(j)' /\ Lawful(j)
  BY <1>3 DEF MediaInv, MediaTypeOK, KeySound, UploadSound, Fenced, Lawful, Adopt
<1> QED
  BY <1>1, <1>2, <1>3 DEF MediaKept, MediaInv

LEMMA SettleStep ==
  ASSUME MediaInv, NEW k \in Keys, Settle(k)
  PROVE  MediaKept
<1>1. MediaTypeOK'
  BY DEF MediaInv, MediaTypeOK, Settle
<1>2. KeySound(k)' /\ Lawful(k)
  BY DEF MediaInv, MediaTypeOK, KeySound, UploadSound, Fenced, Lawful, Settle
<1>3. ASSUME NEW j \in Keys, j # k
      PROVE  KeySound(j)' /\ Lawful(j)
  BY <1>3 DEF MediaInv, MediaTypeOK, KeySound, UploadSound, Fenced, Lawful, Settle
<1> QED
  BY <1>1, <1>2, <1>3 DEF MediaKept, MediaInv

LEMMA CleanupBlobStep ==
  ASSUME MediaInv, NEW k \in Keys, CleanupBlob(k)
  PROVE  MediaKept
<1>1. MediaTypeOK'
  BY DEF MediaInv, MediaTypeOK, CleanupBlob
<1>2. KeySound(k)' /\ Lawful(k)
  BY DEF MediaInv, MediaTypeOK, KeySound, UploadSound, Fenced, Lawful, CleanupBlob
<1>3. ASSUME NEW j \in Keys, j # k
      PROVE  KeySound(j)' /\ Lawful(j)
  BY <1>3 DEF MediaInv, MediaTypeOK, KeySound, UploadSound, Fenced, Lawful, CleanupBlob
<1> QED
  BY <1>1, <1>2, <1>3 DEF MediaKept, MediaInv

LEMMA CleanupAckStep ==
  ASSUME MediaInv, NEW k \in Keys, CleanupAck(k)
  PROVE  MediaKept
<1>1. MediaTypeOK'
  BY DEF MediaInv, MediaTypeOK, CleanupAck
<1>2. KeySound(k)' /\ Lawful(k)
  BY DEF MediaInv, MediaTypeOK, KeySound, UploadSound, Fenced, Lawful, CleanupAck
<1>3. ASSUME NEW j \in Keys, j # k
      PROVE  KeySound(j)' /\ Lawful(j)
  BY <1>3 DEF MediaInv, MediaTypeOK, KeySound, UploadSound, Fenced, Lawful, CleanupAck
<1> QED
  BY <1>1, <1>2, <1>3 DEF MediaKept, MediaInv

LEMMA AttachStep ==
  ASSUME MediaInv, NEW k \in Keys, NEW s \in Sources, Attach(k, s)
  PROVE  MediaKept
<1>1. MediaTypeOK'
  BY DEF MediaInv, MediaTypeOK, Attach, Sources
<1>2. KeySound(k)' /\ Lawful(k)
  BY DEF MediaInv, MediaTypeOK, KeySound, UploadSound, Fenced, Lawful, Attach, Sources
<1>3. ASSUME NEW j \in Keys, j # k
      PROVE  KeySound(j)' /\ Lawful(j)
  BY <1>3 DEF MediaInv, MediaTypeOK, KeySound, UploadSound, Fenced, Lawful, Attach, Sources
<1> QED
  BY <1>1, <1>2, <1>3 DEF MediaKept, MediaInv

LEMMA DetachStep ==
  ASSUME MediaInv, NEW k \in Keys, NEW s \in Sources, Detach(k, s)
  PROVE  MediaKept
<1>1. MediaTypeOK'
  BY DEF MediaInv, MediaTypeOK, Detach, Sources
<1>2. KeySound(k)' /\ Lawful(k)
  BY DEF MediaInv, MediaTypeOK, KeySound, UploadSound, Fenced, Lawful, Detach, Sources
<1>3. ASSUME NEW j \in Keys, j # k
      PROVE  KeySound(j)' /\ Lawful(j)
  BY <1>3 DEF MediaInv, MediaTypeOK, KeySound, UploadSound, Fenced, Lawful, Detach, Sources
<1> QED
  BY <1>1, <1>2, <1>3 DEF MediaKept, MediaInv

LEMMA BackfillStep ==
  ASSUME MediaInv, Backfill
  PROVE  MediaKept
<1>1. MediaTypeOK'
  BY DEF MediaInv, MediaTypeOK, Backfill
<1>2. ASSUME NEW k \in Keys
      PROVE  KeySound(k)' /\ Lawful(k)
  BY DEF MediaInv, MediaTypeOK, KeySound, UploadSound, Fenced, Lawful, Backfill
<1> QED
  BY <1>1, <1>2 DEF MediaKept, MediaInv

LEMMA ClaimStagedStep ==
  ASSUME MediaInv, NEW k \in Keys, ClaimStaged(k)
  PROVE  MediaKept
<1>1. MediaTypeOK'
  BY DEF MediaInv, MediaTypeOK, ClaimStaged
<1>2. KeySound(k)' /\ Lawful(k)
  BY DEF MediaInv, MediaTypeOK, KeySound, UploadSound, Fenced, Lawful, ClaimStaged
<1>3. ASSUME NEW j \in Keys, j # k
      PROVE  KeySound(j)' /\ Lawful(j)
  BY <1>3 DEF MediaInv, MediaTypeOK, KeySound, UploadSound, Fenced, Lawful, ClaimStaged
<1> QED
  BY <1>1, <1>2, <1>3 DEF MediaKept, MediaInv

LEMMA DrainClaimStep ==
  ASSUME MediaInv, DrainClaim
  PROVE  MediaKept
<1>1. MediaTypeOK'
  BY DEF MediaInv, MediaTypeOK, DrainClaim, Claimable, Claimed
<1>2. ASSUME NEW k \in Keys
      PROVE  KeySound(k)' /\ Lawful(k)
  BY DEF MediaInv, MediaTypeOK, KeySound, UploadSound, Fenced, Lawful, DrainClaim, Claimable, Claimed
<1> QED
  BY <1>1, <1>2 DEF MediaKept, MediaInv

LEMMA DrainDeleteStep ==
  ASSUME MediaInv, DrainDelete
  PROVE  MediaKept
<1>1. MediaTypeOK'
  BY DEF MediaInv, MediaTypeOK, DrainDelete
<1>2. ASSUME NEW k \in Keys
      PROVE  KeySound(k)' /\ Lawful(k)
  BY DEF MediaInv, MediaTypeOK, KeySound, UploadSound, Fenced, Lawful, DrainDelete
<1> QED
  BY <1>1, <1>2 DEF MediaKept, MediaInv

LEMMA DrainAckStep ==
  ASSUME MediaInv, DrainAck
  PROVE  MediaKept
<1>1. MediaTypeOK'
  BY DEF MediaInv, MediaTypeOK, DrainAck
<1>2. ASSUME NEW k \in Keys
      PROVE  KeySound(k)' /\ Lawful(k)
  BY DEF MediaInv, MediaTypeOK, KeySound, UploadSound, Fenced, Lawful, DrainAck
<1> QED
  BY <1>1, <1>2 DEF MediaKept, MediaInv

LEMMA DrainFailsStep ==
  ASSUME MediaInv, DrainFails
  PROVE  MediaKept
<1>1. MediaTypeOK'
  BY DEF MediaInv, MediaTypeOK, DrainFails
<1>2. ASSUME NEW k \in Keys
      PROVE  KeySound(k)' /\ Lawful(k)
  BY DEF MediaInv, MediaTypeOK, KeySound, UploadSound, Fenced, Lawful, DrainFails
<1> QED
  BY <1>1, <1>2 DEF MediaKept, MediaInv

LEMMA MediaStep ==
  ASSUME MediaInv, MediaNext
  PROVE  MediaKept
<1>1. ASSUME NEW k \in Keys, NEW s \in Sources, Attach(k, s) \/ Detach(k, s)
      PROVE  MediaKept
  BY <1>1, AttachStep, DetachStep
<1>2. ASSUME NEW k \in Keys,
             \/ BeginUpload(k) \/ PutSettles(k) \/ WriterDies(k) \/ LatePut(k)
             \/ Adopt(k) \/ Settle(k) \/ CleanupBlob(k) \/ CleanupAck(k) \/ ClaimStaged(k)
      PROVE  MediaKept
  BY <1>2, BeginUploadStep, PutSettlesStep, WriterDiesStep, LatePutStep, AdoptStep,
     SettleStep, CleanupBlobStep, CleanupAckStep, ClaimStagedStep
<1> QED
  BY <1>1, <1>2, BackfillStep, DrainClaimStep, DrainDeleteStep, DrainAckStep,
     DrainFailsStep DEF MediaNext

-----------------------------------------------------------------------------
(* Frames of the deletion.                                                 *)

\* Of a target, and of what was deleted, things are only erased.
ErasureOnly ==
  \A a \in Actors : target[a] # "none" \/ actor[a] = "deleted" =>
    /\ rows'[a] => rows[a]
    /\ followers'[a] \subseteq followers[a] /\ told[a] \subseteq told'[a]

Work == [pc : {"idle", "next", "snapshot", "edges", "objects", "intents", "claim",
               "delete", "ack", "mark"},
         token : 0..MaxTokens, at : Actors]

WorkTypes ==
  /\ op \in [token : 0..MaxTokens, held : BOOLEAN] /\ tokens \in 0..MaxTokens
  /\ worker \in [Workers -> Work]
  /\ rows \in [Actors -> BOOLEAN]
  /\ followers \in [Actors -> SUBSET Peers] /\ told \in [Actors -> SUBSET Peers]

LEMMA ActorsStay ==
  ASSUME AccountInv, MediaKept, UNCHANGED <<actor, target>>, ErasureOnly
  PROVE  \A a \in Actors : ActorSound(a)'
<1> SUFFICES ASSUME NEW a \in Actors
             PROVE  ActorSound(a)'
  OBVIOUS
<1>1. ActorSound(a) /\ ActorSound(Root) /\ Root \in Actors
  BY MediaAssumption DEF AccountInv
<1>2. ASSUME actor[a] = "deleted", NEW k \in KeysOf(a)
      PROVE  attempt'[k] = "none" /\ k \notin upload' /\ k \notin jobs'
  <2>1. k \in Keys /\ Lawful(k) /\ ~Admitted(Uploader[k])
    BY <1>2 DEF KeysOf, MediaKept, Admitted
  <2> QED
    BY <1>1, <1>2, <2>1 DEF ActorSound, Lawful
<1> QED
  BY <1>1, <1>2 DEF ActorSound, ErasureOnly, KeysOf

\* A worker that takes no part in a step.
LEMMA HolderStays ==
  ASSUME AccountInv, MediaKept, WorkTypes', NEW v \in Workers, worker'[v] = worker[v],
         tokens <= tokens',
         OwnTokens(v)' => OwnTokens(v) /\ UNCHANGED target /\ ErasureOnly
  PROVE  WorkerSound(v)'
<1>1. worker'[v].token <= tokens'
  <2>1. worker[v].token <= tokens
    BY DEF AccountInv, WorkerSound
  <2>2. worker[v].token \in Int /\ tokens \in Int /\ tokens' \in Int
    BY DEF AccountInv, TypeOK, WorkTypes, Work
  <2> QED
    BY <2>1, <2>2
<1>2. ASSUME OwnTokens(v)'
      PROVE  HolderSound(v)'
  <2>1. OwnTokens(v) /\ UNCHANGED target /\ ErasureOnly /\ HolderSound(v)
    BY <1>2 DEF AccountInv, WorkerSound
  <2>2. worker[v].at \in Actors
    BY DEF AccountInv, TypeOK
  <2>3. ASSUME worker[v].pc \in {"delete", "ack"}, NEW k \in KeysOf(worker[v].at)
        PROVE  /\ k \notin upload' /\ (k \in jobs' => Fenced(k)')
               /\ worker[v].pc = "ack" => (k \in jobs' => k \notin blob')
    <3>1. k \in Keys /\ Lawful(k) /\ ~Admitted(Uploader[k]) /\ KeySound(k)
      BY <2>1, <2>2, <2>3 DEF KeysOf, MediaKept, Admitted, NotReserved, HolderSound,
         AccountInv, MediaInv
    <3> QED
      BY <2>1, <2>3, <3>1 DEF HolderSound, Lawful, KeySound, UploadSound
  <2> QED
    BY <2>1, <2>2, <2>3 DEF HolderSound, ErasureOnly, KeysOf, FromObjects, FromIntents
<1> QED
  BY <1>1, <1>2 DEF WorkerSound

\* A step of w, or of none, that plans and completes nothing.
LEMMA WorkFrame ==
  ASSUME AccountInv, MediaKept, WorkTypes', UNCHANGED <<actor, target>>, ErasureOnly,
         tokens <= tokens', op'.token <= tokens',
         NEW w, \A v \in Workers : v # w => worker'[v] = worker[v] /\ (OwnTokens(v)' => OwnTokens(v)),
         w \in Workers => WorkerSound(w)'
  PROVE  AccountInv'
<1>1. TypeOK'
  BY DEF AccountInv, TypeOK, MediaKept, MediaInv, WorkTypes, Work
<1>2. \A v \in Workers : v # w => WorkerSound(v)'
  BY HolderStays
<1> QED
  BY <1>1, <1>2, ActorsStay DEF AccountInv, MediaKept

-----------------------------------------------------------------------------
(* The steps of ordinary life.                                             *)

LEMMA Types ==
  ASSUME AccountInv
  PROVE  /\ WorkTypes /\ MediaInv /\ op.token <= tokens
         /\ actor \in [Actors -> {"absent", "live", "deleted"}]
         /\ target \in [Actors -> {"none", "reserved", "complete"}]
BY DEF AccountInv, TypeOK, WorkTypes, Work

LEMMA MediaNextStep ==
  ASSUME AccountInv, MediaNext, UNCHANGED <<actor, target, workVars>>
  PROVE  AccountInv'
<1>1. MediaKept /\ WorkTypes'
  BY Types, MediaStep DEF workVars, WorkTypes
<1>2. ErasureOnly /\ tokens <= tokens' /\ op'.token <= tokens'
  BY Types DEF ErasureOnly, workVars, WorkTypes
<1> QED
  BY <1>1, <1>2, WorkFrame, HolderStays DEF workVars, OwnTokens

LEMMA WriteRowsStep ==
  ASSUME AccountInv, NEW a \in Actors, WriteRows(a)
  PROVE  AccountInv'
<1>1. MediaKept /\ WorkTypes'
  BY Types, MediaUnchanged DEF WriteRows, WorkTypes
<1>2. ErasureOnly /\ tokens <= tokens' /\ op'.token <= tokens'
  BY Types DEF ErasureOnly, WriteRows, WorkTypes, Admitted, NotReserved
<1> QED
  BY <1>1, <1>2, WorkFrame, HolderStays DEF WriteRows, OwnTokens

LEMMA FollowEdgeStep ==
  ASSUME AccountInv, NEW a \in Actors, NEW p \in Peers, FollowEdge(a, p)
  PROVE  AccountInv'
<1>1. MediaKept /\ WorkTypes'
  BY Types, MediaUnchanged DEF FollowEdge, WorkTypes
<1>2. ErasureOnly /\ tokens <= tokens' /\ op'.token <= tokens'
  BY Types DEF ErasureOnly, FollowEdge, WorkTypes
<1> QED
  BY <1>1, <1>2, WorkFrame, HolderStays DEF FollowEdge, OwnTokens

LEMMA CreatePersonaStep ==
  ASSUME AccountInv, NEW a \in Actors, CreatePersona(a)
  PROVE  AccountInv'
<1>1. MediaKept /\ WorkTypes' /\ actor' \in [Actors -> {"absent", "live", "deleted"}]
  BY Types, MediaUnchanged DEF CreatePersona, WorkTypes
<1>2. ErasureOnly /\ tokens <= tokens' /\ op'.token <= tokens'
  BY Types DEF ErasureOnly, CreatePersona, WorkTypes, Admitted, NotReserved, AccountInv, ActorSound
<1>3. \A v \in Workers : WorkerSound(v)'
  BY <1>1, <1>2, HolderStays DEF CreatePersona, OwnTokens
<1>4. TypeOK'
  BY <1>1, Types DEF TypeOK, MediaKept, MediaInv, WorkTypes, Work, CreatePersona
<1>5. \A b \in Actors : ActorSound(b)'
  BY Types, MediaAssumption
     DEF AccountInv, ActorSound, CreatePersona, Admitted, NotReserved, KeysOf, mediaVars, WorkTypes
<1> QED
  BY <1>1, <1>2, <1>3, <1>4, <1>5 DEF AccountInv, MediaKept

-----------------------------------------------------------------------------
(* The steps of the operation.                                             *)

\* A worker that begins draws a token nobody has, and so takes the operation over.
LEMMA StartIs ==
  ASSUME AccountInv, NEW w \in Workers, tokens < MaxTokens, Start(w)
  PROVE  /\ op' \in [token : 0..MaxTokens, held : BOOLEAN] /\ tokens' \in 0..MaxTokens
         /\ worker' \in [Workers -> Work]
         /\ tokens <= tokens' /\ op'.token <= tokens'
         /\ worker'[w].token <= tokens' /\ worker'[w].pc = "next"
         /\ \A v \in Workers : v # w => worker'[v] = worker[v] /\ ~OwnTokens(v)'
<1>1. /\ worker' = [worker EXCEPT ![w] = [pc |-> "next", token |-> tokens + 1, at |-> Root]]
      /\ tokens' = tokens + 1 /\ op' = [token |-> tokens + 1, held |-> TRUE]
  BY DEF Start
<1>2. tokens + 1 \in 0..MaxTokens /\ tokens \in Nat
  BY Types, DeletionAssumption DEF WorkTypes
<1>3. \A v \in Workers : worker[v].token \in Nat /\ worker[v].token <= tokens
  BY Types DEF WorkTypes, Work, AccountInv, WorkerSound
<1> QED
  BY <1>1, <1>2, <1>3, Types, MediaAssumption DEF WorkTypes, Work, OwnTokens

LEMMA ReserveStep ==
  ASSUME AccountInv, NEW w \in Workers, Reserve(w)
  PROVE  AccountInv'
<1>1. PICK r \in Actors :
        /\ actor[r] = "live"
        /\ target' = [a \in Actors |-> IF actor[a] = "live" /\ r \in {a, Root}
                                         THEN "reserved" ELSE target[a]]
  BY DEF Reserve
<1>2. /\ op.token = 0 /\ tokens < MaxTokens /\ Start(w)
      /\ UNCHANGED <<mediaVars, actor, rows, followers, told>>
  BY DEF Reserve
<1>3. MediaKept
  BY <1>2, Types, MediaUnchanged
<1>4. WorkTypes' /\ target' \in [Actors -> {"none", "reserved", "complete"}]
  BY <1>1, <1>2, Types, StartIs DEF WorkTypes
<1>5. TypeOK'
  BY <1>2, <1>3, <1>4, Types DEF TypeOK, MediaKept, MediaInv, WorkTypes, Work
<1>6. \A v \in Workers : v # w => WorkerSound(v)'
  BY <1>2, <1>3, <1>4, StartIs, HolderStays
<1>7. WorkerSound(w)'
  BY <1>2, StartIs DEF WorkerSound, HolderSound, FromObjects, FromIntents
<1>8. \A a \in Actors : ActorSound(a)'
  BY <1>1, <1>2, Types, MediaAssumption DEF AccountInv, ActorSound, KeysOf, mediaVars, WorkTypes
<1> QED
  BY <1>2, <1>3, <1>5, <1>6, <1>7, <1>8, StartIs DEF AccountInv, MediaKept

LEMMA ClaimExpiredStep ==
  ASSUME AccountInv, NEW w \in Workers, ClaimExpired(w)
  PROVE  AccountInv'
<1>1. /\ tokens < MaxTokens /\ Start(w)
      /\ UNCHANGED <<mediaVars, actor, target, rows, followers, told>>
  BY DEF ClaimExpired
<1>2. MediaKept /\ WorkTypes'
  BY <1>1, Types, MediaUnchanged, StartIs DEF WorkTypes
<1>3. ErasureOnly
  BY <1>1, Types DEF ErasureOnly, WorkTypes
<1>4. WorkerSound(w)'
  BY <1>1, StartIs DEF WorkerSound, HolderSound, FromObjects, FromIntents
<1> QED
  BY <1>1, <1>2, <1>3, <1>4, StartIs, WorkFrame

LEMMA LeaseExpiresStep ==
  ASSUME AccountInv, LeaseExpires
  PROVE  AccountInv'
<1>1. MediaKept /\ WorkTypes'
  BY Types, MediaUnchanged DEF LeaseExpires, WorkTypes
<1>2. ErasureOnly /\ tokens <= tokens' /\ op'.token <= tokens'
  BY Types DEF ErasureOnly, LeaseExpires, WorkTypes
<1>3. UNCHANGED <<actor, target, worker>> /\ op'.token = op.token
  BY Types DEF LeaseExpires, WorkTypes
<1> QED
  BY <1>1, <1>2, <1>3, WorkFrame, HolderStays DEF OwnTokens

LEMMA FailStep ==
  ASSUME AccountInv, NEW w \in Workers, Fail(w)
  PROVE  AccountInv'
<1>1. MediaKept /\ WorkTypes'
  <2>1. Idle \in Work
    BY MediaAssumption, DeletionAssumption DEF Idle, Work
  <2>2. worker' \in [Workers -> Work]
    BY <2>1, Types DEF Fail, WorkTypes
  <2>3. op' \in [token : 0..MaxTokens, held : BOOLEAN]
    BY Types DEF Fail, WorkTypes
  <2> QED
    BY <2>2, <2>3, Types, MediaUnchanged DEF Fail, WorkTypes
<1>2. ErasureOnly /\ tokens <= tokens' /\ op'.token <= tokens'
  BY Types DEF ErasureOnly, Fail, WorkTypes
<1>3. /\ UNCHANGED <<actor, target>> /\ op'.token = op.token
      /\ \A v \in Workers : v # w => worker'[v] = worker[v]
  BY Types DEF Fail, WorkTypes
<1>4. worker'[w] = Idle /\ op'.token \in Nat /\ tokens' \in Nat
  BY <1>1, Types DEF Fail, WorkTypes
<1>5. WorkerSound(w)'
  BY <1>4 DEF WorkerSound, OwnTokens, Idle
<1> QED
  BY <1>1, <1>2, <1>3, <1>5, WorkFrame DEF OwnTokens

\* A step of the holder at its target: what is left to show is what holds from
\* its next stage on.
LEMMA HolderFrame ==
  ASSUME AccountInv, MediaKept, UNCHANGED <<actor, target, op, tokens>>, ErasureOnly,
         rows' \in [Actors -> BOOLEAN], followers' \in [Actors -> SUBSET Peers],
         told' \in [Actors -> SUBSET Peers],
         NEW w \in Workers, worker' \in [Workers -> Work],
         worker'[w].token = worker[w].token, \A v \in Workers : v # w => worker'[v] = worker[v],
         OwnTokens(w) => HolderSound(w)'
  PROVE  AccountInv'
<1>1. WorkTypes'
  BY Types DEF WorkTypes
<1>2. WorkerSound(w)'
  BY DEF AccountInv, WorkerSound, OwnTokens
<1>3. tokens <= tokens' /\ op'.token <= tokens'
  BY Types DEF WorkTypes
<1> QED
  BY <1>1, <1>2, <1>3, WorkFrame DEF OwnTokens

\* w goes on to another stage, or to another target.
LEMMA MovesTo ==
  ASSUME AccountInv, NEW w \in Workers,
         NEW pc \in {"next", "snapshot", "edges", "objects", "intents", "claim", "delete",
                     "ack", "mark"},
         NEW a \in Actors,
         worker'  = [worker EXCEPT ![w].pc = pc, ![w].at = a]
  PROVE  /\ worker' \in [Workers -> Work] /\ worker'[w].token = worker[w].token
         /\ worker'[w].pc = pc /\ worker'[w].at = a
         /\ \A v \in Workers : v # w => worker'[v] = worker[v]
<1>1. worker \in [Workers -> Work] /\ worker[w] \in Work
  BY Types DEF WorkTypes
<1>2. PICK new : new = [worker[w] EXCEPT !.pc = pc, !.at = a]
  OBVIOUS
<1>3. new \in Work /\ new.pc = pc /\ new.at = a /\ new.token = worker[w].token
  BY <1>1, <1>2 DEF Work
<1>4. worker' = [worker EXCEPT ![w] = new]
  BY <1>1, <1>2
<1> QED
  BY <1>1, <1>3, <1>4

LEMMA StepIs ==
  ASSUME AccountInv, NEW w \in Workers,
         NEW pc \in {"next", "snapshot", "edges", "objects", "intents", "claim", "delete",
                     "ack", "mark"},
         Step(w, pc)
  PROVE  /\ worker' \in [Workers -> Work] /\ worker'[w].token = worker[w].token
         /\ worker'[w].pc = pc /\ worker'[w].at = worker[w].at /\ worker[w].at \in Actors
         /\ \A v \in Workers : v # w => worker'[v] = worker[v]
<1>1. worker \in [Workers -> Work] /\ worker[w] \in Work
  BY Types DEF WorkTypes
<1>2. PICK new : new = [worker[w] EXCEPT !.pc = pc]
  OBVIOUS
<1>3. new \in Work /\ new.pc = pc /\ new.at = worker[w].at /\ new.token = worker[w].token
  BY <1>1, <1>2 DEF Work
<1>4. worker' = [worker EXCEPT ![w] = new]
  BY <1>1, <1>2 DEF Step
<1> QED
  BY <1>1, <1>3, <1>4 DEF Work

LEMMA NextTargetStep ==
  ASSUME AccountInv, NEW w \in Workers, NextTarget(w)
  PROVE  AccountInv'
<1>1. PICK a \in Pending : worker' = [worker EXCEPT ![w].pc = "snapshot", ![w].at = a]
  BY DEF NextTarget
<1>2. UNCHANGED <<mediaVars, actor, target, op, tokens, rows, followers, told>>
  BY DEF NextTarget
<1>3. MediaKept /\ ErasureOnly
  BY <1>2, Types, MediaUnchanged DEF ErasureOnly, WorkTypes
<1>4. a \in Actors /\ target[a] # "none" /\ worker'[w].pc = "snapshot" /\ worker'[w].at = a
  BY <1>1, Types, MovesTo DEF Pending, WorkTypes
<1>5. HolderSound(w)'
  BY <1>2, <1>4 DEF HolderSound, FromObjects, FromIntents
<1> QED
  BY <1>1, <1>2, <1>3, <1>4, <1>5, Types, MovesTo, HolderFrame DEF WorkTypes

LEMMA SnapshotStep ==
  ASSUME AccountInv, NEW w \in Workers, Snapshot(w)
  PROVE  AccountInv'
<1>1. /\ worker[w].pc = "snapshot" /\ Authority(w) /\ Step(w, "edges")
      /\ told' = [told EXCEPT ![worker[w].at] = @ \union followers[worker[w].at]]
      /\ UNCHANGED <<mediaVars, actor, target, op, tokens, rows, followers>>
  BY DEF Snapshot
<1>2. MediaKept /\ ErasureOnly /\ told' \in [Actors -> SUBSET Peers]
  BY <1>1, Types, MediaUnchanged, StepIs DEF ErasureOnly, WorkTypes
<1>3. HolderSound(w)'
  BY <1>1, StepIs, Types
     DEF AccountInv, WorkerSound, HolderSound, Authority, FromObjects, FromIntents, WorkTypes
<1> QED
  BY <1>1, <1>2, <1>3, StepIs, Types, HolderFrame DEF WorkTypes

LEMMA RemoveEdgesStep ==
  ASSUME AccountInv, NEW w \in Workers, RemoveEdges(w)
  PROVE  AccountInv'
<1>1. /\ worker[w].pc = "edges" /\ Authority(w) /\ Step(w, "objects")
      /\ followers' = [followers EXCEPT ![worker[w].at] = {}]
      /\ UNCHANGED <<mediaVars, actor, target, op, tokens, rows, told>>
  BY DEF RemoveEdges
<1>2. MediaKept /\ ErasureOnly /\ followers' \in [Actors -> SUBSET Peers]
  BY <1>1, Types, MediaUnchanged, StepIs DEF ErasureOnly, WorkTypes
<1>3. HolderSound(w)'
  BY <1>1, StepIs, Types
     DEF AccountInv, WorkerSound, HolderSound, Authority, FromObjects, FromIntents, WorkTypes
<1> QED
  BY <1>1, <1>2, <1>3, StepIs, Types, HolderFrame DEF WorkTypes

LEMMA RemoveObjectsStep ==
  ASSUME AccountInv, NEW w \in Workers, RemoveObjects(w)
  PROVE  AccountInv'
<1> PICK named : named = {k \in KeysOf(worker[w].at) : "own" \in source[k]}
  OBVIOUS
<1>1. /\ worker[w].pc = "objects" /\ Authority(w) /\ Step(w, "intents")
      /\ rows' = [rows EXCEPT ![worker[w].at] = FALSE]
      /\ source' = [k \in Keys |-> IF k \in named THEN source[k] \ {"own"} ELSE source[k]]
      /\ journal' = [k \in Keys |-> IF k \in named THEN journal[k] \ {"own"} ELSE journal[k]]
      /\ jobs' = jobs \union (named \intersect upload)
      /\ UNCHANGED <<attempt, writer, late, blob, upload, life, indexed, claims,
                     cleaning, drain, actor, target, op, tokens, followers, told>>
  BY DEF RemoveObjects
<1>2. MediaKept
  <2>1. MediaTypeOK'
    BY <1>1, Types DEF MediaInv, MediaTypeOK, Sources
  <2>2. ASSUME NEW k \in Keys
        PROVE  KeySound(k)' /\ Lawful(k)
    BY <1>1, Types DEF MediaInv, MediaTypeOK, KeySound, UploadSound, Fenced, Lawful
  <2> QED
    BY <2>1, <2>2 DEF MediaKept, MediaInv
<1>3. ErasureOnly /\ rows' \in [Actors -> BOOLEAN]
  BY <1>1, Types, StepIs DEF ErasureOnly, WorkTypes
<1>4. HolderSound(w)'
  BY <1>1, StepIs, Types
     DEF AccountInv, WorkerSound, HolderSound, Authority, FromObjects, FromIntents, WorkTypes
<1> QED
  BY <1>1, <1>2, <1>3, <1>4, StepIs, Types, HolderFrame DEF WorkTypes

LEMMA MediaIntentsStep ==
  ASSUME AccountInv, NEW w \in Workers, MediaIntents(w)
  PROVE  AccountInv'
<1>1. /\ worker[w].pc = "intents" /\ Authority(w) /\ Step(w, "claim")
      /\ jobs' = jobs \union (KeysOf(worker[w].at) \intersect upload)
      /\ UNCHANGED <<attempt, writer, late, blob, upload, life, source, journal, indexed,
                     claims, cleaning, drain, actor, target, op, tokens, rows, followers, told>>
  BY DEF MediaIntents
<1>2. MediaKept
  <2>1. MediaTypeOK'
    BY <1>1, Types DEF MediaInv, MediaTypeOK, KeysOf
  <2>2. ASSUME NEW k \in Keys
        PROVE  KeySound(k)' /\ Lawful(k)
    BY <1>1, Types DEF MediaInv, MediaTypeOK, KeySound, UploadSound, Fenced, Lawful
  <2> QED
    BY <2>1, <2>2 DEF MediaKept, MediaInv
<1>3. ErasureOnly
  BY <1>1 DEF ErasureOnly
<1>4. HolderSound(w)'
  BY <1>1, StepIs
     DEF AccountInv, WorkerSound, HolderSound, Authority, FromObjects, FromIntents
<1> QED
  BY <1>1, <1>2, <1>3, <1>4, StepIs, Types, HolderFrame DEF WorkTypes

LEMMA MediaClaimStep ==
  ASSUME AccountInv, NEW w \in Workers, MediaClaim(w)
  PROVE  AccountInv'
<1> PICK mine : mine = KeysOf(worker[w].at) \intersect (jobs \union upload)
  OBVIOUS
<1> PICK won : won = {k \in mine : Claimable(k)}
  OBVIOUS
<1>1. /\ worker[w].pc = "claim" /\ Authority(w) /\ Step(w, "delete")
      /\ \A k \in mine \ won : Claimed(k)
      /\ claims' = claims \union won /\ upload' = upload \ won
      /\ UNCHANGED <<attempt, writer, late, blob, life, source, journal, indexed, jobs,
                     cleaning, drain, actor, target, op, tokens, rows, followers, told>>
  BY DEF MediaClaim
<1>2. MediaKept
  <2>1. MediaTypeOK'
    BY <1>1, Types DEF MediaInv, MediaTypeOK, Claimable, KeysOf
  <2>2. ASSUME NEW k \in Keys
        PROVE  KeySound(k)' /\ Lawful(k)
    BY <1>1, Types
       DEF MediaInv, MediaTypeOK, KeySound, UploadSound, Fenced, Lawful, Claimable
  <2> QED
    BY <2>1, <2>2 DEF MediaKept, MediaInv
<1>3. ErasureOnly
  BY <1>1 DEF ErasureOnly
<1>4. ASSUME NEW k \in KeysOf(worker[w].at)
      PROVE  k \notin upload' /\ (k \in jobs' => Fenced(k)')
  <2>1. k \in Keys /\ KeySound(k)
    BY Types DEF KeysOf, MediaInv
  <2> QED
    BY <1>1, <2>1 DEF Claimed, Fenced, KeySound
<1>5. HolderSound(w)'
  BY <1>1, <1>4, StepIs
     DEF AccountInv, WorkerSound, HolderSound, Authority, FromObjects, FromIntents, KeysOf
<1> QED
  BY <1>1, <1>2, <1>3, <1>5, StepIs, Types, HolderFrame DEF WorkTypes

LEMMA MediaDeleteStep ==
  ASSUME AccountInv, NEW w \in Workers, MediaDelete(w)
  PROVE  AccountInv'
<1>1. /\ worker[w].pc = "delete" /\ Step(w, "ack")
      /\ blob' = blob \ {k \in KeysOf(worker[w].at) : Claimed(k)}
      /\ UNCHANGED <<attempt, writer, late, upload, life, source, journal, indexed, jobs,
                     claims, cleaning, drain, actor, target, op, tokens, rows, followers, told>>
  BY DEF MediaDelete
<1>2. MediaKept
  <2>1. MediaTypeOK'
    BY <1>1, Types DEF MediaInv, MediaTypeOK
  <2>2. ASSUME NEW k \in Keys
        PROVE  KeySound(k)' /\ Lawful(k)
    BY <1>1, Types
       DEF MediaInv, MediaTypeOK, KeySound, UploadSound, Fenced, Lawful, Claimed
  <2> QED
    BY <2>1, <2>2 DEF MediaKept, MediaInv
<1>3. ErasureOnly
  BY <1>1 DEF ErasureOnly
<1>4. OwnTokens(w) => HolderSound(w)'
  BY <1>1, StepIs
     DEF AccountInv, WorkerSound, HolderSound, Claimed, Fenced, FromObjects, FromIntents, KeysOf
<1> QED
  BY <1>1, <1>2, <1>3, <1>4, StepIs, Types, HolderFrame DEF WorkTypes

LEMMA MediaAckStep ==
  ASSUME AccountInv, NEW w \in Workers, MediaAck(w)
  PROVE  AccountInv'
<1>1. /\ worker[w].pc = "ack" /\ Authority(w) /\ Step(w, "mark")
      /\ jobs' = jobs \ {k \in KeysOf(worker[w].at) : Claimed(k)}
      /\ UNCHANGED <<attempt, writer, late, blob, upload, life, source, journal, indexed,
                     claims, cleaning, drain, actor, target, op, tokens, rows, followers, told>>
  BY DEF MediaAck
<1>2. MediaKept
  <2>1. MediaTypeOK'
    BY <1>1, Types DEF MediaInv, MediaTypeOK
  <2>2. ASSUME NEW k \in Keys
        PROVE  KeySound(k)' /\ Lawful(k)
    BY <1>1, Types
       DEF MediaInv, MediaTypeOK, KeySound, UploadSound, Fenced, Lawful, Claimed,
           AccountInv, WorkerSound, HolderSound, Authority
  <2> QED
    BY <2>1, <2>2 DEF MediaKept, MediaInv
<1>3. ErasureOnly
  BY <1>1 DEF ErasureOnly
<1>4. HolderSound(w)'
  BY <1>1, StepIs
     DEF AccountInv, WorkerSound, HolderSound, Authority, FromObjects, FromIntents
<1> QED
  BY <1>1, <1>2, <1>3, <1>4, StepIs, Types, HolderFrame DEF WorkTypes

LEMMA MarkCompleteStep ==
  ASSUME AccountInv, NEW w \in Workers, MarkComplete(w)
  PROVE  AccountInv'
<1>1. /\ worker[w].pc = "mark" /\ Authority(w) /\ Step(w, "next")
      /\ target' = [target EXCEPT ![worker[w].at] = "complete"]
      /\ UNCHANGED <<mediaVars, actor, op, tokens, rows, followers, told>>
  BY DEF MarkComplete
<1>2. MediaKept /\ WorkTypes' /\ target' \in [Actors -> {"none", "reserved", "complete"}]
  BY <1>1, Types, MediaUnchanged, StepIs DEF WorkTypes
<1>3. TypeOK'
  BY <1>1, <1>2, Types DEF TypeOK, MediaKept, MediaInv, WorkTypes, Work
<1>4. HolderSound(w)
  BY <1>1 DEF AccountInv, WorkerSound, Authority
<1>5. \A a \in Actors : ActorSound(a)'
  BY <1>1, <1>4, Types, StepIs, MediaAssumption
     DEF AccountInv, ActorSound, HolderSound, KeysOf, mediaVars, FromObjects, FromIntents
<1>6. WorkerSound(w)'
  BY <1>1, StepIs, Types
     DEF AccountInv, WorkerSound, HolderSound, FromObjects, FromIntents
<1>7. ASSUME NEW v \in Workers, v # w
      PROVE  WorkerSound(v)'
  <2>1. worker'[v] = worker[v] /\ worker[v].at \in Actors
    BY <1>1, <1>7, StepIs, Types DEF WorkTypes, Work
  <2>2. \A a \in Actors : target[a] # "none" => target'[a] # "none"
    BY <1>1, Types
  <2> QED
    BY <1>1, <2>1, <2>2
       DEF AccountInv, WorkerSound, HolderSound, OwnTokens, KeysOf, Fenced, mediaVars
<1> QED
  BY <1>1, <1>2, <1>3, <1>5, <1>6, <1>7 DEF AccountInv, MediaKept

LEMMA FinalizeStep ==
  ASSUME AccountInv, NEW w \in Workers, Finalize(w)
  PROVE  AccountInv'
<1>1. /\ Pending = {} /\ op' = NoOp /\ worker' = [worker EXCEPT ![w] = Idle]
      /\ \A a \in Targets : \A k \in KeysOf(a) :
           attempt[k] = "none" /\ k \notin upload /\ k \notin jobs
      /\ actor' = [a \in Actors |-> IF a \in Targets THEN "deleted" ELSE actor[a]]
      /\ target' = [a \in Actors |-> "none"]
      /\ UNCHANGED <<mediaVars, tokens, rows, followers, told>>
  BY DEF Finalize
<1>2. MediaKept
  BY <1>1, Types, MediaUnchanged
<1>3. /\ WorkTypes' /\ actor' \in [Actors -> {"absent", "live", "deleted"}]
      /\ target' \in [Actors -> {"none", "reserved", "complete"}]
  <2>1. Idle \in Work /\ NoOp \in [token : 0..MaxTokens, held : BOOLEAN]
    BY MediaAssumption, DeletionAssumption DEF Idle, NoOp, Work
  <2> QED
    BY <1>1, <2>1, Types DEF WorkTypes
<1>4. TypeOK'
  BY <1>2, <1>3 DEF TypeOK, MediaKept, MediaInv, WorkTypes, Work
<1>5. \A a \in Targets : target[a] = "complete"
  BY <1>1, Types DEF Targets, Pending
<1>6. \A a \in Actors : ActorSound(a)'
  BY <1>1, <1>5, Types, MediaAssumption
     DEF AccountInv, ActorSound, KeysOf, mediaVars, Targets
<1>7. op'.token = 0 /\ tokens' = tokens /\ 0 <= tokens
  BY <1>1, Types DEF NoOp, WorkTypes
<1>8. ASSUME NEW v \in Workers
      PROVE  WorkerSound(v)'
  <2>1. worker'[v] = worker[v] \/ worker'[v].token = 0
    BY <1>1, Types DEF WorkTypes, Idle
  <2> QED
    BY <1>7, <2>1 DEF AccountInv, WorkerSound, OwnTokens
<1> QED
  BY <1>2, <1>4, <1>6, <1>7, <1>8 DEF AccountInv, MediaKept

-----------------------------------------------------------------------------
(* The theorems.                                                           *)

LEMMA AccountInitially == Init => AccountInv
<1> SUFFICES ASSUME Init PROVE AccountInv
  OBVIOUS
<1>1. Idle \in Work /\ NoOp \in [token : 0..MaxTokens, held : BOOLEAN] /\ 0 \in 0..MaxTokens
  BY MediaAssumption, DeletionAssumption DEF Idle, NoOp, Work
<1>2. MediaTypeOK
  BY MediaAssumption DEF Init, MediaInit, MediaTypeOK, Sources
<1>3. TypeOK
  BY <1>1, <1>2 DEF Init, TypeOK, Work
<1>4. ASSUME NEW k \in Keys
      PROVE  KeySound(k)
  BY MediaAssumption DEF Init, MediaInit, KeySound, UploadSound, Fenced
<1>5. ASSUME NEW a \in Actors
      PROVE  ActorSound(a)
  BY MediaAssumption DEF Init, ActorSound
<1>6. ASSUME NEW w \in Workers
      PROVE  WorkerSound(w)
  BY DEF Init, Idle, NoOp, WorkerSound, OwnTokens
<1> QED
  BY <1>2, <1>3, <1>4, <1>5, <1>6 DEF AccountInv, MediaInv, Init, NoOp

LEMMA AccountStep ==
  ASSUME AccountInv, Next
  PROVE  AccountInv'
<1>1. CASE MediaNext /\ UNCHANGED <<actor, target, workVars>>
  BY <1>1, MediaNextStep
<1>2. ASSUME NEW a \in Actors,
             CreatePersona(a) \/ WriteRows(a) \/ \E p \in Peers : FollowEdge(a, p)
      PROVE  AccountInv'
  BY <1>2, CreatePersonaStep, WriteRowsStep, FollowEdgeStep
<1>3. ASSUME NEW w \in Workers, Reserve(w) \/ ClaimExpired(w) \/ WorkerStep(w) \/ Fail(w)
      PROVE  AccountInv'
  BY <1>3, ReserveStep, ClaimExpiredStep, FailStep, NextTargetStep, SnapshotStep,
     RemoveEdgesStep, RemoveObjectsStep, MediaIntentsStep, MediaClaimStep, MediaDeleteStep,
     MediaAckStep, MarkCompleteStep, FinalizeStep DEF WorkerStep
<1> QED
  BY <1>1, <1>2, <1>3, LeaseExpiresStep DEF Next

LEMMA AccountStutter ==
  ASSUME AccountInv, UNCHANGED vars
  PROVE  AccountInv'
<1>1. MediaKept /\ WorkTypes' /\ ErasureOnly
  BY Types, MediaUnchanged DEF vars, workVars, WorkTypes, ErasureOnly
<1>2. tokens <= tokens' /\ op'.token <= tokens' /\ UNCHANGED <<actor, target, workVars>>
  BY Types DEF vars, workVars, WorkTypes
<1> QED
  BY <1>1, <1>2, WorkFrame, HolderStays DEF workVars, OwnTokens

LEMMA AccountIsInv == Spec => []AccountInv
BY AccountInitially, AccountStep, AccountStutter, PTL DEF Spec

\* What a live row names keeps its bytes, and no bytes are without a row, an attempt or
\* a job that will remove them: whatever uploads, writers that die, puts that arrive
\* late, references, the drain of retention and the workers of a deletion interleave.
THEOREM BlobsAreAccounted == Spec => []BlobsAccounted
<1>1. AccountInv => ReferencedBlobKept
  BY DEF AccountInv, MediaInv, KeySound, Fenced, ReferencedBlobKept
<1>2. AccountInv => NoOrphanBytes
  BY DEF AccountInv, MediaInv, MediaTypeOK, KeySound, NoOrphanBytes
<1>3. AccountInv => BlobsAccounted
  BY <1>1, <1>2 DEF AccountInv, BlobsAccounted
<1> QED
  BY <1>3, AccountIsInv, PTL

\* When an account is deleted nothing of it is left, in whichever attempt and by
\* whichever workers its targets were torn down, and no persona outlives its owner.
THEOREM DeletionIsComplete == Spec => []DeletedLeavesNothing
<1>1. ASSUME AccountInv, NEW a \in Actors, actor[a] = "deleted"
      PROVE  /\ a = Root => \A b \in Actors : actor[b] # "live"
             /\ ~rows[a] /\ followers[a] = {}
             /\ \A k \in KeysOf(a) : k \notin blob /\ k \notin upload /\ k \notin late
  <2>1. ActorSound(a) /\ \A b \in Actors : ActorSound(b)
    BY <1>1 DEF AccountInv
  <2>2. a = Root => \A b \in Actors : actor[b] # "live"
    BY <1>1, <2>1 DEF ActorSound
  <2>3. ASSUME NEW k \in KeysOf(a)
        PROVE  k \notin blob /\ k \notin upload /\ k \notin late
    <3>1. k \in Keys /\ KeySound(k) /\ attempt[k] = "none" /\ k \notin upload /\ k \notin jobs
      BY <1>1, <2>1 DEF KeysOf, AccountInv, MediaInv, ActorSound
    <3> QED
      BY <3>1 DEF KeySound, UploadSound
  <2> QED
    BY <1>1, <2>1, <2>2, <2>3 DEF ActorSound
<1>2. AccountInv => DeletedLeavesNothing
  BY <1>1 DEF DeletedLeavesNothing
<1> QED
  BY <1>2, AccountIsInv, PTL

\* No step of a worker, one that lost its lease included, erases an edge of a target
\* before its follower is in the durable snapshot of the Delete.
THEOREM SnapshotComesFirst == Spec => EdgesErasedAfterSnapshot
<1> DEFINE Safe == \A a \in Actors :
             target[a] # "none" => followers[a] \ followers'[a] \subseteq told[a]
<1>1. ASSUME AccountInv, Next
      PROVE  Safe
  <2>1. CASE UNCHANGED followers
    BY <2>1
  <2>2. ASSUME NEW a \in Actors, NEW p \in Peers, FollowEdge(a, p)
        PROVE  Safe
    BY <1>1, <2>2, Types DEF FollowEdge, WorkTypes
  <2>3. ASSUME NEW w \in Workers, RemoveEdges(w)
        PROVE  Safe
    <3>1. followers[worker[w].at] \subseteq told[worker[w].at]
      BY <1>1, <2>3 DEF RemoveEdges, Authority, AccountInv, WorkerSound, HolderSound
    <3> QED
      BY <1>1, <2>3, <3>1, Types DEF RemoveEdges, WorkTypes
  <2> QED
    BY <1>1, <2>1, <2>2, <2>3
       DEF Next, workVars, CreatePersona, WriteRows, Reserve, ClaimExpired, LeaseExpires,
           NextTarget, Snapshot, RemoveObjects, MediaIntents, MediaClaim, MediaDelete,
           MediaAck, MarkComplete, Finalize, Fail, WorkerStep
<1>2. ASSUME AccountInv, [Next]_vars
      PROVE  [Safe]_vars
  BY <1>1, <1>2
<1> QED
  BY <1>2, AccountIsInv, PTL DEF Spec, EdgesErasedAfterSnapshot

-----------------------------------------------------------------------------
(* The object store: the inductive invariant.                              *)

Generations == 0..MaxOps
NoMarker == MaxOps + 1
Files == Generations \X {1, 2}
PairOf(g) == {<<g, 1>>, <<g, 2>>}

\* Stages of a request before its marker is renamed, the ones in which it has a
\* lease, and the ones in which it has a temporary file.
Assembly == {"tempBody", "body", "tempMeta", "meta", "tempMark", "mark"}
Unpublished == Assembly \cup {"begin", "exists", "lease"}
Leasing == Assembly \cup {"release"}
HasTemp == {"body", "meta", "mark"}

Reading == {"readerLease", "resolve", "openBody", "openMeta", "legacyBody"}
Opening == {"openBody", "openMeta"}

\* Stages of a look at one file, and of a scan.
Looking == {"readers1", "current", "readers2", "lease2", "unlink"}
Scanning == Looking \cup {"retained", "list", "live", "record", "pick", "temps"}

TaskKinds == {"none", "put", "get", "delete", "scan", "recover"}
TaskRecords ==
  [pc : Unpublished \cup Reading \cup Scanning \cup {"idle", "release", "legacy"},
   kind : TaskKinds, phase : {"none", "remove", "scan", "recover"},
   id : Generations, seen : 0..(MaxOps + 2), todo : SUBSET Files,
   tmp : SUBSET Generations, names : SUBSET Generations,
   by : SUBSET (Slots \cup {"dead", "unknown"})]

NoTask == [pc |-> "idle", kind |-> "none", phase |-> "none", id |-> 0,
           seen |-> NoMarker, todo |-> {}, tmp |-> {}, names |-> {}, by |-> {}]

StoreTypes ==
  /\ files \subseteq Files /\ temps \subseteq Generations
  /\ lease \in [Generations -> {"none", "held", "dead", "unknown"}]
  /\ readers \subseteq Slots \cup {"dead", "unknown"}
  /\ marker \in 0..(MaxOps + 2) /\ legacy \in BOOLEAN /\ dir \in BOOLEAN
  /\ home \in [Slots -> Procs] /\ task \in [Slots \cup Procs -> TaskRecords]
  /\ again \in [Procs -> BOOLEAN] /\ up \subseteq Procs
  /\ ops \in 0..MaxOps /\ faults \in Nat

\* Which stages a request and which a scan of a process goes through.
SlotShape(r) ==
  /\ r.kind \in {"none", "put", "get", "delete"}
  /\ r.kind = "none" => r = NoTask
  /\ r.kind = "get" => r.pc \in Reading
  /\ r.kind = "put" =>
       r.pc \in Unpublished \cup Scanning \cup {"release", "legacy"}
  /\ r.kind = "delete" =>
       r.pc \in {"exists", "lease", "tempMark", "mark", "release", "legacy"} \cup Scanning
  /\ r.kind # "none" => r.id # 0
  /\ r.kind \in {"put", "delete"} /\ r.pc \in Scanning => r.phase \in {"remove", "scan"}
  /\ r.phase = "remove" => r.pc \in Looking \cup {"pick", "retained"}
  /\ r.pc # "record"

ProcShape(r) ==
  /\ r.kind \in {"none", "scan", "recover"}
  /\ r.kind = "none" => r = NoTask
  /\ r.kind # "none" => r.pc \in Scanning
  /\ r.pc = "record" => r.kind = "recover"
  /\ r.phase # "remove"

\* No request that is not yet over will publish generation g.
Settled(g) ==
  g <= ops /\ \A s \in Slots : task[s].id = g => task[s].pc \notin Unpublished

\* Generation g is not what the marker names, and never will be.
Superseded(g) == Settled(g) /\ marker # g

\* No reader with a lease has read g from the marker.
Unread(g) ==
  \A s \in Slots : s \in readers /\ task[s].pc \in Opening => task[s].seen # g

\* No reader at all has.
Unseen(g) == \A s \in Slots : task[s].pc \in Opening => task[s].seen # g

IdSound(s) ==
  /\ task[s].id <= ops
  /\ \A u \in Slots : u # s /\ task[s].kind # "none" => task[u].id # task[s].id

WriterSound(s) ==
  LET r == task[s] IN
  /\ r.pc \in Leasing => lease[r.id] = "held"
  /\ r.pc \in HasTemp => r.id \in temps
  /\ r.pc \in {"begin", "exists", "lease"} =>
       r.id \notin temps /\ \A e \in files : e[1] # r.id
  /\ r.kind = "put" /\ r.pc \in {"tempMeta", "meta", "tempMark", "mark"} =>
       <<r.id, 1>> \in files
  /\ r.kind = "put" /\ r.pc \in {"tempMark", "mark"} => <<r.id, 2>> \in files
  /\ r.kind \in {"put", "delete"} /\ r.seen \in Generations => Settled(r.seen)

ReaderSound(s) ==
  task[s].pc \in Opening =>
    /\ marker # NoMarker /\ task[s].seen \in Generations /\ Settled(task[s].seen)
    /\ s \in readers => PairOf(task[s].seen) \subseteq files

\* The file a task looks at, of those it has still to do.
NextFile(T) ==
  CHOOSE e \in T : \A d \in T : e[1] < d[1] \/ (e[1] = d[1] /\ e[2] <= d[2])
FileOf(t) == NextFile(task[t].todo)

\* What was listed, and who was seen to be at it, before the leases are looked at.
ListedSound(t, g) ==
  /\ g <= ops
  /\ \A s \in Slots : task[s].id = g /\ task[s].pc \in Unpublished =>
       task[s].pc \in Assembly /\ g \in task[t].names

Heads(t) == {e[1] : e \in task[t].todo} \cup task[t].tmp

ScanSound(t) ==
  LET r == task[t] IN
  /\ r.pc = "live" => \A g \in Heads(t) : ListedSound(t, g)
  /\ r.pc # "live" => \A g \in Heads(t) : Settled(g)
  /\ r.pc \in Looking => r.todo # {}
  /\ r.pc \in {"readers2", "lease2", "unlink"} => Superseded(FileOf(t)[1])
  /\ r.pc \in {"lease2", "unlink"} => Unread(FileOf(t)[1])
  /\ r.kind = "recover" /\ r.seen = NoMarker /\ r.pc \in Looking \cup {"pick"} =>
       \A e \in r.todo : Superseded(e[1]) /\ Unseen(e[1])

MarkerSound ==
  marker \in Generations => Settled(marker) /\ PairOf(marker) \subseteq files

DiskSound ==
  /\ MarkerSound
  /\ \A g \in temps : g <= ops
  /\ \A e \in files : e[1] <= ops
  /\ \A g \in Generations : g > ops => lease[g] = "none"

StoreInv ==
  /\ StoreTypes /\ DiskSound
  /\ \A s \in Slots :
       SlotShape(task[s]) /\ IdSound(s) /\ WriterSound(s) /\ ReaderSound(s)
  /\ \A p \in Procs : ProcShape(task[p])
  /\ \A t \in Slots \cup Procs : ScanSound(t)

-----------------------------------------------------------------------------
(* The object store when nothing fails: who will still look at a file.     *)

\* A task in this stage has yet to read the marker and to list the files, or it
\* has listed e and not the marker of e.
LooksAt(r, e) ==
  \/ r.kind = "get" \/ r.pc = "retained"
  \/ r.kind \in {"put", "delete"} /\ r.pc \in Assembly \cup {"begin", "lease", "release", "legacy"}
  \/ r.phase = "remove"
  \/ r.pc = "list" /\ r.seen # e[1]
  \/ r.pc = "live" /\ r.seen # e[1] /\ e \in r.todo
  \/ r.pc \in Looking \cup {"pick"} /\ e \in r.todo

WillLook(e) ==
  \/ \E t \in Slots \cup Procs : LooksAt(task[t], e)
  \/ \E p \in Procs : again[p]

Undisturbed ==
  /\ up = {home[s] : s \in Slots}
  /\ \A p \in Procs : task[p].kind # "recover" /\ (again[p] => task[p].kind # "none")
  /\ readers \subseteq {s \in Slots : task[s].kind = "get"}
  /\ \A g \in Generations : lease[g] # "none" =>
       lease[g] = "held" /\ \E s \in Slots : task[s].id = g /\ task[s].pc \in Leasing
  /\ \A g \in temps : \E s \in Slots : task[s].id = g /\ task[s].pc \in HasTemp
  /\ \A e \in files :
       IF marker = NoMarker
         THEN \E s \in Slots : task[s].id = e[1] /\ task[s].pc \in Assembly
         ELSE e[1] # marker => WillLook(e)

QuietInv == faults = 0 => Undisturbed

-----------------------------------------------------------------------------
(* Lemmas about files and their order.                                     *)

ScanTask == [NoTask EXCEPT !.kind = "scan", !.pc = "retained"]

LEMMA StoreNames ==
  /\ Store!Ids = Generations /\ Store!None = NoMarker /\ Store!Tomb = MaxOps + 2
  /\ Store!Tasks = Slots \cup Procs /\ Store!Idle = NoTask /\ Store!Scan = ScanTask
  /\ \A g : Store!Pair(g) = PairOf(g)
  /\ \A t : Store!Cand(t) = FileOf(t)
BY DEF Store!Ids, Generations, Store!None, NoMarker, Store!Tomb, Store!Tasks, Store!Idle,
   NoTask, Store!Scan, ScanTask, Store!Pair, PairOf, Store!Body, Store!Meta, Store!Cand,
   FileOf, NextFile

LEMMA StoreNumbers ==
  /\ MaxOps \in Nat /\ NoMarker \notin Generations /\ MaxOps + 2 \notin Generations
  /\ MaxOps + 2 # NoMarker /\ 0 \in Generations
  /\ Generations \subseteq 0..(MaxOps + 2) /\ NoMarker \in 0..(MaxOps + 2)
  /\ \A m \in 0..(MaxOps + 2) : m \in Generations \/ m = NoMarker \/ m = MaxOps + 2
BY StoreAssumption DEF NoMarker, Generations

LEMMA NoTaskIs ==
  /\ NoTask \in TaskRecords /\ ScanTask \in TaskRecords
  /\ NoTask.pc = "idle" /\ NoTask.kind = "none" /\ NoTask.id = 0 /\ NoTask.todo = {}
  /\ NoTask.tmp = {} /\ NoTask.phase = "none" /\ NoTask.seen = NoMarker
  /\ NoTask.names = {} /\ NoTask.by = {}
  /\ ScanTask.pc = "retained" /\ ScanTask.kind = "scan" /\ ScanTask.id = 0
  /\ ScanTask.todo = {} /\ ScanTask.tmp = {} /\ ScanTask.phase = "none"
BY StoreNumbers DEF NoTask, ScanTask, TaskRecords, TaskKinds, Unpublished, Assembly, Reading,
   Scanning, Looking

\* Whatever is left to do has a first file.
LEMMA NextFileIn ==
  ASSUME NEW T \in SUBSET Files, T # {}
  PROVE  NextFile(T) \in T
<1> DEFINE Key(e) == 2 * e[1] + e[2]
           Keyed == {Key(e) : e \in T}
<1>1. \A e \in T : e[1] \in Nat /\ e[2] \in {1, 2} /\ e = <<e[1], e[2]>>
  BY StoreNumbers DEF Files, Generations
<1>2. Keyed \subseteq Nat /\ Keyed # {}
  BY <1>1
<1> HIDE DEF Keyed
<1>3. IsWellFoundedOn(OpToRel(<, Nat), Nat)
  BY NatLessThanWellFounded
<1>4. PICK n \in Keyed : \A m \in Keyed : ~(<<m, n>> \in OpToRel(<, Nat))
  BY <1>2, <1>3, WFMin
<1>5. \A m \in Keyed : n <= m
  <2>1. \A m \in Keyed : ~(m < n)
    BY <1>2, <1>4 DEF OpToRel
  <2> QED
    BY <1>2, <2>1
<1>6. PICK e \in T : n = Key(e)
  BY DEF Keyed
<1>7. \A d \in T : Key(e) <= Key(d)
  BY <1>5, <1>6 DEF Keyed
<1>8. \A d \in T : e[1] < d[1] \/ (e[1] = d[1] /\ e[2] <= d[2])
  <2> TAKE d \in T
  <2>1. /\ e[1] \in Nat /\ d[1] \in Nat /\ e[2] \in {1, 2} /\ d[2] \in {1, 2}
        /\ 2 * e[1] + e[2] <= 2 * d[1] + d[2]
    BY <1>1, <1>7
  <2> QED
    BY <2>1
<1> QED
  BY <1>8 DEF NextFile

-----------------------------------------------------------------------------
(* What a step of one task may do to what the others rely on.              *)

Owns(t, g) == t \in Slots /\ g = task[t].id /\ task[t].pc \in Assembly

\* A request starts with an id of its own, and is never unpublished again.
RequestMoves(t) ==
  \/ task[t].kind = "none" /\ ops' = ops + 1 /\ task'[t].id = ops'
  \/ /\ ops' = ops
     /\ \/ task'[t] = NoTask
        \/ /\ task'[t].id = task[t].id /\ task'[t].kind = task[t].kind
           /\ task'[t].pc \in Unpublished => task[t].pc \in Unpublished
           /\ task[t].pc \in Assembly /\ task'[t].pc \in Unpublished =>
                task'[t].pc \in Assembly

\* Only the task itself moves on; others may end, and a scan may begin.
TaskMoves(t) ==
  /\ t \in Slots \cup Procs
  /\ \A u \in (Slots \cup Procs) \ {t} :
       \/ task'[u] = task[u] \/ task'[u] = NoTask
       \/ u \in Procs /\ task'[u] = ScanTask
  /\ t \in Slots => RequestMoves(t)
  /\ t \in Procs => ops' = ops

\* The marker goes to what its writer has assembled, or to the tombstone.
MarkerMoves(t) ==
  \/ marker' = marker
  \/ /\ t \in Slots /\ task[t].pc = "mark" /\ task'[t].pc = "release"
     /\ marker' \in {task[t].id, MaxOps + 2}

\* A reader takes its lease before it reads the marker.
ReadersMove(t) ==
  /\ \A s \in Slots \ {t} : s \in readers' => s \in readers
  /\ t \in Slots /\ task'[t].pc \in Opening =>
       \/ marker \in Generations /\ task'[t].seen = marker
       \/ /\ task[t].pc \in Opening /\ task'[t].seen = task[t].seen
          /\ t \in readers' => t \in readers

LeasesMove(t) ==
  /\ \A s \in Slots \ {t} :
       task'[s] = task[s] /\ task[s].kind # "none" /\ lease[task[s].id] = "held" =>
         lease'[task[s].id] = "held"
  /\ \A g \in Generations :
       lease[g] = "none" /\ lease'[g] # "none" => t \in Slots /\ g = task[t].id

\* A file goes with its unpublished writer, or when it is superseded and unread.
DiskMoves(t) ==
  /\ \A g \in temps' : g \in temps \/ Owns(t, g)
  /\ \A g \in temps : g \in temps' \/ Owns(t, g) \/ Settled(g)
  /\ \A e \in files' : e \in files \/ Owns(t, e[1])
  /\ \A e \in files :
       e \in files' \/ Owns(t, e[1]) \/ (Superseded(e[1]) /\ Unread(e[1]))

StoreMoves(t) ==
  /\ StoreTypes' /\ TaskMoves(t) /\ MarkerMoves(t) /\ ReadersMove(t) /\ LeasesMove(t)
  /\ DiskMoves(t)

\* What is settled, superseded or unread stays so.
LEMMA StoreStable ==
  ASSUME StoreInv, NEW t, StoreMoves(t)
  PROVE  /\ ops' >= ops
         /\ \A g \in Generations : Settled(g) => Settled(g)'
         /\ \A g \in Generations : Superseded(g) => Superseded(g)'
         /\ \A g \in Generations : Superseded(g) /\ Unread(g) => Unread(g)'
         /\ \A g \in Generations : Superseded(g) /\ Unseen(g) => Unseen(g)'
         /\ marker # NoMarker => marker' # NoMarker
<1>1. /\ \A u \in Slots \cup Procs : task[u] \in TaskRecords /\ task'[u] \in TaskRecords
      /\ ops \in Nat /\ ops' \in Nat /\ ops <= MaxOps
      /\ \A u \in Slots : task[u].id \in Nat /\ task'[u].id \in Nat
  BY StoreNumbers DEF StoreInv, StoreMoves, StoreTypes, TaskRecords, Generations
<1>2. ops' = ops \/ ops' = ops + 1
  BY DEF StoreMoves, TaskMoves, RequestMoves
<1>3. ASSUME NEW g \in Generations, Settled(g)
      PROVE  Settled(g)'
  <2>1. g \in Nat /\ g <= ops'
    BY <1>1, <1>2, <1>3, StoreNumbers DEF Settled, Generations
  <2>2. ASSUME NEW s \in Slots, task'[s].id = g, task'[s].pc \in Unpublished
        PROVE  FALSE
    <3>1. CASE s = t
      <4>1. task'[s].id # ops + 1
        BY <1>1, <1>3, <2>1, <2>2 DEF Settled
      <4>2. NoTask.pc \notin Unpublished
        BY NoTaskIs DEF Unpublished, Assembly
      <4> QED
        BY <1>3, <2>2, <3>1, <4>1, <4>2 DEF StoreMoves, TaskMoves, RequestMoves, Settled
    <3>2. CASE s # t
      <4>1. NoTask.pc \notin Unpublished
        BY NoTaskIs DEF Unpublished, Assembly
      <4>2. s \notin Procs
        BY StoreAssumption
      <4> QED
        BY <1>3, <2>2, <3>2, <4>1, <4>2 DEF StoreMoves, TaskMoves, Settled
    <3> QED
      BY <3>1, <3>2
  <2> QED
    BY <2>1, <2>2 DEF Settled
<1>4. ASSUME NEW g \in Generations, Superseded(g)
      PROVE  Superseded(g)'
  <2>1. Settled(g) /\ marker # g /\ Settled(g)'
    BY <1>3, <1>4 DEF Superseded
  <2>2. marker' # g
    BY <2>1, StoreNumbers DEF StoreMoves, MarkerMoves, Settled, Unpublished, Assembly
  <2> QED
    BY <2>1, <2>2 DEF Superseded
<1>5. \A s \in Slots \ {t} : task'[s] = task[s] \/ task'[s].pc \notin Opening
  BY NoTaskIs, StoreAssumption DEF StoreMoves, TaskMoves, Opening
<1>6. ASSUME NEW g \in Generations, Superseded(g), Unread(g)
      PROVE  Unread(g)'
  <2> SUFFICES ASSUME NEW s \in Slots, s \in readers', task'[s].pc \in Opening
               PROVE  task'[s].seen # g
    BY DEF Unread
  <2>1. CASE s = t
    BY <1>6, <2>1 DEF StoreMoves, ReadersMove, Unread, Superseded
  <2>2. CASE s # t
    BY <1>5, <1>6, <2>2 DEF StoreMoves, ReadersMove, Unread
  <2> QED
    BY <2>1, <2>2
<1>7. ASSUME NEW g \in Generations, Superseded(g), Unseen(g)
      PROVE  Unseen(g)'
  <2> SUFFICES ASSUME NEW s \in Slots, task'[s].pc \in Opening
               PROVE  task'[s].seen # g
    BY DEF Unseen
  <2>1. CASE s = t
    BY <1>7, <2>1 DEF StoreMoves, ReadersMove, Unseen, Superseded
  <2>2. CASE s # t
    BY <1>5, <1>7, <2>2 DEF Unseen
  <2> QED
    BY <2>1, <2>2
<1>8. marker # NoMarker => marker' # NoMarker
  <2>1. ASSUME t \in Slots
        PROVE  task[t].id # NoMarker
    BY <1>1, <2>1, StoreNumbers DEF TaskRecords
  <2> QED
    BY <2>1, StoreNumbers DEF StoreMoves, MarkerMoves
<1> QED
  BY <1>1, <1>2, <1>3, <1>4, <1>6, <1>7, <1>8

-----------------------------------------------------------------------------
(* What is sound of the others stays sound.                                *)

LEMMA StoreIds ==
  ASSUME StoreInv, NEW t, StoreMoves(t)
  PROVE  \A s \in Slots : IdSound(s)'
<1>1. /\ \A u \in Slots : task[u].id \in Nat /\ task[u].id <= ops
      /\ ops \in Nat /\ ops' \in Nat
      /\ \A u \in Slots : task'[u] \in TaskRecords /\ SlotShape(task[u])
  BY StoreNumbers DEF StoreInv, StoreMoves, StoreTypes, TaskRecords, Generations, IdSound
<1>2. ASSUME NEW s \in Slots
      PROVE  \/ task'[s] = NoTask
             \/ task'[s].id = task[s].id /\ task'[s].kind = task[s].kind
             \/ s = t /\ ops' = ops + 1 /\ task'[s].id = ops'
  BY StoreAssumption DEF StoreMoves, TaskMoves, RequestMoves
<1>3. ASSUME NEW s \in Slots
      PROVE  task'[s].id <= ops'
  BY <1>1, <1>2, NoTaskIs DEF StoreMoves, TaskMoves, RequestMoves
<1>4. ASSUME NEW s \in Slots, NEW u \in Slots, u # s, task'[s].kind # "none"
      PROVE  task'[u].id # task'[s].id
  <2>1. CASE task'[s].id = task[s].id /\ task'[s].kind = task[s].kind
    <3>1. task[u].id # task[s].id /\ task[s].id # 0
      BY <1>1, <1>4, <2>1 DEF StoreInv, IdSound, SlotShape
    <3> QED
      BY <1>1, <1>2, <2>1, <3>1, NoTaskIs
  <2>2. CASE s = t /\ ops' = ops + 1 /\ task'[s].id = ops'
    BY <1>1, <1>2, <1>4, <2>2, NoTaskIs
  <2> QED
    BY <1>2, <1>4, <2>1, <2>2, NoTaskIs
<1> QED
  BY <1>3, <1>4 DEF IdSound

LEMMA NoTaskSound ==
  ASSUME NEW u \in Slots \cup Procs, task'[u] = NoTask \/ (u \in Procs /\ task'[u] = ScanTask)
  PROVE  /\ u \in Slots => SlotShape(task[u])' /\ WriterSound(u)' /\ ReaderSound(u)'
         /\ u \in Procs => ProcShape(task[u])'
         /\ ScanSound(u)'
<1>1. u \in Slots => task'[u] = NoTask
  BY StoreAssumption
<1>2. u \in Slots => SlotShape(task[u])' /\ WriterSound(u)' /\ ReaderSound(u)'
  BY <1>1, NoTaskIs, StoreNumbers
     DEF SlotShape, WriterSound, ReaderSound, Leasing, HasTemp, Assembly, Opening, Scanning,
         Looking
<1>3. u \in Procs => ProcShape(task[u])'
  BY NoTaskIs DEF ProcShape, Scanning
<1>4. ScanSound(u)'
  BY NoTaskIs DEF ScanSound, Heads, Looking
<1> QED
  BY <1>2, <1>3, <1>4

LEMMA OtherSlotSound ==
  ASSUME StoreInv, NEW t, StoreMoves(t), NEW u \in Slots, u # t, task'[u] = task[u]
  PROVE  SlotShape(task[u])' /\ WriterSound(u)' /\ ReaderSound(u)'
<1>1. /\ SlotShape(task[u]) /\ IdSound(u) /\ WriterSound(u) /\ ReaderSound(u)
      /\ task[u] \in TaskRecords /\ task[u].id \in Generations
      /\ task[u].kind = "none" => task[u].pc = "idle"
  BY NoTaskIs DEF StoreInv, StoreTypes, TaskRecords, SlotShape
<1>2. ASSUME NEW g, Owns(t, g), task[u].kind # "none"
      PROVE  g # task[u].id
  BY <1>1, <1>2 DEF Owns, IdSound
<1>3. task[u].pc \in Unpublished => ~Settled(task[u].id)
  BY DEF Settled
<1>4. ASSUME NEW g \in Generations, Settled(g)
      PROVE  Settled(g)' /\ ~Owns(t, g)
  BY <1>4, StoreStable DEF Owns, Settled, Unpublished
<1>5. WriterSound(u)'
  <2>1. task[u].pc \in Leasing => lease'[task[u].id] = "held"
    BY <1>1 DEF StoreMoves, LeasesMove, WriterSound, Leasing, Assembly
  <2>2. task[u].pc \in HasTemp => task[u].id \in temps'
    BY <1>1, <1>2, <1>3 DEF StoreMoves, DiskMoves, WriterSound, HasTemp, Unpublished, Assembly
  <2>3. task[u].pc \in {"begin", "exists", "lease"} =>
          task[u].id \notin temps' /\ \A e \in files' : e[1] # task[u].id
    BY <1>1, <1>2 DEF StoreMoves, DiskMoves, WriterSound
  <2>4. ASSUME NEW e \in files, e[1] = task[u].id, task[u].pc \in Unpublished
        PROVE  e \in files'
    BY <1>1, <1>2, <1>3, <2>4 DEF StoreMoves, DiskMoves, Superseded, Unpublished, Assembly
  <2>5. task[u].kind = "put" /\ task[u].pc \in {"tempMeta", "meta", "tempMark", "mark"} =>
          <<task[u].id, 1>> \in files'
    BY <1>1, <2>4 DEF WriterSound, Unpublished, Assembly
  <2>6. task[u].kind = "put" /\ task[u].pc \in {"tempMark", "mark"} =>
          <<task[u].id, 2>> \in files'
    BY <1>1, <2>4 DEF WriterSound, Unpublished, Assembly
  <2>7. task[u].kind \in {"put", "delete"} /\ task[u].seen \in Generations =>
          Settled(task[u].seen)'
    BY <1>1, <1>4 DEF WriterSound
  <2> QED
    BY <2>1, <2>2, <2>3, <2>5, <2>6, <2>7 DEF WriterSound
<1>6. ReaderSound(u)'
  <2> SUFFICES ASSUME task[u].pc \in Opening
               PROVE  /\ marker' # NoMarker /\ task[u].seen \in Generations
                      /\ Settled(task[u].seen)'
                      /\ u \in readers' => PairOf(task[u].seen) \subseteq files'
    BY DEF ReaderSound
  <2>1. /\ marker # NoMarker /\ task[u].seen \in Generations /\ Settled(task[u].seen)
        /\ u \in readers => PairOf(task[u].seen) \subseteq files
    BY <1>1 DEF ReaderSound
  <2>2. u \in readers' => u \in readers
    BY DEF StoreMoves, ReadersMove
  <2>3. ASSUME u \in readers, NEW e \in PairOf(task[u].seen)
        PROVE  e \in files'
    <3>1. e[1] = task[u].seen /\ e \in files
      BY <2>1, <2>3 DEF PairOf
    <3>2. ~Owns(t, e[1]) /\ ~Unread(e[1])
      BY <1>4, <2>1, <2>3, <3>1 DEF Unread
    <3> QED
      BY <3>1, <3>2 DEF StoreMoves, DiskMoves
  <2>4. marker' # NoMarker
    BY <2>1, StoreStable
  <2> QED
    BY <1>4, <2>1, <2>2, <2>3, <2>4
<1> QED
  BY <1>1, <1>5, <1>6

\* What was listed stays listed, and what is to be done of it stays to be done.
LEMMA ScanStays ==
  ASSUME StoreInv, NEW t, StoreMoves(t), NEW u \in Slots \cup Procs, u # t, task'[u] = task[u]
  PROVE  ScanSound(u)'
<1>1. /\ ScanSound(u) /\ task[u] \in TaskRecords /\ Heads(u) \subseteq Generations
      /\ task[u].todo \subseteq Files
  <2>1. ScanSound(u) /\ task[u] \in TaskRecords
    BY DEF StoreInv, StoreTypes
  <2>2. task[u].todo \subseteq Files /\ task[u].tmp \subseteq Generations
    BY <2>1 DEF TaskRecords
  <2> QED
    BY <2>1, <2>2 DEF Heads, Files
<1>2. FileOf(u)' = FileOf(u) /\ Heads(u)' = Heads(u)
  BY DEF FileOf, Heads
<1>3. ASSUME NEW g \in Generations, ListedSound(u, g)
      PROVE  ListedSound(u, g)'
  <2>1. g <= ops /\ g \in Nat /\ ops \in Nat /\ ops' \in Nat /\ ops' >= ops
    <3>1. ops' >= ops
      BY StoreStable
    <3> QED
      BY <1>3, <3>1, StoreNumbers
         DEF ListedSound, StoreInv, StoreTypes, StoreMoves, Generations
  <2>2. ASSUME NEW s \in Slots, task'[s].id = g, task'[s].pc \in Unpublished
        PROVE  task'[s].pc \in Assembly /\ g \in task[u].names
    <3>1. NoTask.pc \notin Unpublished
      BY NoTaskIs DEF Unpublished, Assembly
    <3>2. CASE s = t
      <4>1. task'[s].id # ops + 1
        BY <2>1, <2>2
      <4>2. /\ task[s].id = g /\ task[s].pc \in Unpublished
            /\ task[s].pc \in Assembly => task'[s].pc \in Assembly
        BY <2>2, <3>1, <3>2, <4>1 DEF StoreMoves, TaskMoves, RequestMoves
      <4> QED
        BY <1>3, <4>2 DEF ListedSound
    <3>3. CASE s # t
      <4>1. task'[s] = task[s]
        BY <2>2, <3>1, <3>3, StoreAssumption DEF StoreMoves, TaskMoves
      <4> QED
        BY <1>3, <2>2, <4>1 DEF ListedSound
    <3> QED
      BY <3>2, <3>3
  <2> QED
    BY <2>1, <2>2 DEF ListedSound
<1>4. task[u].pc \in Looking => FileOf(u)[1] \in Generations
  BY <1>1, NextFileIn DEF ScanSound, FileOf, Files
<1>5. \A e \in task[u].todo : e[1] \in Generations
  BY <1>1 DEF Files
<1>6. /\ task[u].pc = "live" => \A g \in Heads(u) : ListedSound(u, g)'
      /\ task[u].pc # "live" => \A g \in Heads(u) : Settled(g)'
  BY <1>1, <1>3, StoreStable DEF ScanSound
<1>7. /\ task[u].pc \in {"readers2", "lease2", "unlink"} => Superseded(FileOf(u)[1])'
      /\ task[u].pc \in {"lease2", "unlink"} => Unread(FileOf(u)[1])'
  <2>1. ASSUME task[u].pc \in {"readers2", "lease2", "unlink"}
        PROVE  Superseded(FileOf(u)[1])'
    BY <1>1, <1>2, <1>4, <2>1, StoreStable DEF ScanSound, Looking, Superseded, Settled
  <2>2. ASSUME task[u].pc \in {"lease2", "unlink"}
        PROVE  Unread(FileOf(u)[1])'
    BY <1>1, <1>2, <1>4, <2>2, StoreStable DEF ScanSound, Looking, Unread
  <2> QED
    BY <2>1, <2>2
<1>8. ASSUME task[u].kind = "recover", task[u].seen = NoMarker,
             task[u].pc \in Looking \cup {"pick"}, NEW e \in task[u].todo
      PROVE  Superseded(e[1])' /\ Unseen(e[1])'
  BY <1>1, <1>5, <1>8, StoreStable DEF ScanSound
<1> QED
  BY <1>1, <1>2, <1>6, <1>7, <1>8 DEF ScanSound

LEMMA StoreFrame ==
  ASSUME StoreInv, NEW t, StoreMoves(t), marker' = marker \/ MarkerSound',
         t \in Slots => SlotShape(task[t])' /\ WriterSound(t)' /\ ReaderSound(t)',
         t \in Procs => ProcShape(task[t])', ScanSound(t)'
  PROVE  StoreInv'
<1>1. ASSUME NEW u \in Slots \cup Procs, u # t
      PROVE  /\ u \in Slots => SlotShape(task[u])' /\ WriterSound(u)' /\ ReaderSound(u)'
             /\ u \in Procs => ProcShape(task[u])'
             /\ ScanSound(u)'
  <2>1. CASE task'[u] = task[u]
    BY <1>1, <2>1, OtherSlotSound, ScanStays DEF StoreInv, ProcShape
  <2> QED
    BY <1>1, <2>1, NoTaskSound DEF StoreMoves, TaskMoves
<1>2. MarkerSound'
  <2> SUFFICES ASSUME marker' = marker, marker \in Generations
               PROVE  Settled(marker)' /\ PairOf(marker) \subseteq files'
    BY DEF MarkerSound
  <2>1. Settled(marker) /\ Settled(marker)' /\ PairOf(marker) \subseteq files
    BY StoreStable DEF StoreInv, DiskSound, MarkerSound
  <2>2. ASSUME NEW e \in PairOf(marker)
        PROVE  e \in files'
    <3>1. e \in files /\ e[1] = marker
      BY <2>1, <2>2 DEF PairOf
    <3> QED
      BY <2>1, <3>1 DEF StoreMoves, DiskMoves, Owns, Settled, Superseded, Unpublished
  <2> QED
    BY <2>1, <2>2
<1>3. DiskSound'
  <2>1. ops \in Nat /\ ops' \in Nat /\ ops' >= ops /\ \A s \in Slots : task[s].id <= ops
    <3>1. ops' >= ops
      BY StoreStable
    <3> QED
      BY <3>1, StoreNumbers DEF StoreInv, StoreMoves, StoreTypes, IdSound, Generations
  <2>2. /\ \A g \in temps' : g \in Generations /\ g <= ops
        /\ \A e \in files' : e[1] \in Generations /\ e[1] <= ops
    BY <2>1 DEF StoreInv, DiskSound, StoreMoves, StoreTypes, DiskMoves, Owns, Files
  <2>3. ASSUME NEW g \in Generations, g > ops'
        PROVE  lease'[g] = "none"
    <3>1. g > ops /\ lease[g] = "none"
      BY <2>1, <2>3, StoreNumbers DEF StoreInv, DiskSound, Generations
    <3> QED
      BY <2>1, <3>1, StoreNumbers DEF StoreMoves, LeasesMove, Generations
  <2>4. \A g \in Generations : g <= ops => g <= ops'
    BY <2>1, StoreNumbers DEF Generations
  <2> QED
    BY <1>2, <2>2, <2>3, <2>4 DEF DiskSound
<1> QED
  BY <1>1, <1>3, StoreIds DEF StoreInv, StoreMoves, TaskMoves

-----------------------------------------------------------------------------
(* The steps of a look at a file and of a scan.                            *)

DeadDropped ==
  \/ UNCHANGED <<readers, lease>>
  \/ /\ readers' = readers \ {"dead"}
     /\ lease' = [g \in Generations |-> IF lease[g] = "dead" THEN "none" ELSE lease[g]]

\* A step of t that assembles and reads nothing settles no less than before.
LEMMA ScanStill ==
  ASSUME StoreInv, NEW t \in Slots \cup Procs, NEW r, task' = [task EXCEPT ![t] = r],
         r.pc \notin Unpublished \cup Opening, ops' = ops, marker' = marker,
         DeadDropped \/ readers' \subseteq readers
  PROVE  /\ task'[t] = r /\ \A u \in (Slots \cup Procs) \ {t} : task'[u] = task[u]
         /\ \A g : Settled(g) => Settled(g)'
         /\ \A g : Superseded(g) => Superseded(g)'
         /\ \A g : Unread(g) => Unread(g)'
         /\ \A g : Unseen(g) => Unseen(g)'
<1>1. task'[t] = r /\ \A u \in (Slots \cup Procs) \ {t} : task'[u] = task[u]
  BY DEF StoreInv, StoreTypes
<1>2. readers' \subseteq readers
  BY DEF DeadDropped
<1>3. \A g : Settled(g) => Settled(g)'
  BY <1>1 DEF Settled
<1> QED
  BY <1>1, <1>2, <1>3 DEF Superseded, Unread, Unseen

LEMMA Droppings ==
  ASSUME StoreTypes, DeadDropped
  PROVE  /\ readers' \subseteq readers /\ readers' \subseteq Slots \cup {"dead", "unknown"}
         /\ lease' \in [Generations -> {"none", "held", "dead", "unknown"}]
         /\ \A g \in Generations :
              /\ lease[g] = "held" => lease'[g] = "held"
              /\ lease[g] = "none" => lease'[g] = "none"
BY DEF StoreTypes, DeadDropped

LEMMA ScanStep ==
  ASSUME StoreInv, NEW t \in Slots \cup Procs, NEW r \in TaskRecords,
         task' = [task EXCEPT ![t] = r], task[t].pc \in Scanning, r.pc \in Scanning,
         r.kind = task[t].kind, r.id = task[t].id, r.phase \in {task[t].phase, "scan"},
         r.phase = "remove" => r.pc \in Looking \cup {"pick", "retained"},
         r.pc = "record" => r.kind = "recover",
         r.kind \in {"put", "delete"} /\ r.seen \in Generations => Settled(r.seen),
         files' \subseteq files, temps' = temps, DeadDropped,
         \A e \in files \ files' : Superseded(e[1]) /\ Unread(e[1]),
         UNCHANGED <<marker, legacy, dir, again, up, home, ops, faults>>,
         ScanSound(t)'
  PROVE  StoreInv'
<1>1. /\ r.pc \notin Unpublished \cup Opening \cup Leasing \cup Reading \cup HasTemp
      /\ r.pc \notin {"idle", "release", "legacy"}
  BY DEF Scanning, Looking, Unpublished, Assembly, Opening, Leasing, Reading, HasTemp
<1>2. /\ task'[t] = r /\ \A u \in (Slots \cup Procs) \ {t} : task'[u] = task[u]
      /\ \A g : Settled(g) => Settled(g)'
  BY <1>1, ScanStill
<1>3. /\ StoreTypes /\ task' \in [Slots \cup Procs -> TaskRecords]
  BY DEF StoreInv, StoreTypes
<1>4. StoreMoves(t)
  <2>1. StoreTypes'
    BY <1>3, Droppings DEF StoreTypes
  <2>2. TaskMoves(t)
    BY <1>1, <1>2 DEF TaskMoves, RequestMoves
  <2>3. MarkerMoves(t) /\ ReadersMove(t) /\ LeasesMove(t)
    BY <1>1, <1>2, <1>3, Droppings DEF MarkerMoves, ReadersMove, LeasesMove, StoreTypes, TaskRecords
  <2>4. DiskMoves(t)
    BY DEF DiskMoves
  <2> QED
    BY <2>1, <2>2, <2>3, <2>4 DEF StoreMoves
<1>5. ASSUME t \in Slots
      PROVE  SlotShape(task[t])' /\ WriterSound(t)' /\ ReaderSound(t)'
  <2>1. SlotShape(task[t]) /\ task[t].kind # "none" /\ task[t].kind # "get"
    <3>1. SlotShape(task[t])
      BY <1>5 DEF StoreInv
    <3>2. task[t].pc # "idle" /\ task[t].pc \notin Reading
      BY DEF Scanning, Looking, Reading
    <3> QED
      BY <3>1, <3>2, NoTaskIs DEF SlotShape
  <2>2. r.pc # "record"
    BY <2>1 DEF SlotShape
  <2>3. task[t].kind \in {"put", "delete"} /\ task[t].id # 0
        /\ task[t].phase \in {"remove", "scan"}
    BY <2>1 DEF SlotShape
  <2>4. SlotShape(r)
    BY <2>2, <2>3 DEF SlotShape
  <2>5. WriterSound(t)'
    BY <1>1, <1>2, <2>3 DEF WriterSound, Assembly, Unpublished
  <2>6. ReaderSound(t)'
    BY <1>1, <1>2 DEF ReaderSound
  <2> QED
    BY <1>2, <2>4, <2>5, <2>6
<1>6. ASSUME t \in Procs
      PROVE  ProcShape(task[t])'
  <2>1. ProcShape(task[t]) /\ task[t].pc # "idle"
    BY <1>6 DEF StoreInv, Scanning, Looking
  <2> QED
    BY <1>2, <2>1, NoTaskIs DEF ProcShape
<1> QED
  BY <1>4, <1>5, <1>6, StoreFrame

\* A scan is over, or begins again.
LEMMA EndStep ==
  ASSUME StoreInv, NEW t \in Slots \cup Procs, NEW r, task' = [task EXCEPT ![t] = r],
         r = NoTask \/ (t \in Procs /\ r = ScanTask),
         temps' \subseteq temps, \A g \in temps \ temps' : Settled(g), DeadDropped,
         again' \in [Procs -> BOOLEAN],
         UNCHANGED <<files, marker, legacy, dir, up, home, ops, faults>>
  PROVE  StoreInv'
<1>1. r \in TaskRecords /\ r.pc \notin Unpublished \cup Opening
  BY NoTaskIs DEF Unpublished, Assembly, Opening
<1>2. /\ task'[t] = r /\ \A u \in (Slots \cup Procs) \ {t} : task'[u] = task[u]
  BY <1>1, ScanStill
<1>3. /\ StoreTypes /\ task' \in [Slots \cup Procs -> TaskRecords]
  BY <1>1 DEF StoreInv, StoreTypes
<1>4. StoreMoves(t)
  <2>1. StoreTypes'
    BY <1>3, Droppings DEF StoreTypes
  <2>2. TaskMoves(t)
    BY <1>1, <1>2, StoreAssumption DEF TaskMoves, RequestMoves
  <2>3. MarkerMoves(t) /\ ReadersMove(t) /\ LeasesMove(t)
    BY <1>1, <1>2, <1>3, Droppings DEF MarkerMoves, ReadersMove, LeasesMove, StoreTypes, TaskRecords
  <2>4. DiskMoves(t)
    BY DEF DiskMoves
  <2> QED
    BY <2>1, <2>2, <2>3, <2>4 DEF StoreMoves
<1> QED
  BY <1>2, <1>4, NoTaskSound, StoreFrame

LEMMA Scanner ==
  ASSUME StoreInv, NEW t \in Slots \cup Procs
  PROVE  /\ task[t] \in TaskRecords /\ ScanSound(t) /\ task[t].todo \subseteq Files
         /\ task[t].phase \in {"none", "remove", "scan", "recover"}
         /\ task[t].pc \in Scanning => t \in Procs \/ task[t].kind \in {"put", "delete"}
         /\ task[t].kind \in {"put", "delete"} /\ task[t].seen \in Generations =>
              Settled(task[t].seen)
<1>1. task[t] \in TaskRecords /\ ScanSound(t)
  BY DEF StoreInv, StoreTypes
<1>2. ASSUME t \in Slots, task[t].pc \in Scanning
      PROVE  task[t].kind \in {"put", "delete"}
  <2>1. SlotShape(task[t]) /\ task[t].pc \notin Reading /\ task[t].pc # "idle"
    BY <1>2 DEF StoreInv, Scanning, Looking, Reading
  <2> QED
    BY <2>1, NoTaskIs DEF SlotShape
<1>3. ASSUME task[t].kind \in {"put", "delete"}, task[t].seen \in Generations
      PROVE  Settled(task[t].seen)
  BY <1>3 DEF StoreInv, ProcShape, WriterSound
<1> QED
  BY <1>1, <1>2, <1>3 DEF TaskRecords

LEMMA Gone ==
  ASSUME Store!DropDead
  PROVE  DeadDropped
BY StoreNames DEF Store!DropDead, DeadDropped

\* A look that is refused.
LEMMA RefuseStep ==
  ASSUME StoreInv, NEW t \in Slots \cup Procs, Store!Refuse(t), task[t].pc \in Looking \cup {"pick"},
         DeadDropped, UNCHANGED <<files, temps, marker, legacy, dir, again, up, home, ops, faults>>
  PROVE  StoreInv'
<1> DEFINE r == IF task[t].phase = "remove"
                  THEN [task[t] EXCEPT !.todo = {}, !.pc = "retained"]
                  ELSE [task[t] EXCEPT !.todo = @ \ {FileOf(t)}, !.pc = "pick"]
<1>1. task' = [task EXCEPT ![t] = r]
  BY StoreNames DEF Store!Refuse, Store!Set
<1>2. /\ task[t] \in TaskRecords /\ ScanSound(t) /\ task[t].todo \subseteq Files
      /\ task[t].kind \in {"put", "delete"} /\ task[t].seen \in Generations =>
           Settled(task[t].seen)
  BY Scanner
<1>3. /\ r \in TaskRecords /\ r.pc \in {"retained", "pick"} /\ r.todo \subseteq task[t].todo
      /\ r.kind = task[t].kind /\ r.id = task[t].id /\ r.phase = task[t].phase
      /\ r.seen = task[t].seen /\ r.tmp = task[t].tmp
  BY <1>2 DEF TaskRecords, Scanning, Looking
<1> HIDE DEF r
<1>4. r.pc \notin Unpublished \cup Opening /\ r.pc \in Scanning /\ task[t].pc \in Scanning
  BY <1>3 DEF Unpublished, Assembly, Opening, Scanning, Looking
<1>5. /\ task'[t] = r
      /\ \A g : Settled(g) => Settled(g)'
      /\ \A g : Superseded(g) => Superseded(g)'
      /\ \A g : Unseen(g) => Unseen(g)'
  BY <1>1, <1>4, ScanStill
<1>6. ScanSound(t)'
  <2>1. Heads(t)' \subseteq Heads(t)
    BY <1>3, <1>5 DEF Heads
  <2>2. \A g \in Heads(t) : Settled(g)
    BY <1>2 DEF ScanSound, Looking
  <2>3. r.kind = "recover" /\ r.seen = NoMarker =>
          \A e \in r.todo : Superseded(e[1]) /\ Unseen(e[1])
    BY <1>2, <1>3 DEF ScanSound
  <2> QED
    BY <1>3, <1>5, <2>1, <2>2, <2>3 DEF ScanSound, Looking
<1>7. r.pc = "record" => r.kind = "recover"
  BY <1>3
<1>8. r.phase = "remove" => r.pc \in Looking \cup {"pick", "retained"}
  BY <1>3
<1> QED
  BY <1>1, <1>2, <1>3, <1>4, <1>6, <1>7, <1>8, ScanStep

\* A step of a scan that only goes on to another stage.
LEMMA GoStep ==
  ASSUME StoreInv, NEW t \in Slots \cup Procs, NEW pc \in Looking \cup {"pick", "retained", "temps"},
         Store!Go(t, pc), task[t].pc \in Looking \cup {"pick"},
         pc = "temps" => task[t].phase # "remove",
         pc \in Looking => task[t].todo # {},
         pc \in {"readers2", "lease2", "unlink"} => Superseded(FileOf(t)[1]),
         pc \in {"lease2", "unlink"} => Unread(FileOf(t)[1])',
         DeadDropped, UNCHANGED <<files, temps, marker, legacy, dir, again, up, home, ops, faults>>
  PROVE  StoreInv'
<1> DEFINE r == [task[t] EXCEPT !.pc = pc]
<1>1. task' = [task EXCEPT ![t] = r]
  BY StoreNames DEF Store!Go, Store!Set
<1>2. /\ task[t] \in TaskRecords /\ ScanSound(t)
      /\ task[t].kind \in {"put", "delete"} /\ task[t].seen \in Generations =>
           Settled(task[t].seen)
  BY Scanner
<1>3. /\ r \in TaskRecords /\ r.pc = pc /\ r.todo = task[t].todo
      /\ r.kind = task[t].kind /\ r.id = task[t].id /\ r.phase = task[t].phase
      /\ r.seen = task[t].seen /\ r.tmp = task[t].tmp
  BY <1>2 DEF TaskRecords, Scanning, Looking
<1> HIDE DEF r
<1>4. r.pc \notin Unpublished \cup Opening /\ r.pc \in Scanning /\ task[t].pc \in Scanning
  BY <1>3 DEF Unpublished, Assembly, Opening, Scanning, Looking
<1>5. /\ task'[t] = r
      /\ \A g : Settled(g) => Settled(g)'
      /\ \A g : Superseded(g) => Superseded(g)'
      /\ \A g : Unseen(g) => Unseen(g)'
  BY <1>1, <1>4, ScanStill
<1>6. ScanSound(t)'
  <2>1. Heads(t)' = Heads(t) /\ FileOf(t)' = FileOf(t)
    BY <1>3, <1>5 DEF Heads, FileOf
  <2>2. \A g \in Heads(t) : Settled(g)
    BY <1>2 DEF ScanSound, Looking
  <2>3. r.kind = "recover" /\ r.seen = NoMarker =>
          \A e \in r.todo : Superseded(e[1]) /\ Unseen(e[1])
    BY <1>2, <1>3 DEF ScanSound
  <2> QED
    BY <1>3, <1>5, <2>1, <2>2, <2>3 DEF ScanSound, Looking
<1>7. r.pc # "record"
  BY <1>3 DEF Looking
<1>8. r.phase = "remove" => r.pc \in Looking \cup {"pick", "retained"}
  BY <1>3
<1> QED
  BY <1>1, <1>2, <1>3, <1>4, <1>6, <1>7, <1>8, ScanStep

LEMMA StorePick ==
  ASSUME StoreInv, NEW t \in Slots \cup Procs, Store!Pick(t)
  PROVE  StoreInv'
<1>1. /\ task[t].pc = "pick" /\ ScanSound(t) /\ task[t].todo \subseteq Files
      /\ UNCHANGED <<files, temps, marker, legacy, dir, again, up, home, ops, faults>>
      /\ DeadDropped
  BY Scanner DEF Store!Pick, Store!At, Store!diskVars, Store!runVars, DeadDropped
<1>2. CASE task[t].todo = {}
  <2>1. Store!Go(t, IF task[t].phase = "remove" THEN "retained" ELSE "temps")
    BY <1>2 DEF Store!Pick
  <2> DEFINE pc == IF task[t].phase = "remove" THEN "retained" ELSE "temps"
  <2>2. pc \in {"retained", "temps"} /\ (pc = "temps" => task[t].phase # "remove")
    OBVIOUS
  <2> HIDE DEF pc
  <2>3. pc \notin Looking
    BY <2>2 DEF Looking
  <2>4. Store!Go(t, pc)
    BY <2>1 DEF pc
  <2> QED
    BY <1>1, <2>2, <2>3, <2>4, GoStep DEF Looking
<1>3. CASE task[t].todo # {} /\ task[t].kind = "recover" /\ task[t].seen = NoMarker
  <2>1. FileOf(t) \in task[t].todo
    BY <1>1, <1>3, NextFileIn DEF FileOf
  <2>2. Superseded(FileOf(t)[1]) /\ Unseen(FileOf(t)[1])
    BY <1>1, <1>3, <2>1 DEF ScanSound
  <2>3. Store!Go(t, "unlink")
    BY <1>3, StoreNames DEF Store!Pick
  <2>4. Unseen(FileOf(t)[1])'
    <3>1. task' = [task EXCEPT ![t] = [task[t] EXCEPT !.pc = "unlink"]]
      BY <2>3 DEF Store!Go, Store!Set
    <3>2. FileOf(t)' = FileOf(t)
      BY <3>1 DEF FileOf, StoreInv, StoreTypes, TaskRecords
    <3>3. [task[t] EXCEPT !.pc = "unlink"].pc \notin Unpublished \cup Opening
      BY DEF Unpublished, Assembly, Opening, StoreInv, StoreTypes, TaskRecords
    <3> QED
      BY <1>1, <2>2, <3>1, <3>2, <3>3, ScanStill
  <2>5. Unread(FileOf(t)[1])'
    BY <2>4 DEF Unseen, Unread
  <2> QED
    BY <1>1, <1>3, <2>2, <2>3, <2>5, GoStep DEF Looking
<1>4. CASE task[t].todo # {} /\ ~(task[t].kind = "recover" /\ task[t].seen = NoMarker)
  <2>1. Store!Refuse(t) \/ Store!Go(t, "readers1")
    BY <1>4, StoreNames DEF Store!Pick
  <2>2. CASE Store!Refuse(t)
    BY <1>1, <2>2, RefuseStep
  <2>3. CASE Store!Go(t, "readers1")
    BY <1>1, <1>4, <2>3, GoStep DEF Looking
  <2> QED
    BY <2>1, <2>2, <2>3
<1> QED
  BY <1>2, <1>3, <1>4

LEMMA StoreCheckLease ==
  ASSUME StoreInv, NEW t \in Slots \cup Procs, Store!CheckLease(t)
  PROVE  StoreInv'
<1>1. /\ task[t].pc = "lease2" /\ ScanSound(t)
      /\ UNCHANGED <<files, temps, marker, legacy, dir, again, up, home, ops, faults>>
      /\ UNCHANGED <<readers, lease>> /\ DeadDropped
  BY Scanner DEF Store!CheckLease, Store!At, Store!diskVars, Store!runVars, DeadDropped
<1>2. task[t].todo # {} /\ Superseded(FileOf(t)[1]) /\ Unread(FileOf(t)[1])
  BY <1>1 DEF ScanSound, Looking
<1>3. Store!Refuse(t) \/ Store!Go(t, "unlink")
  BY DEF Store!CheckLease
<1>4. CASE Store!Refuse(t)
  BY <1>1, <1>4, RefuseStep DEF Looking
<1>5. CASE Store!Go(t, "unlink")
  <2>1. task' = [task EXCEPT ![t] = [task[t] EXCEPT !.pc = "unlink"]]
    BY <1>5 DEF Store!Go, Store!Set
  <2>2. FileOf(t)' = FileOf(t)
    BY <2>1 DEF FileOf, StoreInv, StoreTypes, TaskRecords
  <2>3. [task[t] EXCEPT !.pc = "unlink"].pc \notin Unpublished \cup Opening
    BY DEF Unpublished, Assembly, Opening, StoreInv, StoreTypes, TaskRecords
  <2>4. Unread(FileOf(t)[1])'
    BY <1>1, <1>2, <2>1, <2>2, <2>3, ScanStill
  <2> QED
    BY <1>1, <1>2, <1>5, <2>4, GoStep DEF Looking
<1> QED
  BY <1>3, <1>4, <1>5

LEMMA StoreCheckReaders ==
  ASSUME StoreInv, NEW t \in Slots \cup Procs, Store!CheckReaders(t)
  PROVE  StoreInv'
<1>1. /\ ScanSound(t) /\ DeadDropped
      /\ UNCHANGED <<files, temps, marker, legacy, dir, again, up, home, ops, faults>>
  BY Scanner, Gone DEF Store!CheckReaders, Store!runVars
<1>2. PICK step \in {<<"readers1", "current">>, <<"readers2", "lease2">>} :
        /\ task[t].pc = step[1]
        /\ IF Store!hasLiveReaderLease THEN Store!Refuse(t) ELSE Store!Go(t, step[2])
  BY DEF Store!CheckReaders, Store!At
<1>3. task[t].pc \in Looking
  BY <1>2 DEF Looking
<1>4. CASE Store!Refuse(t)
  BY <1>1, <1>3, <1>4, RefuseStep
<1>5. CASE ~Store!hasLiveReaderLease /\ Store!Go(t, step[2])
  <2>1. task[t].todo # {} /\ (step[2] = "lease2" => Superseded(FileOf(t)[1]))
    BY <1>1, <1>2, <1>3 DEF ScanSound
  <2>2. readers' = {}
    BY <1>5 DEF Store!hasLiveReaderLease, Store!CheckReaders, Store!DropDead
  <2>3. \A g : Unread(g)'
    BY <2>2 DEF Unread
  <2>4. step[2] \in {"current", "lease2"} /\ step[2] # "temps"
    BY <1>2
  <2>5. step[2] \in Looking \cup {"pick", "retained", "temps"}
    BY <2>4 DEF Looking
  <2> QED
    BY <1>1, <1>3, <1>5, <2>1, <2>3, <2>4, <2>5, GoStep
<1> QED
  BY <1>2, <1>4, <1>5

LEMMA StoreCheckMarker ==
  ASSUME StoreInv, NEW t \in Slots \cup Procs, Store!CheckMarker(t)
  PROVE  StoreInv'
<1>1. /\ task[t].pc = "current" /\ ScanSound(t) /\ task[t].todo \subseteq Files
      /\ UNCHANGED <<files, temps, marker, legacy, dir, again, up, home, ops, faults>>
      /\ DeadDropped
  BY Scanner DEF Store!CheckMarker, Store!At, Store!diskVars, Store!runVars, DeadDropped
<1>2. /\ task[t].todo # {} /\ FileOf(t) \in task[t].todo
      /\ Settled(FileOf(t)[1])
  <2>1. task[t].todo # {}
    BY <1>1 DEF ScanSound, Looking
  <2>2. FileOf(t) \in task[t].todo
    BY <1>1, <2>1, NextFileIn DEF FileOf
  <2> QED
    BY <1>1, <2>1, <2>2 DEF ScanSound, Heads
<1>3. \/ Store!Refuse(t)
      \/ marker # FileOf(t)[1] /\ Store!Go(t, "readers2")
  BY StoreNames DEF Store!CheckMarker, Store!readCommitRecord
<1>4. CASE Store!Refuse(t)
  BY <1>1, <1>4, RefuseStep DEF Looking
<1>5. CASE marker # FileOf(t)[1] /\ Store!Go(t, "readers2")
  BY <1>1, <1>2, <1>5, GoStep DEF Looking, Superseded
<1> QED
  BY <1>3, <1>4, <1>5

LEMMA StoreUnlink ==
  ASSUME StoreInv, NEW t \in Slots \cup Procs, Store!Unlink(t)
  PROVE  StoreInv'
<1> DEFINE r == [task[t] EXCEPT !.todo = @ \ {FileOf(t)}, !.pc = "pick"]
<1>1. /\ task[t].pc = "unlink" /\ task' = [task EXCEPT ![t] = r] /\ DeadDropped
      /\ files' = files \ {FileOf(t)}
      /\ UNCHANGED <<temps, marker, legacy, dir, again, up, home, ops, faults>>
  BY StoreNames DEF Store!Unlink, Store!At, Store!Set, Store!runVars, DeadDropped
<1>2. /\ task[t] \in TaskRecords /\ ScanSound(t) /\ task[t].todo \subseteq Files
      /\ task[t].kind \in {"put", "delete"} /\ task[t].seen \in Generations =>
           Settled(task[t].seen)
  BY Scanner
<1>3. /\ r \in TaskRecords /\ r.pc = "pick" /\ r.todo \subseteq task[t].todo
      /\ r.kind = task[t].kind /\ r.id = task[t].id /\ r.phase = task[t].phase
      /\ r.seen = task[t].seen /\ r.tmp = task[t].tmp
  BY <1>2 DEF TaskRecords, Scanning, Looking
<1> HIDE DEF r
<1>4. /\ r.pc \notin Unpublished \cup Opening /\ r.pc \in Scanning /\ task[t].pc \in Scanning
      /\ r.pc # "record" /\ r.pc \in Looking \cup {"pick", "retained"}
  BY <1>1, <1>3 DEF Unpublished, Assembly, Opening, Scanning, Looking
<1>5. /\ task'[t] = r
      /\ \A g : Settled(g) => Settled(g)'
      /\ \A g : Superseded(g) => Superseded(g)'
      /\ \A g : Unseen(g) => Unseen(g)'
  BY <1>1, <1>4, ScanStill
<1>6. ScanSound(t)'
  <2>1. Heads(t)' \subseteq Heads(t)
    BY <1>3, <1>5 DEF Heads
  <2>2. \A g \in Heads(t) : Settled(g)
    BY <1>1, <1>2 DEF ScanSound
  <2>3. r.kind = "recover" /\ r.seen = NoMarker =>
          \A e \in r.todo : Superseded(e[1]) /\ Unseen(e[1])
    BY <1>1, <1>2, <1>3 DEF ScanSound, Looking
  <2> QED
    BY <1>3, <1>5, <2>1, <2>2, <2>3 DEF ScanSound, Looking
<1>7. Superseded(FileOf(t)[1]) /\ Unread(FileOf(t)[1])
  BY <1>1, <1>2 DEF ScanSound
<1> QED
  BY <1>1, <1>2, <1>3, <1>4, <1>6, <1>7, ScanStep

LEMMA StoreReadRetained ==
  ASSUME StoreInv, NEW t \in Slots \cup Procs, Store!ReadRetained(t)
  PROVE  StoreInv'
<1> DEFINE r == [task[t] EXCEPT !.seen = marker, !.pc = "list", !.phase = "scan"]
<1>1. /\ task[t].pc = "retained" /\ task' = [task EXCEPT ![t] = r] /\ DeadDropped
      /\ UNCHANGED <<files, temps, marker, legacy, dir, again, up, home, ops, faults>>
  BY DEF Store!ReadRetained, Store!At, Store!Set, Store!readCommitRecord, Store!diskVars,
         Store!runVars, DeadDropped
<1>2. task[t] \in TaskRecords /\ ScanSound(t)
  BY Scanner
<1>3. /\ r \in TaskRecords /\ r.pc = "list" /\ r.todo = task[t].todo
      /\ r.kind = task[t].kind /\ r.id = task[t].id /\ r.phase = "scan"
      /\ r.seen = marker /\ r.tmp = task[t].tmp
  BY <1>2 DEF StoreInv, StoreTypes, TaskRecords, Scanning, Looking
<1> HIDE DEF r
<1>4. /\ r.pc \notin Unpublished \cup Opening /\ r.pc \in Scanning /\ task[t].pc \in Scanning
      /\ r.pc # "record"
  BY <1>1, <1>3 DEF Unpublished, Assembly, Opening, Scanning, Looking
<1>5. task'[t] = r /\ \A g : Settled(g) => Settled(g)'
  BY <1>1, <1>4, ScanStill
<1>6. ScanSound(t)'
  <2>1. Heads(t)' = Heads(t) /\ \A g \in Heads(t) : Settled(g)
    BY <1>1, <1>2, <1>3, <1>5 DEF Heads, ScanSound
  <2> QED
    BY <1>3, <1>5, <2>1 DEF ScanSound, Looking
<1>7. marker \in Generations => Settled(marker)
  BY DEF StoreInv, DiskSound, MarkerSound
<1> QED
  BY <1>1, <1>3, <1>4, <1>6, <1>7, ScanStep

LEMMA StoreListFiles ==
  ASSUME StoreInv, NEW t \in Slots \cup Procs, Store!ListFiles(t)
  PROVE  StoreInv'
<1> DEFINE held == {g \in Generations : lease[g] # "none"}
           r == [task[t] EXCEPT !.todo = files, !.tmp = temps, !.pc = "live",
                                !.names = held, !.by = readers]
<1>1. /\ task[t].pc = "list" /\ task' = [task EXCEPT ![t] = r] /\ DeadDropped
      /\ UNCHANGED <<files, temps, marker, legacy, dir, again, up, home, ops, faults>>
  BY StoreNames DEF Store!ListFiles, Store!At, Store!Set, Store!diskVars,
         Store!runVars, DeadDropped
<1>2. /\ task[t] \in TaskRecords /\ ScanSound(t)
      /\ task[t].pc \in Scanning => t \in Procs \/ task[t].kind \in {"put", "delete"}
      /\ task[t].kind \in {"put", "delete"} /\ task[t].seen \in Generations =>
           Settled(task[t].seen)
  BY Scanner
<1>3. /\ r \in TaskRecords /\ r.pc = "live" /\ r.todo = files
      /\ r.kind = task[t].kind /\ r.id = task[t].id /\ r.phase = task[t].phase
      /\ r.seen = task[t].seen /\ r.tmp = temps /\ r.names = held
  BY <1>2 DEF StoreInv, StoreTypes, TaskRecords, Scanning, Looking
<1> HIDE DEF r
<1>4. /\ r.pc \notin Unpublished \cup Opening /\ r.pc \in Scanning /\ task[t].pc \in Scanning
      /\ r.pc # "record"
  BY <1>1, <1>3 DEF Unpublished, Assembly, Opening, Scanning, Looking
<1>5. task'[t] = r /\ \A u \in (Slots \cup Procs) \ {t} : task'[u] = task[u]
  BY <1>1, <1>4, ScanStill
<1>6. ASSUME NEW g \in {e[1] : e \in files} \cup temps
      PROVE  ListedSound(t, g)'
  <2>1. g <= ops /\ g \in Generations
    BY DEF StoreInv, DiskSound, StoreTypes, Files
  <2>2. ASSUME NEW s \in Slots, task'[s].id = g, task'[s].pc \in Unpublished
        PROVE  task'[s].pc \in Assembly /\ g \in held
    <3>1. task[s].id = g /\ task[s].pc \in Unpublished
      BY <1>4, <1>5, <2>2
    <3>2. WriterSound(s)
      BY DEF StoreInv
    <3>3. task[s].pc \in Assembly
      BY <1>6, <3>1, <3>2 DEF WriterSound, Unpublished
    <3>4. lease[g] = "held"
      BY <3>1, <3>2, <3>3 DEF WriterSound, Leasing
    <3>5. task'[s] = task[s]
      BY <1>4, <1>5, <2>2
    <3> QED
      BY <2>1, <3>3, <3>4, <3>5
  <2> QED
    BY <1>1, <1>3, <1>5, <2>1, <2>2 DEF ListedSound
<1>7. ScanSound(t)'
  <2>1. Heads(t)' = {e[1] : e \in files} \cup temps
    BY <1>3, <1>5 DEF Heads
  <2> QED
    BY <1>3, <1>5, <1>6, <2>1 DEF ScanSound, Looking
<1>8. r.phase # "remove"
  <2>1. ProcShape(task[t]) \/ SlotShape(task[t])
    BY DEF StoreInv
  <2> QED
    BY <1>1, <1>3, <2>1 DEF SlotShape, ProcShape, Looking
<1> QED
  BY <1>1, <1>2, <1>3, <1>4, <1>7, <1>8, ScanStep

LEMMA StoreReclaimTemps ==
  ASSUME StoreInv, NEW t \in Slots \cup Procs, Store!ReclaimTemps(t)
  PROVE  StoreInv'
<1>1. /\ task[t].pc = "temps" /\ DeadDropped /\ ScanSound(t)
      /\ temps' = {g \in temps : g \notin task[t].tmp \/ Store!Guarded(Store!Proc(t), g)}
      /\ UNCHANGED <<files, marker, legacy, dir, up, home, ops, faults>>
      /\ Store!Ended(t)
  BY Scanner DEF Store!ReclaimTemps, Store!At, Store!runVars, DeadDropped
<1>2. PICK r \in {NoTask, ScanTask} :
        task' = [task EXCEPT ![t] = r] /\ (r = NoTask \/ t \in Procs)
  BY <1>1, StoreNames DEF Store!Ended, Store!Set
<1>3. again' \in [Procs -> BOOLEAN]
  BY <1>1 DEF Store!Ended, StoreInv, StoreTypes
<1>4. \A g \in temps \ temps' : Settled(g)
  BY <1>1 DEF ScanSound, Heads
<1> QED
  BY <1>1, <1>2, <1>3, <1>4, EndStep

\* What is listed and not of a live lease is settled.
LEMMA NotLive ==
  ASSUME StoreInv, NEW t \in Slots \cup Procs, task[t].pc = "live", NEW g \in Heads(t),
         g \notin Store!Live(t)
  PROVE  Settled(g)
<1>1. ListedSound(t, g)
  BY Scanner DEF ScanSound
<1>2. ASSUME NEW s \in Slots, task[s].id = g, task[s].pc \in Unpublished
      PROVE  FALSE
  <2>1. task[s].pc \in Assembly /\ g \in task[t].names /\ WriterSound(s)
    BY <1>1, <1>2 DEF ListedSound, StoreInv
  <2>2. lease[g] = "held"
    BY <1>2, <2>1 DEF WriterSound, Leasing
  <2> QED
    BY <2>1, <2>2 DEF Store!Live, Store!isLiveTempLease
<1> QED
  BY <1>1, <1>2 DEF ListedSound, Settled

\* A listing becomes what there is to do.
LEMMA ListedStep ==
  ASSUME StoreInv, NEW t \in Slots \cup Procs, NEW todo \in SUBSET task[t].todo,
         NEW pc \in {"record", "pick"},
         task' = [task EXCEPT ![t] = [task[t] EXCEPT !.tmp = @ \ Store!Live(t), !.names = {},
                    !.by = {}, !.pc = pc, !.todo = todo]],
         task[t].pc = "live", \A e \in todo : e[1] \notin Store!Live(t),
         pc = "pick" => task[t].kind # "recover", pc = "record" => task[t].kind = "recover",
         DeadDropped, UNCHANGED <<files, temps, marker, legacy, dir, again, up, home, ops, faults>>
  PROVE  StoreInv'
<1> DEFINE r == [task[t] EXCEPT !.tmp = @ \ Store!Live(t), !.names = {}, !.by = {}, !.pc = pc,
                   !.todo = todo]
<1>1. /\ task[t] \in TaskRecords /\ task[t].todo \subseteq Files
      /\ task[t].kind \in {"put", "delete"} /\ task[t].seen \in Generations =>
           Settled(task[t].seen)
  BY Scanner
<1>2. /\ r \in TaskRecords /\ r.pc = pc /\ r.todo = todo
      /\ r.kind = task[t].kind /\ r.id = task[t].id /\ r.phase = task[t].phase
      /\ r.seen = task[t].seen /\ r.tmp = task[t].tmp \ Store!Live(t)
  BY <1>1 DEF TaskRecords, Scanning, Looking
<1>3. task' = [task EXCEPT ![t] = r]
  OBVIOUS
<1> HIDE DEF r
<1>4. /\ r.pc \notin Unpublished \cup Opening /\ r.pc \in Scanning /\ task[t].pc \in Scanning
      /\ r.pc \notin Looking
  BY <1>2 DEF Unpublished, Assembly, Opening, Scanning, Looking
<1>5. task'[t] = r /\ \A g : Settled(g) => Settled(g)'
  BY <1>3, <1>4, ScanStill
<1>6. ScanSound(t)'
  <2>1. \A g \in Heads(t)' : g \in Heads(t) /\ g \notin Store!Live(t)
    BY <1>2, <1>5 DEF Heads
  <2>2. \A g \in Heads(t)' : Settled(g)'
    BY <1>5, <2>1, NotLive
  <2>3. r.pc # "live" /\ ~(r.kind = "recover" /\ r.pc = "pick")
    BY <1>2
  <2>4. r.pc \notin {"readers2", "lease2", "unlink"}
    BY <1>2
  <2> QED
    BY <1>4, <1>5, <2>2, <2>3, <2>4 DEF ScanSound
<1>7. r.phase # "remove"
  <2>1. ProcShape(task[t]) \/ SlotShape(task[t])
    BY DEF StoreInv
  <2> QED
    BY <1>2, <2>1 DEF SlotShape, ProcShape, Looking
<1> QED
  BY <1>1, <1>2, <1>3, <1>4, <1>6, <1>7, ScanStep

LEMMA StoreLiveTempLeases ==
  ASSUME StoreInv, NEW t \in Slots \cup Procs, Store!liveTempLeases(t)
  PROVE  StoreInv'
<1>1. /\ task[t].pc = "live" /\ DeadDropped
      /\ UNCHANGED <<files, temps, marker, legacy, dir, up, home, ops, faults>>
  BY Gone DEF Store!liveTempLeases, Store!At, Store!runVars
<1>2. task[t] \in TaskRecords
  BY Scanner
<1>3. CASE /\ task[t].kind = "recover" /\ UNCHANGED again
           /\ Store!Set(t, [task[t] EXCEPT !.tmp = @ \ Store!Live(t), !.names = {}, !.by = {},
                              !.pc = "record", !.todo = Store!Recoverable(t)])
  <2>1. /\ Store!Recoverable(t) \in SUBSET task[t].todo
        /\ \A e \in Store!Recoverable(t) : e[1] \notin Store!Live(t)
    BY DEF Store!Recoverable
  <2>2. task' = [task EXCEPT ![t] = [task[t] EXCEPT !.tmp = @ \ Store!Live(t), !.names = {},
                    !.by = {}, !.pc = "record", !.todo = Store!Recoverable(t)]]
    BY <1>3 DEF Store!Set
  <2> QED
    BY <1>1, <1>3, <2>1, <2>2, ListedStep
<1>4. CASE /\ task[t].kind # "recover" /\ UNCHANGED again
           /\ Store!Set(t, [task[t] EXCEPT !.tmp = @ \ Store!Live(t), !.names = {}, !.by = {},
                              !.pc = "pick", !.todo = Store!Reclaimable(t)])
  <2>1. /\ Store!Reclaimable(t) \in SUBSET task[t].todo
        /\ \A e \in Store!Reclaimable(t) : e[1] \notin Store!Live(t)
    BY DEF Store!Reclaimable
  <2>2. task' = [task EXCEPT ![t] = [task[t] EXCEPT !.tmp = @ \ Store!Live(t), !.names = {},
                    !.by = {}, !.pc = "pick", !.todo = Store!Reclaimable(t)]]
    BY <1>4 DEF Store!Set
  <2> QED
    BY <1>1, <1>4, <2>1, <2>2, ListedStep
<1>5. CASE Store!Ended(t)
  <2>1. PICK r \in {NoTask, ScanTask} :
          task' = [task EXCEPT ![t] = r] /\ (r = NoTask \/ t \in Procs)
    BY <1>5, StoreNames DEF Store!Ended, Store!Set
  <2>2. again' \in [Procs -> BOOLEAN]
    BY <1>5 DEF Store!Ended, StoreInv, StoreTypes
  <2> QED
    BY <1>1, <2>1, <2>2, EndStep
<1> QED
  BY <1>3, <1>4, <1>5 DEF Store!liveTempLeases

LEMMA StoreReadRecord ==
  ASSUME StoreInv, NEW t \in Procs, Store!ReadRecord(t)
  PROVE  StoreInv'
<1>1. PICK kept : task' = [task EXCEPT ![t] = [task[t] EXCEPT !.seen = marker, !.pc = "pick",
                             !.todo = {e \in task[t].todo : e[1] # kept}]]
  BY DEF Store!ReadRecord, Store!Set
<1> DEFINE r == [task[t] EXCEPT !.seen = marker, !.pc = "pick",
                   !.todo = {e \in task[t].todo : e[1] # kept}]
<1>2. /\ task[t].pc = "record" /\ DeadDropped
      /\ UNCHANGED <<files, temps, marker, legacy, dir, again, up, home, ops, faults>>
  BY DEF Store!ReadRecord, Store!At, Store!diskVars, Store!runVars, DeadDropped
<1>3. task[t] \in TaskRecords /\ ScanSound(t) /\ task[t].todo \subseteq Files
  BY Scanner
<1>4. /\ r \in TaskRecords /\ r.pc = "pick" /\ r.todo \subseteq task[t].todo
      /\ r.kind = task[t].kind /\ r.id = task[t].id /\ r.phase = task[t].phase
      /\ r.seen = marker /\ r.tmp = task[t].tmp
  BY <1>3 DEF StoreInv, StoreTypes, TaskRecords, Scanning, Looking
<1> HIDE DEF r
<1>5. /\ r.pc \notin Unpublished \cup Opening /\ r.pc \in Scanning /\ task[t].pc \in Scanning
      /\ r.pc # "record" /\ r.pc \in Looking \cup {"pick", "retained"}
  BY <1>2, <1>4 DEF Unpublished, Assembly, Opening, Scanning, Looking
<1>6. /\ task'[t] = r
      /\ \A g : Settled(g) => Settled(g)'
      /\ \A g : Superseded(g) => Superseded(g)'
      /\ \A g : Unseen(g) => Unseen(g)'
  BY <1>1, <1>2, <1>5, ScanStill DEF r
<1>7. ScanSound(t)'
  <2>1. Heads(t)' \subseteq Heads(t)
    BY <1>4, <1>6 DEF Heads
  <2>2. \A g \in Heads(t) : Settled(g)
    BY <1>2, <1>3 DEF ScanSound
  <2>3. ASSUME marker = NoMarker, NEW e \in r.todo
        PROVE  Superseded(e[1]) /\ Unseen(e[1])
    <3>1. e[1] \in Generations /\ e[1] \in Heads(t)
      BY <1>3, <1>4, <2>3 DEF Heads, Files
    <3>2. Superseded(e[1])
      BY <2>2, <2>3, <3>1, StoreNumbers DEF Superseded
    <3>3. \A s \in Slots : task[s].pc \notin Opening
      BY <2>3 DEF StoreInv, ReaderSound
    <3> QED
      BY <3>2, <3>3 DEF Unseen
  <2> QED
    BY <1>4, <1>6, <2>1, <2>2, <2>3 DEF ScanSound, Looking
<1>8. r.kind \notin {"put", "delete"}
  BY <1>4 DEF StoreInv, ProcShape
<1> QED
  BY <1>1, <1>2, <1>4, <1>5, <1>7, <1>8, ScanStep DEF r

-----------------------------------------------------------------------------
(* The steps of requests.                                                  *)

WriterNext(r) ==
  /\ r.pc \in Leasing => lease'[r.id] = "held"
  /\ r.pc \in HasTemp => r.id \in temps'
  /\ r.pc \in {"begin", "exists", "lease"} =>
       r.id \notin temps' /\ \A e \in files' : e[1] # r.id
  /\ r.kind = "put" /\ r.pc \in {"tempMeta", "meta", "tempMark", "mark"} =>
       <<r.id, 1>> \in files'
  /\ r.kind = "put" /\ r.pc \in {"tempMark", "mark"} => <<r.id, 2>> \in files'
  /\ r.kind \in {"put", "delete"} /\ r.seen \in Generations => Settled(r.seen)

ReaderNext(s, r) ==
  r.pc \in Opening =>
    /\ marker' # NoMarker /\ r.seen \in Generations /\ Settled(r.seen)
    /\ s \in readers' => PairOf(r.seen) \subseteq files'

\* A request goes on, or begins.
LEMMA RequestStep ==
  ASSUME StoreInv, NEW s \in Slots, NEW r \in TaskRecords, task' = [task EXCEPT ![s] = r],
         StoreTypes', RequestMoves(s), MarkerMoves(s), ReadersMove(s), LeasesMove(s), DiskMoves(s),
         marker' = marker \/ MarkerSound', SlotShape(r), WriterNext(r), ReaderNext(s, r),
         r.pc \notin Looking, r.pc # "live",
         \A g \in {e[1] : e \in r.todo} \cup r.tmp : Settled(g)
  PROVE  StoreInv'
<1>1. task'[s] = r /\ \A u \in (Slots \cup Procs) \ {s} : task'[u] = task[u]
  BY DEF StoreInv, StoreTypes
<1>2. s \notin Procs
  BY StoreAssumption
<1>3. StoreMoves(s)
  BY <1>1, <1>2 DEF StoreMoves, TaskMoves
<1>4. \A g \in Generations : Settled(g) => Settled(g)'
  BY <1>3, StoreStable
<1>5. SlotShape(task[s])'
  BY <1>1
<1>6. WriterSound(s)'
  BY <1>1, <1>4 DEF WriterSound, WriterNext
<1>7. ReaderSound(s)'
  BY <1>1, <1>4 DEF ReaderSound, ReaderNext
<1>8. ScanSound(s)'
  <2>1. Heads(s)' = {e[1] : e \in r.todo} \cup r.tmp
    BY <1>1 DEF Heads
  <2>2. \A g \in Heads(s)' : g \in Generations
    BY <2>1 DEF TaskRecords, Files
  <2>3. r.kind # "recover"
    BY DEF SlotShape
  <2> QED
    BY <1>1, <1>4, <2>1, <2>2, <2>3 DEF ScanSound, Looking
<1> QED
  BY <1>2, <1>3, <1>5, <1>6, <1>7, <1>8, StoreFrame

LEMMA Requester ==
  ASSUME StoreInv, NEW s \in Slots
  PROVE  /\ task[s] \in TaskRecords /\ SlotShape(task[s]) /\ IdSound(s) /\ WriterSound(s)
         /\ ReaderSound(s) /\ task[s].id \in Generations
         /\ task[s].pc # "live" => \A g \in {e[1] : e \in task[s].todo} \cup task[s].tmp : Settled(g)
         /\ task[s].pc # "idle" => task[s].kind # "none" /\ task[s].id # 0
<1>1. task[s] \in TaskRecords /\ SlotShape(task[s]) /\ ScanSound(s)
  BY DEF StoreInv, StoreTypes
<1> QED
  BY <1>1, NoTaskIs DEF StoreInv, TaskRecords, ScanSound, Heads, SlotShape

\* The disk stays as it is.
LEMMA CalmStep ==
  ASSUME NEW s \in Slots, UNCHANGED <<files, temps, lease, marker>>
  PROVE  MarkerMoves(s) /\ LeasesMove(s) /\ DiskMoves(s)
BY DEF MarkerMoves, LeasesMove, DiskMoves

LEMMA StoreStart ==
  ASSUME StoreInv, NEW s \in Slots, NEW kind \in {"put", "get", "delete"}, Store!Start(s, kind)
  PROVE  StoreInv'
<1> DEFINE pc == CASE kind = "put" -> "begin"
                   [] kind = "delete" -> "exists"
                   [] kind = "get" -> "readerLease"
           r == [NoTask EXCEPT !.kind = kind, !.id = ops + 1, !.pc = pc]
<1>1. /\ task[s] = NoTask /\ task' = [task EXCEPT ![s] = r] /\ ops < MaxOps /\ ops' = ops + 1
      /\ UNCHANGED <<files, temps, lease, readers, marker, legacy, dir, again, up, home, faults>>
  BY StoreNames DEF Store!Start, Store!Set, Store!diskVars
<1>2. ops \in Nat /\ ops + 1 \in Generations /\ ops + 1 # 0
  BY <1>1, StoreNumbers DEF StoreInv, StoreTypes, Generations
<1>3. /\ kind = "put" => pc = "begin"
      /\ kind = "delete" => pc = "exists"
      /\ kind = "get" => pc = "readerLease"
  OBVIOUS
<1> HIDE DEF pc
<1>4. /\ r \in TaskRecords /\ r.kind = kind /\ r.id = ops + 1 /\ r.pc = pc
      /\ r.todo = {} /\ r.tmp = {} /\ r.phase = "none" /\ r.seen = NoMarker
  BY <1>2, <1>3, NoTaskIs DEF NoTask, TaskRecords, TaskKinds, Unpublished, Reading
<1> HIDE DEF r
<1>5. task'[s] = r /\ task' \in [Slots \cup Procs -> TaskRecords]
  BY <1>1, <1>4 DEF StoreInv, StoreTypes
<1>6. StoreTypes'
  BY <1>1, <1>2, <1>5 DEF StoreInv, StoreTypes, Generations
<1>7. RequestMoves(s) /\ ReadersMove(s)
  BY <1>1, <1>3, <1>4, <1>5, NoTaskIs DEF RequestMoves, ReadersMove, Opening
<1>8. SlotShape(r)
  BY <1>2, <1>3, <1>4 DEF SlotShape, Unpublished, Reading, Scanning, Looking
<1>9. WriterNext(r) /\ ReaderNext(s, r)
  <2>1. ops + 1 \notin temps /\ \A e \in files : e[1] # ops + 1
    BY <1>2 DEF StoreInv, DiskSound
  <2> QED
    BY <1>1, <1>3, <1>4, <2>1, StoreNumbers
       DEF WriterNext, ReaderNext, Leasing, HasTemp, Assembly, Opening
<1>10. r.pc \notin Looking /\ r.pc # "live"
  BY <1>3, <1>4 DEF Looking
<1> QED
  BY <1>1, <1>4, <1>6, <1>7, <1>8, <1>9, <1>10, CalmStep, RequestStep

LEMMA StorePutBegin ==
  ASSUME StoreInv, NEW s \in Slots, Store!PutBegin(s)
  PROVE  StoreInv'
<1> DEFINE r == [task[s] EXCEPT !.pc = "lease", !.seen = marker]
<1>1. /\ task[s].pc = "begin" /\ task' = [task EXCEPT ![s] = r] /\ dir' = TRUE
      /\ UNCHANGED <<files, temps, lease, readers, marker, legacy, again, up, home, ops, faults>>
  BY DEF Store!PutBegin, Store!At, Store!Set, Store!readCommitRecord, Store!runVars
<1>2. /\ task[s] \in TaskRecords /\ SlotShape(task[s]) /\ WriterSound(s) /\ marker \in 0..(MaxOps + 2)
      /\ task[s].kind = "put" /\ marker \in Generations => Settled(marker)
      /\ \A g \in {e[1] : e \in task[s].todo} \cup task[s].tmp : Settled(g)
  BY <1>1, Requester DEF StoreInv, StoreTypes, DiskSound, MarkerSound
<1>3. /\ r \in TaskRecords /\ r.pc = "lease" /\ r.seen = marker /\ r.kind = task[s].kind
      /\ r.id = task[s].id /\ r.todo = task[s].todo /\ r.tmp = task[s].tmp
      /\ r.phase = task[s].phase
  BY <1>2 DEF TaskRecords, Unpublished
<1> HIDE DEF r
<1>4. task'[s] = r /\ task' \in [Slots \cup Procs -> TaskRecords]
  BY <1>1, <1>3 DEF StoreInv, StoreTypes
<1>5. StoreTypes'
  BY <1>1, <1>4 DEF StoreInv, StoreTypes
<1>6. RequestMoves(s) /\ ReadersMove(s)
  BY <1>1, <1>3, <1>4 DEF RequestMoves, ReadersMove, Opening, Unpublished, Assembly
<1>7. SlotShape(r)
  <2>1. task[s].kind = "put" /\ task[s].id # 0 /\ task[s].phase # "remove"
    BY <1>1, <1>2, NoTaskIs DEF SlotShape, Reading, Scanning, Looking
  <2> QED
    BY <1>3, <2>1 DEF SlotShape, Unpublished, Scanning, Looking
<1>8. WriterNext(r) /\ ReaderNext(s, r)
  BY <1>1, <1>2, <1>3 DEF WriterNext, ReaderNext, Leasing, HasTemp, Assembly, Opening, WriterSound,
     StoreInv, DiskSound, MarkerSound
<1>9. r.pc \notin Looking /\ r.pc # "live"
  BY <1>3 DEF Looking
<1> QED
  BY <1>1, <1>2, <1>3, <1>5, <1>6, <1>7, <1>8, <1>9, CalmStep, RequestStep

LEMMA StoreDeleteBegin ==
  ASSUME StoreInv, NEW s \in Slots, Store!DeleteBegin(s)
  PROVE  StoreInv'
<1> DEFINE r == IF marker = NoMarker /\ ~legacy THEN NoTask
                  ELSE [task[s] EXCEPT !.pc = "lease", !.seen = marker]
<1>1. /\ task[s].pc = "exists" /\ task' = [task EXCEPT ![s] = r] /\ dir' \in BOOLEAN
      /\ UNCHANGED <<files, temps, lease, readers, marker, legacy, again, up, home, ops, faults>>
  BY StoreNames DEF Store!DeleteBegin, Store!At, Store!Set, Store!readCommitRecord, Store!runVars,
     StoreInv, StoreTypes
<1>2. /\ task[s] \in TaskRecords /\ SlotShape(task[s]) /\ WriterSound(s) /\ marker \in 0..(MaxOps + 2)
      /\ marker \in Generations => Settled(marker)
      /\ \A g \in {e[1] : e \in task[s].todo} \cup task[s].tmp : Settled(g)
  BY <1>1, Requester DEF StoreInv, StoreTypes, DiskSound, MarkerSound
<1>3. \/ r = NoTask
      \/ /\ r \in TaskRecords /\ r.pc = "lease" /\ r.seen = marker /\ r.kind = task[s].kind
         /\ r.id = task[s].id /\ r.todo = task[s].todo /\ r.tmp = task[s].tmp
         /\ r.phase = task[s].phase
  BY <1>2 DEF TaskRecords, Unpublished
<1> HIDE DEF r
<1>4. task'[s] = r /\ task' \in [Slots \cup Procs -> TaskRecords] /\ r \in TaskRecords
  BY <1>1, <1>3, NoTaskIs DEF StoreInv, StoreTypes
<1>5. StoreTypes'
  BY <1>1, <1>4 DEF StoreInv, StoreTypes
<1>6. RequestMoves(s) /\ ReadersMove(s)
  BY <1>1, <1>3, <1>4, NoTaskIs DEF RequestMoves, ReadersMove, Opening, Unpublished, Assembly
<1>7. SlotShape(r)
  <2>1. task[s].kind \in {"put", "delete"} /\ task[s].id # 0 /\ task[s].phase # "remove"
    BY <1>1, <1>2, NoTaskIs DEF SlotShape, Reading, Scanning, Looking
  <2> QED
    BY <1>3, <2>1, NoTaskIs DEF SlotShape, Unpublished, Scanning, Looking
<1>8. WriterNext(r) /\ ReaderNext(s, r)
  BY <1>1, <1>2, <1>3, NoTaskIs
     DEF WriterNext, ReaderNext, Leasing, HasTemp, Assembly, Opening, WriterSound
<1>9. /\ r.pc \notin Looking /\ r.pc # "live"
      /\ \A g \in {e[1] : e \in r.todo} \cup r.tmp : Settled(g)
  BY <1>2, <1>3, NoTaskIs DEF Looking
<1> QED
  BY <1>1, <1>4, <1>5, <1>6, <1>7, <1>8, <1>9, CalmStep, RequestStep

\* A request that has an id of its own only goes on to another stage.
LEMMA GoesOn ==
  ASSUME StoreInv, NEW s \in Slots, task[s].pc # "idle",
         NEW pc \in Unpublished \cup Reading \cup {"release", "legacy"},
         Store!Go(s, pc)
  PROVE  \E r \in TaskRecords :
           /\ task' = [task EXCEPT ![s] = r] /\ task'[s] = r
           /\ task' \in [Slots \cup Procs -> TaskRecords]
           /\ r.pc = pc /\ r.kind = task[s].kind /\ r.id = task[s].id /\ r.seen = task[s].seen
           /\ r.phase = task[s].phase /\ r.todo = task[s].todo /\ r.tmp = task[s].tmp
           /\ pc \notin Looking /\ pc # "live"
<1>1. task[s] \in TaskRecords /\ task \in [Slots \cup Procs -> TaskRecords]
  BY DEF StoreInv, StoreTypes
<1> DEFINE r == [task[s] EXCEPT !.pc = pc]
<1>2. /\ r \in TaskRecords /\ r.pc = pc /\ r.kind = task[s].kind /\ r.id = task[s].id
      /\ r.seen = task[s].seen /\ r.phase = task[s].phase /\ r.todo = task[s].todo
      /\ r.tmp = task[s].tmp
  BY <1>1 DEF TaskRecords
<1>3. task' = [task EXCEPT ![s] = r]
  BY DEF Store!Go, Store!Set
<1> HIDE DEF r
<1>4. task'[s] = r /\ task' \in [Slots \cup Procs -> TaskRecords]
  BY <1>1, <1>2, <1>3
<1>5. pc \notin Looking /\ pc # "live"
  BY DEF Looking, Unpublished, Assembly, Reading
<1> QED
  BY <1>2, <1>3, <1>4, <1>5

\* A writer that goes on, whatever it does to files of its own.
LEMMA WriterStep ==
  ASSUME StoreInv, NEW s \in Slots, NEW pc \in Assembly \cup {"release", "legacy"},
         task[s].pc \in Assembly \cup {"lease", "release"}, Store!Go(s, pc),
         pc \in Assembly \/ task[s].pc \notin {"lease", "begin"},
         task[s].pc = "release" => pc = "legacy",
         task[s].kind = "delete" => pc \in {"tempMark", "mark", "release", "legacy"},
         files' \subseteq Files, temps' \subseteq Generations,
         lease' \in [Generations -> {"none", "held", "dead", "unknown"}],
         marker' \in 0..(MaxOps + 2),
         MarkerMoves(s), marker' = marker \/ MarkerSound',
         \A g \in Generations : g # task[s].id =>
           lease'[g] = lease[g] /\ (g \in temps' <=> g \in temps),
         \A e \in Files : e[1] # task[s].id => (e \in files' <=> e \in files),
         ~(task[s].pc \in Assembly) => UNCHANGED <<files, temps>>,
         pc \in Leasing => lease'[task[s].id] = "held",
         pc \in HasTemp => task[s].id \in temps',
         task[s].kind = "put" /\ pc \in {"tempMeta", "meta", "tempMark", "mark"} =>
           <<task[s].id, 1>> \in files',
         task[s].kind = "put" /\ pc \in {"tempMark", "mark"} => <<task[s].id, 2>> \in files',
         UNCHANGED <<readers, legacy, dir, again, up, home, ops, faults>>
  PROVE  StoreInv'
<1>1. /\ task[s] \in TaskRecords /\ SlotShape(task[s]) /\ IdSound(s) /\ WriterSound(s)
      /\ task[s].id \in Generations /\ task[s].id # 0 /\ task[s].kind # "none"
      /\ task[s].pc \notin {"idle", "live"}
      /\ \A g \in {e[1] : e \in task[s].todo} \cup task[s].tmp : Settled(g)
  <2>1. task[s].pc \notin {"idle", "live"}
    BY DEF Assembly
  <2> QED
    BY <2>1, Requester
<1>2. PICK r \in TaskRecords :
           /\ task' = [task EXCEPT ![s] = r] /\ task'[s] = r
           /\ task' \in [Slots \cup Procs -> TaskRecords]
           /\ r.pc = pc /\ r.kind = task[s].kind /\ r.id = task[s].id /\ r.seen = task[s].seen
           /\ r.phase = task[s].phase /\ r.todo = task[s].todo /\ r.tmp = task[s].tmp
           /\ pc \notin Looking /\ pc # "live"
  <2>1. pc \in Unpublished \cup Reading \cup {"release", "legacy"}
    BY DEF Unpublished
  <2> QED
    BY <1>1, <2>1, GoesOn
<1>3. task[s].kind \in {"put", "delete"} /\ task[s].phase # "remove"
  BY <1>1 DEF SlotShape, Reading, Assembly, Looking
<1>4. SlotShape(r)
  BY <1>1, <1>2, <1>3 DEF SlotShape, Unpublished, Assembly, Scanning, Looking
<1>5. StoreTypes'
  BY <1>2 DEF StoreInv, StoreTypes
<1>6. RequestMoves(s) /\ ReadersMove(s)
  BY <1>1, <1>2 DEF RequestMoves, ReadersMove, Opening, Unpublished, Assembly
<1>7. LeasesMove(s)
  <2>1. ASSUME NEW u \in Slots \ {s}, task'[u] = task[u], task[u].kind # "none",
               lease[task[u].id] = "held"
        PROVE  lease'[task[u].id] = "held"
    BY <1>1, <2>1 DEF IdSound, StoreInv, StoreTypes, TaskRecords
  <2> QED
    BY <1>1, <2>1 DEF LeasesMove
<1>8. DiskMoves(s)
  <2>1. CASE task[s].pc \in Assembly
    <3>1. Owns(s, task[s].id)
      BY <2>1 DEF Owns
    <3>2. temps \subseteq Generations /\ files \subseteq Files
      BY DEF StoreInv, StoreTypes
    <3> QED
      BY <3>1, <3>2 DEF DiskMoves
  <2>2. CASE task[s].pc \notin Assembly
    BY <2>2 DEF DiskMoves
  <2> QED
    BY <2>1, <2>2
<1>9. WriterNext(r) /\ ReaderNext(s, r)
  BY <1>1, <1>2, <1>3 DEF WriterNext, ReaderNext, WriterSound, Opening, Assembly
<1> QED
  BY <1>1, <1>2, <1>4, <1>5, <1>6, <1>7, <1>8, <1>9, RequestStep

LEMMA StoreCreateTempLease ==
  ASSUME StoreInv, NEW s \in Slots, Store!createTempLease(s)
  PROVE  StoreInv'
<1> DEFINE pc == IF task[s].kind = "put" THEN "tempBody" ELSE "tempMark"
<1>1. /\ task[s].pc = "lease" /\ Store!Go(s, pc) /\ lease' = [lease EXCEPT ![task[s].id] = "held"]
      /\ UNCHANGED <<files, temps, readers, marker, legacy, dir, again, up, home, ops, faults>>
  BY DEF Store!createTempLease, Store!At, Store!runVars
<1>2. pc \in {"tempBody", "tempMark"} /\ (task[s].kind = "put" <=> pc = "tempBody")
  OBVIOUS
<1> HIDE DEF pc
<1>3. task[s].id \in Generations /\ StoreTypes
  BY Requester DEF StoreInv
<1>4. /\ lease' \in [Generations -> {"none", "held", "dead", "unknown"}]
      /\ lease'[task[s].id] = "held"
      /\ \A g \in Generations : g # task[s].id => lease'[g] = lease[g]
  BY <1>1, <1>3 DEF StoreTypes
<1>5. /\ pc \in Assembly /\ pc \notin HasTemp /\ pc \notin {"tempMeta", "meta", "mark"}
      /\ task[s].pc \notin Assembly
  BY <1>1, <1>2 DEF Assembly, HasTemp
<1> QED
  BY <1>1, <1>2, <1>3, <1>4, <1>5, WriterStep DEF StoreTypes, MarkerMoves

LEMMA StoreWriteTemp ==
  ASSUME StoreInv, NEW s \in Slots, Store!WriteTemp(s)
  PROVE  StoreInv'
<1>1. PICK step \in {<<"tempBody", "body">>, <<"tempMeta", "meta">>, <<"tempMark", "mark">>} :
        task[s].pc = step[1] /\ Store!Go(s, step[2])
  BY DEF Store!WriteTemp, Store!At
<1>2. /\ temps' = temps \cup {task[s].id}
      /\ UNCHANGED <<files, lease, readers, marker, legacy, dir, again, up, home, ops, faults>>
  BY DEF Store!WriteTemp, Store!runVars
<1>3. task[s].id \in Generations /\ StoreTypes /\ SlotShape(task[s]) /\ WriterSound(s)
  BY Requester DEF StoreInv
<1>4. /\ step[2] \in Assembly /\ task[s].pc \in Assembly /\ task[s].pc \notin {"release", "lease", "begin"}
      /\ task[s].pc \in Leasing
  BY <1>1 DEF Assembly, Leasing
<1>5. task[s].kind = "delete" => step[2] \in {"tempMark", "mark", "release", "legacy"}
  BY <1>1, <1>3 DEF SlotShape, Scanning, Looking
<1>6. /\ lease[task[s].id] = "held"
      /\ task[s].kind = "put" /\ step[2] \in {"tempMeta", "meta", "tempMark", "mark"} =>
           <<task[s].id, 1>> \in files
      /\ task[s].kind = "put" /\ step[2] \in {"tempMark", "mark"} => <<task[s].id, 2>> \in files
  BY <1>1, <1>3, <1>4 DEF WriterSound
<1>7. /\ temps' \subseteq Generations
      /\ \A g \in Generations : g # task[s].id => (g \in temps' <=> g \in temps)
      /\ task[s].id \in temps'
  BY <1>2, <1>3 DEF StoreTypes
<1> QED
  BY <1>1, <1>2, <1>3, <1>4, <1>5, <1>6, <1>7, WriterStep DEF StoreTypes, MarkerMoves

LEMMA StoreRenameFile ==
  ASSUME StoreInv, NEW s \in Slots, Store!RenameFile(s)
  PROVE  StoreInv'
<1> DEFINE e == <<task[s].id, IF task[s].pc = "body" THEN 1 ELSE 2>>
           pc == IF task[s].pc = "body" THEN "tempMeta" ELSE "tempMark"
<1>1. /\ task[s].pc \in {"body", "meta"} /\ Store!Go(s, pc) /\ files' = files \cup {e}
      /\ temps' = temps \ {task[s].id}
      /\ UNCHANGED <<lease, readers, marker, legacy, dir, again, up, home, ops, faults>>
  BY DEF Store!RenameFile, Store!At, Store!runVars, Store!Body, Store!Meta
<1>2. task[s].id \in Generations /\ StoreTypes /\ SlotShape(task[s]) /\ WriterSound(s)
  BY Requester DEF StoreInv
<1>3. /\ pc \in Assembly /\ task[s].pc \in Assembly /\ task[s].pc \notin {"release", "lease", "begin"}
      /\ task[s].pc \in Leasing /\ pc \notin HasTemp
  BY <1>1 DEF Assembly, Leasing, HasTemp
<1>4. task[s].kind # "delete"
  BY <1>1, <1>2 DEF SlotShape, Scanning, Looking
<1>5. lease[task[s].id] = "held"
  BY <1>2, <1>3 DEF WriterSound
<1>6. /\ task[s].kind = "put" => <<task[s].id, 1>> \in files'
      /\ task[s].kind = "put" /\ pc = "tempMark" => <<task[s].id, 2>> \in files'
  BY <1>1, <1>2 DEF WriterSound
<1>7. /\ temps' \subseteq Generations
      /\ \A g \in Generations : g # task[s].id => (g \in temps' <=> g \in temps)
  BY <1>1, <1>2 DEF StoreTypes
<1>8. /\ files' \subseteq Files
      /\ \A d \in Files : d[1] # task[s].id => (d \in files' <=> d \in files)
  BY <1>1, <1>2 DEF StoreTypes, Files
<1>9. pc # "mark"
  OBVIOUS
<1> HIDE DEF e, pc
<1> QED
  BY <1>1, <1>2, <1>3, <1>4, <1>5, <1>6, <1>7, <1>8, <1>9, WriterStep DEF StoreTypes, MarkerMoves

LEMMA StoreRenameMarker ==
  ASSUME StoreInv, NEW s \in Slots, NEW to, Store!RenameMarker(s, to),
         to = IF task[s].kind = "put" THEN task[s].id ELSE MaxOps + 2
  PROVE  StoreInv'
<1>1. /\ task[s].pc = "mark" /\ Store!Go(s, "release") /\ lease[task[s].id] = "held"
      /\ temps' = temps \ {task[s].id} /\ marker' = to
      /\ UNCHANGED <<files, lease, readers, legacy, dir, again, up, home, ops, faults>>
  BY DEF Store!RenameMarker, Store!At, Store!runVars
<1>2. /\ task[s].id \in Generations /\ StoreTypes /\ SlotShape(task[s]) /\ WriterSound(s)
      /\ IdSound(s) /\ task[s].kind # "none"
  BY <1>1, Requester DEF StoreInv
<1>3. PICK r \in TaskRecords : task' = [task EXCEPT ![s] = r] /\ task'[s] = r /\ r.pc = "release"
  <2>1. "release" \in Unpublished \cup Reading \cup {"release", "legacy"} /\ task[s].pc # "idle"
    BY <1>1
  <2> QED
    BY <1>1, <2>1, GoesOn
<1>4. marker' \in 0..(MaxOps + 2) /\ MarkerMoves(s)
  <2>1. to = task[s].id \/ to = MaxOps + 2
    OBVIOUS
  <2>2. to \in 0..(MaxOps + 2)
    <3>1. \A g \in Generations : g \in 0..(MaxOps + 2)
      BY StoreNumbers
    <3>2. MaxOps + 2 \in 0..(MaxOps + 2)
      BY StoreAssumption
    <3> QED
      BY <1>2, <2>1, <3>1, <3>2
  <2> QED
    BY <1>1, <1>3, <2>1, <2>2 DEF MarkerMoves
<1>5. MarkerSound'
  <2>1. CASE task[s].kind # "put"
    BY <1>1, <2>1, StoreNumbers DEF MarkerSound
  <2>2. CASE task[s].kind = "put"
    <3>1. marker' = task[s].id /\ PairOf(task[s].id) \subseteq files'
      BY <1>1, <1>2, <2>2 DEF WriterSound, PairOf
    <3>2. \A u \in Slots \ {s} : task'[u] = task[u] /\ task[u].id # task[s].id
      <4>1. \A u \in Slots \ {s} : task'[u] = task[u]
        BY <1>2, <1>3 DEF StoreTypes
      <4>2. \A u \in Slots \ {s} : task[u].id # task[s].id
        BY <1>2 DEF IdSound
      <4> QED
        BY <4>1, <4>2
    <3>3. task[s].id <= ops /\ "release" \notin Unpublished
      BY <1>2 DEF IdSound, Unpublished, Assembly
    <3>4. Settled(marker)'
      BY <1>1, <1>3, <3>1, <3>2, <3>3 DEF Settled
    <3>5. PairOf(marker)' \subseteq files'
      BY <3>1 DEF PairOf
    <3> QED
      BY <3>4, <3>5 DEF MarkerSound
  <2> QED
    BY <2>1, <2>2
<1>6. /\ temps' \subseteq Generations
      /\ \A g \in Generations : g # task[s].id => (g \in temps' <=> g \in temps)
  BY <1>1, <1>2 DEF StoreTypes
<1>7. /\ task[s].pc \in Assembly /\ "release" \notin HasTemp
      /\ "release" \notin {"tempMeta", "meta", "tempMark", "mark"}
  BY <1>1 DEF Assembly, HasTemp
<1> QED
  BY <1>1, <1>2, <1>4, <1>5, <1>6, <1>7, WriterStep DEF StoreTypes

LEMMA StoreReleaseLease ==
  ASSUME StoreInv, NEW s \in Slots, Store!ReleaseLease(s)
  PROVE  StoreInv'
<1>1. /\ task[s].pc = "release" /\ Store!Go(s, "legacy")
      /\ lease' = [lease EXCEPT ![task[s].id] = "none"]
      /\ UNCHANGED <<files, temps, readers, marker, legacy, dir, again, up, home, ops, faults>>
  BY DEF Store!ReleaseLease, Store!At, Store!runVars
<1>2. task[s].id \in Generations /\ StoreTypes
  BY Requester DEF StoreInv
<1>3. /\ lease' \in [Generations -> {"none", "held", "dead", "unknown"}]
      /\ \A g \in Generations : g # task[s].id => lease'[g] = lease[g]
  BY <1>1, <1>2 DEF StoreTypes
<1>4. /\ "legacy" \notin Leasing \cup HasTemp \cup {"tempMeta", "meta", "tempMark", "mark"}
      /\ task[s].pc \notin Assembly
  BY <1>1 DEF Leasing, Assembly, HasTemp
<1> QED
  BY <1>1, <1>2, <1>3, <1>4, WriterStep DEF StoreTypes, MarkerMoves

LEMMA StoreDropLegacy ==
  ASSUME StoreInv, NEW s \in Slots, Store!DropLegacy(s)
  PROVE  StoreInv'
<1> DEFINE todo == IF task[s].seen \in Generations THEN PairOf(task[s].seen) ELSE {}
           r == [task[s] EXCEPT !.phase = "remove", !.seen = NoMarker, !.todo = todo, !.pc = "pick"]
<1>1. /\ task[s].pc = "legacy" /\ task' = [task EXCEPT ![s] = r] /\ legacy' = FALSE
      /\ UNCHANGED <<files, temps, lease, readers, marker, dir, again, up, home, ops, faults>>
  BY StoreNames DEF Store!DropLegacy, Store!At, Store!Set, Store!runVars
<1>2. /\ task[s] \in TaskRecords /\ SlotShape(task[s]) /\ WriterSound(s) /\ task[s].kind # "none"
      /\ task[s].id # 0
      /\ \A g \in {e[1] : e \in task[s].todo} \cup task[s].tmp : Settled(g)
  BY <1>1, Requester
<1>3. task[s].kind \in {"put", "delete"}
  BY <1>1, <1>2 DEF SlotShape, Reading
<1>4. todo \in SUBSET Files /\ \A e \in todo : Settled(e[1])
  BY <1>2, <1>3 DEF PairOf, Files, WriterSound
<1> HIDE DEF todo
<1>5. /\ r \in TaskRecords /\ r.pc = "pick" /\ r.seen = NoMarker /\ r.kind = task[s].kind
      /\ r.id = task[s].id /\ r.todo = todo /\ r.tmp = task[s].tmp
      /\ r.phase = "remove"
  BY <1>2, <1>4, StoreNumbers DEF TaskRecords, Scanning
<1> HIDE DEF r
<1>6. task'[s] = r /\ task' \in [Slots \cup Procs -> TaskRecords]
  BY <1>1, <1>5 DEF StoreInv, StoreTypes
<1>7. StoreTypes'
  BY <1>1, <1>6 DEF StoreInv, StoreTypes
<1>8. RequestMoves(s) /\ ReadersMove(s)
  BY <1>1, <1>5, <1>6 DEF RequestMoves, ReadersMove, Opening, Unpublished, Assembly
<1>9. SlotShape(r)
  BY <1>2, <1>3, <1>5 DEF SlotShape, Scanning, Looking
<1>10. WriterNext(r) /\ ReaderNext(s, r)
  BY <1>5, StoreNumbers DEF WriterNext, ReaderNext, Leasing, HasTemp, Assembly, Opening
<1>11. /\ r.pc \notin Looking /\ r.pc # "live"
       /\ \A g \in {e[1] : e \in r.todo} \cup r.tmp : Settled(g)
  BY <1>2, <1>4, <1>5 DEF Looking
<1> QED
  BY <1>1, <1>5, <1>7, <1>8, <1>9, <1>10, <1>11, CalmStep, RequestStep

LEMMA StoreWriteFails ==
  ASSUME StoreInv, NEW s \in Slots, Store!WriteFails(s)
  PROVE  StoreInv'
<1>1. /\ task[s].pc \in Assembly \cup {"release"} /\ task' = [task EXCEPT ![s] = NoTask]
      /\ lease' = [lease EXCEPT ![task[s].id] = "none"] /\ faults' = faults + 1
      /\ UNCHANGED <<readers, marker, legacy, dir, again, up, home, ops>>
      /\ \/ files' = files /\ temps' = temps
         \/ /\ task[s].pc \in Assembly
            /\ files' = files \ PairOf(task[s].id) /\ temps' = temps \ {task[s].id}
  BY StoreNames DEF Store!WriteFails, Store!Set, Store!Writing, Assembly
<1>2. StoreTypes /\ IdSound(s) /\ task[s].kind # "none" /\ task[s].id \in Generations
  BY <1>1, Requester DEF StoreInv, Assembly
<1>3. task'[s] = NoTask /\ task' \in [Slots \cup Procs -> TaskRecords]
  BY <1>1, <1>2, NoTaskIs DEF StoreTypes
<1>4. StoreTypes'
  BY <1>1, <1>2, <1>3 DEF StoreTypes
<1>5. RequestMoves(s) /\ ReadersMove(s) /\ MarkerMoves(s)
  BY <1>1, <1>3, NoTaskIs DEF RequestMoves, ReadersMove, Opening, MarkerMoves
<1>6. LeasesMove(s)
  <2>1. ASSUME NEW u \in Slots \ {s}, lease[task[u].id] = "held"
        PROVE  lease'[task[u].id] = "held"
    BY <1>1, <1>2, <2>1 DEF IdSound, StoreTypes, TaskRecords
  <2> QED
    BY <1>1, <1>2, <2>1 DEF LeasesMove, StoreTypes
<1>7. DiskMoves(s)
  <2>1. CASE files' = files /\ temps' = temps
    BY <2>1 DEF DiskMoves
  <2>2. CASE /\ task[s].pc \in Assembly
             /\ files' = files \ PairOf(task[s].id) /\ temps' = temps \ {task[s].id}
    <3>1. Owns(s, task[s].id)
      BY <2>2 DEF Owns
    <3>2. \A e \in files : e \in files' \/ e[1] = task[s].id
      BY <2>2 DEF PairOf
    <3> QED
      BY <2>2, <3>1, <3>2 DEF DiskMoves
  <2> QED
    BY <1>1, <2>1, <2>2
<1>8. SlotShape(NoTask) /\ WriterNext(NoTask) /\ ReaderNext(s, NoTask)
  BY NoTaskIs DEF SlotShape, WriterNext, ReaderNext, Leasing, HasTemp, Assembly, Opening, Scanning,
     Looking
<1>9. NoTask.pc \notin Looking /\ NoTask.pc # "live"
  BY NoTaskIs DEF Looking
<1>10. \A g \in {e[1] : e \in NoTask.todo} \cup NoTask.tmp : Settled(g)
  BY NoTaskIs
<1> QED
  BY <1>1, <1>4, <1>5, <1>6, <1>7, <1>8, <1>9, <1>10, NoTaskIs, RequestStep

\* A reader that goes on.
LEMMA ReaderStep ==
  ASSUME StoreInv, NEW s \in Slots, task[s].pc \in Reading, NEW pc \in Reading,
         NEW seen \in 0..(MaxOps + 2),
         task' = [task EXCEPT ![s] = [task[s] EXCEPT !.pc = pc, !.seen = seen]],
         readers' \subseteq readers \cup {s}, pc \in Opening => readers' = readers,
         \/ pc \notin Opening
         \/ marker \in Generations /\ seen = marker
         \/ task[s].pc \in Opening /\ task[s].seen = seen,
         UNCHANGED <<files, temps, lease, marker, legacy, dir, again, up, home, ops, faults>>
  PROVE  StoreInv'
<1> DEFINE r == [task[s] EXCEPT !.pc = pc, !.seen = seen]
<1>1. /\ task[s] \in TaskRecords /\ SlotShape(task[s]) /\ ReaderSound(s) /\ task[s].kind # "none"
      /\ task[s].id # 0
      /\ \A g \in {e[1] : e \in task[s].todo} \cup task[s].tmp : Settled(g)
  <2>1. task[s].pc # "idle" /\ task[s].pc # "live"
    BY DEF Reading
  <2> QED
    BY <2>1, Requester
<1>2. /\ r \in TaskRecords /\ r.pc = pc /\ r.seen = seen /\ r.kind = task[s].kind
      /\ r.id = task[s].id /\ r.todo = task[s].todo /\ r.tmp = task[s].tmp
      /\ r.phase = task[s].phase
  BY <1>1 DEF TaskRecords
<1>3. task' = [task EXCEPT ![s] = r]
  OBVIOUS
<1> HIDE DEF r
<1>4. task'[s] = r /\ task' \in [Slots \cup Procs -> TaskRecords]
  BY <1>2, <1>3 DEF StoreInv, StoreTypes
<1>5. StoreTypes'
  BY <1>4 DEF StoreInv, StoreTypes
<1>6. pc \notin Unpublished \cup Leasing \cup HasTemp \cup Looking \cup {"live"} \cup Scanning
  BY DEF Reading, Unpublished, Leasing, HasTemp, Assembly, Looking, Scanning
<1>7. RequestMoves(s) /\ ReadersMove(s)
  BY <1>2, <1>4, <1>6 DEF RequestMoves, ReadersMove, Reading
<1>8. SlotShape(r) /\ task[s].kind = "get"
  <2>1. task[s].kind = "get" /\ task[s].phase # "remove"
    BY <1>1 DEF SlotShape, Reading, Unpublished, Assembly, Scanning, Looking
  <2> QED
    BY <1>1, <1>2, <2>1 DEF SlotShape, Reading
<1>9. WriterNext(r)
  BY <1>2, <1>6, <1>8 DEF WriterNext, Unpublished
<1>10. ReaderNext(s, r)
  <2> SUFFICES ASSUME pc \in Opening
               PROVE  /\ marker # NoMarker /\ seen \in Generations /\ Settled(seen)
                      /\ PairOf(seen) \subseteq files \/ s \notin readers
    BY <1>2 DEF ReaderNext
  <2>1. CASE marker \in Generations /\ seen = marker
    BY <2>1, StoreNumbers DEF StoreInv, DiskSound, MarkerSound
  <2>2. CASE task[s].pc \in Opening /\ task[s].seen = seen
    BY <1>1, <2>2 DEF ReaderSound
  <2> QED
    BY <2>1, <2>2
<1>11. r.pc \notin Looking /\ r.pc # "live"
  BY <1>2, <1>6
<1> QED
  BY <1>1, <1>2, <1>3, <1>5, <1>7, <1>8, <1>9, <1>10, <1>11, CalmStep, RequestStep

\* A read is over, and a scan of the process may begin.
LEMMA ResolvedStep ==
  ASSUME StoreInv, NEW s \in Slots, Store!Resolved(s),
         UNCHANGED <<files, temps, lease, marker, legacy, dir, up, home, ops, faults>>
  PROVE  StoreInv'
<1> DEFINE f == [task EXCEPT ![s] = NoTask]
<1>1. /\ readers' = readers \ {s}
      /\ task' = IF f[home[s]] = NoTask THEN [f EXCEPT ![home[s]] = ScanTask] ELSE f
      /\ again' = IF f[home[s]] = NoTask THEN again ELSE [again EXCEPT ![home[s]] = TRUE]
  BY StoreNames DEF Store!Resolved, Store!scheduleReclaim
<1>2. /\ StoreTypes /\ home[s] \in Procs /\ s # home[s] /\ s \notin Procs
      /\ f \in [Slots \cup Procs -> TaskRecords]
  BY NoTaskIs, StoreAssumption DEF StoreInv, StoreTypes
<1>3. /\ task' \in [Slots \cup Procs -> TaskRecords] /\ task'[s] = NoTask
      /\ \A u \in (Slots \cup Procs) \ {s} :
           task'[u] = task[u] \/ (u \in Procs /\ task'[u] = ScanTask)
  BY <1>1, <1>2, NoTaskIs DEF StoreTypes
<1>4. StoreTypes'
  BY <1>1, <1>2, <1>3 DEF StoreTypes
<1>5. StoreMoves(s)
  <2>1. TaskMoves(s)
    BY <1>2, <1>3 DEF TaskMoves, RequestMoves
  <2>2. ReadersMove(s)
    BY <1>1, <1>3, NoTaskIs DEF ReadersMove, Opening
  <2> QED
    BY <1>4, <2>1, <2>2, CalmStep DEF StoreMoves
<1> QED
  BY <1>2, <1>3, <1>5, NoTaskSound, StoreFrame

LEMMA StoreReads ==
  ASSUME StoreInv, NEW s \in Slots,
         \/ Store!createReaderLease(s) \/ Store!resolveObject(s) \/ Store!OpenFile(s)
         \/ Store!LegacyBody(s)
  PROVE  StoreInv'
<1>1. /\ task[s].pc \in {"readerLease", "resolve", "openBody", "openMeta", "legacyBody"}
      /\ UNCHANGED <<files, temps, lease, marker, legacy, dir, up, home, ops, faults>>
      /\ task[s].pc \in Reading
  BY DEF Store!createReaderLease, Store!resolveObject, Store!OpenFile, Store!LegacyBody,
         Store!At, Store!runVars, Reading
<1>2. task[s] \in TaskRecords /\ task[s].seen \in 0..(MaxOps + 2) /\ marker \in 0..(MaxOps + 2)
  BY DEF StoreInv, StoreTypes, TaskRecords
<1>3. ASSUME NEW pc, Store!Go(s, pc)
      PROVE  task' = [task EXCEPT ![s] = [task[s] EXCEPT !.pc = pc, !.seen = task[s].seen]]
  <2>1. [task[s] EXCEPT !.pc = pc] = [task[s] EXCEPT !.pc = pc, !.seen = task[s].seen]
    BY <1>2 DEF TaskRecords
  <2> QED
    BY <1>3, <2>1 DEF Store!Go, Store!Set
<1>4. CASE Store!createReaderLease(s)
  <2>1. Store!Go(s, "resolve") /\ readers' \subseteq readers \cup {s} /\ UNCHANGED again
    BY <1>4 DEF Store!createReaderLease
  <2>2. "resolve" \in Reading /\ "resolve" \notin Opening
    BY DEF Reading, Opening
  <2>3. task' = [task EXCEPT ![s] = [task[s] EXCEPT !.pc = "resolve", !.seen = task[s].seen]]
    BY <1>3, <2>1
  <2> QED
    BY <1>1, <1>2, <2>1, <2>2, <2>3, ReaderStep
<1>5. CASE Store!Resolved(s)
  BY <1>1, <1>5, ResolvedStep
<1>6. ASSUME NEW pc \in {"resolve", "legacyBody"}, Store!Go(s, pc), UNCHANGED <<readers, again>>
      PROVE  StoreInv'
  <2>1. pc \in Reading /\ pc \notin Opening
    BY DEF Reading, Opening
  <2>2. task' = [task EXCEPT ![s] = [task[s] EXCEPT !.pc = pc, !.seen = task[s].seen]]
    BY <1>3, <1>6
  <2> QED
    BY <1>1, <1>2, <1>6, <2>1, <2>2, ReaderStep
<1>7. CASE /\ marker \in Generations /\ UNCHANGED <<readers, again>>
           /\ Store!Set(s, [task[s] EXCEPT !.pc = "openBody", !.seen = marker])
  <2>1. "openBody" \in Reading
    BY DEF Reading
  <2> QED
    BY <1>1, <1>2, <1>7, <2>1, ReaderStep DEF Store!Set
<1>8. CASE /\ task[s].pc = "openBody" /\ Store!Go(s, "openMeta") /\ UNCHANGED <<readers, again>>
  <2>1. "openMeta" \in Reading /\ task[s].pc \in Opening
    BY <1>8 DEF Reading, Opening
  <2>2. task' = [task EXCEPT ![s] = [task[s] EXCEPT !.pc = "openMeta", !.seen = task[s].seen]]
    BY <1>3, <1>8
  <2> QED
    BY <1>1, <1>2, <1>8, <2>1, <2>2, ReaderStep
<1>9. CASE Store!resolveObject(s)
  <2>1. \/ Store!Resolved(s)
        \/ /\ marker \in Generations /\ UNCHANGED <<readers, again>>
           /\ Store!Set(s, [task[s] EXCEPT !.pc = "openBody", !.seen = marker])
        \/ Store!Go(s, "legacyBody") /\ UNCHANGED <<readers, again>>
    BY <1>9, StoreNames DEF Store!resolveObject, Store!readCommitRecord
  <2> QED
    BY <1>5, <1>6, <1>7, <2>1
<1>10. CASE Store!OpenFile(s)
  <2>1. \/ Store!Resolved(s)
        \/ Store!Go(s, "resolve") /\ UNCHANGED <<readers, again>>
        \/ task[s].pc = "openBody" /\ Store!Go(s, "openMeta") /\ UNCHANGED <<readers, again>>
    BY <1>10 DEF Store!OpenFile, Store!At
  <2> QED
    BY <1>5, <1>6, <1>8, <2>1
<1>11. CASE Store!LegacyBody(s)
  <2>1. \/ Store!Resolved(s)
        \/ Store!Go(s, "resolve") /\ UNCHANGED <<readers, again>>
    BY <1>11 DEF Store!LegacyBody
  <2> QED
    BY <1>5, <1>6, <2>1
<1> QED
  BY <1>4, <1>9, <1>10, <1>11

LEMMA StoreDie ==
  ASSUME StoreInv, NEW p \in Procs, Store!Die(p)
  PROVE  StoreInv'
<1> DEFINE gone == {t \in Slots \cup Procs : Store!Proc(t) = p}
           ids == {task[s].id : s \in gone \cap Slots}
<1>1. PICK left \in {"dead", "unknown"} :
        /\ lease' = [g \in Generations |-> IF g \in ids /\ lease[g] = "held" THEN left ELSE lease[g]]
        /\ readers' = (readers \ gone) \cup {left : r \in readers \cap gone}
        /\ task' = [t \in Slots \cup Procs |-> IF t \in gone THEN NoTask ELSE task[t]]
  BY StoreNames DEF Store!Die, Store!classifyLeaseOwner
<1>2. /\ faults' = faults + 1 /\ up' = up \ {p} /\ again' = [again EXCEPT ![p] = FALSE]
      /\ UNCHANGED <<files, temps, marker, legacy, dir, home, ops>>
  BY DEF Store!Die
<1>3. /\ StoreTypes /\ p \in gone /\ p \notin Slots
      /\ \A u \in Slots : u \in gone => task'[u] = NoTask
  BY <1>1, StoreAssumption DEF StoreInv, Store!Proc
<1> HIDE DEF gone
<1>4. /\ task' \in [Slots \cup Procs -> TaskRecords] /\ task'[p] = NoTask
      /\ \A u \in Slots \cup Procs : task'[u] = task[u] \/ task'[u] = NoTask
      /\ \A u \in Slots \cup Procs : u \notin gone => task'[u] = task[u]
  BY <1>1, <1>3, NoTaskIs DEF StoreTypes
<1>5. StoreTypes'
  <2>1. lease' \in [Generations -> {"none", "held", "dead", "unknown"}]
    BY <1>1, <1>3 DEF StoreTypes
  <2>2. readers' \subseteq Slots \cup {"dead", "unknown"}
    BY <1>1, <1>3 DEF StoreTypes
  <2>3. again' \in [Procs -> BOOLEAN] /\ faults' \in Nat /\ up' \subseteq Procs
    BY <1>2, <1>3 DEF StoreTypes
  <2> QED
    BY <1>2, <1>3, <1>4, <2>1, <2>2, <2>3 DEF StoreTypes
<1>6. TaskMoves(p) /\ MarkerMoves(p) /\ DiskMoves(p)
  BY <1>2, <1>3, <1>4 DEF TaskMoves, MarkerMoves, DiskMoves
<1>7. ReadersMove(p)
  <2>1. left \notin Slots
    BY StoreAssumption
  <2> QED
    BY <1>1, <1>3, <2>1 DEF ReadersMove
<1>8. LeasesMove(p)
  <2>1. ASSUME NEW s \in Slots \ {p}, task'[s] = task[s], task[s].kind # "none",
               lease[task[s].id] = "held"
        PROVE  lease'[task[s].id] = "held"
    <3>1. s \notin gone
      BY <1>3, <2>1, NoTaskIs
    <3>2. task[s].id \notin ids /\ task[s].id \in Generations
      <4>1. IdSound(s) /\ task[s].id \in Generations
        BY Requester
      <4> QED
        BY <2>1, <3>1, <4>1 DEF IdSound
    <3> QED
      BY <1>1, <2>1, <3>2
  <2>2. \A g \in Generations : lease[g] = "none" => lease'[g] = "none"
    BY <1>1
  <2> QED
    BY <2>1, <2>2 DEF LeasesMove
<1> QED
  BY <1>2, <1>3, <1>4, <1>5, <1>6, <1>7, <1>8, NoTaskSound, StoreFrame DEF StoreMoves

LEMMA StoreRestart ==
  ASSUME StoreInv, NEW p \in Procs, Store!Restart(p)
  PROVE  StoreInv'
<1> DEFINE r == [NoTask EXCEPT !.kind = "recover", !.phase = "recover", !.pc = "list"]
<1>1. /\ task' = [task EXCEPT ![p] = r] /\ up' = up \cup {p}
      /\ UNCHANGED <<files, temps, lease, readers, marker, legacy, dir, again, home, ops, faults>>
  BY StoreNames DEF Store!Restart, Store!Set, Store!diskVars
<1>2. /\ r \in TaskRecords /\ r.kind = "recover" /\ r.phase = "recover" /\ r.pc = "list"
      /\ r.todo = {} /\ r.tmp = {}
  BY NoTaskIs DEF NoTask, TaskRecords, TaskKinds, Scanning
<1> HIDE DEF r
<1>3. /\ task'[p] = r /\ task' \in [Slots \cup Procs -> TaskRecords] /\ p \notin Slots
      /\ \A u \in (Slots \cup Procs) \ {p} : task'[u] = task[u]
  BY <1>1, <1>2, StoreAssumption DEF StoreInv, StoreTypes
<1>4. StoreTypes'
  BY <1>1, <1>3 DEF StoreInv, StoreTypes
<1>5. StoreMoves(p)
  BY <1>1, <1>3, <1>4 DEF StoreMoves, TaskMoves, MarkerMoves, DiskMoves, ReadersMove, LeasesMove
<1>6. ProcShape(task[p])' /\ ScanSound(p)'
  BY <1>2, <1>3 DEF ProcShape, Scanning, ScanSound, Heads, Looking
<1> QED
  BY <1>1, <1>3, <1>5, <1>6, StoreFrame

LEMMA StoreInvInit ==
  ASSUME Store!Init
  PROVE  StoreInv
<1>1. /\ legacy \in BOOLEAN /\ dir = ~legacy /\ files = (IF legacy THEN {} ELSE PairOf(0))
      /\ marker = (IF legacy THEN NoMarker ELSE 0) /\ temps = {}
      /\ lease = [g \in Generations |-> "none"] /\ readers = {} /\ home \in [Slots -> Procs]
      /\ task = [t \in Slots \cup Procs |-> NoTask] /\ again = [p \in Procs |-> FALSE]
      /\ up = {home[s] : s \in Slots} /\ ops = 0 /\ faults = 0
  BY StoreNames DEF Store!Init, MCHomes
<1>2. \A t \in Slots \cup Procs : task[t] = NoTask
  BY <1>1
<1>3. StoreTypes
  <2>1. files \subseteq Files
    BY <1>1, StoreNumbers DEF PairOf, Files
  <2>2. marker \in 0..(MaxOps + 2)
    BY <1>1, StoreNumbers
  <2>3. ops \in 0..MaxOps
    BY <1>1, StoreNumbers
  <2>4. dir \in BOOLEAN /\ up \subseteq Procs
    BY <1>1
  <2> QED
    BY <1>1, <2>1, <2>2, <2>3, <2>4, NoTaskIs DEF StoreTypes
<1>4. DiskSound
  <2>1. \A s \in Slots : task[s].pc \notin Unpublished
    BY <1>2, NoTaskIs DEF Unpublished, Assembly
  <2>2. MarkerSound
    BY <1>1, <2>1, StoreNumbers DEF MarkerSound, Settled
  <2> QED
    BY <1>1, <2>2, StoreNumbers DEF DiskSound, PairOf
<1>5. ASSUME NEW s \in Slots
      PROVE  SlotShape(task[s]) /\ IdSound(s) /\ WriterSound(s) /\ ReaderSound(s)
  BY <1>1, <1>2, NoTaskIs, StoreNumbers
     DEF SlotShape, IdSound, WriterSound, ReaderSound, Leasing, HasTemp, Assembly, Opening, Scanning,
         Looking
<1>6. ASSUME NEW t \in Slots \cup Procs
      PROVE  ProcShape(task[t]) /\ ScanSound(t)
  BY <1>2, NoTaskIs DEF ProcShape, ScanSound, Heads, Scanning, Looking
<1> QED
  BY <1>3, <1>4, <1>5, <1>6 DEF StoreInv

\* The steps of requests that do not fail, and of looks and scans.
Requests(s) ==
  \/ \E kind \in {"put", "get", "delete"} : Store!Start(s, kind)
  \/ Store!PutBegin(s) \/ Store!createTempLease(s) \/ Store!WriteTemp(s) \/ Store!RenameFile(s)
  \/ Store!Publish(s) \/ Store!ReleaseLease(s) \/ Store!DropLegacy(s) \/ Store!DeleteBegin(s)
  \/ Store!writeCommitRecord(s) \/ Store!createReaderLease(s) \/ Store!resolveObject(s)
  \/ Store!OpenFile(s) \/ Store!LegacyBody(s)

Scans(t) ==
  \/ Store!Pick(t) \/ Store!CheckLease(t) \/ Store!CheckReaders(t) \/ Store!CheckMarker(t)
  \/ Store!Unlink(t) \/ Store!ReadRetained(t) \/ Store!ListFiles(t) \/ Store!liveTempLeases(t)
  \/ Store!ReclaimTemps(t)

LEMMA StoreNext ==
  ASSUME StoreInv, Store!Next
  PROVE  StoreInv'
<1>1. ASSUME NEW s \in Slots, Requests(s) \/ Store!WriteFails(s)
      PROVE  StoreInv'
  <2>1. ASSUME Store!Publish(s) \/ Store!writeCommitRecord(s)
        PROVE  StoreInv'
    BY <2>1, StoreRenameMarker, StoreNames DEF Store!Publish, Store!writeCommitRecord
  <2> QED
    BY <1>1, <2>1, StoreStart, StorePutBegin, StoreCreateTempLease, StoreWriteTemp, StoreRenameFile,
       StoreReleaseLease, StoreDropLegacy, StoreWriteFails, StoreDeleteBegin, StoreReads
       DEF Requests
<1>2. ASSUME NEW t \in Slots \cup Procs, Scans(t)
      PROVE  StoreInv'
  BY <1>2, StorePick, StoreCheckLease, StoreCheckReaders, StoreCheckMarker, StoreUnlink,
     StoreReadRetained, StoreListFiles, StoreLiveTempLeases, StoreReclaimTemps DEF Scans
<1>3. ASSUME NEW p \in Procs, Store!ReadRecord(p) \/ Store!Die(p) \/ Store!Restart(p)
      PROVE  StoreInv'
  BY <1>3, StoreReadRecord, StoreDie, StoreRestart
<1> QED
  BY <1>1, <1>2, <1>3, StoreNames DEF Store!Next, Requests, Scans

-----------------------------------------------------------------------------
(* When nothing fails: every superseded file keeps somebody who will look. *)

LEMMA LooksOn ==
  ASSUME StoreInv, NEW t \in Slots \cup Procs, NEW r, task' = [task EXCEPT ![t] = r],
         \A p \in Procs \ {t} : again'[p] = again[p], NEW e, WillLook(e),
         LooksAt(task[t], e) \/ (t \in Procs /\ again[t]) => WillLook(e)'
  PROVE  WillLook(e)'
<1>1. \A u \in (Slots \cup Procs) \ {t} : task'[u] = task[u]
  BY DEF StoreInv, StoreTypes
<1>2. CASE LooksAt(task[t], e) \/ (t \in Procs /\ again[t])
  BY <1>2
<1>3. ASSUME NEW u \in (Slots \cup Procs) \ {t}, LooksAt(task[u], e)
      PROVE  WillLook(e)'
  BY <1>1, <1>3 DEF WillLook, LooksAt
<1>4. ASSUME NEW p \in Procs \ {t}, again[p]
      PROVE  WillLook(e)'
  BY <1>4 DEF WillLook
<1> QED
  BY <1>2, <1>3, <1>4 DEF WillLook

\* What one task may do to the leases, the temporary files and the files.
QuietMoves(t) ==
  /\ \A g \in Generations : lease'[g] # "none" =>
       \/ lease'[g] = "held" /\ t \in Slots /\ task'[t].id = g /\ task'[t].pc \in Leasing
       \/ lease'[g] = lease[g] /\ ~(t \in Slots /\ task[t].id = g /\ task[t].pc \in Leasing)
  /\ \A g \in temps' :
       \/ t \in Slots /\ task'[t].id = g /\ task'[t].pc \in HasTemp
       \/ g \in temps /\ ~(t \in Slots /\ task[t].id = g /\ task[t].pc \in HasTemp)
  /\ \A e \in files' :
       IF marker' = NoMarker
         THEN \/ t \in Slots /\ task'[t].id = e[1] /\ task'[t].pc \in Assembly
              \/ /\ e \in files /\ marker = NoMarker
                 /\ ~(t \in Slots /\ task[t].id = e[1] /\ task[t].pc \in Assembly)
         ELSE e[1] # marker' => WillLook(e)'

LEMMA QuietFrame ==
  ASSUME StoreInv, Undisturbed, NEW t \in Slots \cup Procs, NEW r, task' = [task EXCEPT ![t] = r],
         StoreTypes', UNCHANGED <<up, home>>, r.kind # "recover",
         t \in Procs => (again'[t] => r.kind # "none"),
         \A p \in Procs \ {t} : again'[p] = again[p],
         readers' \subseteq readers \cup {t}, t \in readers' => r.kind = "get" /\ t \in Slots,
         QuietMoves(t)
  PROVE  Undisturbed'
<1>1. task'[t] = r /\ \A u \in (Slots \cup Procs) \ {t} : task'[u] = task[u]
  BY DEF StoreInv, StoreTypes
<1>2. (up = {home[s] : s \in Slots})'
  BY DEF Undisturbed
<1>3. (\A p \in Procs : task[p].kind # "recover" /\ (again[p] => task[p].kind # "none"))'
  BY <1>1 DEF Undisturbed
<1>4. (readers \subseteq {s \in Slots : task[s].kind = "get"})'
  BY <1>1 DEF Undisturbed
<1>5. ASSUME NEW g \in Generations, lease'[g] # "none"
      PROVE  lease'[g] = "held" /\ \E s \in Slots : task'[s].id = g /\ task'[s].pc \in Leasing
  <2>1. CASE lease'[g] = "held" /\ t \in Slots /\ task'[t].id = g /\ task'[t].pc \in Leasing
    BY <2>1
  <2>2. CASE lease'[g] = lease[g] /\ ~(t \in Slots /\ task[t].id = g /\ task[t].pc \in Leasing)
    <3>1. PICK s \in Slots : task[s].id = g /\ task[s].pc \in Leasing /\ lease[g] = "held"
      BY <1>5, <2>2 DEF Undisturbed
    <3>2. task'[s] = task[s]
      BY <1>1, <2>2, <3>1
    <3> QED
      BY <2>2, <3>1, <3>2
  <2> QED
    BY <1>5, <2>1, <2>2 DEF QuietMoves
<1>6. ASSUME NEW g \in temps'
      PROVE  \E s \in Slots : task'[s].id = g /\ task'[s].pc \in HasTemp
  <2>1. CASE t \in Slots /\ task'[t].id = g /\ task'[t].pc \in HasTemp
    BY <2>1
  <2>2. CASE g \in temps /\ ~(t \in Slots /\ task[t].id = g /\ task[t].pc \in HasTemp)
    <3>1. PICK s \in Slots : task[s].id = g /\ task[s].pc \in HasTemp
      BY <2>2 DEF Undisturbed
    <3>2. task'[s] = task[s]
      BY <1>1, <2>2, <3>1
    <3> QED
      BY <3>1, <3>2
  <2> QED
    BY <1>6, <2>1, <2>2 DEF QuietMoves
<1>7. ASSUME NEW e \in files'
      PROVE  IF marker' = NoMarker
               THEN \E s \in Slots : task'[s].id = e[1] /\ task'[s].pc \in Assembly
               ELSE e[1] # marker' => WillLook(e)'
  <2>1. CASE t \in Slots /\ task'[t].id = e[1] /\ task'[t].pc \in Assembly /\ marker' = NoMarker
    BY <2>1
  <2>2. CASE /\ marker' = NoMarker /\ e \in files /\ marker = NoMarker
             /\ ~(t \in Slots /\ task[t].id = e[1] /\ task[t].pc \in Assembly)
    <3>1. PICK s \in Slots : task[s].id = e[1] /\ task[s].pc \in Assembly
      BY <2>2 DEF Undisturbed
    <3>2. task'[s] = task[s]
      BY <1>1, <2>2, <3>1
    <3> QED
      BY <2>2, <3>1, <3>2
  <2>3. CASE marker' # NoMarker
    BY <2>3, <1>7 DEF QuietMoves
  <2> QED
    BY <1>7, <2>1, <2>2, <2>3 DEF QuietMoves
<1>8. NoMarker' = NoMarker /\ Generations' = Generations
  BY DEF NoMarker, Generations
<1>9. /\ (\A g \in Generations : lease[g] # "none" =>
            lease[g] = "held" /\ \E s \in Slots : task[s].id = g /\ task[s].pc \in Leasing)'
      /\ (\A g \in temps : \E s \in Slots : task[s].id = g /\ task[s].pc \in HasTemp)'
  BY <1>5, <1>6
<1>10. (\A e \in files :
          IF marker = NoMarker
            THEN \E s \in Slots : task[s].id = e[1] /\ task[s].pc \in Assembly
            ELSE e[1] # marker => WillLook(e))'
  <2> SUFFICES ASSUME NEW e \in files'
               PROVE  (IF marker = NoMarker
                         THEN \E s \in Slots : task[s].id = e[1] /\ task[s].pc \in Assembly
                         ELSE e[1] # marker => WillLook(e))'
    OBVIOUS
  <2> QED
    BY <1>7
<1> QED
  BY <1>2, <1>3, <1>4, <1>9, <1>10 DEF Undisturbed

LEMMA QuietScan ==
  ASSUME StoreInv, StoreInv', Undisturbed, NEW t \in Slots \cup Procs, NEW r,
         task' = [task EXCEPT ![t] = r], task[t].pc \in Scanning,
         r.kind = task[t].kind \/ r \in {NoTask, ScanTask}, DeadDropped,
         files' \subseteq files, temps' \subseteq temps, UNCHANGED <<marker, up, home>>,
         \A p \in Procs \ {t} : again'[p] = again[p],
         t \in Procs => (again'[t] => r.kind # "none"),
         ASSUME NEW e \in files', marker # NoMarker, e[1] # marker,
                LooksAt(task[t], e) \/ (t \in Procs /\ again[t])
         PROVE  WillLook(e)'
  PROVE  Undisturbed'
<1>1. /\ task[t].kind # "recover" /\ r.kind # "recover"
      /\ t \in Procs \/ task[t].kind \in {"put", "delete"}
      /\ task[t].pc \notin Leasing \cup HasTemp \cup Assembly
  <2>1. t \in Procs \/ task[t].kind \in {"put", "delete"}
    BY Scanner
  <2>2. task[t].kind # "recover"
    BY <2>1 DEF Undisturbed
  <2>3. task[t].pc \notin Leasing \cup HasTemp \cup Assembly
    BY DEF Scanning, Looking, Leasing, HasTemp, Assembly
  <2> QED
    BY <2>1, <2>2, <2>3, NoTaskIs
<1>2. StoreTypes /\ StoreTypes'
  BY DEF StoreInv
<1>3. readers' \subseteq readers /\ t \notin readers'
  BY <1>1, <1>2, Droppings, StoreAssumption DEF Undisturbed
<1>4. \A g \in Generations : lease'[g] # "none" => lease'[g] = lease[g]
  BY <1>2 DEF DeadDropped, StoreTypes
<1>5. QuietMoves(t)
  <2>1. ASSUME NEW e \in files', marker' # NoMarker, e[1] # marker'
        PROVE  WillLook(e)'
    <3>1. WillLook(e)
      BY <2>1 DEF Undisturbed
    <3> QED
      BY <2>1, <3>1, LooksOn
  <2> QED
    BY <1>1, <1>4, <2>1 DEF QuietMoves
<1> QED
  BY <1>1, <1>2, <1>3, <1>5, QuietFrame

\* Who holds a lease, or is known to the memory of a process, will look.
LEMMA BusyLooks ==
  ASSUME StoreInv, Undisturbed, NEW g \in Generations, NEW p,
         Store!Guarded(p, g) \/ lease[g] # "none" \/ readers # {}
  PROVE  \E u \in Slots : task[u].pc \notin Scanning /\ \A e : LooksAt(task[u], e)
<1>1. \A u \in Slots : SlotShape(task[u])
  BY DEF StoreInv
<1>2. ASSUME NEW u \in Slots, task[u].kind = "get"
      PROVE  task[u].pc \notin Scanning /\ \A e : LooksAt(task[u], e)
  BY <1>1, <1>2 DEF LooksAt, SlotShape, Reading, Scanning, Looking
<1>3. ASSUME NEW u \in Slots, task[u].pc \in Leasing \cup {"lease"}
      PROVE  task[u].pc \notin Scanning /\ \A e : LooksAt(task[u], e)
  <2>1. task[u].pc \notin Scanning /\ task[u].pc \notin Reading /\ task[u].pc # "idle"
    BY <1>3 DEF Leasing, Assembly, Scanning, Looking, Reading
  <2>2. task[u].kind \in {"put", "delete"}
    BY <1>1, <2>1, NoTaskIs DEF SlotShape
  <2> QED
    BY <1>3, <2>1, <2>2 DEF LooksAt, Leasing
<1>4. CASE lease[g] # "none"
  BY <1>3, <1>4 DEF Undisturbed
<1>5. CASE readers # {}
  BY <1>2, <1>5 DEF Undisturbed
<1>6. CASE Store!Guarded(p, g)
  <2>1. \E u \in Slots : task[u].kind = "get" \/ task[u].pc \in Assembly \cup {"lease"}
    BY <1>6 DEF Store!Guarded, Store!activeGenerations, Store!hasGenerationLease,
       Store!hasKeyReadReservation, Store!Resolving, Store!Assembling, Store!Writing, Assembly
  <2> QED
    BY <1>2, <1>3, <2>1 DEF Leasing
<1> QED
  BY <1>4, <1>5, <1>6

LEMMA OthersLook ==
  ASSUME StoreInv, NEW t \in Slots \cup Procs, task[t].pc \in Scanning, NEW r,
         task' = [task EXCEPT ![t] = r],
         \E u \in Slots : task[u].pc \notin Scanning /\ \A e : LooksAt(task[u], e)
  PROVE  \A e : WillLook(e)'
<1>1. PICK u \in Slots : task[u].pc \notin Scanning /\ \A e : LooksAt(task[u], e)
  OBVIOUS
<1>2. task'[u] = task[u]
  BY <1>1 DEF StoreInv, StoreTypes
<1>3. ASSUME NEW e
      PROVE  LooksAt(task[u], e)'
  BY <1>1, <1>2 DEF LooksAt
<1> QED
  BY <1>3 DEF WillLook

LEMMA QuietRefuse ==
  ASSUME StoreInv, StoreInv', Undisturbed, NEW t \in Slots \cup Procs, Store!Refuse(t),
         task[t].pc \in Looking \cup {"pick"}, DeadDropped,
         UNCHANGED <<files, temps, marker, again, up, home>>,
         \/ marker = NoMarker \/ marker = FileOf(t)[1]
         \/ \E u \in Slots : task[u].pc \notin Scanning /\ \A e : LooksAt(task[u], e)
  PROVE  Undisturbed'
<1> DEFINE r == IF task[t].phase = "remove"
                  THEN [task[t] EXCEPT !.todo = {}, !.pc = "retained"]
                  ELSE [task[t] EXCEPT !.todo = @ \ {FileOf(t)}, !.pc = "pick"]
<1>1. task' = [task EXCEPT ![t] = r]
  BY StoreNames DEF Store!Refuse, Store!Set
<1>2. task[t] \in TaskRecords /\ task[t].pc \in Scanning
  BY Scanner DEF Scanning
<1>3. /\ r.kind = task[t].kind
      /\ \/ r.pc = "retained"
         \/ r.pc = "pick" /\ task[t].phase # "remove" /\ r.todo = task[t].todo \ {FileOf(t)}
  BY <1>2 DEF TaskRecords
<1> HIDE DEF r
<1>4. task'[t] = r
  BY <1>1 DEF StoreInv, StoreTypes
<1>5. t \in Procs => (again'[t] => r.kind # "none")
  BY <1>3 DEF Undisturbed
<1>6. ASSUME NEW e \in files', marker # NoMarker, e[1] # marker,
             LooksAt(task[t], e) \/ (t \in Procs /\ again[t])
      PROVE  WillLook(e)'
  <2>1. CASE t \in Procs /\ again[t]
    BY <2>1 DEF WillLook
  <2>2. CASE \E u \in Slots : task[u].pc \notin Scanning /\ \A d : LooksAt(task[u], d)
    BY <1>1, <1>2, <2>2, OthersLook
  <2>3. CASE LooksAt(task[t], e) /\ e # FileOf(t)
    <3>1. LooksAt(r, e)
      <4>1. CASE r.pc = "retained"
        BY <4>1 DEF LooksAt
      <4>2. CASE r.pc = "pick" /\ task[t].phase # "remove" /\ r.todo = task[t].todo \ {FileOf(t)}
        <5>1. \/ task[t].kind = "get"
              \/ e \in task[t].todo
          BY <2>3, <4>2 DEF LooksAt, Looking, Assembly
        <5> QED
          BY <1>3, <2>3, <4>2, <5>1 DEF LooksAt
      <4> QED
        BY <1>3, <4>1, <4>2
    <3>2. LooksAt(task[t], e)'
      BY <1>4, <3>1 DEF LooksAt
    <3> QED
      BY <3>2 DEF WillLook
  <2> QED
    BY <1>6, <2>1, <2>2, <2>3
<1> QED
  BY <1>1, <1>2, <1>3, <1>5, <1>6, QuietScan

\* A look that goes on still has the file to do.
LEMMA QuietGo ==
  ASSUME StoreInv, StoreInv', Undisturbed, NEW t \in Slots \cup Procs, NEW pc, Store!Go(t, pc),
         task[t].pc \in Looking \cup {"pick"}, DeadDropped,
         UNCHANGED <<files, temps, marker, again, up, home>>,
         \/ pc \in Looking
         \/ task[t].todo = {} /\ pc = IF task[t].phase = "remove" THEN "retained" ELSE "temps"
  PROVE  Undisturbed'
<1> DEFINE r == [task[t] EXCEPT !.pc = pc]
<1>1. task' = [task EXCEPT ![t] = r]
  BY DEF Store!Go, Store!Set
<1>2. task[t] \in TaskRecords /\ task[t].pc \in Scanning
  BY Scanner DEF Scanning
<1>3. r.kind = task[t].kind /\ r.pc = pc /\ r.todo = task[t].todo /\ r.phase = task[t].phase
  BY <1>2 DEF TaskRecords
<1> HIDE DEF r
<1>4. task'[t] = r
  BY <1>1 DEF StoreInv, StoreTypes
<1>5. t \in Procs => (again'[t] => r.kind # "none")
  BY <1>3 DEF Undisturbed
<1>6. ASSUME NEW e \in files', marker # NoMarker, e[1] # marker,
             LooksAt(task[t], e) \/ (t \in Procs /\ again[t])
      PROVE  WillLook(e)'
  <2>1. CASE t \in Procs /\ again[t]
    BY <2>1 DEF WillLook
  <2>2. CASE LooksAt(task[t], e)
    <3>1. \/ task[t].kind = "get" \/ task[t].phase = "remove" \/ e \in task[t].todo
      BY <2>2 DEF LooksAt, Looking, Assembly
    <3>2. LooksAt(r, e)
      BY <1>3, <3>1 DEF LooksAt
    <3>3. LooksAt(task[t], e)'
      BY <1>4, <3>2 DEF LooksAt
    <3> QED
      BY <3>3 DEF WillLook
  <2> QED
    BY <1>6, <2>1, <2>2
<1> QED
  BY <1>1, <1>2, <1>3, <1>5, <1>6, QuietScan

LEMMA QuietPick ==
  ASSUME StoreInv, StoreInv', Undisturbed, NEW t \in Slots \cup Procs, Store!Pick(t)
  PROVE  Undisturbed'
<1>1. /\ task[t].pc = "pick" /\ task[t].todo \subseteq Files
      /\ UNCHANGED <<files, temps, marker, again, up, home>> /\ DeadDropped
      /\ task[t].kind # "recover"
  BY Scanner, StoreAssumption
     DEF Store!Pick, Store!At, Store!diskVars, Store!runVars, DeadDropped, Undisturbed, Scanning
<1>2. CASE task[t].todo = {}
  <2> DEFINE pc == IF task[t].phase = "remove" THEN "retained" ELSE "temps"
  <2>1. Store!Go(t, pc)
    BY <1>2 DEF Store!Pick
  <2> QED
    BY <1>1, <1>2, <2>1, QuietGo
<1>3. CASE task[t].todo # {} /\ Store!Refuse(t)
           /\ (Store!Guarded(Store!Proc(t), FileOf(t)[1]) \/ Store!isLiveTempLease(FileOf(t)[1]))
  <2>1. FileOf(t)[1] \in Generations
    BY <1>1, <1>3, NextFileIn DEF FileOf, Files
  <2>2. \/ Store!Guarded(Store!Proc(t), FileOf(t)[1])
        \/ lease[FileOf(t)[1]] # "none"
    BY <1>3 DEF Store!isLiveTempLease
  <2>3. \E u \in Slots : task[u].pc \notin Scanning /\ \A e : LooksAt(task[u], e)
    BY <2>1, <2>2, BusyLooks
  <2> QED
    BY <1>1, <1>3, <2>3, QuietRefuse
<1>4. CASE Store!Go(t, "readers1")
  BY <1>1, <1>4, QuietGo DEF Looking
<1> QED
  BY <1>1, <1>2, <1>3, <1>4, StoreNames DEF Store!Pick

LEMMA QuietChecks ==
  ASSUME StoreInv, StoreInv', Undisturbed, NEW t \in Slots \cup Procs,
         Store!CheckLease(t) \/ Store!CheckReaders(t) \/ Store!CheckMarker(t)
  PROVE  Undisturbed'
<1>1. /\ task[t].pc \in Looking /\ UNCHANGED <<files, temps, marker, again, up, home>>
      /\ DeadDropped /\ task[t].todo \subseteq Files /\ ScanSound(t)
  BY Scanner, Gone DEF Store!CheckLease, Store!CheckReaders, Store!CheckMarker, Store!At,
     Store!diskVars, Store!runVars, DeadDropped, Looking
<1>2. FileOf(t)[1] \in Generations
  BY <1>1, NextFileIn DEF FileOf, Files, ScanSound
<1>3. ASSUME NEW pc \in Looking, Store!Go(t, pc)
      PROVE  Undisturbed'
  BY <1>1, <1>3, QuietGo
<1>4. ASSUME Store!Refuse(t), lease[FileOf(t)[1]] # "none" \/ readers # {}
      PROVE  Undisturbed'
  <2>1. \E u \in Slots : task[u].pc \notin Scanning /\ \A e : LooksAt(task[u], e)
    BY <1>2, <1>4, BusyLooks
  <2> QED
    BY <1>1, <1>4, <2>1, QuietRefuse
<1>5. CASE Store!CheckLease(t)
  <2>1. \/ Store!Refuse(t) /\ lease[FileOf(t)[1]] # "none"
        \/ Store!Go(t, "unlink")
    BY <1>5, StoreNames DEF Store!CheckLease, Store!isLiveTempLease
  <2> QED
    BY <1>3, <1>4, <2>1 DEF Looking
<1>6. CASE Store!CheckReaders(t)
  <2>1. \/ Store!Refuse(t) /\ readers # {}
        \/ Store!Go(t, "current") \/ Store!Go(t, "lease2")
    BY <1>6 DEF Store!CheckReaders, Store!hasLiveReaderLease
  <2> QED
    BY <1>3, <1>4, <2>1 DEF Looking
<1>7. CASE Store!CheckMarker(t)
  <2>1. \/ Store!Refuse(t) /\ (marker = NoMarker \/ marker = FileOf(t)[1])
        \/ Store!Go(t, "readers2")
    BY <1>7, StoreNames DEF Store!CheckMarker, Store!readCommitRecord
  <2>2. CASE Store!Refuse(t) /\ (marker = NoMarker \/ marker = FileOf(t)[1])
    BY <1>1, <2>2, QuietRefuse
  <2>3. CASE Store!Go(t, "readers2")
    BY <1>3, <2>3 DEF Looking
  <2> QED
    BY <2>1, <2>2, <2>3
<1> QED
  BY <1>5, <1>6, <1>7

LEMMA QuietUnlink ==
  ASSUME StoreInv, StoreInv', Undisturbed, NEW t \in Slots \cup Procs, Store!Unlink(t)
  PROVE  Undisturbed'
<1> DEFINE r == [task[t] EXCEPT !.todo = @ \ {FileOf(t)}, !.pc = "pick"]
<1>1. /\ task[t].pc = "unlink" /\ task' = [task EXCEPT ![t] = r] /\ DeadDropped
      /\ files' = files \ {FileOf(t)} /\ UNCHANGED <<temps, marker, again, up, home>>
  BY StoreNames DEF Store!Unlink, Store!At, Store!Set, Store!runVars, DeadDropped
<1>2. task[t] \in TaskRecords /\ task[t].pc \in Scanning
  BY <1>1, Scanner DEF Scanning, Looking
<1>3. /\ r.kind = task[t].kind /\ r.pc = "pick" /\ r.phase = task[t].phase
      /\ r.todo = task[t].todo \ {FileOf(t)}
  BY <1>2 DEF TaskRecords
<1> HIDE DEF r
<1>4. task'[t] = r
  BY <1>1 DEF StoreInv, StoreTypes
<1>5. t \in Procs => (again'[t] => r.kind # "none")
  BY <1>1, <1>3 DEF Undisturbed
<1>6. ASSUME NEW e \in files', LooksAt(task[t], e) \/ (t \in Procs /\ again[t])
      PROVE  WillLook(e)'
  <2>1. CASE t \in Procs /\ again[t]
    BY <1>1, <2>1 DEF WillLook
  <2>2. CASE LooksAt(task[t], e)
    <3>1. \/ task[t].kind = "get" \/ task[t].phase = "remove" \/ e \in task[t].todo
      BY <1>1, <2>2 DEF LooksAt, Assembly
    <3>2. LooksAt(r, e)
      BY <1>1, <1>3, <1>6, <3>1 DEF LooksAt
    <3>3. LooksAt(task[t], e)'
      BY <1>4, <3>2 DEF LooksAt
    <3> QED
      BY <3>3 DEF WillLook
  <2> QED
    BY <1>6, <2>1, <2>2
<1> QED
  BY <1>1, <1>2, <1>3, <1>5, <1>6, QuietScan

LEMMA QuietListing ==
  ASSUME StoreInv, StoreInv', Undisturbed, NEW t \in Slots \cup Procs,
         Store!ReadRetained(t) \/ Store!ListFiles(t)
  PROVE  Undisturbed'
<1> DEFINE held == {g \in Generations : lease[g] # "none"}
           q == [task[t] EXCEPT !.seen = marker, !.pc = "list", !.phase = "scan"]
           r == [task[t] EXCEPT !.todo = files, !.tmp = temps, !.pc = "live", !.names = held,
                                !.by = readers]
<1>1. /\ \/ task[t].pc = "retained" /\ task' = [task EXCEPT ![t] = q]
         \/ task[t].pc = "list" /\ task' = [task EXCEPT ![t] = r]
      /\ DeadDropped /\ UNCHANGED <<files, temps, marker, again, up, home>>
  BY StoreNames DEF Store!ReadRetained, Store!ListFiles, Store!At, Store!Set,
     Store!readCommitRecord, Store!diskVars, Store!runVars, DeadDropped
<1>2. task[t] \in TaskRecords /\ task[t].pc \in Scanning
  BY <1>1, Scanner DEF Scanning
<1>3. /\ q.kind = task[t].kind /\ q.pc = "list" /\ q.seen = marker
      /\ r.kind = task[t].kind /\ r.pc = "live" /\ r.seen = task[t].seen /\ r.todo = files
      /\ r.phase = task[t].phase
  BY <1>2 DEF TaskRecords
<1> HIDE DEF q, r
<1>4. PICK n \in {q, r} :
        /\ task' = [task EXCEPT ![t] = n]
        /\ \/ n = q /\ task[t].pc = "retained"
           \/ n = r /\ task[t].pc = "list"
  <2>1. CASE task[t].pc = "retained" /\ task' = [task EXCEPT ![t] = q]
    BY <2>1
  <2>2. CASE task[t].pc = "list" /\ task' = [task EXCEPT ![t] = r]
    BY <2>2
  <2> QED
    BY <1>1, <2>1, <2>2
<1>5. task'[t] = n
  BY <1>4 DEF StoreInv, StoreTypes
<1>6. n.kind = task[t].kind /\ (t \in Procs => (again'[t] => n.kind # "none"))
  BY <1>1, <1>3, <1>4 DEF Undisturbed
<1>7. ASSUME NEW e \in files', e[1] # marker, LooksAt(task[t], e) \/ (t \in Procs /\ again[t])
      PROVE  WillLook(e)'
  <2>1. CASE t \in Procs /\ again[t]
    BY <1>1, <2>1 DEF WillLook
  <2>2. CASE LooksAt(task[t], e)
    <3>1. LooksAt(n, e)
      BY <1>1, <1>3, <1>4, <1>7, <2>2 DEF LooksAt, Looking, Assembly
    <3>2. LooksAt(task[t], e)'
      BY <1>5, <3>1 DEF LooksAt
    <3> QED
      BY <3>2 DEF WillLook
  <2> QED
    BY <1>7, <2>1, <2>2
<1> QED
  BY <1>1, <1>2, <1>4, <1>6, <1>7, QuietScan

\* A scan that is over: nothing is left, or it begins again.
LEMMA QuietEnded ==
  ASSUME StoreInv, StoreInv', Undisturbed, NEW t \in Slots \cup Procs, Store!Ended(t),
         task[t].pc \in Scanning, DeadDropped, temps' \subseteq temps,
         UNCHANGED <<files, marker, up, home>>,
         \A e \in files : LooksAt(task[t], e) =>
           \E u \in Slots : task[u].pc \notin Scanning /\ \A d : LooksAt(task[u], d)
  PROVE  Undisturbed'
<1>1. PICK r \in {NoTask, ScanTask} :
        /\ task' = [task EXCEPT ![t] = r]
        /\ t \in Procs => r = IF again[t] THEN ScanTask ELSE NoTask
        /\ t \in Procs => again' = [again EXCEPT ![t] = FALSE]
        /\ t \notin Procs => again' = again
  BY StoreNames DEF Store!Ended, Store!Set
<1>2. /\ task'[t] = r /\ \A p \in Procs \ {t} : again'[p] = again[p]
      /\ t \in Procs => again'[t] = FALSE
  BY <1>1 DEF StoreInv, StoreTypes
<1>3. ASSUME NEW e \in files', LooksAt(task[t], e) \/ (t \in Procs /\ again[t])
      PROVE  WillLook(e)'
  <2>1. CASE t \in Procs /\ again[t]
    <3>1. task'[t] = ScanTask
      BY <1>1, <1>2, <2>1
    <3>2. LooksAt(task[t], e)'
      BY <3>1, NoTaskIs DEF LooksAt
    <3> QED
      BY <3>2 DEF WillLook
  <2>2. CASE LooksAt(task[t], e)
    BY <1>1, <1>3, <2>2, OthersLook
  <2> QED
    BY <1>3, <2>1, <2>2
<1> QED
  BY <1>1, <1>2, <1>3, QuietScan

LEMMA QuietLive ==
  ASSUME StoreInv, StoreInv', Undisturbed, NEW t \in Slots \cup Procs, Store!liveTempLeases(t)
  PROVE  Undisturbed'
<1>1. /\ task[t].pc = "live" /\ DeadDropped /\ task[t] \in TaskRecords
      /\ UNCHANGED <<files, temps, marker, up, home>> /\ task[t].pc \in Scanning
  BY Gone, Scanner DEF Store!liveTempLeases, Store!At, Store!runVars, Scanning
<1>2. task[t].kind # "recover"
  BY <1>1, Scanner DEF Undisturbed
<1>3. CASE Store!LiveReader(t) /\ Store!Ended(t)
  <2>1. readers # {} /\ 0 \in Generations
    BY <1>3, StoreNumbers DEF Store!LiveReader
  <2>2. \E u \in Slots : task[u].pc \notin Scanning /\ \A e : LooksAt(task[u], e)
    BY <2>1, BusyLooks
  <2> QED
    BY <1>1, <1>3, <2>2, QuietEnded
<1>4. CASE /\ UNCHANGED again
           /\ Store!Set(t, [task[t] EXCEPT !.tmp = @ \ Store!Live(t), !.names = {}, !.by = {},
                              !.pc = "pick", !.todo = Store!Reclaimable(t)])
  <2> DEFINE r == [task[t] EXCEPT !.tmp = @ \ Store!Live(t), !.names = {}, !.by = {},
                     !.pc = "pick", !.todo = Store!Reclaimable(t)]
  <2>1. task' = [task EXCEPT ![t] = r]
    BY <1>4 DEF Store!Set
  <2>2. /\ r.kind = task[t].kind /\ r.pc = "pick" /\ r.todo = Store!Reclaimable(t)
        /\ r.phase = task[t].phase
    BY <1>1 DEF TaskRecords
  <2> HIDE DEF r
  <2>3. task'[t] = r
    BY <2>1 DEF StoreInv, StoreTypes
  <2>4. t \in Procs => (again'[t] => r.kind # "none")
    BY <1>4, <2>2 DEF Undisturbed
  <2>5. ASSUME NEW e \in files', LooksAt(task[t], e) \/ (t \in Procs /\ again[t])
        PROVE  WillLook(e)'
    <3>1. CASE t \in Procs /\ again[t]
      BY <1>4, <3>1 DEF WillLook
    <3>2. CASE e[1] \in Store!Live(t)
      <4>1. lease[e[1]] # "none" /\ e[1] \in Generations
        BY <1>1, <3>2 DEF Store!Live, Store!isLiveTempLease, TaskRecords
      <4>2. \E u \in Slots : task[u].pc \notin Scanning /\ \A d : LooksAt(task[u], d)
        BY <4>1, BusyLooks
      <4> QED
        BY <1>1, <2>1, <4>2, OthersLook
    <3>3. CASE LooksAt(task[t], e) /\ e[1] \notin Store!Live(t)
      <4>1. \/ task[t].kind = "get" \/ task[t].phase = "remove"
            \/ e \in task[t].todo /\ e[1] # task[t].seen
        BY <1>1, <3>3 DEF LooksAt, Assembly, Looking
      <4>2. LooksAt(r, e)
        BY <2>2, <3>3, <4>1 DEF LooksAt, Store!Reclaimable
      <4>3. LooksAt(task[t], e)'
        BY <2>3, <4>2 DEF LooksAt
      <4> QED
        BY <4>3 DEF WillLook
    <3> QED
      BY <2>5, <3>1, <3>2, <3>3
  <2> QED
    BY <1>1, <1>4, <2>1, <2>2, <2>4, <2>5, QuietScan
<1> QED
  BY <1>2, <1>3, <1>4 DEF Store!liveTempLeases

LEMMA QuietReclaimTemps ==
  ASSUME StoreInv, StoreInv', Undisturbed, NEW t \in Slots \cup Procs, Store!ReclaimTemps(t)
  PROVE  Undisturbed'
<1>1. /\ task[t].pc = "temps" /\ DeadDropped /\ temps' \subseteq temps /\ Store!Ended(t)
      /\ UNCHANGED <<files, marker, up, home>> /\ task[t].pc \in Scanning
  BY DEF Store!ReclaimTemps, Store!At, Store!runVars, DeadDropped, Scanning
<1>2. task[t].kind # "get" /\ task[t].phase # "remove"
  <2>1. ProcShape(task[t]) \/ SlotShape(task[t])
    BY DEF StoreInv
  <2> QED
    BY <1>1, <2>1 DEF SlotShape, ProcShape, Looking, Reading
<1>3. \A e : ~LooksAt(task[t], e)
  BY <1>1, <1>2 DEF LooksAt, Looking, Assembly
<1> QED
  BY <1>1, <1>3, QuietEnded

\* A request that writes nothing and goes on, or begins.
LEMMA QuietCalm ==
  ASSUME StoreInv, StoreInv', Undisturbed, NEW s \in Slots, NEW r, task' = [task EXCEPT ![s] = r],
         task[s].pc \notin Leasing, r.kind # "recover",
         UNCHANGED <<files, temps, lease, marker, again, up, home>>,
         readers' \subseteq readers \cup {s}, s \in readers' => r.kind = "get",
         \A e : LooksAt(task[s], e) => LooksAt(r, e)
  PROVE  Undisturbed'
<1>1. StoreTypes /\ StoreTypes' /\ task'[s] = r /\ s \notin Procs
  BY StoreAssumption DEF StoreInv, StoreTypes
<1>2. task[s].pc \notin HasTemp \cup Assembly
  BY DEF Leasing, HasTemp, Assembly
<1>3. ASSUME NEW e \in files', marker' # NoMarker, e[1] # marker'
      PROVE  WillLook(e)'
  <2>1. WillLook(e)
    BY <1>3 DEF Undisturbed
  <2>2. LooksAt(task[s], e) => WillLook(e)'
    <3>1. LooksAt(r, e) => LooksAt(task[s], e)'
      BY <1>1 DEF LooksAt
    <3> QED
      BY <3>1 DEF WillLook
  <2> QED
    BY <1>1, <2>1, <2>2, LooksOn
<1>4. QuietMoves(s)
  BY <1>2, <1>3 DEF QuietMoves
<1> QED
  BY <1>1, <1>4, QuietFrame

\* A writer that goes on with its files, or publishes them.
LEMMA QuietWriter ==
  ASSUME StoreInv, StoreInv', Undisturbed, NEW s \in Slots, NEW pc,
         pc \in Assembly \cup {"release", "legacy"}, Store!Go(s, pc),
         task[s].pc \in Assembly \cup {"lease", "release"},
         task[s].pc \in Assembly => pc \in Assembly \/ marker' # NoMarker,
         \A g \in Generations : g # task[s].id =>
           lease'[g] = lease[g] /\ (g \in temps' => g \in temps),
         \A e \in files' : e \in files \/ (e[1] = task[s].id /\ pc \in Assembly),
         lease'[task[s].id] # "none" => pc \in Leasing /\ lease'[task[s].id] = "held",
         task[s].id \in temps' => pc \in HasTemp,
         marker' = marker \/ (marker' # NoMarker /\ pc = "release"),
         UNCHANGED <<readers, again, up, home>>
  PROVE  Undisturbed'
<1> DEFINE r == [task[s] EXCEPT !.pc = pc]
<1>1. task' = [task EXCEPT ![s] = r]
  BY DEF Store!Go, Store!Set
<1>2. /\ task[s] \in TaskRecords /\ SlotShape(task[s]) /\ s \notin Procs
      /\ StoreTypes /\ StoreTypes'
  BY Requester, StoreAssumption DEF StoreInv
<1>3. r.kind = task[s].kind /\ r.pc = pc /\ r.id = task[s].id
  BY <1>2 DEF TaskRecords
<1> HIDE DEF r
<1>4. task'[s] = r
  BY <1>1, <1>2 DEF StoreTypes
<1>5. task[s].kind \in {"put", "delete"}
  <2>1. task[s].pc # "idle" /\ task[s].pc \notin Reading
    BY DEF Assembly, Reading
  <2> QED
    BY <1>2, <2>1, NoTaskIs DEF SlotShape
<1>6. \A e : LooksAt(task[s], e)'
  BY <1>3, <1>4, <1>5 DEF LooksAt
<1>7. \A e : WillLook(e)'
  BY <1>6 DEF WillLook
<1>8. QuietMoves(s)
  <2>1. ASSUME NEW g \in Generations, lease'[g] # "none"
        PROVE  \/ lease'[g] = "held" /\ task'[s].id = g /\ task'[s].pc \in Leasing
               \/ lease'[g] = lease[g] /\ ~(task[s].id = g /\ task[s].pc \in Leasing)
    BY <1>3, <1>4, <2>1
  <2>2. ASSUME NEW g \in temps'
        PROVE  \/ task'[s].id = g /\ task'[s].pc \in HasTemp
               \/ g \in temps /\ ~(task[s].id = g /\ task[s].pc \in HasTemp)
    BY <1>2, <1>3, <1>4, <2>2 DEF StoreTypes
  <2>3. ASSUME NEW e \in files', marker' = NoMarker
        PROVE  \/ task'[s].id = e[1] /\ task'[s].pc \in Assembly
               \/ e \in files /\ marker = NoMarker /\ ~(task[s].id = e[1] /\ task[s].pc \in Assembly)
    BY <1>3, <1>4, <2>3
  <2> QED
    BY <1>7, <2>1, <2>2, <2>3 DEF QuietMoves
<1> QED
  BY <1>1, <1>2, <1>3, <1>4, <1>5, <1>8, QuietFrame DEF Undisturbed

LEMMA QuietWrites ==
  ASSUME StoreInv, StoreInv', Undisturbed, NEW s \in Slots,
         \/ Store!createTempLease(s) \/ Store!WriteTemp(s) \/ Store!RenameFile(s)
         \/ Store!Publish(s) \/ Store!writeCommitRecord(s) \/ Store!ReleaseLease(s)
  PROVE  Undisturbed'
<1>1. /\ task[s].id \in Generations /\ StoreTypes /\ SlotShape(task[s]) /\ WriterSound(s)
      /\ \A g \in Generations : lease[g] # "none" => lease[g] = "held"
  BY Requester DEF StoreInv, Undisturbed
<1>2. ASSUME Store!createTempLease(s)
      PROVE  Undisturbed'
  <2> DEFINE pc == IF task[s].kind = "put" THEN "tempBody" ELSE "tempMark"
  <2>1. /\ task[s].pc = "lease" /\ Store!Go(s, pc) /\ lease' = [lease EXCEPT ![task[s].id] = "held"]
        /\ UNCHANGED <<files, temps, readers, marker, again, up, home>>
    BY <1>2 DEF Store!createTempLease, Store!At, Store!runVars
  <2>2. pc \in Assembly /\ pc \in Leasing /\ task[s].pc \notin Assembly
    BY <2>1 DEF Assembly, Leasing
  <2>3. task[s].id \notin temps'
    BY <1>1, <2>1 DEF WriterSound
  <2> HIDE DEF pc
  <2>4. /\ lease'[task[s].id] = "held"
        /\ \A g \in Generations : g # task[s].id => lease'[g] = lease[g]
    BY <1>1, <2>1 DEF StoreTypes
  <2> QED
    BY <2>1, <2>2, <2>3, <2>4, QuietWriter
<1>3. ASSUME Store!WriteTemp(s)
      PROVE  Undisturbed'
  <2>1. PICK step \in {<<"tempBody", "body">>, <<"tempMeta", "meta">>, <<"tempMark", "mark">>} :
          task[s].pc = step[1] /\ Store!Go(s, step[2])
    BY <1>3 DEF Store!WriteTemp, Store!At
  <2>2. /\ temps' = temps \cup {task[s].id} /\ UNCHANGED <<files, lease, readers, marker, again, up, home>>
    BY <1>3 DEF Store!WriteTemp, Store!runVars
  <2>3. step[2] \in Assembly /\ step[2] \in Leasing /\ step[2] \in HasTemp /\ task[s].pc \in Assembly
    BY <2>1 DEF Assembly, Leasing, HasTemp
  <2> QED
    BY <1>1, <2>1, <2>2, <2>3, QuietWriter
<1>4. ASSUME Store!RenameFile(s)
      PROVE  Undisturbed'
  <2> DEFINE e == <<task[s].id, IF task[s].pc = "body" THEN 1 ELSE 2>>
             pc == IF task[s].pc = "body" THEN "tempMeta" ELSE "tempMark"
  <2>1. /\ task[s].pc \in {"body", "meta"} /\ Store!Go(s, pc) /\ files' = files \cup {e}
        /\ temps' = temps \ {task[s].id} /\ UNCHANGED <<lease, readers, marker, again, up, home>>
    BY <1>4 DEF Store!RenameFile, Store!At, Store!runVars, Store!Body, Store!Meta
  <2>2. pc \in Assembly /\ pc \in Leasing /\ task[s].pc \in Assembly /\ e[1] = task[s].id
    BY <2>1 DEF Assembly, Leasing
  <2> HIDE DEF e, pc
  <2> QED
    BY <1>1, <2>1, <2>2, QuietWriter
<1>5. ASSUME NEW to, Store!RenameMarker(s, to), to # NoMarker
      PROVE  Undisturbed'
  <2>1. /\ task[s].pc = "mark" /\ Store!Go(s, "release") /\ temps' = temps \ {task[s].id}
        /\ marker' = to /\ UNCHANGED <<files, lease, readers, again, up, home>>
    BY <1>5 DEF Store!RenameMarker, Store!At, Store!runVars
  <2>2. task[s].pc \in Assembly /\ "release" \in Leasing
    BY <2>1 DEF Assembly, Leasing
  <2> QED
    BY <1>1, <1>5, <2>1, <2>2, QuietWriter
<1>6. ASSUME Store!Publish(s) \/ Store!writeCommitRecord(s)
      PROVE  Undisturbed'
  <2>1. task[s].id # NoMarker /\ Store!Tomb # NoMarker
    BY <1>1, StoreNumbers, StoreNames
  <2> QED
    BY <1>5, <1>6, <2>1 DEF Store!Publish, Store!writeCommitRecord
<1>7. ASSUME Store!ReleaseLease(s)
      PROVE  Undisturbed'
  <2>1. /\ task[s].pc = "release" /\ Store!Go(s, "legacy")
        /\ lease' = [lease EXCEPT ![task[s].id] = "none"]
        /\ UNCHANGED <<files, temps, readers, marker, again, up, home>>
    BY <1>7 DEF Store!ReleaseLease, Store!At, Store!runVars
  <2>2. task[s].pc \notin Assembly /\ task[s].pc # "idle"
    BY <2>1 DEF Assembly
  <2>3. task[s].id \notin temps
    <3>1. IdSound(s) /\ task[s].kind # "none"
      BY <2>2, Requester
    <3>2. \A u \in Slots : task[u].id = task[s].id => u = s
      BY <3>1 DEF IdSound
    <3> QED
      BY <2>1, <3>2 DEF Undisturbed, HasTemp
  <2>4. /\ lease'[task[s].id] = "none"
        /\ \A g \in Generations : g # task[s].id => lease'[g] = lease[g]
    BY <1>1, <2>1 DEF StoreTypes
  <2> QED
    BY <2>1, <2>2, <2>3, <2>4, QuietWriter
<1> QED
  BY <1>2, <1>3, <1>4, <1>6, <1>7

LEMMA QuietBegins ==
  ASSUME StoreInv, StoreInv', Undisturbed, NEW s \in Slots,
         \/ \E kind \in {"put", "get", "delete"} : Store!Start(s, kind)
         \/ Store!PutBegin(s) \/ Store!DeleteBegin(s) \/ Store!DropLegacy(s)
  PROVE  Undisturbed'
<1>1. task[s] \in TaskRecords /\ SlotShape(task[s])
  BY Requester
<1>2. s \in readers => task[s].kind = "get"
  BY DEF Undisturbed
<1>3. ASSUME NEW kind \in {"put", "get", "delete"}, Store!Start(s, kind)
      PROVE  Undisturbed'
  <2>1. PICK r :
          /\ task[s] = NoTask /\ task' = [task EXCEPT ![s] = r] /\ r.kind = kind
          /\ UNCHANGED <<files, temps, lease, readers, marker, again, up, home>>
    <3> DEFINE pc == CASE kind = "put" -> "begin"
                       [] kind = "delete" -> "exists"
                       [] kind = "get" -> "readerLease"
               r == [NoTask EXCEPT !.kind = kind, !.id = ops + 1, !.pc = pc]
    <3>1. task[s] = NoTask /\ task' = [task EXCEPT ![s] = r]
      BY <1>3, StoreNames DEF Store!Start, Store!Set
    <3>2. r.kind = kind
      BY DEF NoTask
    <3>3. UNCHANGED <<files, temps, lease, readers, marker, again, up, home>>
      BY <1>3 DEF Store!Start, Store!diskVars
    <3> HIDE DEF r, pc
    <3> QED
      BY <3>1, <3>2, <3>3
  <2>2. \A e : ~LooksAt(task[s], e)
    BY <2>1, NoTaskIs DEF LooksAt, Looking, Assembly
  <2>3. task[s].pc \notin Leasing /\ s \notin readers
    BY <1>2, <2>1, NoTaskIs DEF Leasing, Assembly
  <2>4. kind # "recover"
    OBVIOUS
  <2> QED
    BY <2>1, <2>2, <2>3, <2>4, QuietCalm
<1>4. ASSUME Store!PutBegin(s)
      PROVE  Undisturbed'
  <2> DEFINE r == [task[s] EXCEPT !.pc = "lease", !.seen = marker]
  <2>1. /\ task[s].pc = "begin" /\ task' = [task EXCEPT ![s] = r]
        /\ UNCHANGED <<files, temps, lease, readers, marker, again, up, home>>
    BY <1>4 DEF Store!PutBegin, Store!At, Store!Set, Store!readCommitRecord, Store!runVars
  <2>2. r.pc = "lease" /\ r.kind = task[s].kind
    BY <1>1 DEF TaskRecords
  <2> HIDE DEF r
  <2>3. task[s].kind = "put" /\ task[s].pc \notin Leasing
    BY <1>1, <2>1, NoTaskIs DEF SlotShape, Reading, Scanning, Looking, Leasing, Assembly
  <2>4. \A e : LooksAt(r, e)
    BY <2>2, <2>3 DEF LooksAt
  <2> QED
    BY <1>2, <2>1, <2>2, <2>3, <2>4, QuietCalm
<1>5. ASSUME Store!DeleteBegin(s)
      PROVE  Undisturbed'
  <2> DEFINE r == IF marker = NoMarker /\ ~legacy THEN NoTask
                    ELSE [task[s] EXCEPT !.pc = "lease", !.seen = marker]
  <2>1. /\ task[s].pc = "exists" /\ task' = [task EXCEPT ![s] = r]
        /\ UNCHANGED <<files, temps, lease, readers, marker, again, up, home>>
    BY <1>5, StoreNames DEF Store!DeleteBegin, Store!At, Store!Set, Store!readCommitRecord,
       Store!runVars
  <2>2. r.kind \in {"none", task[s].kind}
    BY <1>1, NoTaskIs DEF TaskRecords
  <2> HIDE DEF r
  <2>3. /\ task[s].kind \in {"put", "delete"} /\ task[s].pc \notin Leasing
        /\ task[s].phase # "remove"
    BY <1>1, <2>1, NoTaskIs DEF SlotShape, Reading, Scanning, Looking, Leasing, Assembly
  <2>4. \A e : ~LooksAt(task[s], e)
    BY <2>1, <2>3 DEF LooksAt, Looking, Assembly
  <2>5. r.kind # "recover" /\ s \notin readers
    BY <1>2, <2>2, <2>3
  <2> QED
    BY <2>1, <2>3, <2>4, <2>5, QuietCalm
<1>6. ASSUME Store!DropLegacy(s)
      PROVE  Undisturbed'
  <2>1. PICK todo : task' = [task EXCEPT ![s] = [task[s] EXCEPT !.phase = "remove",
                      !.seen = NoMarker, !.todo = todo, !.pc = "pick"]]
    BY <1>6, StoreNames DEF Store!DropLegacy, Store!Set
  <2>2. /\ task[s].pc = "legacy"
        /\ UNCHANGED <<files, temps, lease, readers, marker, again, up, home>>
    BY <1>6 DEF Store!DropLegacy, Store!At, Store!runVars
  <2> DEFINE r == [task[s] EXCEPT !.phase = "remove", !.seen = NoMarker, !.todo = todo, !.pc = "pick"]
  <2>3. r.phase = "remove" /\ r.kind = task[s].kind
    BY <1>1 DEF TaskRecords
  <2>4. \A e : LooksAt(r, e)
    BY <2>3 DEF LooksAt
  <2>5. task[s].kind \in {"put", "delete"} /\ task[s].pc \notin Leasing
    BY <1>1, <2>2, NoTaskIs DEF SlotShape, Reading, Leasing, Assembly
  <2>6. task' = [task EXCEPT ![s] = r]
    BY <2>1
  <2> HIDE DEF r
  <2>7. r.kind # "recover" /\ s \notin readers
    BY <1>2, <2>3, <2>5
  <2> QED
    BY <2>2, <2>4, <2>5, <2>6, <2>7, QuietCalm
<1> QED
  BY <1>3, <1>4, <1>5, <1>6

\* A read that is over leaves a scan behind, at once or after the one that runs.
LEMMA QuietResolved ==
  ASSUME StoreInv, StoreInv', Undisturbed, NEW s \in Slots, Store!Resolved(s),
         task[s].pc \in Reading, UNCHANGED <<files, temps, lease, marker, up, home>>
  PROVE  Undisturbed'
<1> DEFINE f == [task EXCEPT ![s] = NoTask]
<1>p. PICK p \in Procs : p = home[s]
  BY DEF StoreInv, StoreTypes
<1>1. /\ readers' = readers \ {s}
      /\ task' = IF f[p] = NoTask THEN [f EXCEPT ![p] = ScanTask] ELSE f
      /\ again' = IF f[p] = NoTask THEN again ELSE [again EXCEPT ![p] = TRUE]
  BY <1>p, StoreNames DEF Store!Resolved, Store!scheduleReclaim
<1>2. /\ StoreTypes /\ p \in Procs /\ s # p /\ s \notin Procs /\ p \notin Slots
      /\ f \in [Slots \cup Procs -> TaskRecords]
      /\ task[s].pc \notin Leasing \cup HasTemp \cup Assembly
      /\ ProcShape(task[p])
  BY NoTaskIs, StoreAssumption
     DEF StoreInv, StoreTypes, Reading, Leasing, HasTemp, Assembly
<1>3. /\ f[p] = task[p] /\ task'[s] = NoTask
      /\ \A u \in Slots \ {s} : task'[u] = task[u]
      /\ \A q \in Procs \ {p} : task'[q] = task[q] /\ again'[q] = again[q]
  BY <1>1, <1>2 DEF StoreTypes
<1>4. \/ task'[p] = ScanTask /\ again' = again
      \/ task'[p] = task[p] /\ task[p].kind # "none" /\ again'[p] = TRUE
  BY <1>1, <1>2, <1>3 DEF StoreTypes, ProcShape
<1> HIDE DEF f
<1>5. \A e : WillLook(e)'
  <2>1. CASE task'[p] = ScanTask
    <3>1. \A e : LooksAt(task[p], e)'
      BY <2>1, NoTaskIs DEF LooksAt
    <3> QED
      BY <1>2, <3>1 DEF WillLook
  <2>2. CASE again'[p] = TRUE
    BY <1>2, <2>2 DEF WillLook
  <2> QED
    BY <1>4, <2>1, <2>2
<1>6. (up = {home[u] : u \in Slots})'
  BY DEF Undisturbed
<1>7. (\A q \in Procs : task[q].kind # "recover" /\ (again[q] => task[q].kind # "none"))'
  <2> SUFFICES ASSUME NEW q \in Procs
               PROVE  task'[q].kind # "recover" /\ (again'[q] => task'[q].kind # "none")
    OBVIOUS
  <2>1. CASE q = p
    BY <1>4, <2>1, NoTaskIs DEF Undisturbed
  <2>2. CASE q # p
    BY <1>3, <2>2 DEF Undisturbed
  <2> QED
    BY <2>1, <2>2
<1>8. (readers \subseteq {u \in Slots : task[u].kind = "get"})'
  BY <1>1, <1>3 DEF Undisturbed
<1>9. (\A g \in Generations : lease[g] # "none" =>
         lease[g] = "held" /\ \E u \in Slots : task[u].id = g /\ task[u].pc \in Leasing)'
  <2> SUFFICES ASSUME NEW g \in Generations, lease[g] # "none"
               PROVE  lease[g] = "held" /\ \E u \in Slots : task'[u].id = g /\ task'[u].pc \in Leasing
    BY DEF Generations
  <2>1. PICK u \in Slots : task[u].id = g /\ task[u].pc \in Leasing /\ lease[g] = "held"
    BY DEF Undisturbed
  <2> QED
    BY <1>2, <1>3, <2>1
<1>10. (\A g \in temps : \E u \in Slots : task[u].id = g /\ task[u].pc \in HasTemp)'
  <2> SUFFICES ASSUME NEW g \in temps
               PROVE  \E u \in Slots : task'[u].id = g /\ task'[u].pc \in HasTemp
    OBVIOUS
  <2>1. PICK u \in Slots : task[u].id = g /\ task[u].pc \in HasTemp
    BY DEF Undisturbed
  <2> QED
    BY <1>2, <1>3, <2>1
<1>11. (\A e \in files :
          IF marker = NoMarker
            THEN \E u \in Slots : task[u].id = e[1] /\ task[u].pc \in Assembly
            ELSE e[1] # marker => WillLook(e))'
  <2> SUFFICES ASSUME NEW e \in files, marker = NoMarker
               PROVE  \E u \in Slots : task'[u].id = e[1] /\ task'[u].pc \in Assembly
    BY <1>5 DEF NoMarker
  <2>1. PICK u \in Slots : task[u].id = e[1] /\ task[u].pc \in Assembly
    BY DEF Undisturbed
  <2> QED
    BY <1>2, <1>3, <2>1
<1> QED
  BY <1>6, <1>7, <1>8, <1>9, <1>10, <1>11 DEF Undisturbed

LEMMA QuietReads ==
  ASSUME StoreInv, StoreInv', Undisturbed, NEW s \in Slots,
         \/ Store!createReaderLease(s) \/ Store!resolveObject(s) \/ Store!OpenFile(s)
         \/ Store!LegacyBody(s)
  PROVE  Undisturbed'
<1>1. /\ task[s].pc \in {"readerLease", "resolve", "openBody", "openMeta", "legacyBody"}
      /\ UNCHANGED <<files, temps, lease, marker, up, home>>
      /\ readers' \subseteq readers \cup {s}
      /\ task[s].pc \in Reading
  BY DEF Store!createReaderLease, Store!resolveObject, Store!OpenFile, Store!LegacyBody,
         Store!At, Store!runVars, Reading, Store!Resolved
<1>2. task[s] \in TaskRecords /\ SlotShape(task[s])
  BY Requester
<1>3. task[s].kind = "get" /\ task[s].pc \notin Leasing
  BY <1>1, <1>2, NoTaskIs DEF SlotShape, Unpublished, Assembly, Scanning, Looking, Leasing
<1>4. ASSUME NEW r, task' = [task EXCEPT ![s] = r], r.kind = task[s].kind, again' = again
      PROVE  Undisturbed'
  <2>1. r.kind = "get" /\ r.kind # "recover" /\ \A e : LooksAt(r, e)
    BY <1>3, <1>4 DEF LooksAt
  <2> QED
    BY <1>1, <1>3, <1>4, <2>1, QuietCalm
<1>5. ASSUME NEW pc, Store!Go(s, pc), again' = again
      PROVE  Undisturbed'
  <2> DEFINE r == [task[s] EXCEPT !.pc = pc]
  <2>1. task' = [task EXCEPT ![s] = r] /\ r.kind = task[s].kind
    BY <1>2, <1>5 DEF Store!Go, Store!Set, TaskRecords
  <2> HIDE DEF r
  <2> QED
    BY <1>4, <1>5, <2>1
<1>6. ASSUME NEW m, Store!Set(s, [task[s] EXCEPT !.pc = "openBody", !.seen = m]), again' = again
      PROVE  Undisturbed'
  <2> DEFINE r == [task[s] EXCEPT !.pc = "openBody", !.seen = m]
  <2>1. task' = [task EXCEPT ![s] = r] /\ r.kind = task[s].kind
    BY <1>2, <1>6 DEF Store!Set, TaskRecords
  <2> HIDE DEF r
  <2> QED
    BY <1>4, <1>6, <2>1
<1>7. CASE Store!Resolved(s)
  BY <1>1, <1>7, QuietResolved
<1>8. CASE Store!createReaderLease(s)
  BY <1>5, <1>8 DEF Store!createReaderLease
<1>9. CASE Store!resolveObject(s)
  BY <1>5, <1>6, <1>7, <1>9 DEF Store!resolveObject
<1>10. CASE Store!OpenFile(s)
  BY <1>5, <1>7, <1>10 DEF Store!OpenFile
<1>11. CASE Store!LegacyBody(s)
  BY <1>5, <1>7, <1>11 DEF Store!LegacyBody
<1> QED
  BY <1>8, <1>9, <1>10, <1>11

LEMMA QuietInvInit ==
  ASSUME Store!Init
  PROVE  QuietInv
<1>1. /\ files = (IF legacy THEN {} ELSE PairOf(0))
      /\ marker = (IF legacy THEN NoMarker ELSE 0) /\ temps = {}
      /\ lease = [g \in Generations |-> "none"] /\ readers = {}
      /\ task = [t \in Slots \cup Procs |-> NoTask] /\ again = [p \in Procs |-> FALSE]
      /\ up = {home[s] : s \in Slots}
  BY StoreNames DEF Store!Init
<1>2. \A e \in files : marker # NoMarker /\ e[1] = marker
  BY <1>1, StoreNumbers DEF PairOf
<1>3. \A p \in Procs : task[p].kind # "recover" /\ ~again[p]
  BY <1>1, NoTaskIs
<1> QED
  BY <1>1, <1>2, <1>3 DEF QuietInv, Undisturbed

LEMMA QuietNext ==
  ASSUME StoreInv, QuietInv, Store!Next, StoreInv'
  PROVE  QuietInv'
<1>1. ASSUME Undisturbed, NEW s \in Slots, Requests(s)
      PROVE  Undisturbed'
  BY <1>1, QuietBegins, QuietWrites, QuietReads DEF Requests
<1>2. ASSUME Undisturbed, NEW t \in Slots \cup Procs, Scans(t)
      PROVE  Undisturbed'
  BY <1>2, QuietPick, QuietChecks, QuietUnlink, QuietListing, QuietLive, QuietReclaimTemps
     DEF Scans
<1>3. ASSUME Undisturbed, NEW p \in Procs, Store!ReadRecord(p) \/ Store!Restart(p)
      PROVE  FALSE
  <2>1. ~Store!Restart(p)
    BY <1>3 DEF Store!Restart, Undisturbed
  <2>2. CASE Store!ReadRecord(p)
    BY <1>3, <2>2 DEF Store!ReadRecord, Store!At, StoreInv, ProcShape, Undisturbed
  <2> QED
    BY <1>3, <2>1, <2>2
<1>4. ASSUME faults' = 0, (\E s \in Slots : Store!WriteFails(s)) \/ (\E p \in Procs : Store!Die(p))
      PROVE  FALSE
  BY <1>4 DEF Store!WriteFails, Store!Die, StoreInv, StoreTypes
<1>5. ASSUME NEW s \in Slots, Requests(s)
      PROVE  faults' = faults
  BY <1>5 DEF Requests, Store!Start, Store!PutBegin, Store!createTempLease, Store!WriteTemp,
     Store!RenameFile, Store!Publish, Store!RenameMarker, Store!ReleaseLease, Store!DropLegacy,
     Store!DeleteBegin, Store!writeCommitRecord, Store!createReaderLease, Store!resolveObject,
     Store!OpenFile, Store!LegacyBody, Store!runVars
<1>6. ASSUME NEW t \in Slots \cup Procs, Scans(t)
      PROVE  faults' = faults
  BY <1>6 DEF Scans, Store!Pick, Store!CheckLease, Store!CheckReaders, Store!CheckMarker, Store!Unlink,
     Store!ReadRetained, Store!ListFiles, Store!liveTempLeases, Store!ReclaimTemps, Store!runVars
<1>7. ASSUME NEW p \in Procs, Store!ReadRecord(p) \/ Store!Restart(p)
      PROVE  faults' = faults
  BY <1>7 DEF Store!ReadRecord, Store!Restart, Store!runVars
<1> SUFFICES ASSUME faults' = 0
             PROVE  Undisturbed'
  BY DEF QuietInv
<1>8. CASE (\E s \in Slots : Store!WriteFails(s)) \/ (\E p \in Procs : Store!Die(p))
  BY <1>4, <1>8
<1>9. CASE \E s \in Slots : Requests(s)
  BY <1>1, <1>5, <1>9 DEF QuietInv
<1>10. CASE \E t \in Slots \cup Procs : Scans(t)
  BY <1>2, <1>6, <1>10 DEF QuietInv
<1>11. CASE \E p \in Procs : Store!ReadRecord(p) \/ Store!Restart(p)
  BY <1>3, <1>7, <1>11 DEF QuietInv
<1> QED
  BY <1>8, <1>9, <1>10, <1>11, StoreNames DEF Store!Next, Requests, Scans

-----------------------------------------------------------------------------
(* The store of a behaviour, in the composition.                           *)

StoreSound == part = "store" => StoreInv /\ QuietInv

LEMMA StoreStays ==
  ASSUME StoreInv, QuietInv, UNCHANGED storeVars
  PROVE  StoreInv' /\ QuietInv'
<1>1. /\ files' = files /\ temps' = temps /\ lease' = lease /\ readers' = readers
      /\ marker' = marker /\ legacy' = legacy /\ dir' = dir /\ home' = home /\ task' = task
      /\ again' = again /\ up' = up /\ ops' = ops /\ faults' = faults
  BY DEF storeVars
<1>2. StoreInv'
  BY <1>1 DEF StoreInv, StoreTypes, DiskSound, MarkerSound, SlotShape, IdSound, WriterSound,
     ReaderSound, ProcShape, ScanSound, Heads, FileOf, ListedSound, Settled, Superseded, Unread, Unseen
<1>3. QuietInv'
  BY <1>1 DEF QuietInv, Undisturbed, WillLook, LooksAt
<1> QED
  BY <1>2, <1>3

LEMMA StoreIntactFrom ==
  ASSUME StoreSound
  PROVE  StoreIntact
<1> SUFFICES ASSUME part = "store"
             PROVE  Store!PublishedIntact /\ Store!LeasesRespected /\ Store!QuiescentClean
  BY DEF StoreIntact
<1>1. StoreInv /\ QuietInv
  BY DEF StoreSound
<1>2. Store!PublishedIntact
  BY <1>1, StoreNames DEF Store!PublishedIntact, StoreInv, DiskSound, MarkerSound
<1>3. Store!LeasesRespected
  BY <1>1, StoreNames
     DEF Store!LeasesRespected, StoreInv, ReaderSound, WriterSound, Opening, HasTemp
<1>4. Store!QuiescentClean
  <2> SUFFICES ASSUME faults = 0, \A t \in Slots \cup Procs : task[t] = NoTask
               PROVE  (\A e \in files : e[1] = marker) /\ temps = {}
    BY StoreNames DEF Store!QuiescentClean
  <2>1. Undisturbed
    BY <1>1 DEF QuietInv
  <2>2. \A s \in Slots : task[s].pc \notin Assembly /\ task[s].pc \notin HasTemp
    BY NoTaskIs DEF Assembly, HasTemp
  <2>3. ASSUME NEW e \in files
        PROVE  ~WillLook(e)
    <3>1. \A t \in Slots \cup Procs : ~LooksAt(task[t], e)
      BY NoTaskIs DEF LooksAt, Looking, Assembly
    <3>2. \A p \in Procs : ~again[p]
      BY <2>1, NoTaskIs DEF Undisturbed
    <3> QED
      BY <3>1, <3>2 DEF WillLook
  <2> QED
    BY <2>1, <2>2, <2>3 DEF Undisturbed
<1> QED
  BY <1>2, <1>3, <1>4

(* What the marker names has both its files, a reader with a lease finds   *)
(* the generation it read from the marker, a writer its temporary file,    *)
(* and when nothing failed and nothing runs nothing superseded is left:    *)
(* for any number of processes, requests, deaths and failed writes         *)
(* (BunStorage put, get, delete, canReclaimGeneration,                     *)
(* reclaimUnreferencedGenerations, recoverInternalStore).                  *)
THEOREM StoreStaysIntact == MCSpec => []StoreIntact
<1>1. MCInit => StoreSound
  BY StoreInvInit, QuietInvInit DEF MCInit, StoreSound
<1>2. StoreSound /\ [MCNext]_<<part, vars, storeVars>> => StoreSound'
  <2> SUFFICES ASSUME StoreSound, [MCNext]_<<part, vars, storeVars>>, part' = "store"
               PROVE  StoreInv' /\ QuietInv'
    BY DEF StoreSound
  <2>1. CASE StoreStep
    <3>1. StoreInv /\ QuietInv /\ Store!Next
      BY <2>1 DEF StoreStep, StoreSound
    <3> QED
      BY <3>1, StoreNext, QuietNext
  <2>2. CASE part' = part /\ UNCHANGED storeVars
    BY <2>2, StoreStays DEF StoreSound
  <2>3. UNCHANGED <<part, vars, storeVars>> => part' = part /\ UNCHANGED storeVars
    OBVIOUS
  <2>4. ~DeletionStep
    BY DEF DeletionStep
  <2> QED
    BY <2>1, <2>2, <2>3, <2>4 DEF MCNext
<1>3. StoreSound => StoreIntact
  BY StoreIntactFrom
<1> QED
  BY <1>1, <1>2, <1>3, PTL DEF MCSpec

===============================================================================
