------------------------------ MODULE TalkProofs ------------------------------
(***************************************************************************)
(* Proofs about calls and the realtime stream (MCTalk), for any number of  *)
(* effects, calls, events and tickets, and any limits: the dispatcher of   *)
(* the relay accounts for its slots and ends only the call a result is     *)
(* for; a browser that is told it caught up has every event; and two hubs  *)
(* never disagree on whether a call was offered or accepted.               *)
(***************************************************************************)
EXTENDS MCTalk, FiniteSetTheorems, WellFoundedInduction, TLAPS

-----------------------------------------------------------------------------
LEMMA NatHasLeast ==
  ASSUME NEW S \in SUBSET Nat, S # {}
  PROVE  \E n \in S : \A m \in S : n <= m
<1>1. PICK n \in S : \A m \in S : ~(<<m, n>> \in OpToRel(<, Nat))
  BY NatLessThanWellFounded, WFMin
<1>2. \A m \in S : ~(m < n)
  BY <1>1 DEF OpToRel
<1> QED
  BY <1>2

-----------------------------------------------------------------------------
(* The relay.  The inductive invariant.                                    *)

Stages == {"none", "sending", "acked", "failed"}
RelayCalls == [gen : 0..MaxGen, st : {"none", "ringing", "connecting"}]
Carriers == [id : Effects \union {Relaying!NoEffect},
             at : {"idle", "send", "sending", "continue"}, ok : BOOLEAN]

Out(table) == {e \in Effects : table[e] # "none"}
Carrying(w) == IF w.at = "sending" THEN 1 ELSE 0

(* A slot is held by a job that was given out, or by the worker.           *)
SlotsSound(table, n, w, given) ==
  /\ table \in [Effects -> Stages] /\ w \in Carriers /\ given \subseteq Effects
  /\ \A e \in Effects : table[e] # "none" => e \in given
  /\ n \in 0..MaxJobs /\ n = Cardinality(Out(table)) + Carrying(w)
JournalFits(j) == IsFiniteSet(j) /\ Cardinality(j) <= MaxPending

RelayInv ==
  /\ call \in RelayCalls /\ JournalFits(journal)
  /\ SlotsSound(jobs, slots, worker, used) /\ taken \in BOOLEAN

LEMMA RelayNumbers ==
  IsFiniteSet(Effects) /\ MaxGen \in Nat /\ MaxPending \in Nat /\ MaxJobs \in Nat
BY RelayAssumption

LEMMA RelayCounts == \A S : Relaying!Cardinality(S) = Cardinality(S)
BY DEF Relaying!Cardinality, Cardinality

LEMMA OutIsFinite ==
  ASSUME NEW table
  PROVE  IsFiniteSet(Out(table)) /\ Cardinality(Out(table)) \in Nat
<1>1. Out(table) \subseteq Effects
  BY DEF Out
<1> QED
  BY <1>1, RelayNumbers, FS_Subset, FS_CardinalityType

LEMMA RelayInit == Relaying!Init => RelayInv
<1> SUFFICES ASSUME Relaying!Init PROVE RelayInv
  OBVIOUS
<1>1. Out(jobs) = {} /\ Cardinality({}) = 0 /\ IsFiniteSet({})
  BY FS_EmptySet DEF Relaying!Init, Out
<1>2. SlotsSound(jobs, slots, worker, used)
  BY <1>1, RelayNumbers
     DEF Relaying!Init, SlotsSound, Stages, Carriers, Carrying, Relaying!Idle
<1>3. JournalFits(journal)
  BY <1>1, RelayNumbers DEF Relaying!Init, JournalFits
<1>4. call = [gen |-> 0, st |-> "none"] /\ taken = FALSE
  BY DEF Relaying!Init
<1>5. call \in RelayCalls
  BY <1>4, RelayNumbers DEF RelayCalls
<1> QED
  BY <1>2, <1>3, <1>4, <1>5 DEF RelayInv

-----------------------------------------------------------------------------
(* The parts of a turn.                                                    *)

LEMMA JournalShrinks ==
  ASSUME JournalFits(journal), NEW j \in SUBSET journal
  PROVE  JournalFits(j)
<1>1. IsFiniteSet(j) /\ Cardinality(j) <= Cardinality(journal)
  BY FS_Subset DEF JournalFits
<1> QED
  BY <1>1, FS_CardinalityType, RelayNumbers DEF JournalFits

LEMMA KeptFits ==
  ASSUME RelayInv
  PROVE  /\ JournalFits(Relaying!Kept) /\ Relaying!Kept \subseteq journal
         /\ \A e : JournalFits(Relaying!Kept \ {e})
         /\ \A e : Relaying!Room => JournalFits(Relaying!Kept \union {e})
<1>1. /\ Relaying!Kept \subseteq journal /\ \A e : Relaying!Kept \ {e} \subseteq journal
      /\ JournalFits(journal)
  BY DEF Relaying!Kept, RelayInv
<1>2. JournalFits(Relaying!Kept) /\ \A e : JournalFits(Relaying!Kept \ {e})
  BY <1>1, JournalShrinks
<1>3. ASSUME NEW e, Relaying!Room PROVE JournalFits(Relaying!Kept \union {e})
  <2>1. Cardinality(Relaying!Kept) < MaxPending
    BY <1>3, RelayCounts DEF Relaying!Room
  <2> DEFINE k == Relaying!Kept
  <2>4. IsFiniteSet(k) /\ Cardinality(k) \in Nat
    BY <1>2, FS_CardinalityType DEF JournalFits
  <2> HIDE DEF k
  <2>5. /\ IsFiniteSet(k \union {e})
        /\ Cardinality(k \union {e}) = IF e \in k THEN Cardinality(k) ELSE Cardinality(k) + 1
    BY <2>4, FS_AddElement
  <2> USE DEF k
  <2>2. /\ IsFiniteSet(Relaying!Kept \union {e})
        /\ Cardinality(Relaying!Kept \union {e}) <= Cardinality(Relaying!Kept) + 1
    BY <2>4, <2>5
  <2>3. Cardinality(Relaying!Kept) \in Nat /\ Cardinality(Relaying!Kept \union {e}) \in Nat
    BY <1>2, <2>2, FS_CardinalityType DEF JournalFits
  <2> QED
    BY <2>1, <2>2, <2>3, RelayNumbers DEF JournalFits
<1> QED
  BY <1>1, <1>2, <1>3

LEMMA SweptFits ==
  ASSUME RelayInv
  PROVE  /\ Relaying!Swept \in RelayCalls /\ Relaying!Swept.gen = call.gen
         /\ \A c \in RelayCalls : Relaying!Over(c) \in RelayCalls
         /\ \A e, ok : Relaying!Completed(e, ok) \in RelayCalls
<1>1. call \in RelayCalls
  BY DEF RelayInv
<1>2. \A c \in RelayCalls : Relaying!Over(c) \in RelayCalls /\ Relaying!Over(c).gen = c.gen
  BY DEF Relaying!Over, RelayCalls
<1> QED
  BY <1>1, <1>2 DEF Relaying!Swept, Relaying!Completed

(* A call that goes over in a result went by an effect of its generation.  *)
OwnResult ==
  Relaying!Active /\ call'.st = "none" => \E e \in journal \ journal' : e.gen = call.gen

LEMMA ResultIsOwn ==
  ASSUME NEW e \in journal, NEW ok, journal' = Relaying!Kept \ {e},
         call' = IF Relaying!Swept.st = "none" THEN Relaying!Swept ELSE Relaying!Completed(e, ok)
  PROVE  OwnResult
<1> SUFFICES ASSUME Relaying!Active, call'.st = "none"
             PROVE  \E x \in journal \ journal' : x.gen = call.gen
  BY DEF OwnResult
<1>1. CASE Relaying!Swept.st = "none"
  <2>1. PICK x \in Relaying!LateOnes : Relaying!Concerns(x)
    BY <1>1 DEF Relaying!Swept, Relaying!Active
  <2>2. x \in journal /\ x \notin journal' /\ x.gen = call.gen
    BY <2>1 DEF Relaying!LateOnes, Relaying!Kept, Relaying!Concerns
  <2> QED
    BY <2>2
<1>2. CASE Relaying!Swept.st # "none"
  <2>1. call' = Relaying!Completed(e, ok)
    BY <1>2
  <2>2. Relaying!Concerns(e)
    BY <2>1 DEF Relaying!Completed, Relaying!Active
  <2> QED
    BY <2>2 DEF Relaying!Concerns
<1> QED
  BY <1>1, <1>2

(* One job more, one job less, or the same.                                *)
LEMMA JobsCount ==
  ASSUME NEW table \in [Effects -> Stages], NEW id \in Effects, NEW v \in Stages
  PROVE  LET next == [table EXCEPT ![id] = v] IN
         /\ next \in [Effects -> Stages]
         /\ table[id] = "none" /\ v # "none" =>
              Cardinality(Out(next)) = Cardinality(Out(table)) + 1
         /\ table[id] # "none" /\ v = "none" =>
              Cardinality(Out(next)) = Cardinality(Out(table)) - 1
         /\ table[id] # "none" /\ v # "none" => Out(next) = Out(table)
<1> DEFINE next == [table EXCEPT ![id] = v]
<1>1. /\ next \in [Effects -> Stages]
      /\ \A e \in Effects : next[e] = IF e = id THEN v ELSE table[e]
  OBVIOUS
<1> HIDE DEF next
<1>2. ASSUME table[id] = "none", v # "none"
      PROVE  Cardinality(Out(next)) = Cardinality(Out(table)) + 1
  <2>1. Out(next) = Out(table) \union {id} /\ id \notin Out(table)
    BY <1>1, <1>2 DEF Out
  <2> QED
    BY <2>1, OutIsFinite, FS_AddElement
<1>3. ASSUME table[id] # "none", v = "none"
      PROVE  Cardinality(Out(next)) = Cardinality(Out(table)) - 1
  <2>1. Out(next) = Out(table) \ {id} /\ id \in Out(table)
    BY <1>1, <1>3 DEF Out
  <2> QED
    BY <2>1, OutIsFinite, FS_RemoveElement
<1>4. table[id] # "none" /\ v # "none" => Out(next) = Out(table)
  BY <1>1 DEF Out
<1> QED
  BY <1>1, <1>2, <1>3, <1>4 DEF next

-----------------------------------------------------------------------------
(* The actions of the relay.                                               *)

LEMMA SlotsStay ==
  ASSUME RelayInv, UNCHANGED <<used, jobs, slots, worker, taken>>,
         call' \in RelayCalls, JournalFits(journal')
  PROVE  RelayInv'
BY DEF RelayInv, SlotsSound, Out, Carrying

LEMMA InviteSteps ==
  ASSUME RelayInv, Relaying!Invite
  PROVE  RelayInv'
<1>1. call' = [gen |-> call.gen + 1, st |-> "ringing"] /\ call.gen < MaxGen
  BY DEF Relaying!Invite
<1>2. call' \in RelayCalls
  BY <1>1, RelayNumbers DEF RelayInv, RelayCalls
<1> QED
  BY <1>2, KeptFits, SlotsStay DEF Relaying!Invite

LEMMA AlarmSteps ==
  ASSUME RelayInv, NEW expired, Relaying!Alarm(expired)
  PROVE  RelayInv'
<1>1. call' \in RelayCalls
  BY SweptFits DEF Relaying!Alarm
<1> QED
  BY <1>1, KeptFits, SlotsStay DEF Relaying!Alarm

LEMMA DeadlineSteps ==
  ASSUME RelayInv, NEW e \in journal, Relaying!DeadlinePasses(e)
  PROVE  RelayInv'
<1> DEFINE late == [e EXCEPT !.late = TRUE]
           rest == journal \ {e}
<1>1. journal' = rest \union {late} /\ UNCHANGED <<call, used, jobs, slots, worker, taken>>
  BY DEF Relaying!DeadlinePasses
<1> HIDE DEF late
<1>2. IsFiniteSet(journal) /\ Cardinality(journal) \in Nat /\ Cardinality(journal) <= MaxPending
  BY FS_CardinalityType DEF RelayInv, JournalFits
<1>3. IsFiniteSet(rest) /\ Cardinality(rest) = Cardinality(journal) - 1
  BY <1>2, FS_RemoveElement
<1> HIDE DEF rest
<1>4. /\ IsFiniteSet(rest \union {late})
      /\ Cardinality(rest \union {late}) =
           IF late \in rest THEN Cardinality(rest) ELSE Cardinality(rest) + 1
  BY <1>3, FS_AddElement
<1>5. JournalFits(journal')
  BY <1>1, <1>2, <1>3, <1>4, RelayNumbers DEF JournalFits
<1> QED
  BY <1>1, <1>5, SlotsStay DEF RelayInv

LEMMA FrameSteps ==
  ASSUME RelayInv, NEW id \in Effects, NEW type, NEW heard, Relaying!Frame(id, type, heard)
  PROVE  RelayInv'
<1>1. /\ id \notin used /\ used' = used \union {id} /\ UNCHANGED <<worker, taken>>
  BY DEF Relaying!Frame
<1>2. SlotsSound(jobs, slots, worker, used)
  BY DEF RelayInv
<1>3. jobs[id] = "none"
  BY <1>1, <1>2 DEF SlotsSound
<1>4. SlotsSound(jobs', slots', worker', used')
  <2>1. CASE jobs' = jobs /\ slots' = slots
    BY <1>1, <1>2, <2>1 DEF SlotsSound, Out, Carrying
  <2>2. CASE jobs' = [jobs EXCEPT ![id] = "sending"] /\ slots' = slots + 1 /\ slots < MaxJobs
    <3>1. /\ jobs' \in [Effects -> Stages]
          /\ Cardinality(Out(jobs')) = Cardinality(Out(jobs)) + 1
      BY <1>2, <1>3, <2>2, JobsCount DEF SlotsSound, Stages
    <3>2. \A e \in Effects : jobs'[e] # "none" => e \in used'
      BY <1>1, <1>2, <2>2 DEF SlotsSound
    <3>3. /\ slots \in 0..MaxJobs /\ slots = Cardinality(Out(jobs)) + Carrying(worker)
          /\ worker' = worker /\ worker \in Carriers /\ used' \subseteq Effects
      BY <1>1, <1>2 DEF SlotsSound
    <3>4. /\ slots' \in 0..MaxJobs
          /\ slots' = Cardinality(Out(jobs')) + Carrying(worker)
      BY <2>2, <3>1, <3>3, RelayNumbers, OutIsFinite DEF Carrying
    <3> QED
      BY <3>1, <3>2, <3>3, <3>4 DEF SlotsSound
  <2> QED
    BY <2>1, <2>2 DEF Relaying!Frame
<1>5. call' \in RelayCalls
  <2>1. [call EXCEPT !.st = "connecting"] \in RelayCalls
    BY DEF RelayInv, RelayCalls
  <2> QED
    BY <2>1, SweptFits DEF Relaying!Frame, RelayInv
<1>6. JournalFits(journal')
  BY KeptFits DEF Relaying!Frame
<1> QED
  BY <1>1, <1>4, <1>5, <1>6 DEF RelayInv

LEMMA SendSteps ==
  ASSUME RelayInv, NEW id \in Effects, NEW ok, Relaying!Send(id, ok)
  PROVE  RelayInv'
<1> DEFINE v == IF ok THEN "acked" ELSE "failed"
<1>1. /\ jobs[id] = "sending" /\ jobs' = [jobs EXCEPT ![id] = v]
      /\ UNCHANGED <<call, journal, used, slots, worker, taken>>
      /\ v \in Stages /\ v # "none"
  BY DEF Relaying!Send, Stages
<1> HIDE DEF v
<1>2. SlotsSound(jobs, slots, worker, used)
  BY DEF RelayInv
<1>3. jobs' \in [Effects -> Stages] /\ Out(jobs') = Out(jobs)
  BY <1>1, <1>2, JobsCount DEF SlotsSound
<1>4. \A e \in Effects : jobs'[e] # "none" => e \in used
  BY <1>1, <1>2 DEF SlotsSound
<1>5. SlotsSound(jobs', slots', worker', used')
  BY <1>1, <1>2, <1>3, <1>4 DEF SlotsSound
<1> QED
  BY <1>1, <1>5 DEF RelayInv

LEMMA ReportSteps ==
  ASSUME RelayInv, NEW id \in Effects, NEW arrives, Relaying!Report(id, arrives)
  PROVE  RelayInv' /\ OwnResult
<1>1. /\ jobs[id] # "none" /\ jobs' = [jobs EXCEPT ![id] = "none"] /\ slots' = slots - 1
      /\ UNCHANGED <<used, worker, taken>>
  BY DEF Relaying!Report, Relaying!Released
<1>2. SlotsSound(jobs, slots, worker, used)
  BY DEF RelayInv
<1>3. /\ jobs' \in [Effects -> Stages]
      /\ Cardinality(Out(jobs')) = Cardinality(Out(jobs)) - 1
  BY <1>1, <1>2, JobsCount DEF SlotsSound, Stages
<1>4. \A e \in Effects : jobs'[e] # "none" => e \in used
  BY <1>1, <1>2 DEF SlotsSound
<1>5. /\ slots \in 0..MaxJobs /\ slots = Cardinality(Out(jobs)) + Carrying(worker)
      /\ worker' = worker /\ worker \in Carriers /\ used' = used /\ used \subseteq Effects
  BY <1>1, <1>2 DEF SlotsSound
<1>6. slots' \in 0..MaxJobs /\ slots' = Cardinality(Out(jobs')) + Carrying(worker)
  BY <1>1, <1>3, <1>5, RelayNumbers, OutIsFinite DEF Carrying
<1>7. SlotsSound(jobs', slots', worker', used')
  BY <1>3, <1>4, <1>5, <1>6 DEF SlotsSound
<1>8. CASE UNCHANGED <<call, journal>>
  BY <1>1, <1>7, <1>8 DEF RelayInv, OwnResult, Relaying!Active
<1>9. ASSUME NEW e \in Relaying!Found(id),
             call' = IF Relaying!Swept.st = "none" THEN Relaying!Swept
                     ELSE Relaying!Completed(e, jobs[id] = "acked"),
             journal' = Relaying!Kept \ {e}
      PROVE  RelayInv' /\ OwnResult
  <2>1. e \in journal
    BY DEF Relaying!Found
  <2>2. call' \in RelayCalls /\ JournalFits(journal')
    BY <1>9, SweptFits, KeptFits
  <2>3. OwnResult
    BY <1>9, <2>1, ResultIsOwn
  <2> QED
    BY <1>1, <1>7, <2>2, <2>3 DEF RelayInv
<1> QED
  BY <1>8, <1>9 DEF Relaying!Report

LEMMA DispatcherSteps ==
  ASSUME RelayInv, Relaying!DispatcherDies
  PROVE  RelayInv'
<1>1. /\ slots' = 0 /\ jobs' = [e \in Effects |-> "none"]
      /\ worker' = IF worker.at = "sending" THEN [worker EXCEPT !.at = "continue"] ELSE worker
      /\ UNCHANGED <<call, journal, used, taken>>
  BY DEF Relaying!DispatcherDies
<1>2. worker \in Carriers /\ used \subseteq Effects
  BY DEF RelayInv, SlotsSound
<1>3. worker' \in Carriers /\ Carrying(worker') = 0
  BY <1>1, <1>2 DEF Carriers, Carrying
<1>4. Out(jobs') = {} /\ Cardinality({}) = 0
  BY <1>1, FS_EmptySet DEF Out
<1>5. SlotsSound(jobs', slots', worker', used')
  BY <1>1, <1>2, <1>3, <1>4, RelayNumbers DEF SlotsSound, Stages
<1> QED
  BY <1>1, <1>5 DEF RelayInv

(* The worker carries on; the jobs of the dispatcher stay.                 *)
LEMMA WorkerMoves ==
  ASSUME RelayInv, UNCHANGED jobs, worker' \in Carriers, used' \in SUBSET Effects,
         used \subseteq used', slots' \in 0..MaxJobs,
         slots' + Carrying(worker) = slots + Carrying(worker')
  PROVE  SlotsSound(jobs', slots', worker', used')
<1>1. /\ slots = Cardinality(Out(jobs)) + Carrying(worker) /\ slots \in 0..MaxJobs
      /\ jobs \in [Effects -> Stages] /\ \A e \in Effects : jobs[e] # "none" => e \in used
  BY DEF RelayInv, SlotsSound
<1>2. Carrying(worker) \in {0, 1} /\ Carrying(worker') \in {0, 1}
  BY DEF Carrying
<1>3. slots' = Cardinality(Out(jobs)) + Carrying(worker')
  BY <1>1, <1>2, RelayNumbers, OutIsFinite
<1> QED
  BY <1>1, <1>3 DEF SlotsSound

LEMMA IngestSteps ==
  ASSUME RelayInv, NEW id \in Effects, Relaying!Ingest(id)
  PROVE  RelayInv' /\ (used' # used \/ UNCHANGED <<jobs, worker>>)
<1>1. CASE Relaying!Room
  <2>1. /\ worker = Relaying!Idle /\ used' = used \union {id} /\ id \notin used
        /\ journal' = Relaying!Kept \union {Relaying!Prepared(id, "glare")}
        /\ call' = Relaying!Swept /\ worker' = [id |-> id, at |-> "send", ok |-> FALSE]
        /\ UNCHANGED <<jobs, slots, taken>>
    BY <1>1 DEF Relaying!Ingest
  <2>2. /\ worker' \in Carriers /\ Carrying(worker') = 0 /\ Carrying(worker) = 0
        /\ slots \in 0..MaxJobs /\ used' \in SUBSET Effects /\ used \subseteq used'
    BY <2>1 DEF Carriers, Carrying, RelayInv, SlotsSound, Relaying!Idle
  <2>3. SlotsSound(jobs', slots', worker', used')
    BY <2>1, <2>2, WorkerMoves
  <2>4. call' \in RelayCalls /\ JournalFits(journal')
    BY <1>1, <2>1, SweptFits, KeptFits
  <2> QED
    BY <2>1, <2>3, <2>4 DEF RelayInv
<1>2. CASE ~Relaying!Room
  <2>1. /\ journal' = Relaying!Kept /\ call' = Relaying!Over(Relaying!Swept)
        /\ UNCHANGED <<used, jobs, slots, worker, taken>>
    BY <1>2 DEF Relaying!Ingest
  <2>2. call' \in RelayCalls /\ JournalFits(journal')
    BY <2>1, SweptFits, KeptFits
  <2> QED
    BY <2>1, <2>2, SlotsStay
<1> QED
  BY <1>1, <1>2

LEMMA WorkerSteps ==
  ASSUME RelayInv,
         \/ Relaying!WorkerSends \/ Relaying!WorkerDies
         \/ \E ok \in BOOLEAN : Relaying!WorkerHears(ok)
  PROVE  RelayInv'
<1>1. /\ UNCHANGED <<call, journal, used, jobs, taken>> /\ used' \in SUBSET Effects
      /\ used \subseteq used' /\ worker \in Carriers /\ slots \in 0..MaxJobs
      /\ Carrying(worker) <= slots
  <2>1. /\ slots = Cardinality(Out(jobs)) + Carrying(worker) /\ worker \in Carriers
        /\ slots \in 0..MaxJobs /\ used \subseteq Effects
    BY DEF RelayInv, SlotsSound
  <2>2. Carrying(worker) \in {0, 1}
    BY DEF Carrying
  <2>3. UNCHANGED <<call, journal, used, jobs, taken>>
    BY DEF Relaying!WorkerSends, Relaying!WorkerDies, Relaying!WorkerHears
  <2> QED
    BY <2>1, <2>2, <2>3, OutIsFinite
<1>2. /\ worker' \in Carriers /\ slots' \in 0..MaxJobs
      /\ slots' + Carrying(worker) = slots + Carrying(worker')
  <2>1. CASE Relaying!WorkerSends
    BY <1>1, <2>1, RelayNumbers DEF Relaying!WorkerSends, Carriers, Carrying
  <2>2. CASE Relaying!WorkerDies
    BY <1>1, <2>2, RelayNumbers DEF Relaying!WorkerDies, Relaying!Idle, Carriers, Carrying
  <2>3. ASSUME NEW ok \in BOOLEAN, Relaying!WorkerHears(ok)
        PROVE  /\ worker' \in Carriers /\ slots' \in 0..MaxJobs
               /\ slots' + Carrying(worker) = slots + Carrying(worker')
    <3>1. /\ worker.at = "sending" /\ slots' = slots - 1
          /\ worker' = [worker EXCEPT !.at = "continue", !.ok = ok]
      BY <2>3 DEF Relaying!WorkerHears
    <3>2. worker' \in Carriers /\ worker'.at = "continue"
      BY <1>1, <3>1 DEF Carriers
    <3>3. Carrying(worker) = 1 /\ Carrying(worker') = 0
      BY <3>1, <3>2 DEF Carrying
    <3> QED
      BY <1>1, <3>1, <3>2, <3>3, RelayNumbers
  <2> QED
    BY <2>1, <2>2, <2>3
<1>3. SlotsSound(jobs', slots', worker', used')
  BY <1>1, <1>2, WorkerMoves
<1> QED
  BY <1>1, <1>3 DEF RelayInv

LEMMA ContinueSteps ==
  ASSUME RelayInv, Relaying!Continue
  PROVE  RelayInv' /\ OwnResult
<1>1. /\ worker.at = "continue" /\ worker' = Relaying!Idle /\ UNCHANGED <<used, jobs, slots>>
      /\ \/ UNCHANGED <<call, journal, taken>>
         \/ \E e \in Relaying!Found(worker.id) :
              /\ call' = IF Relaying!Swept.st = "none" THEN Relaying!Swept
                         ELSE Relaying!Completed(e, worker.ok)
              /\ journal' = Relaying!Kept \ {e}
              /\ taken' = (taken \/ (worker.ok /\ Relaying!Swept.st # "none" /\ Relaying!Concerns(e)))
  BY DEF Relaying!Continue
<1>2. /\ worker' \in Carriers /\ Carrying(worker') = 0 /\ Carrying(worker) = 0
      /\ slots \in 0..MaxJobs /\ used' \in SUBSET Effects /\ used \subseteq used'
  BY <1>1 DEF Carriers, Carrying, RelayInv, SlotsSound, Relaying!Idle
<1>3. SlotsSound(jobs', slots', worker', used')
  BY <1>1, <1>2, WorkerMoves
<1>4. CASE UNCHANGED <<call, journal, taken>>
  BY <1>1, <1>3, <1>4 DEF RelayInv, OwnResult, Relaying!Active
<1>5. ASSUME NEW e \in Relaying!Found(worker.id),
             call' = IF Relaying!Swept.st = "none" THEN Relaying!Swept
                     ELSE Relaying!Completed(e, worker.ok),
             journal' = Relaying!Kept \ {e}, taken' \in BOOLEAN
      PROVE  RelayInv' /\ OwnResult
  <2>1. e \in journal
    BY DEF Relaying!Found
  <2>2. call' \in RelayCalls /\ JournalFits(journal')
    BY <1>5, SweptFits, KeptFits
  <2>3. OwnResult
    BY <1>5, <2>1, ResultIsOwn
  <2> QED
    BY <1>3, <1>5, <2>2, <2>3 DEF RelayInv
<1>6. \A e : (taken \/ (worker.ok /\ Relaying!Swept.st # "none" /\ Relaying!Concerns(e))) \in BOOLEAN
  OBVIOUS
<1> QED
  BY <1>1, <1>4, <1>5, <1>6

LEMMA RelayNext ==
  ASSUME RelayInv, Relaying!Next
  PROVE  /\ RelayInv'
         /\ used' = used /\ <<jobs, worker>>' # <<jobs, worker>> => OwnResult
<1>1. CASE \/ Relaying!Invite \/ (\E expired \in BOOLEAN : Relaying!Alarm(expired))
           \/ (\E e \in journal : Relaying!DeadlinePasses(e))
  <2>1. RelayInv'
    BY <1>1, InviteSteps, AlarmSteps, DeadlineSteps
  <2>2. UNCHANGED <<jobs, worker>>
    BY <1>1 DEF Relaying!Invite, Relaying!Alarm, Relaying!DeadlinePasses
  <2> QED
    BY <2>1, <2>2
<1>2. CASE \/ \E id \in Effects, type \in {"offer", "accept", "hangup"}, heard \in BOOLEAN :
                Relaying!Frame(id, type, heard)
           \/ \E id \in Effects : Relaying!Ingest(id)
  <2>1. RelayInv'
    BY <1>2, FrameSteps, IngestSteps
  <2>2. \A id, type, heard : Relaying!Frame(id, type, heard) => used' # used
    BY DEF Relaying!Frame
  <2>3. used' # used \/ UNCHANGED <<jobs, worker>>
    BY <1>2, <2>2, IngestSteps
  <2> QED
    BY <2>1, <2>3
<1>3. CASE \/ Relaying!DispatcherDies \/ (\E id \in Effects, ok \in BOOLEAN : Relaying!Send(id, ok))
           \/ Relaying!WorkerSends \/ Relaying!WorkerDies
           \/ \E ok \in BOOLEAN : Relaying!WorkerHears(ok)
  <2>1. RelayInv'
    BY <1>3, DispatcherSteps, SendSteps, WorkerSteps
  <2>2. call' = call
    BY <1>3 DEF Relaying!DispatcherDies, Relaying!Send, Relaying!WorkerSends,
                Relaying!WorkerDies, Relaying!WorkerHears
  <2> QED
    BY <2>1, <2>2 DEF OwnResult, Relaying!Active
<1>4. CASE Relaying!Continue \/ (\E id \in Effects, arrives \in BOOLEAN : Relaying!Report(id, arrives))
  BY <1>4, ContinueSteps, ReportSteps
<1> QED
  BY <1>1, <1>2, <1>3, <1>4 DEF Relaying!Next

-----------------------------------------------------------------------------
(* The stream.  The inductive invariant.                                   *)

Frames == [t : {"event", "resync", "hello_ok"}, id : Nat]
Clients == [st : {"idle", "config", "ticket", "opening", "open", "waiting", "unavailable"},
            ticket : Nat, last : 0..Stream!Undefined,
            greeted : BOOLEAN, early : BOOLEAN, base : BOOLEAN]

(* An id of an event that the browser may have been told.                  *)
LastFits(l) == l \in 0..seq \/ l = Stream!Undefined
Got(n) == 1..n \subseteq known \union skipped
(* The browser has been greeted before: the events up to the last it names *)
(* are accounted for.                                                      *)
Relies == client.base

BufferIs == buffer = {i \in 1..seq : i + Retain > seq}

DownFits(under, n) ==
  /\ under \in Seq(Frames)
  /\ \A i \in 1..Len(under) : under[i].t = "event" => under[i].id \in 1..n
TicketsFit(out, n) ==
  /\ IsFiniteSet(out) /\ Cardinality(out) <= MaxOutstanding
  /\ n \in 0..MaxTickets /\ out \subseteq 1..n

StreamTypes ==
  /\ seq \in 0..MaxEvents /\ BufferIs
  /\ TicketsFit(tickets, minted)
  /\ skipped \subseteq 1..seq /\ known \subseteq 1..seq /\ client \in Clients
  /\ socket \in BOOLEAN /\ (socket <=> client.st = "open")
  /\ LastFits(client.last) /\ (client.base => client.last \in 0..seq)
  /\ DownFits(down, seq)

(* Without a socket nothing is under way.                                  *)
Away == hello = <<>> /\ down = <<>> /\ (Relies => Got(client.last))

(* The hello is under way, and what was sent meanwhile are new events.     *)
Unheard ==
  /\ Len(hello) = 1 /\ hello = <<hello[1]>> /\ LastFits(hello[1])
  /\ client.base => hello[1] \in 0..seq
  /\ Relies => Got(hello[1])
  /\ Relies /\ ~client.early => Got(client.last)
  /\ \A i \in 1..Len(down) : down[i].t = "event"

(* The hello_ok is under way, at k: before it, what the browser missed or  *)
(* the word that it has to fetch; after it, the events since.              *)
GreetingAt(k) ==
  LET s == down[k].id IN
  /\ k \in 1..Len(down) /\ down[k].t = "hello_ok" /\ s + (Len(down) - k) = seq
  /\ client.last \in 0..s \/ client.last = Stream!Undefined
  /\ \A i \in 1..(k - 1) : /\ down[i].t # "hello_ok"
                           /\ down[i].t = "event" => down[i].id \in 1..s
  /\ \A i \in (k + 1)..Len(down) : down[i] = Stream!Event(s + (i - k))
  /\ Relies => \/ \E i \in 1..(k - 1) : down[i].t = "resync"
               \/ \A n \in 1..s : n \in known \union skipped \/ \E i \in 1..(k - 1) : down[i] = Stream!Event(n)

Heard ==
  /\ hello = <<>> /\ (Relies /\ ~client.early => Got(client.last))
  /\ \E k \in 1..Len(down) : GreetingAt(k)

(* What is under way is what the browser has not got.                      *)
Greeted ==
  /\ hello = <<>> /\ client.base /\ Got(client.last)
  /\ client.last + Len(down) = seq
  /\ \A i \in 1..Len(down) : down[i] = Stream!Event(client.last + i)

StreamInv ==
  /\ StreamTypes
  /\ client.st # "open" => Away
  /\ client.st = "open" /\ ~client.greeted => Unheard \/ Heard
  /\ client.st = "open" /\ client.greeted => Greeted

LEMMA StreamNumbers ==
  /\ Retain \in Nat /\ MaxEvents \in Nat /\ MaxTickets \in Nat /\ MaxDown \in Nat
  /\ MaxOutstanding \in Nat /\ 0 < MaxOutstanding
  /\ Stream!Undefined = MaxEvents + 1
BY StreamAssumption DEF Stream!Undefined

LEMMA StreamCounts == \A S : Stream!Cardinality(S) = Cardinality(S)
BY DEF Stream!Cardinality, Cardinality

LEMMA EventIs ==
  \A n \in Nat : /\ Stream!Event(n) \in Frames /\ Stream!Event(n).id = n
                 /\ Stream!Event(n).t = "event"
BY DEF Stream!Event, Frames

LEMMA UnstartedIs ==
  /\ Stream!Unstarted \in Clients /\ Stream!Unstarted.st = "idle"
  /\ Stream!Unstarted.last = Stream!Undefined /\ ~Stream!Unstarted.base
BY StreamNumbers DEF Stream!Unstarted, Clients

LEMMA NothingFits == \A n : DownFits(<<>>, n)
BY DEF DownFits

LEMMA StreamInit == Stream!Init => StreamInv
<1> SUFFICES ASSUME Stream!Init PROVE StreamInv
  OBVIOUS
<1>1. /\ seq = 0 /\ buffer = {} /\ tickets = {} /\ minted = 0 /\ socket = FALSE
      /\ hello = <<>> /\ down = <<>> /\ client = Stream!Unstarted /\ known = {} /\ skipped = {}
  BY DEF Stream!Init
<1>2. IsFiniteSet(tickets) /\ Cardinality(tickets) <= MaxOutstanding
  BY <1>1, FS_EmptySet, StreamNumbers
<1>3. StreamTypes
  <2>1. BufferIs
    BY <1>1 DEF BufferIs
  <2>2. DownFits(down, seq)
    BY <1>1, NothingFits
  <2>3. seq \in 0..MaxEvents /\ minted \in 0..MaxTickets
    BY <1>1, StreamNumbers
  <2> QED
    BY <1>1, <1>2, <2>1, <2>2, <2>3, UnstartedIs DEF StreamTypes, LastFits, TicketsFit
<1> QED
  BY <1>1, <1>3, UnstartedIs DEF StreamInv, Away, Relies

LEMMA StreamFollows ==
  ASSUME StreamInv
  PROVE  Stream!TypeOK /\ Stream!CaughtUp
<1>1. Cardinality(buffer) <= Retain
  <2> DEFINE low == IF seq >= Retain THEN seq - Retain + 1 ELSE 1
  <2>1. seq \in Nat /\ Retain \in Nat /\ low \in Int
    BY StreamNumbers DEF StreamInv, StreamTypes
  <2>2. buffer = low..seq
    BY <2>1 DEF StreamInv, StreamTypes, BufferIs
  <2>3. Cardinality(low..seq) = IF low > seq THEN 0 ELSE seq - low + 1
    BY <2>1, FS_Interval
  <2> QED
    BY <2>1, <2>2, <2>3
<1>2. Stream!TypeOK
  <2>1. /\ seq \in 0..MaxEvents /\ buffer \subseteq 1..seq /\ minted \in 0..MaxTickets
        /\ socket \in BOOLEAN /\ skipped \subseteq 1..seq /\ known \subseteq 1..MaxEvents
        /\ client.last \in 0..Stream!Undefined
    BY StreamNumbers DEF StreamInv, StreamTypes, BufferIs, Clients, TicketsFit
  <2>2. Stream!Cardinality(buffer) <= Retain /\ Stream!Cardinality(tickets) <= MaxOutstanding
    BY <1>1, StreamCounts DEF StreamInv, StreamTypes, TicketsFit
  <2> QED
    BY <2>1, <2>2 DEF Stream!TypeOK
<1>3. Stream!CaughtUp
  <2> SUFFICES ASSUME client.st = "open", client.greeted, down = <<>>
               PROVE  1..seq \subseteq known \union skipped
    BY DEF Stream!CaughtUp
  <2>1. /\ Got(client.last) /\ client.last + Len(down) = seq
        /\ client.last \in 0..seq
    BY DEF StreamInv, StreamTypes, Greeted
  <2> QED
    BY <2>1 DEF Got
<1> QED
  BY <1>2, <1>3

-----------------------------------------------------------------------------
(* The steps that leave the stream where it is.                            *)

LEMMA TicketsMade ==
  ASSUME StreamInv, minted < MaxTickets
  PROVE  TicketsFit(Stream!Minted, minted + 1)
<1> DEFINE kept == IF Stream!Cardinality(tickets) < MaxOutstanding THEN tickets
                   ELSE tickets \ {Stream!Oldest}
<1>1. /\ IsFiniteSet(tickets) /\ Cardinality(tickets) \in Nat
      /\ Cardinality(tickets) <= MaxOutstanding
      /\ minted \in 0..MaxTickets /\ tickets \subseteq 1..minted
  BY FS_CardinalityType DEF StreamInv, StreamTypes, TicketsFit
<1>2. /\ IsFiniteSet(kept) /\ Cardinality(kept) < MaxOutstanding /\ kept \subseteq tickets
  <2>1. CASE Cardinality(tickets) < MaxOutstanding
    BY <1>1, <2>1, StreamCounts
  <2>2. CASE ~(Cardinality(tickets) < MaxOutstanding)
    <3>1. kept = tickets \ {Stream!Oldest}
      BY <2>2, StreamCounts
    <3>2. tickets # {} /\ Cardinality(tickets) = MaxOutstanding
      BY <1>1, <2>2, StreamNumbers, FS_EmptySet
    <3>3. Stream!Oldest \in tickets
      <4>1. PICK t \in tickets : \A u \in tickets : t <= u
        <5>1. tickets \in SUBSET Nat
          BY <1>1
        <5> QED
          BY <3>2, <5>1, NatHasLeast
      <4> QED
        BY <4>1 DEF Stream!Oldest
    <3>4. /\ IsFiniteSet(tickets \ {Stream!Oldest})
          /\ Cardinality(tickets \ {Stream!Oldest}) = Cardinality(tickets) - 1
      BY <1>1, <3>3, FS_RemoveElement
    <3> HIDE DEF kept
    <3>5. Cardinality(kept) = MaxOutstanding - 1
      BY <3>1, <3>2, <3>4
    <3> QED
      BY <3>1, <3>4, <3>5, StreamNumbers
  <2> QED
    BY <2>1, <2>2
<1> HIDE DEF kept
<1>3. minted + 1 \notin kept
  BY <1>1, <1>2
<1>4. /\ IsFiniteSet(kept \union {minted + 1}) /\ Cardinality(kept) \in Nat
      /\ Cardinality(kept \union {minted + 1}) = Cardinality(kept) + 1
  BY <1>2, <1>3, FS_AddElement, FS_CardinalityType
<1>5. kept \union {minted + 1} \subseteq 1..(minted + 1)
  BY <1>1, <1>2
<1>6. TicketsFit(kept \union {minted + 1}, minted + 1)
  BY <1>1, <1>2, <1>4, <1>5, StreamNumbers DEF TicketsFit
<1> QED
  BY <1>6 DEF Stream!Minted, kept

LEMMA TicketsGo ==
  ASSUME StreamInv, NEW t
  PROVE  TicketsFit(tickets \ {t}, minted)
<1>1. TicketsFit(tickets, minted)
  BY DEF StreamInv, StreamTypes
<1>2. /\ IsFiniteSet(tickets \ {t}) /\ Cardinality(tickets \ {t}) <= Cardinality(tickets)
      /\ Cardinality(tickets) \in Nat /\ Cardinality(tickets \ {t}) \in Nat
  <2>1. tickets \ {t} \subseteq tickets /\ IsFiniteSet(tickets)
    BY <1>1 DEF TicketsFit
  <2> QED
    BY <2>1, FS_Subset, FS_CardinalityType
<1>3. tickets \ {t} \subseteq 1..minted /\ minted \in 0..MaxTickets
  BY <1>1 DEF TicketsFit
<1>4. Cardinality(tickets \ {t}) <= MaxOutstanding
  BY <1>1, <1>2, StreamNumbers DEF TicketsFit
<1> QED
  BY <1>2, <1>3, <1>4 DEF TicketsFit

(* Only the tickets change.                                                *)
LEMMA TicketSteps ==
  ASSUME StreamInv, Stream!OtherMints \/ Stream!TicketExpires
  PROVE  StreamInv'
<1>1. /\ TicketsFit(tickets', minted')
      /\ UNCHANGED <<seq, buffer, socket, hello, down, client, known, skipped>>
  <2>1. CASE Stream!OtherMints
    BY <2>1, TicketsMade DEF Stream!OtherMints
  <2>2. CASE Stream!TicketExpires
    BY <2>2, TicketsGo DEF Stream!TicketExpires
  <2> QED
    BY <2>1, <2>2
<1>2. StreamTypes'
  BY <1>1 DEF StreamInv, StreamTypes, BufferIs, LastFits
<1>3. (Away => Away') /\ (Unheard => Unheard') /\ (Greeted => Greeted')
  BY <1>1 DEF Away, Unheard, Greeted, Relies, Got, LastFits
<1>4. Heard => Heard'
  <2>1. \A k : GreetingAt(k) => GreetingAt(k)'
    BY <1>1 DEF GreetingAt, Relies
  <2> QED
    BY <1>1, <2>1 DEF Heard, Relies, Got
<1> QED
  BY <1>1, <1>2, <1>3, <1>4 DEF StreamInv

(* Whatever the browser does on its way to a socket.                       *)
LEMMA BrowserMoves ==
  ASSUME StreamInv, UNCHANGED <<seq, buffer, socket, hello, down, known, skipped>>,
         client.st # "open", client' \in Clients, client'.st # "open",
         client'.last = client.last, client'.base = client.base,
         TicketsFit(tickets', minted')
  PROVE  StreamInv'
<1>1. StreamTypes'
  BY DEF StreamInv, StreamTypes, BufferIs, LastFits
<1> QED
  BY <1>1 DEF StreamInv, Away, Relies, Got

LEMMA BecomeIs ==
  ASSUME StreamInv, NEW st \in {"idle", "config", "ticket", "opening", "waiting", "unavailable"},
         Stream!Become(st)
  PROVE  /\ client' \in Clients /\ client'.st = st
         /\ client'.last = client.last /\ client'.base = client.base
         /\ client'.early = client.early /\ client'.greeted = client.greeted
BY DEF StreamInv, StreamTypes, Clients, Stream!Become

LEMMA OutsideSteps ==
  ASSUME StreamInv,
         \/ Stream!Start \/ Stream!Reconnect
         \/ \E a \in {"available", "unavailable", "failed"} : Stream!Configured(a)
         \/ \E a \in {"ok", "unauthorized", "failed"} : Stream!Ticketed(a)
  PROVE  StreamInv'
<1>1. TicketsFit(tickets, minted) /\ client \in Clients /\ minted \in 0..MaxTickets
  BY DEF StreamInv, StreamTypes, TicketsFit
<1>2. CASE Stream!Start \/ Stream!Reconnect
  <2>1. /\ Stream!Become("config") /\ client.st # "open"
        /\ UNCHANGED <<seq, buffer, tickets, minted, socket, hello, down, known, skipped>>
    BY <1>2 DEF Stream!Start, Stream!Reconnect, Stream!server
  <2> QED
    BY <1>1, <2>1, BecomeIs, BrowserMoves
<1>3. ASSUME NEW a, Stream!Configured(a) PROVE StreamInv'
  <2>1. /\ \/ Stream!Become("ticket") \/ Stream!Become("waiting") \/ Stream!Become("unavailable")
        /\ client.st # "open"
        /\ UNCHANGED <<seq, buffer, tickets, minted, socket, hello, down, known, skipped>>
    BY <1>3 DEF Stream!Configured, Stream!Become, Stream!server
  <2> QED
    BY <1>1, <2>1, BecomeIs, BrowserMoves
<1>4. ASSUME NEW a \in {"ok", "unauthorized", "failed"}, Stream!Ticketed(a) PROVE StreamInv'
  <2>1. client.st # "open" /\ UNCHANGED <<seq, buffer, socket, hello, down, known, skipped>>
    BY <1>4 DEF Stream!Ticketed
  <2>2. CASE a = "ok"
    <3>1. /\ minted < MaxTickets /\ minted' = minted + 1 /\ tickets' = Stream!Minted
          /\ client' = [client EXCEPT !.st = "opening", !.ticket = minted + 1]
      BY <1>4, <2>2 DEF Stream!Ticketed
    <3>2. minted + 1 \in Nat
      BY <1>1, StreamNumbers
    <3>3. /\ client' \in Clients /\ client'.st = "opening"
          /\ client'.last = client.last /\ client'.base = client.base
      BY <1>1, <3>1, <3>2 DEF Clients
    <3> QED
      BY <2>1, <3>1, <3>3, TicketsMade, BrowserMoves
  <2>3. CASE a # "ok"
    <3>1. /\ Stream!Become("waiting") \/ Stream!Become("unavailable")
          /\ UNCHANGED <<tickets, minted>>
      BY <1>4, <2>3 DEF Stream!Ticketed
    <3> QED
      BY <1>1, <2>1, <3>1, BecomeIs, BrowserMoves
  <2> QED
    BY <2>2, <2>3
<1> QED
  BY <1>2, <1>3, <1>4

LEMMA StopSteps ==
  ASSUME StreamInv, Stream!Stop
  PROVE  StreamInv'
<1>1. /\ client' = Stream!Unstarted /\ socket' = FALSE /\ hello' = <<>> /\ down' = <<>>
      /\ known' = {} /\ skipped' = {} /\ UNCHANGED <<seq, buffer, tickets, minted>>
  BY DEF Stream!Stop, Stream!server
<1>2. StreamTypes'
  <2>1. DownFits(down', seq')
    BY <1>1, NothingFits
  <2> QED
    BY <1>1, <2>1, UnstartedIs DEF StreamInv, StreamTypes, BufferIs, LastFits
<1> QED
  BY <1>1, <1>2, UnstartedIs DEF StreamInv, Away, Relies

LEMMA OpensSteps ==
  ASSUME StreamInv, Stream!Opens
  PROVE  StreamInv'
<1>1. /\ client.st = "opening" /\ tickets' = tickets \ {client.ticket}
      /\ UNCHANGED <<seq, buffer, minted, down, known, skipped>>
      /\ StreamTypes /\ Away
  BY DEF Stream!Opens, StreamInv
<1>2. TicketsFit(tickets', minted')
  BY <1>1, TicketsGo
<1>3. CASE client.ticket \notin tickets
  <2>1. Stream!Become("waiting") /\ UNCHANGED <<socket, hello>>
    BY <1>3 DEF Stream!Opens
  <2> QED
    BY <1>1, <1>2, <2>1, BecomeIs, BrowserMoves
<1>4. CASE client.ticket \in tickets
  <2>1. /\ socket' = TRUE /\ hello' = <<client.last>>
        /\ client' = [client EXCEPT !.st = "open", !.greeted = FALSE, !.early = FALSE]
    BY <1>4 DEF Stream!Opens
  <2>2. /\ client' \in Clients /\ client'.st = "open" /\ ~client'.greeted
        /\ client'.last = client.last /\ client'.base = client.base
    BY <1>1, <2>1 DEF StreamTypes, Clients
  <2>3. StreamTypes'
    BY <1>1, <1>2, <2>1, <2>2 DEF StreamTypes, BufferIs, LastFits
  <2>4. Unheard'
    <3>1. Len(hello') = 1 /\ hello'[1] = client.last /\ Len(down') = 0
      BY <1>1, <2>1 DEF Away
    <3>2. (Relies => Got(client.last)) /\ Relies' = Relies /\ known' = known
      BY <1>1, <2>2 DEF Away, Relies
    <3> QED
      BY <1>1, <2>1, <2>2, <3>1, <3>2 DEF Unheard, StreamTypes, LastFits, Got
  <2> QED
    BY <2>2, <2>3, <2>4 DEF StreamInv
<1> QED
  BY <1>3, <1>4

LEMMA DropSteps ==
  ASSUME StreamInv, Stream!Drop
  PROVE  StreamInv'
<1>1. /\ client.st = "open" /\ Stream!Become("waiting")
      /\ socket' = FALSE /\ hello' = <<>> /\ down' = <<>>
      /\ skipped' = IF client.base /\ client.early /\ ~client.greeted
                      THEN skipped \union ((1..client.last) \ known) ELSE skipped
      /\ UNCHANGED <<seq, buffer, tickets, minted, known>> /\ StreamTypes
  BY DEF Stream!Drop, Stream!server, StreamInv
<1>2. /\ client' \in Clients /\ client'.st = "waiting"
      /\ client'.last = client.last /\ client'.base = client.base
  BY <1>1, BecomeIs
<1>3. skipped \subseteq skipped' /\ skipped' \subseteq 1..seq
  <2>1. client.base => (1..client.last) \ known \subseteq 1..seq
    <3>1. seq \in Nat /\ (client.base => client.last \in 0..seq)
      BY <1>1, StreamNumbers DEF StreamTypes
    <3> QED
      BY <3>1
  <2>2. skipped \subseteq 1..seq
    BY <1>1 DEF StreamTypes
  <2> QED
    BY <1>1, <2>1, <2>2
<1>4. StreamTypes'
  <2>1. DownFits(down', seq')
    BY <1>1, NothingFits
  <2> QED
    BY <1>1, <1>2, <1>3, <2>1 DEF StreamTypes, BufferIs, LastFits
<1>5. Away'
  <2> SUFFICES ASSUME client.base PROVE 1..client.last \subseteq known \union skipped'
    BY <1>1, <1>2 DEF Away, Relies, Got
  <2>1. CASE client.early /\ ~client.greeted
    BY <1>1, <2>1
  <2>2. CASE client.greeted \/ ~client.early
    <3>1. Got(client.last)
      BY <1>1, <2>2 DEF StreamInv, Unheard, Heard, Greeted, Relies
    <3> QED
      BY <1>3, <3>1 DEF Got
  <2>3. client.early \in BOOLEAN /\ client.greeted \in BOOLEAN
    BY <1>1 DEF StreamTypes, Clients
  <2> QED
    BY <2>1, <2>2, <2>3
<1> QED
  BY <1>2, <1>4, <1>5 DEF StreamInv

-----------------------------------------------------------------------------
(* The steps of the stream.                                                *)

LEMMA EventAppended ==
  ASSUME DownFits(down, seq), seq \in Nat
  PROVE  /\ DownFits(Append(down, Stream!Event(seq + 1)), seq + 1)
         /\ Len(Append(down, Stream!Event(seq + 1))) = Len(down) + 1
         /\ \A i \in 1..Len(down) : Append(down, Stream!Event(seq + 1))[i] = down[i]
         /\ Append(down, Stream!Event(seq + 1))[Len(down) + 1] = Stream!Event(seq + 1)
<1> DEFINE e == Stream!Event(seq + 1)
           next == Append(down, e)
<1>1. e \in Frames /\ e.id = seq + 1 /\ e.t = "event"
  BY EventIs
<1>2. down \in Seq(Frames) /\ Len(down) \in Nat
  BY DEF DownFits
<1> HIDE DEF e
<1>3. /\ next \in Seq(Frames) /\ Len(next) = Len(down) + 1
      /\ \A i \in 1..Len(down) : next[i] = down[i]
      /\ next[Len(down) + 1] = e
  BY <1>1, <1>2
<1> HIDE DEF next
<1>4. ASSUME NEW i \in 1..Len(next), next[i].t = "event" PROVE next[i].id \in 1..(seq + 1)
  <2>1. CASE i \in 1..Len(down)
    <3>1. down[i].id \in 1..seq
      BY <1>3, <1>4, <2>1 DEF DownFits
    <3> QED
      BY <1>3, <2>1, <3>1
  <2>2. CASE i = Len(down) + 1
    BY <1>1, <1>3, <2>2
  <2> QED
    BY <1>2, <1>3, <2>1, <2>2
<1>5. DownFits(next, seq + 1)
  BY <1>3, <1>4 DEF DownFits
<1> QED
  BY <1>3, <1>5 DEF next, e

LEMMA EmitSteps ==
  ASSUME StreamInv, Stream!Emit
  PROVE  StreamInv'
<1>1. /\ seq < MaxEvents /\ seq' = seq + 1
      /\ buffer' = (buffer \union {seq + 1}) \ (IF seq + 1 > Retain THEN {seq + 1 - Retain} ELSE {})
      /\ down' = IF socket THEN down \o <<Stream!Event(seq + 1)>> ELSE down
      /\ UNCHANGED <<tickets, minted, socket, hello, client, known, skipped>>
      /\ StreamTypes /\ seq \in Nat
  BY StreamNumbers DEF Stream!Emit, Stream!Send, StreamInv, StreamTypes
<1>2. down \in Seq(Frames) /\ DownFits(down, seq)
  BY <1>1 DEF StreamTypes, DownFits
<1>3. socket => down' = Append(down, Stream!Event(seq + 1))
  <2>1. Stream!Event(seq + 1) \in Frames
    BY <1>1, EventIs
  <2> QED
    BY <1>1, <1>2, <2>1
<1>4. socket => /\ DownFits(down', seq') /\ Len(down') = Len(down) + 1
                /\ \A i \in 1..Len(down) : down'[i] = down[i]
                /\ down'[Len(down) + 1] = Stream!Event(seq + 1)
  BY <1>1, <1>2, <1>3, EventAppended
<1>5. StreamTypes'
  <2>1. BufferIs'
    BY <1>1, StreamNumbers DEF StreamTypes, BufferIs
  <2>2. DownFits(down', seq')
    <3>1. CASE ~socket
      BY <1>1, <1>2, <3>1 DEF DownFits
    <3> QED
      BY <1>4, <3>1
  <2>3. seq' \in 0..MaxEvents /\ 0..seq \subseteq 0..seq' /\ 1..seq \subseteq 1..seq'
    BY <1>1, StreamNumbers
  <2> QED
    BY <1>1, <2>1, <2>2, <2>3 DEF StreamTypes, LastFits
<1>6. CASE client.st # "open"
  <2>1. down' = down
    BY <1>1, <1>6 DEF StreamTypes
  <2> QED
    BY <1>1, <1>5, <1>6, <2>1 DEF StreamInv, Away, Relies, Got
<1>7. CASE client.st = "open"
  <2>1. /\ DownFits(down', seq') /\ Len(down') = Len(down) + 1 /\ Len(down) \in Nat
        /\ \A i \in 1..Len(down) : down'[i] = down[i]
        /\ down'[Len(down) + 1] = Stream!Event(seq + 1)
    BY <1>1, <1>2, <1>4, <1>7 DEF StreamTypes
  <2>2. Stream!Event(seq + 1).t = "event"
    BY <1>1, EventIs
  <2>6. seq' = seq + 1 /\ seq \in Nat /\ UNCHANGED <<tickets, minted, socket, hello, client, known, skipped>>
    BY <1>1
  <2>3. ASSUME Unheard PROVE Unheard'
    <3>1. \A i \in 1..Len(down') : down'[i].t = "event"
      BY <2>1, <2>2, <2>3 DEF Unheard
    <3>2. LastFits(hello[1])' /\ (client.base => hello[1] \in 0..seq')
      BY <1>1, <2>3, StreamNumbers DEF Unheard, LastFits
    <3> QED
      BY <1>1, <2>3, <3>1, <3>2 DEF Unheard, Relies, Got
  <2>4. ASSUME Heard PROVE Heard'
    <3>1. PICK k \in 1..Len(down) : GreetingAt(k)
      BY <2>4 DEF Heard
    <3> DEFINE s == down[k].id
    <3>2. /\ k \in Nat /\ 1 <= k /\ k <= Len(down) /\ s + (Len(down) - k) = seq /\ s \in Nat
      <4>1. down[k] \in Frames
        BY <1>2
      <4> QED
        BY <2>1, <3>1, <4>1 DEF GreetingAt, Frames
    <3>6. s + (Len(down') - k) = seq'
      <4> HIDE DEF s
      <4>1. /\ k \in Nat /\ s \in Nat /\ Len(down) \in Nat
            /\ Len(down') = Len(down) + 1 /\ s + (Len(down) - k) = seq
        BY <2>1, <3>2
      <4> QED
        BY <2>6, <4>1
    <3>3. /\ down'[k] = down[k] /\ k \in 1..Len(down')
          /\ \A i \in 1..(k - 1) : down'[i] = down[i]
      BY <2>1, <3>2
    <3>4. ASSUME NEW i \in (k + 1)..Len(down') PROVE down'[i] = Stream!Event(s + (i - k))
      <4>1. CASE i \in (k + 1)..Len(down)
        BY <2>1, <3>1, <3>2, <4>1 DEF GreetingAt
      <4>2. CASE i = Len(down) + 1
        <5>1. s + (i - k) = seq + 1
          BY <2>1, <2>6, <3>6, <4>2
        <5> QED
          BY <2>1, <4>2, <5>1
      <4>3. /\ i \in Nat /\ k \in Nat /\ Len(down) \in Nat
            /\ k + 1 <= i /\ i <= Len(down) + 1
        BY <2>1, <3>2
      <4>4. i \in (k + 1)..Len(down) \/ i = Len(down) + 1
        BY <4>3
      <4> QED
        BY <4>1, <4>2, <4>4
    <3>5. GreetingAt(k)'
      <4>1. \A i \in (k + 1)..Len(down') : down'[i] = Stream!Event(down'[k].id + (i - k))
        BY <3>3, <3>4
      <4>2. /\ down'[k].t = "hello_ok" /\ down'[k].id + (Len(down') - k) = seq'
            /\ client.last \in 0..down'[k].id \/ client.last = Stream!Undefined
        BY <3>1, <3>3, <3>6 DEF GreetingAt
      <4>3. \A i \in 1..(k - 1) : /\ down'[i].t # "hello_ok"
                                  /\ down'[i].t = "event" => down'[i].id \in 1..down'[k].id
        BY <3>1, <3>3 DEF GreetingAt
      <4>4. Relies => \/ \E i \in 1..(k - 1) : down'[i].t = "resync"
                      \/ \A n \in 1..down'[k].id :
                           n \in known \union skipped \/ \E i \in 1..(k - 1) : down'[i] = Stream!Event(n)
        BY <3>1, <3>3 DEF GreetingAt
      <4>5. Relies' = Relies
        BY <2>6 DEF Relies
      <4> QED
        BY <2>6, <3>3, <4>1, <4>2, <4>3, <4>4, <4>5 DEF GreetingAt
    <3> QED
      BY <2>4, <2>6, <3>3, <3>5 DEF Heard, Relies, Got
  <2>5. ASSUME Greeted PROVE Greeted'
    <3>1. client.last \in Nat /\ client.last + Len(down) = seq
      BY <1>1, <2>5 DEF Greeted, StreamTypes
    <3>2. client.last + Len(down') = seq'
      BY <1>1, <2>1, <3>1
    <3>3. ASSUME NEW i \in 1..Len(down') PROVE down'[i] = Stream!Event(client.last + i)
      <4>1. CASE i \in 1..Len(down)
        BY <2>1, <2>5, <4>1 DEF Greeted
      <4>2. CASE i = Len(down) + 1
        <5>1. client.last + i = seq + 1
          BY <2>1, <2>6, <3>1, <4>2
        <5> QED
          BY <2>1, <4>2, <5>1
      <4> QED
        BY <2>1, <4>1, <4>2
    <3> QED
      BY <1>1, <2>5, <3>2, <3>3 DEF Greeted, Got
  <2> QED
    BY <1>1, <1>5, <1>7, <2>3, <2>4, <2>5 DEF StreamInv
<1> QED
  BY <1>6, <1>7

-----------------------------------------------------------------------------
(* The answer to a hello.                                                  *)

(* Numbers in order are all of an interval.                                *)
LEMMA InOrderIs ==
  ASSUME NEW l \in Nat, NEW m \in Nat, l <= m
  PROVE  LET q == Stream!InOrder((l + 1)..m) IN
         /\ q \in [1..(m - l) -> (l + 1)..m]
         /\ \A n \in (l + 1)..m : \E i \in 1..(m - l) : q[i] = n
<1> DEFINE S == (l + 1)..m
           size == m - l
           Rising(q) == \A i, j \in DOMAIN q : i < j => q[i] < q[j]
           q == Stream!InOrder(S)
<1>1. IsFiniteSet(S) /\ Cardinality(S) = size /\ size \in Nat
  <2>1. /\ IsFiniteSet((l + 1)..m)
        /\ Cardinality((l + 1)..m) = IF l + 1 > m THEN 0 ELSE m - (l + 1) + 1
    <3>1. l + 1 \in Int /\ m \in Int
      OBVIOUS
    <3> QED
      BY <3>1, FS_Interval
  <2> QED
    BY <2>1
<1>2. q = CHOOSE f \in [1..size -> S] : Rising(f)
  BY <1>1, StreamCounts DEF Stream!InOrder
<1>3. \E f \in [1..size -> S] : Rising(f)
  <2>1. [i \in 1..size |-> l + i] \in [1..size -> S]
    OBVIOUS
  <2>2. Rising([i \in 1..size |-> l + i])
    OBVIOUS
  <2> QED
    BY <2>1, <2>2
<1> HIDE DEF Rising, q
<1>4. q \in [1..size -> S] /\ Rising(q)
  BY <1>2, <1>3
<1>5. q \in Injection(1..size, S)
  <2>1. ASSUME NEW i \in 1..size, NEW j \in 1..size, i # j PROVE q[i] # q[j]
    <3>1. i < j \/ j < i
      BY <1>1, <2>1
    <3>2. q[i] \in S /\ q[j] \in S /\ DOMAIN q = 1..size
      BY <1>4
    <3>3. q[i] < q[j] \/ q[j] < q[i]
      BY <1>4, <3>1, <3>2 DEF Rising
    <3> QED
      BY <3>2, <3>3
  <2> QED
    BY <1>4, <2>1 DEF Injection, IsInjective
<1>6. Cardinality(1..size) = size
  BY <1>1, FS_Interval
<1>7. q \in Surjection(1..size, S)
  BY <1>1, <1>5, <1>6, FS_Injection
<1>8. \A n \in S : \E i \in 1..size : q[i] = n
  BY <1>7 DEF Surjection
<1> QED
  BY <1>4, <1>8 DEF q

(* What goes before the hello_ok, for a browser that has named h.          *)
GapFits(g, h) ==
  /\ g \in Seq(Frames)
  /\ \A i \in 1..Len(g) : /\ g[i].t # "hello_ok"
                          /\ g[i].t = "event" => g[i].id \in 1..seq
  /\ \/ \E i \in 1..Len(g) : g[i].t = "resync"
     \/ \A n \in 1..seq : n <= h \/ \E i \in 1..Len(g) : g[i] = Stream!Event(n)

Gap(h) ==
  IF h >= seq THEN <<>>
  ELSE IF Stream!Replayable(h) THEN Stream!Replay(h) ELSE <<[t |-> "resync", id |-> 0]>>

LEMMA GapIs ==
  ASSUME StreamTypes, NEW h \in Nat
  PROVE  GapFits(Gap(h), h)
<1>1. seq \in Nat /\ buffer = {i \in 1..seq : i + Retain > seq} /\ Retain \in Nat
  BY StreamNumbers DEF StreamTypes, BufferIs
<1>2. CASE h >= seq
  <2>1. Gap(h) = <<>> /\ Len(<<>>) = 0
    BY <1>2 DEF Gap
  <2> QED
    BY <1>1, <1>2, <2>1 DEF GapFits
<1>3. CASE ~(h >= seq) /\ Stream!Replayable(h)
  <2>1. {i \in buffer : i > h} = (h + 1)..seq
    BY <1>1, <1>3 DEF Stream!Replayable, Stream!OldestBuffered
  <2> DEFINE q == Stream!InOrder((h + 1)..seq)
  <2>2. /\ q \in [1..(seq - h) -> (h + 1)..seq]
        /\ \A n \in (h + 1)..seq : \E i \in 1..(seq - h) : q[i] = n
    BY <1>1, <1>3, InOrderIs
  <2>3. Gap(h) = [i \in DOMAIN q |-> Stream!Event(q[i])]
    BY <1>3, <2>1 DEF Gap, Stream!Replay
  <2> HIDE DEF q
  <2>4. /\ Gap(h) = [i \in 1..(seq - h) |-> Stream!Event(q[i])]
        /\ seq - h \in Nat
    BY <1>1, <1>3, <2>2, <2>3
  <2>5. \A i \in 1..(seq - h) : /\ q[i] \in 1..seq /\ Stream!Event(q[i]) \in Frames
                                /\ Stream!Event(q[i]).t = "event" /\ Stream!Event(q[i]).id = q[i]
    BY <1>1, <2>2, EventIs
  <2>6. /\ Gap(h) \in Seq(Frames) /\ Len(Gap(h)) = seq - h
        /\ \A i \in 1..(seq - h) : Gap(h)[i] = Stream!Event(q[i])
    BY <2>4, <2>5
  <2>7. \A n \in 1..seq : n <= h \/ \E i \in 1..(seq - h) : Gap(h)[i] = Stream!Event(n)
    <3> TAKE n \in 1..seq
    <3>1. n <= h \/ n \in (h + 1)..seq
      BY <1>1
    <3> QED
      BY <2>2, <2>6, <3>1
  <2> QED
    BY <2>5, <2>6, <2>7 DEF GapFits
<1>4. CASE ~(h >= seq) /\ ~Stream!Replayable(h)
  <2> DEFINE f == [t |-> "resync", id |-> 0]
  <2>1. Gap(h) = <<f>> /\ f \in Frames /\ f.t = "resync"
    BY <1>4 DEF Gap, Frames
  <2> HIDE DEF f
  <2>2. Len(<<f>>) = 1 /\ <<f>>[1] = f /\ <<f>> \in Seq(Frames)
    BY <2>1
  <2> QED
    BY <2>1, <2>2 DEF GapFits
<1> QED
  BY <1>2, <1>3, <1>4

LEMMA AnswerIs ==
  ASSUME NEW d \in Seq(Frames), NEW g \in Seq(Frames), NEW x \in Frames
  PROVE  LET r == d \o (g \o <<x>>) IN
         /\ r \in Seq(Frames) /\ Len(r) = Len(d) + Len(g) + 1 /\ r[Len(r)] = x
         /\ \A i \in 1..Len(d) : r[i] = d[i]
         /\ \A i \in 1..Len(g) : r[Len(d) + i] = g[i]
<1> DEFINE tail == g \o <<x>>
<1>1. /\ tail \in Seq(Frames) /\ Len(tail) = Len(g) + 1 /\ tail[Len(g) + 1] = x
      /\ \A i \in 1..Len(g) : tail[i] = g[i]
  OBVIOUS
<1> HIDE DEF tail
<1>2. /\ d \o tail \in Seq(Frames) /\ Len(d \o tail) = Len(d) + Len(tail)
      /\ \A i \in 1..Len(d) : (d \o tail)[i] = d[i]
      /\ \A i \in 1..Len(tail) : (d \o tail)[Len(d) + i] = tail[i]
  BY <1>1
<1>3. /\ Len(d) \in Nat /\ Len(g) \in Nat
  OBVIOUS
<1> QED
  BY <1>1, <1>2, <1>3 DEF tail

LEMMA HelloSteps ==
  ASSUME StreamInv, Stream!Hello
  PROVE  StreamInv'
<1> DEFINE h == hello[1]
           ok == [t |-> "hello_ok", id |-> seq]
           g == Gap(h)
<1>1. /\ hello # <<>> /\ hello' = Tail(hello)
      /\ UNCHANGED <<seq, buffer, tickets, minted, socket, client, known, skipped>>
      /\ down' = IF socket THEN down \o (Gap(Head(hello)) \o <<ok>>) ELSE down
  BY DEF Stream!Hello, Stream!Send, Gap
<1>2. client.st = "open" /\ ~client.greeted /\ Unheard /\ StreamTypes
  BY <1>1 DEF StreamInv, Away, Greeted, Heard
<1>3. hello = <<h>> /\ Head(hello) = h /\ hello' = <<>> /\ LastFits(h)
  <2>1. hello = <<h>>
    BY <1>2 DEF Unheard
  <2>2. Head(<<h>>) = h /\ Tail(<<h>>) = <<>>
    OBVIOUS
  <2> QED
    BY <1>1, <1>2, <2>1, <2>2 DEF Unheard
<1>4. seq \in Nat /\ h \in Nat /\ ok \in Frames /\ ok.t = "hello_ok" /\ ok.id = seq
  BY <1>2, <1>3, StreamNumbers DEF StreamTypes, LastFits, Frames
<1>5. GapFits(g, h)
  BY <1>2, <1>4, GapIs
<1>6. down' = down \o (g \o <<ok>>) /\ down \in Seq(Frames) /\ g \in Seq(Frames)
  BY <1>1, <1>2, <1>3, <1>5 DEF StreamTypes, DownFits, GapFits
<1> HIDE DEF g, h, ok
<1>7. /\ down' \in Seq(Frames) /\ Len(down') = Len(down) + Len(g) + 1 /\ down'[Len(down')] = ok
      /\ \A i \in 1..Len(down) : down'[i] = down[i]
      /\ \A i \in 1..Len(g) : down'[Len(down) + i] = g[i]
  BY <1>4, <1>6, AnswerIs
<1>8. Len(down) \in Nat /\ Len(g) \in Nat
  BY <1>6
<1> PICK k \in Nat : k = Len(down')
  BY <1>7, <1>8
<1>9. /\ k = Len(down') /\ k \in 1..Len(down') /\ k \in Nat
      /\ k - 1 = Len(down) + Len(g) /\ down'[k] = ok
  BY <1>7, <1>8
<1>10. ASSUME NEW i \in 1..(k - 1)
       PROVE  i \in 1..Len(down) \/ \E j \in 1..Len(g) : i = Len(down) + j
  <2>1. i \in Nat /\ 1 <= i /\ i <= Len(down) + Len(g)
    BY <1>9
  <2>2. CASE i <= Len(down)
    BY <2>1, <2>2, <1>8
  <2>3. CASE ~(i <= Len(down))
    <3>1. i - Len(down) \in 1..Len(g) /\ i = Len(down) + (i - Len(down))
      BY <2>1, <2>3, <1>8
    <3> QED
      BY <3>1
  <2> QED
    BY <2>2, <2>3
<1>11. ASSUME NEW i \in 1..(k - 1)
       PROVE  /\ down'[i].t # "hello_ok"
              /\ down'[i].t = "event" => down'[i].id \in 1..seq
  <2>1. CASE i \in 1..Len(down)
    BY <1>2, <1>7, <2>1 DEF Unheard, StreamTypes, DownFits
  <2>2. CASE \E j \in 1..Len(g) : i = Len(down) + j
    BY <1>5, <1>7, <2>2 DEF GapFits
  <2> QED
    BY <1>10, <2>1, <2>2
<1>12. DownFits(down', seq')
  <2>1. ASSUME NEW i \in 1..Len(down'), down'[i].t = "event" PROVE down'[i].id \in 1..seq
    <3>1. i = k \/ i \in 1..(k - 1)
      BY <1>9
    <3> QED
      BY <1>4, <1>9, <1>11, <2>1, <3>1
  <2> QED
    BY <1>1, <1>7, <2>1 DEF DownFits
<1>13. StreamTypes'
  BY <1>1, <1>2, <1>12 DEF StreamTypes, BufferIs, LastFits
<1>14. ASSUME NEW j \in 1..Len(g) PROVE Len(down) + j \in 1..(k - 1)
  BY <1>8, <1>9
<1>15. Relies => \/ \E i \in 1..(k - 1) : down'[i].t = "resync"
                 \/ \A n \in 1..seq : n \in known \union skipped \/ \E i \in 1..(k - 1) : down'[i] = Stream!Event(n)
  <2> SUFFICES ASSUME Relies, ~\E i \in 1..(k - 1) : down'[i].t = "resync", NEW n \in 1..seq
               PROVE  n \in known \union skipped \/ \E i \in 1..(k - 1) : down'[i] = Stream!Event(n)
    OBVIOUS
  <2>1. n <= h \/ \E j \in 1..Len(g) : g[j] = Stream!Event(n)
    <3>1. ~\E j \in 1..Len(g) : g[j].t = "resync"
      BY <1>7, <1>14
    <3> QED
      BY <1>5, <3>1 DEF GapFits
  <2>2. CASE n <= h
    <3>1. Got(h)
      BY <1>2 DEF Unheard, h
    <3> QED
      BY <1>4, <2>2, <3>1 DEF Got
  <2>3. CASE \E j \in 1..Len(g) : g[j] = Stream!Event(n)
    BY <1>7, <1>14, <2>3
  <2> QED
    BY <2>1, <2>2, <2>3
<1>16. GreetingAt(k)'
  <2>1. down'[k] = ok /\ down'[k].id = seq /\ k = Len(down')
    BY <1>4, <1>9
  <2>2. seq + (Len(down') - k) = seq
    BY <1>4, <1>9
  <2>3. ~\E i \in (k + 1)..Len(down') : TRUE
    BY <1>9
  <2>4. client.last \in 0..seq \/ client.last = Stream!Undefined
    BY <1>2 DEF StreamTypes, LastFits
  <2>5. Relies' = Relies
    BY <1>1 DEF Relies
  <2> QED
    BY <1>1, <1>4, <1>9, <1>11, <1>15, <2>1, <2>2, <2>3, <2>4, <2>5 DEF GreetingAt
<1>17. Heard'
  <2>1. Relies /\ ~client.early => Got(client.last)
    BY <1>2 DEF Unheard
  <2>2. \E x \in 1..Len(down') : GreetingAt(x)'
    BY <1>9, <1>16
  <2> QED
    BY <1>1, <1>3, <2>1, <2>2 DEF Heard, Relies, Got
<1> QED
  BY <1>1, <1>2, <1>13, <1>17 DEF StreamInv

-----------------------------------------------------------------------------
(* What the browser is told.                                               *)

LEMMA RestIs ==
  ASSUME DownFits(down, seq), down # <<>>
  PROVE  /\ Head(down) = down[1] /\ down[1] \in Frames /\ Len(down) \in Nat /\ 1 <= Len(down)
         /\ DownFits(Tail(down), seq) /\ Len(Tail(down)) = Len(down) - 1
         /\ \A i \in 1..(Len(down) - 1) : Tail(down)[i] = down[i + 1]
<1>1. down \in Seq(Frames) /\ down # <<>>
  BY DEF DownFits
<1>2. /\ Head(down) = down[1] /\ Len(down) \in Nat /\ 1 <= Len(down)
      /\ Tail(down) \in Seq(Frames) /\ Len(Tail(down)) = Len(down) - 1
      /\ \A i \in 1..(Len(down) - 1) : Tail(down)[i] = down[i + 1]
  BY <1>1
<1>3. down[1] \in Frames
  BY <1>1, <1>2
<1>4. ASSUME NEW i \in 1..(Len(down) - 1), Tail(down)[i].t = "event"
      PROVE  Tail(down)[i].id \in 1..seq
  <2>1. i + 1 \in 1..Len(down)
    BY <1>2
  <2> QED
    BY <1>2, <1>4, <2>1 DEF DownFits
<1>5. DownFits(Tail(down), seq)
  BY <1>2, <1>4 DEF DownFits
<1> QED
  BY <1>2, <1>3, <1>5

LEMMA TypesStay ==
  ASSUME StreamTypes, client.st = "open", UNCHANGED <<seq, buffer, tickets, minted, socket>>,
         client' \in Clients, client'.st = "open",
         client'.last \in 0..seq \/ (client'.last = Stream!Undefined /\ ~client'.base),
         known' \subseteq 1..seq, skipped' \subseteq 1..seq, DownFits(down', seq)
  PROVE  StreamTypes'
BY DEF StreamTypes, BufferIs, LastFits

(* What a frame of the socket does.                                        *)
Reads(f) ==
  LET had == IF client.last = Stream!Undefined THEN 0 ELSE client.last IN
  CASE f.t = "event" ->
         /\ client' = [client EXCEPT !.last = Stream!MaxOf(had, f.id), !.early = ~client.greeted]
         /\ known' = known \union {f.id} /\ UNCHANGED skipped
    [] f.t = "resync" -> known' = 1..seq /\ skipped' = {} /\ UNCHANGED client
    [] OTHER ->
         /\ client' = [client EXCEPT !.last = Stream!MaxOf(had, f.id), !.greeted = TRUE,
                                     !.base = TRUE]
         /\ known' = IF client.base THEN known ELSE known \union 1..f.id
         /\ UNCHANGED skipped

LEMMA ReceiveIs ==
  ASSUME StreamInv, Stream!Receive
  PROVE  /\ client.st = "open" /\ down # <<>> /\ down' = Tail(down) /\ Reads(down[1])
         /\ UNCHANGED <<seq, buffer, tickets, minted, socket, hello>>
         /\ StreamTypes /\ DownFits(down, seq) /\ seq \in Nat /\ client \in Clients
<1>1. StreamTypes /\ DownFits(down, seq) /\ seq \in Nat /\ client \in Clients
  BY DEF StreamInv, StreamTypes
<1>2. /\ client.st = "open" /\ down # <<>> /\ down' = Tail(down) /\ Reads(Head(down))
      /\ UNCHANGED <<seq, buffer, tickets, minted, socket, hello>>
  BY DEF Stream!Receive, Stream!server, Reads
<1> QED
  BY <1>1, <1>2, RestIs

LEMMA LastGrows ==
  ASSUME StreamTypes, NEW n \in Nat, NEW top \in Nat, n <= top, top <= seq,
         client.last \in 0..top \/ client.last = Stream!Undefined
  PROVE  LET had == IF client.last = Stream!Undefined THEN 0 ELSE client.last
             m == Stream!MaxOf(had, n) IN
         /\ m \in 0..top /\ m \in 0..seq /\ n <= m
         /\ client.last \in 0..n \/ client.last = Stream!Undefined => m = n
<1>1. /\ seq \in Nat /\ seq < Stream!Undefined /\ Stream!Undefined \in Nat
  BY StreamNumbers DEF StreamTypes
<1> QED
  BY <1>1 DEF Stream!MaxOf

LEMMA EventReceived ==
  ASSUME StreamInv, Stream!Receive, down[1].t = "event", NEW top \in Nat, top <= seq,
         down[1].id <= top, client.last \in 0..top \/ client.last = Stream!Undefined
  PROVE  /\ client' \in Clients /\ client'.st = "open" /\ client'.base = client.base
         /\ client'.greeted = client.greeted /\ client'.early = ~client.greeted
         /\ client'.last \in 0..top /\ client'.last \in 0..seq
         /\ client.last \in 0..down[1].id => client'.last = down[1].id
         /\ known' = known \union {down[1].id} /\ skipped' = skipped
         /\ down[1].id \in 1..seq /\ StreamTypes'
<1> DEFINE f == down[1]
           had == IF client.last = Stream!Undefined THEN 0 ELSE client.last
           m == Stream!MaxOf(had, f.id)
<1>1. /\ client.st = "open" /\ down # <<>> /\ down' = Tail(down)
      /\ client' = [client EXCEPT !.last = m, !.early = ~client.greeted]
      /\ known' = known \union {f.id} /\ skipped' = skipped
      /\ UNCHANGED <<seq, buffer, tickets, minted, socket, hello>>
      /\ StreamTypes /\ DownFits(down, seq) /\ seq \in Nat /\ client \in Clients
  BY ReceiveIs DEF Reads
<1>2. f.id \in 1..seq /\ DownFits(down', seq)
  BY <1>1, RestIs DEF DownFits
<1>3. /\ m \in 0..top /\ m \in 0..seq
      /\ client.last \in 0..f.id => m = f.id
  BY <1>1, <1>2, LastGrows
<1>4. m \in 0..Stream!Undefined
  BY <1>1, <1>3, StreamNumbers DEF StreamTypes
<1> HIDE DEF m
<1>5. /\ client' \in Clients /\ client'.st = "open" /\ client'.base = client.base
      /\ client'.greeted = client.greeted /\ client'.early = ~client.greeted
      /\ client'.last = m
  BY <1>1, <1>4 DEF Clients
<1>6. known' \subseteq 1..seq /\ skipped' \subseteq 1..seq
  BY <1>1, <1>2, <1>5 DEF StreamTypes
<1>7. StreamTypes'
  BY <1>1, <1>2, <1>3, <1>5, <1>6, TypesStay
<1> QED
  BY <1>1, <1>2, <1>3, <1>5, <1>7

(* Before its hello is read, the browser is sent new events only.          *)
LEMMA ReceiveUnheard ==
  ASSUME StreamInv, Stream!Receive, ~client.greeted, Unheard
  PROVE  StreamInv'
<1>1. /\ client.st = "open" /\ down # <<>> /\ down' = Tail(down) /\ DownFits(down, seq)
      /\ UNCHANGED <<seq, hello>> /\ StreamTypes /\ seq \in Nat
  BY ReceiveIs
<1>2. /\ Len(down) \in Nat /\ 1 <= Len(down) /\ Len(down') = Len(down) - 1
      /\ \A i \in 1..(Len(down) - 1) : down'[i] = down[i + 1]
  BY <1>1, RestIs
<1>3. /\ down[1].t = "event" /\ down[1].id \in 1..seq
      /\ client.last \in 0..seq \/ client.last = Stream!Undefined
  BY <1>1, <1>2 DEF Unheard, StreamTypes, LastFits, DownFits
<1>7. down[1].id <= seq /\ seq <= seq
  BY <1>1, <1>3
<1>8. client.greeted \in BOOLEAN
  BY <1>1 DEF StreamTypes, Clients
<1>4. /\ client'.st = "open" /\ client'.base = client.base
      /\ ~client'.greeted /\ client'.early
      /\ known' = known \union {down[1].id} /\ skipped' = skipped /\ StreamTypes'
  <2>1. /\ client'.st = "open" /\ client'.base = client.base
        /\ client'.greeted = client.greeted /\ client'.early = ~client.greeted
        /\ known' = known \union {down[1].id} /\ skipped' = skipped /\ StreamTypes'
    BY <1>1, <1>3, <1>7, EventReceived
  <2> QED
    BY <2>1, <1>8
<1>5. \A i \in 1..Len(down') : down'[i].t = "event"
  <2> TAKE i \in 1..Len(down')
  <2>1. i + 1 \in 1..Len(down) /\ down'[i] = down[i + 1]
    BY <1>2
  <2> QED
    BY <2>1 DEF Unheard
<1>6. Unheard'
  BY <1>1, <1>4, <1>5 DEF Unheard, Relies, Got, LastFits
<1> QED
  BY <1>4, <1>6 DEF StreamInv

(* A greeted browser gets the next event.                                  *)
LEMMA ReceiveGreeted ==
  ASSUME StreamInv, Stream!Receive, client.greeted
  PROVE  StreamInv'
<1>1. /\ client.st = "open" /\ down # <<>> /\ down' = Tail(down) /\ DownFits(down, seq)
      /\ UNCHANGED <<seq, hello>> /\ StreamTypes /\ seq \in Nat
  BY ReceiveIs
<1>2. /\ Len(down) \in Nat /\ 1 <= Len(down) /\ Len(down') = Len(down) - 1
      /\ \A i \in 1..(Len(down) - 1) : down'[i] = down[i + 1]
  BY <1>1, RestIs
<1>3. Greeted /\ client.base /\ client.last \in 0..seq
  BY <1>1 DEF StreamInv, StreamTypes, Greeted
<1>4. /\ down[1] = Stream!Event(client.last + 1) /\ client.last + Len(down) = seq
  BY <1>2, <1>3 DEF Greeted
<1>5. down[1].t = "event" /\ down[1].id = client.last + 1
  BY <1>1, <1>3, <1>4, EventIs
<1>6. client.last + 1 <= seq /\ client.last \in 0..(client.last + 1)
  BY <1>1, <1>2, <1>3, <1>4
<1>12. /\ client.last + 1 \in Nat /\ down[1].id <= client.last + 1
       /\ client.last \in 0..down[1].id
  BY <1>3, <1>5, <1>6
<1>13. 0..down[1].id = 0..(client.last + 1)
  BY <1>5
<1>7. /\ client'.st = "open" /\ client'.base = client.base /\ client'.greeted
      /\ client'.last = client.last + 1
      /\ known' = known \union {client.last + 1} /\ skipped' = skipped /\ StreamTypes'
  <2>1. /\ client'.st = "open" /\ client'.base = client.base
        /\ client'.greeted = client.greeted
        /\ client.last \in 0..down[1].id => client'.last = down[1].id
        /\ known' = known \union {down[1].id} /\ skipped' = skipped /\ StreamTypes'
    BY <1>5, <1>6, <1>12, EventReceived
  <2> QED
    BY <2>1, <1>5, <1>12
<1>8. ASSUME NEW i \in 1..Len(down') PROVE down'[i] = Stream!Event(client'.last + i)
  <2>1. i + 1 \in 1..Len(down) /\ down'[i] = down[i + 1]
    BY <1>2
  <2>2. down[i + 1] = Stream!Event(client.last + (i + 1))
    BY <1>3, <2>1 DEF Greeted
  <2>3. client.last + (i + 1) = client'.last + i
    BY <1>3, <1>7
  <2> QED
    BY <2>1, <2>2, <2>3
<1>9. client'.last + Len(down') = seq
  BY <1>1, <1>2, <1>3, <1>4, <1>7
<1>10. 1..client'.last \subseteq known' \union skipped'
  <2> SUFFICES ASSUME NEW n \in 1..client'.last PROVE n \in known' \union skipped'
    OBVIOUS
  <2>1. n \in 1..client.last \/ n = client.last + 1
    BY <1>1, <1>3, <1>7
  <2> QED
    BY <1>3, <1>7, <2>1 DEF Greeted, Got
<1>11. Greeted'
  BY <1>1, <1>3, <1>7, <1>8, <1>9, <1>10 DEF Greeted, Got
<1> QED
  BY <1>7, <1>11 DEF StreamInv


(* The hello_ok comes closer.                                              *)
LEMMA GreetingComes ==
  ASSUME StreamInv, Stream!Receive, NEW k \in Nat, 1 < k, GreetingAt(k),
         client'.last \in 0..down[k].id \/ client'.last = Stream!Undefined,
         Relies' => \/ \A n \in 1..down[k].id : n \in known'
                    \/ /\ Relies /\ down[1].t # "resync"
                       /\ known \subseteq known' /\ skipped \subseteq skipped'
                       /\ \A n \in Nat : down[1] = Stream!Event(n) => n \in known'
  PROVE  k - 1 \in 1..Len(down') /\ GreetingAt(k - 1)'
<1> DEFINE s == down[k].id
           p == k - 1
<1>1. /\ down # <<>> /\ down' = Tail(down) /\ DownFits(down, seq) /\ seq' = seq
  BY ReceiveIs
<1>2. /\ Len(down) \in Nat /\ 1 <= Len(down) /\ Len(down') = Len(down) - 1
      /\ \A i \in 1..(Len(down) - 1) : down'[i] = down[i + 1]
  BY <1>1, RestIs
<1>3. /\ k \in 1..Len(down) /\ down[k].t = "hello_ok" /\ s + (Len(down) - k) = seq
  BY DEF GreetingAt
<1>4. s \in Nat
  <2>1. down[k] \in Frames
    BY <1>1, <1>3 DEF DownFits
  <2> QED
    BY <2>1 DEF Frames
<1>5. p \in 1..Len(down') /\ p + 1 = k /\ p \in Nat
  BY <1>2, <1>3
<1>6. down'[p] = down[k]
  BY <1>2, <1>5
<1> HIDE DEF s, p
<1>7. s + (Len(down') - p) = seq'
  BY <1>1, <1>2, <1>3, <1>4, <1>5
<1>8. ASSUME NEW i \in 1..(p - 1)
      PROVE  /\ i + 1 \in 1..(k - 1) /\ down'[i] = down[i + 1]
  <2>1. p + 1 = k /\ p \in Nat /\ k <= Len(down) /\ Len(down) \in Nat
    BY <1>2, <1>3, <1>5
  <2>2. i \in Nat /\ 1 <= i /\ i <= p - 1
    BY <2>1
  <2>3. i + 1 \in 1..(k - 1) /\ i \in 1..(Len(down) - 1)
    BY <2>1, <2>2
  <2> QED
    BY <1>2, <2>3
<1>9. \A i \in 1..(p - 1) : /\ down'[i].t # "hello_ok"
                            /\ down'[i].t = "event" => down'[i].id \in 1..s
  BY <1>8 DEF GreetingAt, s
<1>10. ASSUME NEW i \in (p + 1)..Len(down') PROVE down'[i] = Stream!Event(s + (i - p))
  <2>1. i + 1 \in (k + 1)..Len(down) /\ down'[i] = down[i + 1] /\ (i + 1) - k = i - p
    BY <1>2, <1>3, <1>5
  <2>2. down[i + 1] = Stream!Event(s + ((i + 1) - k))
    BY <2>1 DEF GreetingAt, s
  <2> QED
    BY <2>1, <2>2
<1>11. ASSUME NEW i \in 1..(k - 1), i # 1 PROVE i - 1 \in 1..(p - 1) /\ down'[i - 1] = down[i]
  <2>1. i - 1 \in 1..(p - 1) /\ (i - 1) + 1 = i
    BY <1>5, <1>11
  <2> QED
    BY <1>8, <2>1
<1>12. Relies' => \/ \E i \in 1..(p - 1) : down'[i].t = "resync"
                  \/ \A n \in 1..s : \/ n \in known' \union skipped'
                                    \/ \E i \in 1..(p - 1) : down'[i] = Stream!Event(n)
  <2> SUFFICES ASSUME Relies, down[1].t # "resync",
                      known \subseteq known', skipped \subseteq skipped',
                      \A n \in Nat : down[1] = Stream!Event(n) => n \in known',
                      ~\E i \in 1..(p - 1) : down'[i].t = "resync", NEW n \in 1..s
               PROVE  n \in known' \union skipped' \/ \E i \in 1..(p - 1) : down'[i] = Stream!Event(n)
    BY DEF s
  <2>1. ~\E i \in 1..(k - 1) : down[i].t = "resync"
    BY <1>11
  <2>2. n \in known \union skipped \/ \E i \in 1..(k - 1) : down[i] = Stream!Event(n)
    BY <2>1 DEF GreetingAt, s
  <2>3. ASSUME NEW i \in 1..(k - 1), down[i] = Stream!Event(n)
        PROVE  n \in known' \union skipped' \/ \E j \in 1..(p - 1) : down'[j] = Stream!Event(n)
    <3>1. n \in Nat
      BY <1>4
    <3>2. CASE i = 1
      BY <2>3, <3>1, <3>2
    <3>3. CASE i # 1
      BY <1>11, <2>3, <3>3
    <3> QED
      BY <3>2, <3>3
  <2> QED
    BY <2>2, <2>3
<1>13. GreetingAt(p)'
  <2>1. down'[p].id = s /\ down'[p].t = "hello_ok"
    BY <1>3, <1>6 DEF s
  <2>2. client'.last \in 0..s \/ client'.last = Stream!Undefined
    BY DEF s
  <2> QED
    BY <1>5, <1>7, <1>9, <1>10, <1>12, <2>1, <2>2 DEF GreetingAt
<1> QED
  BY <1>5, <1>13 DEF p

(* The gap, the word that there is none, and the events since.             *)
LEMMA ReceiveHeard ==
  ASSUME StreamInv, Stream!Receive, ~client.greeted, Heard
  PROVE  StreamInv'
<1>1. /\ client.st = "open" /\ down # <<>> /\ down' = Tail(down) /\ Reads(down[1])
      /\ UNCHANGED <<seq, buffer, tickets, minted, socket, hello>>
      /\ StreamTypes /\ DownFits(down, seq) /\ seq \in Nat /\ client \in Clients
  BY ReceiveIs
<1>2. /\ Len(down) \in Nat /\ 1 <= Len(down) /\ Len(down') = Len(down) - 1
      /\ \A i \in 1..(Len(down) - 1) : down'[i] = down[i + 1]
      /\ DownFits(down', seq) /\ down[1] \in Frames
  BY <1>1, RestIs
<1>3. PICK k \in 1..Len(down) : GreetingAt(k)
  BY DEF Heard
<1> DEFINE s == down[k].id
<1>4. /\ down[k].t = "hello_ok" /\ s + (Len(down) - k) = seq
      /\ client.last \in 0..s \/ client.last = Stream!Undefined
  BY <1>3 DEF GreetingAt
<1>5. s \in Nat
  <2>1. down[k] \in Frames
    BY <1>1, <1>3 DEF DownFits
  <2> QED
    BY <2>1 DEF Frames
<1>6. s <= seq /\ k \in Nat
  <2> HIDE DEF s
  <2> QED
    BY <1>1, <1>2, <1>3, <1>4, <1>5
<1>7. client.last \in 0..seq \/ (client.last = Stream!Undefined /\ ~client.base)
  BY <1>1, <1>4, <1>5, <1>6, StreamNumbers DEF StreamTypes
<1>8. hello' = <<>>
  BY <1>1 DEF Heard
<1>9. CASE k = 1
  <2> DEFINE had == IF client.last = Stream!Undefined THEN 0 ELSE client.last
             m == Stream!MaxOf(had, s)
  <2>1. /\ client' = [client EXCEPT !.last = m, !.greeted = TRUE, !.base = TRUE]
        /\ known' = IF client.base THEN known ELSE known \union 1..s
        /\ skipped' = skipped
    BY <1>1, <1>4, <1>9 DEF Reads
  <2>2. m = s
    <3>1. s <= s
      BY <1>5
    <3> QED
      BY <1>1, <1>4, <1>5, <1>6, <3>1, LastGrows
  <2>3. s \in 0..Stream!Undefined /\ s \in 0..seq
    BY <1>1, <1>5, <1>6, StreamNumbers DEF StreamTypes
  <2> HIDE DEF m
  <2>4. /\ client' \in Clients /\ client'.st = "open" /\ client'.base /\ client'.greeted
        /\ client'.last = s
    BY <1>1, <2>1, <2>2, <2>3 DEF Clients
  <2>5. known' \subseteq 1..seq /\ skipped' \subseteq 1..seq
    BY <1>1, <1>5, <1>6, <2>1 DEF StreamTypes
  <2>6. StreamTypes'
    BY <1>1, <1>2, <2>3, <2>4, <2>5, TypesStay
  <2>7. 1..s \subseteq known' \union skipped'
    <3>1. CASE client.base
      <4>1. \A n \in 1..s : n \in known \union skipped
        BY <1>3, <1>9, <3>1 DEF GreetingAt, Relies
      <4> QED
        BY <2>1, <3>1, <4>1
    <3>2. CASE ~client.base
      BY <2>1, <3>2
    <3> QED
      BY <3>1, <3>2
  <2>8. \A i \in 1..Len(down') : down'[i] = Stream!Event(s + i)
    <3> TAKE i \in 1..Len(down')
    <3>1. i + 1 \in 2..Len(down) /\ down'[i] = down[i + 1] /\ (i + 1) - 1 = i
      BY <1>2
    <3>2. \A j \in 2..Len(down) : down[j] = Stream!Event(s + (j - 1))
      BY <1>3, <1>9 DEF GreetingAt
    <3> QED
      BY <3>1, <3>2
  <2>9. s + Len(down') = seq
    <3> HIDE DEF s
    <3> QED
      BY <1>1, <1>2, <1>4, <1>5, <1>9
  <2>10. Greeted'
    <3> HIDE DEF s
    <3> QED
      BY <1>1, <1>8, <2>4, <2>7, <2>8, <2>9 DEF Greeted, Got
  <2> QED
    BY <2>4, <2>6, <2>10 DEF StreamInv
<1>10. CASE k # 1
  <2>1. 1 < k /\ 1 \in 1..(k - 1)
    BY <1>3, <1>10
  <2>2. /\ down[1].t # "hello_ok"
        /\ down[1].t = "event" => down[1].id \in 1..s
    BY <1>3, <2>1 DEF GreetingAt
  <2>3. down[1].t = "event" \/ down[1].t = "resync"
    BY <1>2, <2>2 DEF Frames
  <2>4. CASE down[1].t = "event"
    <3>1. down[1].id <= s /\ client.greeted \in BOOLEAN
      BY <1>1, <1>5, <2>2, <2>4 DEF Clients
    <3>2. /\ client' \in Clients /\ client'.st = "open" /\ client'.base = client.base
          /\ client'.greeted = client.greeted /\ client'.early = ~client.greeted
          /\ client'.last \in 0..s
          /\ known' = known \union {down[1].id} /\ skipped' = skipped /\ StreamTypes'
      BY <1>4, <1>5, <1>6, <2>4, <3>1, EventReceived
    <3>3. \A n \in Nat : down[1] = Stream!Event(n) => n \in known'
      BY <3>2, EventIs
    <3>4. Relies' = Relies /\ known \subseteq known' /\ skipped' = skipped
      BY <3>2 DEF Relies
    <3>5. k - 1 \in 1..Len(down') /\ GreetingAt(k - 1)'
      BY <1>3, <1>6, <2>1, <2>4, <3>2, <3>3, <3>4, GreetingComes
    <3>6. Heard'
      <4>1. \E x \in 1..Len(down') : GreetingAt(x)'
        BY <3>5
      <4> QED
        BY <1>8, <3>1, <3>2, <4>1 DEF Heard
    <3> QED
      BY <3>1, <3>2, <3>6 DEF StreamInv
  <2>5. CASE down[1].t = "resync"
    <3>1. known' = 1..seq /\ skipped' = {} /\ client' = client
      BY <1>1, <2>5 DEF Reads
    <3>2. StreamTypes'
      BY <1>1, <1>2, <1>7, <3>1, TypesStay
    <3>3. \A n \in 1..s : n \in known'
      BY <1>1, <1>5, <1>6, <3>1
    <3>4. k - 1 \in 1..Len(down') /\ GreetingAt(k - 1)'
      BY <1>3, <1>4, <1>6, <2>1, <3>1, <3>3, GreetingComes
    <3>5. Relies' => 1..client'.last \subseteq known'
      BY <1>1, <1>7, <3>1 DEF Relies
    <3>6. Heard'
      <4>1. \E x \in 1..Len(down') : GreetingAt(x)'
        BY <3>4
      <4> QED
        BY <1>8, <3>5, <4>1 DEF Heard, Got
    <3> QED
      BY <1>1, <3>1, <3>2, <3>6 DEF StreamInv
  <2> QED
    BY <2>3, <2>4, <2>5
<1> QED
  BY <1>9, <1>10

LEMMA StreamNext ==
  ASSUME StreamInv, Stream!Next
  PROVE  StreamInv'
<1>1. CASE Stream!Receive
  <2>1. client.st = "open" /\ client.greeted \in BOOLEAN
    BY <1>1, ReceiveIs DEF Clients
  <2>2. CASE client.greeted
    BY <1>1, <2>2, ReceiveGreeted
  <2>3. CASE ~client.greeted
    BY <1>1, <2>1, <2>3, ReceiveUnheard, ReceiveHeard DEF StreamInv
  <2> QED
    BY <2>1, <2>2, <2>3
<1> QED
  BY <1>1, EmitSteps, HelloSteps, TicketSteps, OutsideSteps, StopSteps, OpensSteps, DropSteps
  DEF Stream!Next

LEMMA StreamStays ==
  ASSUME StreamInv, UNCHANGED streamVars
  PROVE  StreamInv'
<1>1. UNCHANGED <<seq, buffer, tickets, minted, socket, hello, down, client, known, skipped>>
  BY DEF streamVars
<1>2. StreamTypes'
  BY <1>1 DEF StreamInv, StreamTypes, BufferIs, LastFits
<1>3. (Away => Away') /\ (Unheard => Unheard') /\ (Greeted => Greeted')
  BY <1>1 DEF Away, Unheard, Greeted, Relies, Got, LastFits
<1>4. Heard => Heard'
  <2>1. \A k : GreetingAt(k) => GreetingAt(k)'
    BY <1>1 DEF GreetingAt, Relies
  <2> QED
    BY <1>1, <2>1 DEF Heard, Relies, Got
<1> QED
  BY <1>1, <1>2, <1>3, <1>4 DEF StreamInv

-----------------------------------------------------------------------------
(* Calls.  The inductive invariant.                                        *)

Entries == {NoCall} \union [dir : {"outgoing", "incoming"}, st : {"ringing", "connecting"}]
Rows == {"none", "ringing", "connecting", "over"}
Signals == [from : Users, id : Ids, type : {"offer", "answer", "accept", "reject", "cancel"},
            cont : {"none", "over", "glare"}, then : Ids \union {NoId},
            stage : {"sent", "held", "ok", "fail"}]
Tabs == [id : Ids \union {NoId}, ui : {"idle", "calling", "incoming", "connecting", "connected"},
         remote : BOOLEAN, said : BOOLEAN]
(* A hub tells its tab to ring only for a call of the other side.          *)
FramesFor(u) ==
  {f \in [t : {"ringing", "offer", "answer", "accepted", "bye", "over"}, id : Ids] :
     f.t \in {"ringing", "offer"} => f.id[1] = Peer(u)}

CallTypes ==
  /\ hub \in [Users -> [Ids -> Entries]] /\ row \in [Users -> [Ids -> Rows]]
  /\ provisions \in [Users -> SUBSET Ids] /\ sig \subseteq Signals
  /\ tab \in [Users -> Tabs] /\ DOMAIN frames = Users
  /\ \A u \in Users : frames[u] \in Seq(FramesFor(u))

Accepted == {"connecting", "over"}

(* The map is what the row says, and a call is outgoing at who made it.    *)
EntryFits(u, c, e, st) ==
  /\ e # NoCall => e.st = st
  /\ e.dir = "outgoing" => c[1] = u
  /\ e.dir = "incoming" => c[1] = Peer(u)
  /\ e.dir = "incoming" => row[Peer(u)][c] # "none"
  /\ e.dir = "outgoing" /\ e.st = "connecting" => row[Peer(u)][c] \in Accepted
EntriesFit == \A u \in Users, c \in Ids : EntryFits(u, c, hub[u][c], row[u][c])

(* An invite waits for its ICE servers before it has a row.                *)
ProvisionsFit == \A u \in Users : \A c \in provisions[u] : c[1] = u => row[u][c] = "none"

(* A hub signals what it has a row of; only the other side accepts.        *)
SignalFits(s) ==
  /\ row[s.from][s.id] # "none"
  /\ s.type = "offer" => s.id[1] = s.from /\ s.then = NoId
  /\ s.type \in {"answer", "accept"} => s.id[1] = Peer(s.from) /\ row[s.from][s.id] \in Accepted
  /\ s.then # NoId => s.id[1] = s.from /\ s.then[1] = Peer(s.from) /\ row[s.then[1]][s.then] # "none"
SignalsFit == \A s \in sig : SignalFits(s)

TabFits(u, t) ==
  /\ t.ui = "calling" => t.id[1] = u
  /\ t.ui = "incoming" => t.id[1] = Peer(u)
  /\ t.ui # "idle" => t.id # NoId
TabsFit == \A u \in Users : TabFits(u, tab[u])

(* The offers of a call that are still to be taken, also after a glare.    *)
Owed(S, c) == {s \in S : (s.type = "offer" /\ s.stage = "sent" /\ s.id = c) \/ s.then = c}
Unsaid(c) == row[c[1]][c] = "none" \/ (tab[c[1]].id = c /\ ~tab[c[1]].said)
(* A call is offered once, after it has a row, and taken once.             *)
OfferedOnce(c) ==
  /\ \A s, t \in Owed(sig, c) : s = t
  /\ row[Peer(c[1])][c] # "none" => Owed(sig, c) = {}
  /\ Unsaid(c) => Owed(sig, c) = {} /\ row[Peer(c[1])][c] = "none"
OffersFit == \A c \in Ids : OfferedOnce(c)

CallsInv == CallTypes /\ EntriesFit /\ ProvisionsFit /\ SignalsFit /\ TabsFit /\ OffersFit

LEMMA PeerIs ==
  \A u \in Users : Peer(u) \in Users /\ Peer(u) # u /\ Peer(Peer(u)) = u
                   /\ \A v \in Users : v = u \/ v = Peer(u)
BY CallAssumption DEF Users, Peer

LEMMA IdIs == NoId \notin Ids /\ \A c \in Ids : c[1] \in Users /\ c[2] \in Nat /\ c # NoId
<1>1. \A c \in Ids : c[1] \in Users /\ c[2] \in Nat /\ c[2] # 0
  BY CallAssumption DEF Ids
<1>2. NoId[2] = 0
  BY DEF NoId
<1> QED
  BY <1>1, <1>2

LEMMA NewCallIs ==
  /\ NoCall.dir = "none" /\ NoCall.st = "none" /\ NoCall \in Entries
  /\ \A d \in {"outgoing", "incoming"} :
       NewCall(d) \in Entries /\ NewCall(d).dir = d /\ NewCall(d).st = "ringing"
       /\ NewCall(d) # NoCall
BY DEF NoCall, NewCall, Entries

LEMMA CallsInit == Init => CallsInv
<1> SUFFICES ASSUME Init PROVE CallsInv
  OBVIOUS
<1>1. /\ hub = [u \in Users |-> [c \in Ids |-> NoCall]]
      /\ row = [u \in Users |-> [c \in Ids |-> "none"]]
      /\ provisions = [u \in Users |-> {}] /\ sig = {}
      /\ tab = [u \in Users |-> IdleTab] /\ frames = [u \in Users |-> <<>>]
  BY DEF Init
<1>2. \A u \in Users, c \in Ids : hub[u][c] = NoCall /\ row[u][c] = "none"
  BY <1>1
<1>3. CallTypes
  <2>1. hub \in [Users -> [Ids -> Entries]] /\ row \in [Users -> [Ids -> Rows]]
    BY <1>1, NewCallIs DEF Rows
  <2>2. IdleTab \in Tabs
    BY DEF IdleTab, Tabs
  <2> QED
    BY <1>1, <2>1, <2>2 DEF CallTypes
<1>4. EntriesFit
  BY <1>2, NewCallIs DEF EntriesFit, EntryFits
<1>5. \A c \in Ids : row[Peer(c[1])][c] = "none"
  BY <1>2, PeerIs, IdIs
<1>6. OffersFit
  BY <1>1, <1>5 DEF OffersFit, OfferedOnce, Owed
<1>7. TabsFit
  BY <1>1 DEF TabsFit, TabFits, IdleTab
<1> QED
  BY <1>1, <1>3, <1>4, <1>6, <1>7 DEF CallsInv, ProvisionsFit, SignalsFit

LEMMA CallsFollow ==
  ASSUME CallsInv
  PROVE  CallsAgree
<1>1. ASSUME NEW u \in Users, NEW c \in Ids
      PROVE  /\ hub[u][c].st \in {"none", "ringing", "connecting"} /\ row[u][c] \in Rows
             /\ hub[u][c].dir = "incoming" => row[Peer(u)][c] # "none"
             /\ hub[u][c].dir = "outgoing" /\ hub[u][c].st = "connecting" =>
                  row[Peer(u)][c] \in {"connecting", "over"}
  <2>1. hub[u][c] \in Entries /\ row[u][c] \in Rows /\ EntryFits(u, c, hub[u][c], row[u][c])
    BY DEF CallsInv, CallTypes, EntriesFit
  <2> QED
    BY <2>1 DEF EntryFits, Entries, NoCall, Accepted
<1>2. \A s \in sig : s.stage \in {"sent", "held", "ok", "fail"} /\ s.id \in Ids
  BY DEF CallsInv, CallTypes, Signals
<1>3. \A u \in Users : tab[u].id \in Ids \union {NoId}
  BY DEF CallsInv, CallTypes, Tabs
<1> QED
  BY <1>1, <1>2, <1>3 DEF CallsAgree, TypeOK, HubsAgree, Rows

-----------------------------------------------------------------------------
(* What a step may do to a call: the hub of one side begins it, connects   *)
(* it, ends it, or takes the offer of the other side.                      *)

Same(u, c) == hub'[u][c] = hub[u][c] /\ row'[u][c] = row[u][c]
Begins(u, c) ==
  /\ c[1] = u /\ c \in provisions[u] /\ c \notin provisions'[u]
  /\ hub'[u][c] = NewCall("outgoing") /\ row'[u][c] = "ringing"
Ends(u, c) == row[u][c] # "none" /\ hub'[u][c] = NoCall /\ row'[u][c] = "over"
Connects(u, c) ==
  /\ hub[u][c].st = "ringing" /\ hub'[u][c] = [hub[u][c] EXCEPT !.st = "connecting"]
  /\ row'[u][c] = "connecting" /\ (c[1] = u => row[Peer(u)][c] \in Accepted)
Takes(u, c) ==
  /\ c[1] = Peer(u) /\ row[Peer(u)][c] # "none" /\ hub[u][c] = NoCall
  /\ Owed(sig, c) # {} /\ Owed(sig', c) = {}
  /\ hub'[u][c] = NewCall("incoming") /\ row'[u][c] = "ringing"
CellStep(u, c) == Same(u, c) \/ Begins(u, c) \/ Ends(u, c) \/ Connects(u, c) \/ Takes(u, c)
CellSteps == \A u \in Users, c \in Ids : CellStep(u, c)

ProvisionsStep ==
  \A u \in Users : \A c \in provisions'[u] :
    c[1] = u => c \in provisions[u] \/ row[u][c] = "none"

(* Who still has to say an offer had to before.                            *)
TabStep(u) ==
  \A c \in Ids : c[1] = u /\ tab'[u].id = c /\ ~tab'[u].said =>
                   row[u][c] = "none" \/ (tab[u].id = c /\ ~tab[u].said)
TabSteps == \A u \in Users : TabStep(u)

(* An offer is made, or what is owed stays owed until it is taken.         *)
Makes(c) ==
  /\ Unsaid(c) /\ row[c[1]][c] # "none"
  /\ tab'[c[1]].id = c => tab'[c[1]].said
  /\ UNCHANGED row
OwedStep(c) ==
  /\ \A s, t \in Owed(sig', c) : s = t
  /\ Owed(sig', c) # {} => Owed(sig, c) # {} \/ Makes(c)
OwedSteps == \A c \in Ids : OwedStep(c)

(* The rows only move on.                                                  *)
LEMMA RowsMoveOn ==
  ASSUME CallsInv, CellSteps, NEW u \in Users, NEW c \in Ids
  PROVE  /\ row[u][c] # "none" => row'[u][c] # "none"
         /\ row[u][c] \in Accepted => row'[u][c] \in Accepted
         /\ row[u][c] = "none" /\ row'[u][c] # "none" => Begins(u, c) \/ Takes(u, c)
<1>1. /\ hub[u][c] \in Entries /\ row[u][c] \in Rows /\ EntryFits(u, c, hub[u][c], row[u][c])
      /\ c \in provisions[u] /\ c[1] = u => row[u][c] = "none"
      /\ c[1] \in Users /\ CellStep(u, c)
  BY IdIs DEF CallsInv, CallTypes, EntriesFit, ProvisionsFit, CellSteps
<1>2. CASE Same(u, c)
  BY <1>2 DEF Same
<1>3. CASE Begins(u, c)
  BY <1>1, <1>3 DEF Begins, Accepted
<1>4. CASE Ends(u, c)
  BY <1>4 DEF Ends, Accepted
<1>5. CASE Connects(u, c)
  <2>1. hub[u][c] # NoCall /\ row[u][c] = "ringing"
    BY <1>1, <1>5, NewCallIs DEF Connects, EntryFits
  <2> QED
    BY <1>5, <2>1 DEF Connects, Accepted
<1>6. CASE Takes(u, c)
  <2>1. Peer(c[1]) = u
    BY <1>1, <1>6, PeerIs DEF Takes
  <2>2. row[u][c] = "none"
    BY <1>6, <2>1 DEF Takes, CallsInv, OffersFit, OfferedOnce
  <2> QED
    BY <1>6, <2>2 DEF Takes, Accepted
<1> QED
  BY <1>1, <1>2, <1>3, <1>4, <1>5, <1>6 DEF CellStep

LEMMA EntriesNext ==
  ASSUME CallsInv, CellSteps
  PROVE  EntriesFit'
<1> SUFFICES ASSUME NEW u \in Users, NEW c \in Ids
             PROVE  EntryFits(u, c, hub[u][c], row[u][c])'
  BY DEF EntriesFit
<1>1. /\ hub[u][c] \in Entries /\ EntryFits(u, c, hub[u][c], row[u][c])
      /\ Peer(u) \in Users /\ CellStep(u, c)
  BY PeerIs DEF CallsInv, CallTypes, EntriesFit, CellSteps
<1>2. /\ row[Peer(u)][c] # "none" => row'[Peer(u)][c] # "none"
      /\ row[Peer(u)][c] \in Accepted => row'[Peer(u)][c] \in Accepted
  BY <1>1, RowsMoveOn
<1>3. CASE Same(u, c)
  BY <1>1, <1>2, <1>3 DEF Same, EntryFits
<1>4. CASE Begins(u, c)
  BY <1>1, <1>4, NewCallIs DEF Begins, EntryFits
<1>5. CASE Ends(u, c)
  BY <1>5, NewCallIs DEF Ends, EntryFits
<1>6. CASE Connects(u, c)
  <2>1. hub[u][c] # NoCall /\ hub[u][c] \in [dir : {"outgoing", "incoming"}, st : {"ringing", "connecting"}]
    BY <1>1, <1>6, NewCallIs DEF Connects, Entries
  <2>2. /\ hub'[u][c].dir = hub[u][c].dir /\ hub'[u][c].st = "connecting"
        /\ row'[u][c] = "connecting"
    BY <1>6, <2>1 DEF Connects
  <2>3. hub[u][c].dir = "outgoing" => row[Peer(u)][c] \in Accepted
    BY <1>1, <1>6 DEF Connects, EntryFits
  <2> QED
    BY <1>1, <1>2, <2>2, <2>3 DEF EntryFits
<1>7. CASE Takes(u, c)
  BY <1>2, <1>7, NewCallIs DEF Takes, EntryFits
<1> QED
  BY <1>1, <1>3, <1>4, <1>5, <1>6, <1>7 DEF CellStep

LEMMA ProvisionsNext ==
  ASSUME CallsInv, CellSteps, ProvisionsStep, provisions' \in [Users -> SUBSET Ids]
  PROVE  ProvisionsFit'
<1> SUFFICES ASSUME NEW u \in Users, NEW c \in provisions'[u], c[1] = u
             PROVE  row'[u][c] = "none"
  BY DEF ProvisionsFit
<1>1. c \in Ids /\ row[u][c] = "none"
  BY DEF ProvisionsStep, CallsInv, ProvisionsFit
<1>2. ~Begins(u, c) /\ ~Takes(u, c)
  BY <1>1, PeerIs DEF Begins, Takes
<1> QED
  BY <1>1, <1>2, RowsMoveOn

LEMMA OffersNext ==
  ASSUME CallsInv, CellSteps, OwedSteps, TabSteps
  PROVE  OffersFit'
<1> SUFFICES ASSUME NEW c \in Ids PROVE OfferedOnce(c)'
  BY DEF OffersFit
<1> DEFINE u == c[1]
           p == Peer(u)
<1>1. u \in Users /\ p \in Users /\ p # u /\ Peer(p) = u
  BY IdIs, PeerIs
<1>2. OfferedOnce(c) /\ OwedStep(c) /\ TabStep(u)
  BY <1>1 DEF CallsInv, OffersFit, OwedSteps, TabSteps
<1>3. /\ row[u][c] # "none" => row'[u][c] # "none"
      /\ row[p][c] = "none" /\ row'[p][c] # "none" => Begins(p, c) \/ Takes(p, c)
  BY <1>1, RowsMoveOn
<1>4. ~Begins(p, c)
  BY <1>1 DEF Begins
<1>5. CASE row'[p][c] # "none"
  <2>1. row[p][c] # "none" \/ Takes(p, c)
    BY <1>3, <1>4, <1>5
  <2>2. CASE Takes(p, c)
    <3>1. Owed(sig', c) = {} /\ Owed(sig, c) # {}
      BY <2>2 DEF Takes
    <3>2. ~Unsaid(c)
      BY <1>2, <3>1 DEF OfferedOnce
    <3>3. ~(row'[u][c] = "none" \/ (tab'[u].id = c /\ ~tab'[u].said))
      BY <1>2, <1>3, <3>2 DEF Unsaid, TabStep
    <3> QED
      BY <3>1, <3>3 DEF OfferedOnce, Unsaid
  <2>3. CASE row[p][c] # "none"
    <3>1. Owed(sig, c) = {} /\ ~Unsaid(c)
      BY <1>2, <2>3 DEF OfferedOnce
    <3>2. Owed(sig', c) = {}
      BY <1>2, <3>1 DEF OwedStep, Makes
    <3>3. ~(row'[u][c] = "none" \/ (tab'[u].id = c /\ ~tab'[u].said))
      BY <1>2, <1>3, <3>1 DEF Unsaid, TabStep
    <3> QED
      BY <3>2, <3>3 DEF OfferedOnce, Unsaid
  <2> QED
    BY <2>1, <2>2, <2>3
<1>6. CASE row'[p][c] = "none"
  <2>1. ASSUME row'[u][c] = "none" \/ (tab'[u].id = c /\ ~tab'[u].said)
        PROVE  Owed(sig', c) = {}
    <3>1. Unsaid(c)
      BY <1>2, <1>3, <2>1 DEF Unsaid, TabStep
    <3>2. Owed(sig, c) = {}
      BY <1>2, <3>1 DEF OfferedOnce
    <3>3. ~Makes(c)
      BY <2>1 DEF Makes
    <3> QED
      BY <1>2, <3>2, <3>3 DEF OwedStep
  <2> QED
    BY <1>2, <1>6, <2>1 DEF OfferedOnce, OwedStep, Unsaid
<1> QED
  BY <1>5, <1>6

LEMMA SignalStays ==
  ASSUME CallsInv, CellSteps, NEW s \in Signals, SignalFits(s)
  PROVE  SignalFits(s)'
<1>1. s.from \in Users /\ s.id \in Ids /\ s.then \in Ids \union {NoId}
  BY DEF Signals
<1>2. /\ row[s.from][s.id] # "none" => row'[s.from][s.id] # "none"
      /\ row[s.from][s.id] \in Accepted => row'[s.from][s.id] \in Accepted
  BY <1>1, RowsMoveOn
<1>3. s.then # NoId => (row[s.then[1]][s.then] # "none" => row'[s.then[1]][s.then] # "none")
  BY <1>1, IdIs, RowsMoveOn
<1> QED
  BY <1>2, <1>3 DEF SignalFits

(* What has to be shown of a step.                                         *)
LEMMA CallsStep ==
  ASSUME CallsInv, CallTypes', CellSteps, ProvisionsStep, OwedSteps, TabSteps, TabsFit',
         \A s \in sig' : s \in sig \/ SignalFits(s) \/ SignalFits(s)'
  PROVE  CallsInv'
<1>1. SignalsFit'
  <2>1. \A s \in sig' : s \in Signals
    BY DEF CallTypes
  <2>2. \A s \in sig : SignalFits(s)
    BY DEF CallsInv, SignalsFit
  <2> QED
    BY <2>1, <2>2, SignalStays DEF SignalsFit
<1>2. EntriesFit' /\ ProvisionsFit' /\ OffersFit'
  BY EntriesNext, ProvisionsNext, OffersNext DEF CallTypes
<1> QED
  BY <1>1, <1>2 DEF CallsInv

-----------------------------------------------------------------------------
(* What the parts of a handler do.                                         *)

HubNext ==
  hub' \in [Users -> [Ids -> Entries]] /\ row' \in [Users -> [Ids -> Rows]] /\ CellSteps
FramesNext == DOMAIN frames' = Users /\ \A u \in Users : frames'[u] \in Seq(FramesFor(u))
SigNext ==
  /\ sig' \subseteq Signals /\ OwedSteps
  /\ \A s \in sig' : s \in sig \/ SignalFits(s) \/ SignalFits(s)'
TabNext == tab' \in [Users -> Tabs] /\ TabSteps /\ TabsFit'
ProvisionsKept == provisions' \in [Users -> SUBSET Ids] /\ ProvisionsStep

LEMMA PartsNext ==
  ASSUME CallsInv, HubNext, FramesNext, SigNext, TabNext, ProvisionsKept
  PROVE  CallsInv'
<1>1. CallTypes'
  BY DEF CallTypes, HubNext, FramesNext, SigNext, TabNext, ProvisionsKept
<1> QED
  BY <1>1, CallsStep DEF HubNext, SigNext, TabNext, ProvisionsKept

LEMMA PartsStay ==
  ASSUME CallsInv
  PROVE  /\ UNCHANGED hubVars => HubNext
         /\ UNCHANGED frames => FramesNext
         /\ sig' \subseteq sig => SigNext
         /\ UNCHANGED tab => TabNext
         /\ UNCHANGED provisions => ProvisionsKept
<1>1. UNCHANGED hubVars => HubNext
  BY DEF hubVars, HubNext, CallsInv, CallTypes, CellSteps, CellStep, Same
<1>2. UNCHANGED frames => FramesNext
  BY DEF FramesNext, CallsInv, CallTypes
<1>3. sig' \subseteq sig => SigNext
  <2> SUFFICES ASSUME sig' \subseteq sig PROVE SigNext
    OBVIOUS
  <2>1. \A c \in Ids : Owed(sig', c) \subseteq Owed(sig, c)
    BY DEF Owed
  <2>2. OwedSteps
    BY <2>1 DEF OwedSteps, OwedStep, CallsInv, OffersFit, OfferedOnce
  <2> QED
    BY <2>2 DEF SigNext, CallsInv, CallTypes
<1>4. UNCHANGED tab => TabNext
  BY DEF TabNext, CallsInv, CallTypes, TabSteps, TabStep, TabsFit
<1>5. UNCHANGED provisions => ProvisionsKept
  BY DEF ProvisionsKept, ProvisionsStep, CallsInv, CallTypes
<1> QED
  BY <1>1, <1>2, <1>3, <1>4, <1>5

LEMMA FramesAre ==
  ASSUME NEW u \in Users, NEW c \in Ids
  PROVE  /\ \A t \in {"answer", "accepted", "bye", "over"} : <<[t |-> t, id |-> c]>> \in Seq(FramesFor(u))
         /\ c[1] = Peer(u) => Rings(c) \in Seq(FramesFor(u))
<1>1. ASSUME NEW t \in {"ringing", "offer", "answer", "accepted", "bye", "over"},
             t \in {"ringing", "offer"} => c[1] = Peer(u)
      PROVE  [t |-> t, id |-> c] \in FramesFor(u)
  BY <1>1 DEF FramesFor
<1>2. ASSUME NEW t \in {"answer", "accepted", "bye", "over"}
      PROVE  <<[t |-> t, id |-> c]>> \in Seq(FramesFor(u))
  <2> DEFINE f == [t |-> t, id |-> c]
  <2>1. f \in FramesFor(u)
    BY <1>1
  <2> HIDE DEF f
  <2>2. <<f>> \in Seq(FramesFor(u))
    BY <2>1
  <2> QED
    BY <2>2 DEF f
<1>3. ASSUME c[1] = Peer(u) PROVE Rings(c) \in Seq(FramesFor(u))
  <2> DEFINE f == [t |-> "ringing", id |-> c]
             g == [t |-> "offer", id |-> c]
  <2>1. f \in FramesFor(u) /\ g \in FramesFor(u)
    BY <1>1, <1>3
  <2>2. Rings(c) = <<f, g>>
    BY DEF Rings
  <2> HIDE DEF f, g
  <2> QED
    BY <2>1, <2>2
<1> QED
  BY <1>2, <1>3

LEMMA BroadcastFits ==
  ASSUME CallsInv, NEW u \in Users, NEW fs \in Seq(FramesFor(u)), Broadcast(u, fs)
  PROVE  FramesNext
<1>1. /\ DOMAIN frames = Users /\ \A v \in Users : frames[v] \in Seq(FramesFor(v))
  BY DEF CallsInv, CallTypes
<1>2. frames' = frames \/ frames' = [frames EXCEPT ![u] = frames[u] \o fs]
  BY DEF Broadcast
<1>3. CASE frames' = frames
  BY <1>1, <1>3 DEF FramesNext
<1>4. CASE frames' = [frames EXCEPT ![u] = frames[u] \o fs]
  <2>1. frames[u] \o fs \in Seq(FramesFor(u))
    BY <1>1
  <2>2. /\ DOMAIN frames' = Users
        /\ \A v \in Users : frames'[v] = IF v = u THEN frames[u] \o fs ELSE frames[v]
    BY <1>1, <1>4
  <2> QED
    BY <1>1, <2>1, <2>2 DEF FramesNext
<1> QED
  BY <1>2, <1>3, <1>4

(* One call of one hub changes.                                            *)
LEMMA OneCell ==
  ASSUME CallsInv, NEW u \in Users, NEW c \in Ids, NEW e \in Entries, NEW st \in Rows,
         hub' = [hub EXCEPT ![u][c] = e], row' = [row EXCEPT ![u][c] = st]
  PROVE  /\ hub' \in [Users -> [Ids -> Entries]] /\ row' \in [Users -> [Ids -> Rows]]
         /\ hub'[u][c] = e /\ row'[u][c] = st
         /\ \A v \in Users, d \in Ids : v # u \/ d # c => Same(v, d)
<1>1. hub \in [Users -> [Ids -> Entries]] /\ row \in [Users -> [Ids -> Rows]]
  BY DEF CallsInv, CallTypes
<1>2. /\ hub' \in [Users -> [Ids -> Entries]] /\ hub'[u][c] = e
      /\ \A v \in Users, d \in Ids : v # u \/ d # c => hub'[v][d] = hub[v][d]
  BY <1>1
<1>3. /\ row' \in [Users -> [Ids -> Rows]] /\ row'[u][c] = st
      /\ \A v \in Users, d \in Ids : v # u \/ d # c => row'[v][d] = row[v][d]
  BY <1>1
<1> QED
  BY <1>2, <1>3 DEF Same

LEMMA OneCellSteps ==
  ASSUME CallsInv, NEW u \in Users, NEW c \in Ids, NEW e \in Entries, NEW st \in Rows,
         hub' = [hub EXCEPT ![u][c] = e], row' = [row EXCEPT ![u][c] = st],
         (hub'[u][c] = e /\ row'[u][c] = st) => CellStep(u, c)
  PROVE  HubNext /\ hub'[u][c] = e /\ row'[u][c] = st
<1>1. /\ hub' \in [Users -> [Ids -> Entries]] /\ row' \in [Users -> [Ids -> Rows]]
      /\ hub'[u][c] = e /\ row'[u][c] = st
      /\ \A v \in Users, d \in Ids : v # u \/ d # c => Same(v, d)
  BY OneCell
<1>2. CellStep(u, c)
  BY <1>1
<1>3. CellSteps
  BY <1>1, <1>2 DEF CellSteps, CellStep
<1> QED
  BY <1>1, <1>3 DEF HubNext

LEMMA HasIs ==
  ASSUME CallsInv, NEW u \in Users, NEW c \in Ids, Has(u, c)
  PROVE  /\ hub[u][c] \in [dir : {"outgoing", "incoming"}, st : {"ringing", "connecting"}]
         /\ row[u][c] = hub[u][c].st /\ row[u][c] # "none"
<1>1. hub[u][c] \in Entries /\ hub[u][c] # NoCall /\ row[u][c] = hub[u][c].st
  BY DEF Has, CallsInv, CallTypes, EntriesFit, EntryFits
<1> QED
  BY <1>1 DEF Entries

LEMMA OverIs ==
  ASSUME CallsInv, NEW u \in Users, NEW c \in Ids, NEW before \in Seq(FramesFor(u)),
         Transition(u, c, "over", before), row[u][c] # "none"
  PROVE  HubNext /\ FramesNext
<1>1. /\ hub' = [hub EXCEPT ![u][c] = NoCall] /\ row' = [row EXCEPT ![u][c] = "over"]
      /\ Broadcast(u, before \o <<[t |-> "over", id |-> c]>>)
  BY DEF Transition
<1>2. HubNext
  <2>1. hub'[u][c] = NoCall /\ row'[u][c] = "over" => CellStep(u, c)
    BY DEF CellStep, Ends
  <2>2. NoCall \in Entries /\ "over" \in Rows
    BY NewCallIs DEF Rows
  <2> QED
    BY <1>1, <2>1, <2>2, OneCellSteps
<1>3. before \o <<[t |-> "over", id |-> c]>> \in Seq(FramesFor(u))
  <2>1. <<[t |-> "over", id |-> c]>> \in Seq(FramesFor(u))
    BY FramesAre
  <2> QED
    BY <2>1
<1>4. FramesNext
  BY <1>1, <1>3, BroadcastFits
<1> QED
  BY <1>2, <1>4

LEMMA ConnectingIs ==
  ASSUME CallsInv, NEW u \in Users, NEW c \in Ids, NEW before \in Seq(FramesFor(u)),
         Has(u, c), Connecting(u, c, before), c[1] = u => row[Peer(u)][c] \in Accepted
  PROVE  HubNext /\ FramesNext /\ row'[u][c] \in Accepted
<1>1. /\ hub[u][c] \in [dir : {"outgoing", "incoming"}, st : {"ringing", "connecting"}]
      /\ row[u][c] = hub[u][c].st
  BY HasIs
<1>2. CASE hub[u][c].st = "ringing"
  <2> DEFINE e == [hub[u][c] EXCEPT !.st = "connecting"]
  <2>1. /\ hub' = [hub EXCEPT ![u][c] = e] /\ row' = [row EXCEPT ![u][c] = "connecting"]
        /\ Broadcast(u, before \o <<>>)
    BY <1>2 DEF Connecting, Transition
  <2>2. e \in Entries /\ "connecting" \in Rows
    BY <1>1 DEF Entries, Rows
  <2>3. hub'[u][c] = e /\ row'[u][c] = "connecting" => CellStep(u, c)
    BY <1>2 DEF CellStep, Connects
  <2> HIDE DEF e
  <2>4. HubNext /\ row'[u][c] = "connecting"
    BY <2>1, <2>2, <2>3, OneCellSteps
  <2>5. before \o <<>> \in Seq(FramesFor(u))
    OBVIOUS
  <2>6. FramesNext
    BY <2>1, <2>5, BroadcastFits
  <2> QED
    BY <2>4, <2>6 DEF Accepted
<1>3. CASE hub[u][c].st # "ringing"
  <2>1. Broadcast(u, before) /\ UNCHANGED hubVars
    BY <1>3 DEF Connecting
  <2>2. row'[u][c] = "connecting"
    BY <1>1, <1>3, <2>1 DEF hubVars
  <2> QED
    BY <2>1, <2>2, BroadcastFits, PartsStay DEF Accepted
<1> QED
  BY <1>2, <1>3

(* A ring waits for ICE servers like an invite, and is no invite.          *)
LEMMA WillRingIs ==
  ASSUME CallsInv, NEW u \in Users, NEW c \in Ids, c[1] = Peer(u), WillRing(u, c)
  PROVE  ProvisionsKept
<1>1. provisions \in [Users -> SUBSET Ids] /\ c[1] # u
  BY PeerIs DEF CallsInv, CallTypes
<1>2. /\ provisions' \in [Users -> SUBSET Ids]
      /\ \A v \in Users : \A d \in provisions'[v] : d \in provisions[v] \/ (v = u /\ d = c)
  BY <1>1 DEF WillRing
<1> QED
  BY <1>1, <1>2 DEF ProvisionsKept, ProvisionsStep

LEMMA IncomingIs ==
  ASSUME CallsInv, NEW u \in Users, NEW c \in Ids, Incoming(u, c),
         c[1] = Peer(u), row[Peer(u)][c] # "none", Owed(sig, c) # {}, Owed(sig', c) = {}
  PROVE  HubNext /\ ProvisionsKept
<1>1. ProvisionsKept
  BY WillRingIs DEF Incoming
<1>2. CASE Has(u, c)
  <2>1. UNCHANGED hubVars
    BY <1>2 DEF Incoming, hubVars
  <2> QED
    BY <1>1, <2>1, PartsStay
<1>3. CASE ~Has(u, c)
  <2>1. /\ hub' = [hub EXCEPT ![u][c] = NewCall("incoming")]
        /\ row' = [row EXCEPT ![u][c] = "ringing"] /\ hub[u][c] = NoCall
    BY <1>3 DEF Incoming, Has
  <2>2. NewCall("incoming") \in Entries /\ "ringing" \in Rows
    BY NewCallIs DEF Rows
  <2>3. hub'[u][c] = NewCall("incoming") /\ row'[u][c] = "ringing" => CellStep(u, c)
    BY <2>1 DEF CellStep, Takes
  <2> QED
    BY <1>1, <2>1, <2>2, <2>3, OneCellSteps
<1> QED
  BY <1>2, <1>3

(* The answer to a POST changes only its stage.                            *)
LEMMA AnsweredIs ==
  ASSUME CallsInv, NEW s \in sig, NEW ok \in BOOLEAN, Answered(s, ok)
  PROVE  /\ SigNext
         /\ s.type = "offer" /\ s.stage = "sent" => Owed(sig, s.id) # {} /\ Owed(sig', s.id) = {}
<1>1. s \in Signals /\ SignalFits(s) /\ s.id \in Ids /\ s.id # NoId
  BY IdIs DEF CallsInv, CallTypes, SignalsFit, Signals
<1> PICK r : /\ r \in Signals /\ SignalFits(r) /\ r.stage # "sent" /\ r.then = s.then
             /\ sig' \subseteq (sig \ {s}) \union {r}
  <2> DEFINE r == [s EXCEPT !.stage = IF ok THEN "ok" ELSE "fail"]
  <2>1. /\ r \in Signals /\ r.stage # "sent" /\ r.then = s.then
        /\ r.from = s.from /\ r.id = s.id /\ r.type = s.type
    BY <1>1 DEF Signals
  <2>2. sig' \subseteq (sig \ {s}) \union {r}
    BY DEF Answered
  <2> HIDE DEF r
  <2>3. SignalFits(r)
    BY <1>1, <2>1 DEF SignalFits
  <2> QED
    BY <2>1, <2>2, <2>3
<1>2. ASSUME NEW c \in Ids
      PROVE  OwedStep(c) /\ (s \in Owed(sig, c) /\ s.then = NoId => Owed(sig', c) = {})
  <2>1. \A x, y \in Owed(sig, c) : x = y
    BY DEF CallsInv, OffersFit, OfferedOnce
  <2>2. \A x \in Owed(sig', c) : (x \in Owed(sig, c) /\ x # s) \/ (x = r /\ s \in Owed(sig, c) /\ s.then = c)
    BY DEF Owed
  <2>3. c # NoId
    BY IdIs
  <2> QED
    BY <2>1, <2>2, <2>3 DEF OwedStep
<1>3. SigNext
  <2>1. sig' \subseteq Signals
    BY DEF CallsInv, CallTypes
  <2> QED
    BY <1>2, <2>1 DEF SigNext, OwedSteps
<1>4. s.type = "offer" /\ s.stage = "sent" => s \in Owed(sig, s.id) /\ s.then = NoId
  BY <1>1 DEF Owed, SignalFits
<1> QED
  BY <1>1, <1>2, <1>3, <1>4

(* A POST that is no offer owes none.                                      *)
LEMMA RelayIs ==
  ASSUME CallsInv, NEW u \in Users, NEW c \in Ids,
         NEW type \in {"answer", "accept", "reject", "cancel"},
         NEW cont \in {"none", "over"}, Relay(u, c, type, cont),
         SignalFits(Signal(u, c, type, cont, NoId)) \/ SignalFits(Signal(u, c, type, cont, NoId))'
  PROVE  SigNext
<1> DEFINE r == Signal(u, c, type, cont, NoId)
<1>1. sig' = sig \union {r}
  BY DEF Relay
<1>2. r \in Signals /\ r.then = NoId /\ r.type # "offer"
  BY DEF Signal, Signals
<1> HIDE DEF r
<1>3. ASSUME NEW d \in Ids PROVE OwedStep(d)
  <2>1. Owed(sig', d) = Owed(sig, d)
    BY <1>1, <1>2, IdIs DEF Owed
  <2> QED
    BY <2>1 DEF OwedStep, CallsInv, OffersFit, OfferedOnce
<1>4. \A s \in sig' : s \in sig \/ SignalFits(s) \/ SignalFits(s)'
  <2>1. SignalFits(r) \/ SignalFits(r)'
    BY DEF r
  <2> QED
    BY <1>1, <2>1
<1>5. sig' \subseteq Signals
  BY <1>1, <1>2 DEF CallsInv, CallTypes
<1> QED
  BY <1>3, <1>4, <1>5 DEF SigNext, OwedSteps

-----------------------------------------------------------------------------
(* The steps of a hub.                                                     *)

LEMMA ReadySteps ==
  ASSUME CallsInv, NEW u \in Users, NEW c \in Ids, InviteReady(u, c)
  PROVE  CallsInv'
<1>1. /\ c \in provisions[u] /\ c[1] = u
      /\ provisions' = [provisions EXCEPT ![u] = provisions[u] \ {c}]
      /\ hub' = [hub EXCEPT ![u][c] = NewCall("outgoing")]
      /\ row' = [row EXCEPT ![u][c] = "ringing"]
      /\ UNCHANGED sig /\ UNCHANGED tab /\ UNCHANGED frames
  BY DEF InviteReady, tabVars
<1>2. provisions \in [Users -> SUBSET Ids]
  BY DEF CallsInv, CallTypes
<1>3. /\ provisions' \in [Users -> SUBSET Ids] /\ c \notin provisions'[u]
      /\ \A v \in Users : provisions'[v] \subseteq provisions[v]
  BY <1>1, <1>2
<1>4. HubNext
  <2>1. NewCall("outgoing") \in Entries /\ "ringing" \in Rows
    BY NewCallIs DEF Rows
  <2>2. hub'[u][c] = NewCall("outgoing") /\ row'[u][c] = "ringing" => CellStep(u, c)
    BY <1>1, <1>3 DEF CellStep, Begins
  <2> QED
    BY <1>1, <2>1, <2>2, OneCellSteps
<1>5. ProvisionsKept
  BY <1>3 DEF ProvisionsKept, ProvisionsStep
<1> QED
  BY <1>1, <1>4, <1>5, PartsStay, PartsNext

LEMMA RingSteps ==
  ASSUME CallsInv, NEW u \in Users, NEW c \in Ids, RingReady(u, c)
  PROVE  CallsInv'
<1>1. /\ c[1] # u /\ provisions' = [provisions EXCEPT ![u] = provisions[u] \ {c}]
      /\ Broadcast(u, Rings(c)) /\ UNCHANGED hubVars /\ UNCHANGED sig /\ UNCHANGED tab
  BY DEF RingReady, tabVars
<1>2. ProvisionsKept
  <2>1. provisions \in [Users -> SUBSET Ids]
    BY DEF CallsInv, CallTypes
  <2> QED
    BY <1>1, <2>1 DEF ProvisionsKept, ProvisionsStep
<1>3. Rings(c) \in Seq(FramesFor(u))
  BY <1>1, IdIs, PeerIs, FramesAre
<1>4. FramesNext
  BY <1>1, <1>3, BroadcastFits
<1> QED
  BY <1>1, <1>2, <1>4, PartsStay, PartsNext

LEMMA TickSteps ==
  ASSUME CallsInv, NEW u \in Users, NEW c \in Ids, Tick(u, c)
  PROVE  CallsInv'
<1>1. /\ Has(u, c) /\ Transition(u, c, "over", <<>>)
      /\ UNCHANGED sig /\ UNCHANGED tab /\ UNCHANGED provisions
  BY DEF Tick, tabVars
<1>2. <<>> \in Seq(FramesFor(u)) /\ row[u][c] # "none"
  BY <1>1, HasIs
<1>3. HubNext /\ FramesNext
  BY <1>1, <1>2, OverIs
<1> QED
  BY <1>1, <1>3, PartsStay, PartsNext

LEMMA EvictSteps ==
  ASSUME CallsInv, NEW u \in Users, Evict(u)
  PROVE  CallsInv'
<1>1. /\ sig' \subseteq sig /\ provisions' = [provisions EXCEPT ![u] = {}]
      /\ UNCHANGED hubVars /\ UNCHANGED tab /\ UNCHANGED frames
  BY DEF Evict, tabVars
<1>2. ProvisionsKept
  BY <1>1 DEF ProvisionsKept, ProvisionsStep, CallsInv, CallTypes
<1> QED
  BY <1>1, <1>2, PartsStay, PartsNext

(* A signal that is under way, and the hub it is for.                      *)
LEMMA SignalIs ==
  ASSUME CallsInv, NEW s \in sig
  PROVE  /\ s \in Signals /\ SignalFits(s) /\ s.from \in Users /\ s.id \in Ids
         /\ Peer(s.from) \in Users /\ Peer(Peer(s.from)) = s.from
         /\ s.id # NoId /\ (s.then # NoId => s.then \in Ids)
BY PeerIs, IdIs DEF CallsInv, CallTypes, SignalsFit, Signals

LEMMA CrossingIs ==
  ASSUME CallsInv, NEW u \in Users, NEW o \in Crossing(u)
  PROVE  o \in Ids /\ o[1] = u /\ row[u][o] # "none"
<1>1. o \in Ids /\ hub[u][o].dir = "outgoing"
  BY DEF Crossing
<1>2. Has(u, o) /\ EntryFits(u, o, hub[u][o], row[u][o])
  BY <1>1, NewCallIs DEF Has, CallsInv, EntriesFit
<1> QED
  BY <1>1, <1>2, HasIs DEF EntryFits

LEMMA PeerOfferSteps ==
  ASSUME CallsInv, NEW s \in sig, NEW ok \in BOOLEAN, PeerOffer(s, ok)
  PROVE  CallsInv'
<1> DEFINE u == Peer(s.from)
<1>1. /\ s.stage = "sent" /\ s.type = "offer" /\ UNCHANGED frames /\ UNCHANGED tab
  BY DEF PeerOffer, tabVars
<1>2. /\ s \in Signals /\ SignalFits(s) /\ s.from \in Users /\ s.id \in Ids /\ s.id # NoId
      /\ u \in Users /\ Peer(u) = s.from
  BY SignalIs
<1>3. s.id[1] = Peer(u) /\ row[Peer(u)][s.id] # "none" /\ s.then = NoId
  BY <1>1, <1>2 DEF SignalFits
<1>4. CASE Has(u, s.id) \/ Crossing(u) = {}
  <2>1. Incoming(u, s.id) /\ Answered(s, ok)
    BY <1>4 DEF PeerOffer
  <2>2. SigNext /\ Owed(sig, s.id) # {} /\ Owed(sig', s.id) = {}
    BY <1>1, <2>1, AnsweredIs
  <2>3. HubNext /\ ProvisionsKept
    <3> HIDE DEF u
    <3> QED
      BY <1>2, <1>3, <2>1, <2>2, IncomingIs
  <2> QED
    BY <1>1, <2>2, <2>3, PartsStay, PartsNext
<1>5. CASE ~(Has(u, s.id) \/ Crossing(u) = {}) /\ u = Low
  <2>1. Answered(s, ok) /\ UNCHANGED hubVars /\ UNCHANGED provisions
    BY <1>5 DEF PeerOffer
  <2>2. SigNext
    BY <2>1, AnsweredIs
  <2> QED
    BY <1>1, <2>1, <2>2, PartsStay, PartsNext
<1>6. CASE ~(Has(u, s.id) \/ Crossing(u) = {}) /\ u # Low
  <2>1. UNCHANGED hubVars /\ UNCHANGED provisions
    BY <1>6 DEF PeerOffer
  <2> DEFINE held == [s EXCEPT !.stage = "held"]
             next(o) == Signal(u, o, "cancel", "glare", s.id)
  <2>2. PICK o \in Crossing(u) : sig' = (sig \ {s}) \union {held, next(o)}
    BY <1>6 DEF PeerOffer
  <2>3. o \in Ids /\ o[1] = u /\ row[u][o] # "none"
    BY <1>2, CrossingIs
  <2>4. /\ held \in Signals /\ SignalFits(held) /\ held.then = NoId /\ held.stage = "held"
    <3>1. /\ held \in Signals /\ held.then = NoId /\ held.stage = "held"
          /\ held.from = s.from /\ held.id = s.id /\ held.type = s.type /\ held.then = s.then
      BY <1>2, <1>3 DEF Signals
    <3> HIDE DEF held
    <3> QED
      BY <1>2, <3>1 DEF SignalFits
  <2>5. /\ next(o) \in Signals /\ SignalFits(next(o)) /\ next(o).then = s.id
        /\ next(o).type = "cancel"
    <3>1. /\ next(o) \in Signals /\ next(o).then = s.id /\ next(o).type = "cancel"
          /\ next(o).from = u /\ next(o).id = o
      BY <1>2, <2>3 DEF Signal, Signals
    <3>2. s.id[1] = Peer(u) /\ row[s.id[1]][s.id] # "none"
      BY <1>3
    <3> HIDE DEF next, u
    <3> QED
      BY <1>2, <2>3, <3>1, <3>2 DEF SignalFits
  <2> HIDE DEF held, next, u
  <2>6. ASSUME NEW c \in Ids PROVE OwedStep(c)
    <3>1. \A x, y \in Owed(sig, c) : x = y
      BY DEF CallsInv, OffersFit, OfferedOnce
    <3>2. c # NoId
      BY IdIs
    <3>3. s \in Owed(sig, s.id)
      BY <1>1 DEF Owed
    <3>4. \A x \in Owed(sig', c) : (x \in Owed(sig, c) /\ x # s) \/ (x = next(o) /\ s.id = c)
      BY <2>2, <2>4, <2>5, <3>2 DEF Owed
    <3> QED
      BY <3>1, <3>3, <3>4 DEF OwedStep
  <2>7. SigNext
    <3>1. sig' \subseteq Signals
      BY <2>2, <2>4, <2>5 DEF CallsInv, CallTypes
    <3>2. \A x \in sig' : x \in sig \/ SignalFits(x)
      BY <2>2, <2>4, <2>5
    <3> QED
      BY <2>6, <3>1, <3>2 DEF SigNext, OwedSteps
  <2> QED
    BY <1>1, <2>1, <2>7, PartsStay, PartsNext
<1> QED
  BY <1>4, <1>5, <1>6

LEMMA PeerSignalSteps ==
  ASSUME CallsInv, NEW s \in sig, NEW ok \in BOOLEAN, PeerSignal(s, ok)
  PROVE  CallsInv'
<1> DEFINE u == Peer(s.from)
           c == s.id
<1>1. /\ s.type # "offer" /\ Answered(s, ok) /\ UNCHANGED provisions /\ UNCHANGED tab
  BY DEF PeerSignal, tabVars
<1>2. /\ s \in Signals /\ SignalFits(s) /\ c \in Ids /\ u \in Users /\ Peer(u) = s.from
  BY SignalIs
<1>3. SigNext
  BY <1>1, AnsweredIs
<1>4. CASE ~Has(u, c)
  <2>1. UNCHANGED hubVars /\ UNCHANGED frames
    BY <1>4 DEF PeerSignal
  <2> QED
    BY <1>1, <1>3, <2>1, PartsStay, PartsNext
<1>5. CASE Has(u, c)
  <2>1. row[u][c] # "none"
    BY <1>2, <1>5, HasIs
  <2>2. \A t \in {"answer", "accepted", "bye"} : <<[t |-> t, id |-> c]>> \in Seq(FramesFor(u))
    BY <1>2, FramesAre
  <2>3. CASE s.type \in {"answer", "accept"}
    <3>1. row[Peer(u)][c] \in Accepted
      BY <1>2, <2>3 DEF SignalFits
    <3>2. PICK t \in {"answer", "accepted"} : Connecting(u, c, <<[t |-> t, id |-> c]>>)
      BY <1>5, <2>3 DEF PeerSignal
    <3>3. <<[t |-> t, id |-> c]>> \in Seq(FramesFor(u))
      BY <2>2
    <3> HIDE DEF u, c
    <3>4. HubNext /\ FramesNext
      BY <1>2, <1>5, <3>1, <3>2, <3>3, ConnectingIs
    <3> QED
      BY <1>1, <1>3, <3>4, PartsStay, PartsNext
  <2>4. CASE s.type \in {"reject", "cancel"}
    <3>1. Transition(u, c, "over", <<[t |-> "bye", id |-> c]>>)
      BY <1>5, <2>4 DEF PeerSignal
    <3>2. <<[t |-> "bye", id |-> c]>> \in Seq(FramesFor(u))
      BY <2>2
    <3> HIDE DEF u, c
    <3>3. HubNext /\ FramesNext
      BY <1>2, <2>1, <3>1, <3>2, OverIs
    <3> QED
      BY <1>1, <1>3, <3>3, PartsStay, PartsNext
  <2> QED
    BY <1>1, <1>2, <2>3, <2>4 DEF Signals
<1> QED
  BY <1>4, <1>5

LEMMA UnansweredSteps ==
  ASSUME CallsInv, NEW s \in sig, Ignored(s) \/ Lost(s)
  PROVE  CallsInv'
<1>1. /\ Answered(s, TRUE) \/ Answered(s, FALSE)
      /\ UNCHANGED hubVars /\ UNCHANGED provisions /\ UNCHANGED tab /\ UNCHANGED frames
  BY DEF Ignored, Lost, tabVars
<1>2. SigNext
  BY <1>1, AnsweredIs
<1> QED
  BY <1>1, <1>2, PartsStay, PartsNext

LEMMA SettleSteps ==
  ASSUME CallsInv, NEW s \in sig, Settle(s)
  PROVE  CallsInv'
<1> DEFINE u == s.from
           o == s.id
           c == s.then
<1>1. /\ sig' \subseteq sig \ {s} /\ UNCHANGED tab
  BY DEF Settle, tabVars
<1>2. /\ SignalFits(s) /\ u \in Users /\ o \in Ids /\ row[u][o] # "none"
      /\ c # NoId => c \in Ids
  BY SignalIs DEF SignalFits
<1>3. CASE s.stage = "fail" \/ c = NoId
  <2>1. /\ \E before \in {<<>>, <<[t |-> "bye", id |-> o]>>} : Transition(u, o, "over", before)
        /\ UNCHANGED provisions
    BY <1>3 DEF Settle
  <2>2. \A before \in {<<>>, <<[t |-> "bye", id |-> o]>>} : before \in Seq(FramesFor(u))
    <3>1. \A t \in {"answer", "accepted", "bye"} : <<[t |-> t, id |-> o]>> \in Seq(FramesFor(u))
      BY <1>2, FramesAre
    <3>2. <<>> \in Seq(FramesFor(u))
      OBVIOUS
    <3> QED
      BY <3>1, <3>2
  <2> HIDE DEF u, o
  <2>3. HubNext /\ FramesNext
    BY <1>2, <2>1, <2>2, OverIs
  <2> QED
    BY <1>1, <2>1, <2>3, PartsStay, PartsNext
<1>4. CASE s.stage # "fail" /\ c # NoId
  <2> DEFINE e == NewCall("incoming")
  <2>1. /\ c \in Ids /\ o[1] = u /\ c[1] = Peer(u) /\ row[Peer(u)][c] # "none" /\ o # c
    BY <1>2, <1>4, PeerIs DEF SignalFits
  <2>2. hub \in [Users -> [Ids -> Entries]] /\ row \in [Users -> [Ids -> Rows]]
    BY DEF CallsInv, CallTypes
  <2>3. /\ hub' = [hub EXCEPT ![u][o] = NoCall, ![u][c] = e]
        /\ row' = [row EXCEPT ![u][o] = "over", ![u][c] = "ringing"]
        /\ Broadcast(u, <<[t |-> "over", id |-> o]>>) /\ WillRing(u, c)
    BY <1>4 DEF Settle
  <2>4. e \in Entries /\ NoCall \in Entries /\ {"ringing", "over"} \subseteq Rows
    BY NewCallIs DEF Rows
  <2> HIDE DEF e, u, o, c
  <2>5. Owed(sig, c) # {} /\ Owed(sig', c) = {}
    <3>1. s \in Owed(sig, c)
      BY DEF Owed, c
    <3>2. \A x, y \in Owed(sig, c) : x = y
      BY <2>1 DEF CallsInv, OffersFit, OfferedOnce
    <3>3. \A x \in Owed(sig', c) : x \in Owed(sig, c) /\ x # s
      BY <1>1 DEF Owed
    <3> QED
      BY <3>1, <3>2, <3>3
  <2>6. /\ hub' \in [Users -> [Ids -> Entries]] /\ hub'[u][o] = NoCall /\ hub'[u][c] = e
        /\ \A v \in Users, d \in Ids : v # u \/ (d # o /\ d # c) => hub'[v][d] = hub[v][d]
    BY <1>2, <2>1, <2>2, <2>3, <2>4
  <2>7. /\ row' \in [Users -> [Ids -> Rows]] /\ row'[u][o] = "over" /\ row'[u][c] = "ringing"
        /\ \A v \in Users, d \in Ids : v # u \/ (d # o /\ d # c) => row'[v][d] = row[v][d]
    BY <1>2, <2>1, <2>2, <2>3, <2>4
  <2>8. CellStep(u, o)
    BY <1>2, <2>6, <2>7 DEF CellStep, Ends
  <2>9. CellStep(u, c)
    <3>1. Peer(c[1]) = u
      BY <1>2, <2>1, PeerIs
    <3>2. row[u][c] = "none"
      BY <2>1, <2>5, <3>1 DEF CallsInv, OffersFit, OfferedOnce
    <3>3. hub[u][c] = NoCall
      <4>1. hub[u][c] \in Entries /\ (hub[u][c] # NoCall => hub[u][c].st = "none")
        BY <1>2, <2>1, <2>2, <3>2 DEF CallsInv, EntriesFit, EntryFits
      <4> QED
        BY <4>1 DEF Entries
    <3> QED
      BY <2>1, <2>5, <2>6, <2>7, <3>3 DEF CellStep, Takes, e
  <2>10. HubNext
    <3>1. ASSUME NEW v \in Users, NEW d \in Ids PROVE CellStep(v, d)
      BY <2>6, <2>7, <2>8, <2>9 DEF CellStep, Same
    <3> QED
      BY <2>6, <2>7, <3>1 DEF HubNext, CellSteps
  <2>11. FramesNext /\ ProvisionsKept
    <3>1. <<[t |-> "over", id |-> o]>> \in Seq(FramesFor(u))
      BY <1>2, FramesAre
    <3> QED
      BY <1>2, <2>1, <2>3, <3>1, BroadcastFits, WillRingIs
  <2>12. sig' \subseteq sig
    BY <1>1
  <2> QED
    BY <1>1, <2>10, <2>11, <2>12, PartsStay, PartsNext
<1> QED
  BY <1>3, <1>4

-----------------------------------------------------------------------------
(* The steps of a tab.                                                     *)

(* TabStep, for what a tab becomes.                                        *)
SaysFits(u, t) ==
  \A c \in Ids : c[1] = u /\ t.id = c /\ ~t.said =>
                   row[u][c] = "none" \/ (tab[u].id = c /\ ~tab[u].said)

LEMMA TabIs ==
  ASSUME CallsInv, NEW u \in Users, NEW t \in Tabs, tab' = [tab EXCEPT ![u] = t], TabFits(u, t),
         SaysFits(u, t)
  PROVE  TabNext
<1>1. tab \in [Users -> Tabs] /\ \A v \in Users : TabFits(v, tab[v])
  BY DEF CallsInv, CallTypes, TabsFit
<1>2. /\ tab' \in [Users -> Tabs] /\ tab'[u] = t
      /\ \A v \in Users : v # u => tab'[v] = tab[v]
  BY <1>1
<1>3. TabSteps
  BY <1>2 DEF TabSteps, TabStep, SaysFits
<1>4. TabsFit'
  BY <1>1, <1>2 DEF TabsFit
<1> QED
  BY <1>2, <1>3, <1>4 DEF TabNext

(* A tab that keeps its call, and has said no less.                        *)
LEMMA TabKeeps ==
  ASSUME CallsInv, NEW u \in Users, NEW t \in Tabs, tab' = [tab EXCEPT ![u] = t],
         t.id = tab[u].id, tab[u].said => t.said,
         t.ui = tab[u].ui \/ (t.ui \in {"connecting", "connected"} /\ tab[u].ui # "idle")
  PROVE  TabNext
<1>1. TabFits(u, tab[u])
  BY DEF CallsInv, TabsFit
<1>2. TabFits(u, t) /\ SaysFits(u, t)
  BY <1>1 DEF TabFits, SaysFits
<1> QED
  BY <1>2, TabIs

LEMMA IdleIs ==
  /\ IdleTab \in Tabs /\ IdleTab.id = NoId /\ IdleTab.ui = "idle"
  /\ \A u : TabFits(u, IdleTab)
BY DEF IdleTab, Tabs, TabFits

LEMMA TabIdles ==
  ASSUME CallsInv, NEW u \in Users, tab' = [tab EXCEPT ![u] = IdleTab]
  PROVE  TabNext
<1>1. \A c \in Ids : IdleTab.id # c
  BY IdleIs, IdIs
<1> DEFINE t == IdleTab
<1>2. /\ t \in Tabs /\ tab' = [tab EXCEPT ![u] = t] /\ TabFits(u, t)
      /\ SaysFits(u, t)
  BY <1>1, IdleIs DEF SaysFits
<1> HIDE DEF t
<1> QED
  BY <1>2, TabIs

LEMMA TabAt ==
  ASSUME CallsInv, NEW u \in Users
  PROVE  /\ tab[u] \in Tabs /\ TabFits(u, tab[u]) /\ tab \in [Users -> Tabs]
         /\ tab[u].id # NoId => tab[u].id \in Ids
BY DEF CallsInv, CallTypes, TabsFit, Tabs

(* A tab that rings for the other side.                                    *)
LEMMA TabRings ==
  ASSUME CallsInv, NEW u \in Users, NEW c \in Ids, c[1] = Peer(u),
         NEW t \in Tabs, tab' = [tab EXCEPT ![u] = t], t.id = c, t.ui = "incoming"
  PROVE  TabNext
<1>1. TabFits(u, t)
  BY IdIs DEF TabFits
<1>2. SaysFits(u, t)
  BY PeerIs DEF SaysFits
<1> QED
  BY <1>1, <1>2, TabIs

LEMMA DialSteps ==
  ASSUME CallsInv, NEW u \in Users, StartCall(u) \/ Placed(u, FALSE)
  PROVE  CallsInv'
<1>1. /\ UNCHANGED hubVars /\ UNCHANGED provisions /\ UNCHANGED sig /\ UNCHANGED tab
      /\ UNCHANGED frames
  BY DEF StartCall, Placed
<1> QED
  BY <1>1, PartsStay, PartsNext

LEMMA PlacedSteps ==
  ASSUME CallsInv, NEW u \in Users, Placed(u, TRUE)
  PROVE  CallsInv'
<1>1. /\ Fresh(u) # {} /\ UNCHANGED hubVars /\ UNCHANGED sig /\ UNCHANGED frames
  BY DEF Placed
<1> DEFINE Least(x) == \A y \in Fresh(u) : x[2] <= y[2]
           c == CHOOSE x \in Fresh(u) : Least(x)
           t == [IdleTab EXCEPT !.id = c, !.ui = "calling"]
<1>2. tab' = [tab EXCEPT ![u] = t] /\ provisions' = [provisions EXCEPT ![u] = provisions[u] \union {c}]
  BY DEF Placed
<1>3. c \in Fresh(u)
  <2> DEFINE S == {x[2] : x \in Fresh(u)}
  <2>1. S \in SUBSET Nat /\ S # {}
    BY <1>1, IdIs DEF Fresh
  <2>2. PICK n \in S : \A m \in S : n <= m
    <3> HIDE DEF S
    <3> QED
      BY <2>1, NatHasLeast
  <2>3. PICK x \in Fresh(u) : n = x[2]
    BY <2>2
  <2>4. Least(x)
    BY <2>2, <2>3
  <2> HIDE DEF Least
  <2> QED
    BY <2>4
<1> HIDE DEF c
<1>4. c \in Ids /\ c[1] = u /\ row[u][c] = "none"
  BY <1>3 DEF Fresh
<1>5. TabNext
  <2>1. t \in Tabs /\ t.id = c /\ t.ui = "calling"
    BY <1>4 DEF IdleTab, Tabs
  <2> HIDE DEF t
  <2>2. TabFits(u, t)
    BY <1>4, <2>1, IdIs DEF TabFits
  <2>3. SaysFits(u, t)
    BY <1>4, <2>1 DEF SaysFits
  <2> QED
    BY <1>2, <2>1, <2>2, <2>3, TabIs
<1>6. ProvisionsKept
  <2>1. provisions \in [Users -> SUBSET Ids]
    BY DEF CallsInv, CallTypes
  <2>2. /\ provisions' \in [Users -> SUBSET Ids] /\ provisions'[u] = provisions[u] \union {c}
        /\ \A v \in Users : v # u => provisions'[v] = provisions[v]
    BY <1>2, <1>4, <2>1
  <2> QED
    BY <1>4, <2>2 DEF ProvisionsKept, ProvisionsStep
<1> QED
  BY <1>1, <1>5, <1>6, PartsStay, PartsNext

LEMMA MakeOfferSteps ==
  ASSUME CallsInv, NEW u \in Users, MakeOffer(u)
  PROVE  CallsInv'
<1> DEFINE c == tab[u].id
           t == [tab[u] EXCEPT !.said = TRUE]
<1>1. /\ tab[u].ui = "calling" /\ ~tab[u].said
      /\ UNCHANGED hubVars /\ UNCHANGED provisions /\ UNCHANGED frames
      /\ tab' = [tab EXCEPT ![u].said = TRUE]
  BY DEF MakeOffer
<1>2. /\ tab[u] \in Tabs /\ TabFits(u, tab[u]) /\ tab \in [Users -> Tabs]
  BY TabAt
<1>3. c \in Ids /\ c[1] = u
  BY <1>1, <1>2, TabAt DEF TabFits
<1>4. tab' = [tab EXCEPT ![u] = t] /\ t \in Tabs /\ t.id = c /\ t.said /\ t.ui = tab[u].ui
  BY <1>1, <1>2 DEF Tabs
<1>5. TabNext
  <2> HIDE DEF t
  <2> QED
    BY <1>4, TabKeeps
<1>6. CASE ~Has(u, c)
  <2>1. UNCHANGED sig
    BY <1>6 DEF MakeOffer
  <2> QED
    BY <1>1, <1>5, <2>1, PartsStay, PartsNext
<1>7. CASE Has(u, c)
  <2> DEFINE r == Signal(u, c, "offer", "none", NoId)
  <2>1. sig' = sig \union {r}
    BY <1>7 DEF MakeOffer, Relay
  <2>2. row[u][c] # "none"
    BY <1>3, <1>7, HasIs
  <2>3. /\ r \in Signals /\ r.then = NoId /\ r.type = "offer" /\ r.id = c /\ r.from = u
    BY <1>3 DEF Signal, Signals
  <2>4. tab'[u].said
    BY <1>2, <1>4
  <2> HIDE DEF r, c, t
  <2>5. SignalFits(r)
    BY <1>3, <2>2, <2>3 DEF SignalFits
  <2>6. Unsaid(c) /\ Makes(c)
    BY <1>1, <1>3, <2>2, <2>4 DEF Unsaid, Makes, c, hubVars
  <2>7. ASSUME NEW d \in Ids PROVE OwedStep(d)
    <3>1. \A x, y \in Owed(sig, d) : x = y
      BY DEF CallsInv, OffersFit, OfferedOnce
    <3>2. CASE d = c
      <4>1. Owed(sig, c) = {}
        BY <1>3, <2>6 DEF CallsInv, OffersFit, OfferedOnce
      <4>2. Owed(sig', c) \subseteq {r}
        BY <2>1, <4>1 DEF Owed
      <4> QED
        BY <2>6, <3>2, <4>2 DEF OwedStep
    <3>3. CASE d # c
      <4>1. Owed(sig', d) = Owed(sig, d)
        BY <2>1, <2>3, <3>3, IdIs DEF Owed
      <4> QED
        BY <3>1, <4>1 DEF OwedStep
    <3> QED
      BY <3>2, <3>3
  <2>8. SigNext
    BY <2>1, <2>3, <2>5, <2>7 DEF SigNext, OwedSteps, CallsInv, CallTypes
  <2> QED
    BY <1>1, <1>5, <2>8, PartsStay, PartsNext
<1> QED
  BY <1>6, <1>7

(* The called side accepts, and answers.                                   *)
LEMMA AcceptIs ==
  ASSUME CallsInv, NEW u \in Users, NEW c \in Ids, c[1] # u,
         NEW type \in {"accept", "answer"}, NEW t \in Tabs, tab' = [tab EXCEPT ![u] = t],
         t.id = c, tab[u].id = c, tab[u].said => t.said, t.ui = "connecting", tab[u].ui # "idle",
         UNCHANGED provisions,
         IF Has(u, c) THEN Relay(u, c, type, "none") /\ Connecting(u, c, <<>>)
         ELSE UNCHANGED <<sig, hubVars, frames>>
  PROVE  CallsInv'
<1>1. TabNext
  BY TabKeeps
<1>2. CASE ~Has(u, c)
  <2>1. UNCHANGED sig /\ UNCHANGED hubVars /\ UNCHANGED frames
    BY <1>2
  <2> QED
    BY <1>1, <2>1, PartsStay, PartsNext
<1>3. CASE Has(u, c)
  <2>1. Relay(u, c, type, "none") /\ Connecting(u, c, <<>>)
    BY <1>3
  <2>2. <<>> \in Seq(FramesFor(u))
    OBVIOUS
  <2>3. HubNext /\ FramesNext /\ row'[u][c] \in Accepted
    BY <1>3, <2>1, <2>2, ConnectingIs
  <2> DEFINE r == Signal(u, c, type, "none", NoId)
  <2>4. r.from = u /\ r.id = c /\ r.type = type /\ r.then = NoId
    BY DEF Signal
  <2>5. c[1] = Peer(u)
    BY IdIs, PeerIs
  <2>6. SignalFits(r)'
    <3> HIDE DEF r
    <3>1. row'[u][c] # "none"
      BY <2>3 DEF Accepted
    <3> QED
      BY <2>3, <2>4, <2>5, <3>1 DEF SignalFits
  <2>7. SigNext
    BY <2>1, <2>6, RelayIs
  <2> QED
    BY <1>1, <2>3, <2>7, PartsStay, PartsNext
<1> QED
  BY <1>2, <1>3

LEMMA AcceptSteps ==
  ASSUME CallsInv, NEW u \in Users, Accept(u) \/ SendAnswer(u)
  PROVE  CallsInv'
<1> DEFINE c == tab[u].id
<1>1. /\ tab[u] \in Tabs /\ TabFits(u, tab[u]) /\ tab \in [Users -> Tabs]
      /\ UNCHANGED provisions
  BY TabAt DEF Accept, SendAnswer
<1>2. CASE Accept(u)
  <2> DEFINE t == [tab[u] EXCEPT !.ui = "connecting"]
  <2>1. /\ tab[u].ui = "incoming" /\ tab' = [tab EXCEPT ![u].ui = "connecting"]
        /\ IF Has(u, c) THEN Relay(u, c, "accept", "none") /\ Connecting(u, c, <<>>)
           ELSE UNCHANGED <<sig, hubVars, frames>>
    BY <1>2 DEF Accept
  <2>2. c[1] = Peer(u) /\ c[1] # u
    BY <1>1, <2>1, PeerIs DEF TabFits
  <2>3. c \in Ids
    BY <1>1, <2>1, TabAt DEF TabFits
  <2>4. /\ tab' = [tab EXCEPT ![u] = t] /\ t \in Tabs /\ t.id = c
        /\ t.said = tab[u].said /\ t.ui = "connecting"
    BY <1>1, <2>1 DEF Tabs
  <2> HIDE DEF t, c
  <2> QED
    BY <1>1, <2>1, <2>2, <2>3, <2>4, AcceptIs DEF c
<1>3. CASE SendAnswer(u)
  <2> DEFINE t == [tab[u] EXCEPT !.said = TRUE]
  <2>1. /\ tab[u].ui = "connecting" /\ c[1] # u /\ tab' = [tab EXCEPT ![u].said = TRUE]
        /\ IF Has(u, c) THEN Relay(u, c, "answer", "none") /\ Connecting(u, c, <<>>)
           ELSE UNCHANGED <<sig, hubVars, frames>>
    BY <1>3 DEF SendAnswer
  <2>4. /\ tab' = [tab EXCEPT ![u] = t] /\ t \in Tabs /\ t.id = c
        /\ t.said /\ t.ui = "connecting"
    BY <1>1, <2>1 DEF Tabs
  <2>5. c \in Ids
    BY <1>1, <2>1, TabAt DEF TabFits
  <2> HIDE DEF t, c
  <2> QED
    BY <1>1, <2>1, <2>4, <2>5, AcceptIs DEF c
<1> QED
  BY <1>2, <1>3

(* A POST that declines or ends a call.                                    *)
LEMMA DeclineIs ==
  ASSUME CallsInv, NEW u \in Users, NEW c \in Ids, NEW type \in {"reject", "cancel"},
         Has(u, c), Relay(u, c, type, "over")
  PROVE  SigNext
<1> DEFINE r == Signal(u, c, type, "over", NoId)
<1>1. row[u][c] # "none"
  BY HasIs
<1>2. r.from = u /\ r.id = c /\ r.type = type /\ r.then = NoId
  BY DEF Signal
<1>3. SignalFits(r)
  <2> HIDE DEF r
  <2> QED
    BY <1>1, <1>2 DEF SignalFits
<1> QED
  BY <1>3, RelayIs

LEMMA LeaveSteps ==
  ASSUME CallsInv, NEW u \in Users, NEW type \in {"reject", "cancel"}, Leave(u, type)
  PROVE  CallsInv'
<1> DEFINE c == tab[u].id
<1>1. /\ c # NoId /\ tab' = [tab EXCEPT ![u] = IdleTab]
      /\ UNCHANGED hubVars /\ UNCHANGED provisions /\ UNCHANGED frames
      /\ IF Has(u, c) THEN Relay(u, c, type, "over") ELSE UNCHANGED sig
  BY DEF Leave
<1>2. c \in Ids
  BY <1>1, TabAt
<1> HIDE DEF c
<1>3. SigNext
  BY <1>1, <1>2, DeclineIs, PartsStay
<1> QED
  BY <1>1, <1>3, TabIdles, PartsStay, PartsNext

LEMMA MediaSteps ==
  ASSUME CallsInv, NEW u \in Users, MediaFlows(u) \/ MediaFails(u)
  PROVE  CallsInv'
<1>1. /\ UNCHANGED hubVars /\ UNCHANGED provisions /\ UNCHANGED sig /\ UNCHANGED frames
      /\ tab \in [Users -> Tabs] /\ tab[u] \in Tabs
  BY TabAt DEF MediaFlows, MediaFails
<1>2. CASE MediaFlows(u)
  <2> DEFINE t == [tab[u] EXCEPT !.ui = "connected"]
  <2>1. tab[u].ui # "idle" /\ tab' = [tab EXCEPT ![u].ui = "connected"]
    BY <1>2 DEF MediaFlows
  <2>2. /\ tab' = [tab EXCEPT ![u] = t] /\ t \in Tabs /\ t.id = tab[u].id
        /\ t.said = tab[u].said /\ t.ui = "connected"
    BY <1>1, <2>1 DEF Tabs
  <2> HIDE DEF t
  <2>3. TabNext
    BY <2>1, <2>2, TabKeeps
  <2> QED
    BY <1>1, <2>3, PartsStay, PartsNext
<1>3. CASE MediaFails(u)
  <2>1. TabNext
    BY <1>3, TabIdles DEF MediaFails
  <2> QED
    BY <1>1, <2>1, PartsStay, PartsNext
<1> QED
  BY <1>2, <1>3

LEMMA SocketSteps ==
  ASSUME CallsInv, NEW u \in Users, Drop(u) \/ Reconnect(u)
  PROVE  CallsInv'
<1>1. /\ UNCHANGED hubVars /\ UNCHANGED provisions /\ UNCHANGED sig /\ UNCHANGED tab
  BY DEF Drop, Reconnect
<1>2. DOMAIN frames = Users /\ \A v \in Users : frames[v] \in Seq(FramesFor(v))
  BY DEF CallsInv, CallTypes
<1> DEFINE c == tab[u].id
<1>3. PICK q \in {<<>>, <<[t |-> "over", id |-> c]>>} :
        /\ frames' = [frames EXCEPT ![u] = q]
        /\ q # <<>> => c # NoId
  BY DEF Drop, Reconnect
<1>4. q \in Seq(FramesFor(u))
  <2>1. CASE q = <<>>
    BY <2>1
  <2>2. CASE q # <<>>
    <3>1. c \in Ids /\ q = <<[t |-> "over", id |-> c]>>
      BY <1>3, <2>2, TabAt
    <3>2. \A t \in {"answer", "accepted", "bye", "over"} : <<[t |-> t, id |-> c]>> \in Seq(FramesFor(u))
      BY <3>1, FramesAre
    <3> QED
      BY <3>1, <3>2
  <2> QED
    BY <2>1, <2>2
<1>5. FramesNext
  BY <1>2, <1>3, <1>4 DEF FramesNext
<1> QED
  BY <1>1, <1>5, PartsStay, PartsNext

LEMMA OnFrameSteps ==
  ASSUME CallsInv, NEW u \in Users, OnFrame(u)
  PROVE  CallsInv'
<1> DEFINE f == Head(frames[u])
           t == tab[u]
           busy == f.t = "ringing" /\ t.id # NoId
           next == CASE f.t = "ringing" /\ ~busy -> [IdleTab EXCEPT !.id = f.id, !.ui = "incoming"]
                     [] busy -> t
                     [] f.t = "offer" -> RemoteOffer(t, f.id)
                     [] f.t = "answer" -> IF t.id = f.id THEN [t EXCEPT !.remote = TRUE] ELSE t
                     [] f.t = "accepted" -> IF t.ui = "calling" THEN [t EXCEPT !.ui = "connecting"] ELSE t
                     [] f.t = "bye" -> IdleTab
                     [] f.t = "over" -> IF t.id = f.id THEN IdleTab ELSE t
<1>1. /\ frames[u] # <<>> /\ frames' = [frames EXCEPT ![u] = Tail(frames[u])]
      /\ tab' = [tab EXCEPT ![u] = next]
      /\ IF busy /\ Has(u, f.id) THEN Relay(u, f.id, "reject", "over") ELSE UNCHANGED sig
      /\ UNCHANGED hubVars /\ UNCHANGED provisions
  BY DEF OnFrame
<1>2. /\ DOMAIN frames = Users /\ \A v \in Users : frames[v] \in Seq(FramesFor(v))
      /\ t \in Tabs
  BY TabAt DEF CallsInv, CallTypes
<1>3. f \in FramesFor(u) /\ Tail(frames[u]) \in Seq(FramesFor(u))
  <2>1. frames[u] \in Seq(FramesFor(u)) /\ frames[u] # <<>>
    BY <1>1, <1>2
  <2> QED
    BY <2>1
<1>4. FramesNext
  BY <1>1, <1>2, <1>3 DEF FramesNext
<1> HIDE DEF f
<1>5. /\ f.t \in {"ringing", "offer", "answer", "accepted", "bye", "over"} /\ f.id \in Ids
      /\ f.t \in {"ringing", "offer"} => f.id[1] = Peer(u)
  BY <1>3 DEF FramesFor
<1>6. SigNext
  <2>1. CASE busy /\ Has(u, f.id)
    BY <1>1, <1>5, <2>1, DeclineIs
  <2>2. CASE ~(busy /\ Has(u, f.id))
    BY <1>1, <2>2, PartsStay
  <2> QED
    BY <2>1, <2>2
<1>7. \/ next = IdleTab
      \/ next = t
      \/ next = [t EXCEPT !.remote = TRUE]
      \/ t.ui = "calling" /\ next = [t EXCEPT !.ui = "connecting"]
      \/ f.t = "ringing" /\ next = [IdleTab EXCEPT !.id = f.id, !.ui = "incoming"]
      \/ f.t = "offer" /\ next = [IdleTab EXCEPT !.id = f.id, !.ui = "incoming", !.remote = TRUE]
  BY <1>5 DEF RemoteOffer
<1> HIDE DEF next, busy
<1>8. TabNext
  <2>1. CASE next = IdleTab
    BY <1>1, <2>1, TabIdles
  <2>2. CASE next = t \/ next = [t EXCEPT !.remote = TRUE] \/ (t.ui = "calling" /\ next = [t EXCEPT !.ui = "connecting"])
    <3>1. /\ next \in Tabs /\ next.id = t.id /\ next.said = t.said
          /\ next.ui = t.ui \/ (next.ui = "connecting" /\ t.ui # "idle")
      BY <1>2, <2>2 DEF Tabs
    <3> QED
      BY <1>1, <3>1, TabKeeps
  <2>3. CASE \/ f.t = "ringing" /\ next = [IdleTab EXCEPT !.id = f.id, !.ui = "incoming"]
             \/ f.t = "offer" /\ next = [IdleTab EXCEPT !.id = f.id, !.ui = "incoming", !.remote = TRUE]
    <3>1. next \in Tabs /\ next.id = f.id /\ next.ui = "incoming" /\ f.id[1] = Peer(u)
      BY <1>5, <2>3 DEF Tabs, IdleTab
    <3> QED
      BY <1>1, <1>5, <3>1, TabRings
  <2> QED
    BY <1>7, <2>1, <2>2, <2>3
<1> QED
  BY <1>1, <1>4, <1>6, <1>8, PartsStay, PartsNext

LEMMA CallsNext ==
  ASSUME CallsInv, Next
  PROVE  CallsInv'
<1>1. ASSUME NEW u \in Users,
             \/ HubStep(u) \/ Evict(u)
             \/ StartCall(u) \/ (\E ok \in BOOLEAN : Placed(u, ok))
             \/ MakeOffer(u) \/ Accept(u) \/ SendAnswer(u)
             \/ \E type \in {"reject", "cancel"} : Leave(u, type)
             \/ MediaFlows(u) \/ MediaFails(u) \/ Drop(u) \/ Reconnect(u)
             \/ \E c \in Ids : Tick(u, c)
      PROVE  CallsInv'
  <2>1. CASE HubStep(u) \/ Evict(u) \/ \E c \in Ids : Tick(u, c)
    BY <2>1, ReadySteps, RingSteps, OnFrameSteps, EvictSteps, TickSteps DEF HubStep
  <2>2. CASE \/ StartCall(u) \/ (\E ok \in BOOLEAN : Placed(u, ok))
             \/ MakeOffer(u) \/ Accept(u) \/ SendAnswer(u)
    BY <2>2, DialSteps, PlacedSteps, MakeOfferSteps, AcceptSteps
  <2>3. CASE \/ \E type \in {"reject", "cancel"} : Leave(u, type)
             \/ MediaFlows(u) \/ MediaFails(u) \/ Drop(u) \/ Reconnect(u)
    BY <2>3, LeaveSteps, MediaSteps, SocketSteps
  <2> QED
    BY <1>1, <2>1, <2>2, <2>3
<1>2. ASSUME NEW s \in sig,
             \/ \E ok \in BOOLEAN : PeerOffer(s, ok) \/ PeerSignal(s, ok)
             \/ Ignored(s) \/ Lost(s) \/ Settle(s)
      PROVE  CallsInv'
  BY <1>2, PeerOfferSteps, PeerSignalSteps, UnansweredSteps, SettleSteps
<1> QED
  BY <1>1, <1>2 DEF Next

LEMMA CallsStay ==
  ASSUME CallsInv, UNCHANGED vars
  PROVE  CallsInv'
<1>1. /\ UNCHANGED hubVars /\ UNCHANGED provisions /\ UNCHANGED sig /\ UNCHANGED tab
      /\ UNCHANGED frames
  BY DEF vars, hubVars, tabVars
<1> QED
  BY <1>1, PartsStay, PartsNext

-----------------------------------------------------------------------------
(* The parts together.                                                     *)

TalkInv == CallsInv /\ RelayInv /\ (part = "stream" => StreamInv)
RelaySound == part = "relay" => Relaying!TypeOK /\ Relaying!SlotsMatch

talkVars == <<part, vars, relayVars, streamVars>>

LEMMA TalkInit == MCInit => TalkInv
BY CallsInit, RelayInit, StreamInit DEF MCInit, TalkInv

LEMMA RelayStays ==
  ASSUME RelayInv, UNCHANGED relayVars
  PROVE  RelayInv'
<1>1. UNCHANGED <<call, journal, used, jobs, slots, worker, taken>>
  BY DEF relayVars
<1> QED
  BY <1>1 DEF RelayInv, JournalFits, SlotsSound, Carrying, Out

LEMMA RelayFollows ==
  ASSUME RelayInv
  PROVE  Relaying!TypeOK /\ Relaying!SlotsMatch
<1>1. Relaying!TypeOK
  BY RelayCounts DEF RelayInv, RelayCalls, JournalFits, SlotsSound, Relaying!TypeOK
<1>2. Relaying!SlotsMatch
  BY RelayCounts DEF RelayInv, SlotsSound, Out, Carrying, Relaying!SlotsMatch
<1> QED
  BY <1>1, <1>2

LEMMA TalkNext ==
  ASSUME TalkInv, [MCNext]_talkVars
  PROVE  /\ TalkInv'
         /\ used' = used /\ <<jobs, worker>>' # <<jobs, worker>> => OwnResult
<1>1. /\ part' = part
      /\ Next \/ UNCHANGED vars
      /\ Relaying!Next \/ UNCHANGED relayVars
      /\ part = "stream" => Stream!Next \/ UNCHANGED streamVars
  BY DEF MCNext, HubsStep, RelayStep, StreamStep, talkVars
<1>2. CallsInv'
  BY <1>1, CallsNext, CallsStay DEF TalkInv
<1>3. /\ RelayInv'
      /\ used' = used /\ <<jobs, worker>>' # <<jobs, worker>> => OwnResult
  <2>1. CASE Relaying!Next
    BY <2>1, RelayNext DEF TalkInv
  <2>2. CASE UNCHANGED relayVars
    <3>1. UNCHANGED <<jobs, worker>>
      BY <2>2 DEF relayVars
    <3> QED
      BY <2>2, <3>1, RelayStays DEF TalkInv
  <2> QED
    BY <1>1, <2>1, <2>2
<1>4. part' = "stream" => StreamInv'
  BY <1>1, StreamNext, StreamStays DEF TalkInv
<1> QED
  BY <1>2, <1>3, <1>4 DEF TalkInv

LEMMA TalkAlways == MCSpec => []TalkInv
<1>1. TalkInv /\ [MCNext]_talkVars => TalkInv'
  BY TalkNext
<1> QED
  BY <1>1, TalkInit, PTL DEF MCSpec, talkVars

(* Whatever is lost, late, crossed or evicted, a hub rings only for a call *)
(* its peer has, and takes a call for connecting only when the other side  *)
(* has accepted it: an offer is made once, and taken once, directly or     *)
(* after a glare (handleInboundSignal, onPeerOffer, onPeerAccept).         *)
THEOREM CallsDoAgree == MCSpec => []CallsAgree
<1>1. TalkInv => CallsAgree
  BY CallsFollow DEF TalkInv
<1> QED
  BY <1>1, TalkAlways, PTL

(* For any number of effects, generations and jobs activeJobs is the       *)
(* number of sends and reports under way, and a result of an earlier call  *)
(* with the same id never ends the call that has the id now (handle,       *)
(* deliver, completeDeferredRelay).                                        *)
THEOREM RelayStaysOwn == MCSpec => RelayIsOwn
<1>1. TalkInv => RelaySound
  BY RelayFollows DEF TalkInv, RelaySound
<1>2. TalkInv /\ [MCNext]_talkVars =>
        [Relaying!Active /\ call'.st = "none" /\ used' = used
           /\ <<jobs, worker>>' # <<jobs, worker>>
         => \E e \in journal \ journal' : e.gen = call.gen]_(Relaying!vars)
  BY TalkNext DEF OwnResult
<1> QED
  BY <1>1, <1>2, TalkAlways, PTL
     DEF MCSpec, talkVars, RelayIsOwn, RelaySound, Relaying!OwnGenerationOnly

(* For any number of events and any size of the ring buffer, and wherever  *)
(* its sockets dropped, a browser that was greeted and has nothing under   *)
(* way lacks no event but those that it had missed when an event reached   *)
(* it on a socket that was gone before its hello was answered: that next   *)
(* hello names the event, and the older ones are not replayed              *)
(* (handleEmit, socketMessage, onmessage; skipped in Drop).                *)
THEOREM BrowserCaughtUp == MCSpec => []CaughtUp
<1>1. TalkInv => CaughtUp
  BY StreamFollows DEF TalkInv, CaughtUp
<1> QED
  BY <1>1, TalkAlways, PTL

=============================================================================
