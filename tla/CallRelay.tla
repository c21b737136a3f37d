------------------------------ MODULE CallRelay ------------------------------
(***************************************************************************)
(* Signals of a hub that runs as an Actor (runtime/call-signaling-         *)
(* runtime.ts): an Actor may not wait for a peer inside one of its turns.  *)
(* It journals an effect (runtime/call-relay-journal.ts), gives the job to *)
(* a dispatcher (runtime/call-dispatcher.ts) and learns the outcome from a *)
(* callback; what is not reported by its deadline counts as failed.  The   *)
(* cancellation that glare asks for goes through the worker that brought   *)
(* the offer (runtime/call-signaling-worker.ts).                           *)
(*                                                                         *)
(* One call id; an invite that uses it again has another generation.       *)
(***************************************************************************)
EXTENDS Naturals, FiniteSets

CONSTANTS
  Effects,      \* bound: ids of effects
  MaxGen,       \* bound: generations of the call
  MaxPending,   \* CALL_RELAY_MAX_PENDING (64)
  MaxJobs       \* MAX_ACTIVE_JOBS of the dispatcher (8)

VARIABLES
  call,         \* [gen, st]: the call of the id, st "none" when there is none
  journal,      \* effects: [id, gen, cont, late]
  used,         \* ids of effects given out
  jobs,         \* [Effects -> stage at the dispatcher]
  slots,        \* activeJobs of the dispatcher
  worker,       \* id of the effect the worker carries, and how far it is
  taken         \* the offer that crossed was taken

vars == <<call, journal, used, jobs, slots, worker, taken>>

NoEffect == "none"
Idle == [id |-> NoEffect, at |-> "idle", ok |-> FALSE]
Active == call.st # "none"
Over(c) == [c EXCEPT !.st = "none"]

Init ==
  /\ call = [gen |-> 0, st |-> "none"] /\ journal = {} /\ used = {}
  /\ jobs = [e \in Effects |-> "none"] /\ slots = 0
  /\ worker = Idle /\ taken = FALSE

-----------------------------------------------------------------------------
(* The turn of the Actor: withHub first fails what is past its deadline.   *)

LateOnes == {e \in journal : e.late}

(* Mutant of Concerns: by the call id alone.                               *)
ConcernsAny(e) == Active
(* completeDeferredRelay: the call is there, and is the one it was for.    *)
Concerns(e) == Active /\ e.gen = call.gen

Swept == IF \E e \in LateOnes : Concerns(e) THEN Over(call) ELSE call
Kept == journal \ LateOnes

(* Journal.prepare, for a call after the sweep.                            *)
Prepared(id, cont) == [id |-> id, gen |-> call.gen, cont |-> cont, late |-> FALSE]
Room == Cardinality(Kept) < MaxPending

Invite ==
  /\ call.gen < MaxGen /\ Swept.st = "none"
  /\ call' = [gen |-> call.gen + 1, st |-> "ringing"]
  /\ journal' = Kept
  /\ UNCHANGED <<used, jobs, slots, worker, taken>>

(* A frame of the tab that is relayed: an offer leaves the call as it is,  *)
(* accept and answer have it connect at once, reject and hangup end it     *)
(* when the peer has answered.  The dispatcher takes the job, refuses it,  *)
(* or takes it and is not heard: then the effect is forgotten and the call *)
(* has failed.                                                             *)
Frame(id, type, heard) ==
  LET admitted == slots < MaxJobs IN
  /\ Swept.st # "none" /\ id \notin used
  /\ used' = used \union {id}
  /\ IF Room /\ admitted
     THEN jobs' = [jobs EXCEPT ![id] = "sending"] /\ slots' = slots + 1
     ELSE UNCHANGED <<jobs, slots>>
  /\ IF Room /\ admitted /\ heard
     THEN /\ journal' = Kept \union {Prepared(id, IF type = "hangup" THEN "over" ELSE "none")}
          /\ call' = IF type = "accept" THEN [call EXCEPT !.st = "connecting"] ELSE call
     ELSE journal' = Kept /\ call' = Over(call)
  /\ UNCHANGED <<worker, taken>>

(* The alarm: the sweep, and the calls that take too long.                 *)
Alarm(expired) ==
  /\ Active \/ journal # {}
  /\ call' = IF expired THEN Over(Swept) ELSE Swept
  /\ journal' = Kept
  /\ UNCHANGED <<used, jobs, slots, worker, taken>>

DeadlinePasses(e) ==
  /\ ~e.late
  /\ journal' = (journal \ {e}) \union {[e EXCEPT !.late = TRUE]}
  /\ UNCHANGED <<call, used, jobs, slots, worker, taken>>

-----------------------------------------------------------------------------
(* The dispatcher.                                                         *)

(* sendOnce: what the peer says before the deadline.                       *)
Send(id, ok) ==
  /\ jobs[id] = "sending"
  /\ jobs' = [jobs EXCEPT ![id] = IF ok THEN "acked" ELSE "failed"]
  /\ UNCHANGED <<call, journal, used, slots, worker, taken>>

(* lookup: the effect is journaled and in time.                            *)
Found(id) == {e \in journal : e.id = id /\ ~e.late}

(* _relay-result and _continue: a result is used once, for its call.       *)
Completed(e, ok) ==
  IF ~Concerns(e) THEN call
  ELSE IF ok /\ e.cont = "none" THEN call ELSE Over(call)

Released(arrives) == slots - 1

(* deliver reports the outcome, in vain perhaps, and gives up its slot.    *)
Report(id, arrives) ==
  /\ jobs[id] \in {"acked", "failed"}
  /\ jobs' = [jobs EXCEPT ![id] = "none"] /\ slots' = Released(arrives)
  /\ IF ~arrives \/ Found(id) = {} THEN UNCHANGED <<call, journal>>
     ELSE \E e \in Found(id) :
       /\ call' = IF Swept.st = "none" THEN Swept ELSE Completed(e, jobs[id] = "acked")
       /\ journal' = Kept \ {e}
  /\ UNCHANGED <<used, worker, taken>>

(* The dispatcher's isolate is replaced: its jobs and counters are gone.   *)
DispatcherDies ==
  /\ slots > 0 /\ slots' = 0
  /\ jobs' = [e \in Effects |-> "none"]
  /\ worker' = IF worker.at = "sending" THEN [worker EXCEPT !.at = "continue"] ELSE worker
  /\ UNCHANGED <<call, journal, used, taken>>

-----------------------------------------------------------------------------
(* Glare at the polite side: deliverCallSignalThroughActor.                *)

(* _ingest: an offer crosses our ringing call; a cancellation is prepared, *)
(* or, when there is no room for it, the call has failed.                  *)
Ingest(id) ==
  /\ worker = Idle /\ ~taken /\ id \notin used
  /\ Swept.st = "ringing"
  /\ IF Room
     THEN /\ used' = used \union {id}
          /\ journal' = Kept \union {Prepared(id, "glare")} /\ call' = Swept
          /\ worker' = [id |-> id, at |-> "send", ok |-> FALSE]
     ELSE /\ journal' = Kept /\ call' = Over(Swept)
          /\ UNCHANGED <<used, worker>>
  /\ UNCHANGED <<jobs, slots, taken>>

(* /_send takes a slot for as long as the POST lasts.                      *)
WorkerSends ==
  /\ worker.at = "send"
  /\ IF slots < MaxJobs
     THEN slots' = slots + 1 /\ worker' = [worker EXCEPT !.at = "sending"]
     ELSE worker' = [worker EXCEPT !.at = "continue"] /\ UNCHANGED slots
  /\ UNCHANGED <<call, journal, used, jobs, taken>>

WorkerHears(ok) ==
  /\ worker.at = "sending"
  /\ slots' = slots - 1
  /\ worker' = [worker EXCEPT !.at = "continue", !.ok = ok]
  /\ UNCHANGED <<call, journal, used, jobs, taken>>

(* _continue: the cancelled call goes and the offer is taken, or both are  *)
(* given up.                                                               *)
Continue ==
  LET found == Found(worker.id) IN
  /\ worker.at = "continue" /\ worker' = Idle
  /\ IF found = {} THEN UNCHANGED <<call, journal, taken>>
     ELSE \E e \in found :
       /\ call' = IF Swept.st = "none" THEN Swept ELSE Completed(e, worker.ok)
       /\ journal' = Kept \ {e}
       /\ taken' = (taken \/ (worker.ok /\ Swept.st # "none" /\ Concerns(e)))
  /\ UNCHANGED <<used, jobs, slots>>

(* The request that brought the offer is gone.                             *)
WorkerDies ==
  /\ worker.at \in {"send", "continue"} /\ worker' = Idle
  /\ UNCHANGED <<call, journal, used, jobs, slots, taken>>

-----------------------------------------------------------------------------
Next ==
  \/ Invite \/ DispatcherDies \/ WorkerSends \/ Continue \/ WorkerDies
  \/ \E id \in Effects, type \in {"offer", "accept", "hangup"}, heard \in BOOLEAN :
       Frame(id, type, heard)
  \/ \E expired \in BOOLEAN : Alarm(expired)
  \/ \E e \in journal : DeadlinePasses(e)
  \/ \E id \in Effects, b \in BOOLEAN : Send(id, b) \/ Report(id, b)
  \/ \E id \in Effects : Ingest(id)
  \/ \E ok \in BOOLEAN : WorkerHears(ok)

Spec == Init /\ [][Next]_vars

TypeOK ==
  /\ call.gen \in 0..MaxGen /\ call.st \in {"none", "ringing", "connecting"}
  /\ Cardinality(journal) <= MaxPending
  /\ used \subseteq Effects /\ slots \in 0..MaxJobs /\ taken \in BOOLEAN

(* No slot of the dispatcher is lost or given twice, whatever job fails,   *)
(* is not reported or dies: activeJobs is the number of sends and reports  *)
(* under way (handle, deliver).                                            *)
SlotsMatch ==
  slots = Cardinality({e \in Effects : jobs[e] # "none"})
            + (IF worker.at = "sending" THEN 1 ELSE 0)

(* A result of an earlier call with the same id never ends the call that   *)
(* has the id now: a step of the dispatcher or of the worker that ends it  *)
(* used up an effect of its own generation (completeDeferredRelay).        *)
OwnGenerationOnly ==
  [][Active /\ call'.st = "none" /\ used' = used /\ <<jobs, worker>>' # <<jobs, worker>>
     => \E e \in journal \ journal' : e.gen = call.gen]_vars
=============================================================================
