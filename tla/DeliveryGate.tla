--------------------------- MODULE DeliveryGate ---------------------------
(***************************************************************************)
(* What stands between a ready job and its POST: the circuit breaker row   *)
(* of the endpoint and the bulkhead semaphores of the batch.  One endpoint *)
(* on one host, several deliveries of one batch at once.                   *)
(*                                                                         *)
(* Sources: lib/delivery/circuit.ts; Semaphore, Bulkhead of queue.ts.      *)
(*                                                                         *)
(* The circuit row is read and then written by a blind UPDATE of some      *)
(* columns, so reading and writing are two steps.  Between two awaits an   *)
(* execution runs alone; a continuation whose promise is resolved waits in *)
(* the microtask queue, and runs in the order of that queue.  So a waiter  *)
(* that release() resumes takes its slot only after every continuation     *)
(* that was queued before it.                                              *)
(***************************************************************************)
EXTENDS Integers, Sequences, FiniteSets

CONSTANTS
  Workers,        \* concurrent executions in one batch
  GlobalLimit,    \* BULKHEAD_GLOBAL_CONCURRENCY, 10 in the code
  HostLimit,      \* BULKHEAD_PER_DOMAIN, 3
  Threshold,      \* CONSECUTIVE_FAILURE_THRESHOLD, 5
  Window,         \* RECENT_WINDOW_SIZE, 20
  Probes          \* HALF_OPEN_PROBES, 3

VARIABLES
  circuit,    \* the delivery_circuit row
  pc,         \* where each execution is
  seen,       \* the row an execution read before it writes
  available,  \* slots of each semaphore
  waiters,    \* its queue of suspended acquire() calls
  ready       \* the microtask queue: continuations inside Bulkhead.acquire

vars == <<circuit, pc, seen, available, waiters, ready>>

Semaphores == {"global", "host"}
Limit(s) == IF s = "global" THEN GlobalLimit ELSE HostLimit

Circuit == [state : {"closed", "open", "half_open"},
            failures : Nat,             \* consecutive_failures, see Counted
            recent : Seq({0, 1}),       \* recent_outcomes_json, 1 is a failure
            elapsed : BOOLEAN,          \* open_until is past (or null)
            attempts : Nat, successes : Nat]

InitialCircuit == [state |-> "closed", failures |-> 0, recent |-> << >>,
                   elapsed |-> TRUE, attempts |-> 0, successes |-> 0]

Stages == {"idle", "halfOpening", "global", "globalParked", "globalWoken",
           "host", "hostParked", "hostWoken", "posting", "succeeded", "failed",
           "writeSuccess", "writeFailure", "releasing"}

Wants(s) == IF s = "global" THEN "global" ELSE "host"
Parked(s) == IF s = "global" THEN "globalParked" ELSE "hostParked"
Woken(s) == IF s = "global" THEN "globalWoken" ELSE "hostWoken"
Granted(s) == IF s = "global" THEN "host" ELSE "posting"

\* The stages in which an execution has a slot of s.
InFlight == {"posting", "succeeded", "failed", "writeSuccess", "writeFailure", "releasing"}
Slots(s) == IF s = "host" THEN InFlight ELSE InFlight \cup {"host", "hostParked", "hostWoken"}
Holders(s) == {w \in Workers : pc[w] \in Slots(s)}

GoTo(w, stage) == pc' = [pc EXCEPT ![w] = stage]

Init ==
  /\ circuit = InitialCircuit
  /\ pc = [w \in Workers |-> "idle"]
  /\ seen = [w \in Workers |-> InitialCircuit]
  /\ available = [s \in Semaphores |-> Limit(s)]
  /\ waiters = [s \in Semaphores |-> << >>]
  /\ ready = << >>

-----------------------------------------------------------------------------
(* checkCircuit.                                                           *)

Allows(c) == /\ c.state = "open" => c.elapsed
             /\ c.state = "half_open" => c.attempts < Probes

\* A denied delivery is deferred: the execution ends and its message returns.
CheckCircuit(w) ==
  /\ pc[w] = "idle"
  /\ Allows(circuit)
  /\ \/ circuit.state = "open" /\ GoTo(w, "halfOpening") /\ UNCHANGED ready
     \/ circuit.state # "open" /\ GoTo(w, "global") /\ ready' = Append(ready, w)
  /\ UNCHANGED <<circuit, seen, available, waiters>>

\* The blind transition of an execution that found the open window elapsed.
HalfOpen(w) ==
  /\ pc[w] = "halfOpening"
  /\ circuit' = [circuit EXCEPT !.state = "half_open", !.elapsed = TRUE,
                                !.attempts = 0, !.successes = 0]
  /\ GoTo(w, "global")
  /\ ready' = Append(ready, w)
  /\ UNCHANGED <<seen, available, waiters>>

WindowElapses ==
  /\ ~circuit.elapsed
  /\ circuit' = [circuit EXCEPT !.elapsed = TRUE]
  /\ UNCHANGED <<pc, seen, available, waiters, ready>>

-----------------------------------------------------------------------------
(* Bulkhead.acquire and release.                                           *)

\* The head of the microtask queue runs; what follows a global slot is the
\* request for a host slot, one microtask later.
Runs(w) == ready # << >> /\ Head(ready) = w
Behind(w, s) == IF s = "global" THEN Append(Tail(ready), w) ELSE Tail(ready)

Take(w, s) ==
  /\ available' = [available EXCEPT ![s] = @ - 1]
  /\ GoTo(w, Granted(s))
  /\ ready' = Behind(w, s)
  /\ UNCHANGED <<circuit, seen, waiters>>

Acquire(w, s) == pc[w] = Wants(s) /\ Runs(w) /\ available[s] > 0 /\ Take(w, s)

Suspend(w, s) ==
  /\ pc[w] = Wants(s)
  /\ Runs(w)
  /\ available[s] <= 0
  /\ waiters' = [waiters EXCEPT ![s] = Append(@, w)]
  /\ GoTo(w, Parked(s))
  /\ ready' = Tail(ready)
  /\ UNCHANGED <<circuit, seen, available>>

\* The continuation after the await: the slot is taken without a second look.
Resume(w, s) == pc[w] = Woken(s) /\ Runs(w) /\ Take(w, s)

\* Semaphore.release shifts one waiter, if there is one ...
Shifted(s) == IF waiters[s] = << >> THEN << >> ELSE <<Head(waiters[s])>>

\* Mutant of Woke: the global release does not resume its waiter.
WokeHostOnly == Shifted("host")

\* ... and resumes it; Bulkhead.release frees the host slot first.
Woke == Shifted("host") \o Shifted("global")

\* Mutant of ReleasedSlots: only the host slot is returned.
ReleasedHostSlot == [available EXCEPT !["host"] = @ + 1]

ReleasedSlots == [s \in Semaphores |-> available[s] + 1]

\* The finally block: both semaphores in one synchronous step.
Release(w) ==
  /\ pc[w] = "releasing"
  /\ available' = ReleasedSlots
  /\ waiters' = [s \in Semaphores |->
                   IF waiters[s] = << >> THEN << >> ELSE Tail(waiters[s])]
  /\ ready' = ready \o Woke
  /\ pc' = [v \in Workers |->
              IF v = w THEN "idle"
              ELSE IF <<v>> = Shifted("host") THEN "hostWoken"
              ELSE IF <<v>> = Shifted("global") THEN "globalWoken" ELSE pc[v]]
  /\ UNCHANGED <<circuit, seen>>

-----------------------------------------------------------------------------
(* The attempt and its record.  A lost claim, a missing activity and a     *)
(* permanent 4xx do not touch the circuit.                                 *)

Post(w) ==
  /\ pc[w] = "posting"
  /\ \E stage \in {"succeeded", "failed", "releasing"} : GoTo(w, stage)
  /\ UNCHANGED <<circuit, seen, available, waiters, ready>>

\* loadCircuitWithOutcome.
Load(w) ==
  /\ pc[w] \in {"succeeded", "failed"}
  /\ seen' = [seen EXCEPT ![w] = circuit]
  /\ GoTo(w, IF pc[w] = "succeeded" THEN "writeSuccess" ELSE "writeFailure")
  /\ UNCHANGED <<circuit, available, waiters, ready>>

Recorded(c, outcome) == LET all == Append(c.recent, outcome) IN
  IF Len(all) <= Window THEN all ELSE Tail(all)

RecordSuccess(c) ==     \* the columns recordCircuitSuccess writes, from what it read
  LET recent == Recorded(c, 0)
      last == c.attempts + 1 >= Probes /\ c.successes + 1 >= Probes
  IN IF c.state # "half_open" THEN [circuit EXCEPT !.failures = 0, !.recent = recent]
     ELSE IF last THEN [InitialCircuit EXCEPT !.recent = recent]
     ELSE [circuit EXCEPT !.failures = 0, !.recent = recent,
                          !.attempts = c.attempts + 1, !.successes = c.successes + 1]

\* consecutive_failures + 1, held at Threshold: an execution that began before
\* the circuit opened counts on from an open row, and nothing but the comparison
\* with the threshold ever reads the count.
Counted(c) == IF c.failures >= Threshold THEN Threshold ELSE c.failures + 1

OpenData(recent, failures) ==
  [state |-> "open", failures |-> failures, recent |-> recent,
   elapsed |-> FALSE, attempts |-> 0, successes |-> 0]

FailureCount(recent) == Cardinality({i \in 1..Len(recent) : recent[i] = 1})

\* FAILURE_RATE_THRESHOLD is 0.6 of a full window.
ShouldOpen(failures, recent) ==
  \/ failures >= Threshold
  \/ Len(recent) = Window /\ 10 * FailureCount(recent) >= 6 * Window

RecordFailure(c) ==     \* the columns recordCircuitFailure writes
  LET recent == Recorded(c, 1) IN
  IF c.state = "half_open" THEN OpenData(recent, Threshold)
  ELSE IF ShouldOpen(Counted(c), recent) THEN OpenData(recent, Counted(c))
  ELSE [circuit EXCEPT !.failures = Counted(c), !.recent = recent]

UpdateCircuit(w) ==
  /\ \/ pc[w] = "writeSuccess" /\ circuit' = RecordSuccess(seen[w])
     \/ pc[w] = "writeFailure" /\ circuit' = RecordFailure(seen[w])
  /\ seen' = [seen EXCEPT ![w] = InitialCircuit]
  /\ GoTo(w, "releasing")
  /\ UNCHANGED <<available, waiters, ready>>

-----------------------------------------------------------------------------
Step(w) ==
  \/ HalfOpen(w) \/ Post(w) \/ Load(w) \/ UpdateCircuit(w) \/ Release(w)
  \/ \E s \in Semaphores : Acquire(w, s) \/ Suspend(w, s) \/ Resume(w, s)

Next == WindowElapses \/ \E w \in Workers : CheckCircuit(w) \/ Step(w)

\* An execution that began runs on, and time passes.  No wakeup has to arrive.
Fairness ==
  /\ WF_vars(WindowElapses)
  /\ \A w \in Workers : WF_vars(Step(w))

Spec == Init /\ [][Next]_vars /\ Fairness

-----------------------------------------------------------------------------
(* Properties.                                                             *)

\* Types, and the slot accounting of the bulkhead: a semaphore's free slots are
\* its limit less the executions that hold one, whatever release and resumption
\* interleave, so that no slot leaks in any outcome of a delivery.
TypeOK ==
  /\ circuit \in [state : {"closed", "open", "half_open"}, failures : Nat,
                  recent : UNION {[1..n -> {0, 1}] : n \in 0..Window},
                  elapsed : BOOLEAN, attempts : Nat, successes : Nat]
  /\ pc \in [Workers -> Stages]
  /\ \A s \in Semaphores : available[s] = Limit(s) - Cardinality(Holders(s))

\* The lost updates that circuit.ts accepts stay harmless: however the reads and
\* blind writes of concurrent deliveries interleave, a closed circuit has fewer
\* consecutive failures than the threshold, and the probe counters agree and
\* stay below the number of probes, so that a half-open circuit never denies.
CountersInRange ==
  /\ circuit.state = "closed" => circuit.failures < Threshold
  /\ circuit.attempts = circuit.successes
  /\ circuit.attempts < Probes

=============================================================================
