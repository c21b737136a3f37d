----------------------------- MODULE GuardsProofs -----------------------------
(***************************************************************************)
(* What stands between a recipient and its delivery (MCGuards).            *)
(*                                                                         *)
(* For every number of concurrent executions and every limit, no slot of a *)
(* semaphore is lost or given twice, and the updates of the circuit that   *)
(* are lost leave its counters in their range.                             *)
(*                                                                         *)
(* For every set of recipients, and every number of runners, attempts and  *)
(* failures, a tombstoned recipient has no delivery work, and a resolution *)
(* is settled as resolved only when the endpoint job stands for its        *)
(* recipient.                                                              *)
(***************************************************************************)
EXTENDS MCGuards, Sequences, FiniteSetTheorems, TLAPS

Outcomes == UNION {[1..n -> {0, 1}] : n \in 0..Window}

CircuitRow == [state : {"closed", "open", "half_open"}, failures : Nat, recent : Outcomes,
               elapsed : BOOLEAN, attempts : Nat, successes : Nat]

-----------------------------------------------------------------------------
(* The inductive invariant of the gate.                                    *)

\* What is read of the circuit and what is written to it agree on its probes.
ProbesAgree(c) == c.attempts = c.successes /\ c.attempts < Probes

CircuitInv ==
  /\ circuit \in CircuitRow /\ ProbesAgree(circuit)
  /\ circuit.state = "closed" => circuit.failures < Threshold
  /\ seen \in [Workers -> CircuitRow] /\ \A w \in Workers : ProbesAgree(seen[w])

\* The executions that wait for a slot are suspended, and wait for it once.
WaitersInv ==
  /\ waiters \in [Gate!Semaphores -> Seq(Workers)]
  /\ \A s \in Gate!Semaphores : \A i \in 1..Len(waiters[s]) :
       /\ pc[waiters[s][i]] = Gate!Parked(s)
       /\ \A j \in 1..Len(waiters[s]) : waiters[s][i] = waiters[s][j] => i = j

SlotsInv ==
  /\ available \in [Gate!Semaphores -> Int]
  /\ \A s \in Gate!Semaphores : available[s] = Gate!Limit(s) - Cardinality(Gate!Holders(s))

GateInv == /\ pc \in [Workers -> Gate!Stages]
           /\ CircuitInv /\ WaitersInv /\ SlotsInv

-----------------------------------------------------------------------------
(* The holders of a slot, counted.                                         *)

LEMMA Limits ==
  /\ Threshold \in Nat /\ 0 < Threshold /\ Probes \in Nat /\ 0 < Probes
  /\ Window \in Nat /\ 0 <= Window
  /\ \A s : Gate!Limit(s) \in Nat
<1>1. /\ Threshold \in Nat \ {0} /\ Probes \in Nat \ {0} /\ GlobalLimit \in Nat /\ HostLimit \in Nat
      /\ Window \in Nat
  BY GateAssumption
<1> QED
  BY <1>1 DEF Gate!Limit

LEMMA HoldersFinite ==
  \A s : IsFiniteSet(Gate!Holders(s)) /\ Cardinality(Gate!Holders(s)) \in Nat
<1> SUFFICES ASSUME NEW s
             PROVE  IsFiniteSet(Gate!Holders(s)) /\ Cardinality(Gate!Holders(s)) \in Nat
  OBVIOUS
<1>1. Gate!Holders(s) \subseteq Workers
  BY DEF Gate!Holders
<1> QED
  BY <1>1, GateAssumption, FS_Subset, FS_CardinalityType

\* Only w moves, and it has a slot of s after that iff it had one before.
LEMMA HoldersStay ==
  ASSUME NEW s, \A v \in Workers : pc'[v] \in Gate!Slots(s) <=> pc[v] \in Gate!Slots(s)
  PROVE  Gate!Holders(s)' = Gate!Holders(s)
BY DEF Gate!Holders, Gate!Slots, Gate!InFlight

LEMMA HoldersGain ==
  ASSUME NEW s, NEW w \in Workers,
         pc[w] \notin Gate!Slots(s), pc'[w] \in Gate!Slots(s),
         \A v \in Workers : v # w => (pc'[v] \in Gate!Slots(s) <=> pc[v] \in Gate!Slots(s))
  PROVE  Cardinality(Gate!Holders(s)') = Cardinality(Gate!Holders(s)) + 1
<1>1. Gate!Holders(s)' = Gate!Holders(s) \cup {w} /\ w \notin Gate!Holders(s)
  BY DEF Gate!Holders, Gate!Slots, Gate!InFlight
<1> QED
  BY <1>1, HoldersFinite, FS_AddElement

LEMMA HoldersLose ==
  ASSUME NEW s, NEW w \in Workers,
         pc[w] \in Gate!Slots(s), pc'[w] \notin Gate!Slots(s),
         \A v \in Workers : v # w => (pc'[v] \in Gate!Slots(s) <=> pc[v] \in Gate!Slots(s))
  PROVE  Cardinality(Gate!Holders(s)') = Cardinality(Gate!Holders(s)) - 1
<1>1. Gate!Holders(s)' = Gate!Holders(s) \ {w} /\ w \in Gate!Holders(s)
  BY DEF Gate!Holders, Gate!Slots, Gate!InFlight
<1> QED
  BY <1>1, HoldersFinite, FS_RemoveElement

\* A step in which w alone moves, between stages that have the same slots.
LEMMA SlotsStay ==
  ASSUME GateInv, NEW w \in Workers, NEW stage, Gate!GoTo(w, stage), UNCHANGED available,
         \A s \in Gate!Semaphores : stage \in Gate!Slots(s) <=> pc[w] \in Gate!Slots(s)
  PROVE  SlotsInv'
<1>1. \A v \in Workers : pc'[v] = IF v = w THEN stage ELSE pc[v]
  BY DEF Gate!GoTo, GateInv
<1>2. \A s \in Gate!Semaphores : Gate!Holders(s)' = Gate!Holders(s)
  BY <1>1, HoldersStay
<1> QED
  BY <1>2 DEF SlotsInv, GateInv, Gate!Limit

\* ... and those that wait are not among the executions that move.
LEMMA WaitersStay ==
  ASSUME GateInv, NEW w \in Workers, NEW stage, Gate!GoTo(w, stage), UNCHANGED waiters,
         pc[w] \notin {"globalParked", "hostParked"}
  PROVE  WaitersInv'
<1>1. \A v \in Workers : pc'[v] = IF v = w THEN stage ELSE pc[v]
  BY DEF Gate!GoTo, GateInv
<1>2. ASSUME NEW s \in Gate!Semaphores, NEW i \in 1..Len(waiters[s])
      PROVE  pc'[waiters[s][i]] = Gate!Parked(s)
  <2>1. waiters[s] \in Seq(Workers) /\ pc[waiters[s][i]] = Gate!Parked(s)
    BY DEF GateInv, WaitersInv
  <2>2. waiters[s][i] \in Workers /\ waiters[s][i] # w
    BY <2>1 DEF Gate!Parked
  <2> QED
    BY <1>1, <2>1, <2>2
<1> QED
  BY <1>2 DEF GateInv, WaitersInv, Gate!Parked

LEMMA StagesStay ==
  ASSUME GateInv, NEW w \in Workers, NEW stage \in Gate!Stages, Gate!GoTo(w, stage)
  PROVE  pc' \in [Workers -> Gate!Stages]
BY DEF GateInv, Gate!GoTo

-----------------------------------------------------------------------------
(* The circuit.                                                            *)

LEMMA OutcomesAre ==
  \A r : r \in Outcomes <=> r \in Seq({0, 1}) /\ Len(r) <= Window
<1>1. ASSUME NEW r \in Outcomes
      PROVE  r \in Seq({0, 1}) /\ Len(r) <= Window
  <2>1. PICK n \in 0..Window : r \in [1..n -> {0, 1}]
    BY DEF Outcomes
  <2>2. r \in Seq({0, 1}) /\ Len(r) = n
    BY <2>1, Limits
  <2> QED
    BY <2>1, <2>2, Limits
<1>2. ASSUME NEW r \in Seq({0, 1}), Len(r) <= Window
      PROVE  r \in Outcomes
  <2>1. Len(r) \in 0..Window /\ r \in [1..Len(r) -> {0, 1}]
    BY <1>2, Limits
  <2> QED
    BY <2>1 DEF Outcomes
<1> QED
  BY <1>1, <1>2

\* The window of recent outcomes is shifted when it is full.
LEMMA RecordedIs ==
  ASSUME NEW c \in CircuitRow, NEW o \in {0, 1}
  PROVE  Gate!Recorded(c, o) \in Outcomes
<1> DEFINE all == Append(c.recent, o)
<1>1. c.recent \in Seq({0, 1}) /\ Len(c.recent) <= Window
  BY OutcomesAre DEF CircuitRow
<1>2. /\ all \in Seq({0, 1}) /\ Len(all) = Len(c.recent) + 1
      /\ Len(c.recent) \in Nat /\ all # << >>
  BY <1>1
<1>3. Tail(all) \in Seq({0, 1}) /\ Len(Tail(all)) = Len(c.recent)
  BY <1>2
<1>4. Gate!Recorded(c, o) = IF Len(all) <= Window THEN all ELSE Tail(all)
  BY DEF Gate!Recorded
<1> QED
  BY <1>1, <1>2, <1>3, <1>4, OutcomesAre

LEMMA InitialIs ==
  /\ Gate!InitialCircuit \in CircuitRow /\ ProbesAgree(Gate!InitialCircuit)
  /\ Gate!InitialCircuit.failures < Threshold
<1>1. << >> \in Outcomes
  <2>1. << >> \in Seq({0, 1}) /\ Len(<< >>) = 0
    OBVIOUS
  <2> QED
    BY <2>1, OutcomesAre, Limits
<1> QED
  BY <1>1, Limits DEF Gate!InitialCircuit, CircuitRow, ProbesAgree

\* What an UPDATE of the circuit may write.
Writes(c) == /\ c \in CircuitRow /\ ProbesAgree(c)
             /\ c.state = "closed" => c.failures < Threshold

\* The columns that are written of a circuit that stays as it is.
With(c, failures, recent) == [c EXCEPT !.failures = failures, !.recent = recent]
Probed(c, recent, n) ==
  [c EXCEPT !.failures = 0, !.recent = recent, !.attempts = n, !.successes = n]

LEMMA WithIs ==
  ASSUME NEW c \in CircuitRow, NEW f \in Nat, NEW r \in Outcomes
  PROVE  /\ With(c, f, r) \in CircuitRow
         /\ With(c, f, r).failures = f /\ With(c, f, r).attempts = c.attempts
         /\ With(c, f, r).successes = c.successes
BY DEF With, CircuitRow

LEMMA ProbedIs ==
  ASSUME NEW c \in CircuitRow, NEW r \in Outcomes, NEW n \in Nat
  PROVE  /\ Probed(c, r, n) \in CircuitRow /\ Probed(c, r, n).failures = 0
         /\ Probed(c, r, n).attempts = n /\ Probed(c, r, n).successes = n
BY DEF Probed, CircuitRow

LEMMA SuccessWrites ==
  ASSUME CircuitInv, NEW c \in CircuitRow, ProbesAgree(c)
  PROVE  Writes(Gate!RecordSuccess(c))
<1> PICK recent \in Outcomes : recent = Gate!Recorded(c, 0)
  BY RecordedIs
<1> PICK new : new = Gate!RecordSuccess(c)
  OBVIOUS
<1> DEFINE last == c.attempts + 1 >= Probes /\ c.successes + 1 >= Probes
<1>1. circuit \in CircuitRow /\ ProbesAgree(circuit) /\ 0 \in Nat
  BY DEF CircuitInv
<1>2. CASE c.state # "half_open"
  <2>1. new = With(circuit, 0, recent)
    BY <1>2 DEF Gate!RecordSuccess, With
  <2>2. /\ new \in CircuitRow /\ new.failures = 0
        /\ new.attempts = circuit.attempts /\ new.successes = circuit.successes
    BY <1>1, <2>1, WithIs
  <2> QED
    BY <1>1, <2>2, Limits DEF ProbesAgree, Writes
<1>3. CASE c.state = "half_open" /\ last
  <2>1. new = [Gate!InitialCircuit EXCEPT !.recent = recent]
    BY <1>3 DEF Gate!RecordSuccess
  <2> QED
    BY <2>1, InitialIs DEF CircuitRow, ProbesAgree, Writes
<1>4. CASE c.state = "half_open" /\ ~last
  <2>1. PICK n \in Nat : n = c.attempts + 1 /\ n = c.successes + 1 /\ n < Probes
    BY <1>4, Limits DEF CircuitRow, ProbesAgree
  <2>2. new = Probed(circuit, recent, n)
    BY <1>4, <2>1 DEF Gate!RecordSuccess, Probed
  <2>3. /\ new \in CircuitRow /\ new.failures = 0
        /\ new.attempts = n /\ new.successes = n
    BY <1>1, <2>2, ProbedIs
  <2> QED
    BY <2>1, <2>3, Limits DEF ProbesAgree, Writes
<1> QED
  BY <1>2, <1>3, <1>4

LEMMA OpenWrites ==
  ASSUME NEW recent \in Outcomes, NEW failures \in Nat
  PROVE  Writes(Gate!OpenData(recent, failures))
BY Limits DEF Gate!OpenData, CircuitRow, ProbesAgree, Writes

LEMMA FailureWrites ==
  ASSUME CircuitInv, NEW c \in CircuitRow, ProbesAgree(c)
  PROVE  Writes(Gate!RecordFailure(c))
<1> PICK recent \in Outcomes : recent = Gate!Recorded(c, 1)
  BY RecordedIs
<1>1. circuit \in CircuitRow /\ ProbesAgree(circuit)
  BY DEF CircuitInv
<1>2. Gate!Counted(c) \in Nat
  BY Limits DEF Gate!Counted, CircuitRow
<1>3. CASE c.state = "half_open"
  <2>1. Gate!RecordFailure(c) = Gate!OpenData(recent, Threshold)
    BY <1>3 DEF Gate!RecordFailure
  <2> QED
    BY <2>1, OpenWrites, Limits
<1>4. CASE c.state # "half_open" /\ Gate!ShouldOpen(Gate!Counted(c), recent)
  <2>1. Gate!RecordFailure(c) = Gate!OpenData(recent, Gate!Counted(c))
    BY <1>4 DEF Gate!RecordFailure
  <2> QED
    BY <1>2, <2>1, OpenWrites
<1>5. CASE c.state # "half_open" /\ ~Gate!ShouldOpen(Gate!Counted(c), recent)
  <2>1. Gate!RecordFailure(c) = [circuit EXCEPT !.failures = Gate!Counted(c), !.recent = recent]
    BY <1>5 DEF Gate!RecordFailure
  <2>2. Gate!Counted(c) < Threshold
    BY <1>2, <1>5, Limits DEF Gate!ShouldOpen
  <2> QED
    BY <1>1, <1>2, <2>1, <2>2 DEF CircuitRow, ProbesAgree, Writes
<1> QED
  BY <1>3, <1>4, <1>5

-----------------------------------------------------------------------------
(* The steps.                                                              *)

LEMMA GateInitially == Gate!Init => GateInv
<1> SUFFICES ASSUME Gate!Init PROVE GateInv
  OBVIOUS
<1>1. pc \in [Workers -> Gate!Stages]
  BY DEF Gate!Init, Gate!Stages
<1>2. CircuitInv
  BY InitialIs DEF Gate!Init, CircuitInv
<1>3. WaitersInv
  BY DEF Gate!Init, WaitersInv
<1>4. \A s \in Gate!Semaphores : Gate!Holders(s) = {}
  BY DEF Gate!Init, Gate!Holders, Gate!Slots, Gate!InFlight
<1>5. \A s \in Gate!Semaphores : Cardinality(Gate!Holders(s)) = 0
  BY <1>4, FS_EmptySet
<1> QED
  BY <1>1, <1>2, <1>3, <1>5, Limits
     DEF GateInv, SlotsInv, Gate!Init

LEMMA WriteStep ==
  ASSUME GateInv, Writes(circuit'), seen' \in [Workers -> CircuitRow],
         \A w \in Workers : ProbesAgree(seen'[w]), pc' \in [Workers -> Gate!Stages],
         SlotsInv', WaitersInv'
  PROVE  GateInv'
BY DEF GateInv, CircuitInv, Writes, ProbesAgree

\* A step of w that neither takes a slot nor returns one nor is suspended.
LEMMA PlainStep ==
  ASSUME GateInv, NEW w \in Workers, NEW stage \in Gate!Stages, Gate!GoTo(w, stage),
         UNCHANGED <<available, waiters>>,
         Writes(circuit'), seen' \in [Workers -> CircuitRow],
         \A v \in Workers : ProbesAgree(seen'[v]),
         \A s \in Gate!Semaphores : stage \in Gate!Slots(s) <=> pc[w] \in Gate!Slots(s),
         pc[w] \notin {"globalParked", "hostParked"}
  PROVE  GateInv'
BY StagesStay, SlotsStay, WaitersStay, WriteStep

LEMMA ReadIs ==
  ASSUME GateInv
  PROVE  /\ Writes(circuit) /\ seen \in [Workers -> CircuitRow]
         /\ \A w \in Workers : seen[w] \in CircuitRow /\ ProbesAgree(seen[w])
BY DEF GateInv, CircuitInv, Writes

LEMMA CheckStep ==
  ASSUME GateInv, NEW w \in Workers, Gate!CheckCircuit(w)
  PROVE  GateInv'
<1>1. PICK stage \in {"halfOpening", "global"} : Gate!GoTo(w, stage)
  BY DEF Gate!CheckCircuit
<1>2. pc[w] = "idle" /\ UNCHANGED <<circuit, seen, available, waiters>>
  BY DEF Gate!CheckCircuit
<1> QED
  BY <1>1, <1>2, ReadIs, PlainStep
     DEF Gate!Stages, Gate!Slots, Gate!InFlight

LEMMA HalfOpenStep ==
  ASSUME GateInv, NEW w \in Workers, Gate!HalfOpen(w)
  PROVE  GateInv'
<1>1. Writes(circuit')
  BY ReadIs, Limits DEF Gate!HalfOpen, Writes, ProbesAgree, CircuitRow
<1>2. pc[w] = "halfOpening" /\ Gate!GoTo(w, "global") /\ UNCHANGED <<seen, available, waiters>>
  BY DEF Gate!HalfOpen
<1> QED
  BY <1>1, <1>2, ReadIs, PlainStep
     DEF Gate!Stages, Gate!Slots, Gate!InFlight

LEMMA ElapseStep ==
  ASSUME GateInv, Gate!WindowElapses
  PROVE  GateInv'
<1>1. Writes(circuit')
  BY ReadIs DEF Gate!WindowElapses, Writes, ProbesAgree, CircuitRow
<1>2. UNCHANGED <<pc, seen, available, waiters>>
  BY DEF Gate!WindowElapses
<1>3. SlotsInv' /\ WaitersInv'
  BY <1>2 DEF GateInv, SlotsInv, WaitersInv, Gate!Holders, Gate!Slots, Gate!InFlight,
              Gate!Limit, Gate!Parked
<1> QED
  BY <1>1, <1>2, <1>3, ReadIs, WriteStep DEF GateInv

LEMMA PostStep ==
  ASSUME GateInv, NEW w \in Workers, Gate!Post(w)
  PROVE  GateInv'
<1>1. PICK stage \in {"succeeded", "failed", "releasing"} : Gate!GoTo(w, stage)
  BY DEF Gate!Post
<1>2. pc[w] = "posting" /\ UNCHANGED <<circuit, seen, available, waiters>>
  BY DEF Gate!Post
<1> QED
  BY <1>1, <1>2, ReadIs, PlainStep
     DEF Gate!Stages, Gate!Slots, Gate!InFlight

LEMMA LoadStep ==
  ASSUME GateInv, NEW w \in Workers, Gate!Load(w)
  PROVE  GateInv'
<1>1. PICK stage \in {"writeSuccess", "writeFailure"} : Gate!GoTo(w, stage)
  BY DEF Gate!Load
<1>2. /\ pc[w] \in {"succeeded", "failed"} /\ seen' = [seen EXCEPT ![w] = circuit]
      /\ UNCHANGED <<circuit, available, waiters>>
  BY DEF Gate!Load
<1>3. seen' \in [Workers -> CircuitRow] /\ \A v \in Workers : ProbesAgree(seen'[v])
  BY <1>2, ReadIs DEF Writes
<1> QED
  BY <1>1, <1>2, <1>3, ReadIs, PlainStep
     DEF Gate!Stages, Gate!Slots, Gate!InFlight

LEMMA UpdateStep ==
  ASSUME GateInv, NEW w \in Workers, Gate!UpdateCircuit(w)
  PROVE  GateInv'
<1>1. Writes(circuit')
  BY ReadIs, SuccessWrites, FailureWrites DEF Gate!UpdateCircuit, GateInv
<1>2. /\ pc[w] \in {"writeSuccess", "writeFailure"} /\ Gate!GoTo(w, "releasing")
      /\ seen' = [seen EXCEPT ![w] = Gate!InitialCircuit] /\ UNCHANGED <<available, waiters>>
  BY DEF Gate!UpdateCircuit
<1>3. seen' \in [Workers -> CircuitRow] /\ \A v \in Workers : ProbesAgree(seen'[v])
  BY <1>2, ReadIs, InitialIs
<1> QED
  BY <1>1, <1>2, <1>3, PlainStep
     DEF Gate!Stages, Gate!Slots, Gate!InFlight

\* Acquire and Resume: the slot of one semaphore goes to w.
LEMMA TakeStep ==
  ASSUME GateInv, NEW w \in Workers, NEW s \in Gate!Semaphores,
         pc[w] = Gate!Wants(s) \/ pc[w] = Gate!Woken(s), Gate!Take(w, s)
  PROVE  GateInv'
<1>1. /\ available' = [available EXCEPT ![s] = @ - 1] /\ Gate!GoTo(w, Gate!Granted(s))
      /\ UNCHANGED <<circuit, seen, waiters>>
  BY DEF Gate!Take
<1>2. \A v \in Workers : pc'[v] = IF v = w THEN Gate!Granted(s) ELSE pc[v]
  BY <1>1 DEF Gate!GoTo, GateInv
<1>3. Gate!Granted(s) \in Gate!Stages /\ pc[w] \notin {"globalParked", "hostParked"}
  BY DEF Gate!Granted, Gate!Stages, Gate!Wants, Gate!Woken
<1>4. pc[w] \notin Gate!Slots(s) /\ Gate!Granted(s) \in Gate!Slots(s)
  BY DEF Gate!Granted, Gate!Slots, Gate!InFlight, Gate!Wants, Gate!Woken, Gate!Semaphores
<1>5. \A x \in Gate!Semaphores : x # s =>
        (Gate!Granted(s) \in Gate!Slots(x) <=> pc[w] \in Gate!Slots(x))
  BY DEF Gate!Granted, Gate!Slots, Gate!InFlight, Gate!Wants, Gate!Woken, Gate!Semaphores
<1>6. Cardinality(Gate!Holders(s)') = Cardinality(Gate!Holders(s)) + 1
  BY <1>2, <1>4, HoldersGain
<1>7. \A x \in Gate!Semaphores : x # s => Gate!Holders(x)' = Gate!Holders(x)
  BY <1>2, <1>5, HoldersStay
<1>8. SlotsInv'
  <2>1. \A x \in Gate!Semaphores : Gate!Limit(x) \in Int /\ Cardinality(Gate!Holders(x)) \in Int
    BY HoldersFinite, Limits DEF Gate!Limit
  <2>2. available' \in [Gate!Semaphores -> Int]
    BY <1>1 DEF GateInv, SlotsInv
  <2>3. available'[s] = Gate!Limit(s) - Cardinality(Gate!Holders(s)')
    BY <1>1, <1>6, <2>1 DEF GateInv, SlotsInv
  <2>4. \A x \in Gate!Semaphores : x # s =>
          available'[x] = Gate!Limit(x) - Cardinality(Gate!Holders(x)')
    BY <1>1, <1>7 DEF GateInv, SlotsInv
  <2> QED
    BY <2>2, <2>3, <2>4 DEF SlotsInv, Gate!Limit
<1> QED
  BY <1>1, <1>3, <1>8, ReadIs, StagesStay, WaitersStay, WriteStep

LEMMA SuspendStep ==
  ASSUME GateInv, NEW w \in Workers, NEW s \in Gate!Semaphores, Gate!Suspend(w, s)
  PROVE  GateInv'
<1>1. /\ pc[w] = Gate!Wants(s) /\ Gate!GoTo(w, Gate!Parked(s))
      /\ waiters' = [waiters EXCEPT ![s] = Append(@, w)]
      /\ UNCHANGED <<circuit, seen, available>>
  BY DEF Gate!Suspend
<1>2. \A v \in Workers : pc'[v] = IF v = w THEN Gate!Parked(s) ELSE pc[v]
  BY <1>1 DEF Gate!GoTo, GateInv
<1>3. \A x \in Gate!Semaphores : Gate!Parked(s) \in Gate!Slots(x) <=> pc[w] \in Gate!Slots(x)
  BY <1>1 DEF Gate!Parked, Gate!Slots, Gate!InFlight, Gate!Wants, Gate!Semaphores
<1>4. WaitersInv'
  <2>1. \A x \in Gate!Semaphores : waiters[x] \in Seq(Workers)
    BY DEF GateInv, WaitersInv
  <2>2. waiters' \in [Gate!Semaphores -> Seq(Workers)]
    BY <1>1, <2>1 DEF GateInv, WaitersInv
  <2>3. ASSUME NEW x \in Gate!Semaphores, NEW i \in 1..Len(waiters[x])
        PROVE  waiters[x][i] \in Workers /\ waiters[x][i] # w
    <3>1. pc[waiters[x][i]] = Gate!Parked(x)
      BY DEF GateInv, WaitersInv
    <3> QED
      BY <1>1, <2>1, <3>1 DEF Gate!Parked, Gate!Wants
  <2>4. ASSUME NEW x \in Gate!Semaphores, x # s
        PROVE  waiters'[x] = waiters[x]
    BY <1>1, <2>4 DEF GateInv, WaitersInv
  <2>5. /\ waiters'[s] = Append(waiters[s], w) /\ Len(waiters'[s]) = Len(waiters[s]) + 1
        /\ waiters'[s][Len(waiters[s]) + 1] = w
        /\ \A i \in 1..Len(waiters[s]) : waiters'[s][i] = waiters[s][i]
    BY <1>1, <2>1 DEF GateInv, WaitersInv
  <2>6. ASSUME NEW x \in Gate!Semaphores, NEW i \in 1..Len(waiters'[x])
        PROVE  pc'[waiters'[x][i]] = Gate!Parked(x)
    <3>1. CASE x # s
      BY <1>2, <2>3, <2>4, <3>1 DEF GateInv, WaitersInv
    <3>2. CASE x = s /\ i # Len(waiters[s]) + 1
      <4>1. i \in 1..Len(waiters[s])
        BY <2>1, <2>5, <3>2
      <4> QED
        BY <1>2, <2>3, <2>5, <3>2, <4>1 DEF GateInv, WaitersInv
    <3>3. CASE x = s /\ i = Len(waiters[s]) + 1
      BY <1>2, <2>5, <3>3
    <3> QED
      BY <3>1, <3>2, <3>3
  <2>7. ASSUME NEW x \in Gate!Semaphores, NEW i \in 1..Len(waiters'[x]),
               NEW j \in 1..Len(waiters'[x]), waiters'[x][i] = waiters'[x][j]
        PROVE  i = j
    <3>1. CASE x # s
      BY <2>4, <2>7, <3>1 DEF GateInv, WaitersInv
    <3>2. CASE x = s
      <4>1. ASSUME NEW k \in 1..Len(waiters'[x]), k # Len(waiters[s]) + 1
            PROVE  k \in 1..Len(waiters[s]) /\ waiters'[x][k] = waiters[s][k]
                   /\ waiters'[x][k] # w
        BY <2>1, <2>3, <2>5, <3>2, <4>1
      <4>2. i = Len(waiters[s]) + 1 <=> j = Len(waiters[s]) + 1
        BY <2>5, <2>7, <3>2, <4>1
      <4>3. i # Len(waiters[s]) + 1 /\ j # Len(waiters[s]) + 1 => i = j
        BY <2>7, <4>1 DEF GateInv, WaitersInv
      <4> QED
        BY <4>2, <4>3
    <3> QED
      BY <3>1, <3>2
  <2> QED
    BY <2>2, <2>6, <2>7 DEF WaitersInv, Gate!Parked
<1> QED
  BY <1>1, <1>3, <1>4, ReadIs, StagesStay, SlotsStay, WriteStep DEF Gate!Parked, Gate!Stages

\* release() hands the slot to the head of a queue, if there is one.
LEMMA ShiftedIs ==
  ASSUME NEW s, NEW v
  PROVE  <<v>> = Gate!Shifted(s) <=> waiters[s] # << >> /\ v = Head(waiters[s])
BY DEF Gate!Shifted

LEMMA HeadIs ==
  ASSUME GateInv, NEW s \in Gate!Semaphores, waiters[s] # << >>
  PROVE  /\ waiters[s] \in Seq(Workers) /\ Len(waiters[s]) \in Nat \ {0}
         /\ Head(waiters[s]) = waiters[s][1] /\ Head(waiters[s]) \in Workers
         /\ pc[Head(waiters[s])] = Gate!Parked(s)
<1>1. waiters[s] \in Seq(Workers)
  BY DEF GateInv, WaitersInv
<1>2. Len(waiters[s]) \in Nat \ {0} /\ Head(waiters[s]) = waiters[s][1] /\ 1 \in 1..Len(waiters[s])
  BY <1>1
<1>3. waiters[s][1] \in Workers
  BY <1>1, <1>2
<1> QED
  BY <1>1, <1>2, <1>3 DEF GateInv, WaitersInv

LEMMA ReleaseStep ==
  ASSUME GateInv, NEW w \in Workers, Gate!Release(w)
  PROVE  GateInv'
<1>1. /\ pc[w] = "releasing" /\ UNCHANGED <<circuit, seen>>
      /\ available' = [s \in Gate!Semaphores |-> available[s] + 1]
      /\ waiters' = [s \in Gate!Semaphores |->
                       IF waiters[s] = << >> THEN << >> ELSE Tail(waiters[s])]
  BY DEF Gate!Release, Gate!ReleasedSlots
<1>2. ASSUME NEW v \in Workers
      PROVE  pc'[v] = IF v = w THEN "idle"
                      ELSE IF <<v>> = Gate!Shifted("host") THEN "hostWoken"
                      ELSE IF <<v>> = Gate!Shifted("global") THEN "globalWoken" ELSE pc[v]
  BY DEF Gate!Release
<1>3. ASSUME NEW s \in Gate!Semaphores, NEW v, <<v>> = Gate!Shifted(s)
      PROVE  v \in Workers /\ pc[v] = Gate!Parked(s) /\ waiters[s] # << >> /\ v = waiters[s][1]
  BY <1>3, ShiftedIs, HeadIs
<1>4. "host" \in Gate!Semaphores /\ "global" \in Gate!Semaphores
  BY DEF Gate!Semaphores
<1>5. pc' \in [Workers -> Gate!Stages]
  <2>1. pc' = [v \in Workers |-> pc'[v]]
    BY DEF Gate!Release
  <2>2. \A v \in Workers : pc'[v] \in Gate!Stages
    BY <1>2 DEF GateInv, Gate!Stages
  <2> QED
    BY <2>1, <2>2
<1>6. ASSUME NEW s \in Gate!Semaphores
      PROVE  Cardinality(Gate!Holders(s)') = Cardinality(Gate!Holders(s)) - 1
  <2>1. pc[w] \in Gate!Slots(s) /\ pc'[w] \notin Gate!Slots(s)
    BY <1>1, <1>2 DEF Gate!Slots, Gate!InFlight
  <2>2. ASSUME NEW v \in Workers, v # w
        PROVE  pc'[v] \in Gate!Slots(s) <=> pc[v] \in Gate!Slots(s)
    <3>1. CASE <<v>> = Gate!Shifted("host")
      BY <1>2, <1>3, <1>4, <2>2, <3>1 DEF Gate!Slots, Gate!InFlight, Gate!Parked
    <3>2. CASE <<v>> # Gate!Shifted("host") /\ <<v>> = Gate!Shifted("global")
      BY <1>2, <1>3, <1>4, <2>2, <3>2 DEF Gate!Slots, Gate!InFlight, Gate!Parked
    <3>3. CASE <<v>> # Gate!Shifted("host") /\ <<v>> # Gate!Shifted("global")
      BY <1>2, <2>2, <3>3
    <3> QED
      BY <3>1, <3>2, <3>3
  <2> QED
    BY <2>1, <2>2, HoldersLose
<1>7. SlotsInv'
  <2>1. \A s \in Gate!Semaphores : available[s] \in Int /\ Cardinality(Gate!Holders(s)) \in Int
    BY HoldersFinite DEF GateInv, SlotsInv
  <2>2. available' \in [Gate!Semaphores -> Int]
    BY <1>1, <2>1
  <2>3. \A s \in Gate!Semaphores :
          available'[s] = Gate!Limit(s) - Cardinality(Gate!Holders(s)')
    BY <1>1, <1>6, <2>1, Limits DEF GateInv, SlotsInv
  <2> QED
    BY <2>2, <2>3 DEF SlotsInv, Gate!Limit
<1>8. ASSUME NEW s \in Gate!Semaphores
      PROVE  /\ waiters'[s] \in Seq(Workers)
             /\ \A i \in 1..Len(waiters'[s]) :
                  i + 1 \in 1..Len(waiters[s]) /\ waiters'[s][i] = waiters[s][i + 1]
  <2>1. CASE waiters[s] = << >>
    BY <1>1, <2>1
  <2>2. CASE waiters[s] # << >>
    BY <1>1, <2>2, HeadIs
  <2> QED
    BY <2>1, <2>2
<1>9. ASSUME NEW s \in Gate!Semaphores, NEW i \in 1..Len(waiters'[s])
      PROVE  pc'[waiters'[s][i]] = Gate!Parked(s)
  <2> PICK v : v = waiters[s][i + 1]
    OBVIOUS
  <2>1. waiters'[s][i] = v /\ i + 1 \in 1..Len(waiters[s]) /\ pc[v] = Gate!Parked(s)
    BY <1>8 DEF GateInv, WaitersInv
  <2>2. v \in Workers /\ v # w
    <3>1. waiters[s] \in Seq(Workers)
      BY DEF GateInv, WaitersInv
    <3> QED
      BY <1>1, <2>1, <3>1 DEF Gate!Parked
  <2>3. ASSUME NEW x \in Gate!Semaphores, <<v>> = Gate!Shifted(x)
        PROVE  FALSE
    <3>1. pc[v] = Gate!Parked(x) /\ waiters[x] # << >> /\ v = waiters[x][1]
      BY <1>3, <2>3
    <3>2. x = s
      BY <2>1, <3>1 DEF Gate!Parked, Gate!Semaphores
    <3>3. 1 \in 1..Len(waiters[s]) /\ i + 1 # 1
      BY <2>1
    <3> QED
      BY <2>1, <3>1, <3>2, <3>3 DEF GateInv, WaitersInv
  <2> QED
    BY <1>2, <1>4, <2>1, <2>2, <2>3
<1>10. WaitersInv'
  <2>1. waiters' \in [Gate!Semaphores -> Seq(Workers)]
    <3>1. waiters' = [s \in Gate!Semaphores |-> waiters'[s]]
      BY <1>1
    <3> QED
      BY <1>8, <3>1
  <2>2. ASSUME NEW s \in Gate!Semaphores, NEW i \in 1..Len(waiters'[s]),
               NEW j \in 1..Len(waiters'[s]), waiters'[s][i] = waiters'[s][j]
        PROVE  i = j
    <3>1. i + 1 = j + 1
      BY <1>8, <2>2 DEF GateInv, WaitersInv
    <3>2. i \in Int /\ j \in Int
      OBVIOUS
    <3> QED
      BY <3>1, <3>2
  <2> QED
    BY <1>9, <2>1, <2>2 DEF WaitersInv, Gate!Parked
<1> QED
  BY <1>1, <1>5, <1>7, <1>10, ReadIs, WriteStep

-----------------------------------------------------------------------------
(* The theorem.                                                            *)

LEMMA GateStepKeeps ==
  ASSUME GateInv, Gate!Next
  PROVE  GateInv'
<1>1. CASE Gate!WindowElapses
  BY <1>1, ElapseStep
<1>2. ASSUME NEW w \in Workers, Gate!CheckCircuit(w)
      PROVE  GateInv'
  BY <1>2, CheckStep
<1>3. ASSUME NEW w \in Workers, Gate!Step(w)
      PROVE  GateInv'
  <2>1. CASE Gate!HalfOpen(w)
    BY <2>1, HalfOpenStep
  <2>2. CASE Gate!Post(w)
    BY <2>2, PostStep
  <2>3. CASE Gate!Load(w)
    BY <2>3, LoadStep
  <2>4. CASE Gate!UpdateCircuit(w)
    BY <2>4, UpdateStep
  <2>5. CASE Gate!Release(w)
    BY <2>5, ReleaseStep
  <2>6. ASSUME NEW s \in Gate!Semaphores, Gate!Acquire(w, s)
        PROVE  GateInv'
    BY <2>6, TakeStep DEF Gate!Acquire
  <2>7. ASSUME NEW s \in Gate!Semaphores, Gate!Suspend(w, s)
        PROVE  GateInv'
    BY <2>7, SuspendStep
  <2>8. ASSUME NEW s \in Gate!Semaphores, Gate!Resume(w, s)
        PROVE  GateInv'
    BY <2>8, TakeStep DEF Gate!Resume
  <2> QED
    BY <1>3, <2>1, <2>2, <2>3, <2>4, <2>5, <2>6, <2>7, <2>8 DEF Gate!Step
<1> QED
  BY <1>1, <1>2, <1>3 DEF Gate!Next

LEMMA GateStays ==
  ASSUME GateInv, UNCHANGED gateVars
  PROVE  GateInv'
BY DEF GateInv, CircuitInv, ProbesAgree, WaitersInv, SlotsInv, gateVars, Gate!Holders,
       Gate!Slots, Gate!InFlight, Gate!Limit, Gate!Parked

LEMMA GateCounts == \A S : Gate!Cardinality(S) = Cardinality(S)
BY DEF Gate!Cardinality, Cardinality

LEMMA GateInvSuffices == GateInv => Gate!TypeOK /\ Gate!CountersInRange
<1> SUFFICES ASSUME GateInv PROVE Gate!TypeOK /\ Gate!CountersInRange
  OBVIOUS
<1>1. /\ circuit \in CircuitRow /\ pc \in [Workers -> Gate!Stages]
      /\ \A s \in Gate!Semaphores :
           available[s] = Gate!Limit(s) - Cardinality(Gate!Holders(s))
  BY DEF GateInv, CircuitInv, SlotsInv
<1>2. Gate!TypeOK
  BY <1>1, GateCounts, Zenon DEF CircuitRow, Outcomes, Gate!TypeOK
<1>3. Gate!CountersInRange
  BY DEF GateInv, CircuitInv, ProbesAgree, Gate!CountersInRange
<1> QED
  BY <1>2, <1>3

\* In every behaviour of the gate the free slots of a semaphore are its limit less
\* the executions that hold one, whatever release() and the continuations it resumes
\* interleave; and whatever updates of the circuit row are lost, a closed circuit is
\* below its threshold and the probes of a half-open one are not used up.
THEOREM GateIsSound == MCSpec => []GateAccounts
<1> DEFINE Inv == part = "gate" => GateInv
<1>1. MCInit => Inv
  BY GateInitially DEF MCInit
<1>2. Inv /\ [MCNext]_allVars => Inv'
  <2> SUFFICES ASSUME Inv, [MCNext]_allVars, part' = "gate"
               PROVE  GateInv'
    OBVIOUS
  <2>1. CASE ResolutionStep
    BY <2>1 DEF ResolutionStep, InResolution
  <2>2. CASE GateStep
    BY <2>2, GateStepKeeps DEF GateStep, InGate
  <2>3. CASE UNCHANGED allVars
    BY <2>3, GateStays DEF allVars
  <2> QED
    BY <2>1, <2>2, <2>3 DEF MCNext
<1>3. Inv => GateAccounts
  BY GateInvSuffices DEF GateAccounts
<1> QED
  BY <1>1, <1>2, <1>3, PTL DEF MCSpec


-----------------------------------------------------------------------------
(* The inductive invariant of the resolution.                              *)

RowSound(r) ==
  /\ rows[r].status = "processing" <=> rows[r].owner # Nobody
  /\ rows[r].status \notin Terminal => rows[r].attempts < MaxResolve

Busy == {"claim", "check", "fetch", "upsert", "finish", "ack"}

Message == [to : Recipients \cup {Nobody}, attempts : Nat]

Run == [pc : Busy \cup {"idle", "mark"}, msg : Message, held : SUBSET Recipients,
        managed : BOOLEAN, seen : 0..(MaxResolve - 1),
        outcome : {"none", "resolved", "discarded"}]

\* A runner at work is so for a recipient, and settles its own claim as resolved
\* only when the job stands for the recipient.
RunnerSound(w) ==
  /\ run[w].pc \in Busy => To(w) \in Recipients
  /\ run[w].pc = "finish" => run[w].outcome \in {"resolved", "discarded"}
  /\ run[w].pc = "finish" /\ run[w].outcome = "resolved" /\ Owned(w) => To(w) \in job

ResolutionInv ==
  /\ rows \in [Recipients -> Row] /\ \A r \in Recipients : RowSound(r)
  /\ job \subseteq Recipients \cup CoRecipients
  /\ msgs \subseteq [to : Recipients, attempts : Nat]
  /\ run \in [Runners -> Run] /\ \A w \in Runners : RunnerSound(w)
  /\ NoWorkForTombstoned /\ ResolvedHasJob

-----------------------------------------------------------------------------
(* Lemmas about rows and runners.                                          *)

LEMMA RowOfIs ==
  ASSUME NEW s \in {"pending", "queued", "retry_wait"} \cup Settled, NEW n \in 0..MaxResolve
  PROVE  /\ RowOf(s, n) \in Row
         /\ RowOf(s, n).status = s /\ RowOf(s, n).attempts = n /\ RowOf(s, n).owner = Nobody
BY DEF RowOf, Row

LEMMA RowIs ==
  ASSUME ResolutionInv, NEW r \in Recipients
  PROVE  /\ rows[r] \in Row /\ rows[r].attempts \in 0..MaxResolve
         /\ rows[r].owner \in Runners \cup {Nobody}
         /\ rows[r].status \in {"pending", "queued", "processing", "retry_wait"} \cup Settled
         /\ RowSound(r)
BY DEF ResolutionInv, Row

\* A row that is withdrawn is Nobody's and has all its attempts.
LEMMA NoRowIs ==
  NoRow \in Row /\ NoRow.status = "none" /\ NoRow.owner = Nobody /\ NoRow.attempts = 0
BY RowOfIs, ResolutionAssumption DEF NoRow, Settled

\* What a step may make of the row r: it keeps its status, its token and its
\* attempts, or it is given to nobody.
RowKept(r) ==
  /\ rows'[r] \in Row
  /\ \/ /\ rows'[r].status = rows[r].status /\ rows'[r].owner = rows[r].owner
        /\ rows'[r].attempts = rows[r].attempts
     \/ /\ rows'[r].status # "processing" /\ rows'[r].owner = Nobody
        /\ rows'[r].status \notin Terminal => rows'[r].attempts < MaxResolve

\* No claim is drawn but by w, and a job that a claimed row relies on stays.
ClaimsKept(w) ==
  \A r \in Recipients :
    \/ rows'[r].owner = Nobody \/ rows'[r].owner = w
    \/ rows'[r].owner = rows[r].owner /\ (r \in job => r \in job')

LEMMA RunnerStays ==
  ASSUME NEW w, NEW v \in Runners, v # w, RunnerSound(v), ClaimsKept(w), run'[v] = run[v]
  PROVE  RunnerSound(v)'
<1>1. run'[v].pc = "finish" => To(v)' \in Recipients /\ To(v)' = To(v)
  BY DEF RunnerSound, Busy, To
<1>2. run'[v].pc = "finish" /\ Owned(v)' => Owned(v) /\ (To(v) \in job => To(v) \in job')
  BY <1>1, ResolutionAssumption DEF Owned, ClaimsKept, To
<1> QED
  BY <1>1, <1>2 DEF RunnerSound, To

LEMMA ResolutionFrame ==
  ASSUME ResolutionInv, rows' \in [Recipients -> Row], \A r \in Recipients : RowSound(r)',
         job' \subseteq Recipients \cup CoRecipients,
         msgs' \subseteq [to : Recipients, attempts : Nat],
         run' \in [Runners -> Run], NEW w, \A v \in Runners : v # w => run'[v] = run[v],
         w \in Runners => RunnerSound(w)', ClaimsKept(w),
         NoWorkForTombstoned', ResolvedHasJob'
  PROVE  ResolutionInv'
<1>1. \A v \in Runners : RunnerSound(v)'
  BY RunnerStays DEF ResolutionInv
<1> QED
  BY <1>1 DEF ResolutionInv

\* A step that gives no row a token.
LEMMA KeptFrame ==
  ASSUME ResolutionInv, rows' \in [Recipients -> Row], \A r \in Recipients : RowKept(r),
         job' \subseteq Recipients \cup CoRecipients,
         \A r \in Recipients : rows'[r].owner # Nobody /\ r \in job => r \in job',
         msgs' \subseteq [to : Recipients, attempts : Nat],
         run' \in [Runners -> Run], NEW w, \A v \in Runners : v # w => run'[v] = run[v],
         w \in Runners => RunnerSound(w)',
         NoWorkForTombstoned', ResolvedHasJob'
  PROVE  ResolutionInv'
<1>1. \A r \in Recipients : RowSound(r)'
  BY RowIs, ResolutionAssumption DEF RowKept, RowSound
<1>2. ClaimsKept(w)
  BY DEF RowKept, ClaimsKept
<1> QED
  BY <1>1, <1>2, ResolutionFrame

\* A step that writes neither a row nor the job.
LEMMA QuietFrame ==
  ASSUME ResolutionInv, UNCHANGED <<gone, rows, job>>,
         msgs' \subseteq [to : Recipients, attempts : Nat],
         run' \in [Runners -> Run], NEW w, \A v \in Runners : v # w => run'[v] = run[v],
         w \in Runners => RunnerSound(w)'
  PROVE  ResolutionInv'
<1>1. \A r \in Recipients : RowKept(r)
  BY RowIs DEF RowKept
<1>2. NoWorkForTombstoned' /\ ResolvedHasJob'
  BY DEF ResolutionInv, NoWorkForTombstoned, ResolvedHasJob
<1> QED
  BY <1>1, <1>2, KeptFrame DEF ResolutionInv

LEMMA Moves ==
  ASSUME ResolutionInv, NEW w \in Runners, NEW r \in Run, Set(w, r)
  PROVE  /\ run' \in [Runners -> Run] /\ run'[w] = r
         /\ \A v \in Runners : v # w => run'[v] = run[v]
BY DEF Set, ResolutionInv

LEMMA RunnerIs ==
  ASSUME ResolutionInv, NEW w \in Runners
  PROVE  /\ run[w] \in Run /\ run[w].msg \in Message /\ run[w].seen \in 0..(MaxResolve - 1)
         /\ run[w].managed \in BOOLEAN /\ RunnerSound(w)
         /\ run[w].pc \in Busy => To(w) \in Recipients
BY DEF ResolutionInv, Run, RunnerSound

LEMMA IdleIs == Idle \in Run /\ Idle.pc = "idle"
<1>1. 0 \in 0..(MaxResolve - 1)
  BY ResolutionAssumption
<1> QED
  BY <1>1 DEF Idle, Run, Message

\* A runner that rests, or that has only to acknowledge.
LEMMA AtRest ==
  ASSUME ResolutionInv, NEW w \in Runners,
         \/ Set(w, Idle)
         \/ run[w].pc \in Busy /\ Acknowledge(w)
         \/ \E due \in SUBSET Recipients : Set(w, [Idle EXCEPT !.pc = "mark", !.held = due])
  PROVE  /\ run' \in [Runners -> Run] /\ \A v \in Runners : v # w => run'[v] = run[v]
         /\ RunnerSound(w)'
<1>1. ASSUME NEW r \in Run, Set(w, r), r.pc \in {"idle", "mark"}
      PROVE  RunnerSound(w)' /\ run' \in [Runners -> Run]
             /\ \A v \in Runners : v # w => run'[v] = run[v]
  BY <1>1, Moves DEF RunnerSound, Busy
<1>2. CASE run[w].pc \in Busy /\ Acknowledge(w)
  <2> DEFINE r == [Idle EXCEPT !.pc = "ack", !.msg = run[w].msg]
  <2>1. r \in Run /\ r.pc = "ack" /\ r.msg = run[w].msg
    BY IdleIs, RunnerIs DEF Run, Busy
  <2>2. Set(w, r)
    BY <1>2 DEF Acknowledge
  <2>3. run[w].msg.to \in Recipients
    BY <1>2, RunnerIs DEF To
  <2> HIDE DEF r
  <2>4. run'[w] = r
    BY <2>1, <2>2, Moves
  <2>5. RunnerSound(w)'
    BY <2>1, <2>3, <2>4 DEF RunnerSound, To
  <2> QED
    BY <2>1, <2>2, <2>5, Moves
<1>3. ASSUME NEW due \in SUBSET Recipients, Set(w, [Idle EXCEPT !.pc = "mark", !.held = due])
      PROVE  RunnerSound(w)' /\ run' \in [Runners -> Run]
             /\ \A v \in Runners : v # w => run'[v] = run[v]
  <2> DEFINE r == [Idle EXCEPT !.pc = "mark", !.held = due]
  <2>1. r \in Run /\ r.pc = "mark"
    BY IdleIs DEF Run, Busy
  <2>2. Set(w, r)
    BY <1>3
  <2> HIDE DEF r
  <2> QED
    BY <1>1, <2>1, <2>2
<1>4. CASE Set(w, Idle)
  BY <1>1, <1>4, IdleIs
<1> QED
  BY <1>2, <1>3, <1>4

-----------------------------------------------------------------------------
(* The steps that write neither a row nor the job.                         *)

LEMMA QuietStep ==
  ASSUME ResolutionInv,
         \/ \E w \in Runners : \/ ClaimLost(w) \/ CheckRecipient(w) \/ FetchActor(w)
                               \/ FetchFailsUnowned(w) \/ Ack(w) \/ Crash(w)
         \/ \E w \in Runners, m \in msgs : Receive(w, m)
         \/ LoseWakeups \/ ExpireCache \/ \E r \in Recipients : Block(r)
  PROVE  ResolutionInv'
<1> USE DEF At, Event, Receive
<1>0. /\ UNCHANGED <<gone, rows, job>>
      /\ msgs \subseteq [to : Recipients, attempts : Nat]
  BY DEF ResolutionInv, ClaimLost, CheckRecipient, FetchActor, FetchFailsUnowned, Ack, Crash,
     Drop, ReadRow, LoseWakeups, ExpireCache, Block, outside
<1>1. ASSUME run' = run, msgs' \subseteq msgs PROVE ResolutionInv'
  <2>1. Nobody \notin Runners
    BY ResolutionAssumption
  <2> QED
    BY <1>0, <1>1, <2>1, QuietFrame DEF ResolutionInv
<1>2. ASSUME NEW w \in Runners,
             \/ ClaimLost(w) \/ FetchFailsUnowned(w) \/ Ack(w) \/ Crash(w)
      PROVE  ResolutionInv'
  <2>1. Set(w, Idle) \/ (run[w].pc \in Busy /\ Acknowledge(w))
    BY <1>2 DEF ClaimLost, FetchFailsUnowned, Ack, Crash, Busy
  <2>2. msgs' \subseteq [to : Recipients, attempts : Nat]
    <3>1. CASE FetchFailsUnowned(w)
      <4>1. To(w) \in Recipients /\ run[w].msg.attempts + 1 \in Nat
        BY <3>1, RunnerIs DEF FetchFailsUnowned, Busy, Message
      <4>2. Wakeup(To(w), run[w].msg.attempts + 1) \in [to : Recipients, attempts : Nat]
        BY <4>1 DEF Wakeup
      <4> QED
        BY <1>0, <3>1, <4>2 DEF FetchFailsUnowned
    <3>2. CASE ClaimLost(w) \/ Ack(w) \/ Crash(w)
      BY <1>0, <3>2 DEF ClaimLost, Ack, Crash
    <3> QED
      BY <1>2, <3>1, <3>2
  <2> QED
    BY <1>0, <2>1, <2>2, AtRest, QuietFrame
<1>3. ASSUME NEW w \in Runners, NEW m \in msgs, ReadRow(w, m) PROVE ResolutionInv'
  <2> DEFINE row == rows[m.to]
             r == [Idle EXCEPT !.pc = IF row.status = "none" THEN "check" ELSE "claim",
                               !.msg = m, !.seen = row.attempts]
  <2>1. Set(w, r) /\ row.status \notin Terminal /\ msgs' = msgs
    BY <1>3 DEF ReadRow
  <2>2. m \in [to : Recipients, attempts : Nat] /\ m.to \in Recipients
    BY <1>0
  <2>3. row.attempts \in 0..(MaxResolve - 1)
    BY <2>1, <2>2, RowIs, ResolutionAssumption DEF RowSound
  <2>4. m \in Message
    BY <2>2 DEF Message
  <2>5. r \in Run /\ r.msg = m /\ r.pc \in {"check", "claim"}
    <3> HIDE DEF row
    <3> QED
      BY <2>3, <2>4, IdleIs DEF Run, Busy
  <2> HIDE DEF r, row
  <2>6. run'[w] = r
    BY <2>1, <2>5, Moves
  <2>7. RunnerSound(w)'
    BY <2>2, <2>5, <2>6 DEF RunnerSound, To
  <2> QED
    BY <1>0, <2>1, <2>5, <2>7, Moves, QuietFrame
<1>4. ASSUME NEW w \in Runners, CheckRecipient(w) \/ FetchActor(w) PROVE ResolutionInv'
  <2>1. PICK r : Set(w, r) /\ (r = Finishing(w, "discarded")
                               \/ \E next \in {"upsert", "fetch"} : r = [run[w] EXCEPT !.pc = next])
    BY <1>4 DEF CheckRecipient, FetchActor
  <2>2. msgs' = msgs /\ run[w].pc \in Busy
    BY <1>4 DEF CheckRecipient, FetchActor, Busy
  <2>3. /\ r \in Run /\ r.msg = run[w].msg
        /\ r.pc = "finish" => r.outcome = "discarded"
    <3>1. 0 \in 0..(MaxResolve - 1)
      BY ResolutionAssumption
    <3> QED
      BY <2>1, <3>1, RunnerIs DEF Finishing, Run, Busy
  <2>4. run'[w] = r /\ run[w].msg.to \in Recipients
    BY <2>1, <2>2, <2>3, Moves, RunnerIs DEF To
  <2>5. RunnerSound(w)'
    BY <2>3, <2>4 DEF RunnerSound, To
  <2> QED
    BY <1>0, <2>1, <2>2, <2>3, <2>5, Moves, QuietFrame
<1>5. ASSUME \/ \E w \in Runners, m \in msgs : Drop(w, m)
             \/ LoseWakeups \/ ExpireCache \/ \E r \in Recipients : Block(r)
      PROVE  run' = run /\ msgs' \subseteq msgs
  BY <1>5 DEF Drop, LoseWakeups, ExpireCache, Block
<1> QED
  BY <1>1, <1>2, <1>3, <1>4, <1>5

-----------------------------------------------------------------------------
(* The steps that write rows.                                              *)

LEMMA RowsFrame ==
  ASSUME ResolutionInv, UNCHANGED <<gone, job>>, rows' \in [Recipients -> Row],
         \A r \in Recipients : /\ RowKept(r)
                               /\ r \in gone => rows'[r].status = "none"
                               /\ rows'[r].status = "resolved" =>
                                    rows[r].status = "resolved" \/ r \in job,
         msgs' \subseteq [to : Recipients, attempts : Nat],
         run' \in [Runners -> Run], NEW w, \A v \in Runners : v # w => run'[v] = run[v],
         w \in Runners => RunnerSound(w)'
  PROVE  ResolutionInv'
<1>1. NoWorkForTombstoned' /\ ResolvedHasJob'
  BY DEF ResolutionInv, NoWorkForTombstoned, ResolvedHasJob
<1> QED
  BY <1>1, KeptFrame DEF ResolutionInv

\* A tombstoned recipient has no row that could change.
LEMMA GoneRow == ASSUME ResolutionInv, NEW r \in Recipients, r \in gone
                 PROVE  rows[r].status = "none" /\ rows[r].owner = Nobody
BY RowIs, ResolutionAssumption DEF ResolutionInv, NoWorkForTombstoned, RowSound

LEMMA SweepStep ==
  ASSUME ResolutionInv, NEW w \in Runners, Sweep(w) \/ MarkQueued(w)
  PROVE  ResolutionInv'
<1>1. CASE Sweep(w)
  <2> DEFINE fresh == [r \in Recipients |-> Reset(rows[r])]
             due == {r \in Recipients : Due(fresh[r])}
  <2>1. /\ rows' = fresh /\ msgs' = msgs \cup {Wakeup(r, fresh[r].attempts) : r \in due}
        /\ Set(w, [Idle EXCEPT !.pc = "mark", !.held = due])
        /\ due \in SUBSET Recipients /\ UNCHANGED <<gone, job>>
    BY <1>1 DEF Sweep, outside
  <2>2. ASSUME NEW r \in Recipients
        PROVE  /\ Reset(rows[r]) \in Row /\ Reset(rows[r]).attempts = rows[r].attempts
               /\ \/ Reset(rows[r]) = rows[r]
                  \/ /\ rows[r].status \in {"queued", "processing"}
                     /\ Reset(rows[r]).status = "pending" /\ Reset(rows[r]).owner = Nobody
    BY RowIs, RowOfIs DEF Reset
  <2>3. ASSUME NEW r \in Recipients
        PROVE  /\ RowKept(r)
               /\ r \in gone => rows'[r].status = "none"
               /\ rows'[r].status = "resolved" => rows[r].status = "resolved" \/ r \in job
    <3>1. rows'[r] = Reset(rows[r])
      BY <2>1
    <3> HIDE DEF fresh
    <3> QED
      BY <2>2, <3>1, RowIs, GoneRow DEF RowKept, RowSound, Terminal
  <2>4. rows' \in [Recipients -> Row]
    BY <2>1, <2>2
  <2>5. msgs' \subseteq [to : Recipients, attempts : Nat]
    <3>1. \A r \in Recipients : fresh[r].attempts \in Nat
      BY <2>2, RowIs
    <3> HIDE DEF fresh
    <3>2. \A r \in due : Wakeup(r, fresh[r].attempts) \in [to : Recipients, attempts : Nat]
      BY <3>1 DEF Wakeup
    <3> QED
      BY <2>1, <3>2 DEF ResolutionInv
  <2> HIDE DEF fresh, due
  <2>6. /\ run' \in [Runners -> Run] /\ \A v \in Runners : v # w => run'[v] = run[v]
        /\ RunnerSound(w)'
    BY <2>1, AtRest
  <2> QED
    BY <2>1, <2>3, <2>4, <2>5, <2>6, RowsFrame
<1>2. CASE MarkQueued(w)
  <2>1. /\ rows' = [r \in Recipients |-> IF r \in run[w].held THEN Queued(rows[r]) ELSE rows[r]]
        /\ Set(w, Idle) /\ UNCHANGED <<gone, job, msgs>>
    BY <1>2 DEF MarkQueued, outside
  <2>2. ASSUME NEW r \in Recipients
        PROVE  /\ rows'[r] \in Row /\ rows'[r].attempts = rows[r].attempts
               /\ \/ rows'[r] = rows[r]
                  \/ /\ rows[r].status \in {"pending", "retry_wait"}
                     /\ rows'[r].status = "queued" /\ rows'[r].owner = Nobody
    BY <2>1, RowIs, RowOfIs DEF Queued
  <2>3. ASSUME NEW r \in Recipients
        PROVE  /\ RowKept(r)
               /\ r \in gone => rows'[r].status = "none"
               /\ rows'[r].status = "resolved" => rows[r].status = "resolved" \/ r \in job
    BY <2>2, RowIs, GoneRow DEF RowKept, RowSound, Terminal
  <2>4. rows' \in [Recipients -> Row]
    <3>1. DOMAIN rows' = Recipients /\ rows' = [r \in Recipients |-> rows'[r]]
      BY <2>1
    <3> QED
      BY <2>2, <3>1
  <2>5. /\ run' \in [Runners -> Run] /\ \A v \in Runners : v # w => run'[v] = run[v]
        /\ RunnerSound(w)'
    BY <2>1, AtRest
  <2> QED
    BY <2>1, <2>3, <2>4, <2>5, RowsFrame DEF ResolutionInv
<1> QED
  BY <1>1, <1>2

LEMMA ClaimStep ==
  ASSUME ResolutionInv, NEW w \in Runners, Claim(w)
  PROVE  ResolutionInv'
<1> DEFINE t == To(w)
           new == [status |-> "processing", attempts |-> rows[t].attempts,
                   owner |-> w, late |-> FALSE]
           r == [run[w] EXCEPT !.pc = "check", !.managed = TRUE]
<1>1. /\ t \in Recipients /\ Claimable(rows[t]) /\ Set(w, r) /\ UNCHANGED <<gone, job, msgs>>
      /\ run[w].msg.to = t
  BY RunnerIs DEF Claim, At, Busy, outside, To
<1>2. rows' = [rows EXCEPT ![t] = new]
  BY DEF Claim
<1>3. new \in Row /\ new.status = "processing" /\ new.owner = w /\ new.attempts = rows[t].attempts
  BY <1>1, RowIs DEF Row
<1>4. r \in Run /\ r.pc = "check" /\ r.msg = run[w].msg
  BY RunnerIs DEF Run, Busy
<1>5. rows[t].status \in {"pending", "queued", "retry_wait", "processing"}
  BY <1>1 DEF Claimable
<1> HIDE DEF new, r
<1>6. /\ rows' \in [Recipients -> Row] /\ rows'[t] = new
      /\ \A x \in Recipients : x # t => rows'[x] = rows[x]
  BY <1>1, <1>2, <1>3 DEF ResolutionInv
<1> HIDE DEF t
<1>7. \A x \in Recipients : RowSound(x)'
  <2>1. ASSUME NEW x \in Recipients
        PROVE  RowSound(x)'
    <3>1. CASE x = t
      <4>1. rows[t].attempts < MaxResolve
        BY <1>1, <1>5, RowIs DEF RowSound, Terminal
      <4>2. /\ rows'[x].status = "processing" /\ rows'[x].owner # Nobody
            /\ rows'[x].attempts < MaxResolve
        BY <1>3, <1>6, <3>1, <4>1, ResolutionAssumption
      <4> QED
        BY <4>2 DEF RowSound
    <3>2. CASE x # t
      <4>1. rows'[x] = rows[x] /\ RowSound(x)
        BY <1>6, <3>2, RowIs
      <4> QED
        BY <4>1 DEF RowSound
    <3> QED
      BY <3>1, <3>2
  <2> QED
    BY <2>1
<1>8. ClaimsKept(w)
  BY <1>1, <1>3, <1>6 DEF ClaimsKept
<1>9. NoWorkForTombstoned'
  BY <1>1, <1>5, <1>6, GoneRow DEF NoWorkForTombstoned, ResolutionInv
<1>10. ResolvedHasJob'
  BY <1>1, <1>3, <1>6 DEF ResolvedHasJob, ResolutionInv
<1>11. RunnerSound(w)'
  BY <1>1, <1>4, Moves DEF RunnerSound, To
<1>12. run' \in [Runners -> Run] /\ \A v \in Runners : v # w => run'[v] = run[v]
  BY <1>1, <1>4, Moves
<1> QED
  BY <1>1, <1>6, <1>7, <1>8, <1>9, <1>10, <1>11, <1>12, ResolutionFrame DEF ResolutionInv

\* What the holder of a claim makes of its row.
LEMMA OwnedRow ==
  ASSUME ResolutionInv, NEW w \in Runners, To(w) \in Recipients, Owned(w)
  PROVE  rows[To(w)].status = "processing" /\ rows[To(w)].attempts \in 0..(MaxResolve - 1)
<1>1. rows[To(w)].status = "processing"
  BY RowIs, ResolutionAssumption DEF Owned, RowSound
<1> QED
  BY <1>1, RowIs, ResolutionAssumption DEF RowSound, Terminal

LEMMA SettleStep ==
  ASSUME ResolutionInv, NEW w \in Runners, Defer(w) \/ FetchFails(w) \/ Finish(w)
  PROVE  ResolutionInv'
<1> DEFINE t == To(w)
<1>1. /\ t \in Recipients /\ UNCHANGED <<gone, job, msgs>>
      /\ Set(w, Idle) \/ (run[w].pc \in Busy /\ Acknowledge(w))
  BY RunnerIs DEF Defer, FetchFails, Finish, At, Busy, outside
<1>2. \/ rows' = rows
      \/ /\ Owned(w)
         /\ \E new : /\ rows' = [rows EXCEPT ![t] = new]
                     /\ new \in Row /\ new.owner = Nobody
                     /\ new.status \in {"retry_wait"} \cup Terminal
                     /\ new.status = "retry_wait" => new.attempts < MaxResolve
                     /\ new.status = "resolved" => t \in job
  <2>1. CASE Defer(w) /\ Owned(w)
    <3> DEFINE new == RowOf("retry_wait", rows[t].attempts)
    <3>1. rows' = [rows EXCEPT ![t] = new]
      BY <2>1 DEF Defer
    <3>2. rows[t].attempts \in 0..(MaxResolve - 1)
      BY <1>1, <2>1, OwnedRow
    <3>3. rows[t].attempts \in 0..MaxResolve
      BY <3>2, ResolutionAssumption
    <3>4. new \in Row /\ new.owner = Nobody /\ new.status = "retry_wait"
          /\ new.attempts = rows[t].attempts
      BY <3>3, RowOfIs
    <3> HIDE DEF new
    <3>5. new.attempts < MaxResolve
      BY <3>2, <3>4, ResolutionAssumption
    <3> QED
      BY <2>1, <3>1, <3>4, <3>5
  <2>2. CASE FetchFails(w)
    <3> DEFINE new == FailedFetch(run[w].seen)
    <3>1. rows' = [rows EXCEPT ![t] = new] /\ Owned(w)
      BY <2>2 DEF FetchFails
    <3>2. run[w].seen \in 0..(MaxResolve - 1)
      BY RunnerIs
    <3>3. run[w].seen + 1 \in 0..MaxResolve
      BY <3>2, ResolutionAssumption
    <3>4. \/ new = RowOf("failed", run[w].seen + 1)
          \/ new = RowOf("retry_wait", run[w].seen + 1) /\ run[w].seen + 1 < MaxResolve
      BY <3>2, ResolutionAssumption DEF FailedFetch
    <3> HIDE DEF new
    <3>5. /\ new \in Row /\ new.owner = Nobody /\ new.status \in {"failed", "retry_wait"}
          /\ new.status = "retry_wait" => new.attempts < MaxResolve
      BY <3>3, <3>4, RowOfIs DEF Settled, Terminal
    <3> QED
      BY <3>1, <3>5 DEF Terminal
  <2>3. CASE Finish(w) /\ Owned(w)
    <3> DEFINE new == RowOf(run[w].outcome, rows[t].attempts)
    <3>1. rows' = [rows EXCEPT ![t] = new]
      BY <2>3 DEF Finish
    <3>2. /\ run[w].outcome \in {"resolved", "discarded"}
          /\ run[w].outcome = "resolved" => t \in job
      BY <2>3, RunnerIs DEF Finish, At, RunnerSound
    <3>3. rows[t].attempts \in 0..MaxResolve
      BY <1>1, RowIs
    <3>4. new \in Row /\ new.owner = Nobody /\ new.status = run[w].outcome
      BY <3>2, <3>3, RowOfIs DEF Settled, Terminal
    <3> HIDE DEF new
    <3> QED
      BY <2>3, <3>1, <3>2, <3>4 DEF Terminal
  <2> QED
    BY <2>1, <2>2, <2>3 DEF Defer, FetchFails, Finish
<1>3. /\ rows' \in [Recipients -> Row]
      /\ \A r \in Recipients : /\ RowKept(r)
                               /\ r \in gone => rows'[r].status = "none"
                               /\ rows'[r].status = "resolved" =>
                                    rows[r].status = "resolved" \/ r \in job
  <2>1. CASE rows' = rows
    BY <2>1, RowIs, GoneRow DEF RowKept, ResolutionInv
  <2>2. ASSUME Owned(w), NEW new, rows' = [rows EXCEPT ![t] = new],
               new \in Row /\ new.owner = Nobody,
               new.status \in {"retry_wait"} \cup Terminal,
               new.status = "retry_wait" => new.attempts < MaxResolve,
               new.status = "resolved" => t \in job
        PROVE  /\ rows' \in [Recipients -> Row]
               /\ \A r \in Recipients : /\ RowKept(r)
                                        /\ r \in gone => rows'[r].status = "none"
                                        /\ rows'[r].status = "resolved" =>
                                             rows[r].status = "resolved" \/ r \in job
    <3>1. /\ rows' \in [Recipients -> Row] /\ rows'[t] = new
          /\ \A x \in Recipients : x # t => rows'[x] = rows[x]
      BY <1>1, <2>2 DEF ResolutionInv
    <3>2. t \notin gone
      BY <1>1, <2>2, OwnedRow, GoneRow
    <3> HIDE DEF t
    <3> QED
      BY <2>2, <3>1, <3>2, RowIs, GoneRow DEF RowKept, Terminal
  <2> QED
    BY <1>2, <2>1, <2>2
<1>4. /\ run' \in [Runners -> Run] /\ \A v \in Runners : v # w => run'[v] = run[v]
      /\ RunnerSound(w)'
  BY <1>1, AtRest
<1> QED
  BY <1>1, <1>3, <1>4, RowsFrame DEF ResolutionInv

LEMMA UpsertStep ==
  ASSUME ResolutionInv, NEW w \in Runners, UpsertJob(w)
  PROVE  ResolutionInv'
<1> DEFINE t == To(w)
<1>1. t \in Recipients /\ UNCHANGED <<gone, rows, msgs>>
  BY RunnerIs DEF UpsertJob, At, Busy, outside
<1>2. PICK outcome \in {"resolved", "discarded"} :
        /\ Set(w, Finishing(w, outcome))
        /\ (job' = job /\ outcome = "discarded") \/ job' = job \cup ({t} \ gone)
  BY DEF UpsertJob, Upserted
<1> DEFINE r == Finishing(w, outcome)
<1>3. /\ r \in Run /\ r.pc = "finish" /\ r.outcome = outcome /\ r.msg = run[w].msg
      /\ r.managed = run[w].managed
  <2>1. 0 \in 0..(MaxResolve - 1)
    BY ResolutionAssumption
  <2> QED
    BY <2>1, RunnerIs DEF Finishing, Run, Busy
<1> HIDE DEF r
<1>4. run' \in [Runners -> Run] /\ run'[w] = r /\ \A v \in Runners : v # w => run'[v] = run[v]
  BY <1>2, <1>3, Moves DEF r
<1>5. job \subseteq job' /\ job' \subseteq Recipients \cup CoRecipients
  BY <1>1, <1>2 DEF ResolutionInv
<1>6. RunnerSound(w)'
  <2>1. To(w)' = t /\ (Owned(w)' => Owned(w))
    BY <1>1, <1>3, <1>4 DEF To, Owned
  <2>2. Owned(w) => t \notin gone
    BY <1>1, OwnedRow, GoneRow
  <2> QED
    BY <1>1, <1>2, <1>3, <1>4, <2>1, <2>2 DEF RunnerSound
<1>7. NoWorkForTombstoned' /\ ResolvedHasJob'
  BY <1>1, <1>2, <1>5 DEF ResolutionInv, NoWorkForTombstoned, ResolvedHasJob
<1>8. \A x \in Recipients : RowKept(x)
  BY <1>1, RowIs DEF RowKept
<1> QED
  BY <1>1, <1>4, <1>5, <1>6, <1>7, <1>8, KeptFrame DEF ResolutionInv

-----------------------------------------------------------------------------
(* Time, and what other parts of the system change.                        *)

LEMMA LateStep ==
  ASSUME ResolutionInv, NEW r \in Recipients, BecomeLate(r) \/ Stall(r)
  PROVE  ResolutionInv'
<1>1. rows' = [rows EXCEPT ![r] = [@ EXCEPT !.late = TRUE]] /\ UNCHANGED <<gone, job, msgs, run>>
  BY DEF BecomeLate, Stall, Later, outside
<1>2. ASSUME NEW x \in Recipients
      PROVE  /\ rows'[x] \in Row /\ rows'[x].status = rows[x].status
             /\ rows'[x].owner = rows[x].owner /\ rows'[x].attempts = rows[x].attempts
  <2>1. rows[x] \in Row /\ DOMAIN rows = Recipients
    BY DEF ResolutionInv
  <2> QED
    BY <1>1, <2>1 DEF Row
<1>3. rows' \in [Recipients -> Row]
  <2>1. rows' = [x \in Recipients |-> rows'[x]]
    BY <1>1 DEF ResolutionInv
  <2> QED
    BY <1>2, <2>1
<1>4. \A x \in Recipients : /\ RowKept(x)
                            /\ x \in gone => rows'[x].status = "none"
                            /\ rows'[x].status = "resolved" => rows[x].status = "resolved"
  BY <1>2, GoneRow DEF RowKept
<1>5. Nobody \notin Runners
  BY ResolutionAssumption
<1> QED
  BY <1>1, <1>3, <1>4, <1>5, RowsFrame DEF ResolutionInv

LEMMA PageStep ==
  ASSUME ResolutionInv, NEW r \in Recipients, LatePage(r)
  PROVE  ResolutionInv'
<1>0. UNCHANGED <<gone, msgs, run>> /\ Nobody \notin Runners
  BY ResolutionAssumption DEF LatePage, outside
<1>1. CASE rows' = Persisted({r}) /\ job' = job
  <2>1. ASSUME NEW x \in Recipients
        PROVE  /\ rows'[x] = IF x \in {r} \ gone /\ rows[x].status = "none"
                             THEN RowOf("pending", 0) ELSE rows[x]
               /\ RowOf("pending", 0) \in Row /\ RowOf("pending", 0).status = "pending"
               /\ RowOf("pending", 0).owner = Nobody /\ RowOf("pending", 0).attempts = 0
    BY <1>1, RowOfIs, ResolutionAssumption DEF Persisted
  <2>2. ASSUME NEW x \in Recipients
        PROVE  /\ RowKept(x)
               /\ x \in gone => rows'[x].status = "none"
               /\ rows'[x].status = "resolved" => rows[x].status = "resolved"
    BY <2>1, RowIs, GoneRow, ResolutionAssumption DEF RowKept
  <2>3. rows' \in [Recipients -> Row]
    <3>1. rows' = [x \in Recipients |-> rows'[x]]
      BY <1>1 DEF Persisted
    <3> QED
      BY <2>2, <3>1 DEF RowKept
  <2> QED
    BY <1>0, <1>1, <2>2, <2>3, RowsFrame DEF ResolutionInv
<1>2. CASE job' = Upserted({r}) /\ rows' = rows
  <2>1. job' = job \cup ({r} \ gone)
    BY <1>2 DEF Upserted
  <2>2. NoWorkForTombstoned' /\ ResolvedHasJob'
    BY <1>0, <1>2, <2>1 DEF ResolutionInv, NoWorkForTombstoned, ResolvedHasJob
  <2>3. \A x \in Recipients : RowKept(x)
    BY <1>2, RowIs DEF RowKept
  <2> QED
    BY <1>0, <1>2, <2>1, <2>2, <2>3, KeptFrame DEF ResolutionInv
<1> QED
  BY <1>1, <1>2 DEF LatePage

LEMMA WithdrawStep ==
  ASSUME ResolutionInv,
         DeleteActivity \/ \E r \in Recipients \cup CoRecipients : Tombstone(r)
  PROVE  ResolutionInv'
<1>0. UNCHANGED <<msgs, run>> /\ Nobody \notin Runners
  BY ResolutionAssumption DEF DeleteActivity, Tombstone, outside
<1>1. CASE DeleteActivity
  <2>1. /\ rows' = [r \in Recipients |-> NoRow] /\ job' = {} /\ gone' = gone
    BY <1>1 DEF DeleteActivity
  <2>2. \A x \in Recipients : rows'[x] = NoRow
    BY <2>1
  <2>3. \A x \in Recipients : RowKept(x) /\ rows'[x].status = "none" /\ rows'[x].owner = Nobody
    BY <2>2, NoRowIs, ResolutionAssumption DEF RowKept
  <2>4. rows' \in [Recipients -> Row]
    BY <2>1, NoRowIs
  <2>5. NoWorkForTombstoned' /\ ResolvedHasJob'
    BY <2>1, <2>3 DEF NoWorkForTombstoned, ResolvedHasJob
  <2> QED
    BY <1>0, <2>1, <2>3, <2>4, <2>5, KeptFrame DEF ResolutionInv
<1>2. ASSUME NEW r \in Recipients \cup CoRecipients, Tombstone(r) PROVE ResolutionInv'
  <2>1. /\ rows' = [x \in Recipients |-> IF x = r THEN NoRow ELSE rows[x]]
        /\ job' = job \ {r} /\ gone' = gone \cup {r}
    BY <1>2 DEF Tombstone
  <2>2. \A x \in Recipients : rows'[x] = IF x = r THEN NoRow ELSE rows[x]
    BY <2>1
  <2>3. \A x \in Recipients : RowKept(x)
    BY <2>2, RowIs, NoRowIs, ResolutionAssumption DEF RowKept
  <2>4. rows' \in [Recipients -> Row]
    BY <2>1, NoRowIs DEF ResolutionInv
  <2>5. NoWorkForTombstoned' /\ ResolvedHasJob'
    BY <2>1, <2>2, NoRowIs DEF NoWorkForTombstoned, ResolvedHasJob, ResolutionInv
  <2>6. \A x \in Recipients : rows'[x].owner # Nobody /\ x \in job => x \in job'
    BY <2>1, <2>2, NoRowIs
  <2> QED
    BY <1>0, <2>1, <2>3, <2>4, <2>5, <2>6, KeptFrame DEF ResolutionInv
<1> QED
  BY <1>1, <1>2

LEMMA RejectStep ==
  ASSUME ResolutionInv, RejectInbox
  PROVE  ResolutionInv'
<1> DEFINE due == {r \in Cached \ (blocked \cup gone) : rows[r].status \in Settled \/ Due(rows[r])}
           attempts(r) == IF rows[r].status \in Settled THEN 0 ELSE rows[r].attempts
<1>1. /\ rows' = [r \in Recipients |-> IF r \in due THEN RowOf("queued", attempts(r)) ELSE rows[r]]
      /\ msgs' = msgs \cup {Wakeup(r, attempts(r)) : r \in due}
      /\ UNCHANGED <<gone, job, run>> /\ Nobody \notin Runners
      /\ due \subseteq Recipients \ gone
  BY ResolutionAssumption DEF RejectInbox, outside, Cached
<1>2. \A r \in Recipients : attempts(r) \in 0..(MaxResolve - 1)
  BY RowIs, ResolutionAssumption DEF RowSound, Settled
<1>3. \A r \in Recipients : attempts(r) \in 0..MaxResolve /\ attempts(r) < MaxResolve
                            /\ attempts(r) \in Nat
  BY <1>2, ResolutionAssumption
<1> HIDE DEF attempts, due
<1>4. ASSUME NEW r \in Recipients
      PROVE  /\ RowOf("queued", attempts(r)) \in Row /\ RowOf("queued", attempts(r)).owner = Nobody
             /\ RowOf("queued", attempts(r)).status = "queued"
             /\ RowOf("queued", attempts(r)).attempts < MaxResolve
  BY <1>3, RowOfIs
<1>5. ASSUME NEW r \in Recipients
      PROVE  /\ RowKept(r)
             /\ r \in gone => rows'[r].status = "none"
             /\ rows'[r].status = "resolved" => rows[r].status = "resolved"
  BY <1>1, <1>4, RowIs, GoneRow DEF RowKept
<1>6. rows' \in [Recipients -> Row]
  BY <1>1, <1>4 DEF ResolutionInv
<1>7. msgs' \subseteq [to : Recipients, attempts : Nat]
  BY <1>1, <1>3 DEF ResolutionInv, Wakeup
<1> QED
  BY <1>1, <1>5, <1>6, <1>7, RowsFrame DEF ResolutionInv

-----------------------------------------------------------------------------
LEMMA ResolutionInvStep ==
  ASSUME ResolutionInv, Next
  PROVE  ResolutionInv'
BY QuietStep, SweepStep, ClaimStep, SettleStep, UpsertStep, LateStep, PageStep, WithdrawStep,
   RejectStep DEF Next, Proceed

LEMMA ResolutionInvInit == Init => ResolutionInv
<1> SUFFICES ASSUME Init PROVE ResolutionInv
  OBVIOUS
<1>1. /\ RowOf("pending", 0) \in Row /\ RowOf("pending", 0).status = "pending"
      /\ RowOf("pending", 0).owner = Nobody /\ RowOf("pending", 0).attempts = 0
  BY RowOfIs, ResolutionAssumption
<1>2. rows \in [Recipients -> Row] /\ \A r \in Recipients : rows[r] = RowOf("pending", 0)
  BY <1>1 DEF Init
<1>3. \A r \in Recipients : RowSound(r)
  BY <1>1, <1>2, ResolutionAssumption DEF RowSound
<1>4. run \in [Runners -> Run] /\ \A w \in Runners : RunnerSound(w)
  BY IdleIs DEF Init, RunnerSound, Busy
<1>5. NoWorkForTombstoned /\ ResolvedHasJob
  BY <1>1, <1>2 DEF Init, NoWorkForTombstoned, ResolvedHasJob
<1> QED
  BY <1>2, <1>3, <1>4, <1>5 DEF Init, ResolutionInv

LEMMA ResolutionInvStutter == ResolutionInv /\ UNCHANGED vars => ResolutionInv'
<1> SUFFICES ASSUME ResolutionInv, UNCHANGED vars PROVE ResolutionInv'
  OBVIOUS
<1>1. Nobody \notin Runners
  BY ResolutionAssumption
<1> QED
  BY <1>1, QuietFrame DEF vars, outside, ResolutionInv

(* A tombstoned recipient has no delivery work, whichever of the Delete batch, *)
(* a fanout page planned before it, a resolution claimed before it and a       *)
(* rejected inbox comes last.                                                  *)
THEOREM TombstonedHaveNoWork == Spec => []NoWorkForTombstoned
<1>1. ResolutionInv => NoWorkForTombstoned
  BY DEF ResolutionInv
<1> QED
  BY <1>1, ResolutionInvInit, ResolutionInvStep, ResolutionInvStutter, PTL DEF Spec

(* A recipient is settled as resolved only while the endpoint job stands for   *)
(* it, and a row has a token exactly while it is being processed, however      *)
(* claims expire, rows are reset under their claimants and wakeups are         *)
(* replayed.                                                                   *)
THEOREM ResolutionIsSound == MCSpec => []ResolutionSound
<1>1. ResolutionInv => ResolutionSound
  BY DEF ResolutionInv, RowSound, ResolutionSound, TypeOK
<1>2. MCInit => Init
  BY DEF MCInit
<1>3. [MCNext]_allVars => [Next]_vars
  BY DEF MCNext, ResolutionStep, InResolution, GateStep, InGate, allVars
<1> QED
  BY <1>1, <1>2, <1>3, ResolutionInvInit, ResolutionInvStep, ResolutionInvStutter, PTL DEF MCSpec

=============================================================================
