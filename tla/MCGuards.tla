------------------------------ MODULE MCGuards ------------------------------
(***************************************************************************)
(* What stands between a recipient and its delivery: the resolution of its *)
(* inbox, and the circuit and bulkhead a delivery passes.  The two share   *)
(* no state: a behaviour is one of the part it begins with.                *)
(***************************************************************************)
EXTENDS DeliveryResolution

CONSTANTS Workers, GlobalLimit, HostLimit, Threshold, Window, Probes

ASSUME GateAssumption ==
  /\ IsFiniteSet(Workers)
  /\ {GlobalLimit, HostLimit, Threshold, Probes} \subseteq Nat \ {0} /\ Window \in Nat

VARIABLES part, circuit, pc, seen, available, waiters, ready

Gate == INSTANCE DeliveryGate

gateVars == <<circuit, pc, seen, available, waiters, ready>>
allVars == <<part, vars, gateVars>>

(* The gate has no state in a behaviour of the resolution.                 *)
NoGate == /\ circuit = 0 /\ pc = 0 /\ seen = 0 /\ available = 0
          /\ waiters = 0 /\ ready = 0

MCInit ==
  /\ Init
  /\ \/ part = "resolution" /\ NoGate
     \/ /\ part = "gate" /\ Gate!Init
        /\ cache = [r \in Recipients |-> "absent"]

InResolution(A) == part = "resolution" /\ A /\ UNCHANGED <<part, gateVars>>
InGate(A) == part = "gate" /\ A /\ UNCHANGED <<part, vars>>

ResolutionStep == InResolution(Next)
GateStep == InGate(Gate!Next)

MCNext == ResolutionStep \/ GateStep

(* The fairness of both parts.  Only one of two joined actions can ever be *)
(* enabled in a behaviour, so that each is treated as it is on its own.    *)
MCFairness ==
  /\ \A r \in Recipients :
       /\ WF_allVars(InGate(Gate!WindowElapses) \/ InResolution(BecomeLate(r)))
       /\ SF_allVars(InResolution(\E w \in Runners, m \in msgs :
                                    m.to = r /\ Receive(w, m)))
  /\ \A w \in Workers :
       WF_allVars(\/ InGate(Gate!Step(w))
                  \/ w \in Runners /\ InResolution(Proceed(w)))
  /\ SF_allVars(InResolution(\E w \in Runners : Sweep(w)))

MCSpec == MCInit /\ [][MCNext]_allVars /\ MCFairness

(* The semaphores' free slots are their limits less the executions that    *)
(* hold one, whatever release and resumption interleave, and the updates   *)
(* that circuit.ts accepts to lose leave every counter of the circuit in   *)
(* its range (DeliveryGate).                                               *)
GateAccounts == part = "gate" => Gate!TypeOK /\ Gate!CountersInRange

(* A resolved intent stands in the endpoint job of its recipient, and a    *)
(* row has a token exactly while it is being processed (DeliveryResolution)*)
ResolutionSound == TypeOK /\ ResolvedHasJob

Denying == part = "gate" /\ ~Gate!Allows(circuit)
Waiting(w) == part = "gate" /\ pc[w] \in {"globalParked", "hostParked"}
Posting(w) == part = "gate" /\ pc[w] = "posting"

(* Every resolution intent is settled or withdrawn in the end, although    *)
(* wakeups are lost, executions crash, and rows are reset under their      *)
(* claimants.                                                              *)
RecipientsSettle == \A r \in Recipients :
  part = "resolution" /\ rows[r].status \notin Settled
    ~> rows[r].status \in Settled

(* A circuit that denies deliveries allows them again: neither a failed    *)
(* probe nor a lost update leaves it open or half-open for ever.  And a    *)
(* suspended acquire() gets its slot in the end, although later arrivals   *)
(* can take the slot it was woken for: release() loses no wakeup, and      *)
(* holding a global slot while waiting for a host slot does not deadlock.  *)
(* The executions are interchangeable: one stands for all.                 *)
GateOpens ==
  /\ Denying ~> ~Denying
  /\ LET w == CHOOSE w \in Workers : TRUE IN Waiting(w) ~> Posting(w)
=============================================================================
