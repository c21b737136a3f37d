-------------------------- MODULE DeliveryLedger --------------------------
(***************************************************************************)
(* What the endpoint ledger promises, without runners, tokens, queues or   *)
(* time: a job is opened at most once per life, spends attempts, and ends  *)
(* delivered, failed, or given up.  Running out of attempts parks it for   *)
(* one more series, at most MaxReconcile times.  Nothing else reopens it.  *)
(***************************************************************************)
EXTENDS Naturals

CONSTANTS Jobs, MaxReconcile

VARIABLE ledger    \* per job: its state, the series it is in, attempts spent

NoJob == [state |-> "none", series |-> 0, spent |-> 0]

LedgerInit == ledger = [j \in Jobs |-> NoJob]

Open(e, f) == e = NoJob /\ f = [NoJob EXCEPT !.state = "open"]

Spend(e, f) == e.state = "open" /\ f = [e EXCEPT !.spent = @ + 1]

Conclude(e, f) ==
  /\ e.state = "open"
  /\ \/ f = [e EXCEPT !.state = "delivered"]
     \/ f = [e EXCEPT !.state = "failed"]

\* The attempts of this series are used up.
Exhaust(e, f) ==
  /\ e.state = "open"
  /\ f = [e EXCEPT !.state = IF e.series < MaxReconcile THEN "parked" ELSE "given_up"]

\* The only way to a new budget.
Reopen(e, f) ==
  /\ e.state = "parked"
  /\ f = [state |-> "open", series |-> e.series + 1, spent |-> 0]

\* Purge, cascade delete, or the last recipient's tombstone.  A parked job is
\* never purged, but the other two remove it as well.
Remove(e, f) == f = NoJob

JobStep(e, f) == \/ Open(e, f) \/ Spend(e, f) \/ Conclude(e, f)
                 \/ Exhaust(e, f) \/ Reopen(e, f) \/ Remove(e, f)

\* One database statement may touch several jobs.
LedgerNext == /\ ledger' \in [Jobs -> {ledger'[j] : j \in Jobs}]
              /\ \A j \in Jobs : ledger'[j] = ledger[j] \/ JobStep(ledger[j], ledger'[j])

LedgerSpec == LedgerInit /\ [][LedgerNext]_ledger
=============================================================================
