---------------------- MODULE DeliveryEndpointProofs ----------------------
(***************************************************************************)
(* Proofs about DeliveryEndpoint for any number of jobs, executions,       *)
(* tokens, attempts, generations and faults.                               *)
(***************************************************************************)
EXTENDS DeliveryEndpoint, TLAPS

USE DEF Terminal, Waiting, Active

-----------------------------------------------------------------------------
(* Type correctness.                                                       *)

RowsOK == rows \in [Jobs -> Row] /\ \A j \in Jobs : RowShape(rows[j])

\* What each UPDATE makes of a row is a row again, with the claim columns set
\* exactly while it is processing.
LEMMA RowValues ==
  ASSUME NEW row \in Row, RowShape(row), row.status # "absent"
  PROVE  /\ FailedRow(row) \in Row /\ RowShape(FailedRow(row))
         /\ DeliveredRow(row) \in Row /\ RowShape(DeliveredRow(row))
         /\ RetryRow(row) \in Row /\ RowShape(RetryRow(row))
         /\ \A g \in Nat : DeadLetterRow(row, g) \in Row /\ RowShape(DeadLetterRow(row, g))
         /\ \A g \in Nat : RevivedRow(row, g) \in Row /\ RowShape(RevivedRow(row, g))
         /\ \A t \in Tokens : ClaimedRow(row, t) \in Row /\ RowShape(ClaimedRow(row, t))
<1> USE DeliveryAssumption DEF Row, RowShape
<1>1. FailedRow(row) \in Row /\ RowShape(FailedRow(row))
  BY DEF FailedRow
<1>2. DeliveredRow(row) \in Row /\ RowShape(DeliveredRow(row))
  BY DEF DeliveredRow
<1>3. RetryRow(row) \in Row /\ RowShape(RetryRow(row))
  BY DEF RetryRow
<1>4. ASSUME NEW g \in Nat
      PROVE DeadLetterRow(row, g) \in Row /\ RowShape(DeadLetterRow(row, g))
  <2>1. (g < MaxReconcile) \in BOOLEAN
    OBVIOUS
  <2> QED
    BY <2>1 DEF DeadLetterRow
<1>5. ASSUME NEW g \in Nat
      PROVE RevivedRow(row, g) \in Row /\ RowShape(RevivedRow(row, g))
  BY DEF RevivedRow
<1>6. ASSUME NEW t \in Tokens
      PROVE ClaimedRow(row, t) \in Row /\ RowShape(ClaimedRow(row, t))
  BY DEF ClaimedRow
<1> QED
  BY <1>1, <1>2, <1>3, <1>4, <1>5, <1>6

\* Time and the attempt counter change one column.
LEMMA RowTicks ==
  ASSUME NEW row \in Row, RowShape(row), row.status # "absent"
  PROVE  /\ [row EXCEPT !.due = TRUE] \in Row /\ RowShape([row EXCEPT !.due = TRUE])
         /\ row.status = "processing" =>
              [row EXCEPT !.stale = TRUE] \in Row /\ RowShape([row EXCEPT !.stale = TRUE])
         /\ row.age < 2 =>
              Older(row) \in Row /\ RowShape(Older(row))
         /\ CountedRow(row) \in Row
         /\ RowShape(CountedRow(row))
<1> USE DeliveryAssumption DEF Row, RowShape, Older, CountedRow
<1>1. [row EXCEPT !.due = TRUE] \in Row /\ RowShape([row EXCEPT !.due = TRUE])
  OBVIOUS
<1>2. row.status = "processing" =>
        [row EXCEPT !.stale = TRUE] \in Row /\ RowShape([row EXCEPT !.stale = TRUE])
  OBVIOUS
<1>3. row.age < 2 =>
        Older(row) \in Row /\ RowShape(Older(row))
  OBVIOUS
<1>4. CountedRow(row) \in Row /\ RowShape(CountedRow(row))
  OBVIOUS
<1> QED
  BY <1>1, <1>2, <1>3, <1>4

LEMMA NewRows == /\ Absent \in Row /\ RowShape(Absent)
                 /\ NewRow \in Row /\ RowShape(NewRow)
<1>1. Absent \in Row
  BY DEF Row, Absent
<1>2. NewRow \in Row
  BY DEF Row, NewRow
<1>3. RowShape(Absent)
  BY DEF RowShape, Absent
<1>4. RowShape(NewRow)
  BY DEF RowShape, Absent, NewRow
<1> QED
  BY <1>1, <1>2, <1>3, <1>4

LEMMA RowUpdate ==
  ASSUME RowsOK, NEW j \in Jobs, NEW row \in Row, RowShape(row),
         rows' = [rows EXCEPT ![j] = row]
  PROVE  RowsOK'
BY Zenon DEF RowsOK

LEMMA RunUpdate ==
  ASSUME run \in [Runners -> Run], NEW r \in Runners
  PROVE  /\ Finish(r) => run' \in [Runners -> Run]
         /\ \A stage \in Stages : GoTo(r, stage) => run' \in [Runners -> Run]
<1>1. [run[r] EXCEPT !.pc = "idle", !.token = NoToken, !.count = 0, !.gen = 0] \in Run
  BY DEF Run, Stages
<1>2. ASSUME NEW stage \in Stages PROVE [run[r] EXCEPT !.pc = stage] \in Run
  BY DEF Run
<1> QED
  BY <1>1, <1>2 DEF Finish, GoTo

LEMMA Wakeups ==
  ASSUME NEW j \in Jobs
  PROVE  Deliver(j) \in Message /\ \A g \in Nat : Reconcile(j, g) \in Message
BY DEF Deliver, Reconcile, Message

\* Every action keeps the shape of rows, messages and executions; the ways out
\* of "processing" in failJob, the success and retry bookkeeping, the dead
\* letter and the revival all clear the claim columns.
THEOREM TypeCorrect == Spec => []TypeOK
<1> USE DeliveryAssumption
<1>1. Init => TypeOK
  <2> SUFFICES ASSUME Init PROVE TypeOK
    OBVIOUS
  <2>1. RowsOK
    BY NewRows DEF Init, RowsOK
  <2>2. run \in [Runners -> Run]
    BY DEF Init, Run, Stages
  <2>3. target \in [Jobs -> Target]
    BY DEF Init, Target
  <2> QED
    BY <2>1, <2>2, <2>3 DEF Init, TypeOK, RowsOK
<1>2. TypeOK /\ [Next]_vars => TypeOK'
  <2> SUFFICES ASSUME TypeOK, [Next]_vars PROVE TypeOK'
    OBVIOUS
  <2>0. /\ RowsOK
        /\ run \in [Runners -> Run]
        /\ \A r \in Runners : run[r].job \in Jobs /\ run[r].gen \in Nat /\ run[r].pc \in Stages
        /\ \A j \in Jobs : rows[j] \in Row /\ RowShape(rows[j]) /\ rows[j].gen \in Nat
    BY DEF TypeOK, RowsOK, Run, Row
  <2>1. ASSUME NEW j \in Jobs, UpsertDeliveryJob(j) PROVE TypeOK'
    <3>1. RowsOK'
      BY <2>0, <2>1, NewRows, RowUpdate DEF UpsertDeliveryJob, RowsOK
    <3> QED
      BY <2>1, <3>1, Wakeups DEF UpsertDeliveryJob, TypeOK, RowsOK
  <2>2. ASSUME NEW j \in Jobs, DeleteJob(j) PROVE TypeOK'
    <3>1. RowsOK'
      BY <2>0, <2>2, NewRows, RowUpdate DEF DeleteJob
    <3>2. target' \in [Jobs -> Target]
      BY <2>2 DEF DeleteJob, TypeOK, Target
    <3> QED
      BY <2>2, <3>1, <3>2 DEF DeleteJob, CutOff, TypeOK, RowsOK
  <2>3. ASSUME NEW j \in Jobs, DropSigner(j) PROVE TypeOK'
    BY <2>3 DEF DropSigner, TypeOK, Target
  <2>4. ASSUME NEW j \in Jobs, AckTerminal(j) PROVE TypeOK'
    BY <2>0, <2>4 DEF AckTerminal, Remaining, TypeOK, DlqMessage
  <2>5. ASSUME NEW j \in Jobs, FailInvalidEndpoint(j) PROVE TypeOK'
    <3>1. RowsOK'
      BY <2>0, <2>5, RowValues, RowUpdate DEF FailInvalidEndpoint, Ready
    <3> QED
      BY <2>5, <3>1 DEF FailInvalidEndpoint, Remaining, TypeOK, RowsOK
  <2>6. ASSUME NEW j \in Jobs, BecomeDue(j) PROVE TypeOK'
    <3>1. RowsOK'
      BY <2>0, <2>6, RowTicks, RowUpdate DEF BecomeDue
    <3> QED
      BY <2>6, <3>1 DEF BecomeDue, TypeOK, RowsOK
  <2>7. ASSUME NEW j \in Jobs, ClaimTimesOut(j) PROVE TypeOK'
    <3>1. RowsOK'
      BY <2>0, <2>7, RowTicks, RowUpdate DEF ClaimTimesOut
    <3>2. faults' \in 0..MaxFaults
      <4>1. CASE HasHolder(j)
        BY <2>7, <4>1 DEF ClaimTimesOut, TypeOK
      <4>2. CASE ~HasHolder(j)
        BY <2>7, <4>2 DEF ClaimTimesOut, TypeOK
      <4> QED
        BY <4>1, <4>2
    <3>3. lapsed' \in [Runners -> BOOLEAN]
      BY <2>7 DEF ClaimTimesOut, CutOff, TypeOK
    <3> QED
      BY <2>7, <3>1, <3>2, <3>3 DEF ClaimTimesOut, TypeOK, RowsOK
  <2>8. ASSUME NEW j \in Jobs, GrowOld(j) PROVE TypeOK'
    <3>1. RowsOK'
      BY <2>0, <2>8, RowTicks, RowUpdate DEF GrowOld
    <3> QED
      BY <2>8, <3>1 DEF GrowOld, TypeOK, RowsOK
  <2>9. ASSUME NEW r \in Runners, NEW j \in Jobs, Admit(r, j) PROVE TypeOK'
    <3>1. run' \in [Runners -> Run]
      BY <2>0, <2>9 DEF Admit, Run, Stages
    <3> QED
      BY <2>9, <3>1 DEF Admit, Remaining, TypeOK
  <2>10. ASSUME NEW r \in Runners, Claim(r) PROVE TypeOK'
    <3>1. PICK t \in Tokens :
            /\ rows' = [rows EXCEPT ![run[r].job] = ClaimedRow(@, t)]
            /\ run' = [run EXCEPT ![r] = [@ EXCEPT !.pc = "claimed", !.token = t]]
      BY <2>10 DEF Claim, FreshTokens
    <3>2. RowsOK'
      <4>1. rows[run[r].job].status # "absent"
        BY <2>10 DEF Claim, Claimable
      <4> QED
        BY <2>0, <3>1, <4>1, RowValues, RowUpdate
    <3>3. [run[r] EXCEPT !.pc = "claimed", !.token = t] \in Run
      BY <2>0 DEF Run, Stages
    <3>4. run' \in [Runners -> Run]
      BY <2>0, <3>1, <3>3
    <3> QED
      BY <2>10, <3>2, <3>4 DEF Claim, TypeOK, RowsOK
  <2>11. ASSUME NEW r \in Runners, ClaimLost(r) PROVE TypeOK'
    BY <2>0, <2>11, RunUpdate DEF ClaimLost, TypeOK
  <2>12. ASSUME NEW r \in Runners, FailJob(r) PROVE RowsOK'
    BY <2>0, <2>12, RowValues, RowUpdate DEF FailJob, Owns, RowsOK
  <2>13. ASSUME NEW r \in Runners, LoadActivity(r) PROVE TypeOK'
    <3>1. run' \in [Runners -> Run]
      BY <2>0, <2>13, RunUpdate DEF LoadActivity, Stages
    <3>2. RowsOK'
      BY <2>0, <2>12, <2>13 DEF LoadActivity, RowsOK
    <3> QED
      BY <2>13, <3>1, <3>2 DEF LoadActivity, TypeOK, RowsOK
  <2>14. ASSUME NEW r \in Runners, NEW s \in Responses, Post(r, s) PROVE TypeOK'
    <3>1. run' \in [Runners -> Run]
      BY <2>0, <2>14, RunUpdate DEF Post, Stages
    <3> QED
      BY <2>14, <3>1 DEF Post, TypeOK
  <2>15. ASSUME NEW r \in Runners, MarkDelivered(r) PROVE TypeOK'
    <3>1. RowsOK'
      BY <2>0, <2>15, RowValues, RowUpdate DEF MarkDelivered, Owns, RowsOK
    <3> QED
      BY <2>0, <2>15, <3>1, RunUpdate DEF MarkDelivered, TypeOK, RowsOK
  <2>16. ASSUME NEW r \in Runners, MarkRejected(r) PROVE TypeOK'
    BY <2>0, <2>12, <2>16, RunUpdate DEF MarkRejected, TypeOK, RowsOK
  <2>17. ASSUME NEW r \in Runners, IncrementDeliveryAttempts(r) PROVE TypeOK'
    <3>1. RowsOK'
      BY <2>0, <2>17, RowTicks, RowUpdate DEF IncrementDeliveryAttempts, Owns, RowsOK
    <3>2. rows[run[r].job].attempts + 1 \in Nat
      BY <2>0 DEF Row
    <3>3. [run[r] EXCEPT !.pc = "counted", !.count = rows[run[r].job].attempts + 1] \in Run
      BY <2>0, <3>2 DEF Run, Stages
    <3>4. run' \in [Runners -> Run]
      BY <2>0, <2>17, <3>3, RunUpdate DEF IncrementDeliveryAttempts
    <3> QED
      BY <2>17, <3>1, <3>4 DEF IncrementDeliveryAttempts, TypeOK, RowsOK
  <2>18. ASSUME NEW r \in Runners, DeadLetter(r) PROVE TypeOK'
    <3>1. RowsOK'
      BY <2>0, <2>18, RowValues, RowUpdate DEF DeadLetter, Owns, RowsOK
    <3>2. run' \in [Runners -> Run]
      BY <2>0, <2>18, RunUpdate DEF DeadLetter, Stages
    <3> QED
      BY <2>18, <3>1, <3>2 DEF DeadLetter, TypeOK, RowsOK
  <2>19. ASSUME NEW r \in Runners, SendDlqMessage(r) PROVE TypeOK'
    BY <2>0, <2>19, RunUpdate DEF SendDlqMessage, TypeOK, DlqMessage
  <2>20. ASSUME NEW r \in Runners, RetryWait(r) PROVE TypeOK'
    <3>1. RowsOK'
      BY <2>0, <2>20, RowValues, RowUpdate DEF RetryWait, Owns, RowsOK
    <3>2. run' \in [Runners -> Run]
      BY <2>0, <2>20, RunUpdate DEF RetryWait, Stages
    <3> QED
      BY <2>20, <3>1, <3>2 DEF RetryWait, TypeOK, RowsOK
  <2>21. ASSUME NEW r \in Runners, SendWakeup(r) PROVE TypeOK'
    BY <2>0, <2>21, RunUpdate, Wakeups DEF SendWakeup, TypeOK
  <2>22. ASSUME NEW r \in Runners, BookkeepingFails(r) PROVE TypeOK'
    BY <2>0, <2>22, RunUpdate DEF BookkeepingFails, TypeOK
  <2>23. ASSUME NEW r \in Runners, Crash(r) PROVE TypeOK'
    BY <2>0, <2>23, RunUpdate, Wakeups DEF Crash, TypeOK
  <2>24. ASSUME NEW m \in dlq, HandleDlq(m) PROVE TypeOK'
    BY <2>0, <2>24, Wakeups DEF HandleDlq, Remaining, TypeOK, DlqMessage
  <2>25. ASSUME NEW m \in main, ProcessReconcileJob(m) PROVE TypeOK'
    <3>1. m.job \in Jobs /\ m.gen \in Nat
      BY DEF TypeOK, Message
    <3>2. RowsOK'
      BY <2>0, <2>25, <3>1, RowValues, RowUpdate DEF ProcessReconcileJob, Revivable, RowsOK
    <3> QED
      BY <2>25, <3>1, <3>2, Wakeups DEF ProcessReconcileJob, Remaining, TypeOK, RowsOK
  <2>26. ASSUME NEW fresh \in BOOLEAN, NEW deferred \in BOOLEAN, Sweep(fresh, deferred)
         PROVE TypeOK'
    <3>1. RowsOK'
      BY <2>0, <2>26, NewRows DEF Sweep, RowsOK
    <3>2. main' \subseteq Message
      BY <2>0, <2>26, Wakeups DEF Sweep, Repairs, Scanned, TypeOK
    <3> QED
      BY <2>26, <3>1, <3>2 DEF Sweep, TypeOK, RowsOK
  <2>27. CASE Lose
    BY <2>27 DEF Lose, TypeOK
  <2>28. CASE UNCHANGED vars
    BY <2>28 DEF vars, TypeOK
  <2> QED
    BY <2>1, <2>2, <2>3, <2>4, <2>5, <2>6, <2>7, <2>8, <2>9, <2>10, <2>11, <2>13,
       <2>14, <2>15, <2>16, <2>17, <2>18, <2>19, <2>20, <2>21, <2>22, <2>23, <2>24,
       <2>25, <2>26, <2>27, <2>28 DEF Next, RunnerStep
<1> QED
  BY <1>1, <1>2, PTL DEF Spec

-----------------------------------------------------------------------------
(* The claim fence.                                                        *)

\* The tokens of different executions differ; a row carries the token of an
\* execution only if it is that execution's job in the generation it read; and
\* a claim that nothing has cut off still owns its row.
ClaimInv ==
  /\ \A r \in Runners : run[r].pc \in Holding => run[r].token # NoToken
  /\ \A r, q \in Runners : r # q /\ run[r].token = run[q].token => run[r].token = NoToken
  /\ \A r \in Runners, j \in Jobs :
       run[r].token # NoToken /\ rows[j].token = run[r].token =>
         j = run[r].job /\ rows[j].gen = run[r].gen
  /\ \A r \in Runners : run[r].pc \in Holding /\ ~lapsed[r] =>
       /\ rows[run[r].job].status = "processing"
       /\ rows[run[r].job].token = run[r].token
       /\ ~rows[run[r].job].stale

\* An execution ends, or moves on, without touching another one.
LEMMA RunFields ==
  ASSUME run \in [Runners -> Run], NEW r \in Runners
  PROVE  /\ Finish(r) => /\ \A q \in Runners \ {r} : run'[q] = run[q]
                         /\ run'[r].pc = "idle" /\ run'[r].token = NoToken
         /\ \A stage : GoTo(r, stage) =>
              /\ \A q \in Runners \ {r} : run'[q] = run[q]
              /\ run'[r].pc = stage /\ run'[r].token = run[r].token
              /\ run'[r].job = run[r].job /\ run'[r].gen = run[r].gen
BY DEF Run, Finish, GoTo

\* What the fenced writes do to the claim columns.
LEMMA RowFields ==
  ASSUME NEW row \in Row
  PROVE  /\ FailedRow(row).token = NoToken /\ DeliveredRow(row).token = NoToken
         /\ RetryRow(row).token = NoToken
         /\ \A g : DeadLetterRow(row, g).token = NoToken /\ RevivedRow(row, g).token = NoToken
         /\ \A t : LET new == ClaimedRow(row, t) IN
              new.token = t /\ new.gen = row.gen /\ new.status = "processing" /\ ~new.stale
         /\ LET new == CountedRow(row) IN
              /\ new.token = row.token /\ new.gen = row.gen
              /\ new.status = row.status /\ new.stale = row.stale
         /\ LET new == Older(row) IN
              /\ new.token = row.token /\ new.gen = row.gen
              /\ new.status = row.status /\ new.stale = row.stale
BY DEF Row, FailedRow, DeliveredRow, RetryRow, DeadLetterRow, RevivedRow, ClaimedRow,
       CountedRow, Older

\* Writing a tokenless row over a row that r owns, and ending or moving r out of
\* its claim, keeps the claim invariant.
LEMMA OwnerLetsGo ==
  ASSUME TypeOK, ClaimInv, NEW r \in Runners, run[r].pc \in Holding,
         NEW row \in Row, row.token = NoToken,
         rows' = IF Owns(r) THEN [rows EXCEPT ![run[r].job] = row] ELSE rows,
         \A q \in Runners \ {r} : run'[q] = run[q],
         run'[r].pc \notin Holding,
         \/ run'[r].token = NoToken
         \/ /\ run'[r].token = run[r].token
            /\ run'[r].job = run[r].job /\ run'[r].gen = run[r].gen,
         lapsed' = lapsed
  PROVE  ClaimInv'
<1>1. run[r].job \in Jobs
  BY DEF TypeOK, Run
<1>2. CASE Owns(r)
  <2>1. /\ rows'[run[r].job] = row
        /\ \A j \in Jobs \ {run[r].job} : rows'[j] = rows[j]
    BY <1>1, <1>2 DEF TypeOK
  <2>2. \A q \in Runners \ {r} : run[q].token = rows[run[r].job].token => run[q].token = NoToken
    BY <1>2 DEF ClaimInv, Owns
  <2> QED
    BY <1>1, <1>2, <2>1, <2>2 DEF ClaimInv, Owns
<1>3. CASE ~Owns(r)
  BY <1>1, <1>3 DEF ClaimInv
<1> QED
  BY <1>2, <1>3

\* A step of r that leaves the rows alone and keeps r's claim as it is.
LEMMA KeepsClaim ==
  ASSUME TypeOK, ClaimInv, NEW r \in Runners, run[r].pc \in Holding,
         NEW stage, GoTo(r, stage), rows' = rows, lapsed' = lapsed
  PROVE  ClaimInv'
BY RunFields DEF ClaimInv, TypeOK

LEMMA ClaimInvStep == TypeOK /\ ClaimInv /\ [Next]_vars => ClaimInv'
<1> SUFFICES ASSUME TypeOK, ClaimInv, [Next]_vars PROVE ClaimInv'
  OBVIOUS
<1> USE DeliveryAssumption
<1>0. /\ run \in [Runners -> Run] /\ rows \in [Jobs -> Row]
      /\ \A r \in Runners : run[r].job \in Jobs
      /\ \A j \in Jobs : rows[j] \in Row /\ RowShape(rows[j])
  BY DEF TypeOK, Run
<1>1. ASSUME NEW j \in Jobs, UpsertDeliveryJob(j) PROVE ClaimInv'
  BY <1>0, <1>1 DEF UpsertDeliveryJob, NewRow, ClaimInv, RowShape
<1>2. ASSUME NEW j \in Jobs, DeleteJob(j) PROVE ClaimInv'
  BY <1>0, <1>2 DEF DeleteJob, CutOff, Absent, ClaimInv
<1>3. ASSUME NEW j \in Jobs, DropSigner(j) PROVE ClaimInv'
  BY <1>3 DEF DropSigner, ClaimInv
<1>4. ASSUME NEW j \in Jobs, AckTerminal(j) PROVE ClaimInv'
  BY <1>4 DEF AckTerminal, ClaimInv
<1>5. ASSUME NEW j \in Jobs, FailInvalidEndpoint(j) PROVE ClaimInv'
  BY <1>0, <1>5, RowFields DEF FailInvalidEndpoint, Ready, ClaimInv, RowShape
<1>6. ASSUME NEW j \in Jobs, BecomeDue(j) PROVE ClaimInv'
  BY <1>0, <1>6 DEF BecomeDue, ClaimInv, Row
<1>7. ASSUME NEW j \in Jobs, ClaimTimesOut(j) PROVE ClaimInv'
  <2>1. \A k \in Jobs : /\ rows'[k].token = rows[k].token /\ rows'[k].gen = rows[k].gen
                        /\ rows'[k].status = rows[k].status
                        /\ k # j /\ ~rows[k].stale => ~rows'[k].stale
    BY <1>0, <1>7 DEF ClaimTimesOut, Row
  <2>2. run' = run /\ \A r \in Runners :
          ~lapsed'[r] => ~lapsed[r] /\ ~(run[r].pc \in Holding /\ run[r].job = j)
    BY <1>7 DEF ClaimTimesOut, CutOff
  <2> QED
    BY <1>0, <2>1, <2>2 DEF ClaimInv
<1>8. ASSUME NEW j \in Jobs, GrowOld(j) PROVE ClaimInv'
  BY <1>0, <1>8, RowFields DEF GrowOld, ClaimInv
<1>9. ASSUME NEW r \in Runners, NEW j \in Jobs, Admit(r, j) PROVE ClaimInv'
  BY <1>0, <1>9 DEF Admit, ClaimInv, Holding, TypeOK
<1>10. ASSUME NEW r \in Runners, Claim(r) PROVE ClaimInv'
  <2>1. PICK t \in FreshTokens :
          /\ rows' = [rows EXCEPT ![run[r].job] = ClaimedRow(@, t)]
          /\ run' = [run EXCEPT ![r] = [@ EXCEPT !.pc = "claimed", !.token = t]]
    BY <1>10 DEF Claim
  <2>2. /\ t # NoToken
        /\ \A q \in Runners : run[q].token # t
        /\ \A j \in Jobs : rows[j].token # t
    BY <2>1 DEF FreshTokens
  <2>3. /\ run'[r].pc = "claimed" /\ run'[r].token = t
        /\ run'[r].job = run[r].job /\ run'[r].gen = run[r].gen
        /\ \A q \in Runners \ {r} : run'[q] = run[q]
    BY <1>0, <2>1 DEF Run
  <2>4. /\ rows'[run[r].job].token = t /\ rows'[run[r].job].gen = run[r].gen
        /\ rows'[run[r].job].status = "processing" /\ ~rows'[run[r].job].stale
        /\ \A j \in Jobs \ {run[r].job} : rows'[j] = rows[j]
    BY <1>0, <1>10, <2>1, RowFields DEF Claim, Claimable
  <2>5. \A q \in Runners : run[q].pc \in Holding /\ ~lapsed[q] => run[q].job # run[r].job
    BY <1>0, <1>10 DEF Claim, Claimable, ClaimInv
  <2> QED
    BY <1>0, <1>10, <2>2, <2>3, <2>4, <2>5 DEF Claim, ClaimInv
<1>11. ASSUME NEW r \in Runners, ClaimLost(r) PROVE ClaimInv'
  BY <1>0, <1>11, RunFields DEF ClaimLost, ClaimInv, Holding
<1>12. ASSUME NEW r \in Runners, run[r].pc \in Holding, FailJob(r), Finish(r),
              lapsed' = lapsed
       PROVE ClaimInv'
  <2>1. run[r].pc \in Holding /\ "idle" \notin Holding
    BY <1>12 DEF Holding
  <2>2. CASE Owns(r)
    <3> DEFINE row == FailedRow(rows[run[r].job])
    <3>1. row \in Row /\ row.token = NoToken
      BY <1>0, <2>2, RowValues, RowFields DEF Owns
    <3>2. rows' = [rows EXCEPT ![run[r].job] = row]
      BY <1>12, <2>2 DEF FailJob
    <3>3. Finish(r) /\ lapsed' = lapsed
      BY <1>12 DEF FailJob
    <3> HIDE DEF row
    <3> QED
      BY <1>0, <2>1, <2>2, <3>1, <3>2, <3>3, RunFields, OwnerLetsGo
  <2>3. CASE ~Owns(r)
    BY <1>0, <1>12, <2>3, RunFields DEF FailJob, ClaimInv, Holding
  <2> QED
    BY <2>2, <2>3
<1>13. ASSUME NEW r \in Runners, LoadActivity(r) PROVE ClaimInv'
  BY <1>12, <1>13, KeepsClaim DEF LoadActivity, Holding
<1>14. ASSUME NEW r \in Runners, NEW s \in Responses, Post(r, s) PROVE ClaimInv'
  BY <1>14, KeepsClaim DEF Post, Holding
<1>15. ASSUME NEW r \in Runners, MarkDelivered(r) PROVE ClaimInv'
  <2>1. run[r].pc \in Holding /\ "idle" \notin Holding
    BY <1>15 DEF MarkDelivered, Holding
  <2>2. CASE Owns(r)
    <3> DEFINE row == DeliveredRow(rows[run[r].job])
    <3>1. row \in Row /\ row.token = NoToken
      BY <1>0, <2>2, RowValues, RowFields DEF Owns
    <3>2. rows' = [rows EXCEPT ![run[r].job] = row]
      BY <1>15, <2>2 DEF MarkDelivered
    <3>3. Finish(r) /\ lapsed' = lapsed
      BY <1>15 DEF MarkDelivered
    <3> HIDE DEF row
    <3> QED
      BY <1>0, <2>1, <2>2, <3>1, <3>2, <3>3, RunFields, OwnerLetsGo
  <2>3. CASE ~Owns(r)
    BY <1>0, <1>15, <2>1, <2>3, RunFields DEF MarkDelivered, ClaimInv
  <2> QED
    BY <2>2, <2>3
<1>16. ASSUME NEW r \in Runners, MarkRejected(r) PROVE ClaimInv'
  BY <1>12, <1>16 DEF MarkRejected, Holding
<1>17. ASSUME NEW r \in Runners, IncrementDeliveryAttempts(r) PROVE ClaimInv'
  <2>1. CASE Owns(r)
    <3>1. /\ run'[r].pc = "counted" /\ run'[r].token = run[r].token
          /\ run'[r].job = run[r].job /\ run'[r].gen = run[r].gen
          /\ \A q \in Runners \ {r} : run'[q] = run[q]
      <4> DEFINE n == rows[run[r].job].attempts + 1
      <4>1. run' = [run EXCEPT ![r] = [run[r] EXCEPT !.pc = "counted", !.count = n]]
        BY <1>17, <2>1 DEF IncrementDeliveryAttempts
      <4> HIDE DEF n
      <4> QED
        BY <1>0, <4>1 DEF Run
    <3>2. \A j \in Jobs : /\ rows'[j].token = rows[j].token /\ rows'[j].gen = rows[j].gen
                          /\ rows'[j].status = rows[j].status /\ rows'[j].stale = rows[j].stale
      BY <1>0, <1>17, <2>1, RowFields DEF IncrementDeliveryAttempts
    <3> QED
      BY <1>0, <1>17, <3>1, <3>2 DEF IncrementDeliveryAttempts, ClaimInv, Holding
  <2>2. CASE ~Owns(r)
    BY <1>0, <1>17, <2>2, RunFields DEF IncrementDeliveryAttempts, ClaimInv, Holding
  <2> QED
    BY <2>1, <2>2
<1>18. ASSUME NEW r \in Runners, DeadLetter(r) PROVE ClaimInv'
  <2>1. run[r].pc \in Holding /\ "idle" \notin Holding /\ "signal" \notin Holding
    BY <1>18 DEF DeadLetter, Holding
  <2>2. CASE Owns(r)
    <3> DEFINE row == DeadLetterRow(rows[run[r].job], run[r].gen)
    <3>1. row \in Row /\ row.token = NoToken
      BY <1>0, <2>2, RowValues, RowFields DEF Owns, TypeOK, Run
    <3>2. rows' = [rows EXCEPT ![run[r].job] = row]
      BY <1>18, <2>2 DEF DeadLetter
    <3>3. GoTo(r, "signal") /\ lapsed' = lapsed
      BY <1>18, <2>2 DEF DeadLetter
    <3> HIDE DEF row
    <3> QED
      BY <1>0, <2>1, <2>2, <3>1, <3>2, <3>3, RunFields, OwnerLetsGo
  <2>3. CASE ~Owns(r)
    BY <1>0, <1>18, <2>1, <2>3, RunFields DEF DeadLetter, ClaimInv
  <2> QED
    BY <2>2, <2>3
<1>19. ASSUME NEW r \in Runners, SendDlqMessage(r) PROVE ClaimInv'
  BY <1>0, <1>19, RunFields DEF SendDlqMessage, ClaimInv, Holding
<1>20. ASSUME NEW r \in Runners, RetryWait(r) PROVE ClaimInv'
  <2>1. run[r].pc \in Holding /\ "wakeup" \notin Holding
    BY <1>20 DEF RetryWait, Holding
  <2>2. CASE Owns(r)
    <3> DEFINE row == RetryRow(rows[run[r].job])
    <3>1. row \in Row /\ row.token = NoToken
      BY <1>0, <2>2, RowValues, RowFields DEF Owns
    <3>2. rows' = [rows EXCEPT ![run[r].job] = row]
      BY <1>20, <2>2 DEF RetryWait
    <3>3. GoTo(r, "wakeup") /\ lapsed' = lapsed
      BY <1>20 DEF RetryWait
    <3> HIDE DEF row
    <3> QED
      BY <1>0, <2>1, <2>2, <3>1, <3>2, <3>3, RunFields, OwnerLetsGo
  <2>3. CASE ~Owns(r)
    BY <1>0, <1>20, <2>1, <2>3, RunFields DEF RetryWait, ClaimInv
  <2> QED
    BY <2>2, <2>3
<1>21. ASSUME NEW r \in Runners, SendWakeup(r) PROVE ClaimInv'
  BY <1>0, <1>21, RunFields DEF SendWakeup, ClaimInv, Holding
<1>22. ASSUME NEW r \in Runners, BookkeepingFails(r) PROVE ClaimInv'
  BY <1>0, <1>22, RunFields DEF BookkeepingFails, ClaimInv, Holding
<1>23. ASSUME NEW r \in Runners, Crash(r) PROVE ClaimInv'
  BY <1>0, <1>23, RunFields DEF Crash, ClaimInv, Holding
<1>24. ASSUME NEW m \in dlq, HandleDlq(m) PROVE ClaimInv'
  BY <1>24 DEF HandleDlq, ClaimInv
<1>25. ASSUME NEW m \in main, ProcessReconcileJob(m) PROVE ClaimInv'
  <2>1. m.job \in Jobs
    BY DEF TypeOK, Message
  <2> QED
    BY <1>0, <1>25, <2>1, RowFields DEF ProcessReconcileJob, Revivable, ClaimInv, RowShape
<1>26. ASSUME NEW fresh \in BOOLEAN, NEW deferred \in BOOLEAN, Sweep(fresh, deferred)
       PROVE ClaimInv'
  BY <1>0, <1>26 DEF Sweep, Purgeable, Absent, ClaimInv, RowShape
<1>27. CASE Lose
  BY <1>27 DEF Lose, ClaimInv
<1>28. CASE UNCHANGED vars
  BY <1>28 DEF vars, ClaimInv
<1> QED
  BY <1>1, <1>2, <1>3, <1>4, <1>5, <1>6, <1>7, <1>8, <1>9, <1>10, <1>11, <1>13,
     <1>14, <1>15, <1>16, <1>17, <1>18, <1>19, <1>20, <1>21, <1>22, <1>23, <1>24,
     <1>25, <1>26, <1>27, <1>28 DEF Next, RunnerStep

\* No step of the code lets two executions hold unexpired claims on one job:
\* the CAS takes only waiting or timed-out rows, and a replacement's token
\* locks the former claimant out.
THEOREM ClaimFence == Spec => []SingleLiveClaimant
<1>1. Init => ClaimInv
  BY DEF Init, ClaimInv, Holding
<1>2. ClaimInv => SingleLiveClaimant
  BY DEF ClaimInv, SingleLiveClaimant
<1> QED
  BY <1>1, <1>2, TypeCorrect, ClaimInvStep, PTL DEF Spec

-----------------------------------------------------------------------------
(* What any step may do to a row.                                          *)

RowChange(row, new) ==
  \/ new = row
  \/ row.status = "absent" /\ new = NewRow
  \/ new = Absent
  \/ new = Older(row)
  \/ new = [row EXCEPT !.due = TRUE]
  \/ /\ row.status \in Active
     /\ new = FailedRow(row) \/ \E t \in Tokens : new = ClaimedRow(row, t)
  \/ /\ row.status = "processing"
     /\ new \in {DeliveredRow(row), RetryRow(row), CountedRow(row),
                 DeadLetterRow(row, row.gen), [row EXCEPT !.stale = TRUE]}
  \/ /\ row.status = "dead_letter" /\ row.dlqPending /\ row.due
     /\ row.gen + 1 <= MaxReconcile
     /\ new = RevivedRow(row, row.gen + 1)

\* Whatever the interleaving, a row changes by one of the UPDATEs of the code,
\* each from the statuses its WHERE clause allows.
LEMMA RowSteps ==
  TypeOK /\ [Next]_vars => \A j \in Jobs : RowChange(rows[j], rows'[j])
<1> SUFFICES ASSUME TypeOK, [Next]_vars, NEW k \in Jobs PROVE RowChange(rows[k], rows'[k])
  OBVIOUS
<1> USE DeliveryAssumption DEF RowChange
<1>0. /\ rows \in [Jobs -> Row] /\ \A r \in Runners : run[r].job \in Jobs
      /\ \A j \in Jobs : rows[j] \in Row
  BY DEF TypeOK, Run
<1>1. ASSUME NEW j \in Jobs,
             \/ UpsertDeliveryJob(j) \/ DeleteJob(j) \/ DropSigner(j) \/ AckTerminal(j)
             \/ FailInvalidEndpoint(j) \/ BecomeDue(j) \/ ClaimTimesOut(j) \/ GrowOld(j)
      PROVE RowChange(rows[k], rows'[k])
  BY <1>0, <1>1 DEF UpsertDeliveryJob, DeleteJob, DropSigner, AckTerminal,
     FailInvalidEndpoint, Ready, BecomeDue, ClaimTimesOut, GrowOld
<1>2. ASSUME NEW r \in Runners, NEW j \in Jobs, Admit(r, j)
      PROVE RowChange(rows[k], rows'[k])
  BY <1>2 DEF Admit
<1>3. ASSUME NEW r \in Runners, Claim(r) PROVE RowChange(rows[k], rows'[k])
  BY <1>0, <1>3 DEF Claim, Claimable, FreshTokens
<1>4. ASSUME NEW r \in Runners,
             \/ ClaimLost(r) \/ (\E s \in Responses : Post(r, s)) \/ SendDlqMessage(r)
             \/ SendWakeup(r) \/ BookkeepingFails(r) \/ Crash(r)
      PROVE RowChange(rows[k], rows'[k])
  BY <1>4 DEF ClaimLost, Post, SendDlqMessage, SendWakeup, BookkeepingFails, Crash
<1>5. ASSUME NEW r \in Runners, LoadActivity(r) \/ MarkRejected(r)
      PROVE RowChange(rows[k], rows'[k])
  BY <1>0, <1>5 DEF LoadActivity, MarkRejected, FailJob, Owns
<1>6. ASSUME NEW r \in Runners,
             MarkDelivered(r) \/ IncrementDeliveryAttempts(r) \/ RetryWait(r)
      PROVE RowChange(rows[k], rows'[k])
  BY <1>0, <1>6 DEF MarkDelivered, IncrementDeliveryAttempts, RetryWait, Owns
<1>7. ASSUME NEW r \in Runners, DeadLetter(r) PROVE RowChange(rows[k], rows'[k])
  BY <1>0, <1>7 DEF DeadLetter, Owns
<1>8. ASSUME NEW m \in dlq, HandleDlq(m) PROVE RowChange(rows[k], rows'[k])
  BY <1>8 DEF HandleDlq
<1>9. ASSUME NEW m \in main, ProcessReconcileJob(m) PROVE RowChange(rows[k], rows'[k])
  BY <1>0, <1>9 DEF ProcessReconcileJob, Revivable, TypeOK, Message
<1>10. ASSUME NEW fresh \in BOOLEAN, NEW deferred \in BOOLEAN, Sweep(fresh, deferred)
       PROVE RowChange(rows[k], rows'[k])
  BY <1>10 DEF Sweep
<1>11. CASE Lose
  BY <1>11 DEF Lose
<1>12. CASE UNCHANGED vars
  BY <1>12 DEF vars
<1> HIDE DEF RowChange
<1> QED
  BY <1>1, <1>2, <1>3, <1>4, <1>5, <1>6, <1>7, <1>8, <1>9, <1>10, <1>11, <1>12
  DEF Next, RunnerStep

\* The repair intent is exact: it is set with the dead letter below the last
\* generation, and every other write of the row's status leaves it clear.
THEOREM RepairIntentExact == Spec => []RepairIntent
<1> USE DeliveryAssumption
<1> DEFINE Exact(row) ==
      row.dlqPending <=> (row.status = "dead_letter" /\ row.gen < MaxReconcile)
<1>1. Init => RepairIntent
  BY DEF Init, RepairIntent, Absent
<1>2. ASSUME NEW row \in Row, Exact(row), NEW new, RowChange(row, new) PROVE Exact(new)
  <2>1. row.status \in Active =>
          /\ Exact(FailedRow(row)) /\ Exact(DeliveredRow(row)) /\ Exact(RetryRow(row))
          /\ Exact(CountedRow(row)) /\ Exact(DeadLetterRow(row, row.gen))
          /\ \A t \in Tokens : Exact(ClaimedRow(row, t))
          /\ Exact([row EXCEPT !.stale = TRUE])
    BY <1>2 DEF Row, FailedRow, DeliveredRow, RetryRow, CountedRow, DeadLetterRow, ClaimedRow
  <2>2. /\ Exact(Older(row)) /\ Exact([row EXCEPT !.due = TRUE])
        /\ \A g \in Nat : Exact(RevivedRow(row, g))
    BY <1>2 DEF Row, Older, RevivedRow
  <2>3. Exact(Absent) /\ Exact(NewRow)
    BY DEF Absent, NewRow
  <2>4. row.gen + 1 \in Nat
    BY DEF Row
  <2> HIDE DEF Exact
  <2> QED
    BY <1>2, <2>1, <2>2, <2>3, <2>4 DEF RowChange
<1>3. TypeOK /\ RepairIntent /\ [Next]_vars => RepairIntent'
  <2> SUFFICES ASSUME TypeOK, RepairIntent, [Next]_vars, NEW j \in Jobs PROVE Exact(rows[j])'
    BY DEF RepairIntent
  <2>1. rows[j] \in Row /\ Exact(rows[j]) /\ RowChange(rows[j], rows'[j])
    BY RowSteps DEF TypeOK, RepairIntent
  <2> QED
    BY <1>2, <2>1
<1> QED
  BY <1>1, <1>3, TypeCorrect, PTL DEF Spec

\* The rows implement the abstract ledger: every step of the code is, job by
\* job, a step of DeliveryLedger or leaves the job's entry alone.
THEOREM EndpointRefinesLedger == Spec => RefinesLedger
<1> USE DeliveryAssumption
<1>1. Init => Ledger!LedgerInit
  BY DEF Init, Ledger!LedgerInit, Ledger!NoJob, LedgerEntry, LedgerState, Absent
<1>2. ASSUME NEW row \in Row, RowShape(row), NEW new, RowChange(row, new),
             row.dlqPending <=> (row.status = "dead_letter" /\ row.gen < MaxReconcile)
      PROVE  \/ LedgerEntry(new) = LedgerEntry(row)
             \/ Ledger!JobStep(LedgerEntry(row), LedgerEntry(new))
  <2> USE DEF LedgerEntry
  <2>0. row.gen \in Nat /\ row.attempts \in Nat
    BY DEF Row
  <2>1. LedgerState(row) = CASE row.status = "absent" -> "none"
                             [] row.status \in Active -> "open"
                             [] row.status = "dead_letter" ->
                                  IF row.gen < MaxReconcile THEN "parked" ELSE "given_up"
                             [] OTHER -> row.status
    BY <1>2 DEF LedgerState
  <2>2. CASE row.status = "absent" /\ new = NewRow
    <3>1. row = Absent
      BY <1>2, <2>2 DEF RowShape
    <3>2. /\ LedgerEntry(row) = Ledger!NoJob
          /\ LedgerEntry(new) = [state |-> "open", series |-> 0, spent |-> 0]
      BY <2>2, <3>1 DEF LedgerState, Absent, NewRow, Ledger!NoJob
    <3> QED
      BY <3>2 DEF Ledger!JobStep, Ledger!Open, Ledger!NoJob
  <2>3. CASE new = Absent
    BY <2>3 DEF LedgerState, Absent, Ledger!JobStep, Ledger!Remove, Ledger!NoJob
  <2>4. CASE new = row
    BY <2>4
  <2>5. CASE \/ new = Older(row) \/ new = [row EXCEPT !.due = TRUE]
             \/ row.status = "processing" /\ new = [row EXCEPT !.stale = TRUE]
    <3>1. /\ new.status = row.status /\ new.dlqPending = row.dlqPending
          /\ new.gen = row.gen /\ new.attempts = row.attempts
      BY <2>5 DEF Older, Row
    <3> QED
      BY <3>1 DEF LedgerState
  <2>6. CASE row.status \in Active /\ \E t \in Tokens : new = ClaimedRow(row, t)
    <3>1. new.status = "processing" /\ new.gen = row.gen /\ new.attempts = row.attempts
      BY <2>6 DEF ClaimedRow, Row
    <3> QED
      BY <2>1, <2>6, <3>1 DEF LedgerState
  <2>7. CASE row.status \in Active /\ new = FailedRow(row)
    <3>1. new.status = "failed" /\ new.gen = row.gen /\ new.attempts = row.attempts
      BY <2>7 DEF FailedRow, Row
    <3>2. /\ LedgerEntry(row) = [state |-> "open", series |-> row.gen, spent |-> row.attempts]
          /\ LedgerEntry(new) = [state |-> "failed", series |-> row.gen, spent |-> row.attempts]
      BY <2>1, <2>7, <3>1 DEF LedgerState
    <3> QED
      BY <3>2 DEF Ledger!JobStep, Ledger!Conclude
  <2>8. CASE row.status = "processing" /\ new = DeliveredRow(row)
    <3>1. new.status = "delivered" /\ new.gen = row.gen /\ new.attempts = row.attempts
      BY <2>8 DEF DeliveredRow, Row
    <3>2. /\ LedgerEntry(row) = [state |-> "open", series |-> row.gen, spent |-> row.attempts]
          /\ LedgerEntry(new) = [state |-> "delivered", series |-> row.gen, spent |-> row.attempts]
      BY <2>1, <2>8, <3>1 DEF LedgerState
    <3> QED
      BY <3>2 DEF Ledger!JobStep, Ledger!Conclude
  <2>9. CASE row.status = "processing" /\ new = RetryRow(row)
    <3>1. new.status = "retry_wait" /\ new.gen = row.gen /\ new.attempts = row.attempts
      BY <2>9 DEF RetryRow, Row
    <3> QED
      BY <2>1, <2>9, <3>1 DEF LedgerState
  <2>10. CASE row.status = "processing" /\ new = CountedRow(row)
    <3>1. new.status = "processing" /\ new.gen = row.gen /\ new.attempts = row.attempts + 1
      BY <2>10 DEF CountedRow, Row
    <3>2. /\ LedgerEntry(row) = [state |-> "open", series |-> row.gen, spent |-> row.attempts]
          /\ LedgerEntry(new) = [state |-> "open", series |-> row.gen, spent |-> row.attempts + 1]
      BY <2>1, <2>10, <3>1 DEF LedgerState
    <3> QED
      BY <3>2 DEF Ledger!JobStep, Ledger!Spend
  <2>11. CASE row.status = "processing" /\ new = DeadLetterRow(row, row.gen)
    <3>1. /\ new.status = "dead_letter" /\ new.gen = row.gen /\ new.attempts = row.attempts
          /\ new.dlqPending = (row.gen < MaxReconcile)
      BY <2>11 DEF DeadLetterRow, Row
    <3>2. /\ LedgerEntry(row) = [state |-> "open", series |-> row.gen, spent |-> row.attempts]
          /\ LedgerEntry(new) =
               [state |-> IF row.gen < MaxReconcile THEN "parked" ELSE "given_up",
                series |-> row.gen, spent |-> row.attempts]
      BY <2>1, <2>11, <3>1 DEF LedgerState
    <3> QED
      BY <3>2 DEF Ledger!JobStep, Ledger!Exhaust
  <2>12. CASE /\ row.status = "dead_letter" /\ row.dlqPending /\ row.due
              /\ row.gen + 1 <= MaxReconcile
              /\ new = RevivedRow(row, row.gen + 1)
    <3>1. new.status = "pending" /\ new.gen = row.gen + 1 /\ new.attempts = 0
      BY <2>12 DEF RevivedRow, Row
    <3>2. /\ LedgerEntry(row) = [state |-> "parked", series |-> row.gen, spent |-> row.attempts]
          /\ LedgerEntry(new) = [state |-> "open", series |-> row.gen + 1, spent |-> 0]
      BY <2>1, <2>12, <3>1 DEF LedgerState
    <3> QED
      BY <3>2 DEF Ledger!JobStep, Ledger!Reopen
  <2> HIDE DEF LedgerEntry
  <2> QED
    BY <1>2, <2>2, <2>3, <2>4, <2>5, <2>6, <2>7, <2>8, <2>9, <2>10, <2>11, <2>12 DEF RowChange
<1>3. TypeOK /\ RepairIntent /\ [Next]_vars =>
        [Ledger!LedgerNext]_[j \in Jobs |-> LedgerEntry(rows[j])]
  <2> SUFFICES ASSUME TypeOK, RepairIntent, [Next]_vars PROVE Ledger!LedgerNext
    OBVIOUS
  <2> SUFFICES ASSUME NEW j \in Jobs
               PROVE  \/ LedgerEntry(rows'[j]) = LedgerEntry(rows[j])
                      \/ Ledger!JobStep(LedgerEntry(rows[j]), LedgerEntry(rows'[j]))
    BY DEF Ledger!LedgerNext
  <2>1. rows[j] \in Row /\ RowShape(rows[j]) /\ RowChange(rows[j], rows'[j])
    BY RowSteps DEF TypeOK
  <2> QED
    BY <1>2, <2>1 DEF RepairIntent
<1> QED
  BY <1>1, <1>3, TypeCorrect, RepairIntentExact, PTL
  DEF Spec, RefinesLedger, Ledger!LedgerSpec

\* Every write after the claim is fenced: an execution whose token is no longer
\* the row's goes through its remaining steps without changing any row.
THEOREM LateClaimantIsHarmless == Spec => LostClaimWritesNothing
<1> DEFINE Locked(r) == run[r].pc \in Holding /\ run[r].token # rows[run[r].job].token
<1>1. ASSUME TypeOK, [Next]_vars, NEW r \in Runners, Locked(r), run'[r] # run[r]
      PROVE  rows' = rows
  <2> USE <1>1
  <2>0. run \in [Runners -> Run] /\ ~Owns(r)
    BY DEF TypeOK, Owns
  <2>1. ASSUME NEW q \in Runners, RunnerStep(q) \/ BookkeepingFails(q) \/ Crash(q)
        PROVE  q = r
    <3> SUFFICES ASSUME q # r PROVE run'[r] = run[r]
      OBVIOUS
    <3>1. \E new : run' = [run EXCEPT ![q] = new]
      BY <2>1 DEF RunnerStep, BookkeepingFails, Crash, Claim, ClaimLost, LoadActivity, Post,
         MarkDelivered, MarkRejected, IncrementDeliveryAttempts, DeadLetter, SendDlqMessage,
         RetryWait, SendWakeup, Finish, GoTo
    <3> QED
      BY <2>0, <3>1
  <2>2. RunnerStep(r) \/ BookkeepingFails(r) \/ Crash(r) => rows' = rows
    <3>1. Claim(r) => FALSE
      BY DEF Claim, Holding
    <3>2. FailJob(r) => rows' = rows
      BY <2>0 DEF FailJob
    <3> QED
      BY <2>0, <3>1, <3>2 DEF RunnerStep, BookkeepingFails, Crash, ClaimLost, LoadActivity,
         Post, MarkDelivered, MarkRejected, IncrementDeliveryAttempts, DeadLetter,
         SendDlqMessage, RetryWait, SendWakeup
  <2>3. ASSUME NEW q \in Runners, NEW j \in Jobs, Admit(q, j) PROVE rows' = rows
    BY <2>3 DEF Admit
  <2>4. ASSUME NEW j \in Jobs,
               \/ UpsertDeliveryJob(j) \/ DeleteJob(j) \/ DropSigner(j) \/ AckTerminal(j)
               \/ FailInvalidEndpoint(j) \/ BecomeDue(j) \/ ClaimTimesOut(j) \/ GrowOld(j)
        PROVE  run' = run
    BY <2>4 DEF UpsertDeliveryJob, DeleteJob, DropSigner, AckTerminal, FailInvalidEndpoint,
       BecomeDue, ClaimTimesOut, GrowOld
  <2>5. \/ \E m \in dlq : HandleDlq(m)
        \/ \E m \in main : ProcessReconcileJob(m)
        \/ \E fresh, deferred \in BOOLEAN : Sweep(fresh, deferred)
        \/ Lose \/ UNCHANGED vars
        => run' = run
    BY DEF HandleDlq, ProcessReconcileJob, Sweep, Lose, vars
  <2> QED
    BY <2>1, <2>2, <2>3, <2>4, <2>5 DEF Next
<1>2. TypeOK /\ [Next]_vars => [LostClaimIsIdle]_vars
  BY <1>1 DEF LostClaimIsIdle
<1> QED
  BY <1>2, TypeCorrect, PTL DEF Spec, LostClaimWritesNothing

-----------------------------------------------------------------------------
(* The attempt budget.                                                     *)

Holds(r, j) == run[r].pc \in Holding /\ run[r].job = j /\ run[r].token = rows[j].token

\* What a series may have spent so far, from what is still to be booked: below
\* the limit whenever another attempt may start, at the limit only while the
\* claimant that counted the last one has still to book it, and one further
\* below while a claimant that was timed out may still count its own.
BudgetAt(j) == LET row == rows[j] IN
  /\ row.gen <= MaxReconcile
  /\ row.attempts <= MaxAttempts + faults
  /\ row.status \in Waiting => row.attempts < MaxAttempts + faults
  /\ row.status = "processing" =>
       \/ row.attempts < MaxAttempts + faults
       \/ ~row.stale /\ \E r \in Runners : Holds(r, j) /\ run[r].pc = "counted"
  /\ \A r \in Runners : Holds(r, j) =>
       /\ run[r].pc = "counted" => run[r].count = row.attempts
       /\ run[r].pc # "counted" /\ row.stale => row.attempts + 1 < MaxAttempts + faults

BudgetInv == \A j \in Jobs : BudgetAt(j)

\* The execution whose token is the row's owns the row, and is the only one.
LEMMA Holders ==
  ASSUME TypeOK, ClaimInv, NEW r \in Runners, NEW j \in Jobs
  PROVE  /\ Holds(r, j) => Owns(r) /\ \A q \in Runners : Holds(q, j) => q = r
         /\ run[r].pc \in Holding /\ Owns(r) => Holds(r, run[r].job)
BY DEF TypeOK, RowShape, ClaimInv, Holds, Owns

LEMMA FaultsGrow ==
  ASSUME TypeOK, [Next]_vars
  PROVE  faults \in Nat /\ (faults' = faults \/ faults' = faults + 1)
<1> USE DeliveryAssumption
<1>1. faults \in Nat
  BY DEF TypeOK
<1>2. ASSUME NEW j \in Jobs,
             \/ UpsertDeliveryJob(j) \/ DeleteJob(j) \/ DropSigner(j) \/ AckTerminal(j)
             \/ FailInvalidEndpoint(j) \/ BecomeDue(j) \/ ClaimTimesOut(j) \/ GrowOld(j)
             \/ \E r \in Runners : Admit(r, j)
      PROVE faults' = faults \/ faults' = faults + 1
  BY <1>2 DEF UpsertDeliveryJob, DeleteJob, DropSigner, AckTerminal,
     FailInvalidEndpoint, BecomeDue, ClaimTimesOut, GrowOld, Admit
<1>3. ASSUME NEW r \in Runners, RunnerStep(r) \/ BookkeepingFails(r) \/ Crash(r)
      PROVE faults' = faults \/ faults' = faults + 1
  BY <1>3 DEF RunnerStep, Claim, ClaimLost, LoadActivity, Post, MarkDelivered, MarkRejected,
     IncrementDeliveryAttempts, DeadLetter, SendDlqMessage, RetryWait, SendWakeup,
     BookkeepingFails, Crash
<1>4. \/ \E m \in dlq : HandleDlq(m)
      \/ \E m \in main : ProcessReconcileJob(m)
      \/ \E fresh, deferred \in BOOLEAN : Sweep(fresh, deferred)
      \/ Lose \/ UNCHANGED vars
      => faults' = faults
  BY DEF HandleDlq, ProcessReconcileJob, Sweep, Lose, vars
<1> QED
  BY <1>1, <1>2, <1>3, <1>4 DEF Next

\* A row without a claim has no holder to wait for.
LEMMA BudgetUnclaimed ==
  ASSUME ClaimInv', NEW j \in Jobs, rows'[j].token = NoToken,
         rows'[j].status # "processing",
         rows'[j].gen <= MaxReconcile,
         rows'[j].attempts <= MaxAttempts + faults',
         rows'[j].status \in Waiting => rows'[j].attempts < MaxAttempts + faults'
  PROVE  BudgetAt(j)'
BY DEF BudgetAt, Holds, ClaimInv

\* A step that moves no counter and no claim of the job, except that a holder
\* may let go: after a failed attempt was counted only by a fault.
LEMMA BudgetKept ==
  ASSUME TypeOK, NEW j \in Jobs, BudgetAt(j),
         faults \in Nat, faults' = faults \/ faults' = faults + 1,
         /\ rows'[j].gen = rows[j].gen /\ rows'[j].attempts = rows[j].attempts
         /\ rows'[j].status = rows[j].status /\ rows'[j].token = rows[j].token
         /\ rows'[j].stale = rows[j].stale,
         \A r \in Runners : Holds(r, j)' =>
           /\ Holds(r, j) /\ run'[r].count = run[r].count
           /\ run'[r].pc = "counted" <=> run[r].pc = "counted",
         \/ faults' = faults + 1
         \/ \A r \in Runners : Holds(r, j) /\ run[r].pc = "counted" =>
              Holds(r, j)' /\ run'[r].pc = "counted"
  PROVE  BudgetAt(j)'
<1> USE DeliveryAssumption
<1>1. rows[j].attempts \in Nat /\ rows[j].gen \in Nat
  BY DEF TypeOK, Row
<1>2. \A r \in Runners : Holds(r, j)' =>
        /\ run'[r].pc = "counted" => run'[r].count = rows'[j].attempts
        /\ run'[r].pc # "counted" /\ rows'[j].stale =>
             rows'[j].attempts + 1 < MaxAttempts + faults'
  BY <1>1 DEF BudgetAt
<1>3. rows'[j].status = "processing" =>
       \/ rows'[j].attempts < MaxAttempts + faults'
       \/ ~rows'[j].stale /\ \E r \in Runners : Holds(r, j)' /\ run'[r].pc = "counted"
  BY <1>1 DEF BudgetAt
<1>4. /\ rows'[j].gen <= MaxReconcile
      /\ rows'[j].attempts <= MaxAttempts + faults'
      /\ rows'[j].status \in Waiting => rows'[j].attempts < MaxAttempts + faults'
  BY <1>1 DEF BudgetAt
<1> QED
  BY <1>2, <1>3, <1>4 DEF BudgetAt

\* The writes that clear the claim, of any action but the retry.
LEMMA BudgetReleased ==
  ASSUME TypeOK, ClaimInv', NEW j \in Jobs, BudgetAt(j),
         faults \in Nat, faults' = faults \/ faults' = faults + 1,
         \/ rows'[j] \in {NewRow, Absent, FailedRow(rows[j]), DeliveredRow(rows[j]),
                          DeadLetterRow(rows[j], rows[j].gen)}
         \/ rows[j].gen + 1 <= MaxReconcile /\ rows'[j] = RevivedRow(rows[j], rows[j].gen + 1)
  PROVE  BudgetAt(j)'
<1> USE DeliveryAssumption
<1> DEFINE row == rows[j]
<1>0. /\ row \in Row /\ row.gen \in Nat /\ row.attempts \in Nat
      /\ row.gen <= MaxReconcile /\ row.attempts <= MaxAttempts + faults
  BY DEF TypeOK, Row, BudgetAt
<1>1. CASE rows'[j] \in {NewRow, Absent}
  BY <1>1, BudgetUnclaimed DEF NewRow, Absent
<1>2. CASE rows'[j] \in {FailedRow(row), DeliveredRow(row), DeadLetterRow(row, row.gen)}
  <2> DEFINE Closed(new) == /\ new.token = NoToken /\ new.status \in Terminal
                            /\ new.gen = row.gen /\ new.attempts = row.attempts
  <2>1. Closed(rows'[j])
    <3> USE <1>0 DEF Row
    <3>1. Closed(FailedRow(row))
      BY DEF FailedRow
    <3>2. Closed(DeliveredRow(row))
      BY DEF DeliveredRow
    <3>3. Closed(DeadLetterRow(row, row.gen))
      BY DEF DeadLetterRow
    <3> QED
      BY <1>2, <3>1, <3>2, <3>3
  <2> QED
    BY <1>0, <2>1, BudgetUnclaimed
<1>3. CASE row.gen + 1 <= MaxReconcile /\ rows'[j] = RevivedRow(row, row.gen + 1)
  <2>1. /\ rows'[j].token = NoToken /\ rows'[j].status = "pending"
        /\ rows'[j].gen = row.gen + 1 /\ rows'[j].attempts = 0
    BY <1>0, <1>3 DEF RevivedRow, Row
  <2> QED
    BY <1>0, <1>3, <2>1, BudgetUnclaimed
<1> QED
  BY <1>1, <1>2, <1>3

LEMMA BudgetInvStep == TypeOK /\ ClaimInv /\ BudgetInv /\ [Next]_vars => BudgetInv'
<1> SUFFICES ASSUME TypeOK, ClaimInv, BudgetInv, [Next]_vars, NEW k \in Jobs
             PROVE  BudgetAt(k)'
  BY DEF BudgetInv
<1> USE DeliveryAssumption
<1>0. /\ run \in [Runners -> Run] /\ rows \in [Jobs -> Row]
      /\ \A r \in Runners : run[r].job \in Jobs
      /\ \A j \in Jobs : /\ rows[j] \in Row /\ RowShape(rows[j])
                         /\ rows[j].attempts \in Nat /\ rows[j].gen \in Nat
      /\ faults \in Nat /\ (faults' = faults \/ faults' = faults + 1)
      /\ BudgetAt(k) /\ ClaimInv'
  BY FaultsGrow, ClaimInvStep DEF TypeOK, Run, Row, BudgetInv
<1> DEFINE Same == /\ rows'[k].gen = rows[k].gen /\ rows'[k].attempts = rows[k].attempts
                   /\ rows'[k].status = rows[k].status /\ rows'[k].token = rows[k].token
                   /\ rows'[k].stale = rows[k].stale
           Released ==
             \/ rows'[k] \in {NewRow, Absent, FailedRow(rows[k]), DeliveredRow(rows[k]),
                              DeadLetterRow(rows[k], rows[k].gen)}
             \/ /\ rows[k].gen + 1 <= MaxReconcile
                /\ rows'[k] = RevivedRow(rows[k], rows[k].gen + 1)
<1>a. CASE Released
  BY <1>0, <1>a, BudgetReleased
<1>b. CASE Same /\ run' = run
  BY <1>0, <1>b, BudgetKept DEF Holds
\* An execution that holds no claim on the job, or is not booking a failure, or
\* spends a fault, ends.
<1>c. CASE \E r \in Runners :
             /\ Same /\ \A q \in Runners \ {r} : run'[q] = run[q]
             /\ run'[r].pc \notin Holding
             /\ ~Holds(r, k) \/ run[r].pc # "counted" \/ faults' = faults + 1
  BY <1>0, <1>c, BudgetKept DEF Holds
<1>1. ASSUME NEW j \in Jobs,
             \/ UpsertDeliveryJob(j) \/ DeleteJob(j) \/ DropSigner(j) \/ AckTerminal(j)
             \/ FailInvalidEndpoint(j) \/ BecomeDue(j) \/ GrowOld(j)
      PROVE BudgetAt(k)'
  <2>1. run' = run /\ (Same \/ Released)
    BY <1>0, <1>1, RowFields DEF UpsertDeliveryJob, DeleteJob, DropSigner, AckTerminal,
       FailInvalidEndpoint, BecomeDue, GrowOld, Row, Older
  <2> QED
    BY <1>a, <1>b, <2>1
<1>2. ASSUME NEW j \in Jobs, ClaimTimesOut(j) PROVE BudgetAt(k)'
  <2>1. CASE j # k
    BY <1>0, <1>2, <2>1, BudgetKept DEF ClaimTimesOut, Holds
  <2>2. CASE j = k
    <3>1. /\ rows'[k].gen = rows[k].gen /\ rows'[k].attempts = rows[k].attempts
          /\ rows'[k].status = rows[k].status /\ rows'[k].token = rows[k].token
          /\ rows'[k].stale /\ rows[k].status = "processing" /\ ~rows[k].stale
          /\ run' = run
      BY <1>0, <1>2, <2>2 DEF ClaimTimesOut, Row
    <3>2. HasHolder(k) <=> \E r \in Runners : Holds(r, k)
      BY DEF HasHolder, Holds
    <3>3. CASE HasHolder(k)
      <4>1. faults' = faults + 1
        BY <1>2, <2>2, <3>3 DEF ClaimTimesOut
      <4>2. \A r \in Runners : Holds(r, k) /\ run[r].pc # "counted" =>
              rows[k].attempts < MaxAttempts + faults
        BY <1>0, <3>1, Holders DEF BudgetAt
      <4>3. rows[k].attempts <= MaxAttempts + faults /\ rows[k].gen <= MaxReconcile
        BY <1>0 DEF BudgetAt
      <4>4. \A r \in Runners : Holds(r, k)' =>
              /\ Holds(r, k) /\ run'[r] = run[r]
              /\ run'[r].pc = "counted" => run'[r].count = rows'[k].attempts
              /\ run'[r].pc # "counted" => rows'[k].attempts + 1 < MaxAttempts + faults'
        BY <1>0, <3>1, <4>1, <4>2 DEF Holds, BudgetAt
      <4> QED
        BY <1>0, <3>1, <4>1, <4>3, <4>4 DEF BudgetAt
    <3>4. CASE ~HasHolder(k)
      <4>1. faults' = faults
        BY <1>2, <2>2, <3>4 DEF ClaimTimesOut
      <4>2. \A r \in Runners : ~Holds(r, k) /\ ~Holds(r, k)'
        BY <3>1, <3>2, <3>4 DEF Holds
      <4> QED
        BY <1>0, <3>1, <4>1, <4>2 DEF BudgetAt
    <3> QED
      BY <3>3, <3>4
  <2> QED
    BY <2>1, <2>2
<1>3. ASSUME NEW r \in Runners, NEW j \in Jobs, Admit(r, j) PROVE BudgetAt(k)'
  <2>1. /\ Same /\ \A q \in Runners \ {r} : run'[q] = run[q]
        /\ run'[r].pc = "admitted" /\ run[r].pc = "idle"
    BY <1>0, <1>3 DEF Admit
  <2> QED
    BY <1>c, <2>1 DEF Holding, Holds
<1>4. ASSUME NEW r \in Runners, Claim(r) PROVE BudgetAt(k)'
  <2>1. PICK t \in FreshTokens :
          /\ rows' = [rows EXCEPT ![run[r].job] = ClaimedRow(@, t)]
          /\ run' = [run EXCEPT ![r] = [@ EXCEPT !.pc = "claimed", !.token = t]]
    BY <1>4 DEF Claim
  <2>2. /\ t # NoToken
        /\ \A q \in Runners : run[q].token # t
        /\ \A j \in Jobs : rows[j].token # t
    BY <2>1 DEF FreshTokens
  <2>3. /\ run'[r].pc = "claimed" /\ run'[r].token = t /\ run'[r].job = run[r].job
        /\ \A q \in Runners \ {r} : run'[q] = run[q]
        /\ faults' = faults /\ run[r].pc = "admitted"
    BY <1>0, <1>4, <2>1 DEF Run, Claim
  <2>4. CASE run[r].job = k
    <3>1. /\ rows'[k].token = t /\ rows'[k].gen = rows[k].gen /\ ~rows'[k].stale
          /\ rows'[k].attempts = rows[k].attempts /\ rows'[k].status = "processing"
      BY <1>0, <2>1, <2>4 DEF ClaimedRow, Row
    <3>2. rows[k].attempts < MaxAttempts + faults
      BY <1>0, <1>4, <2>4 DEF Claim, Claimable, BudgetAt
    <3>3. \A q \in Runners : Holds(q, k)' => q = r
      BY <2>2, <2>3, <3>1 DEF Holds
    <3> QED
      BY <1>0, <2>3, <3>1, <3>2, <3>3 DEF BudgetAt
  <2>5. CASE run[r].job # k
    <3>1. Same
      BY <1>0, <2>1, <2>5
    <3> QED
      BY <1>0, <2>2, <2>3, <2>5, <3>1, BudgetKept DEF Holds, Holding
  <2> QED
    BY <2>4, <2>5
<1>5. ASSUME NEW r \in Runners, ClaimLost(r) \/ SendDlqMessage(r) \/ SendWakeup(r)
                                \/ BookkeepingFails(r) \/ Crash(r)
      PROVE BudgetAt(k)'
  <2>1. /\ Same /\ \A q \in Runners \ {r} : run'[q] = run[q]
        /\ run'[r].pc = "idle"
        /\ run[r].pc # "counted" \/ faults' = faults + 1
    BY <1>0, <1>5, RunFields DEF ClaimLost, SendDlqMessage, SendWakeup, BookkeepingFails, Crash
  <2> QED
    BY <1>c, <2>1 DEF Holding
\* A fenced write that ends the claim: the row is released, or was not r's.
<1>6. ASSUME NEW r \in Runners, NEW row,
             row \in {FailedRow(rows[run[r].job]), DeliveredRow(rows[run[r].job]),
                      DeadLetterRow(rows[run[r].job], rows[run[r].job].gen)},
             rows' = IF Owns(r) THEN [rows EXCEPT ![run[r].job] = row] ELSE rows,
             \A q \in Runners \ {r} : run'[q] = run[q],
             run'[r].pc \notin Holding
      PROVE BudgetAt(k)'
  <2>1. CASE Owns(r) /\ run[r].job = k
    BY <1>0, <1>6, <1>a, <2>1
  <2>2. CASE ~(Owns(r) /\ run[r].job = k)
    <3>1. Same
      BY <1>0, <1>6, <2>2
    <3>2. ~Holds(r, k)
      BY <2>2, Holders DEF Holds
    <3> QED
      BY <1>6, <1>c, <3>1, <3>2
  <2> QED
    BY <2>1, <2>2
<1>7. ASSUME NEW r \in Runners, GoTo(r, "posting"), run[r].pc = "claimed", rows' = rows,
             faults' = faults
      PROVE BudgetAt(k)'
  BY <1>0, <1>7, RunFields, BudgetKept DEF Holds, Holding, GoTo, Run
<1>8. ASSUME NEW r \in Runners, LoadActivity(r) PROVE BudgetAt(k)'
  <2>1. CASE FailJob(r) /\ Finish(r)
    <3> DEFINE row == FailedRow(rows[run[r].job])
    <3>1. rows' = IF Owns(r) THEN [rows EXCEPT ![run[r].job] = row] ELSE rows
      BY <1>0, <2>1 DEF FailJob
    <3> HIDE DEF row
    <3> QED
      BY <1>0, <1>6, <2>1, <3>1, RunFields DEF Holding, row
  <2> QED
    BY <1>7, <1>8, <2>1 DEF LoadActivity
<1>9. ASSUME NEW r \in Runners, NEW s \in Responses, Post(r, s) PROVE BudgetAt(k)'
  <2>1. PICK stage \in {"accepted", "rejected", "refused"} :
          GoTo(r, stage) /\ rows' = rows /\ faults' = faults /\ run[r].pc = "posting"
    BY <1>9 DEF Post
  <2> QED
    BY <1>0, <2>1, RunFields, BudgetKept DEF Holds, Holding, GoTo, Run
<1>10. ASSUME NEW r \in Runners, MarkDelivered(r) PROVE BudgetAt(k)'
  <2> DEFINE row == DeliveredRow(rows[run[r].job])
  <2>1. rows' = IF Owns(r) THEN [rows EXCEPT ![run[r].job] = row] ELSE rows
    BY <1>0, <1>10 DEF MarkDelivered
  <2> HIDE DEF row
  <2> QED
    BY <1>0, <1>6, <1>10, <2>1, RunFields DEF Holding, MarkDelivered, row
<1>11. ASSUME NEW r \in Runners, MarkRejected(r) PROVE BudgetAt(k)'
  <2> DEFINE row == FailedRow(rows[run[r].job])
  <2>1. rows' = IF Owns(r) THEN [rows EXCEPT ![run[r].job] = row] ELSE rows
    BY <1>0, <1>11 DEF MarkRejected, FailJob
  <2> HIDE DEF row
  <2> QED
    BY <1>0, <1>6, <1>11, <2>1, RunFields DEF Holding, MarkRejected, row
<1>12. ASSUME NEW r \in Runners, IncrementDeliveryAttempts(r) PROVE BudgetAt(k)'
  <2>1. CASE ~Owns(r)
    <3>1. Same /\ \A q \in Runners \ {r} : run'[q] = run[q] /\ run'[r].pc = "idle"
      BY <1>0, <1>12, <2>1, RunFields DEF IncrementDeliveryAttempts
    <3>2. ~Holds(r, k)
      BY <2>1, Holders
    <3> QED
      BY <1>0, <1>12, <1>c, <2>1, <3>1, <3>2, RunFields DEF IncrementDeliveryAttempts, Holding
  <2>2. CASE Owns(r)
    <3> DEFINE n == rows[run[r].job].attempts + 1
    <3>1. /\ run' = [run EXCEPT ![r] = [run[r] EXCEPT !.pc = "counted", !.count = n]]
          /\ rows' = [rows EXCEPT ![run[r].job] = CountedRow(rows[run[r].job])]
          /\ faults' = faults /\ run[r].pc = "refused"
      BY <1>0, <1>12, <2>2 DEF IncrementDeliveryAttempts
    <3>2. /\ run'[r].pc = "counted" /\ run'[r].token = run[r].token
          /\ run'[r].job = run[r].job /\ run'[r].count = n
          /\ \A q \in Runners \ {r} : run'[q] = run[q]
      <4> HIDE DEF n
      <4> QED
        BY <1>0, <3>1 DEF Run
    <3>3. CASE run[r].job # k
      <4>1. Same
        BY <1>0, <3>1, <3>3
      <4> QED
        BY <1>0, <3>1, <3>2, <3>3, <4>1, BudgetKept DEF Holds
    <3>4. CASE run[r].job = k
      <4>1. /\ rows'[k].gen = rows[k].gen /\ rows'[k].attempts = rows[k].attempts + 1
            /\ rows'[k].status = rows[k].status /\ rows'[k].token = rows[k].token
            /\ rows'[k].stale = rows[k].stale /\ rows[k].status = "processing"
        BY <1>0, <2>2, <3>1, <3>4 DEF CountedRow, Row, Owns
      <4>2. Holds(r, k) /\ \A q \in Runners : Holds(q, k) => q = r
        BY <1>12, <2>2, <3>4, Holders DEF IncrementDeliveryAttempts, Holding
      <4>3. Holds(r, k)' /\ \A q \in Runners : Holds(q, k)' => q = r
        BY <3>2, <4>1, <4>2 DEF Holds, Holding
      <4>4. rows[k].attempts < MaxAttempts + faults /\ rows[k].gen <= MaxReconcile
        BY <1>0, <3>1, <4>1, <4>2 DEF BudgetAt
      <4>5. rows[k].stale => rows[k].attempts + 1 < MaxAttempts + faults
        BY <1>0, <3>1, <4>2 DEF BudgetAt
      <4> QED
        <5>1. \A q \in Runners : Holds(q, k)' => run'[q].pc = "counted" /\ run'[q].count = rows'[k].attempts
          BY <3>2, <3>4, <4>1, <4>3
        <5>2. rows'[k].attempts < MaxAttempts + faults' \/ ~rows'[k].stale
          BY <1>0, <3>1, <4>1, <4>5
        <5>3. rows'[k].attempts <= MaxAttempts + faults' /\ rows'[k].gen <= MaxReconcile
          BY <1>0, <3>1, <4>1, <4>4
        <5> QED
          BY <3>2, <4>1, <4>3, <5>1, <5>2, <5>3 DEF BudgetAt
    <3> QED
      BY <3>3, <3>4
  <2> QED
    BY <2>1, <2>2
<1>13. ASSUME NEW r \in Runners, DeadLetter(r) PROVE BudgetAt(k)'
  <2> DEFINE row == DeadLetterRow(rows[run[r].job], rows[run[r].job].gen)
  <2>1. rows' = IF Owns(r) THEN [rows EXCEPT ![run[r].job] = row] ELSE rows
    BY <1>0, <1>13 DEF DeadLetter, Owns
  <2> HIDE DEF row
  <2> QED
    <3>1. \A q \in Runners \ {r} : run'[q] = run[q]
      BY <1>0, <1>13, RunFields DEF DeadLetter
    <3>2. run'[r].pc \in {"idle", "signal"}
      BY <1>0, <1>13, RunFields DEF DeadLetter
    <3> QED
      BY <1>6, <2>1, <3>1, <3>2 DEF Holding, row
<1>14. ASSUME NEW r \in Runners, RetryWait(r) PROVE BudgetAt(k)'
  <2>0. /\ \A q \in Runners \ {r} : run'[q] = run[q] /\ run'[r].pc = "wakeup"
        /\ run'[r].pc = "wakeup" /\ run[r].pc = "counted"
    BY <1>0, <1>14, RunFields DEF RetryWait
  <2>1. CASE Owns(r) /\ run[r].job = k
    <3>1. /\ rows'[k].gen = rows[k].gen /\ rows'[k].attempts = rows[k].attempts
          /\ rows'[k].status = "retry_wait" /\ rows'[k].token = NoToken
      BY <1>0, <1>14, <2>1 DEF RetryWait, RetryRow, Row
    <3>2. run[r].count = rows[k].attempts
      BY <1>0, <2>0, <2>1, Holders DEF BudgetAt, Holding
    <3>3. rows[k].attempts < MaxAttempts /\ rows[k].gen <= MaxReconcile
      BY <1>0, <1>14, <3>2 DEF RetryWait, Exhausted, BudgetAt
    <3>4. rows'[k].attempts < MaxAttempts + faults'
      BY <1>0, <3>1, <3>3
    <3> QED
      BY <1>0, <3>1, <3>3, <3>4, BudgetUnclaimed
  <2>2. CASE ~(Owns(r) /\ run[r].job = k)
    <3>1. Same
      BY <1>0, <1>14, <2>2 DEF RetryWait
    <3>2. ~Holds(r, k)
      BY <2>2, Holders DEF Holds
    <3> QED
      BY <1>c, <2>0, <3>1, <3>2 DEF Holding
  <2> QED
    BY <2>1, <2>2
<1>15. ASSUME NEW m \in main, ProcessReconcileJob(m) PROVE BudgetAt(k)'
  <2>1. m.job \in Jobs /\ run' = run
    BY <1>15 DEF TypeOK, Message, ProcessReconcileJob
  <2>2. Same \/ Released
    BY <1>0, <1>15, <2>1 DEF ProcessReconcileJob, Revivable
  <2> QED
    BY <1>a, <1>b, <2>1, <2>2
<1>16. ASSUME NEW fresh \in BOOLEAN, NEW deferred \in BOOLEAN, Sweep(fresh, deferred)
       PROVE BudgetAt(k)'
  BY <1>a, <1>b, <1>16 DEF Sweep
<1>17. ASSUME \/ \E m \in dlq : HandleDlq(m)
              \/ Lose \/ UNCHANGED vars
       PROVE  BudgetAt(k)'
  BY <1>b, <1>17 DEF HandleDlq, Lose, vars
<1> QED
  BY <1>1, <1>2, <1>3, <1>4, <1>5, <1>8, <1>9, <1>10, <1>11, <1>12, <1>13, <1>14,
     <1>15, <1>16, <1>17 DEF Next, RunnerStep

\* No interleaving of claimants, duplicates and revivals takes a row past the
\* last reconcile generation, and every attempt above the limit of a series is
\* paid for by a claimant that died or stalled between the counter and the
\* booking of its failure.
THEOREM BudgetIsBounded == Spec => []BudgetBounded
<1> USE DeliveryAssumption
<1>1. Init => ClaimInv /\ BudgetInv
  BY DEF Init, ClaimInv, BudgetInv, BudgetAt, Holds, Holding, Absent
<1>2. TypeOK /\ BudgetInv => BudgetBounded
  BY DEF BudgetInv, BudgetAt, BudgetBounded
<1> QED
  BY <1>1, <1>2, ClaimInvStep, BudgetInvStep, TypeCorrect, PTL DEF Spec
=============================================================================
