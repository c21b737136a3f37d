------------------------------- MODULE MCJobs -------------------------------
(***************************************************************************)
(* The two jobs that outlive the messages which wake them up: the fanout   *)
(* of an activity and the push job of a notification.  They share no       *)
(* state; in a behaviour of the push job the fanout stays as it began.     *)
(***************************************************************************)
EXTENDS MCDeliveryFanout

CONSTANTS Keys, Workers, MaxAttempts, MaxRegs, MaxTries

ASSUME PushAssumption ==
  /\ "none" \notin Workers      \* no worker's token is that of a free row
  /\ MaxAttempts \in Nat \ {0} /\ {MaxRegs, MaxTries} \subseteq Nat

VARIABLES job, age, due, tries, sweep, row, login, regs, work

Push == INSTANCE NotificationPush

PushStep == Push!Next /\ UNCHANGED vars

PushSpec ==
  Init /\ Push!Init /\ [][PushStep]_<<vars, Push!vars>> /\ Push!Fairness

(* A worker that was overtaken does no harm: neither to the job nor to a   *)
(* subscription that changed hands (processingLeaseWhere, deletePusherRow).*)
OvertakenHarmless ==
  []Push!TypeOK /\ Push!SettledStaysSettled /\ Push!TakeoverKept

(* A job whose messages are lost, whose workers die or whose push service  *)
(* is down is settled all the same, as long as there is a subscription     *)
(* (STALE_INFLIGHT_RECLAIM_MS).                                            *)
JobSettles ==
  job.status \in Push!Active ~> (job.status \notin Push!Active \/ ~Push!HasPusher)
=============================================================================
