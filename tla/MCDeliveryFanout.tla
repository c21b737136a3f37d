------------------------- MODULE MCDeliveryFanout -------------------------
(* The community fanout: 1 is a local member, 2 a remote member who also   *)
(* follows the community.                                                  *)
EXTENDS DeliveryFanout

MCStages == <<"local_members", "remote_members", "remote_followers">>

(* A fanout that is completed has served every recipient of its stages,    *)
(* and its rows and wakeups are what they should be (DeliveryFanout).      *)
FanoutComplete == TypeOK /\ CompletedServedAll
=============================================================================
