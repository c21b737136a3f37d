------------------------ MODULE MCDeliveryEndpoint ------------------------
(* Instances of DeliveryEndpoint for TLC. *)
EXTENDS DeliveryEndpoint, TLC

CONSTANTS j1, r1, r2, t1, t2, t3

\* Model values are interchangeable: runners and tokens are only compared.
Symmetry == Permutations(Runners) \cup Permutations(Tokens)

\* A success, a permanent 4xx, a transient 4xx.  A 5xx and a network error
\* take the same branch as the transient 4xx.
MCResponses == {202, 410, 404}
=============================================================================
