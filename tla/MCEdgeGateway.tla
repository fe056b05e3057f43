---------------------------- MODULE MCEdgeGateway ----------------------------
(***************************************************************************)
(* The two places that try again until they succeed: the upload from the   *)
(* gateway and, in the backend, the outbox.  They share no state: from the *)
(* initial state of both, one of them runs while the other rests.          *)
(***************************************************************************)
EXTENDS EdgeGateway, OutboxWorkers

BothInit == GatewayInit /\ OutboxInit

BothNext ==
    \/ OutboxInit /\ GatewayNext /\ UNCHANGED outboxVars
    \/ GatewayInit /\ OutboxNext /\ UNCHANGED gatewayVars

\* While one rests there is no row to upload, or no event to deliver.
BothSpec ==
    /\ BothInit /\ [][BothNext]_<<gatewayVars, outboxVars>>
    /\ GatewayFairness /\ OutboxFairness

=============================================================================
