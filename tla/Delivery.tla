------------------------------- MODULE Delivery -------------------------------
(***************************************************************************)
(* What the gateway and the intake together promise about one image in one  *)
(* context (an idempotency key): it is held locally before anything is sent *)
(* for it, the backend makes one inspection of it however often it is sent, *)
(* and only then is it marked uploaded.                                     *)
(* docs/04-edge-gateway-deployment.md, sections 5 and 8.                    *)
(***************************************************************************)
CONSTANTS
    Keys,
    Names           \* names of inspections

VARIABLES
    held,           \* keys the gateway has taken responsibility for
    detected,       \* <<key, name>> of the inspections made
    uploaded        \* keys whose upload is settled

vars == <<held, detected, uploaded>>

Init == held = {} /\ detected = {} /\ uploaded = {}

Hold(k) ==
    /\ held' = held \cup {k}
    /\ UNCHANGED <<detected, uploaded>>

Detect(k) ==
    /\ k \in held
    /\ \A d \in detected : d[1] # k
    /\ \E n \in Names : detected' = detected \cup {<<k, n>>}
    /\ UNCHANGED <<held, uploaded>>

Settle(k) ==
    /\ \E d \in detected : d[1] = k
    /\ uploaded' = uploaded \cup {k}
    /\ UNCHANGED <<held, detected>>

Next == \E k \in Keys : Hold(k) \/ Detect(k) \/ Settle(k)

Spec == Init /\ [][Next]_vars

=============================================================================
