------------------------------ MODULE OneLive ------------------------------
(***************************************************************************)
(* What the release lifecycle promises for one product: a model earns its  *)
(* release once and for good, at most one earned model is live, a new one  *)
(* takes the place of the old one in one step, and only a request that     *)
(* names the live model takes it down without a successor.                 *)
(* docs/05-pilot-qualification.md, section 4.                              *)
(***************************************************************************)
CONSTANT Models

VARIABLES
    live,
    earned,
    leaving    \* models that somebody's request may take down

vars == <<live, earned, leaving>>

Init == live = {} /\ earned = {} /\ leaving = {}

(* Requests come and go.                                                   *)
Ask ==
    /\ leaving' \subseteq Models
    /\ UNCHANGED <<live, earned>>

Earn(m) ==
    /\ m \notin earned
    /\ earned' = earned \cup {m}
    /\ leaving' \subseteq leaving
    /\ UNCHANGED live

GoLive(m) ==
    /\ m \in earned
    /\ live' = {m}
    /\ UNCHANGED <<earned, leaving>>

Withdraw(m) ==
    /\ m \in leaving
    /\ live = {m} /\ live' = {}
    /\ leaving' \subseteq leaving
    /\ UNCHANGED earned

Next == Ask \/ \E m \in Models : Earn(m) \/ GoLive(m) \/ Withdraw(m)

Spec == Init /\ [][Next]_vars

=============================================================================
