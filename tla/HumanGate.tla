------------------------------ MODULE HumanGate ------------------------------
(***************************************************************************)
(* What the quality loop promises about authority, and nothing else: who    *)
(* decided over an inspection and what may be written to MES and QMS.       *)
(* docs/decisions/002-human-review.md: "The model proposes evidence;        *)
(* business disposition belongs to deterministic policy and authorized      *)
(* humans."  QualityLoop is shown to implement this module.                 *)
(***************************************************************************)
CONSTANTS
    Inspections,
    Users,
    Managers,
    Effects,        \* the records an inspection may cause outside, as pairs
    Policy,         \* the authority of an automatic release
    Nobody          \* no decision yet

VARIABLES
    phase,          \* where each inspection stands
    authority,      \* whose decision put it there
    effects         \* what was written to MES and QMS

vars == <<phase, authority, effects>>

Phase == {"none", "machine", "people", "released", "escalated", "disposition"}

Init ==
    /\ phase = [i \in Inspections |-> "none"]
    /\ authority = [i \in Inspections |-> Nobody]
    /\ effects = {}

Move(i, from, to, who) ==
    /\ phase[i] = from
    /\ phase' = [phase EXCEPT ![i] = to]
    /\ authority' = [authority EXCEPT ![i] = who]
    /\ UNCHANGED effects

Receive(i)          == Move(i, "none", "machine", Nobody)
ReleaseByPolicy(i)  == Move(i, "machine", "released", Policy)
Refer(i)            == Move(i, "machine", "people", Nobody)
Release(i, u)       == Move(i, "people", "released", u)
Escalate(i, u)      == Move(i, "people", "escalated", u)
Disposition(i, u)   == u \in Managers /\ Move(i, "people", "disposition", u)

\* A record is created outside, on a manager's authority only.
Effect(e) ==
    /\ phase[e[1]] = "disposition"
    /\ authority[e[1]] \in Managers
    /\ effects' = effects \cup {e}
    /\ UNCHANGED <<phase, authority>>

Next ==
    \/ \E i \in Inspections : Receive(i) \/ ReleaseByPolicy(i) \/ Refer(i)
    \/ \E i \in Inspections, u \in Users : Release(i, u) \/ Escalate(i, u) \/ Disposition(i, u)
    \/ \E e \in Effects : Effect(e)

Spec == Init /\ [][Next]_vars

=============================================================================
