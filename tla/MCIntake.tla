------------------------------ MODULE MCIntake ------------------------------
(***************************************************************************)
(* The two views of POST /inspections: requests that share a key, and the  *)
(* pack that routes what they made.  They share no state: from the initial *)
(* state of both, one of them runs while the other rests.                  *)
(***************************************************************************)
EXTENDS Intake, MCPolicy

Init == IntakeInit /\ PolicyInit

Next ==
    \/ PolicyInit /\ IntakeNext /\ UNCHANGED policyVars
    \/ IntakeInit /\ PolicyNext /\ UNCHANGED intakeVars

Spec == Init /\ [][Next]_<<intakeVars, policyVars>>

Symmetry ==
    Permutations(Requests) \cup Permutations(Prints)
    \cup Permutations(Packs) \cup Permutations(Inspections)

=============================================================================
