------------------------------ MODULE MCMlops ------------------------------
(***************************************************************************)
(* The three parts of the ML package, which share no state: from the       *)
(* initial state of them all, one part runs while the others rest.         *)
(***************************************************************************)
EXTENDS Registry, Pipeline, Calibration, TLC

SmallLimits == {<<0, 1>>, <<1, 3>>, <<1, 1>>}
SmallTargets == {<<2, 3>>, <<1, 1>>}
SmallMargins == {0, 5}

(* A calibration is one computation: its samples are its initial states.   *)
AtRest == CHOOSE s \in Samples : TRUE

Init ==
    /\ RegistryInit
    /\ PipelineInit
    /\ CalibrationInit

Next ==
    /\ sample = AtRest
    /\ \/ PipelineInit /\ RegistryNext /\ UNCHANGED <<pipelineVars, sample>>
       \/ RegistryInit /\ PipelineNext /\ UNCHANGED <<registryVars, sample>>

Spec == Init /\ [][Next]_<<registryVars, pipelineVars, sample>>

(* Nothing tells two people, two assignments of the images or two baselines*)
(* apart.                                                                  *)
Symmetry == Permutations(Actors) \cup Permutations(Splits) \cup Permutations(Baselines)

\* Type correctness of the registry's file and processes and of the pipeline's files.
MlopsTypeOK == RegistryTypeOK /\ PipelineTypeOK

=============================================================================
