------------------------------ MODULE Pipeline ------------------------------
(***************************************************************************)
(* The offline pipeline of the ML package for one category, one run        *)
(* directory and one package directory: the dataset manifest (dataset.py), *)
(* the baseline that trains, calibrates, evaluates and packages            *)
(* (training.py, evaluation.py, package.py), the single steps of it that   *)
(* the command line offers, and the qualification that cross-checks what   *)
(* lies there (qualification.py).                                          *)
(*                                                                         *)
(* An artifact is the record of what it was made from; "at" distinguishes  *)
(* two that are made alike, as their timestamps and digests do.  There is  *)
(* no lock: other commands, another baseline on the same directories among *)
(* them, run between any two steps of a baseline.  A file is read or       *)
(* written in one moment, and so are the images that one pass reads.       *)
(***************************************************************************)
EXTENDS Evidence, Naturals

CONSTANTS
    Baselines,  \* processes that may run a baseline
    Splits,     \* assignments of the images to train, validation and test
    MaxData,    \* bound: contents of the dataset directory
    MaxStamp,   \* bound: artifacts made
    MaxOutside  \* bound: interventions, which are no step of a baseline

ASSUME BoundsAssumption == MaxData \in Nat \ {0} /\ MaxStamp \in Nat /\ MaxOutside \in Nat

VARIABLES
    data,       \* the content of the dataset directory
    lines,      \* manifest.jsonl
    meta,       \* manifest-meta.json
    run,        \* the run directory, by artifact
    package,    \* the model package
    base,       \* each baseline: the step it has completed, the weights and lines it has loaded
    stamp,      \* artifacts made so far
    disturbed,  \* history: since the last baseline began a manifest was written or data put back
    shared,     \* history: another baseline ran when the last one began
    evidence,   \* the qualification package last written: its arguments
    outside     \* interventions so far

pipelineVars ==
    <<data, lines, meta, run, package, base, stamp, disturbed, shared, evidence, outside>>

None == [at |-> 0]
EmptyRun == [started |-> FALSE, model |-> None, validation |-> None, thresholds |-> None,
             test |-> None, evaluation |-> None, summary |-> None]
Rest == [step |-> "rest", weights |-> None, entries |-> None]

PipelineInit ==
    /\ data = 1
    /\ lines = None /\ meta = None
    /\ run = EmptyRun
    /\ package = None
    /\ base = [b \in Baselines |-> Rest]
    /\ stamp = 0
    /\ disturbed = FALSE /\ shared = FALSE
    /\ evidence = None
    /\ outside = 0

Stamped == stamp < MaxStamp /\ stamp' = stamp + 1

-----------------------------------------------------------------------------
(* The dataset and its manifest.                                           *)

(* The contents are numbered.  Whatever leaves one and comes back to it    *)
(* goes down at some point: that is a content put back.                    *)
ChangeData(content) ==
    /\ content # data
    /\ data' = content
    /\ disturbed' = (disturbed \/ content < data)
    /\ UNCHANGED <<lines, meta, run, package, base, stamp, shared, evidence>>

(* generate_manifest writes the lines and then the metadata.               *)
WriteLines(split) ==
    /\ Stamped
    /\ lines' = [of |-> data, split |-> split, at |-> stamp']
    /\ disturbed' = TRUE
    /\ UNCHANGED <<data, meta, run, package, base, shared, evidence>>

WriteMeta ==
    /\ lines # None /\ meta # lines
    /\ meta' = lines
    /\ disturbed' = TRUE
    /\ UNCHANGED <<data, lines, run, package, base, stamp, shared, evidence>>

\* Variant: the metadata is compared, the images are not hashed again.
ManifestVerifiesMeta ==
    /\ lines # None /\ meta # None
    /\ meta.of = lines.of /\ meta.split = lines.split

(* verify_manifest: every file has its digest, the metadata describes the  *)
(* lines.                                                                  *)
ManifestVerifies ==
    /\ lines # None /\ meta # None
    /\ lines.of = data
    /\ meta.of = lines.of /\ meta.split = lines.split

-----------------------------------------------------------------------------
(* The baseline, step by step.                                             *)

At(b, step) == base[b].step = step

Advance(b, from, to) ==
    /\ At(b, from)
    /\ base' = [base EXCEPT ![b].step = to]

(* The run directory must be empty.                                        *)
Check(b) ==
    /\ Advance(b, "rest", "checked")
    /\ run = EmptyRun
    /\ disturbed' = FALSE
    /\ shared' = \E other \in Baselines \ {b} : ~At(other, "rest")
    /\ UNCHANGED <<data, lines, meta, run, package, stamp, evidence>>

Verify(b) ==
    /\ Advance(b, "checked", "verified")
    /\ ManifestVerifies
    /\ UNCHANGED <<data, lines, meta, run, package, stamp, disturbed, shared, evidence>>

(* run.json, the first file; the manifest is loaded for the training.      *)
Start(b) ==
    /\ At(b, "verified")
    /\ base' = [base EXCEPT ![b].step = "started", ![b].entries = lines]
    /\ run' = [run EXCEPT !.started = TRUE]
    /\ UNCHANGED <<data, lines, meta, package, stamp, disturbed, shared, evidence>>

Made(artifact, value) ==
    /\ Stamped
    /\ run' = [run EXCEPT ![artifact] = value]
    /\ UNCHANGED <<data, lines, meta, package, disturbed, shared, evidence>>

Fit(b) ==
    /\ Advance(b, "started", "fitted")
    /\ Made("model", [data |-> data, split |-> base[b].entries.split, at |-> stamp'])

(* The exported weights and the manifest are loaded again after the        *)
(* training, for all predictions.                                          *)
Reload(b) ==
    /\ At(b, "fitted")
    /\ run.model # None
    /\ base' = [base EXCEPT ![b] = [step |-> "loaded", weights |-> run.model, entries |-> lines]]
    /\ UNCHANGED <<data, lines, meta, run, package, stamp, disturbed, shared, evidence>>

Predictions(b) ==
    [model |-> base[b].weights, split |-> base[b].entries.split, data |-> data, at |-> stamp']

PredictValidation(b) ==
    /\ Advance(b, "loaded", "validated")
    /\ Made("validation", Predictions(b))

(* calibrate_thresholds reads the predictions from their file.             *)
Thresholds == [from |-> run.validation, at |-> stamp']

CalibrateStep(b) ==
    /\ Advance(b, "validated", "calibrated")
    /\ run.validation # None
    /\ Made("thresholds", Thresholds)

PredictTest(b) ==
    /\ Advance(b, "calibrated", "tested")
    /\ Made("test", Predictions(b))

(* evaluate_predictions: the predictions cover the test split of the lines *)
Evaluation == [of |-> run.test, thresholds |-> run.thresholds, meta |-> meta, at |-> stamp']
Covered ==
    /\ run.test # None /\ run.thresholds # None
    /\ lines # None /\ meta # None /\ lines.split = run.test.split

EvaluateStep(b) ==
    /\ Advance(b, "tested", "evaluated")
    /\ Covered
    /\ Made("evaluation", Evaluation)

(* build_model_package stages a directory from the files of the run        *)
(* directory and renames it; an existing version is never overwritten.     *)
BuildPackage(b) ==
    /\ Advance(b, "evaluated", "packaged")
    /\ package = None
    /\ run.model # None /\ run.thresholds # None /\ run.evaluation # None
    /\ Stamped
    /\ package' = [model |-> run.model, thresholds |-> run.thresholds,
                   evaluation |-> run.evaluation, meta |-> meta, at |-> stamp']
    /\ UNCHANGED <<data, lines, meta, run, disturbed, shared, evidence>>

Ended(b) == base' = [base EXCEPT ![b] = Rest]

Summarize(b) ==
    /\ At(b, "packaged") /\ Ended(b)
    /\ package # None
    /\ run' = [run EXCEPT !.summary = [package |-> package, of |-> package.meta.of, at |-> package.at]]
    /\ UNCHANGED <<data, lines, meta, package, stamp, disturbed, shared, evidence>>

(* An exception or a kill: what was written stays.                         *)
Stop(b) ==
    /\ ~At(b, "rest") /\ Ended(b)
    /\ UNCHANGED <<data, lines, meta, run, package, stamp, disturbed, shared, evidence>>

-----------------------------------------------------------------------------
(* Other commands, and the removal that a retry needs.                     *)

Recalibrate ==
    /\ run.validation # None
    /\ Made("thresholds", Thresholds)
    /\ UNCHANGED base

Reevaluate ==
    /\ Covered
    /\ Made("evaluation", Evaluation)
    /\ UNCHANGED base

Remove ==
    /\ \/ run # EmptyRun /\ run' = EmptyRun /\ UNCHANGED package
       \/ package # None /\ package' = None /\ UNCHANGED run
    /\ UNCHANGED <<data, lines, meta, base, stamp, disturbed, shared, evidence>>

-----------------------------------------------------------------------------
(* The qualification.  load_pilot_evidence compares the artifacts with one *)
(* another; it does not ask what the model was trained on, or which        *)
(* weights made the predictions.                                           *)
Accepted ==
    /\ run.started /\ run.summary # None /\ package # None
    /\ ManifestVerifies
    /\ run.summary.of = meta.of
    /\ run.summary.package = package
    /\ package.meta = meta
    /\ run.validation # None /\ run.validation.split = lines.split
    /\ run.test # None /\ run.test.split = lines.split
    /\ run.thresholds # None /\ run.thresholds.from = run.validation
    /\ package.thresholds = run.thresholds
    /\ run.evaluation # None
    /\ run.evaluation.of = run.test
    /\ run.evaluation.thresholds = run.thresholds
    /\ run.evaluation.meta.of = meta.of /\ run.evaluation.meta.split = meta.split
    /\ package.evaluation = run.evaluation

Writes(arguments) ==
    /\ \E intact \in BOOLEAN : evidence' = [arguments |-> arguments, intact |-> intact, at |-> 1]
    /\ UNCHANGED <<data, lines, meta, run, package, base, stamp, disturbed, shared>>

(* qualify_from_run: official benchmark data only.                         *)
QualifyRun ==
    /\ Accepted
    /\ \E results \in [Metrics -> {"MET", "MISSED"}] :
          Writes([source |-> "OFFICIAL_BENCHMARK", metrics |-> results, sha |-> package.at,
                  split |-> TRUE, files |-> TRUE, receipt |-> TRUE, dataset |-> meta.of,
                  consent |-> Absent])

(* qualify_from_directory: a scaffold without model and metrics.  Like the *)
(* next, it reads none of the artifacts; one state of them is enough.      *)
Untouched == lines = None /\ run = EmptyRun

QualifyDirectory ==
    /\ Untouched
    /\ Writes([source |-> "OFFICIAL_BENCHMARK", metrics |-> Absent, sha |-> Absent,
               split |-> TRUE, files |-> FALSE, receipt |-> TRUE, dataset |-> data,
               consent |-> Absent])

(* The command without a run: nothing but the source and the provenance.   *)
QualifyBare(source, consent) ==
    /\ Untouched
    /\ Writes([source |-> source, metrics |-> Absent, sha |-> Absent, split |-> FALSE,
               files |-> FALSE, receipt |-> FALSE, dataset |-> Absent, consent |-> consent])

BaselineNext ==
    \E b \in Baselines :
        \/ Check(b) \/ Verify(b) \/ Start(b) \/ Fit(b) \/ Reload(b) \/ PredictValidation(b)
        \/ CalibrateStep(b) \/ PredictTest(b) \/ EvaluateStep(b) \/ BuildPackage(b)
        \/ Summarize(b) \/ Stop(b)

Intervention ==
    \/ \E d \in 1 .. MaxData : ChangeData(d)
    \/ \E s \in Splits : WriteLines(s)
    \/ Recalibrate \/ Reevaluate \/ Remove

Qualify ==
    \/ QualifyRun \/ QualifyDirectory
    \/ \E s \in Sources, c \in {TRUE, FALSE, Absent} : QualifyBare(s, c)

(* Nothing here reads the evidence: once written it may end a behaviour.   *)
PipelineNext ==
    /\ evidence = None
    /\ \/ (BaselineNext \/ WriteMeta \/ Qualify) /\ UNCHANGED outside
       \/ outside < MaxOutside /\ outside' = outside + 1 /\ Intervention

PipelineSpec == PipelineInit /\ [][PipelineNext]_pipelineVars

-----------------------------------------------------------------------------
Steps == {"rest", "checked", "verified", "started", "fitted", "loaded", "validated", "calibrated",
          "tested", "evaluated", "packaged"}

PipelineTypeOK ==
    /\ data \in 1 .. MaxData
    /\ stamp \in 0 .. MaxStamp /\ outside \in 0 .. MaxOutside
    /\ \A m \in ({lines, meta} \cup {base[b].entries : b \in Baselines}) \ {None} :
          m \in [of : 1 .. MaxData, split : Splits, at : 1 .. MaxStamp]
    /\ DOMAIN run = DOMAIN EmptyRun
    /\ \A w \in ({run.model} \cup {base[b].weights : b \in Baselines}) \ {None} :
          w \in [data : 1 .. MaxData, split : Splits, at : 1 .. MaxStamp]
    /\ \A p \in {run.validation, run.test} \ {None} :
          /\ DOMAIN p = {"model", "split", "data", "at"}
          /\ p.split \in Splits /\ p.data \in 1 .. MaxData
    /\ DOMAIN base = Baselines /\ \A b \in Baselines : base[b].step \in Steps
    /\ disturbed \in BOOLEAN /\ shared \in BOOLEAN
    /\ evidence = None \/ evidence.arguments \in Arguments(1 .. MaxStamp, 1 .. MaxData)

(* Whatever other commands ran, failed or were repeated in between, a run  *)
(* that the qualification accepts has an evaluation with the thresholds    *)
(* that lie there; and unless two baselines ran on its directory at once,  *)
(* which nothing prevents or notices, both predictions were made by the    *)
(* packaged weights.  It was then also trained and scored on the data of   *)
(* its manifest, however the data changed, unless a manifest was written   *)
(* or an earlier content put back meanwhile: neither would be noticed.     *)
QualifiedIsCoherent ==
    Accepted =>
        /\ run.thresholds.at < run.evaluation.at
        /\ ~shared =>
              run.validation.model = package.model /\ run.test.model = package.model
        /\ ~shared /\ ~disturbed =>
              /\ package.model.data = meta.of /\ package.model.split = meta.split
              /\ run.validation.data = meta.of /\ run.test.data = meta.of

(* What a command of the tool writes to its end is accepted by its own     *)
(* verifier, and by the backend's unless it is customer evidence without   *)
(* consent; and none of it can be approved: no command measures customer   *)
(* data.                                                                   *)
WrittenIsVerified ==
    evidence # None =>
        LET a == evidence.arguments
            p == [Package(a) EXCEPT !.intact = evidence.intact]
        IN /\ VerifiedByTool(p, a.sha) = evidence.intact
           /\ VerifiedByBackend(p, a.sha) =
                (evidence.intact /\ (a.source = "CUSTOMER_PILOT" => a.consent = TRUE))
           /\ ApprovalStatus(a) # "PENDING_APPROVAL"

=============================================================================
