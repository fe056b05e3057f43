------------------------------ MODULE Evidence ------------------------------
(***************************************************************************)
(* The qualification evidence package: how the ML tool decides the gates   *)
(* and writes the package (ml/.../qualification.py), and what the tool and *)
(* the backend (backend/app/qualification.py) check when they read it.     *)
(*                                                                         *)
(* A package is a directory of JSON and Markdown files.  Its core files    *)
(* (summary, metrics, provenance, ...) are covered by one digest, which is *)
(* here the record of what they say; release-decision.json holds that      *)
(* digest and stays outside it, so it can be edited and the inventory      *)
(* rewritten without changing the digest the backend has registered.       *)
(* A key that a hand-written file leaves out is Absent: metrics.json may   *)
(* have no gates, and then the backend takes those of the release file.    *)
(***************************************************************************)

CONSTANTS
    Metrics,   \* the measured gates of PILOT_GATES (recall, latency, ...)
    Absent     \* an optional argument that was not given, a key that is missing

Sources == {"DEMO_SYNTHETIC", "OFFICIAL_BENCHMARK", "CUSTOMER_PILOT"}

Decisions == {"GO", "NO-GO", "INSUFFICIENT_EVIDENCE"}

(* The gates of PILOT_GATES that are not measured.                         *)
Integrity == {"model_package_integrity", "no_split_leakage", "customer_data_provenance"}

(* What write_qualification_package is called with.  A metric is reported  *)
(* as null ("NULL") or lies on one side of its threshold; "consent" is     *)
(* Absent without customer provenance; "sha" is the digest of the verified *)
(* model package, and "dataset" the fingerprint of the dataset.  A split   *)
(* manifest that is given is valid: an invalid one raises.                 *)
Arguments(Shas, Datasets) ==
    [source : Sources, metrics : [Metrics -> {"MET", "MISSED", "NULL"}] \cup {Absent},
     sha : Shas \cup {Absent}, split : BOOLEAN, files : BOOLEAN, receipt : BOOLEAN,
     dataset : Datasets \cup {Absent}, consent : {TRUE, FALSE, Absent}]

Graded(met) == IF met THEN "PASS" ELSE "FAIL"

(* The status of every gate: a missing value is insufficient evidence, and *)
(* provenance applies to customer data only.                               *)
Checks(a) ==
    [g \in Metrics \cup Integrity |->
        CASE g = "model_package_integrity" -> Graded(a.sha # Absent)
          [] g = "no_split_leakage" -> Graded(a.split)
          [] g = "customer_data_provenance" ->
                IF a.source # "CUSTOMER_PILOT" THEN "NOT_APPLICABLE"
                ELSE IF a.consent = Absent THEN "INSUFFICIENT_EVIDENCE"
                ELSE Graded(a.consent = TRUE)
          [] OTHER ->
                IF a.metrics = Absent THEN "INSUFFICIENT_EVIDENCE"
                ELSE IF a.metrics[g] = "NULL" THEN "INSUFFICIENT_EVIDENCE"
                ELSE Graded(a.metrics[g] = "MET")]

(* The evidence the caller claims complete.  The dataset fingerprint and   *)
(* the receipt are not part of it: they are only listed as blockers.       *)
Complete(a) ==
    /\ a.source # "DEMO_SYNTHETIC"
    /\ a.sha # Absent /\ a.split /\ a.metrics # Absent /\ a.files
    /\ a.source = "CUSTOMER_PILOT" => a.consent = TRUE

GateDecision(a) ==
    IF ~Complete(a) \/ \E g \in Metrics \cup Integrity : Checks(a)[g] = "INSUFFICIENT_EVIDENCE"
    THEN "INSUFFICIENT_EVIDENCE"
    ELSE IF \E g \in Metrics \cup Integrity : Checks(a)[g] = "FAIL" THEN "NO-GO" ELSE "GO"

(* The public status of a decision, scoped by the source of the data.      *)
ReportStatus(source, decision) ==
    LET benchmark == source = "OFFICIAL_BENCHMARK" IN
    CASE source = "DEMO_SYNTHETIC" -> "DEMO_ONLY"
      [] source # "DEMO_SYNTHETIC" /\ decision = "GO" ->
            IF benchmark THEN "BENCHMARK_PASS" ELSE "CUSTOMER_PILOT_PASS"
      [] source # "DEMO_SYNTHETIC" /\ decision = "NO-GO" ->
            IF benchmark THEN "BENCHMARK_NO_GO" ELSE "CUSTOMER_PILOT_NO_GO"
      [] OTHER -> IF benchmark THEN "BENCHMARK_INSUFFICIENT_EVIDENCE"
                  ELSE "CUSTOMER_PILOT_INSUFFICIENT_EVIDENCE"

(* The gates that a metrics.json may have.                                 *)
Gates ==
    [decision : Decisions,
     checks : [Metrics \cup Integrity -> {"PASS", "FAIL", "NOT_APPLICABLE", "INSUFFICIENT_EVIDENCE"}],
     report : {ReportStatus(s, d) : s \in Sources, d \in Decisions}]

ASSUME AbsentAssumption == Absent \notin Sources \cup Decisions \cup Gates

Blocked(a) ==
    /\ a.source # "DEMO_SYNTHETIC"
    /\ ~Complete(a) \/ a.dataset = Absent \/ ~a.receipt

\* Variant: consented customer data is put up for approval whatever it measured.
ApprovalStatusUngated(a) ==
    CASE a.source = "DEMO_SYNTHETIC" -> "DEMO_ONLY"
      [] a.source = "OFFICIAL_BENCHMARK" /\ GateDecision(a) = "GO" -> "READY_FOR_CUSTOMER_DATA"
      [] a.source = "CUSTOMER_PILOT" /\ a.consent = TRUE -> "PENDING_APPROVAL"
      [] OTHER -> "DRAFT_ONLY"

ApprovalStatus(a) ==
    CASE a.source = "DEMO_SYNTHETIC" -> "DEMO_ONLY"
      [] a.source = "OFFICIAL_BENCHMARK" /\ GateDecision(a) = "GO" -> "READY_FOR_CUSTOMER_DATA"
      [] a.source = "CUSTOMER_PILOT" /\ GateDecision(a) = "GO" /\ a.consent = TRUE
            -> "PENDING_APPROVAL"
      [] OTHER -> "DRAFT_ONLY"

(* The files that write_qualification_package leaves behind.  "intact" is  *)
(* the inventory of evidence-manifest.json agreeing with the directory,    *)
(* and, for the tool only, source-evidence.json with the source files.     *)
Core(a) ==
    [status |-> ReportStatus(a.source, GateDecision(a)),
     gates |-> [decision |-> GateDecision(a), checks |-> Checks(a),
                report |-> ReportStatus(a.source, GateDecision(a))],
     source |-> a.source, dataset |-> a.dataset, sha |-> a.sha, consent |-> a.consent,
     run |-> IF a.source = "DEMO_SYNTHETIC" THEN "DEMO_ONLY"
             ELSE IF Blocked(a) THEN "BLOCKED" ELSE "COMPLETED"]

Package(a) ==
    [core |-> Core(a), intact |-> TRUE,
     release |-> [decision |-> Core(a).status, gate |-> GateDecision(a), gates |-> Core(a).gates,
                  approval |-> ApprovalStatus(a), source |-> a.source,
                  dataset |-> a.dataset, sha |-> a.sha, digest |-> Core(a)]]

NoGates == [decision |-> Absent, checks |-> <<>>, report |-> Absent]

CoreGates(core) == IF core.gates = Absent THEN NoGates ELSE core.gates

(* Both verifiers: the inventory, the digest of the core, and the release  *)
(* decision against the summary and the provenance.                        *)
Consistent(p) ==
    /\ p.intact
    /\ p.release.digest = p.core
    /\ p.release.decision = p.core.status
    /\ p.release.sha = p.core.sha
    /\ p.core.source \in Sources
    /\ p.release.source = p.core.source
    /\ p.release.dataset = p.core.dataset

(* verify_evidence_package of the tool: also the public status, and the    *)
(* model package when the caller names one.                                *)
VerifiedByTool(p, sha) ==
    /\ Consistent(p)
    /\ p.release.decision = CoreGates(p.core).report
    /\ sha # Absent => p.core.sha = sha

(* verify_evidence_package of the backend: it also accepts the bare gate   *)
(* decision as the release decision, always compares the model package,    *)
(* and wants the customer's consent in customer evidence.  Without gates   *)
(* in the core, a release decision that is missing too agrees with them.   *)
VerifiedByBackend(p, sha) ==
    /\ Consistent(p)
    /\ p.release.decision \in {CoreGates(p.core).decision, CoreGates(p.core).report}
    /\ p.core.sha = sha
    /\ p.core.source = "CUSTOMER_PILOT" => p.core.consent = TRUE

(* What the backend's verifier returns as gate_decision and gates: the     *)
(* first is that of the release file if it has one, the second that of the *)
(* release file if the core has none.                                      *)
GateDecisionOf(p) ==
    IF p.release.gate = Absent THEN CoreGates(p.core).decision ELSE p.release.gate

GatesOf(p) ==
    IF p.core.gates # Absent THEN p.core.gates
    ELSE IF p.release.gates # Absent THEN p.release.gates ELSE NoGates

=============================================================================
