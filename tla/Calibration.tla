---------------------------- MODULE Calibration ----------------------------
(***************************************************************************)
(* The choice of the two routing thresholds from the validation scores     *)
(* (calibration.py).  Scores lie on a grid and are multiples of 4, so the  *)
(* midpoints between scores are integers too and + 1 is smaller than any   *)
(* distance between them: it stands for nextafter.                         *)
(***************************************************************************)
EXTENDS Naturals, FiniteSets, FiniteSetsExt

CONSTANTS
    Grid,       \* scores are 4 * 0 .. 4 * Grid; the last one is the score 1.0
    Limits,     \* max_false_accept_rate, as <<numerator, denominator>>
    Targets,    \* target_hold_recall, likewise
    Margins     \* safety_margin, in units of the scores

ASSUME GridAssumption == Grid \in Nat \ {0}

ASSUME SettingsAssumption ==
    /\ Limits \subseteq Nat \X (Nat \ {0}) /\ Targets \subseteq Nat \X (Nat \ {0})
    /\ Margins \subseteq Nat

VARIABLE sample \* the validation predictions and the settings of one calibration

One == 4 * Grid
Scores == {4 * s : s \in 0 .. Grid}

(* At most two anomalous images and one normal one share a score; both     *)
(* labels must be present, or calibrate_thresholds raises.                 *)
Samples ==
    [bad : (SUBSET (Scores \X {1, 2})) \ {{}}, good : (SUBSET Scores) \ {{}},
     limit : Limits, target : Targets, margin : Margins]

AllScores(s) == {b[1] : b \in s.bad} \cup s.good

(* 0, 1, the scores, and the midpoints of neighbouring scores.             *)
Neighbours(s) ==
    {p \in AllScores(s) \X AllScores(s) :
        p[1] < p[2] /\ \A z \in AllScores(s) : z <= p[1] \/ z >= p[2]}

Candidates(s) == {0, One} \cup AllScores(s) \cup {(p[1] + p[2]) \div 2 : p \in Neighbours(s)}

Below(s, t) == Cardinality({b \in s.bad : b[1] < t})

AcceptsFew(s, t) == Below(s, t) * s.limit[2] <= s.limit[1] * Cardinality(s.bad)
HoldsEnough(s, t) ==
    (Cardinality(s.bad) - Below(s, t)) * s.target[2] >= s.target[1] * Cardinality(s.bad)

(* _legacy_thresholds: the largest review threshold first, then the        *)
(* largest hold threshold above it, or the next candidate.                 *)
LegacyReview(s) == Max({c \in Candidates(s) : c < One /\ AcceptsFew(s, c)} \cup {0})

LegacyHold(s) ==
    LET above == {c \in Candidates(s) : c > LegacyReview(s)}
        enough == {c \in above : HoldsEnough(s, c)}
    IN IF enough # {} THEN Max(enough) ELSE Min(above)

Lowered(t, margin) == IF t > margin THEN t - margin ELSE 0

Review(s) == Lowered(LegacyReview(s), s.margin)

\* Variant: both thresholds lowered, their order not restored.
HoldMerelyLowered(s) == Lowered(LegacyHold(s), s.margin)

Hold(s) ==
    LET lowered == Lowered(LegacyHold(s), s.margin) IN
    IF lowered > Review(s) THEN lowered ELSE Min({One, Review(s) + 1})

CalibrationInit == sample \in Samples

-----------------------------------------------------------------------------
(* What validation promises of the thresholds: they are ordered, the       *)
(* review threshold releases no more anomalies than allowed and before the *)
(* margin no admissible threshold of any kind releases more images, and a  *)
(* margin loses neither a detection nor a hold ("can only route more       *)
(* samples to review/hold", calibration.py).                               *)
CalibrationIsSafe ==
    /\ Review(sample) < Hold(sample)
    /\ AcceptsFew(sample, Review(sample))
    /\ sample.limit[1] < sample.limit[2] =>
          \A t \in 0 .. One - 1 :
              AcceptsFew(sample, t) =>
                  \A x \in AllScores(sample) : x < t => x < LegacyReview(sample)
    /\ Below(sample, Review(sample)) <= Below(sample, LegacyReview(sample))
    /\ Below(sample, Hold(sample)) <= Below(sample, LegacyHold(sample))

=============================================================================
