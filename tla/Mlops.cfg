SPECIFICATION Spec
CONSTANTS
    Models = {"v1", "v2"}
    Attached = {"v1"}
    Actors = {a, b, c}
    Processes = {"p1", "p2"}
    MaxOverlap = 1
    Torn = Torn
    NoFile = NoFile
    Metrics = {"recall"}
    Absent = Absent
    Baselines = {b1, b2}
    Splits = {s1, s2}
    MaxData = 2
    MaxStamp = 9
    MaxOutside = 3
    Grid = 3
    Limits <- SmallLimits
    Targets <- SmallTargets
    Margins <- SmallMargins
SYMMETRY Symmetry
INVARIANTS ReadableIndexIsSound LossNeedsOverlap
           QualifiedIsCoherent WrittenIsVerified CalibrationIsSafe
CHECK_DEADLOCK FALSE
