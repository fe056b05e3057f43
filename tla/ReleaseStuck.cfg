SPECIFICATION Spec
CONSTANTS
    recall = recall
    s1 = s1
    s2 = s2
    pilot = pilot
    k1 = k1
    ann = ann
    bo = bo
    cy = cy
    c1 = c1
    c2 = c2
    Absent = Absent
    Metrics = {recall}
    Quals = {1, 2, 3}
    Datasets = {pilot}
    Versions = {"v1", "v2"}
    People = {ann, bo, cy}
    Calls = {c1, c2}
    Offer <- PassedOffer
    Manifests <- MCManifests
    Images <- MCImages
    Packages <- PassedPackages
    Production = TRUE
    Sorts <- MCSorts
    Roles <- MCRoles
SYMMETRY Symmetry
INVARIANTS RefusalIsTrue
CHECK_DEADLOCK FALSE
