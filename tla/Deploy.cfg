\* Two deployments, a detection and users meet in any order.
CONSTANTS
    Deploys = {d1, d2}
    Detections = {t1, t2}
    c1 = c1
    c2 = c2
    e1 = e1
    e2 = e2
    Composes = {c1, c2}
    Extras = {e1, e2}
    Contents <- MCContents
    Gone = Gone
    MaxEvents = 1
SPECIFICATION Spec
INVARIANTS
    PendingIsUnderWay
    SuccessWasDeployed
    SettledMeansInSync
PROPERTIES
    NoFalseAlarm
SYMMETRY Symmetry
