\* One deployment, one detection: what "No drift detected" is worth.
CONSTANTS
    Deploys = {d1}
    Detections = {t1}
    c1 = c1
    c2 = c2
    e1 = e1
    e2 = e2
    Composes = {c1, c2}
    Extras = {e1, e2}
    Contents <- MCContents
    Gone = Gone
    MaxEvents = 1
SPECIFICATION Spec
PROPERTIES
    NoDriftMeansInSync
