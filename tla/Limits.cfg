SPECIFICATION LimitsSpec
CONSTANTS
    Replicas = {p1, p2}
    RPM = 1
    Window = 2
    CallIds = {c1, c2, c3, c4, c5}
    MaxOutages = 2
    MaxRestarts = 1
SYMMETRY Symmetry
INVARIANTS LimitsTypeOK AdmissionIsBounded RefusedOnlyAboveLimit
