SPECIFICATION RetentionSpec
CONSTANTS
    N = 2
    Sealers = {s1}
    SignOnWrite = FALSE
    Kinds = {"audit", "classify"}
    MaxVersion = 1
    Limit = 2
    Purgers = {p1, p2}
SYMMETRY Symmetry
INVARIANTS CertificateNamesDeleted DeletedOnce
PROPERTIES DeletionIsNoticed
CHECK_DEADLOCK FALSE
