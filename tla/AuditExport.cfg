SPECIFICATION AuditSpec
CONSTANTS
    N = 2
    Sealers = {s1, s2}
    SignOnWrite = TRUE
    Kinds = {"audit", "classify"}
    MaxVersion = 2
    Limit = 2
    RequireSignature = TRUE
SYMMETRY Symmetry
INVARIANTS ExportTypeOK OrderlyChainVerifies AnchorIsPrefix OfflineVerifies
    ServedExportVerifies VerdictIsHonest
CONSTRAINT Explored
CHECK_DEADLOCK FALSE
