SPECIFICATION Spec
CONSTANTS
    Ops = {o1}
    NoneId = NoneId
    MaxRetries = 1
    Relays = {r1, r2}
    BatchSize = 1
    MaxFaults = 2
    Workers = {w1, w2}
    Keys = {k1, k2}
    Critical = {k1}
    Sources = {"rest", "mcp"}
    OpaAnswers = {"review", "pass", "unavailable"}
    PolicyMayChange = FALSE
SYMMETRY Symmetry
\* All requests are served: the pipeline may come to rest.
CHECK_DEADLOCK FALSE
INVARIANTS TypeOK UnsanitizedIsTracked CompletedIsCovered SealedIsArchived
           UploadsNeedFaults
PROPERTIES HeldStaysHeld ImplementsLifecycle
