SPECIFICATION FairSpec
CONSTANTS
    Ops = {o1}
    NoneId = NoneId
    MaxRetries = 1
    Relays = {r1}
    BatchSize = 1
    MaxFaults = 0
    Workers = {w1, w2}
    Keys = {k1, k2}
    Critical = {k1}
    Sources = {"rest"}
    OpaAnswers = {"review", "pass", "unavailable"}
    PolicyMayChange = TRUE
\* All requests are served: the pipeline may come to rest.
CHECK_DEADLOCK FALSE
INVARIANTS LeakIsRecorded
PROPERTIES Settles HeldIsAnnounced
