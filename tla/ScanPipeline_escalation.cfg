SPECIFICATION Spec
CONSTANTS
    Ops = {o1}
    NoneId = NoneId
    MaxRetries = 1
    Relays = {r1}
    BatchSize = 1
    MaxFaults = 0
    Workers = {w1, w2}
    Keys = {k1}
    Critical = {k1}
    Sources = {"rest"}
    OpaAnswers = {"review", "pass", "unavailable"}
    PolicyMayChange = FALSE
\* All requests are served: the pipeline may come to rest.
CHECK_DEADLOCK FALSE
PROPERTIES EscalationIsFinal
