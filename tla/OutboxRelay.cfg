SPECIFICATION RelayFairSpec
CONSTANTS
    Ops = {o1, o2, o3}
    NoneId = NoneId
    MaxRetries = 0
    Relays = {r1, r2}
    BatchSize = 2
    MaxFaults = 2
\* Once every row is relayed the relays poll an empty table.
CHECK_DEADLOCK FALSE
INVARIANTS DoneWasSent DuplicatesNeedFaults
PROPERTIES Relayed
