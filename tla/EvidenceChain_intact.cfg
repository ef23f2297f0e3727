SPECIFICATION ChainSpec
CONSTANTS
    N = 2
    Sealers = {s1}
    SignOnWrite = TRUE
    Kinds = {"audit"}
    MaxVersion = 1
    Limit = 2
INVARIANT IntactChainVerifies
CHECK_DEADLOCK FALSE
