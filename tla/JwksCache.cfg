SPECIFICATION JwksSpec
CONSTANTS
    Requests = {r1, r2, r3}
    TTL = 2
    FetchMax = 1
    MaxRotations = 1
INVARIANTS JwksTypeOK NoHerd WithdrawnKeysDieOut
PROPERTIES EveryRequestEnds
