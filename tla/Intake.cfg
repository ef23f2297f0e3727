SPECIFICATION IntakeSpec
CONSTANTS
    Workers = {w1}
    Requests = {r1, r2}
    Docs = {d1}
    MaxReloads = 1
    MaxOps = 2
    MaxFaults = 2
CHECK_DEADLOCK FALSE
INVARIANTS IntakeTypeOK CalmLabelIsHonest DuplicatesAreInFlight
PROPERTIES ReloadReachesWorkers
