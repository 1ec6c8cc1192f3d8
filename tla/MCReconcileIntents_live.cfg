CONSTANTS
    Workers = {w1}
    Nobody = nobody
    MaxIntents = 3
    MaxRevision = 2
    BusyLimit = 2
    MaxFaults = 2
    MaxCrashes = 1
    MaxStalls = 0
SPECIFICATION FairSpec
CHECK_DEADLOCK FALSE
PROPERTIES IntentsSettle
