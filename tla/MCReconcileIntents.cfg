CONSTANTS
    Workers = {w1, w2}
    Nobody = nobody
    MaxIntents = 3
    MaxRevision = 2
    BusyLimit = 2
    MaxFaults = 1
    MaxCrashes = 1
    MaxStalls = 1
SPECIFICATION Spec
SYMMETRY WorkerSymmetry
CHECK_DEADLOCK FALSE
INVARIANTS  SucceededIsObserved 
PROPERTIES NothingRegresses
