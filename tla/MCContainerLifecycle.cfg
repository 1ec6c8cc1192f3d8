CONSTANTS
    MaxPending = 2
    MaxRevision = 3
    MaxFaults = 1
    Forms = {TRUE, FALSE}
SPECIFICATION FairSpec
INVARIANTS AddressIsSafe
PROPERTIES ScanSparesLive 
