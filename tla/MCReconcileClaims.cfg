CONSTANTS
    Workers = {w1, w2}
    v = v
    c = c
    s = s
    Keys <- MCKeys
    Volumes <- MCVolumes
    Servers <- MCServers
    NoServer = none
    Destroy = destroy
    NoWorker = nobody
    MaxActiveClaims = 1
    Lease = 2
    Renewal = 1
    Skew = 1
SPECIFICATION FairSpec
INVARIANTS DestroyExclusive ServerCapacity HeldIsOwned
PROPERTIES ActsAsLock ClaimChangesHands DeadClaimsLapse
