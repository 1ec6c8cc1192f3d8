SPECIFICATION Spec
CONSTANTS
    Routes = {r1, r2}
    Before = {r1}
    Lease = 2
    Hold = 2
    MaxChanges = 1
    MaxFaults = 1
INVARIANTS AccessIsSafe RevokedWithinLease
PROPERTIES SentIsCurrent Converges
