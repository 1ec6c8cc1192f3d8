CONSTANTS
    p1 = p1
    p2 = p2
    pair = pair
    None = None
    Processes <- MCProcesses
    Pairs <- MCPairs
    Grace = 2
    MaxChanges = 5
    MaxFaults = 1
SPECIFICATION FairSpec
 
PROPERTIES PurgeIsDue GraceIsKept UseIsEnded Settles
