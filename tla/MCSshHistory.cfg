SPECIFICATION Spec
CONSTANTS
    MaxConns = 2
    Backlog = 3
    InFlight = 2
    MaxFaults = 1
 
PROPERTIES CloseIsKept  Settles
