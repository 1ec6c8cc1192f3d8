SPECIFICATION EnrollmentSpec
CONSTANTS
    Hosts = {new, old}
    Owner = new
    Sockets = {1, 2, 3}
    MaxTokens = 2
    MaxCreds = 6
    MaxEvents = 2
CHECK_DEADLOCK FALSE
INVARIANTS AgentsAreCurrent
PROPERTIES TokenServesOnce OwnerArrives
