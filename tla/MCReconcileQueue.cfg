CONSTANTS
    i1 = i1
    i2 = i2
    r1 = r1
    r2 = r2
    s1 = s1
    Intents <- MCIntents
    Resources <- MCResources
    Hosts <- MCHosts
    ResourceOf <- MCResourceOf
    ServerOf <- MCServerOf
    MaxChains = 2
    MaxPerServer = 1
    PageSize = 1
    MaxPages = 1
    MaxFailures = 1
SPECIFICATION FairQueueSpec
 
PROPERTIES  ShutdownCompletes
CHECK_DEADLOCK FALSE
