SPECIFICATION Spec
CONSTANTS
    Contents <- MCContents
    Bad = {"x"}
    MaxFaults = 1
INVARIANTS
    NicsAreSafe
PROPERTIES
    RulesReach
    
