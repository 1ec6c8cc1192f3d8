SPECIFICATION Spec
CONSTANTS
    Servers = {s1, s2}
    Kinds = {"shared", "local", "block"}
    MaxSize = 2
    MaxEvents = 2
CHECK_DEADLOCK FALSE
PROPERTIES ShrinkSettles 
