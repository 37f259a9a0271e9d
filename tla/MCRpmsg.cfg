CONSTANTS
    RingSize = 2
    IndexLimit = 4
    Kinds = {"echo", "other"}
    HaveLcd = TRUE
    MaxMessage = 3
    MaxSession = 2
SPECIFICATION FairSpec
CHECK_DEADLOCK FALSE
PROPERTIES  Served
