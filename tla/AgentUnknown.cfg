SPECIFICATION RollbackSpec
CONSTANTS
    NodeID = {1}
    Self = 1
    ID = {1}
    MaxFaults = 1
PROPERTIES
    RunningNodeIsKnown
