SPECIFICATION RollbackSpec
CONSTANTS
    NodeID = {1}
    Self = 1
    ID = {1}
    MaxFaults = 2
INVARIANTS
    TypeOK
    JobRunsOnce
    SuccessIsReal
    StopsOnlyUnwanted
PROPERTIES
    ActiveMeansTask
    Reaped
