SPECIFICATION Spec
CONSTANTS
    Missing = Missing
    Torn = Torn
    Keep = 1
    MaxClock = 2
    MaxCommits = 2
    MaxFaults = 3
INVARIANTS
    TypeOK
PROPERTIES
    ImplementsSnapshots
    KeepsNewest
    StateReturns
