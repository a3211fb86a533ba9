SPECIFICATION Spec
CONSTANTS
    Node = {1}
    None = None
    MaxFaults = 4
INVARIANTS
    TypeOK
    ServesWhatItStores
    CredentialsAgree
PROPERTIES
    CANeverChanges
    ControllerBoots
    NodesJoin
