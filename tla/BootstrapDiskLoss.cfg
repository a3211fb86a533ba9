SPECIFICATION Spec
CONSTANTS
    Node = {1}
    None = None
    MaxFaults = 2
PROPERTIES
    NodesReturn
