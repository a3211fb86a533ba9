SPECIFICATION SteadySpec
CONSTANTS
    Node = {1}
    ServiceName = {1, 2}
    JobName = {}
    Port = {80}
    Label <- MCLabel
    NodeTimeout = 0
    ReportedPhases = {"Failed"}
    MaxAssignments = 3
    Registrations <- ScaleRegistrations
    ServicePosts <- ScaleServices
    JobPosts <- NoJobs
INVARIANTS
    TypeOK
    CapacityRespected
    NoSurplusReplicas
    PortsExclusive
PROPERTIES
    TerminalIsFinal
