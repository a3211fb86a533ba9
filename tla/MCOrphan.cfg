SPECIFICATION SteadyFairSpec
CONSTANTS
    Node = {1}
    ServiceName = {1}
    JobName = {}
    Port = {80}
    Label <- MCLabel
    NodeTimeout = 1
    ReportedPhases = {"Failed"}
    MaxAssignments = 2
    Registrations <- PortRegistrations
    ServicePosts <- OneReplica
    JobPosts <- NoJobs
PROPERTIES
    DeletedServiceDrains
