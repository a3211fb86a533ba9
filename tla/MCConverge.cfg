SPECIFICATION SteadyFairSpec
CONSTANTS
    Node = {1, 2}
    ServiceName = {1}
    JobName = {}
    Port = {80}
    Label <- MCLabel
    NodeTimeout = 1
    ReportedPhases = {"Failed"}
    MaxAssignments = 3
    Registrations <- PortRegistrations
    ServicePosts <- OneReplica
    JobPosts <- NoJobs
PROPERTIES
    ServiceConverges
    StatusCatchesUp
