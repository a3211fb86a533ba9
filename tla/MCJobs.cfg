SPECIFICATION SteadyFairSpec
CONSTANTS
    Node = {1, 2}
    ServiceName = {}
    JobName = {1}
    Port = {80}
    Label <- MCLabel
    NodeTimeout = 1
    ReportedPhases = {"Succeeded", "Failed"}
    MaxAssignments = 4
    Registrations <- JobRegistrations
    ServicePosts <- NoServices
    JobPosts <- Tasks
INVARIANTS
    OneAttemptPerJob
    RetriesBounded
PROPERTIES
    JobProgresses
