SPECIFICATION FairSpec
CONSTANTS
    Node = {1}
    ServiceName = {1}
    JobName = {}
    Port = {80}
    Label <- MCLabel
    NodeTimeout = 1
    ReportedPhases = {}
    MaxAssignments = 2
    Registrations <- EdgeRegistrations
    ServicePosts <- EdgeServices
    JobPosts <- NoJobs
PROPERTIES
    DeadNodesDrain
    ServiceConverges
    LostAfterSilence
    ImplementsLifecycle
