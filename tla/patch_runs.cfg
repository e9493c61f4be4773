\* One run of each policy, each alone: a local draft of three calls and as many for a repair, one
\* cloud request that may cost double, two source trees, a crash of the application at any point.
CONSTANTS
    LocalLimit = 3
    DraftLimit = 3
    RepairLimit = 3
    FinishReserve = 2
    DuplicateLimit = 2
    FailedCheckLimit = 2
    MaxCost = 2
    Policies = {"local_only", "local_first", "cloud_plan_local_review", "local_critic_repair"}
    MaxSource = 1
    StepLimit = 5
    Costs = {1, 2}
    PipeLimit = 2
    MaxCrashes = 1
SPECIFICATION Spec
INVARIANTS
    CompletedAsChecked
    SentIsAccounted
    HostAcceptsWorker
PROPERTIES
    SubmissionSurvives
CHECK_DEADLOCK FALSE
