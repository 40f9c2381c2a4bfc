SPECIFICATION Spec
CONSTANTS
    QueueJobs = {1, 2}
    WorkflowJobs = {}
    Recoverers = {"cron"}
    Populations <- Everything
    MaxAttempts = 1
    MaxRetries = 0
    Limit = 1
    Slots = {1, 2}
    Faults = {"ingress_crash"}
    MaxFaults = 1
PROPERTY OverdueRecovered
CHECK_DEADLOCK FALSE
