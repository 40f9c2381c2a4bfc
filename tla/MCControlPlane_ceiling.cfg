SPECIFICATION Spec
CONSTANTS
    QueueJobs = {}
    WorkflowJobs = {1}
    Recoverers = {"cron"}
    Populations <- Everything
    MaxAttempts = 1
    MaxRetries = 1
    Limit = 2
    Slots = {1}
    Faults = {}
    MaxFaults = 0
PROPERTY WorkflowRecovered
CHECK_DEADLOCK FALSE
