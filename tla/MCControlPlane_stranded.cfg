\* One queue job, one fault: the request's late patch strands the job of a
\* consumer that died (see Stranded).  TLC finds NoJobStranded violated.
SPECIFICATION Spec
CONSTANTS
    QueueJobs = {1}
    WorkflowJobs = {2}
    Recoverers = {"cron", "operator"}
    Populations <- EitherLane
    MaxAttempts = 1
    MaxRetries = 1
    Limit = 2
    Slots = {1, 2}
    Faults = {"ingress_crash", "send", "patch", "load", "consumer_crash", "duplicate", "dlq", "recovery_patch", "recovery_send", "recovery_crash", "status_check", "instance"}
    MaxFaults = 1
PROPERTY NoJobStranded
CHECK_DEADLOCK FALSE
