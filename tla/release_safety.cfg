SPECIFICATION Spec
\* One deployment and two webhooks for it, two goroutines of each kind, two faults
\* of any kind that leaves Teleport's requests alone; a second request could be made.
SYMMETRY Workers
\* Once every job is done and every timer has run out, nothing is left to do.
CHECK_DEADLOCK FALSE
CONSTANTS
    d1 = d1
    d2 = d2
    r1 = r1
    r2 = r2
    Deployment = {d1}
    Run = {r1}
    RunOf <- SameRun
    Configured = {d1}
    Handler = {h1, h2}
    Reviewer = {w1, w2}
    MaxRequests = 2
    MaxJobs = 1
    EventsPerJob = 2
    Faults = {"webhook_lost", "event_error", "review_error", "pass_error", "crash"}
    MaxFaults = 2
    None = None
INVARIANTS
    OneRequestPerDeployment
    NoConcurrentHandling
