SPECIFICATION Spec
\* No fault except that a goroutine may take longer than the ttl of its entry.
SYMMETRY Workers
\* Once every job is done and every timer has run out, nothing is left to do.
CHECK_DEADLOCK FALSE
CONSTANTS
    d1 = d1
    d2 = d2
    r1 = r1
    r2 = r2
    Deployment = {d1}
    Run = {r1}
    RunOf <- SameRun
    Configured = {d1}
    Handler = {h1, h2}
    Reviewer = {w1}
    MaxRequests = 2
    MaxJobs = 1
    EventsPerJob = 2
    Faults = {"slow_handler"}
    MaxFaults = 0
    None = None
INVARIANTS
    OneRequestPerDeployment
