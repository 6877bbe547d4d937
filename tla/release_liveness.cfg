SPECIFICATION FairSpec
\* One deployment that is asked for twice (a re-run keeps the run's id, and so finds
\* the request of the first time), and every fault that the service recovers from.
\* Once every job is done and every timer has run out, nothing is left to do.
CHECK_DEADLOCK FALSE
CONSTANTS
    d1 = d1
    d2 = d2
    r1 = r1
    r2 = r2
    Deployment = {d1}
    Run = {r1}
    RunOf <- SameRun
    Configured = {d1}
    Handler = {h1}
    Reviewer = {w1}
    MaxRequests = 1
    MaxJobs = 2
    EventsPerJob = 1
    Faults = {"webhook_lost", "watch_lost", "review_error", "pass_error", "crash"}
    MaxFaults = 1
    None = None
PROPERTIES
    RequestEventuallyExists
    VerdictEventuallyEnforced
