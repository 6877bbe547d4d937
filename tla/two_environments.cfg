SPECIFICATION FairSpec
\* Two environments of one run, and one lost webhook.
\* Once every job is done and every timer has run out, nothing is left to do.
CHECK_DEADLOCK FALSE
CONSTANTS
    d1 = d1
    d2 = d2
    r1 = r1
    r2 = r2
    Deployment = {d1, d2}
    Run = {r1}
    RunOf <- SameRun
    Configured = {d1, d2}
    Handler = {h1}
    Reviewer = {w1}
    MaxRequests = 2
    MaxJobs = 2
    EventsPerJob = 1
    Faults = {"webhook_lost"}
    MaxFaults = 1
    None = None
PROPERTIES
    RequestEventuallyExists
