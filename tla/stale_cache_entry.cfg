SPECIFICATION FairSpec
\* One call to Teleport or GitHub fails while an event is handled.
\* Once every job is done and every timer has run out, nothing is left to do.
CHECK_DEADLOCK FALSE
CONSTANTS
    d1 = d1
    d2 = d2
    r1 = r1
    r2 = r2
    Deployment = {d1}
    Run = {r1}
    RunOf <- SameRun
    Configured = {d1}
    Handler = {h1}
    Reviewer = {w1}
    MaxRequests = 1
    MaxJobs = 1
    EventsPerJob = 1
    Faults = {"event_error"}
    MaxFaults = 1
    None = None
PROPERTIES
    RequestEventuallyExists
