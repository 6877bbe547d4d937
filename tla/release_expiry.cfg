SPECIFICATION Spec
\* An environment with a role and one without, in one run; a request may expire and
\* be made again under another name, and the watcher's stream may lose events.
\* Once every job is done and every timer has run out, nothing is left to do.
CHECK_DEADLOCK FALSE
CONSTANTS
    d1 = d1
    d2 = d2
    r1 = r1
    r2 = r2
    Deployment = {d1, d2}
    Run = {r1}
    RunOf <- SameRun
    Configured = {d1}
    Handler = {h1}
    Reviewer = {w1}
    MaxRequests = 2
    MaxJobs = 1
    EventsPerJob = 1
    Faults = {"watch_lost", "request_expired"}
    MaxFaults = 1
    None = None
INVARIANTS
    TypeOK
PROPERTIES
    ImplementsGate
