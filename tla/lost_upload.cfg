SPECIFICATION Spec
\* An upload to S3 that fails when it is completed.  The program ends.
CHECK_DEADLOCK FALSE
CONSTANTS
    file = file
    object = object
    junit = junit
    meta = meta
    Sink = {file, object}
    Kind = {"suite", "test", "meta"}
    Outputs <- SinksOfKind
    Uploaded = {object}
    Producer = {junit, meta}
    Work <- WorkOfProducer
    Cap = 1
    Faults = {"close_error"}
    MaxFaults = 1
INVARIANTS
    SuccessMeansSaved
