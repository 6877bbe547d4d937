SPECIFICATION FairSpec
\* A JUnit file and the metadata record; channels of capacity one, so that
\* producers block; one fault of any kind, and a timeout in half of the behaviours.
\* The program ends.
CHECK_DEADLOCK FALSE
CONSTANTS
    file = file
    object = object
    junit = junit
    meta = meta
    Sink = {file, object}
    Kind = {"suite", "test", "meta"}
    Outputs <- SinksOfKind
    Uploaded = {object}
    Producer = {junit, meta}
    Work <- WorkOfProducer
    Cap = 1
    Faults = {"write_error", "close_error", "upload_breaks"}
    MaxFaults = 1
INVARIANTS
    TypeOK
    PrefixArrived
    SuccessMeansWritten
    NoSendAfterClose
PROPERTIES
    RunEnds
