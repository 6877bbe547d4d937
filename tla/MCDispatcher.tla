---------------------------- MODULE MCDispatcher ----------------------------
(* An instance of Dispatcher for TLC: a file and an S3 object.  Suites and *)
(* metadata go to both, in different orders, test cases to the file.       *)
EXTENDS Dispatcher

CONSTANTS file, object, junit, meta

SinksOfKind ==
    [k \in Kind |-> CASE k = "suite" -> <<file, object>>
                      [] k = "test"  -> <<file>>
                      [] k = "meta"  -> <<object, file>>]

WorkOfProducer ==
    [p \in Producer |-> CASE p = meta  -> <<"meta">>
                          [] p = junit -> <<"suite", "test">>]

=============================================================================
