----------------------------- MODULE Dispatcher -----------------------------
(***************************************************************************)
(* tools/ci-normalize: producers, the dispatcher, and its sinks            *)
(*                                                                         *)
(* Each JUnit file has a producer (a goroutine of the error group in run), *)
(* and so has the metadata record.  The dispatcher sends every record to   *)
(* the sinks of its kind.  A sink has a buffered writer: a channel, and a  *)
(* goroutine that takes records from it and writes them to a file or, by   *)
(* way of a pipe, to an upload to S3.  When all producers are done, run    *)
(* closes the dispatcher and returns what Close says.                      *)
(***************************************************************************)
EXTENDS Naturals, Sequences

CONSTANTS
    Sink,        \* the keys of the sinks
    Kind,        \* suite, test case, meta
    Outputs,     \* Outputs[k]: the sinks of kind k, in order
    Uploaded,    \* the sinks that are S3 objects
    Producer,
    Work,        \* Work[p]: the kinds of the records that p produces, in order
    Cap,         \* capacity of a writer's channel (256)
    Faults,      \* the kinds of fault that may happen
    MaxFaults    \* bound on how many faults happen

ASSUME DispatcherAssumption ==
    /\ Outputs \in [Kind -> Seq(Sink) \ {<<>>}]
    /\ Uploaded \subseteq Sink
    /\ Work \in [Producer -> Seq(Kind)]
    /\ Cap \in Nat \ {0}
    /\ Faults \subseteq {"write_error", "close_error", "upload_breaks"}
    /\ MaxFaults \in Nat

VARIABLES
    timeout,     \* whether --timeout was given
    expired,     \* whether the context of run is done
    producers,   \* producers[p]: program counter, next record, sinks left for it
    queue,       \* queue[s]: the channel of the writer of s
    closed,      \* closed[s]: whether that channel is closed
    writers,     \* writers[s]: the goroutine, the record in its hands, its error
    written,     \* written[s]: the records that reached the file or the upload
    medium,      \* medium[s]: "open", "broken", "saved" or "lost"
    closers,     \* closers[s]: the goroutine of Close for s
    main,        \* what run does
    result,      \* what run returns
    faults

vars == <<timeout, expired, producers, queue, closed, writers, written, medium,
          closers, main, result, faults>>

Rec(p, i) == [producer |-> p, number |-> i]
ProducerAt(pc, i, left, failed) == [pc |-> pc, next |-> i, left |-> left, failed |-> failed]
WriterAt(pc, hand, err) == [pc |-> pc, hand |-> hand, err |-> err]

(* dispatch.New makes one writer per sink key, whatever number of kinds    *)
(* share it.                                                               *)
Init ==
    /\ timeout \in BOOLEAN
    /\ expired = FALSE
    /\ producers = [p \in Producer |-> ProducerAt("next", 1, <<>>, FALSE)]
    /\ queue = [s \in Sink |-> <<>>]
    /\ closed = [s \in Sink |-> FALSE]
    /\ writers = [s \in Sink |-> WriterAt("select", <<>>, "nil")]
    /\ written = [s \in Sink |-> <<>>]
    /\ medium = [s \in Sink |-> "open"]
    /\ closers = [s \in Sink |-> "none"]
    /\ main = "wait"
    /\ result = "none"
    /\ faults = 0

Fault(f) ==
    /\ f \in Faults
    /\ faults < MaxFaults
    /\ faults' = faults + 1

-----------------------------------------------------------------------------
(* Producers: Produce, WriteSuite and its kin, writeAll.                   *)

(* writeAll looks at the context first; a failed write ends the producer.  *)
BeginRecord(p) ==
    LET i == producers[p].next IN
    /\ producers[p].pc = "next"
    /\ i <= Len(Work[p])
    /\ producers' = [producers EXCEPT ![p] =
          IF expired THEN ProducerAt("failed", i, <<>>, FALSE)
          ELSE ProducerAt("write", i, Outputs[Work[p][i]], FALSE)]
    /\ UNCHANGED <<timeout, expired, queue, closed, writers, written, medium,
                   closers, main, result, faults>>

(* bufferedWriter.Write selects among three cases; several may be ready.   *)
(* A record that fails at one sink still goes to the sinks after it.       *)
WriteToSink(p) ==
    LET i == producers[p].next
        s == Head(producers[p].left)
        Answer(failed) ==
            producers' = [producers EXCEPT ![p] =
                ProducerAt("write", i, Tail(@.left), @.failed \/ failed)]
    IN  /\ producers[p].pc = "write"
        /\ producers[p].left # <<>>
        /\ \/ /\ expired
              /\ Answer(TRUE)
              /\ UNCHANGED queue
           \/ /\ writers[s].pc = "done"
              /\ Answer(writers[s].err # "nil")
              /\ UNCHANGED queue
           \/ /\ ~closed[s]
              /\ Len(queue[s]) < Cap
              /\ queue' = [queue EXCEPT ![s] = Append(@, Rec(p, i))]
              /\ Answer(FALSE)
        /\ UNCHANGED <<timeout, expired, closed, writers, written, medium, closers,
                       main, result, faults>>

EndRecord(p) ==
    /\ producers[p].pc = "write"
    /\ producers[p].left = <<>>
    /\ producers' = [producers EXCEPT ![p] =
          IF @.failed THEN ProducerAt("failed", @.next, <<>>, TRUE)
          ELSE ProducerAt("next", @.next + 1, <<>>, FALSE)]
    /\ UNCHANGED <<timeout, expired, queue, closed, writers, written, medium,
                   closers, main, result, faults>>

EndProducer(p) ==
    /\ producers[p].pc = "next"
    /\ producers[p].next > Len(Work[p])
    /\ producers' = [producers EXCEPT ![p] = ProducerAt("done", @.next, <<>>, FALSE)]
    /\ UNCHANGED <<timeout, expired, queue, closed, writers, written, medium,
                   closers, main, result, faults>>

-----------------------------------------------------------------------------
(* The goroutine of a buffered writer.                                     *)

TakeRecordDroppingRest(s) ==
    /\ writers[s].pc = "select"
    /\ \/ /\ expired
          /\ writers' = [writers EXCEPT ![s] = WriterAt("close", <<>>, "context")]
          /\ UNCHANGED queue
       \/ /\ ~closed[s] /\ queue[s] # <<>>
          /\ writers' = [writers EXCEPT ![s] = WriterAt("write", <<Head(queue[s])>>, "nil")]
          /\ queue' = [queue EXCEPT ![s] = Tail(@)]
       \/ /\ closed[s]
          /\ writers' = [writers EXCEPT ![s] = WriterAt("close", <<>>, "nil")]
          /\ UNCHANGED queue
    /\ UNCHANGED <<timeout, expired, producers, closed, written, medium, closers,
                   main, result, faults>>

(* A closed channel still yields what it holds. *)
TakeRecord(s) ==
    /\ writers[s].pc = "select"
    /\ \/ /\ expired
          /\ writers' = [writers EXCEPT ![s] = WriterAt("close", <<>>, "context")]
          /\ UNCHANGED queue
       \/ /\ queue[s] # <<>>
          /\ writers' = [writers EXCEPT ![s] = WriterAt("write", <<Head(queue[s])>>, "nil")]
          /\ queue' = [queue EXCEPT ![s] = Tail(@)]
       \/ /\ queue[s] = <<>> /\ closed[s]
          /\ writers' = [writers EXCEPT ![s] = WriterAt("close", <<>>, "nil")]
          /\ UNCHANGED queue
    /\ UNCHANGED <<timeout, expired, producers, closed, written, medium, closers,
                   main, result, faults>>

(* w.Write.  A write to the pipe returns once the upload has read it, and  *)
(* blocks for ever when the upload has given up: nobody closes the pipe's  *)
(* reading end.                                                            *)
WriteRecord(s) ==
    /\ writers[s].pc = "write"
    /\ medium[s] = "open"
    /\ written' = [written EXCEPT ![s] = @ \o writers[s].hand]
    /\ writers' = [writers EXCEPT ![s] = WriterAt("select", <<>>, "nil")]
    /\ UNCHANGED <<timeout, expired, producers, queue, closed, medium, closers,
                   main, result, faults>>

WriteFailsGoesOn(s) ==
    /\ writers[s].pc = "write"
    /\ s \notin Uploaded
    /\ Fault("write_error")
    /\ writers' = [writers EXCEPT ![s] = WriterAt("select", <<>>, "write")]
    /\ UNCHANGED <<timeout, expired, producers, queue, closed, written, medium, closers,
                   main, result>>

(* Encoding or writing fails: the goroutine keeps the error and ends.      *)
WriteFails(s) ==
    /\ writers[s].pc = "write"
    /\ s \notin Uploaded
    /\ Fault("write_error")
    /\ writers' = [writers EXCEPT ![s] = WriterAt("close", <<>>, "write")]
    /\ UNCHANGED <<timeout, expired, producers, queue, closed, written, medium, closers,
                   main, result>>

(* The deferred w.Close, whose error is ignored, and then close(bw.done).  *)
(* For an upload, Close waits for its end.                                 *)
CloseSink(s) ==
    /\ writers[s].pc = "close"
    /\ writers' = [writers EXCEPT ![s] = WriterAt("done", <<>>, @.err)]
    /\ \/ /\ medium' = [medium EXCEPT ![s] = IF @ = "open" THEN "saved" ELSE "lost"]
          /\ UNCHANGED faults
       \/ /\ Fault("close_error")
          /\ medium' = [medium EXCEPT ![s] = "lost"]
    /\ UNCHANGED <<timeout, expired, producers, queue, closed, written, closers,
                   main, result>>

(* The upload fails in the middle, by itself or because its context ends.  *)
UploadBreaks(s) ==
    /\ s \in Uploaded
    /\ medium[s] = "open"
    /\ \/ Fault("upload_breaks")
       \/ expired /\ UNCHANGED faults
    /\ medium' = [medium EXCEPT ![s] = "broken"]
    /\ UNCHANGED <<timeout, expired, producers, queue, closed, writers, written,
                   closers, main, result>>

Expire ==
    /\ timeout /\ ~expired
    /\ main # "returned"
    /\ expired' = TRUE
    /\ UNCHANGED <<timeout, producers, queue, closed, writers, written, medium,
                   closers, main, result, faults>>

-----------------------------------------------------------------------------
(* run and Dispatcher.Close.                                               *)

SomeProducerFailed ==
    \/ \A p \in Producer : producers[p].pc \in {"done", "failed"}
    \/ \E p \in Producer : producers[p].pc = "failed"

AllProducersEnded == \A p \in Producer : producers[p].pc \in {"done", "failed"}

(* eg.Wait returns when all producers have: with an error when one failed, *)
(* and then Close is only called by the deferred function, for cleaning up.*)
WaitEnds ==
    /\ main = "wait"
    /\ AllProducersEnded
    /\ main' = "close"
    /\ result' = IF \E p \in Producer : producers[p].pc = "failed" THEN "error" ELSE result
    /\ closers' = [s \in Sink |-> "start"]
    /\ UNCHANGED <<timeout, expired, producers, queue, closed, writers, written,
                   medium, faults>>

(* bufferedWriter.Close closes the channel ...                             *)
CloseChannel(s) ==
    /\ closers[s] = "start"
    /\ closed' = [closed EXCEPT ![s] = TRUE]
    /\ closers' = [closers EXCEPT ![s] = "wait"]
    /\ UNCHANGED <<timeout, expired, producers, queue, writers, written, medium,
                   main, result, faults>>

CloserAnswersRaw(s) ==
    /\ closers[s] = "wait"
    /\ \/ writers[s].pc = "done" /\ closers' = [closers EXCEPT ![s] = writers[s].err]
       \/ expired /\ closers' = [closers EXCEPT ![s] = "error"]
    /\ UNCHANGED <<timeout, expired, producers, queue, closed, writers, written,
                   medium, main, result, faults>>

CloserIgnoresContext(s) ==
    /\ closers[s] = "wait"
    /\ writers[s].pc = "done"
    /\ closers' = [closers EXCEPT ![s] = IF writers[s].err = "nil" THEN "ok" ELSE "error"]
    /\ UNCHANGED <<timeout, expired, producers, queue, closed, writers, written,
                   medium, main, result, faults>>

(* ... and waits for the goroutine or for the context to be done.          *)
CloserAnswers(s) ==
    /\ closers[s] = "wait"
    /\ \/ /\ writers[s].pc = "done"
          /\ closers' = [closers EXCEPT ![s] = IF writers[s].err = "nil" THEN "ok" ELSE "error"]
       \/ /\ expired
          /\ closers' = [closers EXCEPT ![s] = "error"]
    /\ UNCHANGED <<timeout, expired, producers, queue, closed, writers, written,
                   medium, main, result, faults>>

Return ==
    /\ main = "close"
    /\ \A s \in Sink : closers[s] \in {"ok", "error"}
    /\ main' = "returned"
    /\ result' = IF result = "error" \/ \E s \in Sink : closers[s] = "error"
                 THEN "error" ELSE "ok"
    /\ UNCHANGED <<timeout, expired, producers, queue, closed, writers, written,
                   medium, closers, faults>>

-----------------------------------------------------------------------------
ProducerStep(p) == BeginRecord(p) \/ WriteToSink(p) \/ EndRecord(p) \/ EndProducer(p)

WriterStep(s) == TakeRecord(s) \/ WriteRecord(s) \/ CloseSink(s)

CloserStep(s) == CloseChannel(s) \/ CloserAnswers(s)

Next ==
    \/ \E p \in Producer : ProducerStep(p)
    \/ \E s \in Sink :
          WriterStep(s) \/ WriteFails(s) \/ UploadBreaks(s) \/ CloserStep(s)
    \/ Expire \/ WaitEnds \/ Return

Spec == Init /\ [][Next]_vars

(* Goroutines run; a producer blocked on a full channel gets its turn; a   *)
(* timeout that was given ends.                                            *)
Fairness ==
    /\ \A p \in Producer : SF_vars(ProducerStep(p))
    /\ \A s \in Sink : WF_vars(WriterStep(s)) /\ WF_vars(CloserStep(s))
    /\ WF_vars(Expire)
    /\ WF_vars(WaitEnds \/ Return)

FairSpec == Spec /\ Fairness

-----------------------------------------------------------------------------
Record == [producer : Producer, number : Nat \ {0}]

ProducerRecord == [pc : {"next", "write", "done", "failed"}, next : Nat \ {0},
                   left : Seq(Sink), failed : BOOLEAN]

WriterRecord == [pc : {"select", "write", "close", "done"}, hand : Seq(Record),
                 err : {"nil", "context", "write"}]

(* Types of the program's state. *)
TypeOK ==
    /\ timeout \in BOOLEAN /\ expired \in BOOLEAN
    /\ producers \in [Producer -> ProducerRecord]
    /\ queue \in [Sink -> Seq(Record)]
    /\ closed \in [Sink -> BOOLEAN]
    /\ writers \in [Sink -> WriterRecord]
    /\ written \in [Sink -> Seq(Record)]
    /\ medium \in [Sink -> {"open", "broken", "saved", "lost"}]
    /\ closers \in [Sink -> {"none", "start", "wait", "ok", "error"}]
    /\ main \in {"wait", "close", "returned"}
    /\ result \in {"none", "ok", "error"}
    /\ faults \in Nat

(* The records of p that belong in sink s, and those that are there.       *)
BelongsIn(s, p, i) == \E j \in DOMAIN Outputs[Work[p][i]] : Outputs[Work[p][i]][j] = s

Due(s, p) == {i \in DOMAIN Work[p] : BelongsIn(s, p, i)}

Numbers(q, p) == {q[j].number : j \in {j \in DOMAIN q : q[j].producer = p}}

Arrived(s, p) == Numbers(written[s], p)

(* Records of one producer come in the order it produces them, each once.  *)
InOrder(q) ==
    \A j, k \in DOMAIN q :
        j < k /\ q[j].producer = q[k].producer => q[j].number < q[k].number

(* Whatever fails and whenever the timeout strikes, a sink holds, of each  *)
(* producer, the records due to it from the first one on, in order, with   *)
(* none missing in between and none twice.                                 *)
PrefixArrived ==
    \A s \in Sink, p \in Producer :
        /\ InOrder(written[s])
        /\ Arrived(s, p) \subseteq Due(s, p)
        /\ \A k \in Arrived(s, p), i \in Due(s, p) : i < k => i \in Arrived(s, p)

(* "flush and check for errors": when run reports success, every record of *)
(* every producer has been written to all its sinks, though nobody waits   *)
(* for a record after handing it to a channel.                             *)
SuccessMeansWritten ==
    result = "ok" => \A s \in Sink, p \in Producer : Arrived(s, p) = Due(s, p)

(* The same comment, taken to mean that the data has been saved: run does  *)
(* not report success when a file could not be closed or an upload failed. *)
SuccessMeansSaved == result = "ok" => \A s \in Sink : medium[s] = "saved"

(* Nobody sends on a closed channel, which would panic: the writers close  *)
(* theirs while no producer is between two sinks of a record.              *)
NoSendAfterClose ==
    \A p \in Producer : producers[p].pc = "write" =>
        \A j \in DOMAIN producers[p].left : ~closed[producers[p].left[j]]

(* The program ends: producers, writers and Close wait for each other, but *)
(* never in a circle, except when an upload breaks and there is no timeout *)
(* (then the writer is stuck in the pipe, and everybody else with it).     *)
RunEnds == <>(main = "returned" \/ (~timeout /\ \E s \in Uploaded : medium[s] = "broken"))

=============================================================================
