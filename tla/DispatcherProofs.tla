-------------------------- MODULE DispatcherProofs --------------------------
(***************************************************************************)
(* Proofs about Dispatcher, for any number of producers, records and sinks,*)
(* any capacity, and any number of faults of any kind.                     *)
(***************************************************************************)
EXTENDS Dispatcher, SequenceTheorems, TLAPS

-----------------------------------------------------------------------------
(* Types. *)

(* The records that the actions put together. *)
LEMMA RecordsTyped ==
    /\ \A pc \in {"next", "write", "done", "failed"}, i \in Nat \ {0},
          left \in Seq(Sink), failed \in BOOLEAN :
          ProducerAt(pc, i, left, failed) \in ProducerRecord
    /\ \A pc \in {"select", "write", "close", "done"}, hand \in Seq(Record),
          err \in {"nil", "context", "write"} :
          WriterAt(pc, hand, err) \in WriterRecord
    /\ \A p \in Producer, i \in Nat \ {0} : Rec(p, i) \in Record
    /\ <<>> \in Seq(Sink) /\ <<>> \in Seq(Record)
<1>1. \A pc \in {"next", "write", "done", "failed"}, i \in Nat \ {0},
          left \in Seq(Sink), failed \in BOOLEAN :
          ProducerAt(pc, i, left, failed) \in ProducerRecord
  BY DEF ProducerAt, ProducerRecord
<1>2. \A pc \in {"select", "write", "close", "done"}, hand \in Seq(Record),
          err \in {"nil", "context", "write"} :
          WriterAt(pc, hand, err) \in WriterRecord
  BY DEF WriterAt, WriterRecord
<1>3. \A p \in Producer, i \in Nat \ {0} : Rec(p, i) \in Record
  BY DEF Rec, Record
<1>4. QED
  BY <1>1, <1>2, <1>3, EmptySeq

LEMMA InitTyped == Init => TypeOK
<1> SUFFICES ASSUME Init
             PROVE  TypeOK
  OBVIOUS
<1>1. producers \in [Producer -> ProducerRecord]
  <2>1. ProducerAt("next", 1, <<>>, FALSE) \in ProducerRecord
    BY EmptySeq DEF ProducerAt, ProducerRecord
  <2>2. QED
    BY <2>1 DEF Init
<1>2. writers \in [Sink -> WriterRecord]
  <2>1. WriterAt("select", <<>>, "nil") \in WriterRecord
    BY RecordsTyped
  <2>2. QED
    BY <2>1 DEF Init
<1>3. QED
  BY <1>1, <1>2, RecordsTyped DEF Init, TypeOK

LEMMA ProducerTyped ==
    ASSUME TypeOK, NEW p \in Producer, ProducerStep(p)
    PROVE  TypeOK'
<1> DEFINE i == producers[p].next
           left == producers[p].left
           s == Head(left)
<1>1. /\ i \in Nat \ {0} /\ left \in Seq(Sink) /\ producers[p].failed \in BOOLEAN
  BY DEF TypeOK, ProducerRecord
<1>2. CASE BeginRecord(p)
  <2>1. i \in 1..Len(Work[p]) => Outputs[Work[p][i]] \in Seq(Sink)
    <3>1. Work[p] \in Seq(Kind)
      BY DispatcherAssumption
    <3>2. i \in 1..Len(Work[p]) => Work[p][i] \in Kind
      BY <3>1, ElementOfSeq
    <3>3. QED
      BY <3>2, DispatcherAssumption
  <2>2. i \in 1..Len(Work[p])
    <3>1. Len(Work[p]) \in Nat
      BY DispatcherAssumption, LenProperties
    <3>2. QED
      BY <3>1, <1>1, <1>2 DEF BeginRecord
  <2> DEFINE after == IF expired THEN ProducerAt("failed", i, <<>>, FALSE)
                      ELSE ProducerAt("write", i, Outputs[Work[p][i]], FALSE)
  <2>3. after \in ProducerRecord
    BY <1>1, <2>1, <2>2, RecordsTyped
  <2>4. producers' = [producers EXCEPT ![p] = after]
    BY <1>2 DEF BeginRecord
  <2> HIDE DEF after
  <2>5. QED
    BY <1>2, <2>3, <2>4 DEF BeginRecord, TypeOK
<1>3. CASE WriteToSink(p)
  <2> DEFINE after(b) == ProducerAt("write", i, Tail(left), producers[p].failed \/ b)
  <2>1. Tail(left) \in Seq(Sink) /\ s \in Sink
    BY <1>1, <1>3, HeadTailProperties DEF WriteToSink
  <2>2. /\ after(TRUE) \in ProducerRecord
        /\ after(writers[s].err # "nil") \in ProducerRecord
        /\ after(FALSE) \in ProducerRecord
    BY <1>1, <2>1, RecordsTyped
  <2>3. \/ producers' = [producers EXCEPT ![p] = after(TRUE)]
        \/ producers' = [producers EXCEPT ![p] = after(writers[s].err # "nil")]
        \/ producers' = [producers EXCEPT ![p] = after(FALSE)]
    BY <1>3 DEF WriteToSink
  <2>4. queue' = queue \/ queue' = [queue EXCEPT ![s] = Append(@, Rec(p, i))]
    BY <1>3 DEF WriteToSink
  <2>5. queue' \in [Sink -> Seq(Record)]
    <3>1. Append(queue[s], Rec(p, i)) \in Seq(Record)
      <4> HIDE DEF Record
      <4>1. queue[s] \in Seq(Record) /\ Rec(p, i) \in Record
        BY <1>1, <2>1, RecordsTyped DEF TypeOK
      <4>2. QED
        BY <4>1, AppendProperties
    <3>2. QED
      BY <2>4, <3>1 DEF TypeOK
  <2> HIDE DEF after
  <2>6. producers' \in [Producer -> ProducerRecord]
    BY <2>2, <2>3 DEF TypeOK
  <2>7. QED
    BY <1>3, <2>5, <2>6 DEF WriteToSink, TypeOK
<1>4. CASE EndRecord(p)
  <2> DEFINE after == IF producers[p].failed THEN ProducerAt("failed", i, <<>>, TRUE)
                      ELSE ProducerAt("next", i + 1, <<>>, FALSE)
  <2>1. after \in ProducerRecord
    BY <1>1, EmptySeq DEF ProducerAt, ProducerRecord
  <2>2. producers' = [producers EXCEPT ![p] = after]
    BY <1>4 DEF EndRecord, TypeOK
  <2> HIDE DEF after
  <2>3. QED
    BY <1>4, <2>1, <2>2 DEF EndRecord, TypeOK
<1>5. CASE EndProducer(p)
  BY <1>1, <1>5, RecordsTyped DEF EndProducer, TypeOK
<1>6. QED
  BY <1>2, <1>3, <1>4, <1>5 DEF ProducerStep

LEMMA WriterTyped ==
    ASSUME TypeOK, NEW s \in Sink, WriterStep(s) \/ WriteFails(s)
    PROVE  TypeOK'
<1>1. /\ queue[s] \in Seq(Record) /\ written[s] \in Seq(Record)
      /\ writers[s].hand \in Seq(Record)
      /\ writers[s].err \in {"nil", "context", "write"}
  BY DEF TypeOK, WriterRecord
<1> HIDE DEF Record
<1>2. /\ WriterAt("close", <<>>, "context") \in WriterRecord
      /\ WriterAt("close", <<>>, "nil") \in WriterRecord
      /\ WriterAt("close", <<>>, "write") \in WriterRecord
      /\ WriterAt("select", <<>>, "nil") \in WriterRecord
      /\ WriterAt("done", <<>>, writers[s].err) \in WriterRecord
  BY <1>1, RecordsTyped
<1>3. ASSUME queue[s] # <<>>
      PROVE  /\ Tail(queue[s]) \in Seq(Record)
             /\ WriterAt("write", <<Head(queue[s])>>, "nil") \in WriterRecord
  <2>1. Head(queue[s]) \in Record /\ Tail(queue[s]) \in Seq(Record)
    BY <1>1, <1>3, HeadTailProperties
  <2>2. <<Head(queue[s])>> \in Seq(Record)
    BY <2>1
  <2>3. QED
    BY <2>1, <2>2, RecordsTyped
<1>4. CASE TakeRecord(s)
  <2>1. \/ writers' = [writers EXCEPT ![s] = WriterAt("close", <<>>, "context")] /\ queue' = queue
        \/ writers' = [writers EXCEPT ![s] = WriterAt("close", <<>>, "nil")] /\ queue' = queue
        \/ /\ queue[s] # <<>>
           /\ writers' = [writers EXCEPT ![s] = WriterAt("write", <<Head(queue[s])>>, "nil")]
           /\ queue' = [queue EXCEPT ![s] = Tail(queue[s])]
    BY <1>4 DEF TakeRecord
  <2>2. writers' \in [Sink -> WriterRecord]
    <3>1. \E w \in WriterRecord : writers' = [writers EXCEPT ![s] = w]
      BY <1>2, <1>3, <2>1
    <3>2. QED
      BY <3>1 DEF TypeOK
  <2>3. queue' \in [Sink -> Seq(Record)]
    <3>1. queue' = queue \/ \E q \in Seq(Record) : queue' = [queue EXCEPT ![s] = q]
      BY <1>3, <2>1
    <3>2. QED
      BY <3>1 DEF TypeOK
  <2>4. QED
    BY <1>4, <2>2, <2>3 DEF TakeRecord, TypeOK
<1>5. CASE WriteRecord(s)
  <2>1. written[s] \o writers[s].hand \in Seq(Record)
    BY <1>1, ConcatProperties
  <2>2. QED
    BY <1>2, <1>5, <2>1 DEF WriteRecord, TypeOK
<1>6. CASE WriteFails(s)
  BY <1>2, <1>6 DEF WriteFails, Fault, TypeOK
<1>7. CASE CloseSink(s)
  <2>1. writers' \in [Sink -> WriterRecord]
    BY <1>2, <1>7 DEF CloseSink, TypeOK
  <2>2. medium' \in [Sink -> {"open", "broken", "saved", "lost"}]
    <3>1. \E m \in {"saved", "lost"} : medium' = [medium EXCEPT ![s] = m]
      BY <1>7 DEF CloseSink
    <3>2. QED
      BY <3>1 DEF TypeOK
  <2>3. faults' \in Nat
    BY <1>7 DEF CloseSink, Fault, TypeOK
  <2>4. QED
    BY <1>7, <2>1, <2>2, <2>3 DEF CloseSink, TypeOK
<1>8. QED
  BY <1>4, <1>5, <1>6, <1>7 DEF WriterStep

LEMMA TypeStep == TypeOK /\ [Next]_vars => TypeOK'
<1> SUFFICES ASSUME TypeOK, [Next]_vars
             PROVE  TypeOK'
  OBVIOUS
<1>1. ASSUME NEW p \in Producer, ProducerStep(p)
      PROVE  TypeOK'
  BY <1>1, ProducerTyped
<1>2. ASSUME NEW s \in Sink, WriterStep(s) \/ WriteFails(s)
      PROVE  TypeOK'
  BY <1>2, WriterTyped
<1>3. ASSUME NEW s \in Sink, UploadBreaks(s)
      PROVE  TypeOK'
  BY <1>3 DEF UploadBreaks, Fault, TypeOK
<1>4. ASSUME NEW s \in Sink, CloserStep(s)
      PROVE  TypeOK'
  BY <1>4 DEF CloserStep, CloseChannel, CloserAnswers, TypeOK
<1>5. CASE Expire
  BY <1>5 DEF Expire, TypeOK
<1>6. CASE WaitEnds
  BY <1>6 DEF WaitEnds, TypeOK
<1>7. CASE Return
  BY <1>7 DEF Return, TypeOK
<1>8. CASE UNCHANGED vars
  BY <1>8 DEF vars, TypeOK
<1>9. QED
  BY <1>1, <1>2, <1>3, <1>4, <1>5, <1>6, <1>7, <1>8 DEF Next

(* Every variable keeps its type; in particular a closer only ever answers *)
(* once, and a writer's error is one that run can report.                  *)
THEOREM TypeCorrect == Spec => []TypeOK
<1>1. Init => TypeOK
  BY InitTyped
<1>2. TypeOK /\ [Next]_vars => TypeOK'
  BY TypeStep
<1>3. QED
  BY <1>1, <1>2, PTL DEF Spec

-----------------------------------------------------------------------------
(* Closing.  That nobody sends on a closed channel follows from two facts: *)
(* a channel is closed only after the wait for the producers has ended,    *)
(* and a producer that has ended never starts again.                       *)

ClosedAfterWait ==
    /\ \A s \in Sink : closed[s] => closers[s] \in {"wait", "ok", "error"}
    /\ \A s \in Sink : closers[s] # "none" => main # "wait"
    /\ main # "wait" => AllProducersEnded

(* Draining.  A writer that ends without an error has found its channel    *)
(* closed and empty, and nothing is sent on it afterwards.                 *)
Drained(s) == closed[s] /\ queue[s] = <<>> /\ writers[s].hand = <<>>

DrainedByWriters ==
    /\ \A s \in Sink : writers[s].pc # "write" => writers[s].hand = <<>>
    /\ \A s \in Sink : writers[s].pc \in {"select", "write"} => writers[s].err = "nil"
    /\ \A s \in Sink : writers[s].pc \in {"close", "done"} /\ writers[s].err = "nil" => Drained(s)
    /\ \A s \in Sink : closers[s] = "ok" => writers[s].pc = "done" /\ writers[s].err = "nil"
    /\ result = "ok" => main = "returned" /\ \A s \in Sink : closers[s] = "ok"

Closing == TypeOK /\ ClosedAfterWait /\ DrainedByWriters

LEMMA InitClosing == Init => Closing
BY InitTyped DEF Init, Closing, ClosedAfterWait, DrainedByWriters, ProducerAt, WriterAt

LEMMA ProducerCloses ==
    ASSUME Closing, NEW p \in Producer, ProducerStep(p)
    PROVE  ClosedAfterWait' /\ DrainedByWriters'
<1>1. /\ UNCHANGED <<closed, closers, writers, main, result>>
      /\ producers[p].pc \in {"next", "write"}
  BY DEF ProducerStep, BeginRecord, WriteToSink, EndRecord, EndProducer
<1>2. main = "wait" /\ \A s \in Sink : ~closed[s]
  BY <1>1 DEF Closing, ClosedAfterWait, AllProducersEnded
<1>3. QED
  BY <1>1, <1>2 DEF Closing, ClosedAfterWait, DrainedByWriters, Drained, AllProducersEnded

LEMMA WriterCloses ==
    ASSUME Closing, NEW s \in Sink, WriterStep(s) \/ WriteFails(s)
    PROVE  ClosedAfterWait' /\ DrainedByWriters'
<1>1. /\ UNCHANGED <<closed, closers, producers, main, result>>
      /\ writers[s].pc # "done"
      /\ \A t \in Sink : t # s => writers'[t] = writers[t] /\ queue'[t] = queue[t]
  BY DEF WriterStep, TakeRecord, WriteRecord, WriteFails, CloseSink, Closing, TypeOK
<1>2. ClosedAfterWait'
  BY <1>1 DEF Closing, ClosedAfterWait, AllProducersEnded
<1>3. /\ writers'[s].pc # "write" => writers'[s].hand = <<>>
      /\ writers'[s].pc \in {"select", "write"} => writers'[s].err = "nil"
      /\ writers'[s].pc \in {"close", "done"} /\ writers'[s].err = "nil" => Drained(s)'
  <2>1. CASE TakeRecord(s)
    BY <2>1 DEF TakeRecord, WriterAt, Closing, TypeOK, Drained
  <2>2. CASE WriteRecord(s)
    BY <2>2 DEF WriteRecord, WriterAt, Closing, TypeOK, Drained
  <2>3. CASE WriteFails(s)
    BY <2>3 DEF WriteFails, WriterAt, Closing, TypeOK, Drained
  <2>4. CASE CloseSink(s)
    BY <2>4 DEF CloseSink, WriterAt, Closing, DrainedByWriters, TypeOK, Drained
  <2>5. QED
    BY <2>1, <2>2, <2>3, <2>4 DEF WriterStep
<1>4. DrainedByWriters'
  BY <1>1, <1>3 DEF Closing, DrainedByWriters, Drained
<1>5. QED
  BY <1>2, <1>4

LEMMA ClosingStep == Closing /\ [Next]_vars => Closing'
<1> SUFFICES ASSUME Closing, [Next]_vars
             PROVE  Closing'
  OBVIOUS
<1> USE DEF Closing
<1>1. TypeOK'
  BY TypeStep
<1>2. ASSUME NEW p \in Producer, ProducerStep(p)
      PROVE  ClosedAfterWait' /\ DrainedByWriters'
  BY <1>2, ProducerCloses
<1>3. ASSUME NEW s \in Sink, WriterStep(s) \/ WriteFails(s)
      PROVE  ClosedAfterWait' /\ DrainedByWriters'
  BY <1>3, WriterCloses
<1>4. ASSUME UNCHANGED <<closed, closers, main, producers, writers, queue, result>>
      PROVE  ClosedAfterWait' /\ DrainedByWriters'
  <2>1. ClosedAfterWait'
    BY <1>4 DEF ClosedAfterWait, AllProducersEnded
  <2>2. DrainedByWriters'
    BY <1>4 DEF DrainedByWriters, Drained
  <2>3. QED
    BY <2>1, <2>2
<1>5. ASSUME NEW s \in Sink, UploadBreaks(s)
      PROVE  ClosedAfterWait' /\ DrainedByWriters'
  BY <1>4, <1>5 DEF UploadBreaks
<1>6. ASSUME NEW s \in Sink, CloseChannel(s)
      PROVE  ClosedAfterWait' /\ DrainedByWriters'
  <2>1. ClosedAfterWait'
    BY <1>6 DEF CloseChannel, TypeOK, ClosedAfterWait, AllProducersEnded
  <2>2. DrainedByWriters'
    BY <1>6 DEF CloseChannel, TypeOK, DrainedByWriters, Drained
  <2>3. QED
    BY <2>1, <2>2
<1>7. ASSUME NEW s \in Sink, CloserAnswers(s)
      PROVE  ClosedAfterWait' /\ DrainedByWriters'
  <2>1. /\ closers[s] = "wait"
        /\ \A t \in Sink : t # s => closers'[t] = closers[t]
        /\ closers'[s] \in {"ok", "error"}
        /\ closers'[s] = "ok" => writers[s].pc = "done" /\ writers[s].err = "nil"
    BY <1>7 DEF CloserAnswers, TypeOK
  <2>2. UNCHANGED <<closed, main, producers, writers, queue, result>>
    BY <1>7 DEF CloserAnswers
  <2>3. ClosedAfterWait'
    BY <2>1, <2>2 DEF ClosedAfterWait, AllProducersEnded
  <2>4. DrainedByWriters'
    BY <2>1, <2>2 DEF DrainedByWriters, Drained
  <2>5. QED
    BY <2>3, <2>4
<1>8. CASE Expire
  BY <1>1, <1>4, <1>8 DEF Expire
<1>9. CASE WaitEnds
  <2>1. closed' = closed /\ \A s \in Sink : ~closed[s] /\ closers'[s] = "start"
    BY <1>9 DEF WaitEnds, ClosedAfterWait, TypeOK
  <2>2. ClosedAfterWait'
    BY <1>9, <2>1 DEF WaitEnds, ClosedAfterWait, AllProducersEnded
  <2>3. result' # "ok"
    BY <1>9 DEF WaitEnds, DrainedByWriters
  <2>4. DrainedByWriters'
    BY <1>9, <2>1, <2>3 DEF WaitEnds, DrainedByWriters, Drained
  <2>5. QED
    BY <1>1, <2>2, <2>4
<1>10. CASE Return
  <2>1. /\ UNCHANGED <<closed, closers, producers, writers, queue>>
        /\ main' = "returned" /\ main # "wait"
    BY <1>10 DEF Return
  <2>2. result' = "ok" => \A s \in Sink : closers[s] = "ok"
    BY <1>10 DEF Return
  <2>3. ClosedAfterWait'
    BY <2>1 DEF ClosedAfterWait, AllProducersEnded
  <2>4. DrainedByWriters'
    BY <2>1, <2>2 DEF DrainedByWriters, Drained
  <2>5. QED
    BY <1>1, <2>3, <2>4
<1>11. CASE UNCHANGED vars
  BY <1>1, <1>4, <1>11 DEF vars
<1>12. QED
  BY <1>1, <1>2, <1>3, <1>5, <1>6, <1>7, <1>8, <1>9, <1>10, <1>11 DEF Next, CloserStep

LEMMA ClosingInvariant == Spec => []Closing
<1>1. Init => Closing
  BY InitClosing
<1>2. Closing /\ [Next]_vars => Closing'
  BY ClosingStep
<1>3. QED
  BY <1>1, <1>2, PTL DEF Spec

(* No producer ever sends on a closed channel, whatever fails and whenever *)
(* the timeout strikes: run's wait for the error group is what ensures it. *)
THEOREM NoSendOnClosed == Spec => []NoSendAfterClose
<1>1. Closing => NoSendAfterClose
  <2> SUFFICES ASSUME Closing, NEW p \in Producer, producers[p].pc = "write",
                      NEW j \in DOMAIN producers[p].left
               PROVE  ~closed[producers[p].left[j]]
    BY DEF NoSendAfterClose
  <2>1. main = "wait"
    BY DEF Closing, ClosedAfterWait, AllProducersEnded
  <2>2. producers[p].left[j] \in Sink
    <3>1. producers[p].left \in Seq(Sink)
      BY DEF Closing, TypeOK, ProducerRecord
    <3>2. QED
      BY <3>1, ElementOfSeq, LenProperties
  <2>3. QED
    BY <2>1, <2>2 DEF Closing, ClosedAfterWait
<1>2. QED
  BY <1>1, ClosingInvariant, PTL

(* When run reports success nothing is left in a channel or in the hands   *)
(* of a writer: what was accepted from a producer has been written.        *)
SuccessMeansDrained == result = "ok" => \A s \in Sink : queue[s] = <<>> /\ writers[s].hand = <<>>

THEOREM DrainedOnSuccess == Spec => []SuccessMeansDrained
<1>1. Closing => SuccessMeansDrained
  BY DEF Closing, DrainedByWriters, Drained, SuccessMeansDrained
<1>2. QED
  BY <1>1, ClosingInvariant, PTL

-----------------------------------------------------------------------------
(* What a sink gets.  The records that it has accepted are written, in the *)
(* hands of its writer, or in its channel, in this order.  A writer that   *)
(* has met no error has accepted all that producers have got past.         *)

Elements(q) == {q[j] : j \in DOMAIN q}

Accepted(s, p) ==
    Numbers(written[s], p) \cup Numbers(writers[s].hand, p) \cup Numbers(queue[s], p)

SendingAt(p) ==
    /\ producers[p].pc = "write" =>
          /\ producers[p].next \in DOMAIN Work[p]
          /\ Elements(producers[p].left) \subseteq Elements(Outputs[Work[p][producers[p].next]])
    /\ producers[p].pc = "done" => producers[p].next > Len(Work[p])

AcceptedAt(s, p) ==
    /\ Accepted(s, p) \subseteq Due(s, p)
    /\ writers[s].err = "nil" =>
          /\ \A k \in Due(s, p) : k < producers[p].next => k \in Accepted(s, p)
          /\ \/ producers[p].pc # "write" \/ producers[p].failed
             \/ producers[p].next \notin Due(s, p)
             \/ s \in Elements(producers[p].left)
             \/ producers[p].next \in Accepted(s, p)

Success ==
    main # "wait" /\ result # "error" => \A p \in Producer : producers[p].pc = "done"

Accepting ==
    /\ Closing
    /\ \A p \in Producer : SendingAt(p)
    /\ \A s \in Sink, p \in Producer : AcceptedAt(s, p)
    /\ Success

LEMMA NumbersOf ==
    ASSUME NEW q, NEW p, NEW n
    PROVE  n \in Numbers(q, p) <=>
              \E j \in DOMAIN q : q[j].producer = p /\ q[j].number = n
  BY DEF Numbers

LEMMA NumbersOfEmpty == \A p : Numbers(<<>>, p) = {}
  BY DEF Numbers

LEMMA NumbersOfAppend ==
    ASSUME NEW R, NEW q \in Seq(R), NEW r \in R, NEW p
    PROVE  /\ r.producer = p => Numbers(Append(q, r), p) = Numbers(q, p) \cup {r.number}
           /\ r.producer # p => Numbers(Append(q, r), p) = Numbers(q, p)
<1> DEFINE a == Append(q, r)
           n == Len(q)
<1>1. /\ n \in Nat /\ DOMAIN q = 1..n /\ DOMAIN a = 1..(n + 1)
      /\ a[n + 1] = r /\ \A j \in 1..n : a[j] = q[j]
  BY AppendProperties, LenProperties
<1> HIDE DEF a, n
<1>2. 1..(n + 1) = (1..n) \cup {n + 1}
  BY <1>1
<1>3. \A m : m \in Numbers(a, p) <=> m \in Numbers(q, p) \/ (r.producer = p /\ r.number = m)
  BY <1>1, <1>2, NumbersOf
<1>4. QED
  BY <1>3 DEF a

LEMMA NumbersOfTail ==
    ASSUME NEW R, NEW q \in Seq(R), q # <<>>, NEW p
    PROVE  Numbers(q, p) = Numbers(<<Head(q)>>, p) \cup Numbers(Tail(q), p)
<1> DEFINE t == Tail(q)
           h == <<Head(q)>>
           n == Len(t)
<1>1. /\ n \in Nat /\ DOMAIN t = 1..n /\ DOMAIN q = 1..(n + 1)
      /\ q[1] = Head(q) /\ \A j \in 1..n : t[j] = q[j + 1]
  BY HeadTailProperties, LenProperties
<1>2. DOMAIN h = {1} /\ h[1] = q[1]
  BY <1>1
<1> HIDE DEF t, h, n
<1>3. \A j : j \in 1..(n + 1) <=> j = 1 \/ (j - 1 \in 1..n /\ j \in Int)
  BY <1>1
<1>4. ASSUME NEW m, m \in Numbers(q, p) PROVE m \in Numbers(h, p) \cup Numbers(t, p)
  <2>1. PICK j \in 1..(n + 1) : q[j].producer = p /\ q[j].number = m
    BY <1>1, <1>4, NumbersOf
  <2>2. CASE j = 1
    BY <1>2, <2>1, <2>2, NumbersOf
  <2>3. CASE j # 1
    <3>1. j - 1 \in 1..n /\ t[j - 1] = q[j]
      BY <1>1, <2>1, <2>3
    <3>2. QED
      BY <1>1, <2>1, <3>1, NumbersOf
  <2>4. QED
    BY <2>2, <2>3
<1>5. ASSUME NEW m, m \in Numbers(h, p) \cup Numbers(t, p) PROVE m \in Numbers(q, p)
  <2>1. CASE m \in Numbers(h, p)
    BY <1>1, <1>2, <2>1, NumbersOf
  <2>2. CASE m \in Numbers(t, p)
    <3>1. PICK j \in 1..n : t[j].producer = p /\ t[j].number = m
      BY <1>1, <2>2, NumbersOf
    <3>2. j + 1 \in 1..(n + 1) /\ q[j + 1] = t[j]
      BY <1>1, <3>1
    <3>3. QED
      BY <1>1, <3>1, <3>2, NumbersOf
  <2>3. QED
    BY <1>5, <2>1, <2>2
<1>6. QED
  BY <1>4, <1>5 DEF h, t

LEMMA NumbersOfConcat ==
    ASSUME NEW R, NEW q \in Seq(R), NEW h \in Seq(R), NEW p
    PROVE  Numbers(q \o h, p) = Numbers(q, p) \cup Numbers(h, p)
<1> DEFINE a == q \o h
           n == Len(q)
           k == Len(h)
<1>1. /\ n \in Nat /\ k \in Nat /\ DOMAIN q = 1..n /\ DOMAIN h = 1..k /\ DOMAIN a = 1..(n + k)
      /\ \A j \in 1..n : a[j] = q[j]
      /\ \A j \in 1..k : a[n + j] = h[j]
  BY ConcatProperties, LenProperties
<1> HIDE DEF a, n, k
<1>2. ASSUME NEW m, m \in Numbers(a, p) PROVE m \in Numbers(q, p) \cup Numbers(h, p)
  <2>1. PICK j \in 1..(n + k) : a[j].producer = p /\ a[j].number = m
    BY <1>1, <1>2, NumbersOf
  <2>2. CASE j <= n
    BY <1>1, <2>1, <2>2, NumbersOf
  <2>3. CASE j > n
    <3>1. j - n \in 1..k /\ h[j - n] = a[j]
      BY <1>1, <2>1, <2>3
    <3>2. QED
      BY <1>1, <2>1, <3>1, NumbersOf
  <2>4. QED
    BY <1>1, <2>1, <2>2, <2>3
<1>3. ASSUME NEW m, m \in Numbers(q, p) \cup Numbers(h, p) PROVE m \in Numbers(a, p)
  <2>1. CASE m \in Numbers(q, p)
    BY <1>1, <2>1, NumbersOf
  <2>2. CASE m \in Numbers(h, p)
    <3>1. PICK j \in 1..k : h[j].producer = p /\ h[j].number = m
      BY <1>1, <2>2, NumbersOf
    <3>2. n + j \in 1..(n + k) /\ a[n + j] = h[j]
      BY <1>1, <3>1
    <3>3. QED
      BY <1>1, <3>1, <3>2, NumbersOf
  <2>3. QED
    BY <1>3, <2>1, <2>2
<1>4. QED
  BY <1>2, <1>3 DEF a

(* The first of some sinks and those after it are the sinks.               *)
LEMMA ElementsOf ==
    ASSUME NEW R, NEW q \in Seq(R), q # <<>>
    PROVE  Elements(q) = {Head(q)} \cup Elements(Tail(q))
<1> DEFINE t == Tail(q)
           n == Len(t)
<1>1. /\ n \in Nat /\ DOMAIN t = 1..n /\ DOMAIN q = 1..(n + 1)
      /\ q[1] = Head(q) /\ \A j \in 1..n : t[j] = q[j + 1]
  BY HeadTailProperties, LenProperties
<1> HIDE DEF t, n
<1>2. ASSUME NEW j \in 1..(n + 1) PROVE q[j] = q[1] \/ q[j] \in Elements(t)
  <2>1. CASE j # 1
    <3>1. j - 1 \in 1..n /\ t[j - 1] = q[j]
      BY <1>1, <1>2, <2>1
    <3>2. QED
      BY <1>1, <3>1 DEF Elements
  <2>2. QED
    BY <2>1
<1>3. ASSUME NEW j \in 1..n PROVE t[j] \in Elements(q)
  <2>1. j + 1 \in 1..(n + 1) /\ q[j + 1] = t[j]
    BY <1>1
  <2>2. QED
    BY <1>1, <2>1 DEF Elements
<1>4. 1 \in 1..(n + 1)
  BY <1>1
<1>5. QED
  BY <1>1, <1>2, <1>3, <1>4 DEF Elements, t

(* What a writer does moves records on from the channel to what is written,*)
(* and loses one only together with the claim that nothing has failed.     *)
LEMMA WriterKeeps ==
    ASSUME Closing, NEW s \in Sink, WriterStep(s) \/ WriteFails(s), NEW p \in Producer
    PROVE  /\ UNCHANGED <<producers, closers, main, result>>
           /\ \A t \in Sink : t # s => /\ writers'[t] = writers[t]
                                       /\ queue'[t] = queue[t]
                                       /\ written'[t] = written[t]
           /\ Accepted(s, p)' \subseteq Accepted(s, p)
           /\ writers'[s].err = "nil" =>
                 writers[s].err = "nil" /\ Accepted(s, p)' = Accepted(s, p)
<1> DEFINE W == Numbers(written[s], p)
           H == Numbers(writers[s].hand, p)
           Q == Numbers(queue[s], p)
<1>1. /\ queue \in [Sink -> Seq(Record)] /\ written \in [Sink -> Seq(Record)]
      /\ DOMAIN writers = Sink
      /\ writers[s].hand \in Seq(Record)
      /\ writers[s].pc # "write" => writers[s].hand = <<>>
      /\ writers[s].pc \in {"select", "write"} => writers[s].err = "nil"
  BY DEF Closing, TypeOK, WriterRecord, DrainedByWriters
<1>2. Accepted(s, p) = W \cup H \cup Q
  BY DEF Accepted
<1>3. CASE TakeRecord(s)
  <2>1. /\ UNCHANGED <<producers, closers, main, result, written>>
        /\ \A t \in Sink : t # s => writers'[t] = writers[t] /\ queue'[t] = queue[t]
        /\ writers[s].pc = "select"
    BY <1>1, <1>3 DEF TakeRecord
  <2>2. H = {} /\ writers[s].err = "nil"
    BY <1>1, <2>1, NumbersOfEmpty
  <2>3. CASE queue' = queue /\ \E e \in {"context", "nil"} : writers'[s] = WriterAt("close", <<>>, e)
    <3>1. writers'[s].hand = <<>>
      BY <2>3 DEF WriterAt
    <3>2. Accepted(s, p)' = Numbers(written[s], p) \cup Numbers(<<>>, p) \cup Numbers(queue[s], p)
      BY <2>1, <2>3, <3>1 DEF Accepted
    <3>3. QED
      BY <1>2, <2>1, <2>2, <3>2, NumbersOfEmpty
  <2>4. CASE /\ queue[s] # <<>>
             /\ writers'[s] = WriterAt("write", <<Head(queue[s])>>, "nil")
             /\ queue'[s] = Tail(queue[s])
    <3>1. writers'[s].hand = <<Head(queue[s])>>
      BY <2>4 DEF WriterAt
    <3>2. Accepted(s, p)' = Numbers(written[s], p) \cup Numbers(<<Head(queue[s])>>, p)
                              \cup Numbers(Tail(queue[s]), p)
      BY <2>1, <2>4, <3>1 DEF Accepted
    <3>3. queue[s] \in Seq(Record)
      BY <1>1
    <3>4. Q = Numbers(<<Head(queue[s])>>, p) \cup Numbers(Tail(queue[s]), p)
      BY <2>4, <3>3, NumbersOfTail
    <3>5. Accepted(s, p)' = Accepted(s, p)
      BY <1>2, <2>2, <3>2, <3>4
    <3>6. QED
      BY <2>1, <2>2, <3>5
  <2>5. QED
    BY <1>1, <1>3, <2>3, <2>4 DEF TakeRecord
<1>4. CASE WriteRecord(s)
  <2>1. /\ UNCHANGED <<producers, closers, main, result, queue>>
        /\ \A t \in Sink : t # s => writers'[t] = writers[t] /\ written'[t] = written[t]
        /\ writers[s].pc = "write" /\ writers'[s] = WriterAt("select", <<>>, "nil")
        /\ written'[s] = written[s] \o writers[s].hand
    BY <1>1, <1>4 DEF WriteRecord
  <2>2. writers'[s].hand = <<>> /\ writers[s].err = "nil"
    BY <1>1, <2>1 DEF WriterAt
  <2>3. Accepted(s, p)' = Numbers(written[s] \o writers[s].hand, p) \cup Numbers(<<>>, p) \cup Q
    BY <2>1, <2>2 DEF Accepted
  <2>4. written[s] \in Seq(Record)
    BY <1>1
  <2>5. Numbers(written[s] \o writers[s].hand, p) = W \cup H
    BY <1>1, <2>4, NumbersOfConcat
  <2>6. Accepted(s, p)' = Accepted(s, p)
    BY <1>2, <2>3, <2>5, NumbersOfEmpty
  <2>7. QED
    BY <2>1, <2>2, <2>6
<1>5. CASE WriteFails(s)
  <2>1. /\ UNCHANGED <<producers, closers, main, result, queue, written>>
        /\ \A t \in Sink : t # s => writers'[t] = writers[t]
        /\ writers'[s] = WriterAt("close", <<>>, "write")
    BY <1>1, <1>5 DEF WriteFails
  <2>2. writers'[s].hand = <<>> /\ writers'[s].err = "write"
    BY <2>1 DEF WriterAt
  <2>3. Accepted(s, p)' = W \cup Numbers(<<>>, p) \cup Q
    BY <2>1, <2>2 DEF Accepted
  <2>4. QED
    BY <1>2, <2>1, <2>2, <2>3, NumbersOfEmpty
<1>6. CASE CloseSink(s)
  <2>1. /\ UNCHANGED <<producers, closers, main, result, queue, written>>
        /\ \A t \in Sink : t # s => writers'[t] = writers[t]
        /\ writers[s].pc = "close" /\ writers'[s] = WriterAt("done", <<>>, writers[s].err)
    BY <1>1, <1>6 DEF CloseSink
  <2>2. /\ writers'[s].hand = <<>> /\ writers[s].hand = <<>>
        /\ writers'[s].err = writers[s].err
    BY <1>1, <2>1 DEF WriterAt
  <2>3. Accepted(s, p)' = Accepted(s, p)
    BY <2>1, <2>2 DEF Accepted
  <2>4. QED
    BY <2>1, <2>2, <2>3
<1>7. QED
  BY <1>3, <1>4, <1>5, <1>6 DEF WriterStep

(* A producer's step: another producer's records and those of sinks that   *)
(* it does not write to stay what they are.                                *)
LEMMA ProducerKeeps ==
    ASSUME Closing, NEW p \in Producer, ProducerStep(p)
    PROVE  /\ UNCHANGED <<closed, writers, written, main, result, closers>>
           /\ main = "wait" /\ \A s \in Sink : ~closed[s]
           /\ \A q \in Producer : q # p =>
                 producers'[q] = producers[q] /\ \A s \in Sink : Accepted(s, q)' = Accepted(s, q)
<1>1. /\ UNCHANGED <<closed, writers, written, main, result, closers>>
      /\ \A q \in Producer : q # p => producers'[q] = producers[q]
      /\ producers[p].pc \in {"next", "write"}
  BY DEF ProducerStep, BeginRecord, WriteToSink, EndRecord, EndProducer, Closing, TypeOK
<1>2. main = "wait" /\ \A s \in Sink : ~closed[s]
  BY <1>1 DEF Closing, ClosedAfterWait, AllProducersEnded
<1>3. ASSUME NEW q \in Producer, q # p, NEW s \in Sink
      PROVE  Numbers(queue'[s], q) = Numbers(queue[s], q)
  <2>1. CASE queue'[s] = queue[s]
    BY <2>1
  <2>2. CASE queue'[s] = Append(queue[s], Rec(p, producers[p].next))
    <3> DEFINE r == Rec(p, producers[p].next)
    <3>1. r \in Record /\ r.producer = p
      BY RecordsTyped DEF Closing, TypeOK, ProducerRecord, Rec
    <3>2. queue[s] \in Seq(Record)
      BY DEF Closing, TypeOK
    <3> HIDE DEF r, Record
    <3>3. Numbers(Append(queue[s], r), q) = Numbers(queue[s], q)
      BY <1>3, <3>1, <3>2, NumbersOfAppend
    <3>4. QED
      BY <2>2, <3>3 DEF r
  <2>3. \/ queue' = queue
        \/ \E t \in Sink : queue' = [queue EXCEPT ![t] = Append(@, Rec(p, producers[p].next))]
    <3>1. CASE WriteToSink(p)
      <4>1. producers[p].left \in Seq(Sink) /\ producers[p].left # <<>>
        BY <3>1 DEF WriteToSink, Closing, TypeOK, ProducerRecord
      <4>2. Head(producers[p].left) \in Sink
        BY <4>1, HeadTailProperties
      <4>3. QED
        BY <3>1, <4>2 DEF WriteToSink
    <3>2. QED
      BY <3>1 DEF ProducerStep, BeginRecord, EndRecord, EndProducer
  <2>4. QED
    BY <2>1, <2>2, <2>3 DEF Closing, TypeOK
<1>4. QED
  BY <1>1, <1>2, <1>3 DEF Accepted

(* What is left of a record goes to the first of its sinks: either that    *)
(* accepts the record, or the producer is going to fail.                   *)
LEMMA SinkAnswers ==
    ASSUME Closing, NEW p \in Producer, WriteToSink(p),
           NEW s, s = Head(producers[p].left)
    PROVE  /\ s \in Sink
           /\ Elements(producers[p].left) = {s} \cup Elements(producers'[p].left)
           /\ producers[p].left \in Seq(Sink) /\ producers[p].left # <<>>
           /\ producers[p].pc = "write" /\ producers'[p].pc = "write"
           /\ producers'[p].next = producers[p].next
           /\ producers'[p].left = Tail(producers[p].left)
           /\ producers[p].failed => producers'[p].failed
           /\ \A t \in Sink : t # s => queue'[t] = queue[t]
           /\ \/ /\ queue'[s] = queue[s]
                 /\ Accepted(s, p)' = Accepted(s, p)
                 /\ producers'[p].failed
              \/ /\ queue'[s] = Append(queue[s], Rec(p, producers[p].next))
                 /\ Accepted(s, p)' = Accepted(s, p) \cup {producers[p].next}
<1> DEFINE i == producers[p].next
           left == producers[p].left
           failed == producers[p].failed
           after(b) == ProducerAt("write", i, Tail(left), failed \/ b)
           r == Rec(p, i)
<1>1. /\ left \in Seq(Sink) /\ left # <<>> /\ producers[p].pc = "write"
      /\ failed \in BOOLEAN /\ i \in Nat \ {0}
      /\ queue \in [Sink -> Seq(Record)] /\ DOMAIN producers = Producer
  BY DEF WriteToSink, Closing, TypeOK, ProducerRecord
<1>2. s \in Sink /\ Elements(left) = {s} \cup Elements(Tail(left))
  BY <1>1, HeadTailProperties, ElementsOf
<1>3. /\ UNCHANGED <<writers, written>>
      /\ ~closed[s]
  BY <1>2, ProducerKeeps DEF ProducerStep
<1>4. \/ producers'[p] = after(TRUE) /\ queue' = queue
      \/ producers'[p] = after(TRUE) /\ queue' = queue /\ writers[s].pc = "done"
      \/ producers'[p] = after(FALSE) /\ queue' = queue /\ writers[s].pc = "done"
            /\ writers[s].err = "nil"
      \/ producers'[p] = after(FALSE) /\ queue' = [queue EXCEPT ![s] = Append(queue[s], r)]
  BY <1>1, Zenon DEF WriteToSink
<1>5. ~(writers[s].pc = "done" /\ writers[s].err = "nil")
  BY <1>2, <1>3 DEF Closing, DrainedByWriters, Drained
<1>6. ASSUME NEW b \in BOOLEAN, producers'[p] = after(b)
      PROVE  /\ producers'[p].pc = "write" /\ producers'[p].next = i
             /\ producers'[p].left = Tail(left)
             /\ failed \/ b => producers'[p].failed
  BY <1>1, <1>6 DEF ProducerAt
<1>7. ASSUME queue' = queue PROVE Accepted(s, p)' = Accepted(s, p)
  BY <1>3, <1>7 DEF Accepted
<1>8. ASSUME queue' = [queue EXCEPT ![s] = Append(queue[s], r)]
      PROVE  /\ queue'[s] = Append(queue[s], r)
             /\ \A t \in Sink : t # s => queue'[t] = queue[t]
             /\ Accepted(s, p)' = Accepted(s, p) \cup {i}
  <2>1. queue'[s] = Append(queue[s], r) /\ \A t \in Sink : t # s => queue'[t] = queue[t]
    BY <1>1, <1>2, <1>8
  <2>2. r \in Record /\ r.producer = p /\ r.number = i
    BY <1>1, RecordsTyped DEF Rec
  <2>3. queue[s] \in Seq(Record)
    BY <1>1, <1>2
  <2> HIDE DEF r, Record
  <2>4. Numbers(Append(queue[s], r), p) = Numbers(queue[s], p) \cup {r.number}
    <3>1. PICK q : q = queue[s]
      OBVIOUS
    <3>2. PICK x : x = r
      OBVIOUS
    <3>3. q \in Seq(Record) /\ x \in Record /\ x.producer = p
      BY <2>2, <2>3, <3>1, <3>2
    <3>4. Numbers(Append(q, x), p) = Numbers(q, p) \cup {x.number}
      BY <3>3, NumbersOfAppend
    <3>5. QED
      BY <3>1, <3>2, <3>4
  <2>5. /\ Accepted(s, p)' = Numbers(written[s], p) \cup Numbers(writers[s].hand, p)
                              \cup Numbers(Append(queue[s], r), p)
        /\ Accepted(s, p) = Numbers(written[s], p) \cup Numbers(writers[s].hand, p)
                              \cup Numbers(queue[s], p)
    BY <1>3, <2>1 DEF Accepted
  <2>6. Accepted(s, p)' = Accepted(s, p) \cup {i}
    BY <2>2, <2>4, <2>5
  <2>7. QED
    BY <2>1, <2>6
<1> HIDE DEF after
<1>9. \/ queue' = queue /\ producers'[p] = after(TRUE)
      \/ queue' = [queue EXCEPT ![s] = Append(queue[s], r)] /\ producers'[p] = after(FALSE)
  BY <1>4, <1>5
<1> HIDE DEF i, left, failed, r
<1>10. /\ producers'[p].pc = "write" /\ producers'[p].next = i
       /\ producers'[p].left = Tail(left)
       /\ failed => producers'[p].failed
  BY <1>6, <1>9
<1>11. \/ queue' = queue /\ producers'[p].failed
       \/ queue' = [queue EXCEPT ![s] = Append(queue[s], r)]
  BY <1>6, <1>9
<1>12. \/ queue'[s] = queue[s] /\ Accepted(s, p)' = Accepted(s, p) /\ producers'[p].failed
       \/ queue'[s] = Append(queue[s], r) /\ Accepted(s, p)' = Accepted(s, p) \cup {i}
  BY <1>7, <1>8, <1>11
<1>13. \A t \in Sink : t # s => queue'[t] = queue[t]
  BY <1>8, <1>11
<1>14. /\ i = producers[p].next /\ left = producers[p].left /\ failed = producers[p].failed
       /\ r = Rec(p, producers[p].next)
  BY DEF i, left, failed, r
<1>15. QED
  BY <1>1, <1>2, <1>10, <1>12, <1>13, <1>14

LEMMA ProducerSends ==
    ASSUME Accepting, NEW p \in Producer, ProducerStep(p)
    PROVE  SendingAt(p)' /\ \A s \in Sink : AcceptedAt(s, p)'
<1> DEFINE i == producers[p].next
           left == producers[p].left
<1>1. /\ i \in Nat \ {0} /\ left \in Seq(Sink) /\ producers[p].failed \in BOOLEAN
      /\ DOMAIN producers = Producer
  BY DEF Accepting, Closing, TypeOK, ProducerRecord
<1>2. UNCHANGED <<writers, written>> /\ Closing
  BY ProducerKeeps DEF Accepting
<1>3. SendingAt(p) /\ \A s \in Sink : AcceptedAt(s, p)
  BY DEF Accepting
<1>4. ASSUME UNCHANGED queue PROVE \A s \in Sink : Accepted(s, p)' = Accepted(s, p)
  BY <1>2, <1>4 DEF Accepted
<1>5. Work[p] \in Seq(Kind) /\ Len(Work[p]) \in Nat /\ DOMAIN Work[p] = 1..Len(Work[p])
  BY DispatcherAssumption, LenProperties
<1>6. CASE BeginRecord(p)
  <2>1. queue' = queue /\ producers[p].pc = "next" /\ i \in DOMAIN Work[p]
    BY <1>1, <1>5, <1>6 DEF BeginRecord
  <2>2. \/ producers'[p] = ProducerAt("failed", i, <<>>, FALSE)
        \/ producers'[p] = ProducerAt("write", i, Outputs[Work[p][i]], FALSE)
    BY <1>1, <1>6 DEF BeginRecord
  <2>3. /\ producers'[p].next = i /\ producers'[p].pc \in {"failed", "write"}
        /\ producers'[p].pc = "write" => producers'[p].left = Outputs[Work[p][i]]
    BY <2>2 DEF ProducerAt
  <2>4. SendingAt(p)'
    BY <2>1, <2>3 DEF SendingAt
  <2>5. ASSUME NEW s \in Sink PROVE AcceptedAt(s, p)'
    <3>1. i \in Due(s, p) => s \in Elements(Outputs[Work[p][i]])
      BY DEF Due, BelongsIn, Elements
    <3>2. Accepted(s, p)' = Accepted(s, p)
      BY <1>4, <2>1
    <3> HIDE DEF i
    <3>3. QED
      BY <1>2, <1>3, <2>3, <3>1, <3>2 DEF AcceptedAt, i
  <2>6. QED
    BY <2>4, <2>5
<1>7. CASE WriteToSink(p)
  <2> DEFINE new == producers'[p]
  <2>0. PICK s : s = Head(left)
    OBVIOUS
  <2>1. /\ s \in Sink
        /\ Elements(left) = {s} \cup Elements(new.left)
        /\ producers[p].pc = "write" /\ new.pc = "write" /\ new.next = i
        /\ producers[p].failed => new.failed
        /\ \A t \in Sink : t # s => queue'[t] = queue[t]
        /\ \/ Accepted(s, p)' = Accepted(s, p) /\ new.failed
           \/ Accepted(s, p)' = Accepted(s, p) \cup {i}
    BY <1>2, <1>7, <2>0, SinkAnswers, Zenon
  <2> HIDE DEF new
  <2>2. /\ i \in DOMAIN Work[p]
        /\ Elements(new.left) \subseteq Elements(Outputs[Work[p][i]])
        /\ s \in Elements(Outputs[Work[p][i]])
    BY <1>3, <2>1 DEF SendingAt
  <2>3. SendingAt(p)'
    BY <2>1, <2>2 DEF SendingAt, new
  <2>4. i \in Due(s, p)
    BY <2>2 DEF Due, BelongsIn, Elements
  <2>5. AcceptedAt(s, p)'
    BY <1>2, <1>3, <2>1, <2>4 DEF AcceptedAt, new
  <2>6. ASSUME NEW t \in Sink, t # s PROVE AcceptedAt(t, p)'
    <3>1. Accepted(t, p)' = Accepted(t, p)
      BY <1>2, <2>1, <2>6 DEF Accepted
    <3>2. QED
      BY <1>2, <1>3, <2>1, <2>6, <3>1 DEF AcceptedAt, new
  <2>7. QED
    BY <2>3, <2>5, <2>6
<1>8. CASE EndRecord(p)
  <2>1. queue' = queue /\ producers[p].pc = "write" /\ left = <<>>
    BY <1>8 DEF EndRecord
  <2>2. \/ producers'[p] = ProducerAt("failed", i, <<>>, TRUE)
        \/ ~producers[p].failed /\ producers'[p] = ProducerAt("next", i + 1, <<>>, FALSE)
    BY <1>1, <1>8 DEF EndRecord
  <2>3. \/ producers'[p].next = i /\ producers'[p].pc = "failed"
        \/ ~producers[p].failed /\ producers'[p].next = i + 1 /\ producers'[p].pc = "next"
    BY <2>2 DEF ProducerAt
  <2>4. SendingAt(p)'
    BY <2>3 DEF SendingAt
  <2>5. ASSUME NEW s \in Sink PROVE AcceptedAt(s, p)'
    <3>1. s \notin Elements(left)
      BY <2>1 DEF Elements
    <3>2. Accepted(s, p)' = Accepted(s, p)
      BY <1>4, <2>1
    <3>3. \A k \in Due(s, p) : k < i + 1 => k < i \/ k = i
      BY <1>1, <1>5 DEF Due
    <3> HIDE DEF i, left
    <3>4. AcceptedAt(s, p)
      BY <1>3
    <3>5. i = producers[p].next /\ left = producers[p].left
      BY DEF i, left
    <3>6. QED
      BY <1>2, <2>1, <2>3, <3>1, <3>2, <3>3, <3>4, <3>5 DEF AcceptedAt
  <2>6. QED
    BY <2>4, <2>5
<1>9. CASE EndProducer(p)
  <2>1. queue' = queue /\ i > Len(Work[p])
    BY <1>9 DEF EndProducer
  <2>2. producers'[p] = ProducerAt("done", i, <<>>, FALSE)
    BY <1>1, <1>9 DEF EndProducer
  <2>3. producers'[p].next = i /\ producers'[p].pc = "done"
    BY <2>2 DEF ProducerAt
  <2>4. SendingAt(p)'
    BY <2>1, <2>3 DEF SendingAt
  <2>5. ASSUME NEW s \in Sink PROVE AcceptedAt(s, p)'
    <3>1. Accepted(s, p)' = Accepted(s, p)
      BY <1>4, <2>1
    <3>2. QED
      BY <1>2, <1>3, <2>3, <3>1 DEF AcceptedAt
  <2>6. QED
    BY <2>4, <2>5
<1>10. QED
  BY <1>6, <1>7, <1>8, <1>9 DEF ProducerStep

LEMMA AcceptingStep == Accepting /\ [Next]_vars => Accepting'
<1> SUFFICES ASSUME Accepting, [Next]_vars
             PROVE  Accepting'
  OBVIOUS
<1>1. Closing' /\ Closing /\ Success
  BY ClosingStep DEF Accepting
<1>2. /\ \A p \in Producer : SendingAt(p)
      /\ \A s \in Sink, p \in Producer : AcceptedAt(s, p)
  BY DEF Accepting
<1>3. ASSUME NEW s \in Sink, NEW p \in Producer,
             producers'[p] = producers[p], Accepted(s, p)' \subseteq Accepted(s, p),
             writers'[s].err = "nil" =>
                writers[s].err = "nil" /\ Accepted(s, p)' = Accepted(s, p)
      PROVE  AcceptedAt(s, p)'
  <2>1. AcceptedAt(s, p) /\ Due(s, p)' = Due(s, p)
    BY <1>2 DEF Due, BelongsIn
  <2>2. QED
    BY <1>3, <2>1 DEF AcceptedAt
<1>4. ASSUME NEW p \in Producer, producers'[p] = producers[p] PROVE SendingAt(p)'
  BY <1>2, <1>4 DEF SendingAt
<1>5. ASSUME UNCHANGED <<producers, queue, writers, written>>, Success' PROVE Accepting'
  <2>1. \A s \in Sink, p \in Producer : Accepted(s, p)' = Accepted(s, p)
    BY <1>5 DEF Accepted
  <2>2. \A s \in Sink, p \in Producer : AcceptedAt(s, p)'
    BY <1>3, <1>5, <2>1
  <2>3. \A p \in Producer : SendingAt(p)'
    BY <1>4, <1>5
  <2>4. QED
    BY <1>1, <1>5, <2>2, <2>3 DEF Accepting
<1>6. ASSUME NEW p \in Producer, ProducerStep(p) PROVE Accepting'
  <2>1. /\ SendingAt(p)' /\ \A s \in Sink : AcceptedAt(s, p)'
        /\ UNCHANGED <<writers, main, result>> /\ main = "wait"
        /\ \A q \in Producer : q # p =>
              producers'[q] = producers[q] /\ \A s \in Sink : Accepted(s, q)' = Accepted(s, q)
    BY <1>1, <1>6, ProducerSends, ProducerKeeps
  <2>2. ASSUME NEW q \in Producer, q # p PROVE SendingAt(q)' /\ \A s \in Sink : AcceptedAt(s, q)'
    BY <1>3, <1>4, <2>1, <2>2
  <2>3. Success'
    BY <2>1 DEF Success
  <2>4. QED
    BY <1>1, <2>1, <2>2, <2>3 DEF Accepting
<1>7. ASSUME NEW s \in Sink, WriterStep(s) \/ WriteFails(s) PROVE Accepting'
  <2>1. ASSUME NEW p \in Producer PROVE \A t \in Sink : AcceptedAt(t, p)'
    <3>1. /\ producers' = producers
          /\ \A t \in Sink : t # s => /\ writers'[t] = writers[t]
                                      /\ queue'[t] = queue[t]
                                      /\ written'[t] = written[t]
          /\ Accepted(s, p)' \subseteq Accepted(s, p)
          /\ writers'[s].err = "nil" =>
                writers[s].err = "nil" /\ Accepted(s, p)' = Accepted(s, p)
      BY <1>1, <1>7, WriterKeeps
    <3>2. AcceptedAt(s, p)'
      BY <1>3, <3>1
    <3>3. ASSUME NEW t \in Sink, t # s PROVE AcceptedAt(t, p)'
      <4>1. Accepted(t, p)' = Accepted(t, p)
        BY <3>1, <3>3 DEF Accepted
      <4>2. QED
        BY <1>3, <3>1, <3>3, <4>1
    <3>4. QED
      BY <3>2, <3>3
  <2>2. UNCHANGED <<producers, main, result>>
    BY <1>7 DEF WriterStep, TakeRecord, WriteRecord, WriteFails, CloseSink
  <2>3. \A p \in Producer : SendingAt(p)'
    BY <1>4, <2>2
  <2>4. Success'
    BY <1>1, <2>2 DEF Success
  <2>5. QED
    BY <1>1, <2>1, <2>3, <2>4 DEF Accepting
<1>8. ASSUME NEW s \in Sink, UploadBreaks(s) \/ CloserStep(s) PROVE Accepting'
  BY <1>1, <1>5, <1>8 DEF UploadBreaks, CloserStep, CloseChannel, CloserAnswers, Success
<1>9. CASE Expire
  BY <1>1, <1>5, <1>9 DEF Expire, Success
<1>10. CASE WaitEnds
  BY <1>1, <1>5, <1>10 DEF WaitEnds, Success, AllProducersEnded
<1>11. CASE Return
  BY <1>1, <1>5, <1>11 DEF Return, Success
<1>12. CASE UNCHANGED vars
  BY <1>1, <1>5, <1>12 DEF vars, Success
<1>13. QED
  BY <1>6, <1>7, <1>8, <1>9, <1>10, <1>11, <1>12 DEF Next

LEMMA InitAccepting == Init => Accepting
<1> SUFFICES ASSUME Init PROVE Accepting
  OBVIOUS
<1>1. \A s \in Sink, p \in Producer : Accepted(s, p) = {}
  BY NumbersOfEmpty DEF Init, Accepted, WriterAt
<1>2. \A p \in Producer : producers[p].pc = "next" /\ producers[p].next = 1
  BY DEF Init, ProducerAt
<1>3. \A s \in Sink, p \in Producer : \A k \in Due(s, p) : ~(k < 1)
  <2>1. \A p \in Producer : Len(Work[p]) \in Nat /\ DOMAIN Work[p] = 1..Len(Work[p])
    BY DispatcherAssumption, LenProperties
  <2>2. QED
    BY <2>1 DEF Due
<1>4. QED
  BY <1>1, <1>2, <1>3, InitClosing DEF Accepting, SendingAt, AcceptedAt, Success, Init

LEMMA AcceptingInvariant == Spec => []Accepting
<1>1. Init => Accepting
  BY InitAccepting
<1>2. Accepting /\ [Next]_vars => Accepting'
  BY AcceptingStep
<1>3. QED
  BY <1>1, <1>2, PTL DEF Spec

(* When run reports success, every record of every producer has been       *)
(* written to all the sinks of its kind, and nothing else has              *)
(* (ci-normalize.go run, dispatch.go Close).                               *)
THEOREM WrittenOnSuccess == Spec => []SuccessMeansWritten
<1>1. Accepting => SuccessMeansWritten
  <2> SUFFICES ASSUME Accepting, result = "ok", NEW s \in Sink, NEW p \in Producer
               PROVE  Arrived(s, p) = Due(s, p)
    BY DEF SuccessMeansWritten
  <2>1. /\ main # "wait" /\ writers[s].err = "nil"
        /\ queue[s] = <<>> /\ writers[s].hand = <<>>
    BY DEF Accepting, Closing, DrainedByWriters, Drained
  <2>2. Accepted(s, p) = Arrived(s, p)
    BY <2>1, NumbersOfEmpty DEF Accepted, Arrived
  <2>3. producers[p].pc = "done" /\ SendingAt(p) /\ AcceptedAt(s, p)
    BY <2>1 DEF Accepting, Success
  <2>4. \A k \in Due(s, p) : k < producers[p].next
    <3>1. Len(Work[p]) \in Nat /\ DOMAIN Work[p] = 1..Len(Work[p])
      BY DispatcherAssumption, LenProperties
    <3>2. producers[p].next \in Nat /\ producers[p].next > Len(Work[p])
      BY <2>3 DEF SendingAt, Accepting, Closing, TypeOK, ProducerRecord
    <3>3. QED
      BY <3>1, <3>2 DEF Due
  <2>5. QED
    BY <2>1, <2>2, <2>3, <2>4 DEF AcceptedAt
<1>2. QED
  BY <1>1, AcceptingInvariant, PTL

-----------------------------------------------------------------------------
(* The order in which a sink gets them.  A kind of record that lists a sink*)
(* twice gets every record there twice (dispatch.New shares the writer but *)
(* keeps both places in the list), so the order is strict only when no     *)
(* kind does.                                                              *)

Once(q) == \A j, k \in DOMAIN q : q[j] = q[k] => j = k

NoSinkTwice == \A kind \in Kind : Once(Outputs[kind])

Before(a, b) ==
    \A p \in Producer : \A m \in Numbers(a, p), n \in Numbers(b, p) : m < n

OrderAt(s) ==
    /\ InOrder(written[s]) /\ InOrder(writers[s].hand) /\ InOrder(queue[s])
    /\ Before(written[s], writers[s].hand)
    /\ Before(written[s], queue[s])
    /\ Before(writers[s].hand, queue[s])

NoneAhead(s, p) ==
    /\ \A k \in Accepted(s, p) : k <= producers[p].next
    /\ \/ producers[p].pc \in {"next", "done"}
       \/ producers[p].pc = "write" /\ s \in Elements(producers[p].left)
       => producers[p].next \notin Accepted(s, p)

NoneSkipped(s, p) ==
    \A k \in Arrived(s, p), i \in Due(s, p) : i < k => i \in Arrived(s, p)

Ordering ==
    /\ Accepting
    /\ \A p \in Producer : producers[p].pc = "write" => Once(producers[p].left)
    /\ \A s \in Sink : OrderAt(s)
    /\ \A s \in Sink, p \in Producer : NoneAhead(s, p) /\ NoneSkipped(s, p)

LEMMA OnceOf ==
    ASSUME NEW R, NEW q \in Seq(R), q # <<>>, Once(q)
    PROVE  Once(Tail(q)) /\ Head(q) \notin Elements(Tail(q))
<1> DEFINE t == Tail(q)
           n == Len(t)
<1>1. /\ n \in Nat /\ DOMAIN t = 1..n /\ DOMAIN q = 1..(n + 1)
      /\ q[1] = Head(q) /\ \A j \in 1..n : t[j] = q[j + 1]
  BY HeadTailProperties, LenProperties
<1> HIDE DEF t, n
<1>2. \A j \in 1..n : j + 1 \in 1..(n + 1) /\ 1 \in 1..(n + 1) /\ j + 1 # 1
  BY <1>1
<1>3. \A j, k \in 1..n : j + 1 = k + 1 => j = k
  BY <1>1
<1>4. Once(t)
  <2>1. ASSUME NEW j \in 1..n, NEW k \in 1..n, t[j] = t[k] PROVE j = k
    <3>1. q[j + 1] = q[k + 1] /\ j + 1 \in DOMAIN q /\ k + 1 \in DOMAIN q
      BY <1>1, <1>2, <2>1
    <3>2. QED
      BY <1>3, <3>1 DEF Once
  <2>2. QED
    BY <1>1, <2>1 DEF Once
<1>5. Head(q) \notin Elements(t)
  BY <1>1, <1>2 DEF Once, Elements
<1>6. QED
  BY <1>4, <1>5 DEF t

LEMMA InOrderAfterAppend ==
    ASSUME NEW q \in Seq(Record), NEW r \in Record, InOrder(q),
           \A m \in Numbers(q, r.producer) : m < r.number
    PROVE  InOrder(Append(q, r))
<1> DEFINE a == Append(q, r)
           n == Len(q)
<1> HIDE DEF Record
<1>1. /\ n \in Nat /\ DOMAIN q = 1..n /\ DOMAIN a = 1..(n + 1)
      /\ a[n + 1] = r /\ \A j \in 1..n : a[j] = q[j]
  BY AppendProperties, LenProperties
<1> HIDE DEF a, n
<1>2. SUFFICES ASSUME NEW j \in 1..(n + 1), NEW k \in 1..(n + 1), j < k,
                      a[j].producer = a[k].producer
               PROVE  a[j].number < a[k].number
  BY <1>1 DEF InOrder, a
<1>3. j \in 1..n /\ a[j] = q[j]
  BY <1>1, <1>2
<1>4. CASE k = n + 1
  <2>1. q[j].number \in Numbers(q, r.producer)
    BY <1>1, <1>2, <1>3, <1>4, NumbersOf
  <2>2. QED
    BY <1>1, <1>3, <1>4, <2>1
<1>5. CASE k # n + 1
  <2>1. k \in 1..n /\ a[k] = q[k]
    BY <1>1, <1>5
  <2>2. QED
    BY <1>1, <1>2, <1>3, <2>1 DEF InOrder
<1>6. QED
  BY <1>4, <1>5

LEMMA InOrderAfterTail ==
    ASSUME NEW q \in Seq(Record), q # <<>>, InOrder(q)
    PROVE  InOrder(Tail(q)) /\ InOrder(<<Head(q)>>) /\ Before(<<Head(q)>>, Tail(q))
<1> DEFINE t == Tail(q)
           h == <<Head(q)>>
           n == Len(t)
<1> HIDE DEF Record
<1>1. /\ n \in Nat /\ DOMAIN t = 1..n /\ DOMAIN q = 1..(n + 1)
      /\ q[1] = Head(q) /\ \A j \in 1..n : t[j] = q[j + 1]
  BY HeadTailProperties, LenProperties
<1>2. DOMAIN h = {1} /\ h[1] = q[1]
  BY <1>1
<1> HIDE DEF t, h, n
<1>3. \A j \in 1..n : j + 1 \in 1..(n + 1) /\ 1 \in 1..(n + 1) /\ 1 < j + 1
  BY <1>1
<1>4. \A j, k \in 1..n : j < k => j + 1 < k + 1
  BY <1>1
<1>5. InOrder(t)
  BY <1>1, <1>3, <1>4 DEF InOrder
<1>6. InOrder(h)
  <2>1. ~(1 < 1)
    OBVIOUS
  <2>2. QED
    BY <1>2, <2>1 DEF InOrder
<1>7. ASSUME NEW p, NEW m \in Numbers(h, p), NEW k \in Numbers(t, p) PROVE m < k
  <2>1. q[1].producer = p /\ q[1].number = m
    BY <1>2, <1>7, NumbersOf
  <2>2. PICK j \in 1..n : t[j].producer = p /\ t[j].number = k
    BY <1>1, <1>7, NumbersOf
  <2>3. QED
    BY <1>1, <1>3, <2>1, <2>2 DEF InOrder
<1>8. QED
  BY <1>5, <1>6, <1>7 DEF Before, t, h

LEMMA InOrderTogether ==
    ASSUME NEW q \in Seq(Record), NEW h \in Seq(Record), InOrder(q), InOrder(h), Before(q, h)
    PROVE  InOrder(q \o h)
<1> DEFINE a == q \o h
           n == Len(q)
           l == Len(h)
<1>0. \A r \in Record : r.producer \in Producer
  BY DEF Record
<1> HIDE DEF Record
<1>1. /\ n \in Nat /\ l \in Nat /\ DOMAIN q = 1..n /\ DOMAIN h = 1..l /\ DOMAIN a = 1..(n + l)
      /\ \A j \in 1..n : a[j] = q[j]
      /\ \A j \in 1..l : a[n + j] = h[j]
  BY ConcatProperties, LenProperties
<1> HIDE DEF a, n, l
<1>2. SUFFICES ASSUME NEW j \in 1..(n + l), NEW k \in 1..(n + l), j < k,
                      a[j].producer = a[k].producer
               PROVE  a[j].number < a[k].number
  BY <1>1 DEF InOrder, a
<1>3. \A i \in 1..(n + l) : i > n => i - n \in 1..l /\ a[i] = h[i - n]
  BY <1>1
<1>4. CASE k <= n
  BY <1>1, <1>2, <1>4 DEF InOrder
<1>5. CASE j > n
  <2>1. /\ j - n \in 1..l /\ k - n \in 1..l /\ j - n < k - n
        /\ a[j] = h[j - n] /\ a[k] = h[k - n]
    BY <1>1, <1>2, <1>3, <1>5
  <2>2. QED
    BY <1>1, <1>2, <2>1 DEF InOrder
<1>6. CASE j <= n /\ k > n
  <2>1. j \in 1..n /\ a[j] = q[j] /\ k - n \in 1..l /\ a[k] = h[k - n]
    BY <1>1, <1>3, <1>6
  <2>2. /\ q[j].number \in Numbers(q, q[j].producer)
        /\ h[k - n].number \in Numbers(h, q[j].producer)
    BY <1>1, <1>2, <2>1, NumbersOf
  <2>3. q[j].producer \in Producer
    BY <1>0, <1>1, <2>1, ElementOfSeq
  <2>4. QED
    BY <2>1, <2>2, <2>3 DEF Before
<1>7. QED
  BY <1>1, <1>4, <1>5, <1>6

LEMMA EmptyInOrder ==
    /\ InOrder(<<>>)
    /\ \A q : Before(q, <<>>) /\ Before(<<>>, q)
<1>1. InOrder(<<>>)
  BY DEF InOrder
<1>2. QED
  BY <1>1, NumbersOfEmpty DEF Before

LEMMA DueIsNatural ==
    ASSUME NEW s \in Sink, NEW p \in Producer
    PROVE  Due(s, p) \subseteq Nat
<1>1. Len(Work[p]) \in Nat /\ DOMAIN Work[p] = 1..Len(Work[p])
  BY DispatcherAssumption, LenProperties
<1>2. QED
  BY <1>1 DEF Due

(* A writer hands on its records in the order in which it takes them.      *)
LEMMA WriterOrders ==
    ASSUME Ordering, NEW s \in Sink, WriterStep(s) \/ WriteFails(s)
    PROVE  OrderAt(s)' /\ \A p \in Producer : NoneSkipped(s, p)'
<1> DEFINE W == written[s]
           H == writers[s].hand
           Q == queue[s]
<1>1. /\ DOMAIN queue = Sink /\ DOMAIN written = Sink /\ DOMAIN writers = Sink
      /\ Q \in Seq(Record) /\ W \in Seq(Record) /\ H \in Seq(Record)
      /\ writers[s].pc # "write" => H = <<>>
      /\ writers[s].pc \in {"select", "write"} => writers[s].err = "nil"
  BY DEF Ordering, Accepting, Closing, TypeOK, WriterRecord, DrainedByWriters
<1>2. /\ InOrder(W) /\ InOrder(H) /\ InOrder(Q)
      /\ Before(W, H) /\ Before(W, Q) /\ Before(H, Q)
  BY DEF Ordering, OrderAt
<1>3. ASSUME written'[s] = W
      PROVE  \A p \in Producer : NoneSkipped(s, p)'
  <2>1. \A p \in Producer : Arrived(s, p)' = Arrived(s, p) /\ Due(s, p)' = Due(s, p)
    BY <1>3 DEF Arrived, Due, BelongsIn
  <2>2. \A p \in Producer : NoneSkipped(s, p)
    BY DEF Ordering
  <2>3. QED
    BY <2>1, <2>2 DEF NoneSkipped
<1>4. ASSUME written'[s] = W, queue'[s] = Q, writers'[s].hand = <<>>
      PROVE  OrderAt(s)'
  BY <1>2, <1>4, EmptyInOrder DEF OrderAt
<1>5. CASE TakeRecord(s)
  <2>1. written'[s] = W
    BY <1>5 DEF TakeRecord
  <2>2. CASE queue' = queue /\ \E e \in {"context", "nil"} : writers'[s] = WriterAt("close", <<>>, e)
    <3>1. writers'[s].hand = <<>>
      BY <2>2 DEF WriterAt
    <3>2. QED
      BY <1>3, <1>4, <2>1, <2>2, <3>1
  <2>3. CASE /\ Q # <<>>
             /\ writers'[s] = WriterAt("write", <<Head(Q)>>, "nil")
             /\ queue'[s] = Tail(Q)
    <3>1. writers'[s].hand = <<Head(Q)>>
      BY <2>3 DEF WriterAt
    <3>2. InOrder(Tail(Q)) /\ InOrder(<<Head(Q)>>) /\ Before(<<Head(Q)>>, Tail(Q))
      BY <1>1, <1>2, <2>3, InOrderAfterTail
    <3>3. \A p : Numbers(Q, p) = Numbers(<<Head(Q)>>, p) \cup Numbers(Tail(Q), p)
      <4> HIDE DEF Record
      <4>1. QED
        BY <1>1, <2>3, NumbersOfTail
    <3>4. Before(W, <<Head(Q)>>) /\ Before(W, Tail(Q))
      BY <1>2, <3>3 DEF Before
    <3>5. OrderAt(s)'
      BY <1>2, <2>1, <2>3, <3>1, <3>2, <3>4 DEF OrderAt
    <3>6. QED
      BY <1>3, <2>1, <3>5
  <2>4. QED
    BY <1>1, <1>5, <2>2, <2>3 DEF TakeRecord
<1>6. CASE WriteRecord(s)
  <2>1. /\ queue'[s] = Q /\ written'[s] = W \o H
        /\ writers[s].pc = "write" /\ writers'[s] = WriterAt("select", <<>>, "nil")
    BY <1>1, <1>6 DEF WriteRecord
  <2>2. writers'[s].hand = <<>> /\ writers[s].err = "nil"
    BY <1>1, <2>1 DEF WriterAt
  <2>3. InOrder(W \o H)
    BY <1>1, <1>2, InOrderTogether
  <2>4. \A p : Numbers(W \o H, p) = Numbers(W, p) \cup Numbers(H, p)
    <3> HIDE DEF Record
    <3>1. QED
      BY <1>1, NumbersOfConcat
  <2>5. Before(W \o H, Q)
    BY <1>2, <2>4 DEF Before
  <2>6. OrderAt(s)'
    BY <1>2, <2>1, <2>2, <2>3, <2>5, EmptyInOrder DEF OrderAt
  <2>7. ASSUME NEW p \in Producer PROVE NoneSkipped(s, p)'
    <3>1. /\ NoneAhead(s, p) /\ NoneSkipped(s, p) /\ AcceptedAt(s, p)
          /\ producers[p].next \in Nat
      BY DEF Ordering, Accepting, Closing, TypeOK, ProducerRecord
    <3>2. /\ Arrived(s, p) = Numbers(W, p)
          /\ Arrived(s, p)' = Numbers(W, p) \cup Numbers(H, p)
          /\ Due(s, p)' = Due(s, p)
          /\ Accepted(s, p) = Numbers(W, p) \cup Numbers(H, p) \cup Numbers(Q, p)
      BY <2>1, <2>4 DEF Arrived, Accepted, Due, BelongsIn
    <3> HIDE DEF W, H, Q
    <3>3. ASSUME NEW k \in Numbers(H, p), NEW i \in Due(s, p), i < k
          PROVE  i \in Numbers(W, p) \cup Numbers(H, p)
      <4>1. k \in Nat /\ i \in Nat /\ k <= producers[p].next
        BY <3>1, <3>2, <3>3, DueIsNatural DEF NoneAhead, AcceptedAt
      <4>2. i \in Accepted(s, p)
        BY <2>2, <3>1, <3>3, <4>1 DEF AcceptedAt
      <4>3. i \notin Numbers(Q, p)
        BY <1>2, <3>3, <4>1 DEF Before
      <4>4. QED
        BY <3>2, <4>2, <4>3
    <3>4. QED
      BY <3>1, <3>2, <3>3 DEF NoneSkipped
  <2>8. QED
    BY <2>6, <2>7
<1>7. CASE WriteFails(s) \/ CloseSink(s)
  <2>1. /\ written' = written /\ queue' = queue
        /\ \E pc, e : writers'[s] = WriterAt(pc, <<>>, e)
    BY <1>1, <1>7 DEF WriteFails, CloseSink
  <2>2. writers'[s].hand = <<>>
    BY <2>1 DEF WriterAt
  <2>3. QED
    BY <1>3, <1>4, <2>1, <2>2
<1>8. QED
  BY <1>5, <1>6, <1>7 DEF WriterStep

(* A producer hands every sink the next of the records due to it.          *)
LEMMA ProducerOrders ==
    ASSUME NoSinkTwice, Ordering, NEW p \in Producer, ProducerStep(p)
    PROVE  /\ producers'[p].pc = "write" => Once(producers'[p].left)
           /\ \A s \in Sink : OrderAt(s)' /\ NoneAhead(s, p)'
<1> DEFINE i == producers[p].next
           left == producers[p].left
<1>1. /\ i \in Nat \ {0} /\ left \in Seq(Sink) /\ DOMAIN producers = Producer
      /\ queue \in [Sink -> Seq(Record)]
  BY DEF Ordering, Accepting, Closing, TypeOK, ProducerRecord
<1>2. UNCHANGED <<writers, written>> /\ Closing
  BY ProducerKeeps DEF Ordering, Accepting
<1>3. /\ producers[p].pc = "write" => Once(left)
      /\ \A s \in Sink : OrderAt(s) /\ NoneAhead(s, p) /\ AcceptedAt(s, p)
  BY DEF Ordering, Accepting
<1>4. ASSUME UNCHANGED queue
      PROVE  \A s \in Sink : Accepted(s, p)' = Accepted(s, p) /\ OrderAt(s)'
  BY <1>2, <1>3, <1>4 DEF Accepted, OrderAt
<1>5. CASE BeginRecord(p)
  <2>1. queue' = queue /\ producers[p].pc = "next"
    BY <1>5 DEF BeginRecord
  <2>2. i \in DOMAIN Work[p] /\ Work[p][i] \in Kind
    <3>1. Work[p] \in Seq(Kind) /\ Len(Work[p]) \in Nat
      BY DispatcherAssumption, LenProperties
    <3>2. i \in 1..Len(Work[p])
      BY <1>1, <1>5, <3>1 DEF BeginRecord
    <3>3. QED
      BY <3>1, <3>2
  <2>3. \/ producers'[p] = ProducerAt("failed", i, <<>>, FALSE)
        \/ producers'[p] = ProducerAt("write", i, Outputs[Work[p][i]], FALSE)
    BY <1>1, <1>5 DEF BeginRecord
  <2>4. /\ producers'[p].next = i /\ producers'[p].pc \in {"failed", "write"}
        /\ producers'[p].pc = "write" => producers'[p].left = Outputs[Work[p][i]]
    BY <2>3 DEF ProducerAt
  <2>5. producers'[p].pc = "write" => Once(producers'[p].left)
    BY <2>2, <2>4 DEF NoSinkTwice
  <2>6. ASSUME NEW s \in Sink PROVE OrderAt(s)' /\ NoneAhead(s, p)'
    BY <1>3, <1>4, <2>1, <2>4 DEF NoneAhead
  <2>7. QED
    BY <2>5, <2>6
<1>6. CASE WriteToSink(p)
  <2> DEFINE new == producers'[p]
             r == Rec(p, i)
  <2>0. PICK s : s = Head(left)
    OBVIOUS
  <2>1. /\ s \in Sink
        /\ Elements(left) = {s} \cup Elements(new.left)
        /\ left # <<>>
        /\ producers[p].pc = "write" /\ new.pc = "write" /\ new.next = i
        /\ new.left = Tail(left)
        /\ \A t \in Sink : t # s => queue'[t] = queue[t]
        /\ \/ queue'[s] = queue[s] /\ Accepted(s, p)' = Accepted(s, p)
           \/ queue'[s] = Append(queue[s], r) /\ Accepted(s, p)' = Accepted(s, p) \cup {i}
    BY <1>2, <1>6, <2>0, SinkAnswers, Zenon
  <2> HIDE DEF new
  <2>2. Once(new.left) /\ s \notin Elements(new.left) /\ s \in Elements(left)
    BY <1>1, <1>3, <2>0, <2>1, OnceOf
  <2>3. ASSUME NEW t \in Sink, t # s PROVE OrderAt(t)' /\ NoneAhead(t, p)'
    <3>1. queue'[t] = queue[t]
      BY <2>1, <2>3
    <3>2. OrderAt(t)' /\ Accepted(t, p)' = Accepted(t, p)
      BY <1>2, <1>3, <3>1 DEF OrderAt, Accepted
    <3>3. QED
      BY <1>3, <2>1, <3>2 DEF NoneAhead, new
  <2>4. NoneAhead(s, p)'
    BY <1>1, <1>3, <2>1, <2>2 DEF NoneAhead, new
  <2>5. OrderAt(s)'
    <3>1. CASE queue'[s] = queue[s]
      BY <1>2, <1>3, <2>1, <3>1 DEF OrderAt
    <3>2. CASE queue'[s] = Append(queue[s], r)
      <4>1. r \in Record /\ r.producer = p /\ r.number = i
        BY <1>1, RecordsTyped DEF Rec
      <4>2. \A k \in Accepted(s, p) : k < i
        <5>1. \A k \in Accepted(s, p) : k \in Nat /\ k <= i /\ k # i
          BY <1>3, <2>1, <2>2, DueIsNatural DEF NoneAhead, AcceptedAt
        <5>2. QED
          BY <1>1, <5>1
      <4>3. PICK q : q = queue[s]
        OBVIOUS
      <4>4. PICK x : x = r
        OBVIOUS
      <4> HIDE DEF Record, r
      <4>5. /\ q \in Seq(Record) /\ x \in Record /\ x.producer = p /\ x.number = i
        BY <1>1, <2>1, <4>1, <4>3, <4>4
      <4>6. /\ Numbers(written[s], p) \subseteq Accepted(s, p)
            /\ Numbers(writers[s].hand, p) \subseteq Accepted(s, p)
            /\ Numbers(q, p) \subseteq Accepted(s, p)
        BY <4>3 DEF Accepted
      <4>7. /\ InOrder(q) /\ Before(written[s], q) /\ Before(writers[s].hand, q)
            /\ InOrder(written[s]) /\ InOrder(writers[s].hand)
            /\ Before(written[s], writers[s].hand)
        BY <1>3, <2>1, <4>3 DEF OrderAt
      <4>8. InOrder(Append(q, x))
        BY <4>2, <4>5, <4>6, <4>7, InOrderAfterAppend
      <4>9. /\ Numbers(Append(q, x), p) = Numbers(q, p) \cup {i}
            /\ \A o : o # p => Numbers(Append(q, x), o) = Numbers(q, o)
        BY <4>5, NumbersOfAppend
      <4> HIDE DEF i
      <4>10. Before(written[s], Append(q, x)) /\ Before(writers[s].hand, Append(q, x))
        BY <4>2, <4>6, <4>7, <4>9 DEF Before
      <4>11. queue'[s] = Append(q, x)
        BY <3>2, <4>3, <4>4
      <4>12. QED
        BY <1>2, <4>7, <4>8, <4>10, <4>11 DEF OrderAt
    <3>3. QED
      BY <2>1, <3>1, <3>2
  <2>6. QED
    BY <2>2, <2>3, <2>4, <2>5 DEF new
<1>7. CASE EndRecord(p)
  <2>1. queue' = queue /\ producers[p].pc = "write"
    BY <1>7 DEF EndRecord
  <2>2. \/ producers'[p] = ProducerAt("failed", i, <<>>, TRUE)
        \/ producers'[p] = ProducerAt("next", i + 1, <<>>, FALSE)
    BY <1>1, <1>7 DEF EndRecord
  <2>3. \/ producers'[p].next = i /\ producers'[p].pc = "failed"
        \/ producers'[p].next = i + 1 /\ producers'[p].pc = "next"
    BY <2>2 DEF ProducerAt
  <2>4. ASSUME NEW s \in Sink PROVE OrderAt(s)' /\ NoneAhead(s, p)'
    <3>1. Accepted(s, p)' = Accepted(s, p) /\ OrderAt(s)'
      BY <1>4, <2>1
    <3>2. \A k \in Accepted(s, p) : k \in Nat /\ k <= i
      BY <1>3, DueIsNatural DEF NoneAhead, AcceptedAt
    <3>3. \A k \in Accepted(s, p) : k <= i + 1 /\ k # i + 1
      BY <1>1, <3>2
    <3> HIDE DEF i
    <3>4. QED
      BY <2>3, <3>1, <3>2, <3>3 DEF NoneAhead
  <2>5. QED
    BY <2>3, <2>4
<1>8. CASE EndProducer(p)
  <2>1. queue' = queue /\ producers[p].pc = "next"
    BY <1>8 DEF EndProducer
  <2>2. producers'[p] = ProducerAt("done", i, <<>>, FALSE)
    BY <1>1, <1>8 DEF EndProducer
  <2>3. producers'[p].next = i /\ producers'[p].pc = "done"
    BY <2>2 DEF ProducerAt
  <2>4. QED
    BY <1>3, <1>4, <2>1, <2>3 DEF NoneAhead
<1>9. QED
  BY <1>5, <1>6, <1>7, <1>8 DEF ProducerStep

LEMMA OrderingStep ==
    ASSUME NoSinkTwice
    PROVE  Ordering /\ [Next]_vars => Ordering'
<1> SUFFICES ASSUME Ordering, [Next]_vars
             PROVE  Ordering'
  OBVIOUS
<1>1. Accepting' /\ Accepting /\ Closing
  BY AcceptingStep DEF Ordering, Accepting
<1>2. /\ \A p \in Producer : producers[p].pc = "write" => Once(producers[p].left)
      /\ \A s \in Sink : OrderAt(s)
      /\ \A s \in Sink, p \in Producer : NoneAhead(s, p) /\ NoneSkipped(s, p)
  BY DEF Ordering
<1>3. ASSUME NEW s \in Sink, UNCHANGED written
      PROVE  \A p \in Producer : NoneSkipped(s, p)'
  <2>1. \A p \in Producer : Arrived(s, p)' = Arrived(s, p) /\ Due(s, p)' = Due(s, p)
    BY <1>3 DEF Arrived, Due, BelongsIn
  <2>2. QED
    BY <1>2, <2>1 DEF NoneSkipped
<1>4. ASSUME NEW s \in Sink, NEW p \in Producer,
             producers'[p] = producers[p], Accepted(s, p)' \subseteq Accepted(s, p)
      PROVE  NoneAhead(s, p)'
  <2>1. NoneAhead(s, p)
    BY <1>2
  <2>2. QED
    BY <1>4, <2>1 DEF NoneAhead
<1>5. ASSUME UNCHANGED <<producers, queue, writers, written>> PROVE Ordering'
  <2>1. \A s \in Sink : OrderAt(s)'
    BY <1>2, <1>5 DEF OrderAt
  <2>2. \A s \in Sink, p \in Producer : Accepted(s, p)' = Accepted(s, p)
    BY <1>5 DEF Accepted
  <2>3. QED
    BY <1>1, <1>2, <1>3, <1>4, <1>5, <2>1, <2>2 DEF Ordering
<1>6. ASSUME NEW p \in Producer, ProducerStep(p) PROVE Ordering'
  <2>1. /\ producers'[p].pc = "write" => Once(producers'[p].left)
        /\ \A s \in Sink : OrderAt(s)' /\ NoneAhead(s, p)'
    BY <1>6, ProducerOrders
  <2>2. /\ UNCHANGED <<writers, written>>
        /\ \A q \in Producer : q # p =>
              producers'[q] = producers[q] /\ \A s \in Sink : Accepted(s, q)' = Accepted(s, q)
    BY <1>1, <1>6, ProducerKeeps
  <2>3. \A s \in Sink, q \in Producer : NoneSkipped(s, q)'
    BY <1>3, <2>2
  <2>4. \A s \in Sink, q \in Producer : q # p => NoneAhead(s, q)'
    BY <1>4, <2>2
  <2>5. QED
    BY <1>1, <1>2, <2>1, <2>2, <2>3, <2>4 DEF Ordering
<1>7. ASSUME NEW s \in Sink, WriterStep(s) \/ WriteFails(s) PROVE Ordering'
  <2>1. OrderAt(s)' /\ \A p \in Producer : NoneSkipped(s, p)'
    BY <1>7, WriterOrders
  <2>2. /\ UNCHANGED producers
        /\ \A t \in Sink : t # s => UNCHANGED <<writers[t], queue[t], written[t]>>
    BY <1>7, <1>1 DEF WriterStep, TakeRecord, WriteRecord, WriteFails, CloseSink, Closing, TypeOK
  <2>3. ASSUME NEW t \in Sink, t # s
        PROVE  OrderAt(t)' /\ \A p \in Producer : NoneSkipped(t, p)' /\ NoneAhead(t, p)'
    <3>1. OrderAt(t)'
      BY <1>2, <2>2, <2>3 DEF OrderAt
    <3>2. \A p \in Producer : /\ Arrived(t, p)' = Arrived(t, p) /\ Due(t, p)' = Due(t, p)
                              /\ Accepted(t, p)' = Accepted(t, p)
      BY <2>2, <2>3 DEF Arrived, Due, BelongsIn, Accepted
    <3>3. \A p \in Producer : NoneSkipped(t, p)'
      BY <1>2, <3>2 DEF NoneSkipped
    <3>4. QED
      BY <1>4, <2>2, <3>1, <3>2, <3>3
  <2>4. ASSUME NEW p \in Producer PROVE NoneAhead(s, p)'
    <3>1. Accepted(s, p)' \subseteq Accepted(s, p)
      BY <1>1, <1>7, WriterKeeps
    <3>2. QED
      BY <1>4, <2>2, <3>1
  <2>5. QED
    BY <1>1, <1>2, <2>1, <2>2, <2>3, <2>4 DEF Ordering
<1>8. ASSUME NEW s \in Sink, UploadBreaks(s) \/ CloserStep(s) PROVE Ordering'
  BY <1>5, <1>8 DEF UploadBreaks, CloserStep, CloseChannel, CloserAnswers
<1>9. CASE Expire \/ WaitEnds \/ Return
  BY <1>5, <1>9 DEF Expire, WaitEnds, Return
<1>10. CASE UNCHANGED vars
  BY <1>5, <1>10 DEF vars
<1>11. QED
  BY <1>6, <1>7, <1>8, <1>9, <1>10 DEF Next

LEMMA InitOrdering == Init => Ordering
<1> SUFFICES ASSUME Init PROVE Ordering
  OBVIOUS
<1>1. \A s \in Sink : written[s] = <<>> /\ queue[s] = <<>> /\ writers[s].hand = <<>>
  BY DEF Init, WriterAt
<1>2. \A s \in Sink : OrderAt(s)
  BY <1>1, EmptyInOrder DEF OrderAt
<1>3. \A s \in Sink, p \in Producer : Accepted(s, p) = {} /\ Arrived(s, p) = {}
  BY <1>1, NumbersOfEmpty DEF Accepted, Arrived
<1>4. \A p \in Producer : producers[p].pc = "next"
  BY DEF Init, ProducerAt
<1>5. QED
  BY <1>2, <1>3, <1>4, InitAccepting DEF Ordering, NoneAhead, NoneSkipped

(* Whatever fails and whenever the timeout strikes, what is in a sink is,  *)
(* of each producer, its first records due there, in order, none missing   *)
(* and none twice, if no kind of record lists a sink twice (dispatch.go    *)
(* writeAll, newBufferedWriter).                                           *)
THEOREM ArrivesInOrder ==
    ASSUME NoSinkTwice
    PROVE  Spec => []PrefixArrived
<1>1. Init => Ordering
  BY InitOrdering
<1>2. Ordering /\ [Next]_vars => Ordering'
  BY OrderingStep
<1>3. Ordering => PrefixArrived
  <2> SUFFICES ASSUME Ordering, NEW s \in Sink, NEW p \in Producer
               PROVE  InOrder(written[s]) /\ Arrived(s, p) \subseteq Due(s, p) /\ NoneSkipped(s, p)
    BY DEF PrefixArrived, NoneSkipped
  <2>1. Arrived(s, p) \subseteq Due(s, p)
    BY DEF Ordering, Accepting, AcceptedAt, Accepted, Arrived
  <2>2. QED
    BY <2>1 DEF Ordering, OrderAt
<1>4. QED
  BY <1>1, <1>2, <1>3, PTL DEF Spec

=============================================================================
