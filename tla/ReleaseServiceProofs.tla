------------------------- MODULE ReleaseServiceProofs -------------------------
(***************************************************************************)
(* For every number of runs, environments, goroutines, requests, jobs and  *)
(* faults: the release service carries only verdicts that were given, and  *)
(* unless goroutines outlive their cache entries it makes at most one      *)
(* request per deployment.                                                 *)
(***************************************************************************)
EXTENDS ReleaseService, SequenceTheorems, TLAPS

-----------------------------------------------------------------------------
(* The cache: what the calls do to one key. *)

LEMMA TryAddCache ==
    ASSUME NEW c \in [Key -> Status], NEW k \in Key
    PROVE  /\ AfterTryAdd(c, k) \in [Key -> Status]
           /\ AfterTryAdd(c, k)[k] = "live"
           /\ \A x \in Key : c[x] = "live" => AfterTryAdd(c, k)[x] = "live"
BY DEF AfterTryAdd, Evicted, Status

LEMMA ExpiryCache ==
    ASSUME NEW c \in [Key -> Status], NEW k \in Key
    PROVE  /\ AfterExpiry(c, {k}) \in [Key -> Status]
           /\ \A x \in Key \ {k} : AfterExpiry(c, {k})[x] = c[x]
BY DEF AfterExpiry, Status

LEMMA ListedRequest ==
    ASSUME TypeOK, NEW n \in ListedNames
    PROVE  /\ n \in Name
           /\ requests[n].dep \in Deployment
           /\ SnapshotOf(n) \in Snapshot
BY DEF TypeOK, ListedNames, SnapshotOf, Snapshot, RequestRecord, Listed, Verdict

LEMMA DeploymentsAndNamesAreKeys == Deployment \subseteq Key /\ Name \subseteq Key
BY DEF Key

-----------------------------------------------------------------------------
(* Type correctness. *)

LEMMA InitTyped == Init => TypeOK
BY ServiceAssumption DEF Init, ServiceInit, TypeOK, RequestRecord, HandlerRecord,
   ReviewerRecord, PassRecord, Status, IdlePass

LEMMA FaultTyped ==
    ASSUME TypeOK, NEW f, Fault(f)
    PROVE  faults' \in Nat
BY DEF TypeOK, Fault

LEMMA WorldTyped == TypeOK /\ WorldStep => TypeOK'
<1> SUFFICES ASSUME TypeOK, WorldStep
             PROVE  TypeOK'
  OBVIOUS
<1> USE DEF github, teleport, chans
<1>1. ASSUME NEW d \in Deployment, RequestEnvironment(d)
      PROVE  TypeOK'
  BY <1>1, ServiceAssumption DEF TypeOK, RequestEnvironment
<1>2. ASSUME NEW d \in Deployment, WithdrawDeployment(d)
      PROVE  TypeOK'
  BY <1>2 DEF TypeOK, WithdrawDeployment
<1>3. ASSUME NEW d \in Deployment, LoseWebhook(d)
      PROVE  TypeOK'
  BY <1>3 DEF TypeOK, LoseWebhook, Fault
<1>4. ASSUME NEW n \in Name, NEW v \in Verdict, ReviewRequest(n, v)
      PROVE  TypeOK'
  <2>1. requests[n].dep \in Deployment
    BY <1>4 DEF TypeOK, ReviewRequest, RequestRecord
  <2>2. requests' \in [Name -> RequestRecord]
    BY <1>4, <2>1 DEF TypeOK, ReviewRequest, RequestRecord, Listed
  <2>3. [name |-> n, dep |-> requests[n].dep, state |-> v] \in Snapshot
    BY <2>1 DEF Snapshot, Listed
  <2>4. feed' \in Seq(Snapshot)
    <3> HIDE DEF Snapshot
    <3>1. QED
      BY <1>4, <2>3 DEF TypeOK, ReviewRequest
  <2>5. QED
    BY <1>4, <2>1, <2>2, <2>4 DEF TypeOK, ReviewRequest
<1>5. ASSUME NEW n \in Name, ExpireRequest(n)
      PROVE  TypeOK'
  <2>1. requests[n] \in [state : Listed, dep : Deployment]
    BY <1>5 DEF TypeOK, ExpireRequest, RequestRecord, Listed, Verdict
  <2> DEFINE gone == [state |-> "expired", dep |-> requests[n].dep]
  <2>2. gone \in RequestRecord
    BY <2>1 DEF RequestRecord
  <2>3. requests' = [requests EXCEPT ![n] = gone]
    <3>1. [requests[n] EXCEPT !.state = "expired"] = gone
      BY <2>1
    <3>2. requests' = [requests EXCEPT ![n] = [requests[n] EXCEPT !.state = "expired"]]
      BY <1>5 DEF ExpireRequest
    <3> HIDE DEF gone
    <3>3. QED
      BY <3>1, <3>2
  <2> HIDE DEF gone
  <2>4. requests' \in [Name -> RequestRecord]
    BY <2>2, <2>3 DEF TypeOK
  <2>5. QED
    BY <1>5, <2>4 DEF TypeOK, ExpireRequest, Fault
<1>6. CASE LoseWatchEvent
  <2>1. feed' \in Seq(Snapshot)
    <3> HIDE DEF Snapshot
    <3>1. QED
      BY <1>6, HeadTailProperties DEF TypeOK, LoseWatchEvent
  <2>2. QED
    BY <1>6, <2>1 DEF TypeOK, LoseWatchEvent, Fault
<1>7. QED
  BY <1>1, <1>2, <1>3, <1>4, <1>5, <1>6 DEF WorldStep

LEMMA SourceTyped == TypeOK /\ SourceStep => TypeOK'
<1> SUFFICES ASSUME TypeOK, SourceStep
             PROVE  TypeOK'
  OBVIOUS
<1> USE DEF github, teleport, chans
<1>1. ASSUME NEW d \in Deployment, DeliverWebhook(d)
      PROVE  TypeOK'
  BY <1>1 DEF TypeOK, DeliverWebhook
<1>2. CASE DeliverWatchEvent
  <2>1. Head(feed) \in Snapshot /\ feed' \in Seq(Snapshot)
    BY <1>2, HeadTailProperties DEF TypeOK, DeliverWatchEvent
  <2>2. reviewChan' \in Seq(Snapshot)
    <3>1. reviewChan' \in {reviewChan, Append(reviewChan, Head(feed))}
      BY <1>2 DEF DeliverWatchEvent
    <3>2. reviewChan \in Seq(Snapshot)
      BY DEF TypeOK
    <3>3. Append(reviewChan, Head(feed)) \in Seq(Snapshot)
      BY <2>1, <3>2, AppendProperties
    <3>4. QED
      BY <3>1, <3>2, <3>3
  <2>3. QED
    BY <1>2, <2>1, <2>2 DEF TypeOK, DeliverWatchEvent
<1>3. QED
  BY <1>1, <1>2 DEF SourceStep

(* A goroutine's record: what its program counter says of the rest. *)
LEMMA HandlerShape ==
    ASSUME NEW r \in HandlerRecord
    PROVE  /\ r.pc \in {"received", "find", "create"} =>
                  /\ r.dep \in Deployment
                  /\ \A p \in {"received", "find", "create"} :
                        HandlerAt(p, r.dep) \in HandlerRecord
           /\ r.pc = "forward" => r.dep \in Deployment /\ r.req \in Snapshot
<1> HIDE DEF Snapshot
<1>1. CASE r = IdleHandler
  BY <1>1 DEF IdleHandler, HandlerAt
<1>2. CASE r \in [pc : {"received", "find", "create"}, dep : Deployment, req : {None}]
  BY <1>2 DEF HandlerRecord, HandlerAt
<1>3. CASE r \in [pc : {"forward"}, dep : Deployment, req : Snapshot]
  BY <1>3
<1>4. QED
  BY <1>1, <1>2, <1>3 DEF HandlerRecord

LEMMA ReviewerShape ==
    ASSUME NEW r \in ReviewerRecord
    PROVE  r.pc # "idle" =>
              /\ r.req \in Snapshot
              /\ ReviewerAt("review", r.req) \in ReviewerRecord
<1> HIDE DEF Snapshot
<1>1. QED
  BY DEF ReviewerRecord, IdleReviewer, ReviewerAt

LEMMA HandlerTyped ==
    ASSUME TypeOK, NEW h \in Handler,
           \/ ReceiveDeploymentEvent(h) \/ HandlerStep(h)
           \/ ForwardRequest(h) \/ HandlerFails(h)
    PROVE  TypeOK'
<1> USE DEF github, teleport, chans
<1>h. handlers[h] \in HandlerRecord /\ IdleHandler \in HandlerRecord
  BY DEF TypeOK, HandlerRecord
<1>1. CASE ReceiveDeploymentEvent(h)
  <2>1. Head(deployChan) \in Deployment /\ deployChan' \in Seq(Deployment)
    BY <1>1, HeadTailProperties DEF TypeOK, ReceiveDeploymentEvent
  <2>2. handlers' \in [Handler -> HandlerRecord]
    BY <1>1, <2>1 DEF TypeOK, ReceiveDeploymentEvent, HandlerRecord, HandlerAt
  <2>3. QED
    BY <1>1, <2>1, <2>2 DEF TypeOK, ReceiveDeploymentEvent
<1>2. CASE TryAddDeployment(h)
  <2>1. handlers[h].dep \in Deployment
    BY <1>2, <1>h, HandlerShape DEF TryAddDeployment
  <2>2. cache' \in [Key -> Status]
    BY <1>2, <2>1, TryAddCache, DeploymentsAndNamesAreKeys DEF TypeOK, TryAddDeployment
  <2>3. handlers' \in [Handler -> HandlerRecord]
    BY <1>2, <1>h, HandlerShape DEF TypeOK, TryAddDeployment
  <2>4. QED
    BY <1>2, <2>2, <2>3 DEF TypeOK, TryAddDeployment
<1>3. CASE FindRequest(h)
  <2>1. handlers[h].dep \in Deployment
    BY <1>3, <1>h, HandlerShape DEF FindRequest
  <2>2. \A n \in FirstMatching(handlers[h].dep) : SnapshotOf(n) \in Snapshot
    BY ListedRequest DEF FirstMatching, Matching
  <2>3. handlers' \in [Handler -> HandlerRecord]
    <3>1. \A n \in FirstMatching(handlers[h].dep) :
             [pc |-> "forward", dep |-> handlers[h].dep, req |-> SnapshotOf(n)] \in HandlerRecord
      <4> HIDE DEF Snapshot
      <4>1. QED
        BY <2>1, <2>2 DEF HandlerRecord
    <3>2. HandlerAt("create", handlers[h].dep) \in HandlerRecord
      BY <1>3, <1>h, HandlerShape DEF FindRequest
    <3>3. QED
      BY <1>3, <1>h, <3>1, <3>2 DEF TypeOK, FindRequest
  <2>4. QED
    BY <1>3, <2>3 DEF TypeOK, FindRequest
<1>4. CASE ForwardRequest(h)
  <2>1. handlers[h].req \in Snapshot
    BY <1>4, <1>h, HandlerShape DEF ForwardRequest
  <2>2. reviewChan' \in Seq(Snapshot)
    BY <1>4, <2>1 DEF TypeOK, ForwardRequest
  <2>3. handlers' \in [Handler -> HandlerRecord]
    BY <1>4, <1>h DEF TypeOK, ForwardRequest
  <2>4. QED
    BY <1>4, <2>2, <2>3 DEF TypeOK, ForwardRequest
<1>5. CASE CreateRequest(h)
  <2>1. handlers[h].dep \in Deployment
    BY <1>5, ServiceAssumption DEF CreateRequest
  <2>2. requests' \in [Name -> RequestRecord]
    BY <1>5, <2>1 DEF TypeOK, CreateRequest, RequestRecord, Listed
  <2>3. handlers' \in [Handler -> HandlerRecord]
    BY <1>5 DEF TypeOK, CreateRequest, HandlerRecord
  <2>4. QED
    BY <1>5, <2>2, <2>3 DEF TypeOK, CreateRequest
<1>6. CASE RefuseUnconfigured(h)
  BY <1>6 DEF TypeOK, RefuseUnconfigured, HandlerRecord
<1>7. CASE HandlerFails(h)
  BY <1>7 DEF TypeOK, HandlerFails, HandlerRecord, Fault
<1>8. QED
  BY <1>1, <1>2, <1>3, <1>4, <1>5, <1>6, <1>7 DEF HandlerStep

LEMMA ReviewerTyped ==
    ASSUME TypeOK, NEW w \in Reviewer,
           ReceiveReview(w) \/ ReviewerStep(w) \/ ReviewFails(w)
    PROVE  TypeOK'
<1> USE DEF github, teleport, chans
<1>w. reviewers[w] \in ReviewerRecord /\ IdleReviewer \in ReviewerRecord
  BY DEF TypeOK, ReviewerRecord
<1>1. CASE ReceiveReview(w)
  <2>1. Head(reviewChan) \in Snapshot /\ reviewChan' \in Seq(Snapshot)
    BY <1>1, HeadTailProperties DEF TypeOK, ReceiveReview
  <2>2. reviewers' \in [Reviewer -> ReviewerRecord]
    BY <1>1, <2>1 DEF TypeOK, ReceiveReview, ReviewerRecord, ReviewerAt
  <2>3. QED
    BY <1>1, <2>1, <2>2 DEF TypeOK, ReceiveReview
<1>2. CASE TryAddReview(w)
  <2>1. reviewers[w].req.name \in Name
    BY <1>2, <1>w, ReviewerShape DEF TryAddReview, Snapshot
  <2>2. cache' \in [Key -> Status]
    BY <1>2, <2>1, TryAddCache, DeploymentsAndNamesAreKeys DEF TypeOK, TryAddReview
  <2>3. reviewers' \in [Reviewer -> ReviewerRecord]
    BY <1>2, <1>w, ReviewerShape DEF TypeOK, TryAddReview
  <2>4. QED
    BY <1>2, <2>2, <2>3 DEF TypeOK, TryAddReview
<1>3. CASE ReviewDeployment(w)
  <2>1. reviewers' \in [Reviewer -> ReviewerRecord]
    BY <1>3 DEF TypeOK, ReviewDeployment, ReviewerRecord
  <2>2. gate' \in [Deployment -> {"none", "waiting", "approved", "rejected", "gone"}]
    BY <1>3 DEF TypeOK, ReviewDeployment, Decision
  <2>3. QED
    BY <1>3, <2>1, <2>2 DEF TypeOK, ReviewDeployment
<1>4. CASE ReviewFails(w)
  BY <1>4 DEF TypeOK, ReviewFails, ReviewerRecord, Fault
<1>5. QED
  BY <1>1, <1>2, <1>3, <1>4 DEF ReviewerStep

LEMMA PassTyped == TypeOK /\ (PassStep \/ PassSend \/ PassFails) => TypeOK'
<1> SUFFICES ASSUME TypeOK, PassStep \/ PassSend \/ PassFails
             PROVE  TypeOK'
  OBVIOUS
<1> USE DEF github, teleport, chans
<1>1. CASE PassListRuns
  <2>1. WaitingRuns \subseteq Run
    BY ServiceAssumption DEF WaitingRuns
  <2>2. pass' \in PassRecord
    BY <1>1, <2>1 DEF PassListRuns, PassRecord, IdlePass
  <2>3. QED
    BY <1>1, <2>2 DEF TypeOK, PassListRuns
<1>2. CASE PassIndexRequests
  <2>1. \A n \in ListedNames : SnapshotOf(n) \in Snapshot
    BY ListedRequest
  <2>2. \A r : Indexed(r) \subseteq ListedNames
    BY DEF Indexed, NamesOfRun
  <2>3. {SnapshotOf(n) : n \in {m \in UNION {Indexed(r) : r \in pass.runs} :
                                   requests[m].state \in Reconciled}} \subseteq Snapshot
    BY <2>1, <2>2
  <2>4. pass' \in PassRecord
    <3> HIDE DEF Snapshot
    <3>1. QED
      BY <1>2, <2>3 DEF TypeOK, PassIndexRequests, PassRecord, IdlePass
  <2>5. QED
    BY <1>2, <2>4 DEF TypeOK, PassIndexRequests
<1>3. ASSUME NEW r \in Run, PassGetPending(r)
      PROVE  TypeOK'
  BY <1>3 DEF TypeOK, PassGetPending, PassRecord
<1>4. CASE PassSkipProcessed
  BY <1>4 DEF TypeOK, PassSkipProcessed, PassRecord, Unprocessed
<1>5. ASSUME NEW d \in Deployment, PassSendEvent(d)
      PROVE  TypeOK'
  <2>1. pass' \in PassRecord
    BY <1>5 DEF TypeOK, PassSendEvent, PassRecord
  <2>2. QED
    BY <1>5, <2>1 DEF TypeOK, PassSendEvent
<1>6. ASSUME NEW req \in pass.reviewed, PassSendReview(req)
      PROVE  TypeOK'
  <2>1. req \in Snapshot /\ pass' \in PassRecord
    BY <1>6 DEF TypeOK, PassSendReview, PassRecord
  <2>2. QED
    BY <1>6, <2>1 DEF TypeOK, PassSendReview
<1>7. CASE PassEnds
  BY <1>7 DEF TypeOK, PassEnds, PassRecord, IdlePass
<1>8. CASE PassFails
  BY <1>8 DEF TypeOK, PassFails, PassRecord, IdlePass, Fault
<1>9. QED
  BY <1>1, <1>2, <1>3, <1>4, <1>5, <1>6, <1>7, <1>8 DEF PassStep, PassSend

LEMMA ExpiryTyped ==
    ASSUME TypeOK, NEW k \in Key, ExpireEntry(k)
    PROVE  TypeOK'
BY ExpiryCache DEF TypeOK, ExpireEntry, github, teleport, chans

LEMMA CrashTyped == TypeOK /\ Crash => TypeOK'
BY DEF TypeOK, Crash, Fault, Status, HandlerRecord, ReviewerRecord, PassRecord, IdlePass

LEMMA TypeStep == TypeOK /\ [Next]_vars => TypeOK'
<1> SUFFICES ASSUME TypeOK, [Next]_vars
             PROVE  TypeOK'
  OBVIOUS
<1>1. CASE UNCHANGED vars
  BY <1>1 DEF TypeOK, vars
<1>2. CASE Next
  BY <1>2, WorldTyped, SourceTyped, HandlerTyped, ReviewerTyped, PassTyped,
     ExpiryTyped, CrashTyped DEF Next
<1>3. QED
  BY <1>1, <1>2

(* The state has its types in every reachable state: whatever request a    *)
(* goroutine, a channel or the watcher's stream holds a copy of was listed *)
(* when the copy was made.                                                 *)
THEOREM TypeCorrect == Spec => []TypeOK
BY InitTyped, TypeStep, PTL DEF Spec

-----------------------------------------------------------------------------
(* Provenance: whatever carries a verdict through the service, the stream, *)
(* the channel, a goroutine or a pass, carries one that was given on the   *)
(* deployment it names.  Verdicts are final, so an old copy stays true.    *)

BackedSnapshot == {s \in Snapshot : s.state \in Verdict /\ <<s.dep, s.state>> \in verdicts}

RequestsBacked ==
    \A n \in Name : requests[n].state \in Verdict =>
                       <<requests[n].dep, requests[n].state>> \in verdicts

CarriersBacked ==
    /\ feed \in Seq(BackedSnapshot)
    /\ reviewChan \in Seq(BackedSnapshot)
    /\ \A h \in Handler : handlers[h].pc = "forward" => handlers[h].req \in BackedSnapshot
    /\ \A w \in Reviewer : reviewers[w].pc # "idle" => reviewers[w].req \in BackedSnapshot
    /\ pass.reviewed \subseteq BackedSnapshot

Provenance == TypeOK /\ RequestsBacked /\ CarriersBacked

LEMMA InitBacked == Init => RequestsBacked /\ CarriersBacked
BY DEF Init, ServiceInit, RequestsBacked, CarriersBacked, Verdict, IdleHandler,
   IdleReviewer, IdlePass, HandlerAt, ReviewerAt

LEMMA VerdictsKept == verdicts' = verdicts => BackedSnapshot' = BackedSnapshot
BY DEF BackedSnapshot

(* A copy taken of a decided request is backed. *)
LEMMA DecidedBacked ==
    ASSUME Provenance, NEW n \in ListedNames, requests[n].state # "PENDING"
    PROVE  SnapshotOf(n) \in BackedSnapshot
<1>1. SnapshotOf(n) \in Snapshot /\ n \in Name
  BY ListedRequest DEF Provenance
<1>2. requests[n].state \in Verdict
  BY DEF ListedNames, Listed
<1>3. <<requests[n].dep, requests[n].state>> \in verdicts
  BY <1>1, <1>2 DEF Provenance, RequestsBacked
<1>4. QED
  BY <1>1, <1>2, <1>3 DEF BackedSnapshot, SnapshotOf

LEMMA WorldBacked == Provenance /\ WorldStep => RequestsBacked' /\ CarriersBacked'
<1> SUFFICES ASSUME Provenance, WorldStep
             PROVE  RequestsBacked' /\ CarriersBacked'
  OBVIOUS
<1> USE DEF github, teleport, chans
<1>1. ASSUME NEW d \in Deployment,
             RequestEnvironment(d) \/ WithdrawDeployment(d) \/ LoseWebhook(d)
      PROVE  RequestsBacked' /\ CarriersBacked'
  <2>1. /\ UNCHANGED <<requests, verdicts, feed, reviewChan, handlers, reviewers, pass>>
    BY <1>1 DEF RequestEnvironment, WithdrawDeployment, LoseWebhook
  <2>2. QED
    BY <2>1, VerdictsKept DEF Provenance, RequestsBacked, CarriersBacked
<1>2. ASSUME NEW n \in Name, NEW v \in Verdict, ReviewRequest(n, v)
      PROVE  RequestsBacked' /\ CarriersBacked'
  <2>1. requests[n].dep \in Deployment
    BY <1>2 DEF Provenance, TypeOK, ReviewRequest, RequestRecord
  <2>2. BackedSnapshot \subseteq BackedSnapshot'
    BY <1>2 DEF BackedSnapshot, ReviewRequest
  <2>3. [name |-> n, dep |-> requests[n].dep, state |-> v] \in BackedSnapshot'
    BY <1>2, <2>1 DEF BackedSnapshot, Snapshot, Listed, ReviewRequest
  <2>4. RequestsBacked'
    <3>1. \A m \in Name \ {n} : requests'[m] = requests[m]
      BY <1>2 DEF Provenance, TypeOK, ReviewRequest
    <3>2. requests'[n].state = v /\ requests'[n].dep = requests[n].dep
      BY <1>2 DEF Provenance, TypeOK, ReviewRequest, RequestRecord
    <3>3. QED
      BY <1>2, <3>1, <3>2 DEF Provenance, RequestsBacked, ReviewRequest
  <2>5. feed \in Seq(BackedSnapshot') /\ reviewChan \in Seq(BackedSnapshot')
    BY <2>2, SeqMonotonic DEF Provenance, CarriersBacked
  <2>6. feed' \in Seq(BackedSnapshot')
    BY <1>2, <2>3, <2>5, AppendProperties DEF ReviewRequest
  <2>7. QED
    BY <1>2, <2>2, <2>4, <2>5, <2>6 DEF Provenance, CarriersBacked, ReviewRequest
<1>3. ASSUME NEW n \in Name, ExpireRequest(n)
      PROVE  RequestsBacked' /\ CarriersBacked'
  <2>1. RequestsBacked'
    BY <1>3 DEF Provenance, TypeOK, RequestsBacked, ExpireRequest, Verdict
  <2>2. QED
    BY <1>3, <2>1, VerdictsKept DEF Provenance, CarriersBacked, ExpireRequest
<1>4. CASE LoseWatchEvent
  <2>1. Tail(feed) \in Seq(BackedSnapshot)
    BY <1>4, HeadTailProperties DEF Provenance, CarriersBacked, LoseWatchEvent
  <2>2. QED
    BY <1>4, <2>1, VerdictsKept DEF Provenance, RequestsBacked, CarriersBacked, LoseWatchEvent
<1>5. QED
  BY <1>1, <1>2, <1>3, <1>4 DEF WorldStep

LEMMA SourceBacked == Provenance /\ SourceStep => RequestsBacked' /\ CarriersBacked'
<1> SUFFICES ASSUME Provenance, SourceStep
             PROVE  RequestsBacked' /\ CarriersBacked'
  OBVIOUS
<1> USE DEF github, teleport, chans
<1>1. ASSUME NEW d \in Deployment, DeliverWebhook(d)
      PROVE  RequestsBacked' /\ CarriersBacked'
  BY <1>1, VerdictsKept DEF Provenance, RequestsBacked, CarriersBacked, DeliverWebhook
<1>2. CASE DeliverWatchEvent
  <2>1. Head(feed) \in BackedSnapshot /\ Tail(feed) \in Seq(BackedSnapshot)
    BY <1>2, HeadTailProperties DEF Provenance, CarriersBacked, DeliverWatchEvent
  <2>2. reviewChan \in Seq(BackedSnapshot)
    BY DEF Provenance, CarriersBacked
  <2>3. Append(reviewChan, Head(feed)) \in Seq(BackedSnapshot)
    BY <2>1, <2>2, AppendProperties
  <2>4. reviewChan' \in {reviewChan, Append(reviewChan, Head(feed))} /\ feed' = Tail(feed)
    BY <1>2 DEF DeliverWatchEvent
  <2>5. feed' \in Seq(BackedSnapshot) /\ reviewChan' \in Seq(BackedSnapshot)
    BY <2>1, <2>2, <2>3, <2>4
  <2>6. UNCHANGED <<requests, verdicts, handlers, reviewers, pass>>
    BY <1>2 DEF DeliverWatchEvent
  <2>7. QED
    BY <2>5, <2>6, VerdictsKept DEF Provenance, RequestsBacked, CarriersBacked
<1>3. QED
  BY <1>1, <1>2 DEF SourceStep

LEMMA HandlerBacked ==
    ASSUME Provenance, NEW h \in Handler,
           \/ ReceiveDeploymentEvent(h) \/ HandlerStep(h)
           \/ ForwardRequest(h) \/ HandlerFails(h)
    PROVE  RequestsBacked' /\ CarriersBacked'
<1> USE DEF github, teleport, chans
<1>0. handlers \in [Handler -> HandlerRecord] /\ requests \in [Name -> RequestRecord]
  BY DEF Provenance, TypeOK
<1>1. CASE \/ ReceiveDeploymentEvent(h) \/ TryAddDeployment(h)
           \/ RefuseUnconfigured(h) \/ HandlerFails(h)
  <2>1. UNCHANGED <<requests, verdicts, feed, reviewChan, reviewers, pass>>
    BY <1>1 DEF ReceiveDeploymentEvent, TryAddDeployment, RefuseUnconfigured, HandlerFails
  <2>2. /\ handlers'[h].pc # "forward"
        /\ \A g \in Handler \ {h} : handlers'[g] = handlers[g]
    <3>1. CASE ReceiveDeploymentEvent(h)
      BY <1>0, <3>1 DEF ReceiveDeploymentEvent, HandlerAt
    <3>2. CASE TryAddDeployment(h)
      BY <1>0, <3>2 DEF TryAddDeployment, IdleHandler, HandlerAt
    <3>3. CASE RefuseUnconfigured(h) \/ HandlerFails(h)
      BY <1>0, <3>3 DEF RefuseUnconfigured, HandlerFails, IdleHandler, HandlerAt
    <3>4. QED
      BY <1>1, <3>1, <3>2, <3>3
  <2>3. QED
    BY <2>1, <2>2, VerdictsKept DEF Provenance, RequestsBacked, CarriersBacked
<1>2. CASE FindRequest(h)
  <2>1. UNCHANGED <<requests, verdicts, feed, reviewChan, reviewers, pass>>
    BY <1>2 DEF FindRequest
  <2>2. \A n \in FirstMatching(handlers[h].dep) :
           requests[n].state # "PENDING" => SnapshotOf(n) \in BackedSnapshot
    BY DecidedBacked DEF FirstMatching, Matching
  <2>3. /\ handlers'[h].pc = "forward" => handlers'[h].req \in BackedSnapshot
        /\ \A g \in Handler \ {h} : handlers'[g] = handlers[g]
    <3>1. \/ handlers' = [handlers EXCEPT ![h] = HandlerAt("create", handlers[h].dep)]
          \/ handlers' = [handlers EXCEPT ![h] = IdleHandler]
          \/ \E n \in FirstMatching(handlers[h].dep) :
                /\ requests[n].state # "PENDING"
                /\ handlers' = [handlers EXCEPT ![h] =
                      [pc |-> "forward", dep |-> handlers[h].dep, req |-> SnapshotOf(n)]]
      BY <1>2 DEF FindRequest
    <3>2. QED
      BY <1>0, <2>2, <3>1 DEF IdleHandler, HandlerAt
  <2>4. QED
    BY <2>1, <2>3, VerdictsKept DEF Provenance, RequestsBacked, CarriersBacked
<1>3. CASE ForwardRequest(h)
  <2>1. handlers[h].req \in BackedSnapshot /\ reviewChan \in Seq(BackedSnapshot)
    BY <1>3 DEF ForwardRequest, Provenance, CarriersBacked
  <2>2. reviewChan' \in Seq(BackedSnapshot)
    BY <1>3, <2>1, AppendProperties DEF ForwardRequest
  <2>3. /\ handlers'[h].pc # "forward"
        /\ \A g \in Handler \ {h} : handlers'[g] = handlers[g]
    BY <1>0, <1>3 DEF ForwardRequest, IdleHandler, HandlerAt
  <2>4. QED
    BY <1>3, <2>2, <2>3, VerdictsKept
       DEF ForwardRequest, Provenance, RequestsBacked, CarriersBacked
<1>4. CASE CreateRequest(h)
  <2>1. UNCHANGED <<verdicts, feed, reviewChan, reviewers, pass>>
    BY <1>4 DEF CreateRequest
  <2>2. RequestsBacked'
    BY <1>0, <1>4 DEF CreateRequest, Provenance, RequestsBacked, Verdict
  <2>3. /\ handlers'[h].pc # "forward"
        /\ \A g \in Handler \ {h} : handlers'[g] = handlers[g]
    BY <1>0, <1>4 DEF CreateRequest, IdleHandler, HandlerAt
  <2>4. QED
    BY <2>1, <2>2, <2>3, VerdictsKept DEF Provenance, CarriersBacked
<1>5. QED
  BY <1>1, <1>2, <1>3, <1>4 DEF HandlerStep

LEMMA ReviewerBacked ==
    ASSUME Provenance, NEW w \in Reviewer,
           ReceiveReview(w) \/ ReviewerStep(w) \/ ReviewFails(w)
    PROVE  RequestsBacked' /\ CarriersBacked'
<1> USE DEF github, teleport, chans
<1>0. reviewers \in [Reviewer -> ReviewerRecord]
  BY DEF Provenance, TypeOK
<1>1. CASE ReceiveReview(w)
  <2>1. Head(reviewChan) \in BackedSnapshot /\ reviewChan' \in Seq(BackedSnapshot)
    BY <1>1, HeadTailProperties DEF ReceiveReview, Provenance, CarriersBacked
  <2>2. \A v \in Reviewer : reviewers'[v].pc # "idle" => reviewers'[v].req \in BackedSnapshot
    BY <1>0, <1>1, <2>1 DEF ReceiveReview, ReviewerAt, Provenance, CarriersBacked
  <2>3. QED
    BY <1>1, <2>1, <2>2, VerdictsKept
       DEF ReceiveReview, Provenance, RequestsBacked, CarriersBacked
<1>2. CASE TryAddReview(w) \/ ReviewDeployment(w) \/ ReviewFails(w)
  <2>1. UNCHANGED <<requests, verdicts, feed, reviewChan, handlers, pass>>
    BY <1>2 DEF TryAddReview, ReviewDeployment, ReviewFails
  <2>2. \/ /\ reviewers[w].pc # "idle"
           /\ reviewers' = [reviewers EXCEPT ![w] = ReviewerAt("review", reviewers[w].req)]
        \/ reviewers' = [reviewers EXCEPT ![w] = IdleReviewer]
    BY <1>2 DEF TryAddReview, ReviewDeployment, ReviewFails
  <2>3. \A v \in Reviewer : reviewers'[v].pc # "idle" => reviewers'[v].req \in BackedSnapshot
    BY <1>0, <2>2 DEF IdleReviewer, ReviewerAt, Provenance, CarriersBacked
  <2>4. QED
    BY <2>1, <2>3, VerdictsKept DEF Provenance, RequestsBacked, CarriersBacked
<1>3. QED
  BY <1>1, <1>2 DEF ReviewerStep

LEMMA PassBacked ==
    ASSUME Provenance, PassStep \/ PassSend \/ PassFails
    PROVE  RequestsBacked' /\ CarriersBacked'
<1> USE DEF github, teleport, chans
<1>0. pass \in PassRecord
  BY DEF Provenance, TypeOK
<1>1. CASE PassIndexRequests
  <2>1. \A n \in {m \in UNION {Indexed(r) : r \in pass.runs} : requests[m].state \in Reconciled} :
           SnapshotOf(n) \in BackedSnapshot
    BY DecidedBacked DEF Indexed, NamesOfRun, Reconciled
  <2>2. pass'.reviewed \subseteq BackedSnapshot
    <3> HIDE DEF BackedSnapshot
    <3>1. QED
      BY <1>1, <2>1 DEF PassIndexRequests, IdlePass
  <2>3. QED
    BY <1>1, <2>2, VerdictsKept DEF PassIndexRequests, Provenance, RequestsBacked, CarriersBacked
<1>2. ASSUME NEW req \in pass.reviewed, PassSendReview(req)
      PROVE  RequestsBacked' /\ CarriersBacked'
  <2>1. req \in BackedSnapshot /\ reviewChan \in Seq(BackedSnapshot)
    BY DEF Provenance, CarriersBacked
  <2>2. reviewChan' \in Seq(BackedSnapshot)
    BY <1>2, <2>1, AppendProperties DEF PassSendReview
  <2>3. pass'.reviewed \subseteq pass.reviewed
    BY <1>0, <1>2 DEF PassSendReview, PassRecord
  <2>4. QED
    BY <1>2, <2>2, <2>3, VerdictsKept DEF PassSendReview, Provenance, RequestsBacked, CarriersBacked
<1>3. CASE \/ PassListRuns \/ PassSkipProcessed \/ PassEnds \/ PassFails
           \/ \E r \in Run : PassGetPending(r)
           \/ \E d \in Deployment : PassSendEvent(d)
  <2>1. pass'.reviewed \subseteq pass.reviewed
    <3>0. CASE PassListRuns
      <4>1. pass'.reviewed = {}
        BY <3>0 DEF PassListRuns, IdlePass
      <4>2. QED
        BY <4>1
    <3>1. CASE PassEnds \/ PassFails
      <4>1. pass'.reviewed = {}
        BY <3>1 DEF PassEnds, PassFails, IdlePass
      <4>2. QED
        BY <4>1
    <3>2. CASE PassSkipProcessed
      BY <1>0, <3>2 DEF PassSkipProcessed, PassRecord
    <3>3. ASSUME NEW r \in Run, PassGetPending(r)
          PROVE  pass'.reviewed \subseteq pass.reviewed
      BY <1>0, <3>3 DEF PassGetPending, PassRecord
    <3>4. ASSUME NEW d \in Deployment, PassSendEvent(d)
          PROVE  pass'.reviewed \subseteq pass.reviewed
      BY <1>0, <3>4 DEF PassSendEvent, PassRecord
    <3>5. QED
      BY <1>3, <3>0, <3>1, <3>2, <3>3, <3>4
  <2>2. UNCHANGED <<requests, verdicts, feed, reviewChan, handlers, reviewers>>
    BY <1>3 DEF PassListRuns, PassSkipProcessed, PassEnds, PassFails, PassGetPending, PassSendEvent
  <2>3. QED
    BY <2>1, <2>2, VerdictsKept DEF Provenance, RequestsBacked, CarriersBacked
<1>4. QED
  BY <1>1, <1>2, <1>3 DEF PassStep, PassSend

LEMMA ExpiryBacked ==
    ASSUME Provenance, NEW k \in Key, ExpireEntry(k)
    PROVE  RequestsBacked' /\ CarriersBacked'
BY VerdictsKept DEF Provenance, RequestsBacked, CarriersBacked, ExpireEntry, github, teleport, chans

LEMMA CrashBacked == Provenance /\ Crash => RequestsBacked' /\ CarriersBacked'
BY VerdictsKept DEF Provenance, RequestsBacked, CarriersBacked, Crash, IdleHandler,
   IdleReviewer, IdlePass, HandlerAt, ReviewerAt

LEMMA ProvenanceStep == Provenance /\ [Next]_vars => Provenance'
<1> SUFFICES ASSUME Provenance, [Next]_vars
             PROVE  Provenance'
  OBVIOUS
<1>1. TypeOK'
  BY TypeStep DEF Provenance
<1>2. CASE UNCHANGED vars
  BY <1>1, <1>2, VerdictsKept DEF Provenance, RequestsBacked, CarriersBacked, vars
<1>3. CASE Next
  BY <1>1, <1>3, WorldBacked, SourceBacked, HandlerBacked, ReviewerBacked, PassBacked,
     ExpiryBacked, CrashBacked DEF Next, Provenance
<1>4. QED
  BY <1>2, <1>3

LEMMA ProvenanceInvariant == Spec => []Provenance
<1>1. Init => Provenance
  BY InitTyped, InitBacked DEF Provenance
<1>2. QED
  BY <1>1, ProvenanceStep, PTL DEF Spec

-----------------------------------------------------------------------------
(* Every step of the service is a step of the gate or leaves it alone. *)

LEMMA GateStep ==
    ASSUME Provenance, [Next]_vars
    PROVE  [Gate!Next]_(Gate!vars)
<1> USE DEF github, teleport, chans
<1> USE DEF Gate!vars
<1>1. ASSUME NEW d \in Deployment, RequestEnvironment(d)
      PROVE  Gate!Next
  BY <1>1 DEF RequestEnvironment, Gate!Next, Gate!Arrive
<1>2. ASSUME NEW d \in Deployment, WithdrawDeployment(d)
      PROVE  Gate!Next
  BY <1>2 DEF WithdrawDeployment, Gate!Next, Gate!Leave
<1>3. ASSUME NEW n \in Name, NEW v \in Verdict, ReviewRequest(n, v)
      PROVE  Gate!Next
  <2>1. requests[n].dep \in Deployment
    BY <1>3 DEF Provenance, TypeOK, ReviewRequest, RequestRecord
  <2>2. Gate!GiveVerdict(requests[n].dep, v)
    BY <1>3 DEF ReviewRequest, Gate!GiveVerdict
  <2>3. QED
    BY <2>1, <2>2 DEF Gate!Next
<1>4. ASSUME NEW w \in Reviewer, ReviewDeployment(w)
      PROVE  Gate!Next \/ UNCHANGED Gate!vars
  <2> DEFINE req == reviewers[w].req
  <2>1. req \in BackedSnapshot
    BY <1>4 DEF ReviewDeployment, Provenance, CarriersBacked
  <2>2. req.dep \in Deployment /\ req.state \in Verdict /\ <<req.dep, req.state>> \in verdicts
    BY <2>1 DEF BackedSnapshot, Snapshot
  <2>3. CASE gate[req.dep] # "waiting"
    BY <1>4, <2>3 DEF ReviewDeployment
  <2>4. CASE gate[req.dep] = "waiting" /\ req.state = "APPROVED"
    <3>1. Gate!Approve(req.dep)
      BY <1>4, <2>2, <2>4 DEF ReviewDeployment, Decision, Gate!Approve
    <3>2. QED
      BY <2>2, <3>1 DEF Gate!Next
  <2>5. CASE gate[req.dep] = "waiting" /\ req.state # "APPROVED"
    <3>1. Gate!Reject(req.dep)
      BY <1>4, <2>2, <2>5 DEF ReviewDeployment, Decision, Gate!Reject
    <3>2. QED
      BY <2>2, <3>1 DEF Gate!Next
  <2>6. QED
    BY <2>3, <2>4, <2>5
<1>5. ASSUME \/ \E d \in Deployment : LoseWebhook(d)
             \/ \E n \in Name : ExpireRequest(n)
             \/ LoseWatchEvent \/ SourceStep
      PROVE  UNCHANGED Gate!vars
  BY <1>5 DEF LoseWebhook, ExpireRequest, LoseWatchEvent, SourceStep, DeliverWebhook,
     DeliverWatchEvent
<1>6. ASSUME NEW h \in Handler,
             \/ ReceiveDeploymentEvent(h) \/ HandlerStep(h)
             \/ ForwardRequest(h) \/ HandlerFails(h)
      PROVE  UNCHANGED Gate!vars
  BY <1>6 DEF ReceiveDeploymentEvent, HandlerStep, ForwardRequest, HandlerFails,
     TryAddDeployment, FindRequest, CreateRequest, RefuseUnconfigured
<1>7. ASSUME NEW w \in Reviewer, ReceiveReview(w) \/ TryAddReview(w) \/ ReviewFails(w)
      PROVE  UNCHANGED Gate!vars
  BY <1>7 DEF ReceiveReview, TryAddReview, ReviewFails
<1>8. ASSUME PassStep \/ PassSend \/ PassFails
      PROVE  UNCHANGED Gate!vars
  BY <1>8 DEF PassStep, PassSend, PassFails, PassListRuns, PassIndexRequests,
     PassGetPending, PassSkipProcessed, PassSendEvent, PassSendReview, PassEnds
<1>9. ASSUME Crash \/ \E k \in Key : ExpireEntry(k)
      PROVE  UNCHANGED Gate!vars
  BY <1>9 DEF Crash, ExpireEntry
<1>10. ASSUME UNCHANGED vars
       PROVE  UNCHANGED Gate!vars
  BY <1>10 DEF vars
<1>11. QED
  BY <1>1, <1>2, <1>3, <1>4, <1>5, <1>6, <1>7, <1>8, <1>9, <1>10
     DEF Next, WorldStep, ReviewerStep

(* What the service does to the deployments is what DeploymentGate allows: *)
(* it lets one through only on an approval that somebody gave on a request *)
(* of that very run and environment, and turns one away only on another    *)
(* verdict, under any faults and with any number of goroutines.            *)
THEOREM GateImplemented == Spec => ImplementsGate
<1>1. Init => Gate!Init
  BY DEF Init, Gate!Init
<1>2. QED
  BY <1>1, GateStep, ProvenanceInvariant, PTL DEF Spec, ImplementsGate, Gate!Spec

-----------------------------------------------------------------------------
(* Mutual exclusion by the cache, when no goroutine outlives its entry.    *)
(* NoConcurrentHandling is not inductive: that a goroutine past TryAdd has *)
(* a live entry is what makes TryAdd refuse its key to everybody else.     *)

Busy == {"find", "create", "forward"}

HandlersLocked == \A h \in Handler : handlers[h].pc \in Busy => cache[handlers[h].dep] = "live"

ReviewersLocked == \A w \in Reviewer : reviewers[w].pc = "review" => cache[reviewers[w].req.name] = "live"

HandlersExclude ==
    \A g, h \in Handler :
        /\ handlers[g].pc \in Busy /\ handlers[h].pc \in Busy
        /\ handlers[g].dep = handlers[h].dep
        => g = h

ReviewersExclude ==
    \A v, w \in Reviewer :
        /\ reviewers[v].pc = "review" /\ reviewers[w].pc = "review"
        /\ reviewers[v].req.name = reviewers[w].req.name
        => v = w

(* A goroutine about to create a request has found that there is none, and *)
(* nobody else can have created one since.                                 *)
NoRequestYet == \A h \in Handler : handlers[h].pc = "create" => Matching(handlers[h].dep) = {}

HandlerLocks == HandlersLocked /\ HandlersExclude /\ NoRequestYet /\ OneRequestPerDeployment
ReviewerLocks == ReviewersLocked /\ ReviewersExclude
Exclusion == TypeOK /\ HandlerLocks /\ ReviewerLocks

LEMMA InitLocks == Init => HandlerLocks /\ ReviewerLocks
BY DEF Init, ServiceInit, HandlerLocks, ReviewerLocks, HandlersLocked, HandlersExclude,
   NoRequestYet, OneRequestPerDeployment, ReviewersLocked, ReviewersExclude, ListedNames,
   Listed, Verdict, IdleHandler, IdleReviewer, HandlerAt, ReviewerAt, Busy

(* Nothing that the locks are about changes. *)
LEMMA LocksUntouched ==
    ASSUME Exclusion, UNCHANGED <<cache, handlers, reviewers, requests>>
    PROVE  HandlerLocks' /\ ReviewerLocks'
BY DEF Exclusion, HandlerLocks, ReviewerLocks, HandlersLocked, HandlersExclude, NoRequestYet,
   OneRequestPerDeployment, ReviewersLocked, ReviewersExclude, Matching, ListedNames

(* No request is created: those listed were listed before. *)
LEMMA RequestsOnlyGo ==
    ASSUME Exclusion, UNCHANGED <<cache, handlers, reviewers>>,
           \A n \in Name : /\ requests'[n].dep = requests[n].dep
                           /\ requests'[n].state \in Listed => requests[n].state \in Listed
    PROVE  HandlerLocks' /\ ReviewerLocks'
<1>1. /\ ListedNames' \subseteq ListedNames
      /\ \A d : Matching(d)' \subseteq Matching(d)
  BY DEF ListedNames, Matching
<1>2. OneRequestPerDeployment'
  BY <1>1 DEF OneRequestPerDeployment, Exclusion, HandlerLocks, ListedNames
<1>3. NoRequestYet'
  BY <1>1 DEF NoRequestYet, Exclusion, HandlerLocks, Matching
<1>4. QED
  BY <1>2, <1>3 DEF Exclusion, HandlerLocks, ReviewerLocks, HandlersLocked, HandlersExclude,
     ReviewersLocked, ReviewersExclude

(* One handler moves, within or out of its lock; or takes a free one.      *)
LEMMA HandlerMoves ==
    ASSUME Exclusion, NEW h \in Handler, NEW r,
           handlers' = [handlers EXCEPT ![h] = r],
           UNCHANGED requests,
           \A x \in Key : cache[x] = "live" => cache'[x] = "live",
           r.pc \in Busy =>
              /\ cache'[r.dep] = "live"
              /\ r.dep = handlers[h].dep
              /\ handlers[h].pc \in Busy \/ cache[r.dep] # "live",
           r.pc = "create" => Matching(r.dep) = {}
    PROVE  HandlerLocks'
<1>1. /\ handlers'[h] = r
      /\ \A g \in Handler \ {h} : handlers'[g] = handlers[g]
  BY DEF Exclusion, TypeOK
<1>2. \A g \in Handler : handlers[g].pc \in Busy => handlers[g].dep \in Key
  BY HandlerShape, DeploymentsAndNamesAreKeys DEF Exclusion, TypeOK, Busy
<1>3. HandlersLocked'
  BY <1>1, <1>2 DEF HandlersLocked, Exclusion, HandlerLocks
<1>4. HandlersExclude'
  BY <1>1, <1>2 DEF HandlersLocked, HandlersExclude, Exclusion, HandlerLocks
<1>5. \A d : Matching(d)' = Matching(d)
  BY DEF Matching, ListedNames
<1>6. NoRequestYet'
  BY <1>1, <1>5 DEF NoRequestYet, Exclusion, HandlerLocks
<1>7. OneRequestPerDeployment'
  BY DEF OneRequestPerDeployment, ListedNames, Exclusion, HandlerLocks
<1>8. QED
  BY <1>3, <1>4, <1>6, <1>7 DEF HandlerLocks

LEMMA HandlerStepLocks ==
    ASSUME Exclusion, NEW h \in Handler,
           \/ ReceiveDeploymentEvent(h) \/ HandlerStep(h)
           \/ ForwardRequest(h) \/ HandlerFails(h)
    PROVE  HandlerLocks' /\ ReviewerLocks'
<1> USE DEF github, teleport, chans
<1>0. /\ handlers \in [Handler -> HandlerRecord] /\ requests \in [Name -> RequestRecord]
      /\ cache \in [Key -> Status]
  BY DEF Exclusion, TypeOK
<1>1. CASE \/ ReceiveDeploymentEvent(h) \/ RefuseUnconfigured(h)
           \/ ForwardRequest(h) \/ HandlerFails(h)
  <2>1. PICK r : handlers' = [handlers EXCEPT ![h] = r] /\ r.pc \notin Busy
    BY <1>1 DEF ReceiveDeploymentEvent, RefuseUnconfigured, ForwardRequest, HandlerFails,
       IdleHandler, HandlerAt, Busy
  <2>2. UNCHANGED <<requests, cache, reviewers>>
    BY <1>1 DEF ReceiveDeploymentEvent, RefuseUnconfigured, ForwardRequest, HandlerFails
  <2>3. HandlerLocks'
    BY <2>1, <2>2, HandlerMoves DEF Busy
  <2>4. QED
    BY <2>2, <2>3 DEF Exclusion, ReviewerLocks, ReviewersLocked, ReviewersExclude
<1>2. CASE TryAddDeployment(h)
  <2>1. handlers[h].dep \in Key
    BY <1>0, <1>2, HandlerShape, DeploymentsAndNamesAreKeys DEF TryAddDeployment
  <2>2. /\ cache'[handlers[h].dep] = "live"
        /\ \A x \in Key : cache[x] = "live" => cache'[x] = "live"
    BY <1>0, <1>2, <2>1, TryAddCache DEF TryAddDeployment
  <2>3. HandlerLocks'
    <3>1. CASE /\ Accepts(cache, handlers[h].dep)
               /\ handlers' = [handlers EXCEPT ![h] = HandlerAt("find", handlers[h].dep)]
      <4>1. /\ HandlerAt("find", handlers[h].dep).pc = "find"
            /\ HandlerAt("find", handlers[h].dep).dep = handlers[h].dep
        BY DEF HandlerAt
      <4>2. UNCHANGED requests
        BY <1>2 DEF TryAddDeployment
      <4>3. QED
        BY <2>2, <3>1, <4>1, <4>2, HandlerMoves DEF Accepts
    <3>2. CASE handlers' = [handlers EXCEPT ![h] = IdleHandler]
      BY <1>2, <2>2, <3>2, HandlerMoves DEF TryAddDeployment, IdleHandler, HandlerAt, Busy
    <3>3. QED
      BY <1>2, <3>1, <3>2 DEF TryAddDeployment
  <2>4. ReviewerLocks'
    <3>1. \A w \in Reviewer : reviewers[w].pc = "review" => reviewers[w].req.name \in Key
      BY ReviewerShape, DeploymentsAndNamesAreKeys DEF Exclusion, TypeOK, Snapshot
    <3>2. QED
      BY <1>2, <2>2, <3>1
         DEF TryAddDeployment, Exclusion, ReviewerLocks, ReviewersLocked, ReviewersExclude
  <2>5. QED
    BY <2>3, <2>4
<1>3. CASE FindRequest(h)
  <2>1. UNCHANGED <<requests, cache, reviewers>> /\ handlers[h].pc \in Busy
    BY <1>3 DEF FindRequest, Busy
  <2> DEFINE Moves(r) == /\ handlers' = [handlers EXCEPT ![h] = r]
                         /\ r.pc \in Busy => r.dep = handlers[h].dep
                         /\ r.pc = "create" => Matching(r.dep) = {}
  <2>2. \E r : Moves(r)
    <3>1. CASE /\ Matching(handlers[h].dep) = {}
               /\ handlers' = [handlers EXCEPT ![h] = HandlerAt("create", handlers[h].dep)]
      <4>1. Moves(HandlerAt("create", handlers[h].dep))
        BY <3>1 DEF HandlerAt
      <4>2. QED
        BY <4>1
    <3>2. CASE handlers' = [handlers EXCEPT ![h] = IdleHandler]
      <4>1. Moves(IdleHandler)
        BY <3>2 DEF IdleHandler, HandlerAt, Busy
      <4>2. QED
        BY <4>1
    <3>3. ASSUME NEW n, handlers' = [handlers EXCEPT ![h] =
                    [pc |-> "forward", dep |-> handlers[h].dep, req |-> SnapshotOf(n)]]
          PROVE  \E r : Moves(r)
      <4>1. Moves([pc |-> "forward", dep |-> handlers[h].dep, req |-> SnapshotOf(n)])
        BY <3>3
      <4>2. QED
        BY <4>1
    <3>4. QED
      <4> HIDE DEF Moves
      <4>1. QED
        BY <1>3, <3>1, <3>2, <3>3 DEF FindRequest
  <2>3. cache[handlers[h].dep] = "live"
    BY <2>1 DEF Exclusion, HandlerLocks, HandlersLocked
  <2>4. HandlerLocks'
    BY <2>1, <2>2, <2>3, HandlerMoves
  <2>5. QED
    BY <2>1, <2>4 DEF Exclusion, ReviewerLocks, ReviewersLocked, ReviewersExclude
<1>4. CASE CreateRequest(h)
  <2> DEFINE d == handlers[h].dep
  <2>1. PICK n \in Name :
           /\ requests[n].state = "unused"
           /\ requests' = [requests EXCEPT ![n] = [state |-> "PENDING", dep |-> d]]
    BY <1>4 DEF CreateRequest
  <2>2. /\ handlers' = [handlers EXCEPT ![h] = IdleHandler]
        /\ UNCHANGED <<cache, reviewers>>
        /\ handlers[h].pc = "create"
    BY <1>4 DEF CreateRequest
  <2>3. /\ handlers'[h].pc = "idle"
        /\ \A g \in Handler \ {h} : handlers'[g] = handlers[g]
    BY <1>0, <2>2 DEF IdleHandler, HandlerAt
  <2>4. Matching(d) = {}
    BY <2>2 DEF Exclusion, HandlerLocks, NoRequestYet
  <2>5. /\ requests'[n].dep = d
        /\ \A m \in Name \ {n} : requests'[m] = requests[m]
        /\ ListedNames' \subseteq ListedNames \cup {n}
    BY <1>0, <2>1 DEF ListedNames
  <2>6. OneRequestPerDeployment'
    <3>1. \A m \in ListedNames : m # n => requests[m].dep # d
      BY <2>4 DEF Matching
    <3>2. ListedNames' \subseteq Name /\ ListedNames \subseteq Name
      BY DEF ListedNames
    <3>3. QED
      BY <2>5, <3>1, <3>2 DEF OneRequestPerDeployment, Exclusion, HandlerLocks
  <2>7. \A g \in Handler : g # h /\ handlers[g].pc = "create" => handlers[g].dep # d
    BY <2>2 DEF Exclusion, HandlerLocks, HandlersExclude, Busy
  <2>8. NoRequestYet'
    <3>1. \A e : e # d => Matching(e)' \subseteq Matching(e)
      BY <2>5 DEF Matching, ListedNames
    <3>2. \A g \in Handler : handlers'[g].pc = "create" =>
             Matching(handlers[g].dep)' \subseteq Matching(handlers[g].dep) /\ g # h
      BY <2>3, <2>7, <3>1
    <3>3. QED
      BY <2>3, <3>2 DEF NoRequestYet, Exclusion, HandlerLocks
  <2>9. HandlersLocked' /\ HandlersExclude'
    BY <2>2, <2>3 DEF HandlersLocked, HandlersExclude, Exclusion, HandlerLocks, Busy
  <2>10. QED
    BY <2>2, <2>6, <2>8, <2>9
       DEF HandlerLocks, Exclusion, ReviewerLocks, ReviewersLocked, ReviewersExclude
<1>5. QED
  BY <1>1, <1>2, <1>3, <1>4 DEF HandlerStep

LEMMA ReviewerStepLocks ==
    ASSUME Exclusion, NEW w \in Reviewer,
           ReceiveReview(w) \/ ReviewerStep(w) \/ ReviewFails(w)
    PROVE  HandlerLocks' /\ ReviewerLocks'
<1> USE DEF github, teleport, chans
<1>0. reviewers \in [Reviewer -> ReviewerRecord] /\ cache \in [Key -> Status]
  BY DEF Exclusion, TypeOK
<1>1. CASE ReceiveReview(w) \/ ReviewDeployment(w) \/ ReviewFails(w)
  <2>1. UNCHANGED <<requests, cache, handlers>>
    BY <1>1 DEF ReceiveReview, ReviewDeployment, ReviewFails
  <2>2. HandlerLocks'
    BY <2>1 DEF Exclusion, HandlerLocks, HandlersLocked, HandlersExclude, NoRequestYet,
       OneRequestPerDeployment, Matching, ListedNames
  <2>3. /\ reviewers'[w].pc # "review"
        /\ \A v \in Reviewer \ {w} : reviewers'[v] = reviewers[v]
    BY <1>0, <1>1 DEF ReceiveReview, ReviewDeployment, ReviewFails, IdleReviewer, ReviewerAt
  <2>4. ReviewerLocks'
    BY <2>1, <2>3 DEF Exclusion, ReviewerLocks, ReviewersLocked, ReviewersExclude
  <2>5. QED
    BY <2>2, <2>4
<1>2. CASE TryAddReview(w)
  <2>1. reviewers[w].req.name \in Key
    BY <1>0, <1>2, ReviewerShape, DeploymentsAndNamesAreKeys DEF TryAddReview, Snapshot
  <2>2. /\ cache'[reviewers[w].req.name] = "live"
        /\ \A x \in Key : cache[x] = "live" => cache'[x] = "live"
    BY <1>0, <1>2, <2>1, TryAddCache DEF TryAddReview
  <2>3. UNCHANGED <<requests, handlers>>
    BY <1>2 DEF TryAddReview
  <2>4. HandlerLocks'
    <3>1. \A h \in Handler : handlers[h].pc \in Busy => handlers[h].dep \in Key
      BY HandlerShape, DeploymentsAndNamesAreKeys DEF Exclusion, TypeOK, Busy
    <3>2. HandlersLocked'
      BY <2>2, <2>3, <3>1 DEF Exclusion, HandlerLocks, HandlersLocked
    <3>3. QED
      BY <2>3, <3>2 DEF Exclusion, HandlerLocks, HandlersExclude, NoRequestYet,
         OneRequestPerDeployment, Matching, ListedNames
  <2>5. \A v \in Reviewer : reviewers[v].pc = "review" => reviewers[v].req.name \in Key
    BY <1>0, ReviewerShape, DeploymentsAndNamesAreKeys DEF Snapshot
  <2>6. ReviewerLocks'
    <3>1. CASE /\ Accepts(cache, reviewers[w].req.name)
               /\ reviewers' = [reviewers EXCEPT ![w] = ReviewerAt("review", reviewers[w].req)]
      <4>1. /\ reviewers'[w].pc = "review" /\ reviewers'[w].req = reviewers[w].req
            /\ \A v \in Reviewer \ {w} : reviewers'[v] = reviewers[v]
        BY <1>0, <3>1 DEF ReviewerAt
      <4>2. \A v \in Reviewer \ {w} : reviewers[v].pc = "review" =>
                                         reviewers[v].req.name # reviewers[w].req.name
        BY <3>1 DEF Accepts, Exclusion, ReviewerLocks, ReviewersLocked
      <4>3. QED
        BY <2>2, <2>5, <4>1, <4>2 DEF Exclusion, ReviewerLocks, ReviewersLocked, ReviewersExclude
    <3>2. CASE reviewers' = [reviewers EXCEPT ![w] = IdleReviewer]
      <4>1. /\ reviewers'[w].pc # "review"
            /\ \A v \in Reviewer \ {w} : reviewers'[v] = reviewers[v]
        BY <1>0, <3>2 DEF ReviewerAt, IdleReviewer
      <4>2. QED
        BY <2>2, <2>5, <4>1 DEF Exclusion, ReviewerLocks, ReviewersLocked, ReviewersExclude
    <3>3. QED
      BY <1>2, <3>1, <3>2 DEF TryAddReview
  <2>7. QED
    BY <2>4, <2>6
<1>3. QED
  BY <1>1, <1>2 DEF ReviewerStep

LEMMA WorldStepLocks == Exclusion /\ WorldStep => HandlerLocks' /\ ReviewerLocks'
<1> SUFFICES ASSUME Exclusion, WorldStep
             PROVE  HandlerLocks' /\ ReviewerLocks'
  OBVIOUS
<1> USE DEF github, teleport, chans
<1>0. requests \in [Name -> RequestRecord]
  BY DEF Exclusion, TypeOK
<1>1. CASE \/ \E d \in Deployment :
                 RequestEnvironment(d) \/ WithdrawDeployment(d) \/ LoseWebhook(d)
           \/ LoseWatchEvent
  BY <1>1, LocksUntouched
     DEF RequestEnvironment, WithdrawDeployment, LoseWebhook, LoseWatchEvent
<1>2. ASSUME NEW n \in Name, NEW v \in Verdict, ReviewRequest(n, v)
      PROVE  HandlerLocks' /\ ReviewerLocks'
  <2>1. \A m \in Name : /\ requests'[m].dep = requests[m].dep
                        /\ m # n => requests'[m] = requests[m]
    BY <1>0, <1>2 DEF ReviewRequest, RequestRecord
  <2>2. requests[n].state \in Listed
    BY <1>2 DEF ReviewRequest, Listed
  <2>3. QED
    BY <1>2, <2>1, <2>2, RequestsOnlyGo DEF ReviewRequest
<1>3. ASSUME NEW n \in Name, ExpireRequest(n)
      PROVE  HandlerLocks' /\ ReviewerLocks'
  <2>1. \A m \in Name : /\ requests'[m].dep = requests[m].dep
                        /\ m # n => requests'[m] = requests[m]
    BY <1>0, <1>3 DEF ExpireRequest, RequestRecord
  <2>2. QED
    BY <1>3, <2>1, RequestsOnlyGo DEF ExpireRequest
<1>4. QED
  BY <1>1, <1>2, <1>3 DEF WorldStep

LEMMA PassAndSourceLocks ==
    ASSUME Exclusion, SourceStep \/ PassStep \/ PassSend \/ PassFails
    PROVE  HandlerLocks' /\ ReviewerLocks'
<1>1. UNCHANGED <<cache, handlers, reviewers, requests>>
  BY DEF SourceStep, PassStep, PassSend, PassFails, PassListRuns, PassIndexRequests,
     PassGetPending, PassSkipProcessed, PassSendEvent, PassSendReview, PassEnds,
     DeliverWebhook, DeliverWatchEvent, github, teleport, chans
<1>2. QED
  BY <1>1, LocksUntouched

LEMMA ExpiryLocks ==
    ASSUME Exclusion, "slow_handler" \notin Faults, NEW k \in Key, ExpireEntry(k)
    PROVE  HandlerLocks' /\ ReviewerLocks'
<1> USE DEF github, teleport, chans
<1>1. ~Working(k) /\ UNCHANGED <<handlers, reviewers, requests>>
  BY DEF ExpireEntry
<1>2. \A x \in Key \ {k} : cache'[x] = cache[x]
  BY ExpiryCache DEF ExpireEntry, Exclusion, TypeOK
<1>3. \A h \in Handler : handlers[h].pc \in Busy =>
         handlers[h].dep \in Key /\ handlers[h].dep # k
  BY <1>1, HandlerShape, DeploymentsAndNamesAreKeys DEF Working, Exclusion, TypeOK, Busy
<1>4. \A w \in Reviewer : reviewers[w].pc = "review" =>
         reviewers[w].req.name \in Key /\ reviewers[w].req.name # k
  BY <1>1, ReviewerShape, DeploymentsAndNamesAreKeys DEF Working, Exclusion, TypeOK, Snapshot
<1>5. HandlersLocked' /\ ReviewersLocked'
  BY <1>1, <1>2, <1>3, <1>4
     DEF Exclusion, HandlerLocks, ReviewerLocks, HandlersLocked, ReviewersLocked
<1>6. QED
  BY <1>1, <1>5 DEF Exclusion, HandlerLocks, ReviewerLocks, HandlersExclude, NoRequestYet,
     OneRequestPerDeployment, ReviewersExclude, Matching, ListedNames

LEMMA CrashLocks == Exclusion /\ Crash => HandlerLocks' /\ ReviewerLocks'
BY DEF Exclusion, Crash, HandlerLocks, ReviewerLocks, HandlersLocked, HandlersExclude,
   NoRequestYet, OneRequestPerDeployment, ReviewersLocked, ReviewersExclude, ListedNames,
   IdleHandler, IdleReviewer, HandlerAt, ReviewerAt, Busy

LEMMA ExclusionStep ==
    ASSUME "slow_handler" \notin Faults, Exclusion, [Next]_vars
    PROVE  Exclusion'
<1>1. TypeOK'
  BY TypeStep DEF Exclusion
<1>2. CASE UNCHANGED vars
  BY <1>1, <1>2, LocksUntouched DEF Exclusion, vars
<1>3. CASE Next
  BY <1>1, <1>3, WorldStepLocks, PassAndSourceLocks, HandlerStepLocks, ReviewerStepLocks,
     ExpiryLocks, CrashLocks DEF Next, Exclusion
<1>4. QED
  BY <1>2, <1>3

LEMMA ExclusionInvariant ==
    ASSUME "slow_handler" \notin Faults
    PROVE  Spec => []Exclusion
<1>1. Init => Exclusion
  BY InitTyped, InitLocks DEF Exclusion
<1>2. Exclusion /\ [Next]_vars => Exclusion'
  BY ExclusionStep
<1>3. QED
  BY <1>1, <1>2, PTL DEF Spec

(* As long as no goroutine outlives its entry in the cache, there is never *)
(* more than one request for a deployment, whatever is lost, repeated or   *)
(* restarted in between.                                                   *)
THEOREM AtMostOneRequest ==
    ASSUME "slow_handler" \notin Faults
    PROVE  Spec => []OneRequestPerDeployment
<1>1. Exclusion => OneRequestPerDeployment
  BY DEF Exclusion, HandlerLocks
<1>2. QED
  BY <1>1, ExclusionInvariant, PTL

(* Under the same assumption, no two goroutines work on the same           *)
(* deployment or carry the same request to GitHub at a time.               *)
THEOREM MutualExclusion ==
    ASSUME "slow_handler" \notin Faults
    PROVE  Spec => []NoConcurrentHandling
<1>1. Exclusion => NoConcurrentHandling
  BY DEF Exclusion, HandlerLocks, ReviewerLocks, HandlersExclude, ReviewersExclude,
     NoConcurrentHandling, Busy
<1>2. QED
  BY <1>1, ExclusionInvariant, PTL

=============================================================================
