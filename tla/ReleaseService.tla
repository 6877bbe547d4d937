---------------------------- MODULE ReleaseService ----------------------------
(***************************************************************************)
(* tools/approval-service: the release service between GitHub and Teleport *)
(*                                                                         *)
(* A deployment is a workflow run that asks for an environment; its event  *)
(* key "org/repo/run/env" identifies it, and so does the Deployment value  *)
(* here.  GitHub announces a waiting deployment with webhooks; the service *)
(* opens one Teleport access request for it; a person reviews the request; *)
(* the service carries the verdict back to GitHub.  A reconciliation pass  *)
(* repairs what lost events left undone.                                   *)
(*                                                                         *)
(* The world (GitHub and Teleport) is modelled from how the service calls  *)
(* it.  Every goroutine of the service is a process with a program counter,*)
(* one step per remote call, cache access or channel operation, so that    *)
(* what one step read may be out of date when the next one uses it.        *)
(***************************************************************************)
EXTENDS Naturals, Sequences, CacheStatus

CONSTANTS
    Deployment,     \* (run, environment) pairs
    Run,            \* workflow runs
    RunOf,          \* RunOf[d]: the run of deployment d
    Configured,     \* the deployments whose environment has a Teleport role
    Handler,        \* goroutines for deployment review events, at most this many at once
    Reviewer,       \* goroutines for reviewed access requests, at most this many at once
    MaxRequests,    \* bound on the access requests ever created
    MaxJobs,        \* bound on the jobs that ask for an environment
    EventsPerJob,   \* webhooks GitHub sends for one job ("upwards of 100")
    Faults,         \* the kinds of fault that may happen
    MaxFaults,      \* bound on how many faults happen
    None            \* no deployment, no request

(* Access requests are named by random UUIDs, and Teleport lists them in   *)
(* the order of their names, which is therefore not the order of creation. *)
Name == 1..MaxRequests

FaultKind == {"webhook_lost", "watch_lost", "event_error", "review_error",
              "pass_error", "crash", "request_expired", "slow_handler"}

ASSUME ServiceAssumption ==
    /\ RunOf \in [Deployment -> Run]
    /\ Configured \subseteq Deployment
    /\ MaxRequests \in Nat /\ MaxJobs \in Nat /\ MaxFaults \in Nat
    /\ EventsPerJob \in Nat \ {0}
    /\ Faults \subseteq FaultKind
    /\ Deployment \cap Name = {}
    /\ None \notin Deployment

(* The cache holds event keys and access request names side by side. *)
Key == Deployment \cup Name

(* Final states of a request.  PROMOTED is Teleport's third one. *)
Verdict == {"APPROVED", "DENIED", "PROMOTED"}
Listed == {"PENDING"} \cup Verdict

(* What a call or an event tells about a request when it is made. *)
Snapshot == [name : Name, dep : Deployment, state : Listed]

VARIABLES
    \* GitHub
    gate,        \* gate[d]: state of the deployment
    jobs,        \* number of jobs that have asked for an environment
    hooks,       \* hooks[d]: webhooks for d that are on their way
    \* Teleport
    requests,    \* requests[n]: state of the access request and the deployment it is for
    verdicts,    \* history: the verdicts people gave on deployments
    feed,        \* the watcher's stream of reviewed requests
    \* the service
    cache,       \* ttlEventCache
    deployChan,  \* deploymentReviewEventChan
    reviewChan,  \* accessRequestReviewChan
    handlers,    \* goroutines running onDeploymentReviewEventReceived
    reviewers,   \* goroutines running onAccessRequestReviewed
    pass,        \* goroutine running reconcileWaitingWorkflows
    \* bookkeeping
    faults       \* number of faults so far

github == <<gate, jobs, hooks>>
teleport == <<requests, verdicts, feed>>
chans == <<deployChan, reviewChan>>
vars == <<gate, jobs, hooks, requests, verdicts, feed, cache, deployChan,
          reviewChan, handlers, reviewers, pass, faults>>

-----------------------------------------------------------------------------
(* Access requests as the service sees them. *)

SnapshotOf(n) == [name |-> n, dep |-> requests[n].dep, state |-> requests[n].state]

ListedNames == {n \in Name : requests[n].state \in Listed}

MatchingAnyState(d) == {n \in Name : requests[n].dep = d}

(* matchesEvent: organization, repository, environment and run all agree. *)
Matching(d) == {n \in ListedNames : requests[n].dep = d}

(* findExistingAccessRequest returns the first match of the list. *)
FirstMatching(d) == {n \in Matching(d) : \A m \in Matching(d) : n <= m}

NamesOfRun(r) == {n \in ListedNames : RunOf[requests[n].dep] = r}

(* indexAccessRequestsByWorkflowRunID: the last request of a run wins. *)
Indexed(r) == {n \in NamesOfRun(r) : \A m \in NamesOfRun(r) : m <= n}

-----------------------------------------------------------------------------
ChanCap == 1

HandlerAt(p, d) == [pc |-> p, dep |-> d, req |-> None]
IdleHandler == HandlerAt("idle", None)
ReviewerAt(p, req) == [pc |-> p, req |-> req]
IdleReviewer == ReviewerAt("idle", None)
IdlePass == [pc |-> "idle", runs |-> {}, pending |-> {}, events |-> {}, reviewed |-> {}]

(* NewReleaseService: empty cache and channels, nothing running. *)
ServiceInit ==
    /\ cache = [k \in Key |-> "absent"]
    /\ deployChan = <<>>
    /\ reviewChan = <<>>
    /\ handlers = [h \in Handler |-> IdleHandler]
    /\ reviewers = [w \in Reviewer |-> IdleReviewer]
    /\ pass = IdlePass

Init ==
    /\ gate = [d \in Deployment |-> "none"]
    /\ jobs = 0
    /\ hooks = [d \in Deployment |-> 0]
    /\ requests = [n \in Name |-> [state |-> "unused", dep |-> None]]
    /\ verdicts = {}
    /\ feed = <<>>
    /\ ServiceInit
    /\ faults = 0

Fault(f) ==
    /\ f \in Faults
    /\ faults < MaxFaults
    /\ faults' = faults + 1

-----------------------------------------------------------------------------
(* GitHub and Teleport. *)

(* A job asks for the environment of d: the deployment waits, and webhooks *)
(* are sent.  It may be a later job of the run, or a job of a re-run, which*)
(* keeps the id of the run.                                                *)
RequestEnvironment(d) ==
    /\ gate[d] # "waiting"
    /\ jobs < MaxJobs
    /\ jobs' = jobs + 1
    /\ gate' = [gate EXCEPT ![d] = "waiting"]
    /\ hooks' = [hooks EXCEPT ![d] = @ + EventsPerJob]
    /\ UNCHANGED <<teleport, cache, chans, handlers, reviewers, pass, faults>>

(* The run is cancelled or fails, or the deployment is decided in GitHub.  *)
WithdrawDeployment(d) ==
    /\ gate[d] = "waiting"
    /\ gate' = [gate EXCEPT ![d] = "gone"]
    /\ UNCHANGED <<jobs, hooks, teleport, cache, chans, handlers, reviewers, pass, faults>>

(* GitHub gives up on a webhook, and does not send it again. *)
LoseWebhook(d) ==
    /\ hooks[d] > 0
    /\ Fault("webhook_lost")
    /\ hooks' = [hooks EXCEPT ![d] = @ - 1]
    /\ UNCHANGED <<gate, jobs, teleport, cache, chans, handlers, reviewers, pass>>

(* People review a request; its state is final, and the watcher hears.     *)
ReviewRequest(n, v) ==
    /\ requests[n].state = "PENDING"
    /\ requests' = [requests EXCEPT ![n].state = v]
    /\ verdicts' = verdicts \cup {<<requests[n].dep, v>>}
    /\ feed' = Append(feed, [name |-> n, dep |-> requests[n].dep, state |-> v])
    /\ UNCHANGED <<github, cache, chans, handlers, reviewers, pass, faults>>

(* The event stream breaks and its next event never arrives. *)
LoseWatchEvent ==
    /\ feed # <<>>
    /\ Fault("watch_lost")
    /\ feed' = Tail(feed)
    /\ UNCHANGED <<github, requests, verdicts, cache, chans, handlers, reviewers, pass>>

(* Teleport deletes a request whose time (7 days by default) has come.     *)
ExpireRequest(n) ==
    /\ requests[n].state \in Listed
    /\ Fault("request_expired")
    /\ requests' = [requests EXCEPT ![n].state = "expired"]
    /\ UNCHANGED <<github, verdicts, feed, cache, chans, handlers, reviewers, pass>>

-----------------------------------------------------------------------------
(* Event sources.  Both send on a channel of capacity one, and block.      *)

(* The webhook handler: ServeHTTP, HandleEvent, then the channel send. *)
DeliverWebhook(d) ==
    /\ hooks[d] > 0
    /\ Len(deployChan) < ChanCap
    /\ hooks' = [hooks EXCEPT ![d] = @ - 1]
    /\ deployChan' = Append(deployChan, d)
    /\ UNCHANGED <<gate, jobs, teleport, cache, reviewChan, handlers, reviewers, pass, faults>>

(* EventWatcher.handleEvent passes on approvals and denials only. *)
ForwardedByWatcher == {"APPROVED", "DENIED"}

DeliverWatchEvent ==
    /\ feed # <<>>
    /\ feed' = Tail(feed)
    /\ \/ /\ Head(feed).state \in ForwardedByWatcher
          /\ Len(reviewChan) < ChanCap
          /\ reviewChan' = Append(reviewChan, Head(feed))
       \/ /\ Head(feed).state \notin ForwardedByWatcher
          /\ UNCHANGED reviewChan
    /\ UNCHANGED <<github, requests, verdicts, cache, deployChan, handlers, reviewers, pass, faults>>

-----------------------------------------------------------------------------
(* onDeploymentReviewEventReceived *)

(* ReleaseService.Run receives an event and starts a goroutine for it. *)
ReceiveDeploymentEvent(h) ==
    /\ handlers[h].pc = "idle"
    /\ deployChan # <<>>
    /\ deployChan' = Tail(deployChan)
    /\ handlers' = [handlers EXCEPT ![h] = HandlerAt("received", Head(deployChan))]
    /\ UNCHANGED <<github, teleport, cache, reviewChan, reviewers, pass, faults>>

TryAddDeploymentNoDedup(h) ==
    /\ handlers[h].pc = "received"
    /\ cache' = AfterTryAdd(cache, handlers[h].dep)
    /\ handlers' = [handlers EXCEPT ![h] = HandlerAt("find", handlers[h].dep)]
    /\ UNCHANGED <<github, teleport, chans, reviewers, pass, faults>>

(* The first arrival in the window goes on, the others are skipped. *)
TryAddDeployment(h) ==
    /\ handlers[h].pc = "received"
    /\ cache' = AfterTryAdd(cache, handlers[h].dep)
    /\ \/ /\ Accepts(cache, handlers[h].dep)
          /\ handlers' = [handlers EXCEPT ![h] = HandlerAt("find", handlers[h].dep)]
       \/ /\ ~Accepts(cache, handlers[h].dep)
          /\ handlers' = [handlers EXCEPT ![h] = IdleHandler]
    /\ UNCHANGED <<github, teleport, chans, reviewers, pass, faults>>

(* findExistingAccessRequest, and what follows from its answer. *)
FindRequest(h) ==
    LET d == handlers[h].dep IN
    /\ handlers[h].pc = "find"
    /\ \/ /\ Matching(d) = {}
          /\ handlers' = [handlers EXCEPT ![h] = HandlerAt("create", d)]
       \/ \E n \in FirstMatching(d) :
             /\ requests[n].state = "PENDING"
             /\ handlers' = [handlers EXCEPT ![h] = IdleHandler]
       \/ \E n \in FirstMatching(d) :
             /\ requests[n].state # "PENDING"
             /\ handlers' = [handlers EXCEPT ![h] =
                                [pc |-> "forward", dep |-> d, req |-> SnapshotOf(n)]]
    /\ UNCHANGED <<github, teleport, cache, chans, reviewers, pass, faults>>

(* HandleAccessRequestReviewed: the decided request goes on the channel.   *)
ForwardRequest(h) ==
    /\ handlers[h].pc = "forward"
    /\ Len(reviewChan) < ChanCap
    /\ reviewChan' = Append(reviewChan, handlers[h].req)
    /\ handlers' = [handlers EXCEPT ![h] = IdleHandler]
    /\ UNCHANGED <<github, teleport, cache, deployChan, reviewers, pass, faults>>

(* createAccessRequest: a new request under a fresh name. *)
CreateRequest(h) ==
    /\ handlers[h].pc = "create"
    /\ handlers[h].dep \in Configured
    /\ \E n \in Name :
          /\ requests[n].state = "unused"
          /\ requests' = [requests EXCEPT ![n] =
                             [state |-> "PENDING", dep |-> handlers[h].dep]]
    /\ handlers' = [handlers EXCEPT ![h] = IdleHandler]
    /\ UNCHANGED <<github, verdicts, feed, cache, chans, reviewers, pass, faults>>

(* teleportRoleForEnvironment fails: nothing is created. *)
RefuseUnconfigured(h) ==
    /\ handlers[h].pc = "create"
    /\ handlers[h].dep \notin Configured
    /\ handlers' = [handlers EXCEPT ![h] = IdleHandler]
    /\ UNCHANGED <<github, teleport, cache, chans, reviewers, pass, faults>>

(* A call to Teleport or GitHub fails: logged, and the event is dropped.   *)
HandlerFails(h) ==
    /\ handlers[h].pc \in {"find", "create"}
    /\ Fault("event_error")
    /\ handlers' = [handlers EXCEPT ![h] = IdleHandler]
    /\ UNCHANGED <<github, teleport, cache, chans, reviewers, pass>>

-----------------------------------------------------------------------------
(* onAccessRequestReviewed *)

ReceiveReview(w) ==
    /\ reviewers[w].pc = "idle"
    /\ reviewChan # <<>>
    /\ reviewChan' = Tail(reviewChan)
    /\ reviewers' = [reviewers EXCEPT ![w] = ReviewerAt("received", Head(reviewChan))]
    /\ UNCHANGED <<github, teleport, cache, deployChan, handlers, pass, faults>>

TryAddReview(w) ==
    /\ reviewers[w].pc = "received"
    /\ cache' = AfterTryAdd(cache, reviewers[w].req.name)
    /\ \/ /\ Accepts(cache, reviewers[w].req.name)
          /\ reviewers' = [reviewers EXCEPT ![w] = ReviewerAt("review", reviewers[w].req)]
       \/ /\ ~Accepts(cache, reviewers[w].req.name)
          /\ reviewers' = [reviewers EXCEPT ![w] = IdleReviewer]
    /\ UNCHANGED <<github, teleport, chans, handlers, pass, faults>>

DecisionUnlessDenied(req) == IF req.state = "DENIED" THEN "rejected" ELSE "approved"

(* handleDecisionForAccessRequestReviewed: anything but an approval rejects. *)
Decision(req) == IF req.state = "APPROVED" THEN "approved" ELSE "rejected"

(* ReviewDeploymentProtectionRule.  GitHub answers 422 when the deployment *)
(* does not wait, which the service takes for success.                     *)
ReviewDeployment(w) ==
    LET req == reviewers[w].req IN
    /\ reviewers[w].pc = "review"
    /\ gate' = IF gate[req.dep] = "waiting"
               THEN [gate EXCEPT ![req.dep] = Decision(req)] ELSE gate
    /\ reviewers' = [reviewers EXCEPT ![w] = IdleReviewer]
    /\ UNCHANGED <<jobs, hooks, teleport, cache, chans, handlers, pass, faults>>

(* GitHub answers with another error: logged, and nothing was decided. *)
ReviewFails(w) ==
    /\ reviewers[w].pc = "review"
    /\ Fault("review_error")
    /\ reviewers' = [reviewers EXCEPT ![w] = IdleReviewer]
    /\ UNCHANGED <<github, teleport, cache, chans, handlers, pass>>

-----------------------------------------------------------------------------
(* reconcileWaitingWorkflows *)

WaitingRuns == {RunOf[d] : d \in {e \in Deployment : gate[e] = "waiting"}}

(* The timer of Run fires and ListWaitingWorkflowRuns answers.  With no    *)
(* waiting run the pass ends at once.                                      *)
PassListRuns ==
    /\ pass.pc = "idle"
    /\ WaitingRuns # {}
    /\ pass' = [IdlePass EXCEPT !.pc = "index", !.runs = WaitingRuns]
    /\ UNCHANGED <<github, teleport, cache, chans, handlers, reviewers, faults>>

ReconciledApprovals == {"APPROVED"}

(* Decided requests that are sent again; a promotion is only logged. *)
Reconciled == {"APPROVED", "DENIED"}

(* GetAccessRequests and the index by run: runs without any request go on  *)
(* to have events built for them, decided requests are collected.          *)
PassIndexRequests ==
    /\ pass.pc = "index"
    /\ pass' = [IdlePass EXCEPT
                   !.pc = "build",
                   !.runs = {r \in pass.runs : NamesOfRun(r) = {}},
                   !.reviewed = {SnapshotOf(n) : n \in
                       {m \in UNION {Indexed(r) : r \in pass.runs} :
                           requests[m].state \in Reconciled}}]
    /\ UNCHANGED <<github, teleport, cache, chans, handlers, reviewers, faults>>

(* constructNewEventsForWorkflow: GetPendingDeployments first ...          *)
PassGetPending(r) ==
    /\ pass.pc = "build"
    /\ r \in pass.runs
    /\ pass' = [pass EXCEPT !.pc = "filter", !.runs = @ \ {r},
                   !.pending = {d \in Deployment : RunOf[d] = r /\ gate[d] = "waiting"}]
    /\ UNCHANGED <<github, teleport, cache, chans, handlers, reviewers, faults>>

UnprocessedInverted(ds) == {d \in ds : Holds(cache, d)}

(* ... then those go that the cache reports as being processed.            *)
Unprocessed(ds) == {d \in ds : ~Holds(cache, d)}

PassSkipProcessed ==
    /\ pass.pc = "filter"
    /\ pass' = [pass EXCEPT !.pc = "build", !.pending = {},
                   !.events = @ \cup Unprocessed(pass.pending)]
    /\ UNCHANGED <<github, teleport, cache, chans, handlers, reviewers, faults>>

PassSendEvent(d) ==
    /\ pass.pc = "build"
    /\ pass.runs = {}
    /\ d \in pass.events
    /\ Len(deployChan) < ChanCap
    /\ deployChan' = Append(deployChan, d)
    /\ pass' = [pass EXCEPT !.events = @ \ {d}]
    /\ UNCHANGED <<github, teleport, cache, reviewChan, handlers, reviewers, faults>>

(* Requests are sent once all events are. *)
PassSendReview(req) ==
    /\ pass.pc = "build"
    /\ pass.runs = {} /\ pass.events = {}
    /\ req \in pass.reviewed
    /\ Len(reviewChan) < ChanCap
    /\ reviewChan' = Append(reviewChan, req)
    /\ pass' = [pass EXCEPT !.reviewed = @ \ {req}]
    /\ UNCHANGED <<github, teleport, cache, deployChan, handlers, reviewers, faults>>

PassEnds ==
    /\ pass.pc = "build"
    /\ pass.runs = {} /\ pass.events = {} /\ pass.reviewed = {}
    /\ pass' = IdlePass
    /\ UNCHANGED <<github, teleport, cache, chans, handlers, reviewers, faults>>

(* A call fails or the pass times out: all it found so far is dropped. *)
PassFails ==
    /\ \/ pass.pc = "index"
       \/ pass.pc = "build" /\ pass.runs # {}
    /\ Fault("pass_error")
    /\ pass' = IdlePass
    /\ UNCHANGED <<github, teleport, cache, chans, handlers, reviewers>>

-----------------------------------------------------------------------------
(* Time and crashes. *)

Working(k) ==
    \/ \E h \in Handler :
          handlers[h].pc \in {"find", "forward", "create"} /\ handlers[h].dep = k
    \/ \E w \in Reviewer : reviewers[w].pc = "review" /\ reviewers[w].req.name = k

(* The ttl of a cache entry elapses.  Unless handlers may be slow, it does *)
(* so only after the handler that made the entry has finished.             *)
ExpireEntry(k) ==
    /\ cache[k] = "live"
    /\ "slow_handler" \in Faults \/ ~Working(k)
    /\ cache' = AfterExpiry(cache, {k})
    /\ UNCHANGED <<github, teleport, chans, handlers, reviewers, pass, faults>>

(* The process dies (a nil response dereferenced after a failed review is  *)
(* one way) and is started again: memory is lost, so is what the watcher's *)
(* stream held, and so are the webhooks that found nobody listening.       *)
Crash ==
    /\ Fault("crash")
    /\ cache' = [k \in Key |-> "absent"]
    /\ deployChan' = <<>>
    /\ reviewChan' = <<>>
    /\ handlers' = [h \in Handler |-> IdleHandler]
    /\ reviewers' = [w \in Reviewer |-> IdleReviewer]
    /\ pass' = IdlePass
    /\ feed' = <<>>
    /\ \E lost \in SUBSET Deployment :
          hooks' = [d \in Deployment |-> IF d \in lost THEN 0 ELSE hooks[d]]
    /\ UNCHANGED <<gate, jobs, requests, verdicts>>

-----------------------------------------------------------------------------
WorldStep ==
    \/ \E d \in Deployment :
          RequestEnvironment(d) \/ WithdrawDeployment(d) \/ LoseWebhook(d)
    \/ \E n \in Name, v \in Verdict : ReviewRequest(n, v)
    \/ \E n \in Name : ExpireRequest(n)
    \/ LoseWatchEvent

SourceStep == (\E d \in Deployment : DeliverWebhook(d)) \/ DeliverWatchEvent

HandlerStep(h) ==
    \/ TryAddDeployment(h) \/ FindRequest(h)
    \/ CreateRequest(h) \/ RefuseUnconfigured(h)

ReviewerStep(w) == TryAddReview(w) \/ ReviewDeployment(w)

PassStep ==
    \/ PassListRuns \/ PassIndexRequests \/ PassSkipProcessed \/ PassEnds
    \/ \E r \in Run : PassGetPending(r)

PassSend ==
    \/ \E d \in Deployment : PassSendEvent(d)
    \/ \E req \in pass.reviewed : PassSendReview(req)

Next ==
    \/ WorldStep
    \/ SourceStep
    \/ \E h \in Handler :
          \/ ReceiveDeploymentEvent(h) \/ HandlerStep(h)
          \/ ForwardRequest(h) \/ HandlerFails(h)
    \/ \E w \in Reviewer : ReceiveReview(w) \/ ReviewerStep(w) \/ ReviewFails(w)
    \/ PassStep \/ PassSend \/ PassFails
    \/ \E k \in Key : ExpireEntry(k)
    \/ Crash

Spec == Init /\ [][Next]_vars

(* Fairness.  A goroutine that can run does; a Go channel serves blocked   *)
(* senders in the order of their arrival, so a sender gets its turn though *)
(* the channel fills up again and again; the timer fires; time passes.     *)
(* Nothing is assumed of people, of GitHub's decisions, or of faults.      *)
Fairness ==
    /\ \A d \in Deployment : SF_vars(DeliverWebhook(d))
    /\ SF_vars(DeliverWatchEvent)
    /\ WF_vars(\E h \in Handler : ReceiveDeploymentEvent(h))
    /\ WF_vars(\E w \in Reviewer : ReceiveReview(w))
    /\ \A h \in Handler : WF_vars(HandlerStep(h)) /\ SF_vars(ForwardRequest(h))
    /\ \A w \in Reviewer : WF_vars(ReviewerStep(w))
    /\ WF_vars(PassStep)
    /\ SF_vars(PassSend)
    /\ \A k \in Key : WF_vars(ExpireEntry(k))

FairSpec == Spec /\ Fairness

-----------------------------------------------------------------------------
(* Types: a request has a deployment once it exists, and a snapshot taken  *)
(* of it, wherever it travels, is that of a listed request.                *)
RequestRecord ==
    [state : {"unused"}, dep : {None}] \cup
    [state : Listed \cup {"expired"}, dep : Deployment]

HandlerRecord ==
    {IdleHandler} \cup
    [pc : {"received", "find", "create"}, dep : Deployment, req : {None}] \cup
    [pc : {"forward"}, dep : Deployment, req : Snapshot]

ReviewerRecord == {IdleReviewer} \cup [pc : {"received", "review"}, req : Snapshot]

PassRecord ==
    [pc : {"idle", "index", "build", "filter"}, runs : SUBSET Run,
     pending : SUBSET Deployment, events : SUBSET Deployment, reviewed : SUBSET Snapshot]

TypeOK ==
    /\ gate \in [Deployment -> {"none", "waiting", "approved", "rejected", "gone"}]
    /\ jobs \in Nat /\ faults \in Nat
    /\ hooks \in [Deployment -> Nat]
    /\ requests \in [Name -> RequestRecord]
    /\ verdicts \subseteq Deployment \X Verdict
    /\ feed \in Seq(Snapshot)
    /\ cache \in [Key -> Status]
    /\ deployChan \in Seq(Deployment)
    /\ reviewChan \in Seq(Snapshot)
    /\ handlers \in [Handler -> HandlerRecord]
    /\ reviewers \in [Reviewer -> ReviewerRecord]
    /\ pass \in PassRecord

(* "One Access Request should be created per workflow run and environment" *)
(* (releaseservice.go:142): no deployment ever has two requests listed in  *)
(* Teleport, though up to a hundred webhooks, reconstructed events and     *)
(* restarts of the service race to create it.                              *)
OneRequestPerDeployment ==
    \A m, n \in ListedNames : requests[m].dep = requests[n].dep => m = n

(* ttlEventCache is a mutual exclusion lock per key that nobody releases:  *)
(* past TryAdd, no two goroutines work on the same deployment, and no two  *)
(* on the same access request, however they came by the event.             *)
NoConcurrentHandling ==
    /\ \A g, h \in Handler :
          /\ handlers[g].pc \in {"find", "create", "forward"}
          /\ handlers[h].pc \in {"find", "create", "forward"}
          /\ handlers[g].dep = handlers[h].dep
          => g = h
    /\ \A v, w \in Reviewer :
          /\ reviewers[v].pc = "review" /\ reviewers[w].pc = "review"
          /\ reviewers[v].req.name = reviewers[w].req.name
          => v = w

Gate == INSTANCE DeploymentGate

(* What reaches GitHub is a verdict that somebody gave on a request of the *)
(* very same run and environment: approvals only on approvals, rejections  *)
(* only on other verdicts, however old the copy of the request is that the *)
(* goroutine decides by, and whichever of the three ways it travelled.     *)
ImplementsGate == Gate!Spec

(* A deployment that waits for a configured environment eventually has an  *)
(* access request or no longer waits, though webhooks are lost, passes     *)
(* fail and the process restarts (README of the service, "Reconcile").     *)
RequestEventuallyExists ==
    \A d \in Configured :
        gate[d] = "waiting" ~> (gate[d] # "waiting" \/ Matching(d) # {})

(* An approval or a denial eventually ends the wait of its deployment,     *)
(* though the watcher's event and the answer of a handler may be lost.     *)
VerdictEventuallyEnforced ==
    \A d \in Deployment :
        (/\ gate[d] = "waiting"
         /\ \E n \in Matching(d) : requests[n].state \in {"APPROVED", "DENIED"})
            ~> (gate[d] # "waiting" \/ Matching(d) = {})

=============================================================================
