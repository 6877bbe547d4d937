# Formal models of gravitational/shared-workflows

This directory holds TLA+ specifications of the programs of this repository,
TLC configurations that model-check them on small instances, and TLAPS proofs
of their most important properties for instances of every size.

Paths below are relative to the repository's root. `AS` stands for
`tools/approval-service/internal`.

1. [The system](#1-the-system)
2. [Plan](#2-plan)
3. [Modules and the code they model](#3-modules-and-the-code-they-model)
4. [What the runs check](#4-what-the-runs-check)
5. [What is proved](#5-what-is-proved)
6. [What was found](#6-what-was-found)
7. [What is not modelled](#7-what-is-not-modelled)
8. [Running it](#8-running-it)

## 1. The system

The repository is a set of tools that Teleport's CI uses. They share little
code, so each is a system of its own. The one with the most intricate behaviour
is the approval service, a long-running concurrent server; it is modelled
first. The others are command-line programs run by a workflow, some of them
concurrent, most of them exposed to failing remote calls.

### Approval service (`tools/approval-service`)

A workflow run asks for a protected environment. GitHub makes the deployment
wait and sends a webhook (one per job of the matrix, "upwards of 100"). The
service opens a Teleport access request, people review it, and the service
tells GitHub to approve or reject the deployment.

| Part | State | Operations | Talks to |
|---|---|---|---|
| webhook source (`eventsources/githubevents`, `libs/github/webhook`) | none | `ServeHTTP` → `HandleEvent` | sends on `deploymentReviewEventChan` |
| watcher (`eventsources/accessrequest`) | its position in Teleport's event stream | `Run`, `handleEvent` | sends on `accessRequestReviewChan` |
| release service (`service/releaseservice.go`) | two channels of capacity one, one goroutine per event | `Run`, `onDeploymentReviewEventReceived`, `onAccessRequestReviewed` | Teleport, GitHub, the cache |
| reconciliation (`service/reconcile.go`) | what a pass has collected so far | `reconcileWaitingWorkflows` | Teleport, GitHub, the cache, both channels |
| cache (`service/ttleventcache.go`) | map of expiries and a list sorted by expiry | `TryAdd`, `IsBeingProcessed`, `Len` | - |
| start and shutdown (`approvalservice`, `eventsources/server.go`, `cmd`) | an error group, contexts | `Setup`, `Run` | all sources |

Hard behaviours: up to a hundred events for one deployment handled at once, a
deduplication cache whose entries run out by the clock and not by the work they
stand for, look-up and creation of a request as separate remote calls, verdicts
that arrive by three routes, lost webhooks and watch events, crashes, blocking
sends on channels that only one loop drains.

Correct when: there is one access request per deployment; a deployment is
approved only on an approval given on that very run and environment; every
waiting deployment eventually has a request and every verdict is eventually
carried out, whatever events were lost.

### Bot (`bot`)

Run by workflows on pull requests; each run is one pass over GitHub's state,
but runs overlap and the state they read changes under them.

| Part | State | Operations |
|---|---|---|
| reviews and checks (`review/review.go`, `bot/check.go`, `bot/assign.go`, `bot/bot.go`) | the pull request's reviews, requested reviewers | `Check` with dismissal of surplus reviewers, `Assign`, the approval rules |
| dismissal of runs (`bot/dismiss.go`) | the workflow runs of the repository | `Dismiss`, `dismiss`, `deleteRuns` |
| backports (`bot/backport.go`) | branches, pull requests | `Backport`, `createBackportBranch` |
| labels, changelog, bloat, docs, verification | - | one pass over files or text each |
| client and environment (`github`, `env`) | - | paged GitHub calls |

Correct when: a pull request passes only with the approvals the rules ask for,
by distinct qualified reviewers and counted by the latest review of each; the
reviewers dismissed are never ones still needed; every run assigns enough
reviewers to satisfy the check.

### oprt2 (`tools/oprt2`)

Publishes OS packages. A file manager downloads S3 objects to a local directory
under a lock per object (`pkg/locking`, `pkg/filemanager/s3`), package managers
and the publisher use its files, hooks prepare keys. Hard: the locks' reference
counts, waiters with contexts, partial downloads. Correct when: no two
goroutines hold a key's lock, every waiter gets it or gives up, and a path the
file manager returns always names a complete file.

### ci-normalize (`tools/ci-normalize`)

Turns JUnit reports into JSON records. `dispatch` gives each output a buffered
writer with a goroutine and a channel, writers created once per key, and one
`Close` for all. Hard: errors of asynchronous writers, closing while writing.
Correct when: after a `Close` without error every record written without error
is in its output exactly once and in order, and nothing blocks for ever.

### Smaller tools

| Tool | State and operations | Correct when |
|---|---|---|
| `tools/retry`, `tools/find-lost-gha-logs` | attempt counter, deadline, back-off | retried exactly on the errors that call for it, within the limits |
| `tools/amplify-preview` | branches and jobs in AWS Amplify | no branch is left without a job, waiting ends when all jobs have |
| `tools/env-kvstore` | secrets in a store, token exchange | a partial failure leaves no half-set environment |
| `tools/env-loader`, `tools/changelog`, `tools/release-notes`, `libs/git` | none | conversions of files and query results |
| `libs/github` | none | one call each, as used by the tools above |

`PROJECT.json` lists under `hazards` what is hard to test in all of them, each
at its line, with the property that would notice it going wrong, or the reason
why there is none.

## 2. Plan

In order of importance. Modules marked * exist.

1. `CacheStatus`*, `EventCache`* (abstract), `TTLEventCache`*: the cache with its
   clock implements the contract that everything else uses. Proved in
   `ApprovalServiceProofs`*.
2. `DeploymentGate`* (abstract), `ReleaseService`*, `MCReleaseService`*,
   `ReleaseServiceProofs`*: webhooks, watcher, both handlers, reconciliation and
   cache, composed. Safety and refinement proved, liveness model-checked.
3. `Dispatcher`*, `MCDispatcher`*, `DispatcherProofs`*: producers, buffered writers
   and `Close` of ci-normalize. Every invariant is proved.
4. `ReviewRules`*, `ReviewVerdict`*, `ReviewRulesProofs`*, `ReviewVerdictProofs`*: the
   bot's approval rules as operators, compared with the documented rules over all small
   reviewers files and sequences of reviews, and proved to agree with them for all.
   `PullRequest`*, `PullRequestProofs`*: the life of a pull request with pushes, reviews,
   overlapping `Check`, `Assign` and dismissals; its safety is proved.
5. `ServiceLifecycle`*: start, error groups, HTTP server and watcher of the approval
   service through failure and shutdown, also in `ApprovalServiceProofs`*.
6. `KeyedLocks`*, `S3Files`*: the locks of oprt2 and the file manager on top of them,
   which implements their specification. `PackagePublishing`*: a whole run of oprt2.
   What is proved of the three is in `ToolsProofs`*.
7. The sequences of remote calls of the other programs, each with the failure of any
   call and, where there are several, with runs after each other: `Backport`*,
   `Paging`*, `Migrations`*, `DocsRedirects`*, `BloatCheck`* (with `BotProofs`*) of the
   bot; `AppToken`* of `libs/github`, `LostLogs`*, `AmplifyPreview`*, `EnvValues`* (with
   `ToolsProofs`*). `MCPrograms`* instantiates them and 1, 5 and 6.
8. Left: a module of the loop and timer of the release service, so that "the timer
   fires" becomes a condition on how often events come; `Assign` on a backport; of the
   rules, what is enough for a large change or a release, and for one of docs alone
   (`AssignmentSuffices` speaks of other changes of code).

A module that is to be proved about has its parameters as constants with named
assumptions, one action per operation, and no recursive operator.

## 3. Modules and the code they model

`PROJECT.json` maps every definition to the lines it translates. In outline:

### `CacheStatus`, `EventCache`, `TTLEventCache`

`TTLEventCache` is `AS/service/ttleventcache.go` with its clock (`now`), map
(`cache`) and list (`expiryList`). A mutex makes each method atomic, and
`time.Now` is read while it is held, so each method is one action: `TryAdd` with
the eviction it starts with, `IsBeingProcessed`. `answer` records what the last
call returned. The scan of `evictExpired` is given by the position `k` at which
it stops: all entries before it have expired and the next has not.

`CacheStatus` forgets the clock. A key is `absent`, `live`, or `stale`: present
though its time has run out, since only `TryAdd` evicts. `EventCache` is the state
machine of these operators; `TTLEventCache` implements it, with `StatusOf` as the
refinement mapping. `ReleaseService` uses the same operators for its cache, so
what it assumes of the cache is what was shown of the code.

### `DeploymentGate`, `ReleaseService`

| Variable | Code |
|---|---|
| `gate`, `jobs`, `hooks` | GitHub: the deployments, and webhooks on their way |
| `requests`, `verdicts`, `feed` | Teleport: access requests by name, the verdicts given (history), the watcher's stream |
| `cache` | `cache` of `ReleaseService` (one for event keys and request names, as in the code) |
| `deployChan`, `reviewChan` | the two channels |
| `handlers`, `reviewers` | goroutines in `onDeploymentReviewEventReceived` and `onAccessRequestReviewed` |
| `pass` | the goroutine of `reconcileWaitingWorkflows` |
| `faults` | number of faults so far |

Every remote call, cache access and channel operation is a step of its own.

| Action | Code |
|---|---|
| `DeliverWebhook`, `DeliverWatchEvent` | the event sources up to their channel sends |
| `ReceiveDeploymentEvent`, `ReceiveReview` | the receive cases of `Run` and the `go` statements |
| `TryAddDeployment`, `FindRequest`, `ForwardRequest`, `CreateRequest`, `RefuseUnconfigured`, `HandlerFails` | `onDeploymentReviewEventReceived` |
| `TryAddReview`, `ReviewDeployment`, `ReviewFails` | `onAccessRequestReviewed`, `githubapproval.go` |
| `PassListRuns`, `PassIndexRequests`, `PassGetPending`, `PassSkipProcessed`, `PassSendEvent`, `PassSendReview`, `PassEnds`, `PassFails` | `reconcileWaitingWorkflows` |
| `ExpireEntry` | time passes, an entry's ttl elapses |
| `Crash` | the process ends and starts again, memory is lost |
| `RequestEnvironment`, `WithdrawDeployment`, `ReviewRequest`, `ExpireRequest`, `LoseWebhook`, `LoseWatchEvent` | GitHub, Teleport and people, as the service can observe them |

Abstractions, all of data:

- A deployment is one value for "organization, repository, run id, environment";
  `RunOf` gives its run, since reconciliation looks no further than that.
- Access requests are numbered; a name is picked freely when one is created
  because Teleport lists requests in the order of random UUIDs, and both
  `findExistingAccessRequest` (first match) and the index of the reconciler (last
  one wins) depend on that order.
- A configured role exists for a deployment or not (`Configured`).
- `createAccessRequest` first calls `GetWorkflowRunInfo`, which changes nothing and
  whose answer only becomes text; it is one step with the creation.
- Building events for a run is two steps, the call to GitHub and the filter by
  the cache. The code filters deployment by deployment; a whole run is filtered
  at once here.
- One reconciliation pass runs at a time. The code starts a pass per interval
  and gives each pass that interval as its time-out, while sends have none: a
  second pass can only start while the first one is blocked in a send.
- Goroutines are unbounded in the code; here at most `Handler` and `Reviewer`
  work at the same time and further events wait in the channel.

`DeploymentGate` says what the guards of an environment are promised:
a deployment leaves the gate only on a verdict on that very deployment, approved
only on approvals, rejected only on other verdicts. It has no service, only `gate`
and `verdicts`; `ReleaseService` implements it with these variables as they are.

### `Dispatcher`

| Variable | Code |
|---|---|
| `producers` | the goroutines of `run`'s error group: position in `produceFromReader`, and in the loop of `writeAll` |
| `queue`, `closed` | `ch` of each `bufferedWriter`, one per sink key |
| `writers` | the goroutine of `newBufferedWriter`, the record it is writing, `err`; `done` is `pc = "done"` |
| `written`, `medium` | what reached the file or the upload, and what became of that |
| `closers`, `main`, `result` | the goroutines of `Dispatcher.Close`, `run`, and what it returns |
| `timeout`, `expired` | `--timeout`, and whether the context is done |

`BeginRecord`, `WriteToSink` and `EndRecord` are `writeAll` with the `select` of
`bufferedWriter.Write`; `TakeRecord` is the `select` of the writer's goroutine;
`WriteRecord`, `WriteFails` and `CloseSink` are its calls of the sink; `CloseChannel`
and `CloserAnswers` are `bufferedWriter.Close`. Where several cases of a `select` are
ready, any may be taken, as in Go. A sink is a file, or an S3 object written
through a pipe: a write to a pipe whose upload has ended never returns. The
records are numbers per producer; suites, test cases and metadata differ only in
the sinks they go to. `run`'s second, deferred `Close` returns at once after a
first one and is not modelled apart; after a failed producer it is the only one,
and is.

### `ReviewRules`, `ReviewVerdict`

`ReviewRules` has no variables: one operator for each function of
`bot/internal/review/review.go` and for what `bot.go` says of a changeset, named as
in the code. Where the code picks at random or ranges over a map, the operator is
the set of all outcomes (`PicksFrom`, `CodeReviewerSets`, `Get`); there is none where
the code calls `Intn(0)`, which panics. A list that the code appends to is the
pair of the sets it was made of (`DocsReviewers`), so that counting entries and
counting people stay different things. Names of files are abstract: constants say
which are docs, sources, generated, and which of the reviewers' paths they start
with.

`ReviewVerdict` lets reviews come in, and be dismissed, one by one, and asks after
each what the rules say. `Documented` is the reference: who has to have approved,
as people, read off the comments of `review.go` and the README, without counting.

### `PullRequest`

| Variable | Code |
|---|---|
| `open`, `pulls` | GitHub: the open pull requests; reviews, requested reviewers, the label, the changed files, the comments on size |
| `runs`, `kept` | every run of Check with its next call and what it has read; those GitHub still has |
| `assigns` | the run of `Assign` |
| `sweep` | the run of `Dismiss` |
| `faults` | number of failed calls so far |

Each call to GitHub is an action, together with what the code does between it and
the next call: `CheckDoNotMerge`, `ListReviews`, `ListWorkflowRuns`, `DeleteWorkflowRun`,
`ListFiles`, `ListComments`, `CreateComment`, `ListReviewers`, `FindDismissals`,
`DismissReviewers` of `Check`; `AssignListFiles`, `RequestReviewers` of `Assign`;
`SweepStarts`, `SweepListRuns`, `SweepDelete` of `Dismiss`. `findWorkflow` changes nothing
and is one step with the listing of the runs. `CheckFails` says what a failed call
does at each point: `Check` ends with an error, or, once the reviews were found
sufficient, only logs it.

External, modelled as the code relies on it: every review, push and change of the
label starts a run of Check, runs are ordered by creation, runs are listed by
the name of the branch, a run that was deleted may still be running. One pull request
at a time is followed in the run `pull_request`, as pull requests with branches of
different names do not meet.

### The smaller programs

Each of these modules follows one program, or one part of one, call by call. A call
of another system is an action with its failure beside it (`...Fails`, or an
alternative of the action); the state of the other system is a variable that others
change between the calls. Names follow the code's functions.

| Module | Code | State | Actions |
|---|---|---|---|
| `ServiceLifecycle` | `tools/approval-service/cmd`, `AS/../approvalservice`, `eventsources/server.go`, `eventsources/accessrequest` | where the command, the server's two goroutines, the watcher, its stream and the processor are; the first error of each error group; webhook deliveries | `LoadConfig`, `Initialize`, `Setup`, `Run`; `ServeFails`, `BeginShutdown`, `ServerClosed`, `EndShutdown`, `ServerReturns`; `Review`, `ReviewTaken`, `StreamEnds`, `StreamCancelled`, `WatcherReturns`; `ProcessorReturns`; `End` |
| `KeyedLocks` | `oprt2/pkg/locking` | `refs`, `taken`, `shut` per key: count and channel of the map's entry; the lock of the map that `Close` keeps; the place of each goroutine | `LookUp`, `Take`, `GiveUp`, `SendPanics` of `Lock`; `Unlock`; `BeginClose`, `CloseEntry`, `EndClose`, `EndCloseAnyway` |
| `S3Files` | `oprt2/pkg/filemanager/s3` | the locks; what of each item is on disk; who downloads | `AlreadyThere`, `StartDownload`, `NoDownload`, `EndDownload` of `GetLocalFilePath`; `RemoveFiles` of `Close` |
| `PackagePublishing` | `oprt2/cmd/oprt2/main.go`, the APT manager | the managers with their directories, the tasks not started, running, published, the group's context | `CreateManager` and its failures, `CollectTasks`, `StartTask`, `TaskSucceeds`, `TaskFails`, `Interrupt`, `Wait`, `CloseManager` |
| `Backport` | `bot/backport.go` | the labels and commits of the pull request, the clone (branch, commits picked, a stopped pick), the branches on GitHub, the comments, the number of the run | `Start`, `NewBranch`, `Pick`, `PickConflicts`, `Push`, `Comment` and their failures, `RunAgain` |
| `Paging` | the loops of `bot/internal/github/github.go` | a list on GitHub, the page asked for next, what was got | `FetchPage`; `Grow`, `Shrink` by others |
| `Migrations` | `bot/verify.go` | the base branch, what each check has read of each directory, its verdict | `VerifyDBMigrations`, `VerifyDBMigration` (one directory), `MergeChange` |
| `DocsRedirects` | `bot/docpaths.go` | the files before and after, what GitHub calls added, removed, renamed | `CheckDocsPaths` |
| `BloatCheck` | `bot/bloat.go`, `bot/skip.go` | sizes of artifacts, comments with their dates and edits | `RunBloatCheck`; `PostComment`, `EditComment` by people |
| `AppToken` | `libs/github/github.go` | GitHub's clock, the client's skew, the shared token, its mutex, requests | `TakeToken`, `TokenCreated`, `CreationFailed`, `RoundTrip`, `Arrive`, `TokenTick` |
| `LostLogs` | `find-lost-gha-logs/cmd/main.go` | the search's place, its count of errors, the three levels of trackers | `BeginRun`, `SkipRun`, `CheckJob`, `CheckFails`, `ListFails`, `Interrupted`, `EndRun`, `EndWorkflow`, `EndSearch` |
| `AmplifyPreview` | `amplify-preview`, the comment functions of `libs/github` | apps, branches, the newest deployment in each, the thread of comments, the running job | `FindExistingBranch`, `CreateBranch`, `EnsureDeployment`, `FindComment`, `PostPreview`, `WaitForJobCompletion`, `CallFails`; `BuildEnds`, `NewCommit`, `Talk` by others |
| `EnvValues` | `env-kvstore` | the configuration, GitHub's token, the stores, what was read, found, masked and exported | `Validate`, `GetAWSSessionName`, `GetIdentityToken`, `InitializeStore`, `PopulateEnvValues`, `MaskAllSecretValues`, `WriteGithubEnv`, `Upload`, `CallRefused` |

Abstractions, again of data:

- A commit, a file, an item or a key is a value; a path of documentation is the sequence
  of its segments, with `EndsIn` for names of which one ends in another; a migration
  file is its directory, its number and whether it undoes one.
- A download is `absent`, `partial` or `complete`. A token is the end of its life. A value of
  the key-value store is told by the level (repository or environment) it came from.
- In `KeyedLocks` the map's own lock is held over straight-line code, so what it guards is
  one step; `Close` keeps it for good and is several. A context may end at any time.
- In `PackagePublishing` a call of `GetPackagePublishingTasks`, with all that it fetches, is
  one step, since one goroutine does everything until the group is started; what
  may happen between two fetches is in `S3Files`.

External in these modules: S3, git and GitHub's lists, the pairing of files into
renames by git (any pairing), Amplify, AWS's token services, the clocks.

Operators whose comment begins with "A mistake:" are not part of the models. Each is a
plausible error in the definition that follows it (a dropped condition, a boundary
off by one, a swapped order); put in that definition's place it makes TLC find a
violation of the property that `PROJECT.json` names with it under `mutants`, which
shows that the property depends on the code.

## 4. What the runs check

| Run | Instance | Shows |
|---|---|---|
| `programs` | the programs of section 3 other than the release service, ci-normalize and the bot's reviews, and the cache; see below | the properties of the table below |
| `release_safety` | 1 deployment, 2 webhooks, 2 goroutines of each kind, 2 faults of five kinds, room for 2 requests | `OneRequestPerDeployment`, `NoConcurrentHandling` |
| `release_expiry` | 2 environments of one run, one without a role, 2 requests, one request that expires or one watch event that is lost | `TypeOK`, `ImplementsGate` |
| `release_liveness` | 1 deployment asked for twice, one fault of five kinds | `RequestEventuallyExists`, `VerdictEventuallyEnforced` |
| `dispatcher` | 2 producers with 3 records for 2 sinks (a file, an upload), channels of capacity 1, one fault of three kinds, with and without timeout | `PrefixArrived`, `SuccessMeansWritten`, `NoSendAfterClose`, `RunEnds` |
| `lost_upload` | the same, only an upload that fails in the end | refutes `SuccessMeansSaved` |
| `review_rules` | 3 people in all 120 combinations of 8 roles, 5 kinds of pull request, 6 sets of files, all sequences of 2 reviews with dismissals | `VerdictAsDocumented`, `AssignmentSuffices`, `ReviewsMeanWhatTheySay` |
| `counted_twice` | the same | refutes `DistinctApprovers` |
| `pull_request` | a pull request of an admin or one from a fork, 4 reviewers, one earlier review and run, 2 further events, one failed call, one `Dismiss` | `LatestVerdictHolds`, `LatestRunKept`, `StaleVerdictsGo`, `RequestsOutliveDoubt`, `VerdictSettles` |
| `duplicate_requests` | as `release_safety`, goroutines may be slow | refutes `OneRequestPerDeployment` |
| `stale_cache_entry` | one failed call | refutes `RequestEventuallyExists` |
| `two_environments` | 2 environments of one run, one lost webhook | refutes `RequestEventuallyExists` |

`programs` checks programs that have nothing in common in one run: a behaviour is one of the
program that the initial state chooses (`program` in `MCPrograms`), and the variables of the
others stand still. Its state space is the sum of theirs, not the product, and
each property is decided by the states of its own program.

| Program | Instance | Properties |
|---|---|---|
| cache | 3 ids, three ttls of clock | `TypeOK`, `MapListAgree`, `ListSorted`, `WindowKept`, and that the code implements `EventCache` (`ImplementsContract`) |
| service | any settings, one webhook, one review | `SuccessOnlyOnSignal`, `StopsUnlessHeld` |
| backport | 3 branches; no, one or all labels; 2 commits, 3 of which one is a merge, 4 where a page has 3; two runs | `CommentsTellTheTruth` |
| paging | the nine loops; lists of up to 4 entries, pages of 2 | `ListedInFull` |
| migrations | 3 pull requests on 2 directories | `AddedInOrder` |
| docs | 5 files, at most 2 added and 2 removed, every pairing of them, a redirect or none | `RedirectsSuffice` |
| bloat | 3 people, 2 admins of whom one is the author; 2 artifacts; sizes around a threshold of one megabyte of 4 bytes; one comment, and its edit | `BloatNeedsAnAdmin` |
| files | 2 goroutines, 2 items, 3 calls | `ReferencesCounted`, `NoRemovalInUse` |
| publishing | 2 managers, 2 components, 2 items of which one is matched twice; no limit, or one task at a time | `SuccessMeansPublished`, `FilesOutliveTasks`, `PublishingEnds` |
| token | 2 requests, a token that lives for 3 units, buffer 2, clocks that are 2 slow or 1 fast | `ArrivesInTime` |
| logs | 2 workflows, 4 runs, a run with four jobs that may have lost their logs, with and without self-hosted runners | `SearchIsThorough` |
| preview | 2 apps, 2 jobs, 2 other comments, pages of 2, two questions for the deployment | `PreviewIsUnique` |
| values | three items, a variable and a secret of one name and a variable of another; one key at two levels, every combination of stores, 7 tokens of which 5 are not good, complete and incomplete configurations | `ValuesOfTheEnvironment` |

What these say, beyond the modules' comments: `StopsUnlessHeld` that the service ends on a
signal and on the failure of a part but for two named situations; `SuccessOnlyOnSignal`
that the error which stopped it is never lost to a cancelled context;
`CommentsTellTheTruth` that each row of a backport's comment is true of the branches on
GitHub; `ListedInFull` that growth between pages loses nothing; `AddedInOrder` that a
merge onto what the check saw keeps migrations in order; `SearchIsThorough` that
what the three trackers add up to is exact, but for at most three jobs per run that could
not be asked about; `PreviewIsUnique` that failing look-ups never make a second
branch or comment; `ValuesOfTheEnvironment` that a job's next steps see a value for every
name they asked for or nothing, that of the name's last item (`ParseValues` lets two items have
one name, and a map keyed by name keeps the later) and of the right level, with secrets masked.

**Bounds.** `MaxRequests` requests exist at most: two are enough for a duplicate,
and for one that replaces an expired one. `MaxJobs` jobs ask for an environment:
two let a deployment wait again after a decision, when Teleport already has a
decided request for it. `EventsPerJob` webhooks per job: two race, and with two
goroutines and reconciliation there is a third event. `MaxFaults` faults of the
kinds in `Faults` happen. `slow_handler` is not a fault that happens once but a
permission: with it the ttl of a cache entry may elapse while the goroutine that
made the entry still works; without it goroutines finish within the ttl. The
theorems hold without any of these bounds being small. In the cache's part of `programs` the clock
runs for three windows, so that entries expire alone and together and are added
again in another order.

In `dispatcher`, capacity 1 (256 in the code) makes producers wait with few
records: the file is due three records, one more than its writer and channel
hold. Sinks get records of the two producers in opposite orders.

In `review_rules` two reviews are enough for every rule, since none asks for more
than two approvals, and for one review that follows another of the same person.
The roles are those that the rules tell apart: owner or not, admin, docs or release
reviewer, preferred for the changed paths or excluded from them, omitted, preferred
only; three people hold any of them, with repetition. In `pull_request` each pull
request has one finished run behind it, so that the two further runs overlap with
two runs to delete; reviews approve or ask for changes, the label and the size of
the change go back and forth.

In `programs` each bound leaves room for one more than the case at issue: three calls of two
goroutines on a lock, so that an entry is dropped and made again while another
waits; a second run of `Backport` on what the first one pushed; a last page that is full and
one that is not; four failing checks in a run where three are tolerated; a job of
Amplify that finds the branch of the one before, and one whose creation was answered too late; two
matchers that select the same file, with and without a limit of one task.
`MaxMoment` lets an edit come within the precision of a comment's date or after it.

**Deadlock.** The runs of the service end in states without successors: jobs are
bounded, and when all are done and every entry has expired nothing is left to do.
`ci-normalize` ends, and so do the programs of `programs`. Their configurations say `CHECK_DEADLOCK FALSE`; that nothing gets stuck on the way is what the
liveness properties are for.

**Symmetry.** `release_safety` and `duplicate_requests` permute goroutines. They
check invariants only.

**Fairness** (`Fairness` in `ReleaseService`), and why the code justifies it:

- weak fairness of the service's own goroutines between blocking points: the Go
  scheduler is preemptive, and remote calls have time-outs;
- strong fairness of sends on channels (`DeliverWebhook`, `DeliverWatchEvent`,
  `ForwardRequest`, `PassSend`): a channel may fill up again and again between two
  attempts, and Go serves blocked senders in the order in which they came;
- weak fairness of `PassStep`, which includes the timer of `Run`. The code arms
  the timer again whenever an event arrives, so this assumes that now and then
  no event arrives for one interval;
- weak fairness of `ExpireEntry`: time passes.

Nothing is assumed of people, of GitHub's decisions, or of faults.

In `Dispatcher`: goroutines run (weak fairness), a producer blocked on a full
channel gets its turn (strong), and a timeout that was given ends. Nothing is
assumed of an upload that has failed, so its writer may block for ever.

In `PullRequest`: while some call can return or fail, one does (weak fairness of
`GoOn`, one condition for all runs). Nobody has to review anything, and no timer has
to start `Dismiss`.

In `programs`: one weak fairness condition, of `FairStep`, which is that of `PublishSpec` when oprt2
is chosen and that of `LifeSpec` when the service is. oprt2: while it can do
something it does; publishing a package ends, as the command it runs
does. The service: its goroutines run, the server's shutdown ends, by its own timeout at the
latest. Nothing has to be delivered, reviewed or signalled, and no stream has to end.

## 5. What is proved

With TLAPS, for every value of the constants that satisfies the modules' named
assumptions (`TTLAssumption`, `ServiceAssumption`, `DispatcherAssumption`, `FilesAssumption`,
`ListsAssumption`, `MaxReviewsAssumption`, `PullAssumption`, `PagingAssumption`,
`BackportAssumption`, `CallersFinite`, `KeysExist`, `ManagersNumbered`, `DirectoriesListed`,
`SizesAssumption`, `TimesAssumption`, `ItemsTyped`, `AppsListed`, `WorkflowsTyped`). All are
facts of type or size: sets are finite or not empty, what is created one by one is numbered,
times are natural numbers, a token lives for at least the buffer, a sorted list of branches
has each once. The theorems on the order and the identity of things need one of three assumptions
more, which the code does not ensure and which are therefore stated in the theorem:
`"slow_handler" \notin Faults`, `OpenBranchesDiffer` and `NoSinkTwice`, below.

Every invariant and every action property of the passing runs is a theorem.

`ApprovalServiceProofs`, for any ids, ttl and clock, and for any event sources and requests

- `Invariance`, and from it `TypeCorrect`, `MapAndListAgree`, `SortedList`. The
  inductive invariant `IInv` adds to these that no expiry is further away than
  one ttl: this is what makes appending to the list keep it sorted.
- `WindowsKept`: an unexpired entry is never removed or moved.
- `Implementation`: `Spec => ImplementsContract`. The step `TryAdd` maps to is
  found by `Survivors`: what the scan of a sorted list removes is exactly what has
  expired, so the early stop loses nothing.
- `EndsWellOnSignal`: `LifeSpec => []SuccessOnlyOnSignal`. A goroutine that ends with "context
  cancelled" is not taken for a failure, so success would also be reported if such an end came
  first. The invariant says that it comes only after the signal, or after another error, which
  is then the one that the group keeps (`CancelledAfterwards`).

`ReleaseServiceProofs`

- `TypeCorrect`: `Spec => []TypeOK`.
- `GateImplemented`: `Spec => ImplementsGate`. `DeploymentGate` reads only `gate` and
  `verdicts`, while the service decides by copies of requests that travel through
  a stream, a channel, goroutines and a pass. The invariant `Provenance` says that
  every copy that says "decided", wherever it is, is backed by a verdict on the
  deployment it names; verdicts are final, so it stays true when the request has
  expired since.
- `MutualExclusion` and `AtMostOneRequest`, both under the assumption
  `"slow_handler" \notin Faults`, which `duplicate_requests` shows to be necessary.
  `NoConcurrentHandling` is not inductive: the invariant `Exclusion` adds that a
  goroutine past `TryAdd` has a live entry (hence `TryAdd` refuses everybody else),
  and that a goroutine about to create a request does so while there is none.

`DispatcherProofs`, for any producers, sinks, capacity and faults

- `TypeCorrect`.
- `NoSendOnClosed`: `Spec => []NoSendAfterClose`, and `DrainedOnSuccess`: when `run`
  reports success no record is left in a channel or in a writer's hands. The
  invariant `Closing` says that channels are closed only after the wait for the
  producers (`ClosedAfterWait`), and that a writer which ended without an error
  found its channel closed and empty (`DrainedByWriters`), hence for good.
- `WrittenOnSuccess`: `Spec => []SuccessMeansWritten`. Nobody waits for a record that was
  handed to a channel, so the invariant `Accepting` follows each: while nothing has failed,
  what is due in a sink is written there, in the writer's hands, in the channel, or still
  with a producer, and nothing else is in any of these places.
- `ArrivesInOrder`: `Spec => []PrefixArrived` under `NoSinkTwice`. The invariant `Ordering` puts
  the four places in a row: of one producer, what is written comes before what is in hand,
  that before what is in the channel, that before what is still to be sent (`OrderAt`),
  with nothing missing between (`NoneSkipped`), whether or not anything has failed. The
  assumption is needed: `dispatch.New` makes one writer for two outputs of the same name,
  but keeps both places in the list (`createUniqueBufferedWriters`), so that
  `--suites=a --suites=a` writes each record twice.

`ReviewRulesProofs`, for every reviewers file, pull request and list of reviews

- `ApprovalsThatStand`: whose approvals count. `ReviewsByAuthor` goes through the reviews one
  by one; what it has recorded after each is `RecordedSoFar`, and `NatInduct` carries that to
  the end of the list (see below on induction).
- `CheckInternalReviewsCountsPeople`: if the groups have nobody in common, a change
  that needs two approvals passes exactly when an owner and a second person of
  either group have approved. `ListsAreDisjoint` is what `counted_twice` violates;
  under it the count of entries is a count of people (`CheckNCounts`,
  `OwnersAndOthers`).
- `MoreApprovalsSuffice`: the rules are monotone in the set of those who have approved.
- `WithdrawnWithoutNeed`: requests to review are withdrawn only where two people have
  approved, and only from those who have not reviewed.
- `AskedSuffice`: whoever `Assign` picks, of the many it may, they are enough: the picks
  for the preferred paths are followed along the order in which the code goes through them
  (`PicksFold`, `PickedAreInSet`), and where they are none, one of each code reviewers' set is
  picked (`SomebodyIsPicked`, `TwoAreAsked`).

`ReviewVerdictProofs`, for any configurations, pull requests and sequences of reviews

- `AsDocumented`: `Spec => []VerdictAsDocumented`. `Documented` does not count and does not
  go through lists; `CheckInternal` does. Where nobody is named twice they agree, rule by rule.
- `ReviewsMeanIt`: `Spec => ReviewsMeanWhatTheySay`, from `ApprovalsThatStand` for the reviews
  before and after a step and from `MoreApprovalsSuffice`.
- `AssignedIsEnough`: `Spec => []AssignmentSuffices`, from `AskedSuffice`.

`PullRequestProofs`, for any pull requests, people, runs and failed calls

- `VerdictHolds`: `Spec => []LatestVerdictHolds`. The invariant says of every run how what it
  has read relates to the pull request as it is: as long as it is the newest, nothing has
  happened since that starts a run, so that what it has read is still so (`VerdictInv`).
- `RunKept`: `Spec => []LatestRunKept`, under `OpenBranchesDiffer`: no two open pull requests
  have branches of the same name. Every list of runs that `Check` or `Dismiss` holds, however
  old, leaves out a run that was the newest when it was made, and newer ones are not in it
  (`KeptInv`). Finding 7 is what happens without the assumption.
- `StaleGone`: `Spec => []StaleVerdictsGo`, under the same assumption.
- `RequestsOutlive`: `Spec => RequestsOutliveDoubt`: a run remembers at which review it stood
  when it found enough of them, and reviews are only added.

`BotProofs`, for any pull requests, lists, branches and labels

- `MergedInOrder`: `MigrationsSpec => AddedInOrder`. The invariant says that a verdict "passed" is
  true of what was read, `saw`, whatever has been merged since.
- `BloatIsExempted`: `BloatSpec => []BloatNeedsAnAdmin`. A comment that still has equal dates says
  what its author wrote (`BloatInv`), and `GrowthSeen` is what cutting two sizes to megabytes
  before subtracting them can hide.
- `RedirectsFound`: `DocsSpec => []RedirectsSuffice`. Whatever pairing of removed and added files git
  reports, every file that went is in it as removed or as a former name, and every name listed
  otherwise is of a file that is there (`ListedRight`).
- `ReadInFull`: `PagingSpec => []ListedInFull`, for any page size. While nothing is deleted, an
  entry that has stayed was read or is listed beyond the pages read (`NoneSkipped`): growth at
  the front moves it back and never past the page that comes next. A sort is any
  rearrangement that is in order, and loses nothing (`SortedKeeps`).
- `CommentsAreTrue`: `BackportSpec => []CommentsTellTheTruth`. The invariant `BackportInv`: a branch
  that was asked for has a row or is still to do, and not both (`RowsOrTodo`); the clone is
  stopped, or a branch was blocked by that, only beside a row that says so (`StoppedIsTold`);
  the commits picked are the first of those of the pull request (`Picking`); and a branch
  once pushed is never changed, so that rows of earlier comments stay true (`TruthKept`).

`ToolsProofs`, for any goroutines, keys, managers, components, matchers and limits, and for
any number of what the smaller tools work on

- `EveryUserCounted`: `LocksSpec => []ReferencesCounted`: an entry of the map counts at least those
  who wait for it, hold it or are about to let go, so that it is never dropped under one of
  them. Counts are cardinalities of sets of goroutines; `CountedStep` says, action by action,
  what a step does to them.
- `LocksExclude`: `LocksSpec => []MutualExclusion`. Not inductive: the invariant adds that a
  goroutine inside has the entry's channel full.
- `UsesLocks`: `S3Spec => LocksSpec`; the file manager implements the locks' specification, every
  step of it being one of theirs or leaving them alone. What is proved of the locks so holds
  of it.
- `NothingRemovedInUse`: `S3Spec => []NoRemovalInUse`, because removal follows a `Close` of the
  locks that took the lock of every entry and keeps that of the map (`Sealed`, `ClosedIsEmpty`).
- `EachPublishedOnce`: `PublishSpec => []SuccessMeansPublished`, and `FilesStay`:
  `PublishSpec => []FilesOutliveTasks`. The invariant has a part per phase of a run. While
  nothing has failed, every copy of a file is still to be started, being published or published
  (`PublishingInv`); managers are created, and later closed, in their order, and the second only
  after the wait for all tasks (`CreatingInv`, `CleaningInv`).
- `TokensInTime`: `TokenSpec => []ArrivesInTime`, for any number of requests, any skew, buffer and
  life of tokens. The invariant `SentInGrace` relates the token that a request carries to the
  moment at which it was taken, and `SkewMatters` is the arithmetic of two clocks.
- `ValuesCorrect`: `EnvSpec => []ValuesOfTheEnvironment`, for any items, also several of one
  name, and any stores, tokens and configurations, by an invariant with one conjunct per step of a
  run that has been passed. `OneIsLast` finds the item whose value a name ends up with.
- `OnePreview`: `PreviewSpec => []PreviewIsUnique`, for any apps, builds and number of jobs. A job that
  is about to create a branch knows that no app has one, and one that is about to post saw no
  preview on the first page, which nothing but its own comment can change, since comments are
  only appended (`BranchesInv`, `ThreadInv`, `FoundNone`).
- `AllLostFound`: `SearchSpec => []SearchIsThorough`, for any workflows, runs and jobs. The trackers of
  the run, of the workflow and of the whole search together hold every lost job before the
  place that the search has reached, and the jobs that could not be asked about in a run are
  as many as its errors at most (`Tracked`, `Counted`).

On induction. Two operators, `ReviewsByAuthor` and `Only`, and the picks of `PreferredPicks`, are
folds over a sequence (`FoldLeft`), and a fold is a function defined by recursion on sets of
places. The induction theorems of the library take an operator as a parameter, which the
installed provers cannot instantiate. `NatInduct` is an induction over a set of numbers
instead, proved from the well-foundedness of the naturals by way of a least counterexample
(`LeastOfNaturals`); with it `FoldExists`, `PickFoldExists` and `OnlyFoldExists` show that there is
such a function, and a lemma on one more place of the list gives what it computes.

Only model-checked: the liveness properties (`RequestEventuallyExists`,
`VerdictEventuallyEnforced`, `RunEnds`, `VerdictSettles`, `StopsUnlessHeld`, `PublishingEnds`), since
fairness and `ENABLED` are out of the prover's reach.

## 6. What was found

Statements of comments and documentation that the code does not keep, the first
five each a run that TLC refutes; `PROJECT.json` quotes the lines.

1. `duplicate_requests`: "One Access Request should be created per workflow run
   and environment" holds only while handling an event takes less than the
   cache's ttl.
2. `stale_cache_entry`: after one failed call on an otherwise quiet service,
   reconciliation takes the failed event's expired cache entry for work in
   progress, in every pass.
3. `two_environments`: reconciliation looks for requests by run id, so a request
   for one environment hides that another environment of the run has none.
4. `lost_upload`: ci-normalize reports success though an upload to S3 failed,
   because the error of closing a sink is dropped.
5. `counted_twice`: an owner who is also a docs reviewer, or is preferred for a docs
   file that has changed, stands in both groups, and passes alone a pull request with code
   that needs two approvals. For a change of docs only, one approval of such an owner is what the
   tests expect (review_test.go:1114), and `DistinctApprovers` says nothing of it.
6. An upload that fails in the middle makes ci-normalize hang when no timeout is
   given, as its default is; `RunEnds` excepts this case.
7. Two pull requests whose branches have the same name, one of them in a fork, have
   each other's newest runs deleted. With `Branch <- SameBranch`,
   `OpenSets = {{"inner", "fork"}}` and no fairness, `pull_request.cfg` shows it:
   `LatestRunKept` fails, which is why `RunKept` assumes `OpenBranchesDiffer`.
8. For a change of neither docs nor code the rule of two admin approvals is never
   met and never needed: one has let the change pass before.

9. Told to stop while it hands over a review, the watcher of the approval service waits for a
   processor that has returned, and the service never ends (`StopsOnSignal` in
   `ServiceLifecycle`, as a PROPERTY in `programs.cfg`, shows it). When another part
   fails, neither the watcher nor its stream is told.
10. A watcher whose stream ends without an error returns nil, and the service runs on
    without it.
11. oprt2's `Unlock` never releases the lock of the key: a second caller that waits for the same item
    waits until its context ends.
12. oprt2 does not close the managers created before one that fails; a failure to
    make the temporary directory ends in a nil-pointer panic; and a download that
    failed half-way is taken for a finished one by the next caller.
13. find-lost-gha-logs counts errors of a whole run, not consecutive ones
    (`ToleratesThreeInARow` in `LostLogs`, as an INVARIANT, shows it), and its
    retry loop has its condition inverted.
14. A backport takes the first page of commits only and is reported as created.
    Its title loses letters to `strings.Trim`.
15. env-kvstore writes `GITHUB_ENV` anew where it says that it appends.
16. Two pull requests that pass the check of migrations one by one can be merged in the wrong order, and
    the merge queue is not checked at all.
17. A comment that is edited within the second in which it was written still exempts from the bloat
    check.
18. `/foobar/bar` is taken for the index page of `/foobar` by the check of redirects.

Where a finding stands against a property, the property excepts exactly that case and its
comment says so (`StopsUnlessHeld`, `CommentsTellTheTruth`, `AddedInOrder`, `BloatNeedsAnAdmin`,
`RedirectsSuffice`).

In the liveness run of the service the second is excluded by leaving out the fault `event_error`
and the third by one environment per run.

## 7. What is not modelled

- **Approval service**: parsing and authentication of webhooks, the YAML of the
  configuration, the text of reasons and comments, metrics and logs; how often events
  must pause for the loop's timer to fire; more than one page of waiting runs
  (`libs/github/workflow.go`); a duplicate in GitHub's list of pending deployments.
- **Bot**: `Assign` on a backport, runs created in the same second, the opening and
  closing of pull requests; the local dry run of a backport (`BackportLocal`) and the links of
  its comment; `ListWorkflowRuns` on a page without runs, on which its loop would not end;
  the labels, changelog and size passes, which match patterns and keep no state.
- **oprt2**: the external commands that a task runs, and what the repository leaves
  unimplemented: the parser of the configuration, the logger, the Attune authenticator, the key
  hooks of `attunehooks` beyond the creation of a publisher.
- **ci-normalize**: the conversion of JUnit files, flags and paths.
- **libs/github**: the JWT that a token is asked for with, and calls no modelled program makes.
- **tools/retry**: one loop over the attempts of a command with a back-off; its only state is
  the attempt counter.
- **env-loader, changelog, release-notes, libs/git**: conversions of files and of query results,
  without state or concurrency, which unit tests cover.

## 8. Running it

    tlasany M.tla                              # parse
    tlc -workers 2 -config X.cfg M             # one run; module and cfg per PROJECT.json
    tlapm M.tla                                # proofs

The runs take from seconds to two minutes each with two workers; the proofs take some
minutes each from nothing.
