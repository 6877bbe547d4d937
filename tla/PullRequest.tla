---------------------------- MODULE PullRequest ----------------------------
(***************************************************************************)
(* bot: the workflow runs of pull requests                                 *)
(*                                                                         *)
(* Whatever happens to a pull request starts a run of the Check workflow.  *)
(* Runs overlap, each reads the pull request in several calls, and GitHub  *)
(* shows the verdicts of all of them on the pull request, so a run of an   *)
(* internal author's pull request deletes the earlier ones.  For forks the *)
(* Dismiss workflow, which a timer starts, does that.  Assign runs when a  *)
(* pull request is opened.  Every call to GitHub is a step, and may fail.  *)
(***************************************************************************)
EXTENDS ReviewRules

CONSTANTS
    Person,
    Pull,
    Env,          \* Env[p]: repo, author, base and head of p
    Branch,       \* Branch[p]: the name of p's branch
    Fork,         \* those whose branch is in a fork
    Config,       \* the reviewers file
    FileSets,     \* the sets of files that a pull request may change
    OpenSets,     \* which pull requests may be open
    Opened,       \* [reviews, files]: what one may start from
    States,       \* states of the reviews that are submitted
    MaxReviews,   \* bound on the reviews of a pull request
    MaxRuns,      \* bound on the runs of Check
    MaxDismisses, \* bound on the runs of Dismiss
    MaxFaults     \* bound on the calls that fail

ASSUME PullAssumption ==
    /\ Env \in [Pull -> [repo : STRING, author : STRING, base : STRING, head : STRING]]
    /\ Branch \in [Pull -> STRING]
    /\ Fork \subseteq Pull
    /\ OpenSets \subseteq SUBSET Pull
    /\ \A S \in OpenSets : IsFiniteSet(S)
    /\ \A o \in Opened : o.reviews \in Seq([author : STRING, state : STRING])
    /\ Person \subseteq STRING
    /\ FileSets \subseteq SUBSET File
    /\ MaxReviews \in Nat /\ MaxRuns \in Nat /\ MaxDismisses \in Nat /\ MaxFaults \in Nat

VARIABLES
    open,      \* the open pull requests; none is opened or closed
    pulls,     \* pulls[p]: reviews, requested reviewers, label, files, size comments
    runs,      \* the runs of Check, in the order of their creation
    kept,      \* those that GitHub still has
    assigns,   \* assigns[p]: the run of Assign
    sweep,     \* the run of Dismiss
    faults

vars == <<open, pulls, runs, kept, assigns, sweep, faults>>

PullAt(reviews, requested, doNotMerge, files, comments) ==
    [reviews |-> reviews, requested |-> requested, doNotMerge |-> doNotMerge,
     files |-> files, comments |-> comments]

(* A run: what it does next, the reviews and files it has read, the runs   *)
(* it has yet to delete, and the reviewers it has listed.                  *)
RunAt(p, pc, reviews, files, todo, listed) ==
    [pull |-> p, pc |-> pc, reviews |-> reviews, files |-> files,
     todo |-> todo, listed |-> listed]

Queued(p) == RunAt(p, "label", <<>>, {}, {}, {})
Ended(r, verdict) == RunAt(r.pull, verdict, r.reviews, r.files, {}, {})
Verdicts == {"success", "failure", "error"}

RunsOf(p) == {i \in DOMAIN runs : runs[i].pull = p}
IsNewest(i) == \A j \in RunsOf(runs[i].pull) : j <= i

(* What the pull request deserves.                                         *)
Approved(p, pull) ==
    /\ ~pull.doNotMerge
    /\ ReviewsSuffice(Config, Env[p], pull.reviews, pull.files)

(* Every pull request has one run behind it.                               *)
Init ==
    /\ open \in OpenSets
    /\ \E o \in [open -> Opened] :
          pulls = [p \in open |-> PullAt(o[p].reviews, {}, FALSE, o[p].files, 0)]
    /\ runs = LET first == SetToSeq(open)
              IN  [i \in DOMAIN first |->
                     Ended(Queued(first[i]),
                           IF Approved(first[i], pulls[first[i]]) THEN "success" ELSE "failure")]
    /\ kept = DOMAIN runs
    /\ assigns = [p \in open |-> [pc |-> "files", files |-> {}]]
    /\ sweep = [pc |-> "idle", pulls |-> {}, todo |-> {}, count |-> 0]
    /\ faults = 0

----------------------------------------------------------------------------
(* What happens to a pull request.                                         *)

StartRun(p) ==
    /\ Len(runs) < MaxRuns
    /\ runs' = Append(runs, Queued(p))
    /\ kept' = kept \cup {Len(runs) + 1}
    /\ UNCHANGED <<open, assigns, sweep, faults>>

(* The author of a pull request can only comment on it.                    *)
SubmitReview(p, person, state) ==
    LET pull == pulls[p] IN
    /\ Len(pull.reviews) < MaxReviews
    /\ person = Env[p].author => state = "COMMENTED"
    /\ pulls' = [pulls EXCEPT ![p] =
          PullAt(Append(pull.reviews, [author |-> person, state |-> state]),
                 pull.requested \ {person}, pull.doNotMerge, pull.files, pull.comments)]
    /\ StartRun(p)

Push(p) ==
    LET pull == pulls[p] IN
    \E files \in FileSets \ {pull.files} :
        /\ pulls' = [pulls EXCEPT ![p] =
              PullAt(pull.reviews, pull.requested, pull.doNotMerge, files, pull.comments)]
        /\ StartRun(p)

SetLabel(p) ==
    LET pull == pulls[p] IN
    /\ pulls' = [pulls EXCEPT ![p] =
          PullAt(pull.reviews, pull.requested, ~pull.doNotMerge, pull.files, pull.comments)]
    /\ StartRun(p)

----------------------------------------------------------------------------
(* Check                                                                   *)

Goto(i, run) ==
    /\ runs' = [runs EXCEPT ![i] = run]
    /\ UNCHANGED <<open, assigns, sweep, faults>>

CheckDoNotMerge(i) ==
    LET r == runs[i] IN
    /\ r.pc = "label"
    /\ Goto(i, IF pulls[r.pull].doNotMerge THEN Ended(r, "failure")
               ELSE RunAt(r.pull, "reviews", <<>>, {}, {}, {}))
    /\ UNCHANGED <<open, pulls, kept>>

(* ListReviews and isInternal; an external author's verdict follows.       *)
ListReviewsFirstPage(i) ==
    LET r == runs[i]
        reviews == SubSeq(pulls[r.pull].reviews, 1, 1)
        env == Env[r.pull]
        verdict == IF CheckExternal(Config, env, reviews) THEN "success" ELSE "failure"
    IN
    /\ r.pc = "reviews"
    /\ Goto(i, RunAt(r.pull, IF IsInternalAuthor(Config, env) THEN "runs" ELSE verdict,
                     reviews, {}, {}, {}))
    /\ UNCHANGED <<open, pulls, kept>>

ListReviews(i) ==
    LET r == runs[i]
        reviews == pulls[r.pull].reviews
        env == Env[r.pull]
        verdict == IF CheckExternal(Config, env, reviews) THEN "success" ELSE "failure"
    IN
    /\ r.pc = "reviews"
    /\ Goto(i, RunAt(r.pull, IF IsInternalAuthor(Config, env) THEN "runs" ELSE verdict,
                     reviews, {}, {}, {}))
    /\ UNCHANGED <<open, pulls, kept>>

(* dismiss, deleteRuns: all runs of the branch but the newest.             *)
StaleAll(branch) == {j \in kept : Branch[runs[j].pull] = branch}
StaleNewestFirst(branch) ==
    LET found == {j \in kept : Branch[runs[j].pull] = branch}
    IN  {j \in found : \E k \in found : k < j}
Stale(branch) ==
    LET found == {j \in kept : Branch[runs[j].pull] = branch}
    IN  {j \in found : \E k \in found : j < k}

ListWorkflowRuns(i) ==
    LET r == runs[i] IN
    /\ r.pc = "runs"
    /\ Goto(i, RunAt(r.pull, "delete", r.reviews, {}, Stale(Branch[r.pull]), {}))
    /\ UNCHANGED <<open, pulls, kept>>

(* A run that cannot be deleted is skipped.                                *)
DeleteWorkflowRunOnce(i) ==
    LET r == runs[i] IN
    /\ r.pc = "delete"
    /\ r.todo # {}
    /\ runs' = [runs EXCEPT ![i] = RunAt(r.pull, "delete", r.reviews, {}, {}, {})]
    /\ kept' = kept \ {Min(r.todo)}
    /\ UNCHANGED <<open, pulls, assigns, sweep, faults>>

DeleteWorkflowRun(i) ==
    LET r == runs[i]
        j == Min(r.todo)
    IN
    /\ r.pc = "delete"
    /\ r.todo # {}
    /\ runs' = [runs EXCEPT ![i] =
          RunAt(r.pull, "delete", r.reviews, {}, r.todo \ {j}, {})]
    /\ \/ kept' = kept \ {j} /\ faults' = faults
       \/ kept' = kept /\ faults < MaxFaults /\ faults' = faults + 1
    /\ UNCHANGED <<open, pulls, assigns, sweep>>

Decide(r, files) ==
    IF CheckInternal(Config, Env[r.pull], r.reviews, ClassifyChanges(Env[r.pull], files), files)
    THEN RunAt(r.pull, "reviewers", r.reviews, files, {}, {})
    ELSE RunAt(r.pull, "failure", r.reviews, files, {}, {})

ListFiles(i) ==
    LET r == runs[i]
        files == pulls[r.pull].files
    IN
    /\ r.pc = "delete"
    /\ r.todo = {}
    /\ Goto(i, IF ClassifyChanges(Env[r.pull], files).large
               THEN RunAt(r.pull, "comments", r.reviews, files, {}, {})
               ELSE Decide(r, files))
    /\ UNCHANGED <<open, pulls, kept>>

(* ListComments: a call that fails counts as one that finds none.          *)
ListComments(i) ==
    LET r == runs[i]
        none == RunAt(r.pull, "comment", r.reviews, r.files, {}, {})
    IN
    /\ r.pc = "comments"
    /\ \/ Goto(i, IF pulls[r.pull].comments > 0 THEN Decide(r, r.files) ELSE none)
       \/ /\ faults < MaxFaults
          /\ faults' = faults + 1
          /\ runs' = [runs EXCEPT ![i] = none]
          /\ UNCHANGED <<open, assigns, sweep>>
    /\ UNCHANGED <<open, pulls, kept>>

CreateComment(i) ==
    LET r == runs[i]
        pull == pulls[r.pull]
    IN
    /\ r.pc = "comment"
    /\ pulls' = [pulls EXCEPT ![r.pull] =
          PullAt(pull.reviews, pull.requested, pull.doNotMerge, pull.files, pull.comments + 1)]
    /\ Goto(i, Decide(r, r.files))
    /\ UNCHANGED <<open, kept>>

ListReviewers(i) ==
    LET r == runs[i] IN
    /\ r.pc = "reviewers"
    /\ Goto(i, RunAt(r.pull, "dismissals", r.reviews, r.files, {}, pulls[r.pull].requested))
    /\ UNCHANGED <<open, pulls, kept>>

(* The reviews are listed once more.                                       *)
FindDismissals(i) ==
    LET r == runs[i]
        dismissed == ReviewersToDismiss(Config, r.listed, pulls[r.pull].reviews)
    IN
    /\ r.pc = "dismissals"
    /\ Goto(i, IF dismissed = {} THEN Ended(r, "success")
               ELSE RunAt(r.pull, "dismiss", r.reviews, r.files, {}, dismissed))
    /\ UNCHANGED <<open, pulls, kept>>

DismissReviewers(i) ==
    LET r == runs[i]
        pull == pulls[r.pull]
    IN
    /\ r.pc = "dismiss"
    /\ pulls' = [pulls EXCEPT ![r.pull] =
          PullAt(pull.reviews, pull.requested \ r.listed, pull.doNotMerge, pull.files,
                 pull.comments)]
    /\ Goto(i, Ended(r, "success"))
    /\ UNCHANGED <<open, kept>>

(* A call fails: until the reviews have been found sufficient that ends    *)
(* the run with an error, and from there on it is only logged.             *)
CheckFails(i) ==
    LET r == runs[i] IN
    /\ faults < MaxFaults
    /\ faults' = faults + 1
    /\ \/ /\ r.pc \in {"label", "reviews", "runs", "comment"} \/ (r.pc = "delete" /\ r.todo = {})
          /\ runs' = [runs EXCEPT ![i] = Ended(r, "error")]
       \/ /\ r.pc \in {"reviewers", "dismissals", "dismiss"}
          /\ runs' = [runs EXCEPT ![i] = Ended(r, "success")]
    /\ UNCHANGED <<open, pulls, kept, assigns, sweep>>

Check(i) ==
    \/ CheckDoNotMerge(i) \/ ListReviews(i)
    \/ ListWorkflowRuns(i) \/ DeleteWorkflowRun(i)
    \/ ListFiles(i) \/ ListComments(i) \/ CreateComment(i)
    \/ ListReviewers(i) \/ FindDismissals(i) \/ DismissReviewers(i)

----------------------------------------------------------------------------
(* Assign                                                                  *)

AssignListFiles(p) ==
    /\ assigns[p].pc = "files"
    /\ assigns' = [assigns EXCEPT ![p] = [pc |-> "request", files |-> pulls[p].files]]
    /\ UNCHANGED <<open, pulls, runs, kept, sweep, faults>>

RequestReviewers(p) ==
    LET pull == pulls[p] IN
    /\ assigns[p].pc = "request"
    /\ \E asked \in Get(Config, Env[p], assigns[p].files) :
          pulls' = [pulls EXCEPT ![p] =
             PullAt(pull.reviews, pull.requested \cup asked, pull.doNotMerge, pull.files,
                    pull.comments)]
    /\ assigns' = [assigns EXCEPT ![p] = [pc |-> "done", files |-> {}]]
    /\ UNCHANGED <<open, runs, kept, sweep, faults>>

(* A call fails, or there is nobody to pick from and Intn panics.          *)
AssignFails(p) ==
    /\ assigns[p].pc \in {"files", "request"}
    /\ \/ faults < MaxFaults /\ faults' = faults + 1
       \/ /\ assigns[p].pc = "request"
          /\ Get(Config, Env[p], assigns[p].files) = {}
          /\ faults' = faults
    /\ assigns' = [assigns EXCEPT ![p] = [pc |-> "done", files |-> {}]]
    /\ UNCHANGED <<open, pulls, runs, kept, sweep>>

Assign(p) == AssignListFiles(p) \/ RequestReviewers(p)

----------------------------------------------------------------------------
(* Dismiss: the stale runs of every fork's branch, one pull request after  *)
(* the other; one that fails is skipped.                                   *)

SweepAt(pc, left, todo) == [pc |-> pc, pulls |-> left, todo |-> todo, count |-> sweep.count]

SweepStarts ==
    /\ sweep.pc = "idle"
    /\ sweep.count < MaxDismisses
    /\ sweep' = [pc |-> "runs", pulls |-> Fork \cap open, todo |-> {}, count |-> sweep.count + 1]
    /\ UNCHANGED <<open, pulls, runs, kept, assigns, faults>>

SweepListRuns ==
    /\ sweep.pc = "runs"
    /\ \/ /\ sweep.pulls = {}
          /\ sweep' = SweepAt("idle", {}, {})
          /\ faults' = faults
       \/ \E p \in sweep.pulls :
             \/ /\ sweep' = SweepAt("delete", sweep.pulls \ {p}, Stale(Branch[p]))
                /\ faults' = faults
             \/ /\ sweep' = SweepAt("runs", sweep.pulls \ {p}, {})
                /\ faults < MaxFaults
                /\ faults' = faults + 1
    /\ UNCHANGED <<open, pulls, runs, kept, assigns>>

SweepDelete ==
    /\ sweep.pc = "delete"
    /\ \/ /\ sweep.todo = {}
          /\ sweep' = SweepAt("runs", sweep.pulls, {})
          /\ UNCHANGED <<open, kept, faults>>
       \/ /\ sweep.todo # {}
          /\ sweep' = SweepAt("delete", sweep.pulls, sweep.todo \ {Min(sweep.todo)})
          /\ \/ kept' = kept \ {Min(sweep.todo)} /\ faults' = faults
             \/ kept' = kept /\ faults < MaxFaults /\ faults' = faults + 1
    /\ UNCHANGED <<open, pulls, runs, assigns>>

Sweep == SweepListRuns \/ SweepDelete

----------------------------------------------------------------------------
Happens(p) ==
    \/ \E person \in Person, state \in States : SubmitReview(p, person, state)
    \/ Push(p)
    \/ SetLabel(p)

Next ==
    \/ \E p \in open : Happens(p) \/ Assign(p) \/ AssignFails(p)
    \/ \E i \in DOMAIN runs : Check(i) \/ CheckFails(i)
    \/ SweepStarts
    \/ Sweep

Spec == Init /\ [][Next]_vars

(* While a run that GitHub has started can go on, one of them does: calls  *)
(* return or fail.  Nothing has to happen to a pull request, and no timer  *)
(* has to start another Dismiss.                                           *)
GoOn ==
    \/ \E i \in DOMAIN runs : Check(i)
    \/ \E p \in open : Assign(p) \/ AssignFails(p)
    \/ Sweep

FairSpec == Spec /\ WF_vars(GoOn)

----------------------------------------------------------------------------
(* LatestVerdictHolds: when the newest run of a pull request has ended, it *)
(* has passed exactly when the pull request, as it is, has no do-not-merge *)
(* label and the reviews it needs, however its calls and those of earlier  *)
(* runs were mixed with what happened (check.go:35-118).                   *)
LatestVerdictHolds ==
    \A i \in DOMAIN runs :
        IsNewest(i) /\ runs[i].pc \in {"success", "failure"} =>
            (runs[i].pc = "success" <=> Approved(runs[i].pull, pulls[runs[i].pull]))

(* LatestRunKept: no run of Check or Dismiss deletes the newest run of a   *)
(* pull request, whose verdict is the one that counts (dismiss.go:62).     *)
LatestRunKept == \A i \in DOMAIN runs : IsNewest(i) => i \in kept

(* StaleVerdictsGo: once the newest run of an internal author's pull       *)
(* request has passed or has found too few approvals, the verdicts of all  *)
(* earlier ones are gone, unless a call failed or the label kept the run   *)
(* from getting that far (check.go:61).                                    *)
StaleVerdictsGo ==
    \A i \in DOMAIN runs :
        /\ IsNewest(i)
        /\ runs[i].pc \in {"success", "failure"}
        /\ ~pulls[runs[i].pull].doNotMerge
        /\ IsInternalAuthor(Config, Env[runs[i].pull])
        /\ faults = 0
        => kept \cap RunsOf(runs[i].pull) = {i}

(* RequestsOutliveDoubt: a run withdraws somebody's request to review only *)
(* where the reviews that it read first were sufficient, and where since   *)
(* then there was a moment at which two people had approved and this one   *)
(* had not reviewed (check.go:137, 158-162, 195-200).                      *)
RequestsOutliveDoubt ==
    [][\A p \in open :
          LET now == pulls[p].reviews
              withdrawn == pulls[p].requested \ pulls'[p].requested
              ReviewsUntil(n) == SubSeq(now, 1, n)
          IN  withdrawn # {} /\ pulls'[p].reviews = now =>
                 \E i \in RunsOf(p) :
                    /\ ReviewsSuffice(Config, Env[p], runs[i].reviews, runs[i].files)
                    /\ \E n \in Len(runs[i].reviews) .. Len(now) :
                          /\ Cardinality(Approvers(ReviewsUntil(n))) > 1
                          /\ \A r \in ToSet(ReviewsUntil(n)) : r.author \notin withdrawn]_vars

(* VerdictSettles: whatever happens to a pull request, in the end GitHub   *)
(* has its newest run, and that one's verdict is the one that the pull     *)
(* request deserves, or an error (check.go:35-118, dismiss.go:66).         *)
VerdictSettles ==
    \A p \in Pull :
        <>[](p \in open =>
               \E i \in kept \cap RunsOf(p) :
                  /\ IsNewest(i)
                  /\ \/ runs[i].pc = "success" /\ Approved(p, pulls[p])
                     \/ runs[i].pc = "failure" /\ ~Approved(p, pulls[p])
                     \/ runs[i].pc = "error")

============================================================================
