------------------------------- MODULE Backport -------------------------------
(* The bot's backport command (bot/internal/bot/backport.go): for every branch  *)
(* that a label of the merged pull request asks for, it picks the commits onto  *)
(* a new branch and pushes it, and then leaves one comment with the outcome.    *)
(*                                                                              *)
(* A run works in a clone of its own.  The git commands are modelled by what    *)
(* they do to the clone and to GitHub; any of them may fail, and a run may be   *)
(* started again after it has ended, finding what the earlier ones pushed.      *)
EXTENDS Naturals, Sequences, SequencesExt, FiniteSetsExt

CONSTANTS Label, BaseOf,   \* labels of the form backport/<branch> and their branch
          Bases,           \* the branches in the order of sort.Strings
          Pulls,           \* pull requests: their labels, commits and merges
          CommitsPage,     \* commits on the first page of a list
          MaxAttempts      \* runs for one pull request

(* A branch is sorted once, and a label names a branch that is sorted.          *)
ASSUME BackportAssumption ==
  /\ Bases \in Seq(Range(Bases))
  /\ \A m, n \in DOMAIN Bases : Bases[m] = Bases[n] => m = n
  /\ \A l \in DOMAIN BaseOf : BaseOf[l] \in Range(Bases)
  /\ \A p \in Pulls : p.commits \in Seq(Range(p.commits))
  /\ CommitsPage \in Nat

VARIABLES pull,        \* the pull request
          step,        \* where the run is
          attempt,     \* number of the run
          todo,        \* branches that the loop has still to do, in order
          rows,        \* rows[b]: outcome for branch b, "none" before there is one
          tree,        \* the clone: its branch, the commits on it, a stopped pick
          pushed,      \* pushed[b]: commits of the backport branch on GitHub
          comments     \* the tables of the comments left so far

backportVars == <<pull, step, attempt, todo, rows, tree, pushed, comments>>

Base == Range(Bases)
Nothing == <<>>
NoRows == [b \in Base |-> "none"]

(* What a loop over q appends to a list that it starts with nothing in.         *)
Only(q, S) ==
  FoldLeft(LAMBDA kept, x : IF x \in S THEN Append(kept, x) ELSE kept, <<>>, q)

(* findBranches: the labels that name a branch, sorted.                         *)
Named(labels) == {BaseOf[l] : l \in labels \cap DOMAIN BaseOf}
FindBranches(labels) == Only(Bases, Named(labels))

(* GetPullRequestWithCommits reads one page and skips merge commits.            *)
WithoutMerges(q, p) == Only(q, Range(q) \ p.merges)
CommitsOf(p) ==
  WithoutMerges(SubSeq(p.commits, 1, Min({CommitsPage, Len(p.commits)})), p)

Clean == [branch |-> "start", picked |-> Nothing, stopped |-> FALSE]

BackportInit ==
  /\ pull \in Pulls
  /\ step = "starting" /\ attempt = 1
  /\ todo = Nothing /\ rows = NoRows
  /\ tree = Clean
  /\ pushed = [b \in Base |-> Nothing]
  /\ comments = {}

-------------------------------------------------------------------------------
(* The author is not an insider, a call fails, or the run has not one job: the  *)
(* run ends before it touches a branch.  Without labels it has nothing to do.   *)
Refuse ==
  /\ step = "starting"
  /\ step' = "ended"
  /\ UNCHANGED <<pull, attempt, todo, rows, tree, pushed, comments>>

Start ==
  /\ step = "starting"
  /\ todo' = FindBranches(pull.labels)
  /\ todo' # Nothing
  /\ step' = "branching"
  /\ UNCHANGED <<pull, attempt, rows, tree, pushed, comments>>

RowFor(b, r) ==
  /\ rows' = [rows EXCEPT ![b] = r]
  /\ todo' = Tail(todo)
  /\ step' = "branching"

(* The end of createBackportBranch with an error, and the row for it.           *)
Fail(reason) ==
  /\ RowFor(Head(todo), reason)
  /\ UNCHANGED <<pull, attempt, pushed, comments>>

(* Fetch, check out the base, and a new branch on it.  git refuses to switch    *)
(* branches while a pick is stopped half-way.                                   *)
NewBranch ==
  /\ step = "branching" /\ todo # Nothing
  /\ ~tree.stopped
  /\ tree' = [branch |-> Head(todo), picked |-> Nothing, stopped |-> FALSE]
  /\ step' = "picking"
  /\ UNCHANGED <<pull, attempt, todo, rows, pushed, comments>>

FetchFails ==
  /\ step = "branching" /\ todo # Nothing
  /\ UNCHANGED tree
  /\ Fail(IF tree.stopped THEN "blocked" ELSE "failed")

LeftToPick == Len(CommitsOf(pull)) > Len(tree.picked)
NextPick == CommitsOf(pull)[Len(tree.picked) + 1]

Pick ==
  /\ step = "picking" /\ LeftToPick
  /\ tree' = [tree EXCEPT !.picked = Append(@, NextPick)]
  /\ UNCHANGED <<pull, step, attempt, todo, rows, pushed, comments>>

(* A mistake: a pick that conflicts is not aborted.                             *)
NotAborted(t) == t

(* What git cherry-pick --abort leaves of the clone.                            *)
Aborted(t) == [t EXCEPT !.stopped = FALSE]

(* A conflict stops the pick; it is aborted, unless that fails as well.         *)
PickConflicts ==
  /\ step = "picking" /\ LeftToPick
  /\ LET stopped == [tree EXCEPT !.stopped = TRUE]
     IN  \/ tree' = Aborted(stopped) /\ Fail("failed")
         \/ tree' = stopped /\ Fail("stuck")

(* A branch that was pushed before has other commits than the one picked now,   *)
(* so the push, which does not force, is refused.                               *)
MayPush(b) == pushed[b] = Nothing

Push ==
  /\ step = "picking" /\ ~LeftToPick
  /\ MayPush(tree.branch)
  /\ pushed' = [pushed EXCEPT ![tree.branch] = <<attempt>> \o tree.picked]
  /\ RowFor(Head(todo), "created")
  /\ UNCHANGED <<pull, attempt, tree, comments>>

PushFails ==
  /\ step = "picking" /\ ~LeftToPick
  /\ UNCHANGED tree
  /\ Fail("failed")

(* updatePullRequest comments on all rows, or fails.                            *)
Comment ==
  /\ step = "branching" /\ todo = Nothing
  /\ comments' \in {comments, comments \cup {[attempt |-> attempt, rows |-> rows]}}
  /\ step' = "ended"
  /\ UNCHANGED <<pull, attempt, todo, rows, tree, pushed>>

(* Somebody runs the job again: a new clone, the same pull request.             *)
RunAgain ==
  /\ step = "ended" /\ attempt < MaxAttempts
  /\ attempt' = attempt + 1
  /\ step' = "starting"
  /\ todo' = Nothing /\ rows' = NoRows /\ tree' = Clean
  /\ UNCHANGED <<pull, pushed, comments>>

BackportNext ==
  \/ Refuse \/ Start \/ NewBranch \/ FetchFails \/ Pick \/ PickConflicts
  \/ Push \/ PushFails \/ Comment \/ RunAgain

BackportSpec == BackportInit /\ [][BackportNext]_backportVars

-------------------------------------------------------------------------------
(* A comment that offers to open a pull request for a branch speaks of a branch *)
(* that is on GitHub with every commit of the original, but for merges, in      *)
(* their order, if the original has no more of them than a page of GitHub; and  *)
(* it has a row for every branch that was asked for and for no other.  A        *)
(* backport that conflicts does not keep later ones from being tried: a branch  *)
(* is blocked only after an abort that failed (backport.go: "abort it,          *)
(* otherwise we won't be able to switch branch").                               *)
CommentsTellTheTruth ==
  \A c \in comments : \A b \in Base :
    /\ c.rows[b] = "blocked" => \E x \in Base : c.rows[x] = "stuck"
    /\ c.rows[b] # "none" <=> b \in Named(pull.labels)
    /\ c.rows[b] = "created" /\ Len(pull.commits) <= CommitsPage =>
         pushed[b] = <<c.attempt>> \o WithoutMerges(pull.commits, pull)

===============================================================================
