----------------------------- MODULE AmplifyPreview -----------------------------
(* The preview deployments of a pull request (amplify-preview, with the comment *)
(* functions of libs/github): jobs of one pull request, one after the other,    *)
(* look for its branch in several Amplify apps, create the branch in the first  *)
(* app that takes it, start a deployment, and tell of it in a comment.          *)
EXTENDS Naturals, Sequences, SequencesExt, FiniteSetsExt

CONSTANTS Apps,         \* the apps, in the order of the configuration
          FirstPage,    \* comments on the first page of a list
          MaxRetries,   \* how often a job asks whether its deployment is done
          MaxJobs,      \* jobs of the pull request
          MaxTalk       \* other comments

ASSUME AppsListed ==
  /\ Apps \in Seq(STRING) /\ Apps # <<>>
  /\ FirstPage \in Nat /\ MaxRetries \in Nat

VARIABLES full,         \* apps that take no more branches
          branches,     \* apps that have the branch of the pull request
          builds,       \* builds[a]: the latest deployment of the branch in app a
          thread,       \* the comments of the pull request: "talk" or "preview"
          job,          \* what the running job does and knows
          jobs,         \* the jobs so far
          lost          \* the answer to a creation was lost

previewVars == <<full, branches, builds, thread, job, jobs, lost>>

App == Range(Apps)

(* A job at its start, or after its end: the stage, the number of apps in which *)
(* it tried to create the branch, the app of its branch, the deployment as it   *)
(* knows it, the place of its comment (0 for none) and how often it may ask     *)
(* still for the deployment (0 if it is not to wait).                           *)
JobAt(s) == [stage |-> s, tried |-> 0, app |-> Apps[1], seen |-> "none", mine |-> 0, retries |-> 0]

PreviewInit ==
  /\ full \in SUBSET App
  /\ branches = {}
  /\ builds = [a \in App |-> "none"]
  /\ thread = <<>>
  /\ job = JobAt("idle") /\ jobs = 0
  /\ lost = FALSE

Active == job.stage \notin {"idle", "ok", "failed"}

BeginPreview ==
  /\ ~Active /\ jobs < MaxJobs
  /\ jobs' = jobs + 1
  /\ \E n \in {0, MaxRetries} : job' = [JobAt("looking") EXCEPT !.retries = n]
  /\ UNCHANGED <<full, branches, builds, thread, lost>>

(* A call of the job fails, and so does the job.                                *)
CallFails ==
  /\ Active
  /\ job' = JobAt("failed")
  /\ UNCHANGED <<full, branches, builds, thread, jobs, lost>>

(* A mistake: an app that does not answer is taken to be without the branch.    *)
UsableAnyway(found, silent) == TRUE

(* FindExistingBranch asks all apps, of which some may not answer.  A branch    *)
(* that one of the others has will do; without one, silence is an error.        *)
Usable(found, silent) == found # {} \/ silent = {}

FindExistingBranch ==
  /\ job.stage = "looking"
  /\ \E silent \in SUBSET App :
       LET found == branches \ silent
       IN  /\ Usable(found, silent)
           /\ \/ /\ found = {}
                 /\ job' = [job EXCEPT !.stage = "creating"]
              \/ \E a \in found : job' = [job EXCEPT !.stage = "deploying", !.app = a]
  /\ UNCHANGED <<full, branches, builds, thread, jobs, lost>>

(* CreateBranch goes on to the next app after an error of any kind: the limit,  *)
(* a branch that exists, or an answer that is lost after the branch was made.   *)
(* With the last app it runs out of them and the job fails.                     *)
CreateBranch ==
  /\ job.stage = "creating" /\ job.tried < Len(Apps)
  /\ LET a == Apps[job.tried + 1]
         goOn == [job EXCEPT !.tried = @ + 1]
         possible == a \notin full \cup branches
     IN  \/ /\ possible
            /\ branches' = branches \cup {a}
            /\ job' = [job EXCEPT !.stage = "deploying", !.app = a]
            /\ UNCHANGED lost
         \/ /\ possible
            /\ branches' = branches \cup {a} /\ lost' = TRUE
            /\ job' = goOn
         \/ job' = goOn /\ UNCHANGED <<branches, lost>>
  /\ UNCHANGED <<full, builds, thread, jobs>>

(* GetLatestAndActiveJobs, and StartJob if there is none yet.                   *)
EnsureDeployment ==
  LET a == job.app
  IN  /\ job.stage = "deploying"
      /\ builds' = IF builds[a] = "none" THEN [builds EXCEPT ![a] = "running"] ELSE builds
      /\ job' = [job EXCEPT !.stage = "finding", !.seen = builds'[a]]
      /\ UNCHANGED <<full, branches, thread, jobs, lost>>

(* FindCommentByTraits: the first preview on the first page.                    *)
FoundOn(list) ==
  LET places == {n \in DOMAIN list : n <= FirstPage /\ list[n] = "preview"}
  IN  IF places = {} THEN 0 ELSE Min(places)

FindComment ==
  /\ job.stage = "finding"
  /\ job' = [job EXCEPT !.stage = "posting", !.mine = FoundOn(thread)]
  /\ UNCHANGED <<full, branches, builds, thread, jobs, lost>>

(* The comment is updated or created.  A job that does not wait, or has waited, *)
(* ends; a deployment that was cancelled counts as done.                        *)
PostPreview ==
  /\ job.stage = "posting"
  /\ thread' = IF job.mine = 0 THEN Append(thread, "preview") ELSE thread
  /\ job' = IF job.retries > 0 THEN [job EXCEPT !.stage = "waiting"]
            ELSE JobAt(IF job.seen = "failed" THEN "failed" ELSE "ok")
  /\ UNCHANGED <<full, branches, builds, jobs, lost>>

Completed(status) == status \in {"done", "failed"}

(* WaitForJobCompletion looks at the latest deployment of the branch, which may *)
(* be a later one than it set out to wait for.                                  *)
WaitForJobCompletion ==
  LET status == builds[job.app]
  IN  /\ job.stage = "waiting"
      /\ job' = IF Completed(status)
                THEN [job EXCEPT !.stage = "finding", !.seen = status, !.retries = 0]
                ELSE IF job.retries = 1 THEN JobAt("failed")
                ELSE [job EXCEPT !.seen = status, !.retries = @ - 1]
      /\ UNCHANGED <<full, branches, builds, thread, jobs, lost>>

(* Amplify finishes a deployment, or starts one for a new commit.               *)
BuildEnds(a) ==
  /\ builds[a] = "running"
  /\ \E s \in {"done", "failed"} : builds' = [builds EXCEPT ![a] = s]
  /\ UNCHANGED <<full, branches, thread, job, jobs, lost>>

NewCommit(a) ==
  /\ a \in branches
  /\ builds' = [builds EXCEPT ![a] = "running"]
  /\ UNCHANGED <<full, branches, thread, job, jobs, lost>>

Talk ==
  /\ Cardinality({n \in DOMAIN thread : thread[n] = "talk"}) < MaxTalk
  /\ thread' = Append(thread, "talk")
  /\ UNCHANGED <<full, branches, builds, job, jobs, lost>>

PreviewNext ==
  \/ BeginPreview \/ CallFails \/ FindExistingBranch \/ CreateBranch
  \/ EnsureDeployment \/ FindComment \/ PostPreview \/ WaitForJobCompletion
  \/ \E a \in App : BuildEnds(a) \/ NewCommit(a)
  \/ Talk

PreviewSpec == PreviewInit /\ [][PreviewNext]_previewVars

-------------------------------------------------------------------------------
Previews == {n \in DOMAIN thread : thread[n] = "preview"}

(* As long as the jobs of a pull request come one after the other and no answer *)
(* of Amplify is lost, its branch is in one app only, whichever apps fail to    *)
(* answer, and the job deploys and waits for that one; a preview on the first   *)
(* page of comments stays the only one (amplify.go, comment.go).                *)
PreviewIsUnique ==
  /\ ~lost => Cardinality(branches) <= 1
  /\ job.stage \in {"deploying", "finding", "posting", "waiting"} => job.app \in branches
  /\ (\E n \in Previews : n <= FirstPage) => Cardinality(Previews) = 1

===============================================================================
