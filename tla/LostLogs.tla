------------------------------- MODULE LostLogs -------------------------------
(* The search for failed jobs whose logs GitHub has lost                        *)
(* (find-lost-gha-logs/cmd/main.go): the runs of the workflows one after the    *)
(* other, and the logs of every job that may have failed.                       *)
(*                                                                              *)
(* A job is what the search can learn of it: "passed"; or else "kept" if its    *)
(* logs are there, "lost" if they are not, and "selfHosted" if they are not and *)
(* it did not run at GitHub.  A run is the sequence of its jobs, and whether it *)
(* succeeded at its first attempt.                                              *)
EXTENDS Naturals, Sequences, FiniteSets

CONSTANTS Workflows,           \* a sequence, for each workflow, of runs
          IncludeSelfHosted    \* values of the flag

ASSUME WorkflowsTyped ==
  Workflows \in Seq(Seq([passedAtFirst : BOOLEAN, jobs : Seq(STRING)]))

VARIABLES selfHosted,     \* the flag
          workflow, run,  \* where the search is
          jobAt,          \* the next job of the run, 0 between runs
          errCount,       \* errors in this run so far
          inARow,         \* how many of the latest checks in this run were errors
          runReport,      \* the tracker of this run
          workflowReport, \* the tracker of this workflow
          summary,        \* what the summary is made of
          unsure,         \* jobs whose check failed
          search          \* "going", "stuck", "crashed", "done", "failed"

searchVars == <<selfHosted, workflow, run, jobAt, errCount, inARow, runReport,
                workflowReport, summary, unsure, search>>

SearchInit ==
  /\ selfHosted \in IncludeSelfHosted
  /\ workflow = 1 /\ run = 1 /\ jobAt = 0
  /\ errCount = 0 /\ inARow = 0
  /\ runReport = {} /\ workflowReport = {} /\ summary = {} /\ unsure = {}
  /\ search = "going"

Runs == IF workflow \in DOMAIN Workflows THEN Workflows[workflow] ELSE <<>>
Jobs == Runs[run].jobs
Here == <<workflow, run, jobAt>>

-------------------------------------------------------------------------------
(* A page of a list of workflows, runs or jobs.  What serverErrorRetry makes of *)
(* the answers: it asks again, until the context is done, after an error that   *)
(* is not the server's; takes an answer it did not get apart and crashes; and   *)
(* hands on the server's errors.  An error that gets through ends the search,   *)
(* with a summary that leaves out the tracker of the run it happened in.        *)
Outcome(answer) ==
  CASE answer = "clientError" -> "stuck"
    [] answer = "noAnswer"    -> "crashed"
    [] answer = "serverError" -> "failed"

ListFails ==
  /\ search = "going"
  /\ \E answer \in {"clientError", "noAnswer", "serverError"} : search' = Outcome(answer)
  /\ summary' = IF search' = "failed" THEN summary \cup workflowReport ELSE summary
  /\ UNCHANGED <<selfHosted, workflow, run, jobAt, errCount, inARow, runReport,
                 workflowReport, unsure>>

(* Asking again until it works or the signal comes; a rate limit is one of      *)
(* these errors and never gets to rateLimitRetry.                               *)
Recovered ==
  /\ search = "stuck"
  /\ search' = "going"
  /\ UNCHANGED <<selfHosted, workflow, run, jobAt, errCount, inARow, runReport,
                 workflowReport, summary, unsure>>

Interrupted ==
  /\ search = "stuck"
  /\ search' = "failed"
  /\ summary' = summary \cup workflowReport
  /\ UNCHANGED <<selfHosted, workflow, run, jobAt, errCount, inARow, runReport,
                 workflowReport, unsure>>

(* A run that succeeded at its first attempt is not looked at.                  *)
SkipRun ==
  /\ search = "going" /\ jobAt = 0
  /\ run <= Len(Runs) /\ Runs[run].passedAtFirst
  /\ run' = run + 1
  /\ UNCHANGED <<selfHosted, workflow, jobAt, errCount, inARow, runReport,
                 workflowReport, summary, unsure, search>>

BeginRun ==
  /\ search = "going" /\ jobAt = 0
  /\ run <= Len(Runs) /\ ~Runs[run].passedAtFirst
  /\ jobAt' = 1
  /\ errCount' = 0 /\ inARow' = 0 /\ runReport' = {}
  /\ UNCHANGED <<selfHosted, workflow, run, workflowReport, summary, unsure, search>>

(* didJobFail without asking for the logs.                                      *)
Ignored(job) == job = "passed" \/ (job = "selfHosted" /\ ~selfHosted)

CheckJob ==
  /\ search = "going" /\ jobAt # 0 /\ jobAt <= Len(Jobs)
  /\ jobAt' = jobAt + 1
  /\ runReport' = IF Jobs[jobAt] \in {"lost", "selfHosted"} /\ ~Ignored(Jobs[jobAt])
                  THEN runReport \cup {Here} ELSE runReport
  /\ inARow' = 0
  /\ UNCHANGED <<selfHosted, workflow, run, errCount, workflowReport, summary, unsure, search>>

(* A mistake: one error too many is tolerated.                                  *)
ToleratedOneMore(count) == count <= 4

Tolerated(count) == count <= 3

(* The logs cannot be asked for.  Nothing sets the count of errors back.        *)
CheckFails ==
  /\ search = "going" /\ jobAt # 0 /\ jobAt <= Len(Jobs)
  /\ ~Ignored(Jobs[jobAt])
  /\ errCount' = errCount + 1
  /\ inARow' = inARow + 1
  /\ unsure' = unsure \cup {Here}
  /\ IF Tolerated(errCount')
     THEN jobAt' = jobAt + 1 /\ UNCHANGED <<summary, search>>
     ELSE /\ search' = "failed"
          /\ summary' = summary \cup workflowReport
          /\ UNCHANGED jobAt
  /\ UNCHANGED <<selfHosted, workflow, run, runReport, workflowReport>>

EndRun ==
  /\ search = "going" /\ jobAt # 0 /\ jobAt > Len(Jobs)
  /\ workflowReport' = workflowReport \cup runReport
  /\ run' = run + 1 /\ jobAt' = 0
  /\ UNCHANGED <<selfHosted, workflow, errCount, inARow, runReport, summary, unsure, search>>

EndWorkflow ==
  /\ search = "going" /\ jobAt = 0
  /\ workflow <= Len(Workflows) /\ run > Len(Runs)
  /\ summary' = summary \cup workflowReport
  /\ workflowReport' = {}
  /\ workflow' = workflow + 1 /\ run' = 1
  /\ UNCHANGED <<selfHosted, jobAt, errCount, inARow, runReport, unsure, search>>

EndSearch ==
  /\ search = "going" /\ workflow > Len(Workflows)
  /\ search' = "done"
  /\ UNCHANGED <<selfHosted, workflow, run, jobAt, errCount, inARow, runReport,
                 workflowReport, summary, unsure>>

SearchNext ==
  \/ ListFails \/ Recovered \/ Interrupted \/ SkipRun \/ BeginRun \/ CheckJob
  \/ CheckFails \/ EndRun \/ EndWorkflow \/ EndSearch

SearchSpec == SearchInit /\ [][SearchNext]_searchVars

-------------------------------------------------------------------------------
LostKinds == IF selfHosted THEN {"lost", "selfHosted"} ELSE {"lost"}

LostIn(w, r) ==
  IF Workflows[w][r].passedAtFirst THEN {}
  ELSE {<<w, r, j>> : j \in {n \in DOMAIN Workflows[w][r].jobs :
                               Workflows[w][r].jobs[n] \in LostKinds}}

LostJobs == UNION {UNION {LostIn(w, r) : r \in DOMAIN Workflows[w]} : w \in DOMAIN Workflows}

(* A search that ends well has found every job that lost its logs, but for at   *)
(* most three in a run which could not be asked about; the summary never has    *)
(* another job, and one that is printed after an error has every finished run   *)
(* (find-lost-gha-logs/cmd/main.go).                                            *)
SearchIsThorough ==
  /\ summary \subseteq LostJobs
  /\ search = "done" =>
       /\ LostJobs \ summary \subseteq unsure
       /\ \A w \in DOMAIN Workflows : \A r \in DOMAIN Workflows[w] :
            Cardinality({u \in unsure : u[1] = w /\ u[2] = r}) <= 3
  /\ search = "failed" =>
       \A u \in LostJobs \ unsure :
         u[1] < workflow \/ (u[1] = workflow /\ u[2] < run) => u \in summary

(* A run is only given up after more than three errors one after the other     *)
(* (main.go: "Tolerate up to three consecutive errors before outright           *)
(* failing").                                                                   *)
ToleratesThreeInARow == errCount > 3 => inARow > 3

===============================================================================
