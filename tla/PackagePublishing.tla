--------------------------- MODULE PackagePublishing ---------------------------
(* One run of oprt2 (cmd/oprt2/main.go) with the APT managers it creates: the  *)
(* managers are made, the files that they are to publish are fetched, a group  *)
(* of goroutines publishes them, and the managers are closed.                  *)
(*                                                                             *)
(* Reading the configuration and logging are left out, and so is what Attune   *)
(* does with a package; making its publisher may fail.  Until the group is     *)
(* started one goroutine does everything, so that a call of                    *)
(* GetPackagePublishingTasks, with all it fetches, is one step.                *)
EXTENDS Naturals, FiniteSets, Sequences

CONSTANTS Manager,        \* the managers of the configuration, 1..n
          Component, Item,
          Matchers,       \* Matchers[c]: per file matcher of c, the items it matches
          Limits          \* values of ParallelLimit, 0 for none

ASSUME ManagersNumbered ==
  /\ IsFiniteSet(Manager) /\ Manager # {}
  /\ Manager = 1..Cardinality(Manager)

VARIABLES limit,          \* tasks that may run at once
          phase, at,      \* where run is, and the manager it is at
          dirs,           \* managers whose temporary directory is on disk
          closed,         \* managers whose Close has been called
          queue,          \* queue[t]: how often task t is to be started still
          running,        \* tasks that are being published
          published,      \* published[t]: how often task t was published
          cancelled,      \* the context of the group is done
          outcome         \* what run returns, when it does

publishVars == <<limit, phase, at, dirs, closed, queue, running, published, cancelled, outcome>>

Task == Manager \X Component \X Item

PublishInit ==
  /\ limit \in Limits
  /\ phase = "creating" /\ at = 1
  /\ dirs = {} /\ closed = {}
  /\ queue = [t \in Task |-> 0]
  /\ running = {}
  /\ published = [t \in Task |-> 0]
  /\ cancelled = FALSE
  /\ outcome = "ok"

LastManager == at = Cardinality(Manager)

(* A mistake: what several matchers select is not compacted.                   *)
CopiesPerMatcher(c, i) == Cardinality({n \in DOMAIN Matchers[c] : i \in Matchers[c][n]})

(* The matching files of a component are sorted and compacted.                 *)
Copies(c, i) == IF \E n \in DOMAIN Matchers[c] : i \in Matchers[c][n] THEN 1 ELSE 0

-------------------------------------------------------------------------------
CreateManager ==
  /\ phase = "creating"
  /\ dirs' = dirs \cup {at}
  /\ at' = IF LastManager THEN 1 ELSE at + 1
  /\ phase' = IF LastManager THEN "collecting" ELSE phase
  /\ UNCHANGED <<limit, closed, queue, running, published, cancelled, outcome>>

(* A matcher does not compile, or the file manager cannot be made, or the      *)
(* publisher cannot and the file manager is closed again: run returns before   *)
(* it has deferred the clean-up.                                               *)
CreationFails ==
  /\ phase = "creating"
  /\ phase' = "ended" /\ outcome' = "error"
  /\ UNCHANGED <<limit, at, dirs, closed, queue, running, published, cancelled>>

(* The temporary directory cannot be made or opened: NewFileManager's return   *)
(* sets the result that its deferred Close is called on to nil.                *)
CreationPanics ==
  /\ phase = "creating"
  /\ phase' = "ended" /\ outcome' = "panic"
  /\ dirs' \in {dirs, dirs \cup {at}}
  /\ UNCHANGED <<limit, at, closed, queue, running, published, cancelled>>

(* GetPackagePublishingTasks of one manager after the other.                   *)
CollectTasks ==
  /\ phase = "collecting"
  /\ queue' = [t \in Task |-> IF t[1] = at THEN Copies(t[2], t[3]) ELSE queue[t]]
  /\ at' = IF LastManager THEN 1 ELSE at + 1
  /\ phase' = IF LastManager THEN "publishing" ELSE phase
  /\ UNCHANGED <<limit, dirs, closed, running, published, cancelled, outcome>>

(* Listing or fetching fails.                                                  *)
CollectingFails ==
  /\ phase = "collecting"
  /\ phase' = "cleaning" /\ at' = 1 /\ outcome' = "error"
  /\ UNCHANGED <<limit, dirs, closed, queue, running, published, cancelled>>

(* A mistake: no limit is taken for a limit of zero.                           *)
MayStartBelowLimit == Cardinality(running) < limit

MayStart == limit = 0 \/ Cardinality(running) < limit

(* A task whose context is done does not start the command.                    *)
StartTask(t) ==
  /\ phase = "publishing" /\ queue[t] > 0 /\ MayStart
  /\ queue' = [queue EXCEPT ![t] = @ - 1]
  /\ IF cancelled
     THEN outcome' = "error" /\ UNCHANGED running
     ELSE running' = running \cup {t} /\ UNCHANGED outcome
  /\ UNCHANGED <<limit, phase, at, dirs, closed, published, cancelled>>

TaskSucceeds(t) ==
  /\ t \in running
  /\ running' = running \ {t}
  /\ published' = [published EXCEPT ![t] = @ + 1]
  /\ UNCHANGED <<limit, phase, at, dirs, closed, queue, cancelled, outcome>>

(* The first task to fail cancels the context of the others.                   *)
TaskFails(t) ==
  /\ t \in running
  /\ running' = running \ {t}
  /\ cancelled' = TRUE /\ outcome' = "error"
  /\ UNCHANGED <<limit, phase, at, dirs, closed, queue, published>>

(* The signal that ends the program's context.                                 *)
Interrupt ==
  /\ phase = "publishing" /\ ~cancelled
  /\ cancelled' = TRUE
  /\ UNCHANGED <<limit, phase, at, dirs, closed, queue, running, published, outcome>>

(* A mistake: run goes on when the last task has been started.                 *)
AllTasksStarted == \A t \in Task : queue[t] = 0

AllTasksReturned == running = {} /\ \A t \in Task : queue[t] = 0

Wait ==
  /\ phase = "publishing" /\ AllTasksReturned
  /\ phase' = "cleaning"
  /\ UNCHANGED <<limit, at, dirs, closed, queue, running, published, cancelled, outcome>>

(* The deferred clean-up closes every manager, also after one cannot be closed.*)
CloseManager ==
  /\ phase = "cleaning"
  /\ closed' = closed \cup {at}
  /\ \/ dirs' = dirs \ {at} /\ UNCHANGED outcome
     \/ outcome' = "error" /\ UNCHANGED dirs
  /\ at' = at + 1
  /\ phase' = IF LastManager THEN "ended" ELSE phase
  /\ UNCHANGED <<limit, queue, running, published, cancelled>>

PublishNext ==
  \/ CreateManager \/ CreationFails \/ CreationPanics
  \/ CollectTasks \/ CollectingFails
  \/ \E t \in Task : StartTask(t) \/ TaskSucceeds(t) \/ TaskFails(t)
  \/ Interrupt \/ Wait \/ CloseManager

PublishSpec == PublishInit /\ [][PublishNext]_publishVars /\ WF_publishVars(PublishNext)

-------------------------------------------------------------------------------
Selected(c, i) == \E n \in DOMAIN Matchers[c] : i \in Matchers[c][n]

(* oprt2 reports success only when each file that some matcher of a component  *)
(* selects was published there once, however many matchers select it, nothing  *)
(* else was, and every manager has been closed (main.go, apt.go).              *)
SuccessMeansPublished ==
  phase = "ended" /\ outcome = "ok" =>
    /\ dirs = {} /\ closed = Manager
    /\ \A t \in Task : published[t] = IF Selected(t[2], t[3]) THEN 1 ELSE 0

(* The files of a manager stay on disk for as long as one of them is being     *)
(* published, whichever task fails and whenever the signal comes; and once all *)
(* managers exist, failures leave no directory whose manager was not closed.   *)
FilesOutliveTasks ==
  /\ \A t \in running : t[1] \in dirs \ closed
  /\ phase = "ended" /\ at > Cardinality(Manager) => closed = Manager

(* With publishing that ends, oprt2 ends, with a limit on its goroutines and   *)
(* without one.                                                                *)
PublishingEnds == (phase = "publishing") ~> (phase = "ended")

===============================================================================
