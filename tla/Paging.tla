-------------------------------- MODULE Paging --------------------------------
(* The loops of the bot's GitHub client (bot/internal/github/github.go) that    *)
(* read a list page by page, while others add to the list and delete from it.   *)
(* GitHub itself is modelled by what the loops rely on: pages of PageSize items *)
(* of the list as it is when they are asked for, and the number of the next.    *)
EXTENDS Naturals, Sequences, SequencesExt, FiniteSetsExt

CONSTANTS Entry,      \* things that may be listed
          PageSize

ASSUME PagingAssumption == Entry \subseteq Nat /\ PageSize \in Nat \ {0}

(* A loop, by what it does: whether it takes one page only, and whether it      *)
(* sorts what it got by time.                                                   *)
Loop(one, sorted) == [onePage |-> one, sorted |-> sorted]

ListReviews               == Loop(FALSE, TRUE)
ListReviewers             == Loop(FALSE, FALSE)
ListPullRequests          == Loop(FALSE, FALSE)
ListFiles                 == Loop(FALSE, FALSE)
ListWorkflows             == Loop(FALSE, FALSE)
ListWorkflowRuns          == Loop(FALSE, FALSE)
ListComments              == Loop(FALSE, FALSE)
ListWorkflowJobs          == Loop(FALSE, FALSE)
GetPullRequestWithCommits == Loop(TRUE, FALSE)

Loops == {ListReviews, ListReviewers, ListPullRequests, ListFiles, ListWorkflows,
          ListWorkflowRuns, ListComments, ListWorkflowJobs, GetPullRequestWithCommits}

VARIABLES loop,     \* the loop that is running
          list,     \* the list on GitHub
          page,     \* the page to ask for next, 0 once the loop has ended
          got,      \* what the loop has so far
          stayed,   \* entries that have been on the list since the loop began
          shrunk    \* something was deleted meanwhile

pagingVars == <<loop, list, page, got, stayed, shrunk>>

Rising(q)  == \A m, n \in DOMAIN q : m < n => q[m] <= q[n]
Falling(q) == \A m, n \in DOMAIN q : m < n => q[m] >= q[n]

(* An entry is the time it was made at.  Some lists start with the oldest       *)
(* entry and some with the latest.                                              *)
PagingInit ==
  /\ loop \in Loops
  /\ \E S \in SUBSET Entry :
       /\ IsFiniteSet(S)
       /\ list \in {q \in [1 .. Cardinality(S) -> S] : Range(q) = S /\ (Rising(q) \/ Falling(q))}
  /\ page = 1
  /\ got = <<>>
  /\ stayed = Range(list)
  /\ shrunk = FALSE

PageOf(n) == SubSeq(list, (n - 1) * PageSize + 1, Min({n * PageSize, Len(list)}))
(* A mistake: one entry too few makes a page.                                   *)
MorePagesButLast(n) == n * PageSize + 1 < Len(list)

MorePages(n) == n * PageSize < Len(list)

(* sort.SliceStable on the time of submission.                                  *)
Sorted(s) ==
  {t \in {[n \in DOMAIN s |-> s[p[n]]] : p \in Bijection(DOMAIN s, DOMAIN s)} : Rising(t)}

FetchPage ==
  /\ page # 0
  /\ LET more == MorePages(page) /\ ~loop.onePage
         all  == got \o PageOf(page)
     IN  /\ page' = IF more THEN page + 1 ELSE 0
         /\ got' \in IF ~more /\ loop.sorted THEN Sorted(all) ELSE {all}
  /\ UNCHANGED <<loop, list, stayed, shrunk>>

(* Others add entries at either end of the list, and delete some.               *)
Grow ==
  /\ page # 0
  /\ \E e \in Entry \ Range(list) : list' \in {<<e>> \o list, Append(list, e)}
  /\ UNCHANGED <<loop, page, got, stayed, shrunk>>

Shrink ==
  /\ page # 0
  /\ \E n \in DOMAIN list : /\ list' = RemoveAt(list, n)
                            /\ stayed' = stayed \ {list[n]}
  /\ shrunk' = TRUE
  /\ UNCHANGED <<loop, page, got>>

PagingNext == FetchPage \/ Grow \/ Shrink

PagingSpec == PagingInit /\ [][PagingNext]_pagingVars

-------------------------------------------------------------------------------
(* A list that nobody deletes from is read in full, whatever is added to it     *)
(* between two pages and wherever the last page ends; and reviews come in the   *)
(* order of their submission, which the rules on the latest review rely on      *)
(* (github.go, review.go).                                                      *)
ListedInFull ==
  page = 0 =>
    /\ ~shrunk /\ ~loop.onePage => stayed \subseteq Range(got)
    /\ loop.sorted => Rising(got)

===============================================================================
