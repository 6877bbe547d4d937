------------------------- MODULE PullRequestProofs -------------------------
(***************************************************************************)
(* The runs of Check, for any pull requests, people, files and reviewers,  *)
(* and any number of reviews, runs and failing calls.                      *)
(***************************************************************************)
EXTENDS PullRequest, ReviewRulesProofs, SequenceTheorems

(* No two open pull requests have branches of the same name.  Runs are     *)
(* listed by that name, so without it a run may delete another's.          *)
OpenBranchesDiffer ==
    \A S \in OpenSets : \A p, q \in S : Branch[p] = Branch[q] => p = q

IsSequence(s) == Len(s) \in Nat /\ s = [i \in 1..Len(s) |-> s[i]]

(* Where a run has found no label; has the reviews; has the files; and has *)
(* found that they suffice.                                                *)
Passing == {"reviewers", "dismissals", "dismiss"}
HasFiles == Passing \cup {"comments", "comment"}
HasReviews == HasFiles \cup {"runs", "delete"}
Unlabelled == HasReviews \cup {"reviews", "success"}

RunsInv ==
    /\ open \in OpenSets
    /\ DOMAIN pulls = open
    /\ \A p \in open : IsSequence(pulls[p].reviews)
    /\ IsSequence(runs)
    /\ \A i \in DOMAIN runs : runs[i].pull \in open
    /\ kept \subseteq DOMAIN runs
    /\ faults \in Nat

(* What a run has read is what the pull request is.                        *)
Fresh(r, pull) ==
    /\ r.pc \in Unlabelled => ~pull.doNotMerge
    /\ r.pc \in HasReviews => r.reviews = pull.reviews
    /\ r.pc \in HasFiles => r.files = pull.files
    /\ r.pc \in Passing \cup {"success"} =>
          ReviewsSuffice(Config, Env[r.pull], pull.reviews, pull.files)
    /\ r.pc = "failure" => ~Approved(r.pull, pull)

(* The newest run of a pull request has seen it as it is: whatever changes *)
(* a pull request starts a newer one.                                      *)
VerdictInv == \A i \in DOMAIN runs : IsNewest(i) => Fresh(runs[i], pulls[runs[i].pull])

(* What a run that may be late has seen, and what it withdraws.            *)
Sure(r, now) ==
    /\ Len(r.reviews) \in 0..Len(now)
    /\ r.pc \in HasReviews => IsInternalAuthor(Config, Env[r.pull])
    /\ r.pc \in Passing => ReviewsSuffice(Config, Env[r.pull], r.reviews, r.files)
    /\ r.pc = "dismiss" =>
          \E n \in Len(r.reviews)..Len(now) :
             /\ Cardinality(Approvers(SubSeq(now, 1, n))) > 1
             /\ \A x \in ToSet(SubSeq(now, 1, n)) : x.author \notin r.listed

RequestInv == \A i \in DOMAIN runs : Sure(runs[i], pulls[runs[i].pull].reviews)

(* What is listed for deletion has been overtaken.                         *)
Past(js) == \A j \in js : j \in DOMAIN runs /\ ~IsNewest(j)
KeptInv ==
    /\ LatestRunKept
    /\ \A i \in DOMAIN runs : Past(runs[i].todo)
    /\ Past(sweep.todo)

(* Which runs of its pull request a run has left, when no call has failed. *)
Cleared(i, r, pull, left) ==
    /\ r.pc = "delete" => left \subseteq {i} \cup r.todo
    /\ r.pc \in HasFiles \cup {"success"} => left \subseteq {i}
    /\ r.pc = "failure" /\ ~pull.doNotMerge => left \subseteq {i}
StaleInv ==
    \A i \in DOMAIN runs :
        IsNewest(i) /\ faults = 0 /\ IsInternalAuthor(Config, Env[runs[i].pull]) =>
            Cleared(i, runs[i], pulls[runs[i].pull], kept \cap RunsOf(runs[i].pull))

IInv == RunsInv /\ VerdictInv /\ RequestInv /\ (OpenBranchesDiffer => KeptInv /\ StaleInv)

----------------------------------------------------------------------------
(* Sequences.                                                              *)

LEMMA SequencesAre ==
    ASSUME NEW S, NEW s \in Seq(S)
    PROVE  IsSequence(s)
BY DEF IsSequence

LEMMA AppendIs ==
    ASSUME NEW s, IsSequence(s), NEW x
    PROVE  /\ IsSequence(Append(s, x))
           /\ Len(Append(s, x)) = Len(s) + 1
           /\ Append(s, x)[Len(s) + 1] = x
           /\ \A i \in 1..Len(s) : Append(s, x)[i] = s[i]
           /\ \A n \in 0..Len(s) : SubSeq(Append(s, x), 1, n) = SubSeq(s, 1, n)
<1> DEFINE S == {s[i] : i \in 1..Len(s)} \cup {x}
<1>1. s \in Seq(S)
  BY DEF IsSequence
<1>2. x \in S
  OBVIOUS
<1> HIDE DEF S
<1>3. Append(s, x) \in Seq(S)
  BY <1>1, <1>2
<1>4. /\ Len(Append(s, x)) = Len(s) + 1
      /\ Append(s, x)[Len(s) + 1] = x
      /\ \A i \in 1..Len(s) : Append(s, x)[i] = s[i]
  BY <1>1, <1>2
<1>5. ASSUME NEW n \in 0..Len(s) PROVE SubSeq(Append(s, x), 1, n) = SubSeq(s, 1, n)
  BY <1>1, <1>2, <1>3, <1>4
<1>6. QED
  BY <1>3, <1>4, <1>5, SequencesAre

LEMMA SubSeqIs ==
    ASSUME NEW s, IsSequence(s), NEW n \in 0..Len(s)
    PROVE  IsSequence(SubSeq(s, 1, n)) /\ Len(SubSeq(s, 1, n)) = n
           /\ SubSeq(s, 1, Len(s)) = s
           /\ ToSet(s) = {s[i] : i \in DOMAIN s}
<1> DEFINE S == {s[i] : i \in 1..Len(s)}
<1>1. s \in Seq(S)
  BY DEF IsSequence
<1> HIDE DEF S
<1>2. SubSeq(s, 1, n) \in Seq(S) /\ Len(SubSeq(s, 1, n)) = n
  BY <1>1
<1>3. SubSeq(s, 1, Len(s)) = s
  BY <1>1
<1>4. QED
  BY <1>2, <1>3, SequencesAre DEF ToSet, Range

----------------------------------------------------------------------------
(* Steps.  A run goes on; pull requests keep what verdicts depend on.      *)
Advance(i, x) ==
    /\ runs' = [runs EXCEPT ![i] = x]
    /\ x.pull = runs[i].pull
SameDeserts ==
    /\ open' = open
    /\ DOMAIN pulls' = open
    /\ \A p \in open : /\ pulls'[p].reviews = pulls[p].reviews
                       /\ pulls'[p].files = pulls[p].files
                       /\ pulls'[p].doNotMerge = pulls[p].doNotMerge
OnlyPastGo ==
    /\ kept' \subseteq kept
    /\ \A j \in kept \ kept' : ~IsNewest(j)

(* Where every run is as it was but for one, all are as new as they were.  *)
LEMMA Advanced ==
    ASSUME RunsInv, NEW i \in DOMAIN runs, NEW x, Advance(i, x)
    PROVE  /\ IsSequence(runs') /\ DOMAIN runs' = DOMAIN runs
           /\ runs'[i] = x
           /\ \A j \in DOMAIN runs : /\ j # i => runs'[j] = runs[j]
                                     /\ runs'[j].pull = runs[j].pull
                                     /\ IsNewest(j)' <=> IsNewest(j)
           /\ \A p : RunsOf(p)' = RunsOf(p)
           /\ \A js : Past(js)' <=> Past(js)
<1>1. DOMAIN runs = 1..Len(runs) /\ Len(runs) \in Nat
  BY DEF RunsInv, IsSequence
<1>2. /\ DOMAIN runs' = DOMAIN runs
      /\ runs'[i] = x
      /\ \A j \in DOMAIN runs : j # i => runs'[j] = runs[j]
      /\ runs' = [j \in DOMAIN runs |-> IF j = i THEN x ELSE runs[j]]
  BY DEF Advance, RunsInv, IsSequence
<1>3. Len(runs') = Len(runs)
  BY <1>1, <1>2
<1>4. IsSequence(runs')
  BY <1>1, <1>2, <1>3 DEF IsSequence
<1>5. \A j \in DOMAIN runs : runs'[j].pull = runs[j].pull
  BY <1>2 DEF Advance
<1>6. \A p : RunsOf(p)' = RunsOf(p)
  BY <1>2, <1>5 DEF RunsOf
<1>7. \A j \in DOMAIN runs : IsNewest(j)' <=> IsNewest(j)
  BY <1>5, <1>6 DEF IsNewest
<1>8. \A js : Past(js)' <=> Past(js)
  BY <1>2, <1>7 DEF Past
<1>9. QED
  BY <1>2, <1>4, <1>5, <1>6, <1>7, <1>8

(* It is enough to look at the run that goes on.                           *)
LEMMA AdvanceInv ==
    ASSUME IInv, NEW i \in DOMAIN runs, NEW x, Advance(i, x),
           SameDeserts, OpenBranchesDiffer => OnlyPastGo, kept' \subseteq kept,
           faults' \in Nat, faults' >= faults, sweep' = sweep,
           OpenBranchesDiffer => Past(x.todo),
           Sure(x, pulls[runs[i].pull].reviews),
           IsNewest(i) => Fresh(x, pulls[runs[i].pull]),
           OpenBranchesDiffer /\ IsNewest(i) /\ faults' = 0
              /\ IsInternalAuthor(Config, Env[runs[i].pull]) =>
                 Cleared(i, x, pulls[runs[i].pull], kept' \cap RunsOf(runs[i].pull))
    PROVE  IInv'
<1> USE DEF IInv
<1>1. /\ IsSequence(runs') /\ DOMAIN runs' = DOMAIN runs
      /\ runs'[i] = x
      /\ \A j \in DOMAIN runs : /\ j # i => runs'[j] = runs[j]
                                /\ runs'[j].pull = runs[j].pull
                                /\ IsNewest(j)' <=> IsNewest(j)
      /\ \A p : RunsOf(p)' = RunsOf(p)
      /\ \A js : Past(js)' <=> Past(js)
  BY Advanced, Zenon
<1>2. \A j \in DOMAIN runs : runs[j].pull \in open
  BY DEF RunsInv
<1>3. RunsInv'
  BY <1>1, <1>2 DEF RunsInv, SameDeserts, IsSequence
<1>4. ASSUME NEW j \in DOMAIN runs
      PROVE  /\ pulls'[runs'[j].pull].reviews = pulls[runs[j].pull].reviews
             /\ \A r : Fresh(r, pulls'[runs'[j].pull]) <=> Fresh(r, pulls[runs[j].pull])
             /\ \A r, left : Cleared(j, r, pulls'[runs'[j].pull], left)
                               <=> Cleared(j, r, pulls[runs[j].pull], left)
  BY <1>1, <1>2 DEF SameDeserts, Fresh, Cleared, Approved
<1>5. VerdictInv'
  BY <1>1, <1>4 DEF VerdictInv, Advance
<1>6. RequestInv'
  BY <1>1, <1>4 DEF RequestInv, Advance
<1>7. ASSUME OpenBranchesDiffer PROVE KeptInv'
  BY <1>1, <1>7 DEF KeptInv, OnlyPastGo, LatestRunKept
<1>8. ASSUME OpenBranchesDiffer PROVE StaleInv'
  <2> SUFFICES ASSUME NEW j \in DOMAIN runs, IsNewest(j), faults' = 0,
                      IsInternalAuthor(Config, Env[runs[j].pull])
               PROVE  Cleared(j, runs'[j], pulls[runs[j].pull], kept' \cap RunsOf(runs[j].pull))
    BY <1>1, <1>4 DEF StaleInv
  <2>1. CASE j = i
    BY <1>1, <1>8, <2>1 DEF Advance
  <2>2. CASE j # i
    <3>1. faults = 0
      BY DEF RunsInv
    <3>2. Cleared(j, runs[j], pulls[runs[j].pull], kept \cap RunsOf(runs[j].pull))
      BY <1>8, <3>1 DEF StaleInv
    <3>3. QED
      BY <1>1, <2>2, <3>2 DEF Cleared
  <2>3. QED
    BY <2>1, <2>2
<1>9. QED
  BY <1>3, <1>5, <1>6, <1>7, <1>8

(* Steps that delete nothing.                                              *)
LEMMA QuietInv ==
    ASSUME IInv, NEW i \in DOMAIN runs, NEW x, Advance(i, x), SameDeserts,
           kept' = kept, sweep' = sweep, faults' = faults \/ faults' = faults + 1,
           OpenBranchesDiffer => Past(x.todo),
           Sure(x, pulls[runs[i].pull].reviews),
           IsNewest(i) => Fresh(x, pulls[runs[i].pull]),
           OpenBranchesDiffer /\ IsNewest(i) /\ faults' = 0
              /\ IsInternalAuthor(Config, Env[runs[i].pull]) =>
                 Cleared(i, x, pulls[runs[i].pull], kept \cap RunsOf(runs[i].pull))
    PROVE  IInv'
<1>1. faults' \in Nat /\ faults' >= faults
  BY DEF IInv, RunsInv
<1>2. OnlyPastGo /\ kept' \subseteq kept
  BY DEF OnlyPastGo
<1>3. QED
  BY <1>1, <1>2, AdvanceInv, Zenon

(* What a run lists for deletion has been overtaken, and that is all but   *)
(* the newest.                                                             *)
LEMMA StaleArePast ==
    ASSUME IInv, OpenBranchesDiffer, NEW branch
    PROVE  Past(Stale(branch))
<1> SUFFICES ASSUME NEW j \in Stale(branch) PROVE j \in DOMAIN runs /\ ~IsNewest(j)
  BY DEF Past
<1>1. PICK k \in kept : j < k /\ Branch[runs[k].pull] = branch
  BY DEF Stale
<1>2. j \in DOMAIN runs /\ k \in DOMAIN runs /\ Branch[runs[j].pull] = branch
  BY DEF Stale, IInv, RunsInv
<1>3. runs[j].pull = runs[k].pull
  BY <1>1, <1>2 DEF IInv, RunsInv, OpenBranchesDiffer
<1>4. k \in RunsOf(runs[j].pull) /\ k \in Nat /\ j \in Nat
  BY <1>2, <1>3 DEF RunsOf, IInv, RunsInv, IsSequence
<1>5. QED
  BY <1>1, <1>2, <1>4 DEF IsNewest

LEMMA StaleAreOthers ==
    ASSUME IInv, OpenBranchesDiffer, NEW i \in DOMAIN runs, IsNewest(i)
    PROVE  kept \cap RunsOf(runs[i].pull) \subseteq {i} \cup Stale(Branch[runs[i].pull])
<1> SUFFICES ASSUME NEW j \in kept, runs[j].pull = runs[i].pull, j # i
             PROVE  j \in Stale(Branch[runs[i].pull])
  BY DEF RunsOf
<1>1. i \in kept
  BY DEF IInv, KeptInv, LatestRunKept
<1>2. i \in Nat /\ j \in Nat /\ j \in DOMAIN runs
  BY DEF IInv, RunsInv, IsSequence
<1>3. j < i
  BY <1>2 DEF IsNewest, RunsOf
<1>4. QED
  BY <1>1, <1>3 DEF Stale

LEMMA LeastIs ==
    ASSUME NEW S, S \subseteq Nat, S # {}
    PROVE  Min(S) \in S
<1>1. \E n \in S : \A m \in S : n <= m
  BY LeastOfNaturals
<1>2. QED
  BY <1>1, Zenon DEF Min

(* CheckInternal, where it is called.                                      *)
LEMMA DecidedOf ==
    ASSUME NEW r, NEW files
    PROVE  /\ Decide(r, files).pull = r.pull
           /\ Decide(r, files).todo = {}
           /\ \A i, left, pull : left \subseteq {i} => Cleared(i, Decide(r, files), pull, left)
BY DEF Decide, RunAt, Cleared

LEMMA Decided ==
    ASSUME NEW r, r.pc \in {"delete", "comments", "comment"}, NEW files, NEW pull,
           Sure(r, pull.reviews)
    PROVE  /\ Sure(Decide(r, files), pull.reviews)
           /\ Fresh(r, pull) /\ files = pull.files => Fresh(Decide(r, files), pull)
<1> DEFINE passes == CheckInternal(Config, Env[r.pull], r.reviews,
                                   ClassifyChanges(Env[r.pull], files), files)
           x == RunAt(r.pull, IF passes THEN "reviewers" ELSE "failure", r.reviews, files, {}, {})
<1>1. Decide(r, files) = x
  BY DEF Decide
<1>2. /\ x.pull = r.pull /\ x.todo = {} /\ x.reviews = r.reviews /\ x.files = files
      /\ x.pc = IF passes THEN "reviewers" ELSE "failure"
  BY DEF RunAt
<1>3. IsInternalAuthor(Config, Env[r.pull])
  BY DEF Sure, HasReviews, HasFiles, Passing
<1>4. ReviewsSuffice(Config, Env[r.pull], r.reviews, files) <=> passes
  BY <1>3 DEF ReviewsSuffice
<1> HIDE DEF x, passes
<1>5. Sure(x, pull.reviews)
  BY <1>2, <1>3, <1>4 DEF Sure, HasReviews, HasFiles, Passing
<1>6. ASSUME Fresh(r, pull), files = pull.files PROVE Fresh(x, pull)
  BY <1>2, <1>4, <1>6 DEF Fresh, Approved, Unlabelled, HasReviews, HasFiles, Passing
<1>7. QED
  BY <1>1, <1>5, <1>6

LEMMA CheckStepInv ==
    ASSUME IInv, NEW i \in DOMAIN runs, Check(i) \/ CheckFails(i)
    PROVE  IInv'
<1> DEFINE r == runs[i]
           p == r.pull
           pull == pulls[p]
           internal == IsInternalAuthor(Config, Env[p])
           left == kept \cap RunsOf(p)
<1>1. /\ p \in open /\ IsSequence(pull.reviews) /\ Len(pull.reviews) \in Nat
      /\ faults \in Nat
      /\ Sure(r, pull.reviews)
      /\ IsNewest(i) => Fresh(r, pull)
      /\ OpenBranchesDiffer => Past(r.todo) /\ LatestRunKept
      /\ OpenBranchesDiffer /\ IsNewest(i) /\ faults = 0 /\ internal =>
            Cleared(i, r, pull, left)
  BY DEF IInv, RunsInv, RequestInv, VerdictInv, KeptInv, StaleInv, IsSequence
<1>2. UNCHANGED <<open, pulls>> => SameDeserts
  BY DEF SameDeserts, IInv, RunsInv
<1>3. kept' = kept => OnlyPastGo /\ kept' \subseteq kept
  BY DEF OnlyPastGo
<1>4. Past({})
  BY DEF Past
<1>5. CASE CheckDoNotMerge(i)
  <2> DEFINE x == IF pull.doNotMerge THEN Ended(r, "failure")
                  ELSE RunAt(p, "reviews", <<>>, {}, {}, {})
  <2>1. r.pc = "label" /\ Advance(i, x) /\ SameDeserts /\ kept' = kept /\ x.pull = p
        /\ faults' = faults /\ sweep' = sweep /\ x.todo = {}
    BY <1>2, <1>3, <1>5 DEF CheckDoNotMerge, Goto, Advance, Ended, RunAt
  <2>2. Sure(x, pull.reviews)
    BY <1>1, <2>1 DEF Sure, Ended, RunAt, HasReviews, HasFiles, Passing
  <2>3. IsNewest(i) => Fresh(x, pull)
    BY DEF Fresh, Ended, RunAt, Approved, Unlabelled, HasReviews, HasFiles, Passing
  <2>4. Cleared(i, x, pull, left)
    BY DEF Cleared, Ended, RunAt, HasFiles, Passing
  <2> HIDE DEF x
  <2>5. QED
    BY <1>1, <1>4, <2>1, <2>2, <2>3, <2>4, QuietInv
<1>6. CASE ListReviews(i)
  <2> DEFINE verdict == IF CheckExternal(Config, Env[p], pull.reviews)
                        THEN "success" ELSE "failure"
             x == RunAt(p, IF internal THEN "runs" ELSE verdict, pull.reviews, {}, {}, {})
  <2>1. r.pc = "reviews" /\ Advance(i, x) /\ SameDeserts /\ kept' = kept /\ x.pull = p
        /\ faults' = faults /\ sweep' = sweep /\ x.todo = {}
    BY <1>2, <1>3, <1>6 DEF ListReviews, Goto, Advance, RunAt
  <2>2. Sure(x, pull.reviews)
    BY <1>1, <2>1 DEF Sure, RunAt, HasReviews, HasFiles, Passing
  <2>3. IsNewest(i) => Fresh(x, pull)
    BY <1>1, <2>1
    DEF Fresh, RunAt, Approved, ReviewsSuffice, Unlabelled, HasReviews, HasFiles, Passing
  <2>4. internal => Cleared(i, x, pull, left)
    BY DEF Cleared, RunAt, HasFiles, Passing
  <2> HIDE DEF x
  <2>5. QED
    BY <1>1, <1>4, <2>1, <2>2, <2>3, <2>4, QuietInv
<1>7. CASE ListWorkflowRuns(i)
  <2> DEFINE x == RunAt(p, "delete", r.reviews, {}, Stale(Branch[p]), {})
  <2>1. r.pc = "runs" /\ Advance(i, x) /\ SameDeserts /\ kept' = kept /\ x.pull = p
        /\ faults' = faults /\ sweep' = sweep /\ x.todo = Stale(Branch[p])
    BY <1>2, <1>3, <1>7 DEF ListWorkflowRuns, Goto, Advance, RunAt
  <2>2. Sure(x, pull.reviews)
    BY <1>1, <2>1 DEF Sure, RunAt, HasReviews, HasFiles, Passing
  <2>3. IsNewest(i) => Fresh(x, pull)
    BY <1>1, <2>1 DEF Fresh, RunAt, Unlabelled, HasReviews, HasFiles, Passing
  <2>4. OpenBranchesDiffer => Past(x.todo)
    BY <2>1, StaleArePast
  <2>5. OpenBranchesDiffer /\ IsNewest(i) => Cleared(i, x, pull, left)
    BY <1>1, StaleAreOthers DEF Cleared, RunAt, HasFiles, Passing
  <2> HIDE DEF x
  <2>6. QED
    BY <1>1, <2>1, <2>2, <2>3, <2>4, <2>5, QuietInv
<1>8. CASE DeleteWorkflowRun(i)
  <2> DEFINE j == Min(r.todo)
             x == RunAt(p, "delete", r.reviews, {}, r.todo \ {j}, {})
  <2>1. /\ r.pc = "delete" /\ r.todo # {} /\ Advance(i, x) /\ SameDeserts
        /\ sweep' = sweep /\ x.todo = r.todo \ {j}
        /\ \/ kept' = kept \ {j} /\ faults' = faults
           \/ kept' = kept /\ faults' = faults + 1
    BY <1>2, <1>8 DEF DeleteWorkflowRun, Advance, RunAt
  <2>2. Sure(x, pull.reviews)
    BY <1>1, <2>1 DEF Sure, RunAt, HasReviews, HasFiles, Passing
  <2>3. IsNewest(i) => Fresh(x, pull)
    BY <1>1, <2>1 DEF Fresh, RunAt, Unlabelled, HasReviews, HasFiles, Passing
  <2>4. OpenBranchesDiffer => Past(x.todo)
    BY <1>1, <2>1 DEF Past
  <2>5. OpenBranchesDiffer => j \in r.todo
    BY <1>1, <2>1, LeastIs DEF IInv, RunsInv, IsSequence, Past
  <2>6. OpenBranchesDiffer => OnlyPastGo
    BY <1>1, <2>1, <2>5 DEF OnlyPastGo, Past
  <2>7. OpenBranchesDiffer /\ IsNewest(i) /\ internal /\ faults' = 0 =>
           Cleared(i, x, pull, kept' \cap RunsOf(p))
    BY <1>1, <2>1 DEF Cleared, RunAt, HasFiles, Passing
  <2>8. faults' \in Nat /\ faults' >= faults /\ kept' \subseteq kept
    BY <1>1, <2>1
  <2>9. QED
    BY <1>1, <2>1, <2>2, <2>3, <2>4, <2>6, <2>7, <2>8, AdvanceInv DEF Advance
<1>9. CASE ListFiles(i)
  <2> DEFINE files == pull.files
             x == IF ClassifyChanges(Env[p], files).large
                  THEN RunAt(p, "comments", r.reviews, files, {}, {})
                  ELSE Decide(r, files)
  <2>1. r.pc = "delete" /\ r.todo = {} /\ runs' = [runs EXCEPT ![i] = x] /\ SameDeserts
        /\ kept' = kept /\ faults' = faults /\ sweep' = sweep
    BY <1>2, <1>9 DEF ListFiles, Goto
  <2>2. CASE ClassifyChanges(Env[p], files).large
    <3>1. x = RunAt(p, "comments", r.reviews, files, {}, {})
      BY <2>2
    <3>2. x.todo = {} /\ Advance(i, x)
      BY <2>1, <3>1 DEF Advance, RunAt
    <3>3. Sure(x, pull.reviews)
      BY <1>1, <2>1, <3>1 DEF Sure, RunAt, HasReviews, HasFiles, Passing
    <3>4. IsNewest(i) => Fresh(x, pull)
      BY <1>1, <2>1, <3>1 DEF Fresh, RunAt, Unlabelled, HasReviews, HasFiles, Passing
    <3>5. OpenBranchesDiffer /\ IsNewest(i) /\ faults' = 0 /\ internal =>
             Cleared(i, x, pull, left)
      BY <1>1, <2>1, <3>1 DEF Cleared, RunAt, HasFiles, Passing
    <3> HIDE DEF x
    <3>6. QED
      BY <1>1, <1>4, <2>1, <3>2, <3>3, <3>4, <3>5, QuietInv
  <2>3. CASE ~ClassifyChanges(Env[p], files).large
    <3>1. x = Decide(r, pull.files)
      BY <2>3
    <3> HIDE DEF x
    <3>2. /\ x.pull = p /\ x.todo = {}
          /\ Sure(x, pull.reviews)
          /\ Fresh(r, pull) => Fresh(x, pull)
          /\ left \subseteq {i} => Cleared(i, x, pull, left)
      <4>1. r.pc \in {"delete", "comments", "comment"}
        BY <2>1
      <4>2. /\ Decide(r, pull.files).pull = p /\ Decide(r, pull.files).todo = {}
            /\ left \subseteq {i} => Cleared(i, Decide(r, pull.files), pull, left)
        BY DecidedOf
      <4>3. /\ Sure(Decide(r, pull.files), pull.reviews)
            /\ Fresh(r, pull) => Fresh(Decide(r, pull.files), pull)
        <5>1. Sure(r, pull.reviews)
          BY <1>1
        <5> HIDE DEF r, p, pull
        <5>2. Sure(Decide(r, pull.files), pull.reviews)
          BY <4>1, <5>1, Decided
        <5>3. Fresh(r, pull) => Fresh(Decide(r, pull.files), pull)
          BY <4>1, <5>1, Decided
        <5>4. QED
          BY <5>2, <5>3
      <4>4. QED
        BY <3>1, <4>2, <4>3
    <3>3. OpenBranchesDiffer /\ IsNewest(i) /\ faults' = 0 /\ internal =>
             Cleared(i, x, pull, left)
      BY <1>1, <2>1, <3>2 DEF Cleared
    <3>4. Advance(i, x)
      BY <2>1, <3>2 DEF Advance
    <3>5. QED
      BY <1>1, <1>4, <2>1, <3>2, <3>3, <3>4, QuietInv
  <2>4. QED
    BY <2>2, <2>3
<1>10. CASE ListComments(i)
  <2> DEFINE none == RunAt(p, "comment", r.reviews, r.files, {}, {})
  <2>1. r.pc = "comments" /\ SameDeserts /\ kept' = kept /\ sweep' = sweep
        /\ (faults' = faults \/ faults' = faults + 1)
        /\ (runs' = [runs EXCEPT ![i] = none] \/ runs' = [runs EXCEPT ![i] = Decide(r, r.files)])
    BY <1>2, <1>10 DEF ListComments, Goto
  <2>2. IsNewest(i) => r.files = pull.files
    BY <1>1, <2>1 DEF Fresh, HasFiles
  <2>3. OpenBranchesDiffer /\ IsNewest(i) /\ faults' = 0 /\ internal => left \subseteq {i}
    BY <1>1, <2>1 DEF Cleared, HasFiles
  <2>4. CASE runs' = [runs EXCEPT ![i] = none]
    <3>1. none.todo = {} /\ Advance(i, none)
      BY <2>4 DEF Advance, RunAt
    <3>2. Sure(none, pull.reviews)
      BY <1>1, <2>1 DEF Sure, RunAt, HasReviews, HasFiles, Passing
    <3>3. IsNewest(i) => Fresh(none, pull)
      BY <1>1, <2>1 DEF Fresh, RunAt, Unlabelled, HasReviews, HasFiles, Passing
    <3>4. left \subseteq {i} => Cleared(i, none, pull, left)
      BY DEF Cleared, RunAt
    <3> HIDE DEF none
    <3>5. QED
      BY <1>1, <1>4, <2>1, <2>3, <3>1, <3>2, <3>3, <3>4, QuietInv
  <2>5. CASE runs' = [runs EXCEPT ![i] = Decide(r, r.files)]
    <3> DEFINE x == Decide(r, r.files)
    <3>1. /\ x.todo = {} /\ Advance(i, x)
          /\ left \subseteq {i} => Cleared(i, x, pull, left)
      BY <2>5, DecidedOf DEF Advance
    <3>2. Sure(x, pull.reviews) /\ (IsNewest(i) => Fresh(x, pull))
      <4>1. r.pc \in {"delete", "comments", "comment"} /\ Sure(r, pull.reviews)
        BY <1>1, <2>1
      <4>2. IsNewest(i) => Fresh(r, pull)
        BY <1>1
      <4> HIDE DEF r, p, pull
      <4>3. Sure(x, pull.reviews)
        BY <4>1, Decided
      <4>4. IsNewest(i) => Fresh(x, pull)
        BY <2>2, <4>1, <4>2, Decided
      <4>5. QED
        BY <4>3, <4>4
    <3> HIDE DEF x
    <3>3. QED
      BY <1>1, <1>4, <2>1, <2>3, <3>1, <3>2, QuietInv
  <2>6. QED
    BY <2>1, <2>4, <2>5
<1>11. CASE CreateComment(i)
  <2> DEFINE x == Decide(r, r.files)
  <2>1. r.pc = "comment" /\ SameDeserts /\ kept' = kept /\ sweep' = sweep
        /\ faults' = faults /\ runs' = [runs EXCEPT ![i] = x]
    BY <1>1, <1>11 DEF CreateComment, Goto, SameDeserts, PullAt, IInv, RunsInv
  <2>2. IsNewest(i) => r.files = pull.files
    BY <1>1, <2>1 DEF Fresh, HasFiles
  <2>3. OpenBranchesDiffer /\ IsNewest(i) /\ faults' = 0 /\ internal => left \subseteq {i}
    BY <1>1, <2>1 DEF Cleared, HasFiles
  <2>4. /\ x.todo = {} /\ Advance(i, x)
        /\ left \subseteq {i} => Cleared(i, x, pull, left)
    BY <2>1, DecidedOf DEF Advance
  <2>5. Sure(x, pull.reviews) /\ (IsNewest(i) => Fresh(x, pull))
    <3>1. r.pc \in {"delete", "comments", "comment"} /\ Sure(r, pull.reviews)
      BY <1>1, <2>1
    <3>2. IsNewest(i) => Fresh(r, pull)
      BY <1>1
    <3> HIDE DEF r, p, pull
    <3>3. Sure(x, pull.reviews)
      BY <3>1, Decided
    <3>4. IsNewest(i) => Fresh(x, pull)
      BY <2>2, <3>1, <3>2, Decided
    <3>5. QED
      BY <3>3, <3>4
  <2> HIDE DEF x
  <2>6. QED
    BY <1>1, <1>4, <2>1, <2>3, <2>4, <2>5, QuietInv
<1>12. CASE ListReviewers(i)
  <2> DEFINE x == RunAt(p, "dismissals", r.reviews, r.files, {}, pull.requested)
  <2>1. r.pc = "reviewers" /\ Advance(i, x) /\ SameDeserts /\ kept' = kept
        /\ faults' = faults /\ sweep' = sweep /\ x.todo = {}
    BY <1>2, <1>12 DEF ListReviewers, Goto, Advance, RunAt
  <2>2. Sure(x, pull.reviews)
    BY <1>1, <2>1 DEF Sure, RunAt, HasReviews, HasFiles, Passing
  <2>3. IsNewest(i) => Fresh(x, pull)
    BY <1>1, <2>1 DEF Fresh, RunAt, Unlabelled, HasReviews, HasFiles, Passing
  <2>4. Cleared(i, r, pull, left) => Cleared(i, x, pull, left)
    BY <2>1 DEF Cleared, RunAt, HasFiles, Passing
  <2> HIDE DEF x
  <2>5. QED
    BY <1>1, <1>4, <2>1, <2>2, <2>3, <2>4, QuietInv
<1>13. CASE FindDismissals(i)
  <2> DEFINE dismissed == ReviewersToDismiss(Config, r.listed, pull.reviews)
             x == IF dismissed = {} THEN Ended(r, "success")
                  ELSE RunAt(p, "dismiss", r.reviews, r.files, {}, dismissed)
  <2>1. r.pc = "dismissals" /\ Advance(i, x) /\ SameDeserts /\ kept' = kept
        /\ faults' = faults /\ sweep' = sweep /\ x.todo = {}
    BY <1>2, <1>13 DEF FindDismissals, Goto, Advance, RunAt, Ended
  <2>2. Sure(x, pull.reviews)
    <3>1. CASE dismissed = {}
      BY <1>1, <2>1, <3>1 DEF Sure, Ended, RunAt, HasReviews, HasFiles, Passing
    <3>2. CASE dismissed # {}
      <4>1. /\ Cardinality(Approvers(pull.reviews)) > 1
            /\ \A y \in ToSet(pull.reviews) : y.author \notin dismissed
        <5>1. /\ Listed(pull.reviews)
              /\ ToSet(pull.reviews) = {pull.reviews[k] : k \in DOMAIN pull.reviews}
          BY <1>1, SubSeqIs DEF Listed, IsSequence
        <5>2. Cardinality(Approvers(pull.reviews)) > 1 /\ dismissed \cap Authors(pull.reviews) = {}
          BY <3>2, <5>1, WithdrawnWithoutNeed
        <5> HIDE DEF dismissed
        <5>3. QED
          BY <5>1, <5>2 DEF Authors
      <4> HIDE DEF dismissed
      <4>2. x.pc = "dismiss" /\ x.listed = dismissed /\ x.reviews = r.reviews
            /\ x.files = r.files /\ x.pull = p
        BY <3>2 DEF RunAt
      <4>3. Len(pull.reviews) \in Len(r.reviews)..Len(pull.reviews)
            /\ SubSeq(pull.reviews, 1, Len(pull.reviews)) = pull.reviews
        BY <1>1, SubSeqIs DEF Sure
      <4> HIDE DEF x
      <4>4. QED
        BY <1>1, <2>1, <4>1, <4>2, <4>3 DEF Sure, HasReviews, HasFiles, Passing
    <3>3. QED
      BY <3>1, <3>2
  <2>3. IsNewest(i) => Fresh(x, pull)
    BY <1>1, <2>1 DEF Fresh, Ended, RunAt, Unlabelled, HasReviews, HasFiles, Passing
  <2>4. Cleared(i, r, pull, left) => Cleared(i, x, pull, left)
    BY <2>1 DEF Cleared, Ended, RunAt, HasFiles, Passing
  <2> HIDE DEF x
  <2>5. QED
    BY <1>1, <1>4, <2>1, <2>2, <2>3, <2>4, QuietInv
<1>14. CASE DismissReviewers(i)
  <2> DEFINE x == Ended(r, "success")
  <2>1. r.pc = "dismiss" /\ Advance(i, x) /\ SameDeserts /\ kept' = kept
        /\ faults' = faults /\ sweep' = sweep /\ x.todo = {}
    BY <1>1, <1>14
    DEF DismissReviewers, Goto, Advance, Ended, RunAt, SameDeserts, PullAt, IInv, RunsInv
  <2>2. Sure(x, pull.reviews)
    BY <1>1, <2>1 DEF Sure, Ended, RunAt, HasReviews, HasFiles, Passing
  <2>3. IsNewest(i) => Fresh(x, pull)
    BY <1>1, <2>1 DEF Fresh, Ended, RunAt, Unlabelled, HasReviews, HasFiles, Passing
  <2>4. Cleared(i, r, pull, left) => Cleared(i, x, pull, left)
    BY <2>1 DEF Cleared, Ended, RunAt, HasFiles, Passing
  <2> HIDE DEF x
  <2>5. QED
    BY <1>1, <1>4, <2>1, <2>2, <2>3, <2>4, QuietInv
<1>15. CASE CheckFails(i)
  <2>1. PICK verdict \in {"error", "success"} :
          /\ runs' = [runs EXCEPT ![i] = Ended(r, verdict)]
          /\ verdict = "success" => r.pc \in Passing
    BY <1>15 DEF CheckFails, Passing
  <2> DEFINE x == Ended(r, verdict)
  <2>2. Advance(i, x) /\ SameDeserts /\ kept' = kept
        /\ faults' = faults + 1 /\ sweep' = sweep /\ x.todo = {}
    BY <1>2, <1>15, <2>1 DEF CheckFails, Advance, Ended, RunAt
  <2>3. Sure(x, pull.reviews)
    BY <1>1, <2>1 DEF Sure, Ended, RunAt, HasReviews, HasFiles, Passing
  <2>4. IsNewest(i) => Fresh(x, pull)
    BY <1>1, <2>1 DEF Fresh, Ended, RunAt, Unlabelled, HasReviews, HasFiles, Passing
  <2>5. faults' # 0
    BY <1>1, <2>2
  <2> HIDE DEF x
  <2>6. QED
    BY <1>1, <1>4, <2>2, <2>3, <2>4, <2>5, QuietInv
<1>16. QED
  BY <1>5, <1>6, <1>7, <1>8, <1>9, <1>10, <1>11, <1>12, <1>13, <1>14, <1>15 DEF Check

(* Whatever happens to a pull request starts a run, which is its newest.   *)
LEMMA Started ==
    ASSUME RunsInv, NEW p \in open, StartRun(p)
    PROVE  /\ IsSequence(runs') /\ DOMAIN runs' = DOMAIN runs \cup {Len(runs) + 1}
           /\ Len(runs) + 1 \notin DOMAIN runs
           /\ runs'[Len(runs) + 1] = Queued(p)
           /\ \A j \in DOMAIN runs : /\ runs'[j] = runs[j]
                                     /\ IsNewest(j)' <=> IsNewest(j) /\ runs[j].pull # p
           /\ \A q : q # p => RunsOf(q)' = RunsOf(q)
<1> DEFINE n == Len(runs) + 1
<1>1. DOMAIN runs = 1..Len(runs) /\ Len(runs) \in Nat /\ IsSequence(runs)
  BY DEF RunsInv, IsSequence
<1>2. /\ IsSequence(runs') /\ Len(runs') = n /\ runs'[n] = Queued(p)
      /\ \A j \in 1..Len(runs) : runs'[j] = runs[j]
  BY <1>1, AppendIs DEF StartRun
<1>3. DOMAIN runs' = DOMAIN runs \cup {n} /\ n \notin DOMAIN runs
  BY <1>1, <1>2 DEF IsSequence
<1>4. Queued(p).pull = p
  BY DEF Queued, RunAt
<1>5. \A q : RunsOf(q)' = RunsOf(q) \cup IF q = p THEN {n} ELSE {}
  BY <1>1, <1>2, <1>3, <1>4 DEF RunsOf
<1>6. ASSUME NEW j \in DOMAIN runs
      PROVE  IsNewest(j)' <=> IsNewest(j) /\ runs[j].pull # p
  BY <1>1, <1>2, <1>5 DEF IsNewest
<1>7. QED
  BY <1>1, <1>2, <1>3, <1>5, <1>6

LEMMA SureGrows ==
    ASSUME NEW r, NEW now, IsSequence(now), NEW x, Sure(r, now)
    PROVE  Sure(r, Append(now, x))
<1>1. Len(r.reviews) \in 0..Len(Append(now, x)) /\ Len(now) \in Nat
  BY AppendIs DEF Sure, IsSequence
<1>2. ASSUME r.pc = "dismiss"
      PROVE  \E n \in Len(r.reviews)..Len(Append(now, x)) :
                /\ Cardinality(Approvers(SubSeq(Append(now, x), 1, n))) > 1
                /\ \A y \in ToSet(SubSeq(Append(now, x), 1, n)) : y.author \notin r.listed
  <2>1. PICK n \in Len(r.reviews)..Len(now) :
           /\ Cardinality(Approvers(SubSeq(now, 1, n))) > 1
           /\ \A y \in ToSet(SubSeq(now, 1, n)) : y.author \notin r.listed
    BY <1>2 DEF Sure
  <2>2. n \in Len(r.reviews)..Len(Append(now, x))
        /\ SubSeq(Append(now, x), 1, n) = SubSeq(now, 1, n)
    BY <1>1, AppendIs DEF Sure
  <2>3. QED
    BY <2>1, <2>2
<1>3. QED
  BY <1>1, <1>2 DEF Sure

LEMMA HappensInv ==
    ASSUME IInv, NEW p \in open, StartRun(p), NEW y,
           pulls' = [pulls EXCEPT ![p] = y],
           y.reviews = pulls[p].reviews \/ \E x : y.reviews = Append(pulls[p].reviews, x)
    PROVE  IInv'
<1> USE DEF IInv
<1> DEFINE n == Len(runs) + 1
<1>1. /\ IsSequence(runs') /\ DOMAIN runs' = DOMAIN runs \cup {n}
      /\ n \notin DOMAIN runs /\ runs'[n] = Queued(p)
      /\ \A j \in DOMAIN runs : /\ runs'[j] = runs[j]
                                /\ IsNewest(j)' <=> IsNewest(j) /\ runs[j].pull # p
      /\ \A q : q # p => RunsOf(q)' = RunsOf(q)
  BY Started, Zenon
<1> HIDE DEF n
<1>2. /\ kept' = kept \cup {n} /\ open' = open /\ faults' = faults /\ sweep' = sweep
  BY DEF StartRun, n
<1>3. /\ DOMAIN pulls' = open /\ pulls'[p] = y
      /\ \A q \in open : q # p => pulls'[q] = pulls[q]
  BY DEF RunsInv
<1>4. /\ Queued(p).pull = p /\ Queued(p).pc = "label" /\ Queued(p).todo = {}
      /\ Queued(p).reviews = <<>>
  BY DEF Queued, RunAt
<1>5. \A j \in DOMAIN runs : runs[j].pull \in open
  BY DEF RunsInv
<1>6. IsSequence(y.reviews)
  <2>1. IsSequence(pulls[p].reviews)
    BY DEF RunsInv
  <2>2. CASE \E x : y.reviews = Append(pulls[p].reviews, x)
    <3>1. PICK x : y.reviews = Append(pulls[p].reviews, x)
      BY <2>2
    <3>2. QED
      BY <2>1, <3>1, AppendIs
  <2>3. QED
    BY <2>1, <2>2
<1>7. RunsInv'
  <2>1. \A q \in open : IsSequence(pulls'[q].reviews)
    BY <1>3, <1>6 DEF RunsInv
  <2>2. \A j \in DOMAIN runs' : runs'[j].pull \in open
    BY <1>1, <1>4, <1>5
  <2>3. QED
    BY <1>1, <1>2, <1>3, <2>1, <2>2 DEF RunsInv
<1>8. VerdictInv'
  <2> SUFFICES ASSUME NEW j \in DOMAIN runs', IsNewest(j)'
               PROVE  Fresh(runs'[j], pulls'[runs'[j].pull])
    BY DEF VerdictInv, Fresh, Approved
  <2>1. CASE j = n
    BY <1>1, <1>4, <2>1 DEF Fresh, Unlabelled, HasReviews, HasFiles, Passing
  <2>2. CASE j \in DOMAIN runs
    BY <1>1, <1>3, <1>5, <2>2 DEF VerdictInv
  <2>3. QED
    BY <1>1, <2>1, <2>2
<1>9. RequestInv'
  <2> SUFFICES ASSUME NEW j \in DOMAIN runs'
               PROVE  Sure(runs'[j], pulls'[runs'[j].pull].reviews)
    BY DEF RequestInv, Sure
  <2>1. CASE j = n
    <3>1. Len(y.reviews) \in Nat /\ Len(<<>>) = 0
      BY <1>6 DEF IsSequence
    <3>2. QED
      BY <1>1, <1>3, <1>4, <2>1, <3>1 DEF Sure, HasReviews, HasFiles, Passing
  <2>2. CASE j \in DOMAIN runs /\ runs[j].pull # p
    BY <1>1, <1>3, <1>5, <2>2 DEF RequestInv
  <2>3. CASE j \in DOMAIN runs /\ runs[j].pull = p
    <3>1. Sure(runs[j], pulls[p].reviews) /\ IsSequence(pulls[p].reviews)
      BY <2>3 DEF RequestInv, RunsInv
    <3>2. Sure(runs[j], y.reviews)
      BY <3>1, SureGrows
    <3>3. QED
      BY <1>1, <1>3, <2>3, <3>2
  <2>4. QED
    BY <1>1, <2>1, <2>2, <2>3
<1>10. ASSUME NEW js, Past(js) PROVE Past(js)'
  BY <1>1, <1>10 DEF Past
<1>11. ASSUME OpenBranchesDiffer PROVE KeptInv'
  <2>1. LatestRunKept'
    BY <1>1, <1>2, <1>11 DEF KeptInv, LatestRunKept
  <2>2. ASSUME NEW j \in DOMAIN runs' PROVE Past(runs[j].todo)'
    <3>1. CASE j = n
      BY <1>1, <1>4, <3>1 DEF Past
    <3>2. CASE j \in DOMAIN runs
      BY <1>1, <1>11, <3>2 DEF KeptInv, Past
    <3>3. QED
      BY <1>1, <3>1, <3>2
  <2>3. QED
    BY <1>2, <1>10, <1>11, <2>1, <2>2 DEF KeptInv
<1>12. ASSUME OpenBranchesDiffer PROVE StaleInv'
  <2> SUFFICES ASSUME NEW j \in DOMAIN runs', IsNewest(j)', faults = 0,
                      IsInternalAuthor(Config, Env[runs'[j].pull])
               PROVE  Cleared(j, runs'[j], pulls'[runs'[j].pull],
                              {k \in kept' : k \in DOMAIN runs' /\ runs'[k].pull = runs'[j].pull})
    BY <1>2 DEF StaleInv, Cleared, RunsOf
  <2>1. CASE j = n
    BY <1>1, <1>4, <2>1 DEF Cleared, HasFiles, Passing
  <2>2. CASE j \in DOMAIN runs
    <3>1. runs'[j] = runs[j] /\ IsNewest(j) /\ runs[j].pull # p
      BY <1>1, <2>2
    <3>2. pulls'[runs[j].pull] = pulls[runs[j].pull]
      BY <1>3, <1>5, <2>2, <3>1
    <3>3. {k \in kept' : k \in DOMAIN runs' /\ runs'[k].pull = runs'[j].pull}
            = kept \cap RunsOf(runs[j].pull)
      BY <1>1, <1>2, <1>4, <3>1 DEF RunsOf
    <3>4. Cleared(j, runs[j], pulls[runs[j].pull], kept \cap RunsOf(runs[j].pull))
      BY <1>12, <2>2, <3>1 DEF StaleInv
    <3>5. QED
      BY <3>1, <3>2, <3>3, <3>4
  <2>3. QED
    BY <1>1, <2>1, <2>2
<1>13. QED
  BY <1>7, <1>8, <1>9, <1>11, <1>12

LEMMA HappensStepInv ==
    ASSUME IInv, NEW p \in open, Happens(p)
    PROVE  IInv'
<1>1. ASSUME NEW person \in Person, NEW state \in States, SubmitReview(p, person, state)
      PROVE  IInv'
  <2> DEFINE x == [author |-> person, state |-> state]
             y == PullAt(Append(pulls[p].reviews, x), pulls[p].requested \ {person},
                         pulls[p].doNotMerge, pulls[p].files, pulls[p].comments)
  <2>1. StartRun(p) /\ pulls' = [pulls EXCEPT ![p] = y]
        /\ y.reviews = Append(pulls[p].reviews, x)
    BY <1>1 DEF SubmitReview, PullAt
  <2> HIDE DEF x, y
  <2>2. QED
    BY <2>1, HappensInv
<1>2. CASE Push(p)
  <2>1. PICK files \in FileSets :
          /\ pulls' = [pulls EXCEPT ![p] =
                PullAt(pulls[p].reviews, pulls[p].requested, pulls[p].doNotMerge, files,
                       pulls[p].comments)]
          /\ StartRun(p)
    BY <1>2 DEF Push
  <2> DEFINE y == PullAt(pulls[p].reviews, pulls[p].requested, pulls[p].doNotMerge, files,
                         pulls[p].comments)
  <2>2. y.reviews = pulls[p].reviews
    BY DEF PullAt
  <2> HIDE DEF y
  <2>3. QED
    BY <2>1, <2>2, HappensInv DEF y
<1>3. CASE SetLabel(p)
  <2> DEFINE y == PullAt(pulls[p].reviews, pulls[p].requested, ~pulls[p].doNotMerge,
                         pulls[p].files, pulls[p].comments)
  <2>1. StartRun(p) /\ pulls' = [pulls EXCEPT ![p] = y]
        /\ y.reviews = pulls[p].reviews
    BY <1>3 DEF SetLabel, PullAt
  <2> HIDE DEF y
  <2>2. QED
    BY <2>1, HappensInv
<1>4. QED
  BY <1>1, <1>2, <1>3 DEF Happens

(* Where no run of Check takes a step.                                     *)
LEMMA OthersInv ==
    ASSUME IInv, runs' = runs, SameDeserts, kept' \subseteq kept,
           OpenBranchesDiffer => OnlyPastGo /\ Past(sweep'.todo),
           faults' \in Nat, faults' >= faults
    PROVE  IInv'
<1> USE DEF IInv
<1>1. \A j \in DOMAIN runs : runs[j].pull \in open
  BY DEF RunsInv
<1>2. RunsInv'
  BY DEF RunsInv, SameDeserts
<1>3. ASSUME NEW j \in DOMAIN runs
      PROVE  /\ pulls'[runs[j].pull].reviews = pulls[runs[j].pull].reviews
             /\ \A r : Fresh(r, pulls'[runs[j].pull]) <=> Fresh(r, pulls[runs[j].pull])
             /\ \A r, left : Cleared(j, r, pulls'[runs[j].pull], left)
                               <=> Cleared(j, r, pulls[runs[j].pull], left)
  BY <1>1 DEF SameDeserts, Fresh, Cleared, Approved
<1>4. \A j \in DOMAIN runs : IsNewest(j)' <=> IsNewest(j)
  BY DEF IsNewest, RunsOf
<1>5. VerdictInv'
  BY <1>3, <1>4 DEF VerdictInv
<1>6. RequestInv'
  BY <1>3 DEF RequestInv
<1>7. ASSUME OpenBranchesDiffer PROVE KeptInv'
  BY <1>4, <1>7 DEF KeptInv, OnlyPastGo, LatestRunKept, Past
<1>8. ASSUME OpenBranchesDiffer PROVE StaleInv'
  <2> SUFFICES ASSUME NEW j \in DOMAIN runs, IsNewest(j), faults' = 0,
                      IsInternalAuthor(Config, Env[runs[j].pull])
               PROVE  Cleared(j, runs[j], pulls[runs[j].pull], kept' \cap RunsOf(runs[j].pull))
    BY <1>3, <1>4 DEF StaleInv, RunsOf
  <2>1. faults = 0
    BY DEF RunsInv
  <2>2. Cleared(j, runs[j], pulls[runs[j].pull], kept \cap RunsOf(runs[j].pull))
    BY <1>8, <2>1 DEF StaleInv
  <2>3. QED
    BY <2>2 DEF Cleared
<1>9. QED
  BY <1>2, <1>5, <1>6, <1>7, <1>8

LEMMA OthersStepInv ==
    ASSUME IInv,
           (\E p \in open : Assign(p) \/ AssignFails(p)) \/ SweepStarts \/ Sweep
             \/ UNCHANGED vars
    PROVE  IInv'
<1>1. /\ faults \in Nat /\ DOMAIN pulls = open
      /\ OpenBranchesDiffer => Past(sweep.todo)
      /\ kept \subseteq DOMAIN runs /\ DOMAIN runs \subseteq Nat
  BY DEF IInv, RunsInv, KeptInv, IsSequence
<1>2. UNCHANGED <<open, pulls>> => SameDeserts
  BY <1>1 DEF SameDeserts
<1>3. kept' = kept => OnlyPastGo /\ kept' \subseteq kept
  BY DEF OnlyPastGo
<1>4. ASSUME NEW p \in open, Assign(p) \/ AssignFails(p) PROVE IInv'
  <2>1. runs' = runs /\ kept' = kept /\ sweep' = sweep /\ (faults' = faults \/ faults' = faults + 1)
    BY <1>4 DEF Assign, AssignListFiles, RequestReviewers, AssignFails
  <2>2. SameDeserts
    <3>1. CASE RequestReviewers(p)
      BY <1>1, <3>1 DEF RequestReviewers, SameDeserts, PullAt
    <3>2. QED
      BY <1>2, <1>4, <3>1 DEF Assign, AssignListFiles, AssignFails
  <2>3. QED
    BY <1>1, <1>3, <2>1, <2>2, OthersInv
<1>5. CASE SweepStarts
  <2>1. runs' = runs /\ kept' = kept /\ sweep'.todo = {} /\ faults' = faults
        /\ UNCHANGED <<open, pulls>>
    BY <1>5 DEF SweepStarts
  <2>2. QED
    BY <1>1, <1>2, <1>3, <2>1, OthersInv DEF Past
<1>6. CASE SweepListRuns
  <2>1. runs' = runs /\ kept' = kept /\ (faults' = faults \/ faults' = faults + 1)
        /\ UNCHANGED <<open, pulls>>
    BY <1>6 DEF SweepListRuns
  <2>2. sweep'.todo = {} \/ \E p : sweep'.todo = Stale(Branch[p])
    BY <1>6 DEF SweepListRuns, SweepAt
  <2>3. OpenBranchesDiffer => Past(sweep'.todo)
    BY <2>2, StaleArePast DEF Past
  <2>4. QED
    BY <1>1, <1>2, <1>3, <2>1, <2>3, OthersInv
<1>7. CASE SweepDelete
  <2>1. runs' = runs /\ UNCHANGED <<open, pulls>>
    BY <1>7 DEF SweepDelete
  <2>2. CASE sweep.todo = {}
    <3>1. sweep'.todo = {} /\ kept' = kept /\ faults' = faults
      BY <1>7, <2>2 DEF SweepDelete, SweepAt
    <3>2. QED
      BY <1>1, <1>2, <1>3, <2>1, <3>1, OthersInv DEF Past
  <2>3. CASE sweep.todo # {}
    <3> DEFINE j == Min(sweep.todo)
    <3>1. /\ sweep'.todo = sweep.todo \ {j}
          /\ \/ kept' = kept \ {j} /\ faults' = faults
             \/ kept' = kept /\ faults' = faults + 1
      BY <1>7, <2>3 DEF SweepDelete, SweepAt
    <3>2. OpenBranchesDiffer => j \in sweep.todo
      BY <1>1, <2>3, LeastIs DEF Past
    <3> HIDE DEF j
    <3>3. OpenBranchesDiffer => OnlyPastGo /\ Past(sweep'.todo)
      BY <1>1, <3>1, <3>2 DEF OnlyPastGo, Past
    <3>4. faults' \in Nat /\ faults' >= faults /\ kept' \subseteq kept
      BY <1>1, <3>1
    <3>5. QED
      BY <1>2, <2>1, <3>3, <3>4, OthersInv
  <2>4. QED
    BY <2>2, <2>3
<1>8. CASE UNCHANGED vars
  BY <1>1, <1>2, <1>3, <1>8, OthersInv DEF vars
<1>9. QED
  BY <1>4, <1>5, <1>6, <1>7, <1>8 DEF Sweep

LEMMA StepInv == IInv /\ [Next]_vars => IInv'
BY CheckStepInv, HappensStepInv, OthersStepInv DEF Next

----------------------------------------------------------------------------
(* The beginning: every open pull request has one run.                     *)
LEMMA SetToSeqIs ==
    ASSUME NEW S, IsFiniteSet(S)
    PROVE  /\ Cardinality(S) \in Nat
           /\ SetToSeq(S) \in [1..Cardinality(S) -> S]
           /\ \A i, j \in 1..Cardinality(S) : SetToSeq(S)[i] = SetToSeq(S)[j] => i = j
<1> DEFINE n == Cardinality(S)
<1>1. n \in Nat /\ ExistsBijection(1..n, S)
  BY FS_CardinalityType
<1>2. \E f \in [1..n -> S] : IsInjective(f)
  BY <1>1 DEF ExistsBijection, Bijection, Injection, IsInjective
<1>3. SetToSeq(S) \in [1..n -> S] /\ IsInjective(SetToSeq(S))
  BY <1>2, Zenon DEF SetToSeq
<1>4. QED
  BY <1>1, <1>3 DEF IsInjective

LEMMA InitInv == Init => IInv
<1> SUFFICES ASSUME Init PROVE IInv
  OBVIOUS
<1> DEFINE first == SetToSeq(open)
           n == Cardinality(open)
<1>1. open \in OpenSets /\ IsFiniteSet(open)
  BY PullAssumption DEF Init
<1>2. /\ n \in Nat /\ first \in [1..n -> open]
      /\ \A i, j \in 1..n : first[i] = first[j] => i = j
  BY <1>1, SetToSeqIs
<1>3. PICK o \in [open -> Opened] :
        pulls = [p \in open |-> PullAt(o[p].reviews, {}, FALSE, o[p].files, 0)]
  BY DEF Init
<1>4. /\ DOMAIN pulls = open
      /\ \A p \in open : IsSequence(pulls[p].reviews) /\ pulls[p].doNotMerge = FALSE
  BY <1>3, PullAssumption, SequencesAre DEF PullAt
<1> HIDE DEF first, n
<1>5. runs = [i \in DOMAIN first |->
                Ended(Queued(first[i]),
                      IF Approved(first[i], pulls[first[i]]) THEN "success" ELSE "failure")]
  BY DEF Init, first
<1>6. /\ DOMAIN runs = 1..n
      /\ \A i \in 1..n : /\ runs[i].pull = first[i]
                         /\ runs[i].pc = IF Approved(first[i], pulls[first[i]])
                                         THEN "success" ELSE "failure"
                         /\ runs[i].todo = {} /\ runs[i].reviews = <<>>
  <2> DEFINE verdict(p) == IF Approved(p, pulls[p]) THEN "success" ELSE "failure"
             run(p) == Ended(Queued(p), verdict(p))
  <2>1. runs = [i \in 1..n |-> run(first[i])]
    BY <1>2, <1>5
  <2>2. \A p : /\ run(p).pull = p /\ run(p).pc = verdict(p)
               /\ run(p).todo = {} /\ run(p).reviews = <<>>
    BY DEF Ended, Queued, RunAt
  <2> HIDE DEF verdict, run
  <2>3. DOMAIN runs = 1..n
    BY <2>1
  <2>4. ASSUME NEW i \in 1..n
        PROVE  /\ runs[i].pull = first[i]
               /\ runs[i].pc = verdict(first[i])
               /\ runs[i].todo = {} /\ runs[i].reviews = <<>>
    <3>1. runs[i] = run(first[i])
      BY <2>1
    <3>2. QED
      BY <2>2, <3>1
  <2>5. QED
    BY <2>3, <2>4 DEF verdict
<1>7. IsSequence(runs)
  <2>1. runs \in [1..n -> {runs[i] : i \in 1..n}]
    BY <1>5, <1>6
  <2>2. runs \in Seq({runs[i] : i \in 1..n})
    BY <1>2, <2>1
  <2>3. QED
    BY <2>2, SequencesAre
<1>8. kept = DOMAIN runs /\ sweep.todo = {} /\ faults = 0
  BY DEF Init
<1>9. RunsInv
  BY <1>1, <1>2, <1>4, <1>6, <1>7, <1>8 DEF RunsInv
<1>10. ASSUME NEW i \in DOMAIN runs
       PROVE  /\ Fresh(runs[i], pulls[runs[i].pull])
              /\ Sure(runs[i], pulls[runs[i].pull].reviews)
              /\ kept \cap RunsOf(runs[i].pull) \subseteq {i}
  <2>1. Fresh(runs[i], pulls[runs[i].pull])
    BY <1>2, <1>4, <1>6 DEF Fresh, Approved, Unlabelled, HasReviews, HasFiles, Passing
  <2>2. Len(pulls[runs[i].pull].reviews) \in Nat /\ Len(runs[i].reviews) = 0
    BY <1>2, <1>4, <1>6 DEF IsSequence
  <2>3. Sure(runs[i], pulls[runs[i].pull].reviews)
    BY <1>6, <2>2 DEF Sure, HasReviews, HasFiles, Passing
  <2>4. kept \cap RunsOf(runs[i].pull) \subseteq {i}
    BY <1>2, <1>6 DEF RunsOf
  <2>5. QED
    BY <2>1, <2>3, <2>4
<1>11. VerdictInv /\ RequestInv
  BY <1>10 DEF VerdictInv, RequestInv
<1>12. KeptInv
  BY <1>6, <1>8 DEF KeptInv, LatestRunKept, Past
<1>13. StaleInv
  BY <1>10 DEF StaleInv, Cleared
<1>14. QED
  BY <1>9, <1>11, <1>12, <1>13 DEF IInv

LEMMA Invariant == Spec => []IInv
BY InitInv, StepInv, PTL DEF Spec

----------------------------------------------------------------------------
(* The verdict of the newest run is the one that the pull request, as it   *)
(* is, deserves (check.go).                                                *)
THEOREM VerdictHolds == Spec => []LatestVerdictHolds
<1>1. IInv => LatestVerdictHolds
  BY DEF IInv, VerdictInv, LatestVerdictHolds, Fresh, Approved, RunsInv,
         Unlabelled, HasReviews, HasFiles, Passing
<1>2. QED
  BY <1>1, Invariant, PTL

(* The newest run of a pull request is never deleted, where no two open    *)
(* pull requests have branches of the same name (dismiss.go).              *)
THEOREM RunKept ==
    ASSUME OpenBranchesDiffer
    PROVE  Spec => []LatestRunKept
<1>1. IInv => LatestRunKept
  BY DEF IInv, KeptInv
<1>2. QED
  BY <1>1, Invariant, PTL

(* Where moreover no call has failed, an internal author's pull request is *)
(* left with the newest verdict only, unless its run stopped at the label  *)
(* (dismiss.go, check.go).                                                 *)
THEOREM StaleGone ==
    ASSUME OpenBranchesDiffer
    PROVE  Spec => []StaleVerdictsGo
<1>1. IInv => StaleVerdictsGo
  <2> SUFFICES ASSUME IInv, NEW i \in DOMAIN runs, IsNewest(i),
                      runs[i].pc \in {"success", "failure"},
                      ~pulls[runs[i].pull].doNotMerge,
                      IsInternalAuthor(Config, Env[runs[i].pull]), faults = 0
               PROVE  kept \cap RunsOf(runs[i].pull) = {i}
    BY DEF StaleVerdictsGo
  <2>1. i \in kept /\ i \in RunsOf(runs[i].pull)
    BY DEF IInv, KeptInv, LatestRunKept, RunsOf
  <2>2. kept \cap RunsOf(runs[i].pull) \subseteq {i}
    BY DEF IInv, StaleInv, Cleared
  <2>3. QED
    BY <2>1, <2>2
<1>2. QED
  BY <1>1, Invariant, PTL

(* A request to review is withdrawn, by however late a run, only where     *)
(* that run has found the reviews to be sufficient, and two people had     *)
(* approved before this one reviewed (check.go dismissReviewers).          *)
THEOREM RequestsOutlive == Spec => RequestsOutliveDoubt
<1> DEFINE Withdrawal(p) ==
             LET now == pulls[p].reviews
                 withdrawn == pulls[p].requested \ pulls'[p].requested
                 ReviewsUntil(n) == SubSeq(now, 1, n)
             IN  withdrawn # {} /\ pulls'[p].reviews = now =>
                    \E i \in RunsOf(p) :
                       /\ ReviewsSuffice(Config, Env[p], runs[i].reviews, runs[i].files)
                       /\ \E n \in Len(runs[i].reviews) .. Len(now) :
                             /\ Cardinality(Approvers(ReviewsUntil(n))) > 1
                             /\ \A r \in ToSet(ReviewsUntil(n)) : r.author \notin withdrawn
<1>1. ASSUME IInv, Next, NEW p \in open PROVE Withdrawal(p)
  <2> SUFFICES ASSUME pulls[p].requested \ pulls'[p].requested # {},
                      pulls'[p].reviews = pulls[p].reviews
               PROVE  Withdrawal(p)
    BY Zenon
  <2>1. DOMAIN pulls = open /\ IsSequence(pulls[p].reviews)
    BY <1>1 DEF IInv, RunsInv
  <2>2. CASE \E i \in DOMAIN runs : DismissReviewers(i)
    <3>1. PICK i \in DOMAIN runs : DismissReviewers(i)
      BY <2>2
    <3> DEFINE r == runs[i]
    <3>2. /\ r.pull = p /\ r.pc = "dismiss"
          /\ pulls[p].requested \ pulls'[p].requested \subseteq r.listed
      BY <2>1, <3>1 DEF DismissReviewers, PullAt
    <3>3. Sure(r, pulls[p].reviews)
      BY <1>1, <3>2 DEF IInv, RequestInv
    <3>4. i \in RunsOf(p)
      BY <3>2 DEF RunsOf
    <3>5. ReviewsSuffice(Config, Env[p], r.reviews, r.files)
      BY <3>2, <3>3 DEF Sure, Passing
    <3>6. PICK n \in Len(r.reviews) .. Len(pulls[p].reviews) :
             /\ Cardinality(Approvers(SubSeq(pulls[p].reviews, 1, n))) > 1
             /\ \A x \in ToSet(SubSeq(pulls[p].reviews, 1, n)) : x.author \notin r.listed
      BY <3>2, <3>3 DEF Sure
    <3>7. \A x \in ToSet(SubSeq(pulls[p].reviews, 1, n)) :
             x.author \notin pulls[p].requested \ pulls'[p].requested
      BY <3>2, <3>6
    <3>8. QED
      BY <3>4, <3>5, <3>6, <3>7
  <2>3. CASE \E i \in DOMAIN runs : CreateComment(i)
    BY <2>1, <2>3 DEF CreateComment, PullAt
  <2>4. CASE \E q \in open : RequestReviewers(q)
    BY <2>1, <2>4 DEF RequestReviewers, PullAt
  <2>5. CASE \E q \in open : Happens(q)
    <3>1. PICK q \in open : Happens(q)
      BY <2>5
    <3>2. CASE Push(q) \/ SetLabel(q)
      BY <2>1, <3>2 DEF Push, SetLabel, PullAt
    <3>3. CASE \E person \in Person, state \in States : SubmitReview(q, person, state)
      <4>1. PICK person \in Person, state \in States : SubmitReview(q, person, state)
        BY <3>3
      <4>2. CASE q = p
        <5>1. \E x : pulls'[p].reviews = Append(pulls[p].reviews, x)
          BY <2>1, <4>1, <4>2 DEF SubmitReview, PullAt
        <5>2. Len(pulls[p].reviews) \in Nat
          BY <2>1 DEF IsSequence
        <5>3. QED
          BY <2>1, <5>1, <5>2, AppendIs
      <4>3. CASE q # p
        BY <2>1, <4>1, <4>3 DEF SubmitReview
      <4>4. QED
        BY <4>2, <4>3
    <3>4. QED
      BY <3>1, <3>2, <3>3 DEF Happens
  <2>6. CASE UNCHANGED pulls
    BY <2>6
  <2>7. QED
    BY <1>1, <2>2, <2>3, <2>4, <2>5, <2>6
    DEF Next, Check, CheckDoNotMerge, ListReviews, ListWorkflowRuns, DeleteWorkflowRun,
        ListFiles, ListComments, ListReviewers, FindDismissals, CheckFails,
        Assign, AssignListFiles, AssignFails, SweepStarts, Sweep, SweepListRuns, SweepDelete
<1>2. IInv /\ [Next]_vars => [\A p \in open : Withdrawal(p)]_vars
  BY <1>1
<1>3. QED
  BY <1>2, Invariant, PTL DEF Spec, RequestsOutliveDoubt

============================================================================
