---------------------------- MODULE ReviewRules ----------------------------
(***************************************************************************)
(* bot: who is asked to review a pull request, and who has to approve it   *)
(*                                                                         *)
(* The reviewers file is a record c: for a repository, a map of its code   *)
(* reviewers; the sets of docs reviewers, release reviewers and admins; and*)
(* those who are omitted when reviewers are picked.  A pull request is     *)
(* described by its environment e and the set of files it changes.  What   *)
(* the code asks of the name of a file is a constant, and the head of      *)
(* every branch that is named like a release is "release/".                *)
(***************************************************************************)
EXTENDS Integers, Sequences, FiniteSets, SequencesExt

CONSTANTS
    Robot,                \* the accounts of isAllowedRobot
    SingleApproverAuthor, \* those of them whose pull requests need one approval
    OrgMember,            \* members of the organization
    File,
    DocsFile,             \* under docs/, or CHANGELOG.md
    SourceFile,           \* .go, .rs, .js, .ts or .tsx
    ReleasePRFile,        \* what a release changes
    GeneratedFile,        \* skipFileForSizeCheck
    SingleApproverFile,   \* matches one of the cloud repository's paths
    Delta,                \* Delta[f]: lines added less lines deleted
    Under                 \* Under[f]: the reviewers' paths that f's name starts with

ASSUME FilesAssumption ==
    /\ DocsFile \cup SourceFile \cup ReleasePRFile \cup GeneratedFile
         \cup SingleApproverFile \subseteq File
    /\ Delta \in [File -> Int]
    /\ DOMAIN Under = File

DefaultApproverCount == 2

----------------------------------------------------------------------------
(* What a pull request changes.                                            *)

IsCloudDeployBranch(e) == e.repo = "cloud" /\ e.base \in {"prod", "staging"}

IsXLarge(files) ==
    MapThenSumSet(LAMBDA f : Delta[f], files \ GeneratedFile) >= 1500

IsReleasePR(e, files) ==
    /\ e.head = "release/"
    /\ ReleasePRFile \subseteq files
    /\ files \cap SourceFile \subseteq ReleasePRFile

ApproverCount(e, files) ==
    IF /\ files # {}
       /\ e.repo = "cloud"
       /\ e.author \in SingleApproverAuthor \/ files \subseteq SingleApproverFile
    THEN 1
    ELSE DefaultApproverCount

ClassifyChanges(e, files) ==
    [large |-> ~IsCloudDeployBranch(e) /\ IsXLarge(files),
     release |-> IsReleasePR(e, files),
     approverCount |-> ApproverCount(e, files),
     docs |-> e.repo = "teleport" /\ files \cap DocsFile # {},
     code |-> e.repo = "teleport" => files \ DocsFile # {}]

----------------------------------------------------------------------------
(* Who belongs to what.                                                    *)

IsInternal(c, p) ==
    \/ p \in Robot \cup c.docs \cup DOMAIN c.core \cup DOMAIN c.cloud
    \/ \E r \in DOMAIN c.repos : p \in DOMAIN c.repos[r]

IsInternalAuthor(c, e) == IsInternal(c, e.author) \/ e.author \in OrgMember

RepoReviewers(c, e) ==
    IF e.repo \in DOMAIN c.repos THEN c.repos[e.repo]
    ELSE IF e.repo = "cloud" THEN c.cloud
    ELSE c.core

(* getReviewerSets: the owners are its set A, the others its set B.        *)
Owners(reviewers, author, omit) ==
    {p \in DOMAIN reviewers \ (omit \cup {author}) : reviewers[p].owner}
Others(reviewers, author, omit) ==
    {p \in DOMAIN reviewers \ (omit \cup {author}) : ~reviewers[p].owner}

AdminCheckers(c, author) == c.admins \ {author}
AdminReviewers(c, author) == c.admins \ (c.codeOmit \cup {author})

(* Whether p is preferred for a file that starts with one of the paths.    *)
PrefersFile(reviewer, paths, f) ==
    /\ reviewer.paths \cap paths \cap Under[f] # {}
    /\ reviewer.excluded \cap Under[f] = {}

AllPreferred(c, e, files) ==
    LET reviewers == RepoReviewers(c, e) IN
    {p \in DOMAIN reviewers \ (c.codeOmit \cup {e.author}) :
        \E f \in files : PrefersFile(reviewers[p], reviewers[p].paths, f)}

(* getDocsReviewers: a list made of two that have no repetitions; whoever  *)
(* is in both is in the list twice.                                        *)
DocsReviewers(c, e, files) ==
    LET preferred == AllPreferred(c, e, files)
        pool == c.docs \ (c.docsOmit \cup {e.author})
    IN  IF preferred \cup pool = {} THEN <<AdminReviewers(c, e.author), {}>>
        ELSE <<preferred, pool>>

----------------------------------------------------------------------------
(* Whom Assign asks: every outcome of Assignments.Get.  There is none when *)
(* the code calls Intn(0), which panics.                                   *)

(* getPreferredReviewers: the reviewers' paths come in any order, and at   *)
(* most one reviewer is picked for each.                                   *)
PreferredPicks(reviewers, set, files) ==
    LET Eligible(path) == {p \in set \cap DOMAIN reviewers :
                              \E f \in files : PrefersFile(reviewers[p], {path}, f)}
        Pick(st, path) ==
            IF path \in st.covered \/ Eligible(path) = {} THEN {st}
            ELSE {[covered |-> st.covered \cup reviewers[p].paths,
                   chosen |-> st.chosen \cup {p}] : p \in Eligible(path)}
        Picks(order) ==
            FoldLeft(LAMBDA sts, path : UNION {Pick(st, path) : st \in sts},
                     {[covered |-> {}, chosen |-> {}]}, order)
    IN  {st.chosen : st \in UNION {Picks(order) :
                        order \in SetToSeqs(UNION {Under[f] : f \in files})}}

(* filterPreferredOnly with false *)
NotPreferredOnly(reviewers, set) ==
    {p \in set : p \in DOMAIN reviewers => ~reviewers[p].preferredOnly}

PicksFrom(reviewers, set, files) ==
    UNION {IF chosen # {} THEN {chosen}
           ELSE {{p} : p \in NotPreferredOnly(reviewers, set)} :
              chosen \in PreferredPicks(reviewers, set, files)}

(* getCodeReviewerSets: an external author's are the two halves of the     *)
(* list of admins, which may be in any order.                              *)
CodeReviewerSetsOwnersTwice(c, e) ==
    LET owners == Owners(RepoReviewers(c, e), e.author, c.codeOmit)
    IN  {<<owners, owners>>}
CodeReviewerSets(c, e) ==
    IF IsInternal(c, e.author)
    THEN LET reviewers == RepoReviewers(c, e)
         IN  {<<Owners(reviewers, e.author, c.codeOmit),
                Others(reviewers, e.author, c.codeOmit)>>}
    ELSE LET admins == AdminReviewers(c, e.author)
         IN  {<<half, admins \ half>> :
                half \in kSubset(Cardinality(admins) \div 2, admins)}

CodeReviewers(c, e, files) ==
    LET From(set) == PicksFrom(RepoReviewers(c, e), set, files)
    IN  UNION {{a \cup b : a \in From(sets[1]), b \in From(sets[2])} :
                  sets \in CodeReviewerSets(c, e)}

Get(c, e, files) ==
    LET ch == ClassifyChanges(e, files)
        docs == DocsReviewers(c, e, files)
    IN  CASE ch.code /\ ch.docs  -> {docs[1] \cup docs[2] \cup r : r \in CodeReviewers(c, e, files)}
          [] ch.code /\ ~ch.docs -> CodeReviewers(c, e, files)
          [] ~ch.code /\ ch.docs -> {docs[1] \cup docs[2]}
          [] OTHER               -> {AdminReviewers(c, e.author)}

----------------------------------------------------------------------------
(* Whose approvals count: the last review of each author, except that a    *)
(* comment does not take back an approval.                                 *)

Record(m, r) ==
    [p \in DOMAIN m \cup {r.author} |-> IF p = r.author THEN r.state ELSE m[p]]

ReviewsByAuthorLastWins(reviews) ==
    FoldLeft(LAMBDA m, r : Record(m, r), <<>>, reviews)
ReviewsByAuthor(reviews) ==
    FoldLeft(LAMBDA m, r :
                IF /\ r.author \in DOMAIN m
                   /\ m[r.author] = "APPROVED"
                   /\ r.state = "COMMENTED"
                THEN m
                ELSE Record(m, r),
             <<>>, reviews)

Approvers(reviews) ==
    LET m == ReviewsByAuthor(reviews) IN {p \in DOMAIN m : m[p] = "APPROVED"}

CheckN(set, reviews) == Cardinality(set \cap Approvers(reviews))
HasApproval(set, reviews) == CheckN(set, reviews) > 0

(* checkInternalReviews: setB is a list, to which a pull request with docs *)
(* changes appends the docs reviewers, and checkN counts every occurrence. *)
CheckInternalReviewsAnyTwo(c, e, ch, reviews, files) ==
    CheckN(DOMAIN RepoReviewers(c, e) \ {e.author}, reviews) >= ch.approverCount
CheckInternalReviews(c, e, ch, reviews, files) ==
    LET reviewers == RepoReviewers(c, e)
        docs == DocsReviewers(c, e, files)
        a == CheckN(Owners(reviewers, e.author, {}), reviews)
        b == CheckN(Others(reviewers, e.author, {}), reviews)
               + IF ch.docs THEN CheckN(docs[1], reviews) + CheckN(docs[2], reviews)
                 ELSE 0
    IN  \/ ch.approverCount = 1 /\ (a >= 1 \/ b >= 1)
        \/ a >= ch.approverCount
        \/ a > 0 /\ b > 0 /\ a + b >= ch.approverCount

CheckInternal(c, e, reviews, ch, files) ==
    LET admins == AdminCheckers(c, e.author) IN
    \/ HasApproval(admins, reviews)
    \/ /\ ch.code /\ ch.large => HasApproval(admins, reviews)
       /\ \/ ch.release /\ HasApproval(c.release, reviews)
          \/ /\ ~ch.release
             /\ ch.docs \/ ch.code \/ CheckN(admins, reviews) >= 2
             /\ CheckInternalReviews(c, e, ch, reviews, files)

CheckExternal(c, e, reviews) == CheckN(AdminCheckers(c, e.author), reviews) > 1

(* What Check answers, but for the label and for failing calls.            *)
ReviewsSuffice(c, e, reviews, files) ==
    IF IsInternalAuthor(c, e)
    THEN CheckInternal(c, e, reviews, ClassifyChanges(e, files), files)
    ELSE CheckExternal(c, e, reviews)

----------------------------------------------------------------------------
(* reviewersToDismiss: counting from the end, where a later comment does   *)
(* hide an approval.                                                       *)
LastReview(reviews, p) ==
    reviews[SelectLastInSeq(reviews, LAMBDA r : r.author = p)].state

ReviewersToDismissAnyway(c, requested, reviews) ==
    requested \ {reviews[i].author : i \in DOMAIN reviews}
ReviewersToDismiss(c, requested, reviews) ==
    LET reviewedBy == {reviews[i].author : i \in DOMAIN reviews}
        internalApprovals == {p \in reviewedBy :
                                 LastReview(reviews, p) = "APPROVED" /\ IsInternal(c, p)}
    IN  IF Cardinality(internalApprovals) < 2 THEN {} ELSE requested \ reviewedBy

============================================================================
