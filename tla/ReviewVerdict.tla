--------------------------- MODULE ReviewVerdict ---------------------------
(***************************************************************************)
(* The reviews of one pull request, as they come in, and what the rules of *)
(* ReviewRules say of them.  The properties compare the code's rules with  *)
(* the documented ones, with themselves after one more review, and with    *)
(* the reviewers that the same code asks for.                              *)
(***************************************************************************)
EXTENDS ReviewRules

CONSTANTS
    Person,
    Configs,     \* reviewers files
    Envs,        \* [repo, author, base, head]
    FileSets,    \* sets of changed files
    MaxReviews   \* bound on the reviews of the pull request

ASSUME MaxReviewsAssumption == MaxReviews \in Nat

(* The lists of a reviewers file, and the paths in it, are finite.         *)
ASSUME ListsAssumption ==
    /\ \A c \in Configs :
          /\ IsFiniteSet(c.admins) /\ IsFiniteSet(c.docs)
          /\ IsFiniteSet(DOMAIN c.core) /\ IsFiniteSet(DOMAIN c.cloud)
          /\ \A r \in DOMAIN c.repos : IsFiniteSet(DOMAIN c.repos[r])
    /\ \A fs \in FileSets : IsFiniteSet(UNION {Under[f] : f \in fs})

VARIABLES config, env, files, reviews

vars == <<config, env, files, reviews>>

States == {"APPROVED", "CHANGES_REQUESTED", "COMMENTED", "DISMISSED"}

Init ==
    /\ config \in Configs
    /\ env \in Envs
    /\ files \in FileSets
    /\ reviews = <<>>

(* The author of a pull request can only comment on it.                    *)
SubmitReview(p, state) ==
    /\ Len(reviews) < MaxReviews
    /\ state # "DISMISSED"
    /\ p = env.author => state = "COMMENTED"
    /\ reviews' = Append(reviews, [author |-> p, state |-> state])
    /\ UNCHANGED <<config, env, files>>

(* GitHub changes the state of a review that is dismissed in its place.    *)
DismissReview(i) ==
    /\ reviews[i].state \in {"APPROVED", "CHANGES_REQUESTED"}
    /\ reviews' = [reviews EXCEPT ![i] = [author |-> @.author, state |-> "DISMISSED"]]
    /\ UNCHANGED <<config, env, files>>

Next ==
    \/ \E p \in Person, state \in States : SubmitReview(p, state)
    \/ \E i \in DOMAIN reviews : DismissReview(i)

Spec == Init /\ [][Next]_vars

----------------------------------------------------------------------------
Passes == ReviewsSuffice(config, env, reviews, files)
Changes == ClassifyChanges(env, files)

(* Someone's approval stands when only comments of theirs follow it.       *)
Stands(p) ==
    \E i \in DOMAIN reviews :
        /\ reviews[i] = [author |-> p, state |-> "APPROVED"]
        /\ \A j \in i + 1 .. Len(reviews) :
              reviews[j].author = p => reviews[j].state = "COMMENTED"

Reviewers == RepoReviewers(config, env)
MayReview(p) == p # env.author
Owner(p) == MayReview(p) /\ p \in DOMAIN Reviewers /\ Reviewers[p].owner
CodeReviewer(p) == MayReview(p) /\ p \in DOMAIN Reviewers /\ ~Reviewers[p].owner
Admin(p) == MayReview(p) /\ p \in config.admins

(* The docs reviewers are no code reviewers, so no list names one twice.   *)
NobodyListedTwice ==
    LET docs == DocsReviewers(config, env, files)
    IN  (docs[1] \cap docs[2]) \cup ((docs[1] \cup docs[2]) \cap DOMAIN Reviewers) = {}

(* The documented rules.  External: two admins.  Internal: an admin; or a  *)
(* release reviewer for a release; or, unless it is a large change of code *)
(* or changes nothing, one reviewer where one is enough, else two owners,  *)
(* or an owner and somebody of the second group, which docs reviewers join *)
(* when the docs change.                                                   *)
Documented ==
    LET docs == DocsReviewers(config, env, files)
        Second(p) == CodeReviewer(p) \/ (Changes.docs /\ p \in docs[1] \cup docs[2])
    IN  IF ~IsInternalAuthor(config, env)
        THEN \E p, q \in Person : p # q /\ Admin(p) /\ Admin(q) /\ Stands(p) /\ Stands(q)
        ELSE \/ \E p \in Person : Admin(p) /\ Stands(p)
             \/ /\ ~(Changes.code /\ Changes.large)
                /\ Changes.release
                /\ \E p \in config.release : Stands(p)
             \/ /\ ~(Changes.code /\ Changes.large)
                /\ ~Changes.release
                /\ Changes.code \/ Changes.docs
                /\ \/ /\ Changes.approverCount = 1
                      /\ \E p \in Person : (Owner(p) \/ Second(p)) /\ Stands(p)
                   \/ \E p, q \in Person : /\ p # q
                                           /\ Owner(p) /\ (Owner(q) \/ Second(q))
                                           /\ Stands(p) /\ Stands(q)

(* VerdictAsDocumented: where the reviewers file names nobody twice, Check *)
(* passes exactly when the documented rules are met (review.go:472-571).   *)
VerdictAsDocumented == NobodyListedTwice => (Passes <=> Documented)

(* DistinctApprovers: a change of code to which neither an admin nor a     *)
(* release reviewer has the last word passes on the approvals of as many   *)
(* people as it needs ("multiple code owners that approve or code owner    *)
(* and code reviewer", review.go:548).                                     *)
DistinctApprovers ==
    \/ ~Passes
    \/ ~Changes.code \/ Changes.release
    \/ \E p \in Person : Admin(p) /\ Stands(p)
    \/ Cardinality(Approvers(reviews)) >= Changes.approverCount

(* ReviewsMeanWhatTheySay: one more comment changes nothing, one more      *)
(* approval takes no verdict back, and neither a request for changes nor   *)
(* the dismissal of a review makes a pull request pass that did not.       *)
ReviewsMeanWhatTheySay ==
    [][LET new == reviews'[Len(reviews')].state
           added == Len(reviews') > Len(reviews)
       IN  /\ added /\ new = "COMMENTED" => (Passes' <=> Passes)
           /\ added /\ new = "APPROVED" => (Passes => Passes')
           /\ added /\ new = "CHANGES_REQUESTED" => (Passes' => Passes)
           /\ ~added => (Passes' => Passes)]_vars

(* AssignmentSuffices: a change of code that is neither large nor a        *)
(* release passes when everybody has approved whom Assign asks, whichever  *)
(* reviewers it happens to pick (review.go:240-335 against 484-571).       *)
AssignmentSuffices ==
    reviews = <<>> /\ Changes.code /\ ~Changes.large /\ ~Changes.release =>
        \A asked \in Get(config, env, files) :
            ReviewsSuffice(config, env,
                SetToSeq({[author |-> p, state |-> "APPROVED"] : p \in asked}), files)

============================================================================
