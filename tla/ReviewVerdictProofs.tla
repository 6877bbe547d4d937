------------------------ MODULE ReviewVerdictProofs ------------------------
(***************************************************************************)
(* What Check answers, for any reviewers file, any pull request and any    *)
(* reviews of it.                                                          *)
(***************************************************************************)
EXTENDS ReviewVerdict, ReviewRulesProofs, SequenceTheorems

Reviews == [author : Person, state : States]
ReviewsInv == reviews \in Seq(Reviews)

LEMMA ReviewIs ==
    ASSUME ReviewsInv, NEW i \in DOMAIN reviews
    PROVE  /\ reviews[i].author \in Person /\ reviews[i].state \in States
           /\ reviews[i] = [author |-> reviews[i].author, state |-> reviews[i].state]
<1> DEFINE x == reviews[i]
<1>1. x \in Reviews
  BY DEF ReviewsInv
<1> HIDE DEF x
<1>2. /\ x.author \in Person /\ x.state \in States
      /\ x = [author |-> x.author, state |-> x.state]
  BY <1>1 DEF Reviews
<1>3. QED
  BY <1>2 DEF x

LEMMA SubmitAdds ==
    ASSUME ReviewsInv, NEW p \in Person, NEW state \in States, SubmitReview(p, state)
    PROVE  /\ ReviewsInv'
           /\ Len(reviews) \in Nat /\ Len(reviews') = Len(reviews) + 1
           /\ reviews'[Len(reviews) + 1] = [author |-> p, state |-> state]
           /\ \A i \in 1..Len(reviews) : reviews'[i] = reviews[i]
<1> DEFINE x == [author |-> p, state |-> state]
<1>1. x \in Reviews
  BY DEF Reviews
<1>2. reviews' = Append(reviews, x)
  BY DEF SubmitReview
<1> HIDE DEF x
<1>3. QED
  BY <1>1, <1>2 DEF ReviewsInv, x

LEMMA DismissChanges ==
    ASSUME ReviewsInv, NEW i \in DOMAIN reviews, DismissReview(i)
    PROVE  /\ ReviewsInv'
           /\ Len(reviews) \in Nat /\ Len(reviews') = Len(reviews)
           /\ reviews'[i].author = reviews[i].author /\ reviews'[i].state = "DISMISSED"
           /\ \A j \in 1..Len(reviews) : j # i => reviews'[j] = reviews[j]
<1> DEFINE x == [author |-> reviews[i].author, state |-> "DISMISSED"]
<1>1. x \in Reviews /\ x.author = reviews[i].author
      /\ x.state = "DISMISSED"
  BY ReviewIs DEF Reviews, States
<1>2. reviews' = [reviews EXCEPT ![i] = x]
  BY DEF DismissReview
<1> HIDE DEF x
<1>3. Len(reviews) \in Nat /\ DOMAIN reviews = 1..Len(reviews)
  BY DEF ReviewsInv
<1>4. reviews' \in Seq(Reviews)
  BY <1>1, <1>2 DEF ReviewsInv
<1>5. /\ DOMAIN reviews' = DOMAIN reviews /\ reviews'[i] = x
      /\ \A j \in 1..Len(reviews) : j # i => reviews'[j] = reviews[j]
  BY <1>2, <1>3
<1>6. Len(reviews') = Len(reviews)
  BY <1>3, <1>4, <1>5
<1>7. QED
  BY <1>1, <1>3, <1>4, <1>5, <1>6 DEF ReviewsInv

LEMMA Invariant == Spec => []ReviewsInv
<1>1. Init => ReviewsInv
  BY DEF Init, ReviewsInv
<1>2. ReviewsInv /\ [Next]_vars => ReviewsInv'
  BY SubmitAdds, DismissChanges DEF Next, vars, ReviewsInv
<1>3. QED
  BY <1>1, <1>2, PTL DEF Spec

(* Whose approval stands has approved, and is one of the people.           *)
LEMMA StandsIs ==
    ASSUME ReviewsInv
    PROVE  /\ Listed(reviews)
           /\ \A p : p \in Approvers(reviews) <=> Stands(p)
           /\ \A p : Stands(p) => p \in Person
<1>1. Len(reviews) \in Nat /\ DOMAIN reviews = 1..Len(reviews)
  BY DEF ReviewsInv
<1>2. ASSUME NEW i \in 1..Len(reviews), NEW p
      PROVE  reviews[i] = [author |-> p, state |-> "APPROVED"] <=>
                reviews[i].author = p /\ reviews[i].state = "APPROVED"
  BY <1>1, ReviewIs
<1>3. Listed(reviews)
  BY <1>1 DEF Listed
<1>4. \A p : Stands(p) <=> StandsAmong(reviews, p, Len(reviews))
  BY <1>1, <1>2 DEF Stands, StandsAmong
<1>5. \A p : Stands(p) => p \in Person
  BY <1>1, <1>2, ReviewIs DEF Stands
<1>6. QED
  BY <1>3, <1>4, <1>5, ApprovalsThatStand

(* Where the reviewers file names nobody twice, Check passes exactly when  *)
(* the documented rules are met (review.go CheckInternal, CheckExternal).  *)
THEOREM AsDocumented == Spec => []VerdictAsDocumented
<1> DEFINE admins == AdminCheckers(config, env.author)
           docs == DocsReviewers(config, env, files)
           owners == Owners(Reviewers, env.author, {})
           second == Second(config, env, Changes, files)
           Joins(p) == CodeReviewer(p) \/ (Changes.docs /\ p \in docs[1] \cup docs[2])
           internal == IsInternalAuthor(config, env)
<1>1. ReviewsInv => VerdictAsDocumented
  <2> SUFFICES ASSUME ReviewsInv, NobodyListedTwice PROVE Passes <=> Documented
    BY DEF VerdictAsDocumented
  <2>1. /\ Listed(reviews)
        /\ \A p : p \in Approvers(reviews) <=> Stands(p)
        /\ \A p : Stands(p) => p \in Person
    BY StandsIs
  <2>2. /\ \A p : p \in admins <=> Admin(p)
        /\ \A p : p \in owners <=> Owner(p)
        /\ \A p : p \in second <=> Joins(p)
    BY DEF AdminCheckers, Admin, Owners, Owner, Others, CodeReviewer, MayReview, Second, Reviewers
  <2>3. CASE ~internal
    <3>1. Passes <=> CheckN(admins, reviews) > 1
      BY <2>3 DEF Passes, ReviewsSuffice, CheckExternal
    <3>2. CheckN(admins, reviews) > 1 <=>
            \E p, q \in admins : p # q /\ p \in Approvers(reviews) /\ q \in Approvers(reviews)
      BY <2>1, CheckNCounts
    <3>3. Documented <=>
            \E p, q \in Person : p # q /\ Admin(p) /\ Admin(q) /\ Stands(p) /\ Stands(q)
      BY <2>3 DEF Documented
    <3>4. QED
      BY <2>1, <2>2, <3>1, <3>2, <3>3
  <2>4. CASE internal
    <3> DEFINE byAdmin == \E p \in Person : Admin(p) /\ Stands(p)
               byRelease == \E p \in config.release : Stands(p)
               one == \E p \in Person : (Owner(p) \/ Joins(p)) /\ Stands(p)
               two == \E p, q \in Person : /\ p # q
                                           /\ Owner(p) /\ (Owner(q) \/ Joins(q))
                                           /\ Stands(p) /\ Stands(q)
               checked == CheckInternalReviews(config, env, Changes, reviews, files)
    <3>1. HasApproval(admins, reviews) <=> byAdmin
      BY <2>1, <2>2, CheckNCounts DEF HasApproval
    <3>2. HasApproval(config.release, reviews) <=> byRelease
      BY <2>1, CheckNCounts DEF HasApproval
    <3>3. CheckN(admins, reviews) >= 2 => byAdmin
      BY <2>1, <2>2, CheckNCounts
    <3>4. Changes.approverCount \in {1, 2}
      BY DEF Changes, ClassifyChanges, ApproverCount, DefaultApproverCount
    <3>5. Changes.approverCount = 1 => (checked <=> one)
      BY <2>1, <2>2, OneApprovalIsEnough DEF Reviewers
    <3>6. two => one
      OBVIOUS
    <3>7. ListsAreDisjoint(config, env, Changes, files)
      BY DEF ListsAreDisjoint, NobodyListedTwice, Reviewers
    <3>8. Changes.approverCount = 2 => (checked <=> two)
      BY <2>1, <2>2, <3>7, CheckInternalReviewsCountsPeople DEF Reviewers
    <3>9. Passes <=>
            \/ HasApproval(admins, reviews)
            \/ /\ Changes.code /\ Changes.large => HasApproval(admins, reviews)
               /\ \/ Changes.release /\ HasApproval(config.release, reviews)
                  \/ /\ ~Changes.release
                     /\ Changes.docs \/ Changes.code \/ CheckN(admins, reviews) >= 2
                     /\ checked
      BY <2>4 DEF Passes, ReviewsSuffice, CheckInternal, Changes
    <3>10. Documented <=>
            \/ byAdmin
            \/ /\ ~(Changes.code /\ Changes.large)
               /\ Changes.release
               /\ byRelease
            \/ /\ ~(Changes.code /\ Changes.large)
               /\ ~Changes.release
               /\ Changes.code \/ Changes.docs
               /\ (Changes.approverCount = 1 /\ one) \/ two
      BY <2>4 DEF Documented
    <3> HIDE DEF byAdmin, byRelease, one, two, checked
    <3>11. QED
      BY <3>1, <3>2, <3>3, <3>4, <3>5, <3>6, <3>8, <3>9, <3>10
  <2>5. QED
    BY <2>3, <2>4
<1>2. QED
  BY <1>1, Invariant, PTL

(* How one more review, and the dismissal of one, change who has approved. *)
LEMMA ApproversAfterSubmit ==
    ASSUME ReviewsInv, NEW p \in Person, NEW state \in States, SubmitReview(p, state)
    PROVE  /\ Listed(reviews) /\ Listed(reviews')
           /\ state = "COMMENTED" => Approvers(reviews') = Approvers(reviews)
           /\ state = "APPROVED" => Approvers(reviews) \subseteq Approvers(reviews')
           /\ state = "CHANGES_REQUESTED" => Approvers(reviews') \subseteq Approvers(reviews)
<1> DEFINE n == Len(reviews)
<1>1. /\ Listed(reviews) /\ Listed(reviews')
      /\ n \in Nat /\ Len(reviews') = n + 1
      /\ reviews'[n + 1].author = p /\ reviews'[n + 1].state = state
      /\ \A i \in 1..n : reviews'[i] = reviews[i]
  <2>1. /\ ReviewsInv' /\ n \in Nat /\ Len(reviews') = n + 1
        /\ reviews'[n + 1] = [author |-> p, state |-> state]
        /\ \A i \in 1..n : reviews'[i] = reviews[i]
    BY SubmitAdds
  <2>2. Listed(reviews) /\ Listed(reviews')
    BY <2>1 DEF Listed, ReviewsInv
  <2> HIDE DEF n
  <2>3. QED
    BY <2>1, <2>2
<1>2. /\ \A q : q \in Approvers(reviews) <=> StandsAmong(reviews, q, n)
      /\ \A q : q \in Approvers(reviews') <=> StandsAmong(reviews', q, n + 1)
  BY <1>1, ApprovalsThatStand
<1>3. ASSUME NEW q, q # p
      PROVE  StandsAmong(reviews, q, n) <=> StandsAmong(reviews', q, n + 1)
  BY <1>1, <1>3 DEF StandsAmong
<1>4. state = "COMMENTED" => (StandsAmong(reviews, p, n) <=> StandsAmong(reviews', p, n + 1))
  BY <1>1 DEF StandsAmong
<1>5. state = "APPROVED" => StandsAmong(reviews', p, n + 1)
  BY <1>1 DEF StandsAmong
<1>6. state = "CHANGES_REQUESTED" => ~StandsAmong(reviews', p, n + 1)
  BY <1>1 DEF StandsAmong
<1> HIDE DEF n
<1>7. \A q : q # p => (q \in Approvers(reviews) <=> q \in Approvers(reviews'))
  BY <1>2, <1>3
<1>8. /\ state = "COMMENTED" => (p \in Approvers(reviews) <=> p \in Approvers(reviews'))
      /\ state = "APPROVED" => p \in Approvers(reviews')
      /\ state = "CHANGES_REQUESTED" => p \notin Approvers(reviews')
  BY <1>2, <1>4, <1>5, <1>6
<1>9. ASSUME state = "COMMENTED" PROVE Approvers(reviews') = Approvers(reviews)
  <2>1. \A q : q \in Approvers(reviews') <=> q \in Approvers(reviews)
    BY <1>7, <1>8, <1>9
  <2>2. QED
    BY <2>1
<1>10. ASSUME state = "APPROVED" PROVE Approvers(reviews) \subseteq Approvers(reviews')
  BY <1>7, <1>8, <1>10
<1>11. ASSUME state = "CHANGES_REQUESTED"
       PROVE  Approvers(reviews') \subseteq Approvers(reviews)
  BY <1>7, <1>8, <1>11
<1>12. QED
  BY <1>1, <1>9, <1>10, <1>11

LEMMA ApproversAfterDismissal ==
    ASSUME ReviewsInv, NEW i \in DOMAIN reviews, DismissReview(i)
    PROVE  /\ Listed(reviews) /\ Listed(reviews')
           /\ Approvers(reviews') \subseteq Approvers(reviews)
<1> DEFINE n == Len(reviews)
<1>1. /\ Listed(reviews) /\ Listed(reviews')
      /\ n \in Nat /\ Len(reviews') = n
      /\ reviews'[i].author = reviews[i].author /\ reviews'[i].state = "DISMISSED"
      /\ \A j \in 1..n : j # i => reviews'[j] = reviews[j]
  <2>1. /\ ReviewsInv' /\ n \in Nat /\ Len(reviews') = n
        /\ reviews'[i].author = reviews[i].author /\ reviews'[i].state = "DISMISSED"
        /\ \A j \in 1..n : j # i => reviews'[j] = reviews[j]
    BY DismissChanges
  <2>2. Listed(reviews) /\ Listed(reviews')
    BY <2>1 DEF Listed, ReviewsInv
  <2> HIDE DEF n
  <2>3. QED
    BY <2>1, <2>2
<1>2. /\ \A q : q \in Approvers(reviews) <=> StandsAmong(reviews, q, n)
      /\ \A q : q \in Approvers(reviews') <=> StandsAmong(reviews', q, n)
  BY <1>1, ApprovalsThatStand
<1>3. ASSUME NEW q, StandsAmong(reviews', q, n) PROVE StandsAmong(reviews, q, n)
  <2>1. PICK k \in 1..n :
           /\ reviews'[k].author = q /\ reviews'[k].state = "APPROVED"
           /\ \A j \in (k + 1)..n : reviews'[j].author = q => reviews'[j].state = "COMMENTED"
    BY <1>3 DEF StandsAmong
  <2>2. k # i /\ reviews[k].author = q /\ reviews[k].state = "APPROVED"
    BY <1>1, <2>1
  <2>3. ASSUME NEW j \in (k + 1)..n, reviews[j].author = q PROVE reviews[j].state = "COMMENTED"
    <3>1. reviews'[j].author = q /\ j \in 1..n
      BY <1>1, <2>3
    <3>2. j # i
      BY <1>1, <2>1, <3>1
    <3>3. QED
      BY <1>1, <2>1, <3>1, <3>2
  <2>4. QED
    BY <2>2, <2>3 DEF StandsAmong
<1>4. QED
  BY <1>1, <1>2, <1>3

(* One more comment changes no verdict, one more approval takes none back, *)
(* and neither a request for changes nor the dismissal of a review makes a *)
(* pull request pass (review.go reviewsByAuthor, CheckInternal).           *)
THEOREM ReviewsMeanIt == Spec => ReviewsMeanWhatTheySay
<1> DEFINE new == reviews'[Len(reviews')].state
           added == Len(reviews') > Len(reviews)
           Means == /\ added /\ new = "COMMENTED" => (Passes' <=> Passes)
                    /\ added /\ new = "APPROVED" => (Passes => Passes')
                    /\ added /\ new = "CHANGES_REQUESTED" => (Passes' => Passes)
                    /\ ~added => (Passes' => Passes)
<1>1. ASSUME ReviewsInv, Next PROVE Means
  <2>1. config' = config /\ env' = env /\ files' = files
    BY <1>1 DEF Next, SubmitReview, DismissReview
  <2>2. Passes' <=> ReviewsSuffice(config, env, reviews', files)
    BY <2>1 DEF Passes
  <2>3. ASSUME NEW p \in Person, NEW state \in States, SubmitReview(p, state) PROVE Means
    <3>1. added /\ new = state
      <4>1. /\ Len(reviews) \in Nat /\ Len(reviews') = Len(reviews) + 1
            /\ reviews'[Len(reviews) + 1] = [author |-> p, state |-> state]
        BY <1>1, <2>3, SubmitAdds
      <4>2. QED
        BY <4>1
    <3>2. /\ Listed(reviews) /\ Listed(reviews')
          /\ state = "COMMENTED" => Approvers(reviews') = Approvers(reviews)
          /\ state = "APPROVED" => Approvers(reviews) \subseteq Approvers(reviews')
          /\ state = "CHANGES_REQUESTED" => Approvers(reviews') \subseteq Approvers(reviews)
      BY <1>1, <2>3, ApproversAfterSubmit
    <3>3. state \in {"COMMENTED", "APPROVED"} => (Passes => Passes')
      BY <2>2, <3>2, MoreApprovalsSuffice DEF Passes
    <3>4. state \in {"COMMENTED", "CHANGES_REQUESTED"} => (Passes' => Passes)
      BY <2>2, <3>2, MoreApprovalsSuffice DEF Passes
    <3> HIDE DEF new, added
    <3>5. QED
      BY <3>1, <3>3, <3>4
  <2>4. ASSUME NEW i \in DOMAIN reviews, DismissReview(i) PROVE Means
    <3>1. ~added
      BY <1>1, <2>4, DismissChanges
    <3>2. /\ Listed(reviews) /\ Listed(reviews')
          /\ Approvers(reviews') \subseteq Approvers(reviews)
      BY <1>1, <2>4, ApproversAfterDismissal
    <3>3. Passes' => Passes
      BY <2>2, <3>2, MoreApprovalsSuffice DEF Passes
    <3> HIDE DEF new, added
    <3>4. QED
      BY <3>1, <3>3
  <2>5. QED
    BY <1>1, <2>3, <2>4 DEF Next
<1>2. ReviewsInv /\ [Next]_vars => [Means]_vars
  BY <1>1
<1>3. QED
  BY <1>2, Invariant, PTL DEF Spec, ReviewsMeanWhatTheySay

(* SetToSeq lists every element of a finite set once.                      *)
LEMMA SetToSeqLists ==
    ASSUME NEW S, IsFiniteSet(S), NEW q, q = SetToSeq(S)
    PROVE  /\ Listed(q)
           /\ \A i \in DOMAIN q : q[i] \in S
           /\ \A i, j \in DOMAIN q : q[i] = q[j] => i = j
           /\ \A x \in S : \E i \in DOMAIN q : q[i] = x
<1> DEFINE n == Cardinality(S)
<1>1. n \in Nat /\ \E f \in Bijection(1..n, S) : TRUE
  BY FS_CardinalityType DEF ExistsBijection
<1>2. \E f \in [1..n -> S] : IsInjective(f)
  BY <1>1 DEF Bijection, Injection
<1>3. q \in [1..n -> S] /\ IsInjective(q)
  BY <1>2, Zenon DEF SetToSeq
<1> HIDE DEF n
<1>4. q \in Injection(1..n, S) /\ IsFiniteSet(1..n) /\ Cardinality(1..n) = n
  BY <1>1, <1>3, FS_Interval DEF Injection
<1>5. q \in Surjection(1..n, S)
  BY <1>4, FS_Injection DEF n
<1>6. DOMAIN q = 1..n /\ Len(q) = n
  BY <1>1, <1>3
<1>7. QED
  BY <1>1, <1>3, <1>5, <1>6 DEF Listed, IsInjective, Surjection

(* A change of code that is neither large nor a release passes when        *)
(* everybody has approved whom Assign asks, whichever reviewers it happens *)
(* to pick (review.go Get against CheckInternal, CheckExternal).           *)
THEOREM AssignedIsEnough == Spec => []AssignmentSuffices
<1> DEFINE PullRequest == config \in Configs /\ files \in FileSets
<1>1. PullRequest => AssignmentSuffices
  <2> SUFFICES ASSUME PullRequest, Changes.code, ~Changes.large, ~Changes.release,
                      NEW asked \in Get(config, env, files)
               PROVE  ReviewsSuffice(config, env,
                         SetToSeq({[author |-> p, state |-> "APPROVED"] : p \in asked}), files)
    BY DEF AssignmentSuffices
  <2> DEFINE review(p) == [author |-> p, state |-> "APPROVED"]
             all == {review(p) : p \in asked}
  <2>1. IsFiniteSet(Paths(files))
    BY ListsAssumption DEF Paths
  <2>2. IsFiniteSet(asked)
    <3>1. /\ IsFiniteSet(config.admins) /\ IsFiniteSet(config.docs)
          /\ IsFiniteSet(DOMAIN RepoReviewers(config, env))
      BY ListsAssumption DEF RepoReviewers
    <3>2. IsFiniteSet(config.admins \cup config.docs \cup DOMAIN RepoReviewers(config, env))
      BY <3>1, FS_Union
    <3>3. QED
      BY <2>1, <3>2, AskedAreListed, FS_Subset
  <2>3. IsFiniteSet(all)
    <3> DEFINE f == [p \in asked |-> review(p)]
    <3>1. f \in Surjection(asked, all)
      BY DEF Surjection
    <3> HIDE DEF f, all
    <3>2. QED
      BY <2>2, <3>1, FS_Surjection
  <2>4. PICK q : q = SetToSeq(all)
    OBVIOUS
  <2>5. /\ Listed(q)
        /\ \A i \in DOMAIN q : q[i] \in all
        /\ \A i, j \in DOMAIN q : q[i] = q[j] => i = j
        /\ \A x \in all : \E i \in DOMAIN q : q[i] = x
    <3> HIDE DEF all
    <3>1. QED
      BY <2>3, <2>4, SetToSeqLists
  <2>6. ASSUME NEW p \in asked PROVE p \in Approvers(q)
    <3>1. PICK i \in DOMAIN q : q[i] = review(p)
      BY <2>5
    <3>2. ASSUME NEW j \in DOMAIN q, q[j].author = p PROVE j = i
      <4>1. \E o \in asked : q[j] = review(o)
        BY <2>5
      <4>2. q[j] = review(p)
        BY <3>2, <4>1
      <4>3. QED
        BY <2>5, <3>1, <4>2
    <3>3. StandsAmong(q, p, Len(q))
      BY <2>5, <3>1, <3>2 DEF StandsAmong, Listed
    <3>4. QED
      BY <2>5, <3>3, ApprovalsThatStand
  <2>7. ReviewsSuffice(config, env, q, files)
    BY <2>1, <2>5, <2>6, AskedSuffice DEF Changes
  <2>8. QED
    BY <2>4, <2>7
<1>2. Init => PullRequest
  BY DEF Init
<1>3. PullRequest /\ [Next]_vars => PullRequest'
  BY DEF Next, SubmitReview, DismissReview, vars
<1>4. QED
  BY <1>1, <1>2, <1>3, PTL DEF Spec

============================================================================
