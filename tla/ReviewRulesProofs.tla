------------------------- MODULE ReviewRulesProofs -------------------------
(***************************************************************************)
(* What the review rules count, for every reviewers file, pull request and *)
(* list of reviews: whose approvals count, that they are those of people,  *)
(* and whose request to review is in the way of nothing.                   *)
(***************************************************************************)
EXTENDS ReviewRules, FiniteSetTheorems, WellFoundedInduction, TLAPS

(* What one more review makes of the states recorded so far.               *)
Counted(m, r) ==
    IF r.author \in DOMAIN m /\ m[r.author] = "APPROVED" /\ r.state = "COMMENTED" THEN m
    ELSE Record(m, r)

(* The fold over the reviews at any places of the list, the last one last. *)
IsFold(reviews, places, g) ==
    g = [s \in SUBSET places |->
           IF s = {} THEN <<>> ELSE Counted(g[s \ {Max(s)}], reviews[Max(s)])]

(* p has approved among the first k reviews, and has only commented since. *)
StandsAmong(reviews, p, k) ==
    \E i \in 1..k : /\ reviews[i].author = p
                    /\ reviews[i].state = "APPROVED"
                    /\ \A j \in (i + 1)..k : reviews[j].author = p => reviews[j].state = "COMMENTED"

RecordedSoFar(reviews, m, k) ==
    /\ DOMAIN m = {reviews[i].author : i \in 1..k}
    /\ \A p \in DOMAIN m : m[p] = "APPROVED" <=> StandsAmong(reviews, p, k)

Listed(reviews) == Len(reviews) \in Nat /\ DOMAIN reviews = 1..Len(reviews)
Authors(reviews) == {reviews[i].author : i \in DOMAIN reviews}

(* Those of the second group: its own, and the docs reviewers when the     *)
(* docs change.                                                            *)
Second(c, e, ch, files) ==
    LET docs == DocsReviewers(c, e, files)
    IN  Others(RepoReviewers(c, e), e.author, {})
          \cup IF ch.docs THEN docs[1] \cup docs[2] ELSE {}

(* No two of the lists have somebody in common.                            *)
ListsAreDisjoint(c, e, ch, files) ==
    LET reviewers == RepoReviewers(c, e)
        docs == DocsReviewers(c, e, files)
    IN  ch.docs => /\ (docs[1] \cup docs[2]) \cap DOMAIN reviewers = {}
                   /\ docs[1] \cap docs[2] = {}

----------------------------------------------------------------------------
(* Natural numbers.                                                        *)

LEMMA LeastOfNaturals ==
    ASSUME NEW S \in SUBSET Nat, S # {}
    PROVE  \E n \in S : \A m \in S : n <= m
<1> DEFINE less == {ss \in Nat \X Nat : ss[1] < ss[2]}
<1>1. IsWellFoundedOn(less, Nat)
  BY NatLessThanWellFounded DEF OpToRel
<1> HIDE DEF less
<1>2. PICK n \in S : \A m \in S : ~(<<m, n>> \in less)
  BY <1>1, WFMin
<1>3. ASSUME NEW m \in S PROVE n <= m
  <2>1. <<m, n>> \notin less
    BY <1>2
  <2>2. m \in Nat /\ n \in Nat
    OBVIOUS
  <2>3. ~(m < n)
    BY <2>1, <2>2 DEF less
  <2>4. QED
    BY <2>2, <2>3
<1>4. QED
  BY <1>3

LEMMA NatInduct ==
    ASSUME NEW n \in Nat, NEW T \in SUBSET Nat, 0 \in T,
           \A k \in Nat : k < n /\ k \in T => k + 1 \in T
    PROVE  n \in T
<1> SUFFICES ASSUME n \notin T PROVE FALSE
  OBVIOUS
<1> DEFINE out == {k \in 0..n : k \notin T}
<1>1. PICK k \in out : \A m \in out : k <= m
  <2>1. n \in out /\ out \in SUBSET Nat
    OBVIOUS
  <2> HIDE DEF out
  <2>2. QED
    BY <2>1, LeastOfNaturals
<1>2. k # 0 /\ k - 1 \in Nat /\ k - 1 < n
  BY <1>1
<1>3. k - 1 \in T
  BY <1>1, <1>2
<1>4. QED
  BY <1>1, <1>2, <1>3

LEMMA MaxIs ==
    ASSUME NEW s, NEW n \in s, \A m \in s : n >= m, s \subseteq Nat
    PROVE  Max(s) = n
<1>1. \E x \in s : \A m \in s : x >= m
  OBVIOUS
<1>2. Max(s) \in s /\ \A m \in s : Max(s) >= m
  BY <1>1, Zenon DEF Max
<1>3. Max(s) \in Nat /\ n \in Nat /\ Max(s) >= n /\ n >= Max(s)
  BY <1>2
<1>4. QED
  BY <1>3

(* A finite set with more than one element has two.                        *)
LEMMA TwoOfThem ==
    ASSUME NEW S, IsFiniteSet(S)
    PROVE  /\ Cardinality(S) \in Nat
           /\ Cardinality(S) >= 1 <=> \E p \in S : TRUE
           /\ Cardinality(S) >= 2 <=> \E p, q \in S : p # q
<1>1. Cardinality(S) \in Nat
  BY FS_CardinalityType
<1>2. Cardinality(S) = 0 <=> S = {}
  BY FS_EmptySet
<1>3. Cardinality(S) = 1 <=> \E p : S = {p}
  BY FS_Singleton
<1>4. Cardinality(S) >= 1 <=> \E p \in S : TRUE
  BY <1>1, <1>2
<1>5. ASSUME Cardinality(S) >= 2
      PROVE  \E p, q \in S : p # q
  <2>1. PICK p \in S : TRUE
    BY <1>1, <1>4, <1>5
  <2>2. S # {p}
    BY <1>3, <1>5
  <2>. QED
    BY <2>1, <2>2
<1>6. ASSUME NEW p \in S, NEW q \in S, p # q
      PROVE  Cardinality(S) >= 2
  <2>1. S # {} /\ ~ \E r : S = {r}
    BY <1>6
  <2>. QED
    BY <1>1, <1>2, <1>3, <2>1
<1>. QED
  BY <1>1, <1>4, <1>5, <1>6

----------------------------------------------------------------------------
(* Whose approvals count.                                                  *)

LEMMA ByAuthorFolds ==
    ASSUME NEW reviews
    PROVE  ReviewsByAuthor(reviews)
             = (CHOOSE g : IsFold(reviews, DOMAIN reviews, g))[DOMAIN reviews]
  BY DEF ReviewsByAuthor, FoldLeft, MapThenFoldSet, IsFold, Counted

LEMMA LastPlace ==
    ASSUME NEW k \in Nat, NEW s \in SUBSET (1..(k+1))
    PROVE  /\ k + 1 \in s => Max(s) = k + 1 /\ s \ {k + 1} \in SUBSET (1..k)
           /\ k + 1 \notin s => s \in SUBSET (1..k)
<1>1. s \subseteq Nat /\ \A m \in s : k + 1 >= m
  OBVIOUS
<1>2. k + 1 \in s => Max(s) = k + 1
  BY <1>1, MaxIs
<1>3. \A m \in s : m # k + 1 => m \in 1..k
  OBVIOUS
<1>4. QED
  BY <1>2, <1>3

(* There is such a fold, for any number of reviews.                        *)
LEMMA FoldExists ==
    ASSUME NEW reviews, NEW n \in Nat
    PROVE  \E g : IsFold(reviews, 1..n, g)
<1> DEFINE T == {k \in Nat : \E g : IsFold(reviews, 1..k, g)}
<1>1. 0 \in T
  <2> DEFINE g == [s \in SUBSET (1..0) |-> <<>>]
  <2>1. IsFold(reviews, 1..0, g)
    BY DEF IsFold
  <2>2. QED
    BY <2>1
<1>2. ASSUME NEW k \in Nat, k \in T PROVE k + 1 \in T
  <2>1. PICK g : IsFold(reviews, 1..k, g)
    BY <1>2
  <2> DEFINE h == [s \in SUBSET (1..(k+1)) |->
                     IF k + 1 \in s THEN Counted(g[s \ {k + 1}], reviews[k + 1]) ELSE g[s]]
  <2>2. ASSUME NEW s \in SUBSET (1..(k+1))
        PROVE  h[s] = IF s = {} THEN <<>> ELSE Counted(h[s \ {Max(s)}], reviews[Max(s)])
    <3>1. CASE k + 1 \in s
      <4>1. Max(s) = k + 1 /\ s \ {k + 1} \in SUBSET (1..k)
        BY <3>1, LastPlace
      <4>2. h[s \ {k + 1}] = g[s \ {k + 1}]
        BY <4>1
      <4>3. h[s] = Counted(g[s \ {k + 1}], reviews[k + 1])
        BY <3>1
      <4> HIDE DEF h
      <4>4. QED
        BY <3>1, <4>1, <4>2, <4>3
    <3>2. CASE k + 1 \notin s
      <4>1. s \in SUBSET (1..k) /\ s \ {Max(s)} \in SUBSET (1..k)
        BY <3>2, LastPlace
      <4>2. h[s] = g[s] /\ h[s \ {Max(s)}] = g[s \ {Max(s)}]
        BY <3>2, <4>1
      <4> HIDE DEF h
      <4>3. QED
        BY <2>1, <4>1, <4>2 DEF IsFold
    <3>3. QED
      BY <3>1, <3>2
  <2>3. h = [s \in SUBSET (1..(k+1)) |-> h[s]]
    OBVIOUS
  <2> HIDE DEF h
  <2>4. IsFold(reviews, 1..(k+1), h)
    BY <2>2, <2>3 DEF IsFold
  <2>5. QED
    BY <2>4
<1> HIDE DEF T
<1>3. n \in T
  BY <1>1, <1>2, NatInduct DEF T
<1>4. QED
  BY <1>3 DEF T

LEMMA OneMoreRecorded ==
  ASSUME NEW reviews, NEW k \in Nat, NEW m, RecordedSoFar(reviews, m, k)
  PROVE  RecordedSoFar(reviews, Counted(m, reviews[k + 1]), k + 1)
<1> DEFINE r == reviews[k + 1]
           x == r.author
           new == Counted(m, r)
<1>0. 1..(k+1) = (1..k) \cup {k + 1}
  OBVIOUS
<1>1. DOMAIN new = DOMAIN m \cup {x} /\ \A p \in DOMAIN new \ {x} : new[p] = m[p]
  BY DEF Counted, Record
<1>2. DOMAIN new = {reviews[i].author : i \in 1..(k + 1)}
  BY <1>0, <1>1 DEF RecordedSoFar
<1>3. ASSUME NEW p \in DOMAIN new, p # x
      PROVE  new[p] = "APPROVED" <=> StandsAmong(reviews, p, k + 1)
  <2>1. StandsAmong(reviews, p, k) <=> StandsAmong(reviews, p, k + 1)
    BY <1>3 DEF StandsAmong
  <2>2. QED
    BY <1>1, <1>3, <2>1 DEF RecordedSoFar
<1>4. new[x] = "APPROVED" <=> StandsAmong(reviews, x, k + 1)
  <2>1. CASE x \in DOMAIN m /\ m[x] = "APPROVED" /\ r.state = "COMMENTED"
    <3>1. new = m
      BY <2>1 DEF Counted, Record
    <3>2. StandsAmong(reviews, x, k)
      BY <2>1 DEF RecordedSoFar
    <3>3. StandsAmong(reviews, x, k + 1)
      BY <2>1, <3>2 DEF StandsAmong
    <3>4. QED
      BY <2>1, <3>1, <3>3
  <2>2. CASE ~(x \in DOMAIN m /\ m[x] = "APPROVED" /\ r.state = "COMMENTED")
    <3>1. new[x] = r.state
      BY <2>2 DEF Counted, Record
    <3>2. ASSUME StandsAmong(reviews, x, k) PROVE r.state # "COMMENTED"
      <4>1. x \in DOMAIN m
        BY <3>2 DEF StandsAmong, RecordedSoFar
      <4>2. QED
        BY <2>2, <3>2, <4>1 DEF RecordedSoFar
    <3>3. r.state = "APPROVED" => StandsAmong(reviews, x, k + 1)
      BY DEF StandsAmong
    <3>4. StandsAmong(reviews, x, k + 1) =>
             r.state = "APPROVED" \/ (r.state = "COMMENTED" /\ StandsAmong(reviews, x, k))
      BY DEF StandsAmong
    <3>5. QED
      BY <3>1, <3>2, <3>3, <3>4
  <2>3. QED
    BY <2>1, <2>2
<1> HIDE DEF new
<1>5. QED
  BY <1>2, <1>3, <1>4 DEF RecordedSoFar, new

LEMMA ByAuthorRecords ==
  ASSUME NEW reviews, Listed(reviews)
  PROVE  RecordedSoFar(reviews, ReviewsByAuthor(reviews), Len(reviews))
<1>0. DOMAIN reviews = 1..Len(reviews) /\ Len(reviews) \in Nat
  BY DEF Listed
<1> DEFINE n == Len(reviews)
           g == CHOOSE f : IsFold(reviews, DOMAIN reviews, f)
<1>1. IsFold(reviews, 1..n, g)
  <2>1. \E f : IsFold(reviews, DOMAIN reviews, f)
    BY <1>0, FoldExists
  <2>2. IsFold(reviews, DOMAIN reviews, g)
    BY <2>1, Zenon
  <2> HIDE DEF g
  <2>3. QED
    BY <1>0, <2>2
<1>2. ReviewsByAuthor(reviews) = g[1..n]
  <2>1. ReviewsByAuthor(reviews) = g[DOMAIN reviews]
    BY ByAuthorFolds, Zenon
  <2> HIDE DEF g
  <2>2. QED
    BY <1>0, <2>1
<1> HIDE DEF g
<1> DEFINE T == {k \in Nat : k <= n => RecordedSoFar(reviews, g[1..k], k)}
<1>3. 0 \in T
  <2>1. 1..0 = {} /\ {} \in SUBSET (1..n)
    OBVIOUS
  <2>2. g[{}] = <<>>
    BY <1>1, <2>1 DEF IsFold
  <2>3. RecordedSoFar(reviews, <<>>, 0)
    BY DEF RecordedSoFar
  <2>4. QED
    BY <2>1, <2>2, <2>3
<1>4. ASSUME NEW k \in Nat, k < n, k \in T PROVE k + 1 \in T
  <2>1. RecordedSoFar(reviews, g[1..k], k)
    BY <1>4
  <2>2. 1..(k+1) \in SUBSET (1..n) /\ 1..(k+1) # {} /\ (1..(k+1)) \ {k+1} = 1..k
    <3>1. n \in Nat
      BY <1>0
    <3> HIDE DEF n
    <3>2. 1..(k+1) \subseteq 1..n
      BY <1>4, <3>1
    <3>3. k + 1 \in 1..(k+1)
      OBVIOUS
    <3>4. (1..(k+1)) \ {k+1} = 1..k
      OBVIOUS
    <3>5. QED
      BY <3>2, <3>3, <3>4
  <2>3. Max(1..(k+1)) = k + 1
    <3>1. k + 1 \in 1..(k+1) /\ 1..(k+1) \subseteq Nat /\ \A m \in 1..(k+1) : k + 1 >= m
      OBVIOUS
    <3>2. QED
      BY <3>1, MaxIs
  <2>4. g[1..(k+1)] = Counted(g[1..k], reviews[k+1])
    BY <1>1, <2>2, <2>3 DEF IsFold
  <2>5. QED
    BY <2>1, <2>4, OneMoreRecorded
<1> HIDE DEF T
<1>5. n \in T
  BY <1>0, <1>3, <1>4, NatInduct DEF T
<1>6. QED
  BY <1>2, <1>5 DEF T

(* Whose approvals count: those of the people whose last word, comments    *)
(* left aside, is an approval (review.go reviewsByAuthor).                 *)
THEOREM ApprovalsThatStand ==
    ASSUME NEW reviews, Listed(reviews)
    PROVE  \A p : p \in Approvers(reviews) <=> StandsAmong(reviews, p, Len(reviews))
<1>1. RecordedSoFar(reviews, ReviewsByAuthor(reviews), Len(reviews))
  BY ByAuthorRecords
<1>2. ASSUME NEW p, StandsAmong(reviews, p, Len(reviews))
      PROVE  p \in DOMAIN ReviewsByAuthor(reviews)
  BY <1>1, <1>2 DEF RecordedSoFar, StandsAmong
<1>3. QED
  BY <1>1, <1>2 DEF RecordedSoFar, Approvers

(* They are some of the authors of the reviews, and so finitely many.      *)
LEMMA ApproversFinite ==
    ASSUME NEW reviews, Listed(reviews)
    PROVE  Approvers(reviews) \subseteq Authors(reviews) /\ IsFiniteSet(Approvers(reviews))
<1>1. Approvers(reviews) \subseteq Authors(reviews)
  BY ApprovalsThatStand DEF StandsAmong, Authors, Listed
<1>2. IsFiniteSet(DOMAIN reviews)
  BY FS_Interval DEF Listed
<1>3. IsFiniteSet(Authors(reviews))
  <2> DEFINE author == [i \in DOMAIN reviews |-> reviews[i].author]
  <2>1. author \in Surjection(DOMAIN reviews, Authors(reviews))
    BY DEF Surjection, Authors
  <2> HIDE DEF author
  <2>2. QED
    BY <1>2, <2>1, FS_Surjection
<1>4. QED
  BY <1>1, <1>3, FS_Subset

(* What checkN counts in a list: the people on it who have approved.       *)
LEMMA CheckNCounts ==
    ASSUME NEW S, NEW reviews, Listed(reviews)
    PROVE  /\ CheckN(S, reviews) \in Nat
           /\ CheckN(S, reviews) >= 1 <=> \E p \in S : p \in Approvers(reviews)
           /\ CheckN(S, reviews) >= 2 <=>
                 \E p, q \in S : p # q /\ p \in Approvers(reviews) /\ q \in Approvers(reviews)
<1>1. IsFiniteSet(S \cap Approvers(reviews))
  BY ApproversFinite, FS_Subset
<1>. QED
  BY <1>1, TwoOfThem DEF CheckN

(* The two groups that getReviewerSets makes are disjoint.                 *)
LEMMA OwnersAndOthers ==
    ASSUME NEW reviewers, NEW author
    PROVE  /\ Owners(reviewers, author, {}) \cap Others(reviewers, author, {}) = {}
           /\ Owners(reviewers, author, {}) \cup Others(reviewers, author, {})
                 \subseteq DOMAIN reviewers
BY DEF Owners, Others

----------------------------------------------------------------------------
(* CheckInternalReviewsCountsPeople: a change that needs two approvals     *)
(* passes exactly when an owner and somebody else of either group have     *)
(* approved, provided that nobody is listed twice (review.go:537-571).     *)
THEOREM CheckInternalReviewsCountsPeople ==
    ASSUME NEW c, NEW e, NEW ch, NEW reviews, NEW files,
           Listed(reviews),
           ch.approverCount = 2,
           ListsAreDisjoint(c, e, ch, files)
    PROVE  CheckInternalReviews(c, e, ch, reviews, files) <=>
              \E p \in Owners(RepoReviewers(c, e), e.author, {}) :
              \E q \in Owners(RepoReviewers(c, e), e.author, {}) \cup Second(c, e, ch, files) :
                 p # q /\ p \in Approvers(reviews) /\ q \in Approvers(reviews)
<1>. DEFINE owners == Owners(RepoReviewers(c, e), e.author, {})
            others == Others(RepoReviewers(c, e), e.author, {})
            docs   == DocsReviewers(c, e, files)
            added  == IF ch.docs THEN CheckN(docs[1], reviews) + CheckN(docs[2], reviews) ELSE 0
            Approved(S) == \E p \in S : p \in Approvers(reviews)
            Twice(S) == \E p, q \in S :
                            p # q /\ p \in Approvers(reviews) /\ q \in Approvers(reviews)
<1>1. /\ owners \cap others = {}
      /\ ch.docs => (docs[1] \cup docs[2]) \cap owners = {}
  BY OwnersAndOthers DEF ListsAreDisjoint
<1>2. /\ CheckN(owners, reviews) \in Nat /\ CheckN(others, reviews) \in Nat
      /\ CheckN(docs[1], reviews) \in Nat /\ CheckN(docs[2], reviews) \in Nat
      /\ CheckN(owners, reviews) >= 1 <=> Approved(owners)
      /\ CheckN(others, reviews) >= 1 <=> Approved(others)
      /\ CheckN(docs[1], reviews) >= 1 <=> Approved(docs[1])
      /\ CheckN(docs[2], reviews) >= 1 <=> Approved(docs[2])
      /\ CheckN(owners, reviews) >= 2 <=> Twice(owners)
  BY <1>1, CheckNCounts
<1>3. CheckInternalReviews(c, e, ch, reviews, files) <=>
         \/ CheckN(owners, reviews) >= 2
         \/ /\ CheckN(owners, reviews) > 0
            /\ CheckN(others, reviews) + added > 0
            /\ CheckN(owners, reviews) + (CheckN(others, reviews) + added) >= 2
  BY <1>2, SMT DEF CheckInternalReviews
<1>4. CheckN(others, reviews) + added >= 1 <=>
         Approved(others) \/ (ch.docs /\ (Approved(docs[1]) \/ Approved(docs[2])))
  BY <1>2
<1>5. CheckN(others, reviews) + added \in Nat
  BY <1>2
<1>6. CheckInternalReviews(c, e, ch, reviews, files) <=>
         \/ Twice(owners)
         \/ /\ Approved(owners)
            /\ Approved(others) \/ (ch.docs /\ (Approved(docs[1]) \/ Approved(docs[2])))
  BY <1>2, <1>3, <1>4, <1>5
<1>7. Second(c, e, ch, files) = others \cup IF ch.docs THEN docs[1] \cup docs[2] ELSE {}
  BY DEF Second
<1>. QED
  BY <1>1, <1>6, <1>7

(* OneApprovalIsEnough: where one approval is enough, anybody's of either  *)
(* group is (review.go:548-571).                                           *)
LEMMA OneApprovalIsEnough ==
    ASSUME NEW c, NEW e, NEW ch, NEW reviews, NEW files,
           Listed(reviews),
           ch.approverCount = 1
    PROVE  CheckInternalReviews(c, e, ch, reviews, files) <=>
              \E p \in Owners(RepoReviewers(c, e), e.author, {}) \cup Second(c, e, ch, files) :
                 p \in Approvers(reviews)
<1>. DEFINE owners == Owners(RepoReviewers(c, e), e.author, {})
            others == Others(RepoReviewers(c, e), e.author, {})
            docs   == DocsReviewers(c, e, files)
            added  == IF ch.docs THEN CheckN(docs[1], reviews) + CheckN(docs[2], reviews) ELSE 0
            Approved(S) == \E p \in S : p \in Approvers(reviews)
<1>1. /\ CheckN(owners, reviews) \in Nat /\ CheckN(others, reviews) \in Nat
      /\ CheckN(docs[1], reviews) \in Nat /\ CheckN(docs[2], reviews) \in Nat
      /\ CheckN(owners, reviews) >= 1 <=> Approved(owners)
      /\ CheckN(others, reviews) >= 1 <=> Approved(others)
      /\ CheckN(docs[1], reviews) >= 1 <=> Approved(docs[1])
      /\ CheckN(docs[2], reviews) >= 1 <=> Approved(docs[2])
  BY CheckNCounts
<1>2. CheckInternalReviews(c, e, ch, reviews, files) <=>
         CheckN(owners, reviews) >= 1 \/ CheckN(others, reviews) + added >= 1
  BY <1>1, SMT DEF CheckInternalReviews
<1>3. CheckN(others, reviews) + added >= 1 <=>
         Approved(others) \/ (ch.docs /\ (Approved(docs[1]) \/ Approved(docs[2])))
  BY <1>1
<1>4. Second(c, e, ch, files) = others \cup IF ch.docs THEN docs[1] \cup docs[2] ELSE {}
  BY DEF Second
<1>. QED
  BY <1>1, <1>2, <1>3, <1>4

(* MoreApprovalsSuffice: more approvals never take a verdict back, whatever*)
(* the reviewers file and the change (review.go:472-571).                  *)
LEMMA CheckNGrows ==
    ASSUME NEW S, NEW before, NEW after, Listed(before), Listed(after),
           Approvers(before) \subseteq Approvers(after)
    PROVE  /\ CheckN(S, before) \in Nat /\ CheckN(S, after) \in Nat
           /\ CheckN(S, before) <= CheckN(S, after)
<1>1. IsFiniteSet(S \cap Approvers(before)) /\ IsFiniteSet(S \cap Approvers(after))
  BY ApproversFinite, FS_Subset
<1>2. S \cap Approvers(before) \subseteq S \cap Approvers(after)
  OBVIOUS
<1>. QED
  BY <1>1, <1>2, FS_Subset, FS_CardinalityType DEF CheckN

THEOREM MoreApprovalsSuffice ==
    ASSUME NEW c, NEW e, NEW files, NEW before, NEW after, Listed(before), Listed(after),
           Approvers(before) \subseteq Approvers(after),
           ReviewsSuffice(c, e, before, files)
    PROVE  ReviewsSuffice(c, e, after, files)
<1>. DEFINE ch == ClassifyChanges(e, files)
            admins == AdminCheckers(c, e.author)
            owners == Owners(RepoReviewers(c, e), e.author, {})
            others == Others(RepoReviewers(c, e), e.author, {})
            docs == DocsReviewers(c, e, files)
            Grows(S) == /\ CheckN(S, before) \in Nat /\ CheckN(S, after) \in Nat
                        /\ CheckN(S, before) <= CheckN(S, after)
<1>1. \A S : Grows(S)
  BY CheckNGrows
<1>2. CheckInternalReviews(c, e, ch, before, files) => CheckInternalReviews(c, e, ch, after, files)
  <2>1. ch.approverCount \in Nat
    BY DEF ClassifyChanges, ApproverCount, DefaultApproverCount
  <2>2. Grows(owners) /\ Grows(others) /\ Grows(docs[1]) /\ Grows(docs[2])
    BY <1>1
  <2> HIDE DEF ch, owners, others, docs
  <2>. QED
    BY <2>1, <2>2, SMT DEF CheckInternalReviews, owners, others, docs
<1>3. Grows(admins) /\ Grows(c.release)
  BY <1>1
<1>4. CASE IsInternalAuthor(c, e)
  BY <1>2, <1>3, <1>4 DEF ReviewsSuffice, CheckInternal, HasApproval
<1>5. CASE ~IsInternalAuthor(c, e)
  BY <1>3, <1>5 DEF ReviewsSuffice, CheckExternal
<1>. QED
  BY <1>4, <1>5

----------------------------------------------------------------------------
(* The last review by one of the authors.                                  *)
LEMMA LastReviewIs ==
    ASSUME NEW reviews, Listed(reviews), NEW p \in Authors(reviews)
    PROVE  \E i \in DOMAIN reviews : /\ reviews[i].author = p
                                     /\ \A j \in DOMAIN reviews : reviews[j].author = p => j <= i
                                     /\ LastReview(reviews, p) = reviews[i].state
<1> DEFINE places == {i \in 1..Len(reviews) : reviews[i].author = p}
<1>1. places # {} /\ places \subseteq Nat
  BY DEF Authors, Listed
<1>2. LastReview(reviews, p) = reviews[Max(places)].state
  BY <1>1 DEF LastReview, SelectLastInSeq
<1>3. \E i \in places : \A j \in places : i >= j
  <2> DEFINE above == {Len(reviews) - i : i \in places}
  <2>1. above \subseteq Nat /\ above # {}
    BY <1>1 DEF Listed
  <2>2. PICK n \in above : \A m \in above : n <= m
    <3> HIDE DEF above
    <3>1. QED
      BY <2>1, LeastOfNaturals
  <2>3. PICK i \in places : n = Len(reviews) - i
    BY <2>2
  <2>4. ASSUME NEW j \in places PROVE i >= j
    <3>1. Len(reviews) - j \in above
      OBVIOUS
    <3>2. n <= Len(reviews) - j
      BY <2>2, <3>1
    <3>3. i \in Nat /\ j \in Nat /\ Len(reviews) \in Nat
      BY <1>1 DEF Listed
    <3>4. QED
      BY <2>3, <3>2, <3>3
  <2>5. QED
    BY <2>4
<1>4. Max(places) \in places /\ \A j \in places : Max(places) >= j
  <2> HIDE DEF places
  <2>1. QED
    BY <1>3, Zenon DEF Max
<1>5. ASSUME NEW i \in places, \A j \in places : i >= j
      PROVE  i \in DOMAIN reviews /\ \A j \in DOMAIN reviews : reviews[j].author = p => j <= i
  BY <1>5 DEF Listed
<1>6. QED
  BY <1>2, <1>4, <1>5 DEF Listed

(* WithdrawnWithoutNeed: when the bot withdraws requests to review, two    *)
(* people have approved, as Check counts approvals, and those whose        *)
(* request goes have not reviewed (review.go reviewersToDismiss).          *)
THEOREM WithdrawnWithoutNeed ==
    ASSUME NEW c, NEW requested, NEW reviews, Listed(reviews),
           ReviewersToDismiss(c, requested, reviews) # {}
    PROVE  /\ Cardinality(Approvers(reviews)) > 1
           /\ ReviewersToDismiss(c, requested, reviews) \cap Authors(reviews) = {}
           /\ ReviewersToDismiss(c, requested, reviews) \subseteq requested
<1> DEFINE approvals == {p \in Authors(reviews) :
                            LastReview(reviews, p) = "APPROVED" /\ IsInternal(c, p)}
<1>1. /\ ~(Cardinality(approvals) < 2)
      /\ ReviewersToDismiss(c, requested, reviews) = requested \ Authors(reviews)
  BY DEF ReviewersToDismiss, Authors
<1>2. ASSUME NEW p \in approvals PROVE p \in Approvers(reviews)
  <2>1. PICK i \in DOMAIN reviews : /\ reviews[i].author = p
                                    /\ \A j \in DOMAIN reviews : reviews[j].author = p => j <= i
                                    /\ reviews[i].state = "APPROVED"
    BY LastReviewIs
  <2>2. i \in 1..Len(reviews) /\ \A j \in (i + 1)..Len(reviews) : reviews[j].author # p
    BY <2>1 DEF Listed
  <2>3. StandsAmong(reviews, p, Len(reviews))
    BY <2>1, <2>2 DEF StandsAmong
  <2>4. QED
    BY <2>3, ApprovalsThatStand
<1>3. /\ IsFiniteSet(Approvers(reviews))
      /\ Cardinality(approvals) <= Cardinality(Approvers(reviews))
      /\ Cardinality(approvals) \in Nat /\ Cardinality(Approvers(reviews)) \in Nat
  BY <1>2, ApproversFinite, FS_Subset, FS_CardinalityType
<1>4. QED
  BY <1>1, <1>3

----------------------------------------------------------------------------
(* Whom Assign asks.  One more path, from any of the picks so far ...      *)
Eligible(reviewers, set, files, path) ==
    {p \in set \cap DOMAIN reviewers : \E f \in files : PrefersFile(reviewers[p], {path}, f)}

PickedAt(reviewers, set, files, st, path) ==
    IF path \in st.covered \/ Eligible(reviewers, set, files, path) = {} THEN {st}
    ELSE {[covered |-> st.covered \cup reviewers[p].paths,
           chosen |-> st.chosen \cup {p}] : p \in Eligible(reviewers, set, files, path)}

OnePathMore(reviewers, set, files, sts, path) ==
    UNION {PickedAt(reviewers, set, files, st, path) : st \in sts}

(* ... and the fold over the paths at any places of their order.           *)
IsPickFold(reviewers, set, files, order, places, g) ==
    g = [s \in SUBSET places |->
           IF s = {} THEN {[covered |-> {}, chosen |-> {}]}
           ELSE OnePathMore(reviewers, set, files, g[s \ {Max(s)}], order[Max(s)])]

Paths(files) == UNION {Under[f] : f \in files}

LEMMA PicksFold ==
    ASSUME NEW reviewers, NEW set, NEW files, NEW chosen \in PreferredPicks(reviewers, set, files)
    PROVE  \E order \in SetToSeqs(Paths(files)) :
           \E st \in (CHOOSE g : IsPickFold(reviewers, set, files, order, DOMAIN order, g))
                        [DOMAIN order] :
              chosen = st.chosen
  BY DEF PreferredPicks, FoldLeft, MapThenFoldSet, IsPickFold, OnePathMore, PickedAt, Eligible,
         Paths

LEMMA PickFoldExists ==
    ASSUME NEW reviewers, NEW set, NEW files, NEW order, NEW n \in Nat
    PROVE  \E g : IsPickFold(reviewers, set, files, order, 1..n, g)
<1> DEFINE T == {k \in Nat : \E g : IsPickFold(reviewers, set, files, order, 1..k, g)}
           more(sts, path) == OnePathMore(reviewers, set, files, sts, path)
           none == {[covered |-> {}, chosen |-> {}]}
<1>1. 0 \in T
  <2> DEFINE g == [s \in SUBSET (1..0) |-> none]
  <2>1. IsPickFold(reviewers, set, files, order, 1..0, g)
    BY DEF IsPickFold
  <2>2. QED
    BY <2>1
<1> HIDE DEF none
<1>2. ASSUME NEW k \in Nat, k \in T PROVE k + 1 \in T
  <2>1. PICK g : IsPickFold(reviewers, set, files, order, 1..k, g)
    BY <1>2
  <2> DEFINE h == [s \in SUBSET (1..(k+1)) |->
                     IF k + 1 \in s THEN more(g[s \ {k + 1}], order[k + 1]) ELSE g[s]]
  <2>2. ASSUME NEW s \in SUBSET (1..(k+1))
        PROVE  h[s] = IF s = {} THEN none ELSE more(h[s \ {Max(s)}], order[Max(s)])
    <3>1. CASE k + 1 \in s
      <4>1. Max(s) = k + 1 /\ s \ {k + 1} \in SUBSET (1..k)
        BY <3>1, LastPlace
      <4>2. h[s \ {k + 1}] = g[s \ {k + 1}]
        BY <4>1
      <4>3. h[s] = more(g[s \ {k + 1}], order[k + 1])
        BY <3>1
      <4> HIDE DEF h
      <4>4. QED
        BY <3>1, <4>1, <4>2, <4>3
    <3>2. CASE k + 1 \notin s
      <4>1. s \in SUBSET (1..k) /\ s \ {Max(s)} \in SUBSET (1..k)
        BY <3>2, LastPlace
      <4>2. h[s] = g[s] /\ h[s \ {Max(s)}] = g[s \ {Max(s)}]
        BY <3>2, <4>1
      <4> HIDE DEF h
      <4>3. QED
        BY <2>1, <4>1, <4>2 DEF IsPickFold, none
    <3>3. QED
      BY <3>1, <3>2
  <2>3. h = [s \in SUBSET (1..(k+1)) |-> h[s]]
    OBVIOUS
  <2> HIDE DEF h
  <2>4. IsPickFold(reviewers, set, files, order, 1..(k+1), h)
    BY <2>2, <2>3 DEF IsPickFold, none
  <2>5. QED
    BY <2>4
<1> HIDE DEF T
<1>3. n \in T
  BY <1>1, <1>2, NatInduct DEF T
<1>4. QED
  BY <1>3 DEF T

(* Whoever is picked comes from the set given.                             *)
LEMMA PickedAreInSet ==
    ASSUME NEW reviewers, NEW set, NEW files, IsFiniteSet(Paths(files)),
           NEW chosen \in PreferredPicks(reviewers, set, files)
    PROVE  chosen \subseteq set
<1>1. PICK order \in SetToSeqs(Paths(files)) :
        \E st \in (CHOOSE g : IsPickFold(reviewers, set, files, order, DOMAIN order, g))
                     [DOMAIN order] :
           chosen = st.chosen
  BY PicksFold
<1> DEFINE n == Cardinality(Paths(files))
           g == CHOOSE f : IsPickFold(reviewers, set, files, order, DOMAIN order, f)
<1>2. n \in Nat /\ DOMAIN order = 1..n
  BY FS_CardinalityType DEF SetToSeqs
<1>3. IsPickFold(reviewers, set, files, order, 1..n, g)
  <2>1. \E f : IsPickFold(reviewers, set, files, order, DOMAIN order, f)
    BY <1>2, PickFoldExists
  <2>2. IsPickFold(reviewers, set, files, order, DOMAIN order, g)
    BY <2>1, Zenon
  <2> HIDE DEF g
  <2>3. QED
    BY <1>2, <2>2
<1>4. \E st \in g[1..n] : chosen = st.chosen
  <2>1. \E st \in g[DOMAIN order] : chosen = st.chosen
    BY <1>1, Zenon
  <2> HIDE DEF g
  <2>2. QED
    BY <1>2, <2>1
<1> HIDE DEF g
<1> DEFINE T == {k \in Nat : k <= n => \A st \in g[1..k] : st.chosen \subseteq set}
<1>5. 0 \in T
  <2>1. 1..0 = {} /\ {} \in SUBSET (1..n)
    OBVIOUS
  <2>2. g[{}] = {[covered |-> {}, chosen |-> {}]}
    BY <1>3, <2>1 DEF IsPickFold
  <2>3. QED
    BY <2>1, <2>2
<1>6. ASSUME NEW k \in Nat, k < n, k \in T PROVE k + 1 \in T
  <2>1. \A st \in g[1..k] : st.chosen \subseteq set
    BY <1>2, <1>6
  <2>2. 1..(k+1) \in SUBSET (1..n) /\ k + 1 \in 1..(k+1) /\ (1..(k+1)) \ {k+1} = 1..k
    <3> HIDE DEF n
    <3>1. QED
      BY <1>2, <1>6
  <2>3. Max(1..(k+1)) = k + 1
    BY <2>2, LastPlace
  <2>4. g[1..(k+1)] = OnePathMore(reviewers, set, files, g[1..k], order[k+1])
    BY <1>3, <2>2, <2>3 DEF IsPickFold
  <2>5. \A st \in g[1..(k+1)] : st.chosen \subseteq set
    BY <2>1, <2>4 DEF OnePathMore, PickedAt, Eligible
  <2>6. QED
    BY <2>5
<1> HIDE DEF T
<1>7. n \in T
  BY <1>2, <1>5, <1>6, NatInduct DEF T
<1>8. QED
  BY <1>2, <1>4, <1>7 DEF T

(* ... and there always is somebody.                                       *)
LEMMA SomebodyIsPicked ==
    ASSUME NEW reviewers, NEW set, NEW files, IsFiniteSet(Paths(files)),
           NEW picked \in PicksFrom(reviewers, set, files)
    PROVE  picked \subseteq set /\ picked # {}
<1>1. PICK chosen \in PreferredPicks(reviewers, set, files) :
         picked \in IF chosen # {} THEN {chosen}
                    ELSE {{p} : p \in NotPreferredOnly(reviewers, set)}
  BY DEF PicksFrom
<1>2. chosen \subseteq set
  BY PickedAreInSet
<1>3. QED
  BY <1>1, <1>2 DEF NotPreferredOnly

(* Two people from two groups that have nobody in common are asked to      *)
(* review any change of code.                                              *)
LEMMA TwoAreAsked ==
    ASSUME NEW c, NEW e, NEW files, IsFiniteSet(Paths(files)),
           NEW asked \in CodeReviewers(c, e, files)
    PROVE  \E sets \in CodeReviewerSets(c, e) :
              /\ asked \subseteq sets[1] \cup sets[2]
              /\ \E p \in sets[1] : p \in asked
              /\ \E p \in sets[2] : p \in asked
<1>1. PICK sets \in CodeReviewerSets(c, e) :
         \E a \in PicksFrom(RepoReviewers(c, e), sets[1], files),
            b \in PicksFrom(RepoReviewers(c, e), sets[2], files) : asked = a \cup b
  BY DEF CodeReviewers
<1>2. PICK a \in PicksFrom(RepoReviewers(c, e), sets[1], files),
           b \in PicksFrom(RepoReviewers(c, e), sets[2], files) : asked = a \cup b
  BY <1>1
<1>3. a \subseteq sets[1] /\ a # {} /\ b \subseteq sets[2] /\ b # {}
  BY SomebodyIsPicked
<1>4. QED
  BY <1>2, <1>3

(* Everybody who is asked is on one of the lists of the reviewers file.    *)
LEMMA AskedAreListed ==
    ASSUME NEW c, NEW e, NEW files, IsFiniteSet(Paths(files)), NEW asked \in Get(c, e, files)
    PROVE  asked \subseteq c.admins \cup c.docs \cup DOMAIN RepoReviewers(c, e)
<1> DEFINE all == c.admins \cup c.docs \cup DOMAIN RepoReviewers(c, e)
           docs == DocsReviewers(c, e, files)
<1>1. docs[1] \subseteq all /\ docs[2] \subseteq all
  BY DEF DocsReviewers, AllPreferred, AdminReviewers
<1>2. \A sets \in CodeReviewerSets(c, e) : sets[1] \subseteq all /\ sets[2] \subseteq all
  BY DEF CodeReviewerSets, Owners, Others, AdminReviewers, kSubset
<1>3. \A r \in CodeReviewers(c, e, files) : r \subseteq all
  BY <1>2, TwoAreAsked
<1>4. AdminReviewers(c, e.author) \subseteq all
  BY DEF AdminReviewers
<1> HIDE DEF docs, all
<1>5. asked \subseteq all
  BY <1>1, <1>3, <1>4 DEF Get, docs
<1>6. QED
  BY <1>5 DEF all

(* AskedSuffice: a change of code that is neither large nor a release      *)
(* passes once all have approved whom Assign asks, whoever these are and   *)
(* whoever else has reviewed it (review.go:240-335 against 472-571).       *)
THEOREM AskedSuffice ==
    ASSUME NEW c, NEW e, NEW files, IsFiniteSet(Paths(files)),
           NEW asked \in Get(c, e, files),
           ClassifyChanges(e, files).code,
           ~ClassifyChanges(e, files).large,
           ~ClassifyChanges(e, files).release,
           NEW reviews, Listed(reviews), asked \subseteq Approvers(reviews)
    PROVE  ReviewsSuffice(c, e, reviews, files)
<1> DEFINE ch == ClassifyChanges(e, files)
           docs == DocsReviewers(c, e, files)
           reviewers == RepoReviewers(c, e)
           owners == Owners(reviewers, e.author, {})
           others == Others(reviewers, e.author, {})
           admins == AdminCheckers(c, e.author)
           Approved(S) == \E p \in S : p \in Approvers(reviews)
<1>1. PICK r \in CodeReviewers(c, e, files) : r \subseteq asked
  BY DEF Get
<1>2. PICK sets \in CodeReviewerSets(c, e) :
         Approved(sets[1]) /\ Approved(sets[2])
  BY <1>1, TwoAreAsked
<1>3. \A S : /\ CheckN(S, reviews) \in Nat
             /\ CheckN(S, reviews) >= 1 <=> Approved(S)
             /\ CheckN(S, reviews) >= 2 <=>
                   \E p, q \in S : p # q /\ p \in Approvers(reviews) /\ q \in Approvers(reviews)
  BY CheckNCounts
<1>4. CASE IsInternal(c, e.author)
  <2>1. /\ sets[1] \subseteq owners
        /\ sets[2] \subseteq others
    BY <1>2, <1>4 DEF CodeReviewerSets, Owners, Others
  <2>2. CheckN(owners, reviews) >= 1 /\ CheckN(others, reviews) >= 1
    BY <1>2, <1>3, <2>1
  <2>3. ch.approverCount \in {1, 2}
    BY DEF ClassifyChanges, ApproverCount, DefaultApproverCount
  <2>4. /\ CheckN(owners, reviews) \in Nat /\ CheckN(others, reviews) \in Nat
        /\ CheckN(docs[1], reviews) \in Nat /\ CheckN(docs[2], reviews) \in Nat
    BY <1>3
  <2> HIDE DEF ch, docs, owners, others
  <2>5. CheckInternalReviews(c, e, ch, reviews, files)
    BY <2>2, <2>3, <2>4, SMT DEF CheckInternalReviews, docs, owners, others
  <2>6. ch.code /\ ~ch.large /\ ~ch.release
    BY DEF ch
  <2>7. CheckInternal(c, e, reviews, ch, files)
    BY <2>5, <2>6 DEF CheckInternal
  <2>8. QED
    BY <1>4, <2>7 DEF ReviewsSuffice, IsInternalAuthor, ch
<1>5. CASE ~IsInternal(c, e.author)
  <2>1. /\ sets[1] \subseteq admins /\ sets[2] \subseteq admins
        /\ sets[1] \cap sets[2] = {}
    BY <1>2, <1>5 DEF CodeReviewerSets, AdminReviewers, AdminCheckers, kSubset
  <2>2. CheckN(admins, reviews) >= 2 /\ CheckN(admins, reviews) \in Nat
    BY <1>2, <1>3, <2>1
  <2> HIDE DEF admins
  <2>3. HasApproval(admins, reviews) /\ CheckN(admins, reviews) > 1
    BY <2>2 DEF HasApproval
  <2>4. QED
    BY <2>3 DEF ReviewsSuffice, CheckInternal, CheckExternal, admins
<1>6. QED
  BY <1>4, <1>5

============================================================================
