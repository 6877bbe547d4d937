------------------------------- MODULE BotProofs -------------------------------
(* The bot's programs, for any pull requests: the order of migrations, the    *)
(* growth of binaries, the redirects of documentation, lists that are read    *)
(* page by page, and the comments on backports.                                      *)
EXTENDS Migrations, BloatCheck, DocsRedirects, Paging, Backport,
        FiniteSetTheorems, SequenceTheorems, WellFoundedInduction, TLAPS

(* Migrations.                                                                *)
MigrationsTypeOK ==
  /\ looking \in [Change -> 0..Len(Directories)]
  /\ saw = [p \in Change |-> [n \in DOMAIN Directories |-> saw[p][n]]]
  /\ verdict \in [Change -> {"none", "passed", "failed"}]

(* What the latest check read of a directory let the pull request pass.       *)
Checked(p, n) == saw[p][n] = {} \/ DirectoryPasses(p, Directories[n], saw[p][n])

CheckedSoFar ==
  \A p \in Change :
    /\ \A n \in DOMAIN Directories : n < looking[p] => Checked(p, n)
    /\ verdict[p] = "passed" => looking[p] = 0 /\ \A n \in DOMAIN Directories : Checked(p, n)

MigrationsInv == MigrationsTypeOK /\ CheckedSoFar

LEMMA DirectoriesCounted ==
  /\ Len(Directories) \in Nat \ {0}
  /\ DOMAIN Directories = 1..Len(Directories)
BY DirectoriesListed

(* A directory by itself is judged as it is within the branch.                *)
LEMMA JudgedAlone ==
  ASSUME NEW p, NEW d, NEW files, DirectoryPasses(p, d, files)
  PROVE  DirectoryPasses(p, d, In(files, d))
<1>1. IDs(In(files, d), d) = IDs(files, d)
  BY DEF IDs, In
<1>2. QED
  BY <1>1 DEF DirectoryPasses, Unreadable

LEMMA MigrationsInitInv == MigrationsInit => MigrationsInv
BY DirectoriesCounted DEF MigrationsInit, MigrationsInv, MigrationsTypeOK, CheckedSoFar

LEMMA MigrationsStepInv == MigrationsInv /\ [MigrationsNext]_migrationVars => MigrationsInv'
<1> SUFFICES ASSUME MigrationsInv, [MigrationsNext]_migrationVars PROVE MigrationsInv'
  OBVIOUS
<1> USE DirectoriesCounted DEF MigrationsInv
<1>1. CASE UNCHANGED migrationVars
  BY <1>1 DEF migrationVars, MigrationsTypeOK, CheckedSoFar, Checked
<1>2. ASSUME NEW p \in Change, VerifyDBMigrations(p) PROVE MigrationsInv'
  BY <1>2 DEF VerifyDBMigrations, MigrationsTypeOK, CheckedSoFar, Checked
<1>3. ASSUME NEW p \in Change, MergeChange(p) PROVE MigrationsInv'
  BY <1>3 DEF MergeChange, MigrationsTypeOK, CheckedSoFar, Checked
<1>4. ASSUME NEW p \in Change, VerifyDBMigration(p) PROVE MigrationsInv'
  <2>2. PICK n \in DOMAIN Directories : n = looking[p]
    BY <1>4 DEF VerifyDBMigration, MigrationsTypeOK
  <2> DEFINE d == Directories[n]
             last == n = Len(Directories)
             read(answer) == IF answer = "list" THEN In(base, d) ELSE {}
             passes(answer) == \/ answer = "list" /\ DirectoryPasses(p, d, base)
                               \/ answer = "cut" /\ ~Unreadable(Added(p), d)
  <2>1. PICK answer \in {"list", "cut", "error"} :
          /\ saw' = [saw EXCEPT ![p][n] = read(answer)]
          /\ looking' = [looking EXCEPT ![p] = IF passes(answer) /\ ~last THEN n + 1 ELSE 0]
          /\ verdict' = [verdict EXCEPT ![p] = IF ~passes(answer) THEN "failed"
                                               ELSE IF last THEN "passed" ELSE @]
    BY <1>4, <2>2 DEF VerifyDBMigration
  <2>3. passes(answer) => read(answer) = {} \/ DirectoryPasses(p, d, read(answer))
    BY JudgedAlone
  <2> DEFINE ok == passes(answer)
             gave == read(answer)
  <2>4. /\ saw' = [saw EXCEPT ![p][n] = gave]
        /\ looking' = [looking EXCEPT ![p] = IF ok /\ ~last THEN n + 1 ELSE 0]
        /\ verdict' = [verdict EXCEPT ![p] = IF ~ok THEN "failed"
                                             ELSE IF last THEN "passed" ELSE @]
        /\ ok => gave = {} \/ DirectoryPasses(p, d, gave)
    BY <2>1, <2>3
  <2> HIDE DEF ok, gave
  <2>5. MigrationsTypeOK'
    <3>1. looking' \in [Change -> 0..Len(Directories)]
      BY <2>2, <2>4 DEF MigrationsTypeOK
    <3>2. verdict' \in [Change -> {"none", "passed", "failed"}]
      BY <2>4 DEF MigrationsTypeOK
    <3>3. saw' = [q \in Change |-> [m \in DOMAIN Directories |-> saw'[q][m]]]
      BY <2>2, <2>4 DEF MigrationsTypeOK
    <3>4. QED
      BY <3>1, <3>2, <3>3 DEF MigrationsTypeOK
  <2>6. saw'[p][n] = gave /\ \A m \in DOMAIN Directories : m # n => saw'[p][m] = saw[p][m]
    BY <2>2, <2>4 DEF MigrationsTypeOK
  <2>7. \A m \in DOMAIN Directories : m < n => Checked(p, m)'
    BY <2>2, <2>6 DEF CheckedSoFar, Checked
  <2>8. ok => Checked(p, n)'
    <3>1. Checked(p, n)' <=> saw'[p][n] = {} \/ DirectoryPasses(p, d, saw'[p][n])
      BY DEF Checked, DirectoryPasses, Unreadable, IDs, In, Added, Late
    <3>2. QED
      BY <2>4, <2>6, <3>1
  <2>9. \A q \in Change \ {p} : /\ looking'[q] = looking[q] /\ verdict'[q] = verdict[q]
                                /\ saw'[q] = saw[q]
    BY <2>4 DEF MigrationsTypeOK
  <2>10. ASSUME NEW q \in Change \ {p}
         PROVE  /\ \A m \in DOMAIN Directories : m < looking'[q] => Checked(q, m)'
                /\ verdict'[q] = "passed" =>
                     looking'[q] = 0 /\ \A m \in DOMAIN Directories : Checked(q, m)'
    BY <2>9 DEF CheckedSoFar, Checked
  <2>11. ASSUME NEW m \in DOMAIN Directories, m < looking'[p] PROVE Checked(p, m)'
    <3>1. looking'[p] = IF ok /\ ~last THEN n + 1 ELSE 0
      BY <2>4 DEF MigrationsTypeOK
    <3>2. ok /\ (m < n \/ m = n)
      BY <2>2, <2>11, <3>1
    <3>3. QED
      BY <2>7, <2>8, <3>2
  <2>12. verdict'[p] = "passed" =>
           looking'[p] = 0 /\ \A m \in DOMAIN Directories : Checked(p, m)'
    <3>1. verdict[p] # "passed"
      BY <1>4 DEF VerifyDBMigration, CheckedSoFar
    <3>2. verdict'[p] = "passed" => ok /\ last
      BY <2>4, <3>1 DEF MigrationsTypeOK
    <3>3. looking'[p] = IF ok /\ ~last THEN n + 1 ELSE 0
      BY <2>4 DEF MigrationsTypeOK
    <3>4. last => \A m \in DOMAIN Directories : m < n \/ m = n
      BY <2>2
    <3>5. QED
      BY <2>7, <2>8, <3>2, <3>3, <3>4
  <2>13. CheckedSoFar'
    BY <2>10, <2>11, <2>12 DEF CheckedSoFar
  <2>14. QED
    BY <2>5, <2>13
<1>5. QED
  BY <1>1, <1>2, <1>3, <1>4 DEF MigrationsNext

(* A merge is in order in each directory that is as the check read it, for    *)
(* any pull requests that are checked and merged between its steps (verify.go *)
(* verifyDBMigration).                                                        *)
THEOREM MergedInOrder == MigrationsSpec => AddedInOrder
<1> DEFINE InOrder ==
      \A p \in merged' \ merged : \A n \in DOMAIN Directories :
        LET d == Directories[n]
        IN  In(base, d) = saw[p][n] =>
              \A new \in Applied(base', d) \ Applied(base, d), old \in Applied(base, d) :
                new > old
<1>1. MigrationsInv /\ [MigrationsNext]_migrationVars => [InOrder]_migrationVars
  <2> SUFFICES ASSUME MigrationsInv, MigrationsNext,
                      NEW p \in merged' \ merged, NEW n \in DOMAIN Directories,
                      In(base, Directories[n]) = saw[p][n],
                      NEW new \in Applied(base', Directories[n]) \ Applied(base, Directories[n]),
                      NEW old \in Applied(base, Directories[n])
               PROVE  new > old
    OBVIOUS
  <2> DEFINE d == Directories[n]
  <2>1. p \in Change /\ MergeChange(p)
    BY DEF MigrationsNext, VerifyDBMigrations, VerifyDBMigration, MergeChange
  <2>2. Checked(p, n)
    BY <2>1 DEF MergeChange, MigrationsInv, CheckedSoFar
  <2>3. old \in IDs(saw[p][n], d)
    BY DEF Applied, IDs, In
  <2>4. new \in IDs(Added(p), d)
    BY <2>1 DEF MergeChange, Applied, IDs, In, Added
  <2>5. DirectoryPasses(p, d, saw[p][n])
    BY <2>2, <2>3 DEF Checked, IDs, In
  <2>6. Late(IDs(Added(p), d), IDs(saw[p][n], d))
    BY <2>3, <2>4, <2>5 DEF DirectoryPasses
  <2>7. QED
    BY <2>3, <2>4, <2>6 DEF Late
<1>2. QED
  BY <1>1, MigrationsInitInv, MigrationsStepInv, PTL DEF MigrationsSpec, AddedInOrder

--------------------------------------------------------------------------------
(* The sizes of binaries.  What comments may be.                              *)
Comments ==
  [number : Nat, author : Person, items : SUBSET Artifact, original : SUBSET Artifact,
   edited : BOOLEAN, createdAt : Nat, updatedAt : Nat]

(* A comment that nobody has edited says what its author wrote.               *)
BloatInv ==
  /\ moment \in Nat
  /\ posts \subseteq Comments /\ IsFiniteSet(posts)
  /\ build \in [Artifact -> Builds]
  /\ bloat \in {"none", "passed", "failed"}
  /\ \A c \in posts : c.edited \/ c.items = c.original
  /\ BloatNeedsAnAdmin

(* Cutting to megabytes hides growth of less than a megabyte, and shows none  *)
(* that is less than what it shows by a megabyte or more.                     *)
LEMMA GrowthSeen ==
  ASSUME NEW a \in Artifact, build \in [Artifact -> Builds]
  PROVE  /\ Growth(a) >= (ErrorThreshold + 1) * MB => Bloated(a)
         /\ Bloated(a) => Growth(a) > ErrorThreshold * MB
<1> DEFINE old == build[a][1]
           new == build[a][2]
<1>1. old \in Nat /\ new \in Nat
  BY SizesAssumption
<1>2. /\ old \div MB \in Int /\ new \div MB \in Int
      /\ (old \div MB) * MB <= old /\ old < (old \div MB) * MB + MB
      /\ (new \div MB) * MB <= new /\ new < (new \div MB) * MB + MB
  BY <1>1, SizesAssumption
<1>3. ASSUME NEW m \in Int, NEW n \in Int, n - m > ErrorThreshold
      PROVE  n * MB >= m * MB + (ErrorThreshold + 1) * MB
  BY <1>3, SizesAssumption
<1>4. ASSUME NEW m \in Int, NEW n \in Int, n - m <= ErrorThreshold
      PROVE  n * MB <= m * MB + ErrorThreshold * MB
  BY <1>4, SizesAssumption
<1>5. (ErrorThreshold + 1) * MB = ErrorThreshold * MB + MB /\ ErrorThreshold * MB \in Int
  BY SizesAssumption
<1> HIDE DEF old, new
<1>6. new - old >= (ErrorThreshold + 1) * MB => new \div MB - old \div MB > ErrorThreshold
  BY <1>1, <1>2, <1>4, <1>5, SizesAssumption
<1>7. new \div MB - old \div MB > ErrorThreshold => new - old > ErrorThreshold * MB
  BY <1>1, <1>2, <1>3, <1>5, SizesAssumption
<1>8. QED
  BY <1>6, <1>7 DEF old, new, Growth, Bloated, CalculateChange

LEMMA SkippedAreExempted ==
  ASSUME BloatInv, NEW a \in SkipItems
  PROVE  Exempted(a)
BY DEF BloatInv, SkipItems, CountsForSkipping, AdminCheckers, Exempted, Comments

LEMMA BloatStepInv == BloatInv /\ [BloatNext]_bloatVars => BloatInv'
<1> SUFFICES ASSUME BloatInv, [BloatNext]_bloatVars PROVE BloatInv'
  OBVIOUS
<1> USE DEF BloatInv
<1>1. CASE UNCHANGED bloatVars
  BY <1>1 DEF bloatVars, BloatNeedsAnAdmin, Exempted, Growth
<1>2. ASSUME NEW items \in SUBSET Artifact, NEW p \in Person, PostComment(p, items)
      PROVE  BloatInv'
  <2> DEFINE new == [number |-> Cardinality(posts) + 1, author |-> p,
                     items |-> items, original |-> items, edited |-> FALSE,
                     createdAt |-> moment, updatedAt |-> moment]
  <2>1. new \in Comments
    BY FS_CardinalityType DEF Comments
  <2>2. posts' = posts \cup {new} /\ IsFiniteSet(posts')
    BY <1>2, FS_AddElement DEF PostComment
  <2>3. new.items = new.original
    OBVIOUS
  <2> HIDE DEF new
  <2>4. QED
    BY <1>2, <2>1, <2>2, <2>3 DEF PostComment, BloatNeedsAnAdmin
<1>3. ASSUME NEW items \in SUBSET Artifact, NEW c \in posts, EditComment(c, items)
      PROVE  BloatInv'
  <2> DEFINE new == [c EXCEPT !.items = items, !.edited = TRUE, !.updatedAt = moment]
  <2>1. new \in Comments /\ new.edited
    BY DEF Comments
  <2>2. posts' = (posts \ {c}) \cup {new} /\ IsFiniteSet(posts')
    BY <1>3, FS_AddElement, FS_RemoveElement DEF EditComment
  <2> HIDE DEF new
  <2>3. QED
    BY <1>3, <2>1, <2>2 DEF EditComment, BloatNeedsAnAdmin
<1>4. CASE Later
  BY <1>4 DEF Later, BloatNeedsAnAdmin
<1>5. CASE RunBloatCheck
  <2>1. bloat' = "passed" => \A a \in Artifact : ~Bloated(a) \/ Exempted(a)
    BY <1>5, SkippedAreExempted DEF RunBloatCheck
  <2>2. bloat' = "failed" => \E a \in Artifact : Bloated(a)
    BY <1>5 DEF RunBloatCheck
  <2>3. BloatNeedsAnAdmin'
    BY <1>5, <2>1, <2>2, GrowthSeen DEF RunBloatCheck, BloatNeedsAnAdmin, Exempted, Growth
  <2>4. QED
    BY <1>5, <2>3 DEF RunBloatCheck
<1>6. QED
  BY <1>1, <1>2, <1>3, <1>4, <1>5 DEF BloatNext

(* A pull request passes with a binary that grew by a megabyte over the       *)
(* threshold only by the word of an administrator other than its author, for  *)
(* any people, binaries, sizes and threshold (bloat.go, skip.go).             *)
THEOREM BloatIsExempted == BloatSpec => []BloatNeedsAnAdmin
<1>1. BloatInit => BloatInv
  BY FS_EmptySet DEF BloatInit, BloatInv, BloatNeedsAnAdmin
<1>2. BloatInv => BloatNeedsAnAdmin
  BY DEF BloatInv
<1>3. QED
  BY <1>1, <1>2, BloatStepInv, PTL DEF BloatSpec

--------------------------------------------------------------------------------
(* Redirects.  What the check has found is of the pull request as it is.      *)
DocsInv ==
  /\ changes \in Listing(before, after)
  /\ reports \subseteq {MissingRedirectSources(redirects, changes)}

(* git accounts for every file that is gone, and for those that came.         *)
GoneListed ==
  \A f \in before \ after :
    \E c \in changes : c.previous = f /\ c.status \in {"removed", "renamed"}
                        /\ (c.status = "removed" => c.name = f)
NewListed ==
  \A c \in changes : c.status \in {"added", "renamed"} => c.name \in after

LEMMA ListedRight == changes \in Listing(before, after) => GoneListed /\ NewListed
<1> SUFFICES ASSUME changes \in Listing(before, after) PROVE GoneListed /\ NewListed
  OBVIOUS
<1> DEFINE gone == before \ after
           come == after \ before
           Pair(s, n, p) == [status |-> s, name |-> n, previous |-> p]
           Changes(R) ==
             {Pair("renamed", pair[2], pair[1]) : pair \in R}
        \cup {Pair("removed", f, f) : f \in gone \ {pair[1] : pair \in R}}
        \cup {Pair("added", f, f) : f \in come \ {pair[2] : pair \in R}}
        \cup {Pair("modified", f, f) : f \in before \cap after}
<1>1. PICK R \in SUBSET (gone \X come) : changes = Changes(R)
  BY DEF Listing
<1>2. GoneListed
  <2> SUFFICES ASSUME NEW f \in gone
      PROVE \E c \in changes : c.previous = f /\ c.status \in {"removed", "renamed"}
                        /\ (c.status = "removed" => c.name = f)
    BY DEF GoneListed
  <2>1. CASE f \in {pair[1] : pair \in R}
    <3>1. PICK pair \in R : f = pair[1]
      BY <2>1
    <3>2. Pair("renamed", pair[2], pair[1]) \in changes
      BY <1>1
    <3>3. QED
      BY <3>1, <3>2
  <2>2. CASE f \notin {pair[1] : pair \in R}
    <3>1. Pair("removed", f, f) \in changes
      BY <1>1, <2>2
    <3>2. QED
      BY <3>1
  <2>3. QED
    BY <2>1, <2>2
<1>3. NewListed
  BY <1>1 DEF NewListed
<1>4. QED
  BY <1>2, <1>3

(* No page goes without a redirect or another page in its place, whatever git *)
(* makes of the files that went and those that came, for any files and        *)
(* redirects (docpaths.go).                                                   *)
THEOREM RedirectsFound == DocsSpec => []RedirectsSuffice
<1>1. DocsInit => DocsInv
  BY DEF DocsInit, DocsInv
<1>2. DocsInv /\ [DocsNext]_docsVars => DocsInv'
  BY DEF DocsInv, DocsNext, CheckDocsPaths, docsVars
<1>3. DocsInv => RedirectsSuffice
  <2> SUFFICES ASSUME DocsInv, {} \in reports, NEW f \in before \ after, IsPage(f), ~LeftTheDocs(f),
                      \A g \in before \cup after : ToURLPath(g) = ServedAt(g)
               PROVE  ServedAt(f) \in redirects \cup {ServedAt(g) : g \in after}
    BY DEF RedirectsSuffice
  <2>1. MissingRedirectSources(redirects, changes) = {} /\ GoneListed /\ NewListed
    BY ListedRight DEF DocsInv
  <2>2. PICK c \in changes : c.previous = f /\ c.status \in {"removed", "renamed"}
                            /\ (c.status = "removed" => c.name = f)
    BY <2>1 DEF GoneListed
  <2>3. HasDocsPrefix(c.name) /\ ~HasIncludeSegment(c.name)
    <3>1. CASE c.status = "removed"
      BY <2>2, <3>1 DEF IsPage
    <3>2. CASE c.status = "renamed"
      BY <2>2, <3>2 DEF LeftTheDocs, IsPage
    <3>3. QED
      BY <2>2, <3>1, <3>2
  <2>4. ToURLPath(f) \in Filenames(changes) \cup redirects
    BY <2>1, <2>2, <2>3 DEF MissingRedirectSources
  <2>5. \A p \in Filenames(changes) : \E g \in after : p = ToURLPath(g)
    BY <2>1 DEF Filenames, NewListed
  <2>6. QED
    BY <2>4, <2>5
<1>4. QED
  BY <1>1, <1>2, <1>3, PTL DEF DocsSpec

--------------------------------------------------------------------------------
(* Lists that are read page by page.                                          *)

(* The inductive invariant: while the loop runs, an entry that has stayed on a*)
(* list from which nothing was deleted has been read or is listed beyond the  *)
(* pages that were read.  Growth at the front can only move it further back.  *)
Read == Range(got)
Beyond(n) == {list[k] : k \in {i \in DOMAIN list : i > (n - 1) * PageSize}}
NoneSkipped ==
  ~shrunk /\ ~loop.onePage =>
    stayed \subseteq IF page = 0 THEN Read ELSE Read \cup Beyond(page)
PagingTypes ==
  /\ page \in Nat /\ loop \in Loops
  /\ list \in Seq(Entry) /\ got \in Seq(Entry)
PagingInv ==
  /\ PagingTypes
  /\ NoneSkipped
  /\ page = 0 /\ loop.sorted => Rising(got)

(* Sorting loses no entry and adds none.                                      *)
LEMMA SortedKeeps ==
  ASSUME NEW s \in Seq(Entry), NEW t \in Sorted(s)
  PROVE  t \in Seq(Entry) /\ Range(t) = Range(s) /\ Rising(t)
<1>1. PICK p \in Bijection(DOMAIN s, DOMAIN s) : t = [n \in DOMAIN s |-> s[p[n]]]
  BY DEF Sorted
<1>2. p \in [DOMAIN s -> DOMAIN s] /\ \A k \in DOMAIN s : \E n \in DOMAIN s : p[n] = k
  BY <1>1 DEF Bijection, Injection, Surjection
<1>3. DOMAIN s = 1 .. Len(s) /\ Len(s) \in Nat /\ \A n \in DOMAIN s : s[n] \in Entry
  OBVIOUS
<1>4. \A n \in DOMAIN s : t[n] = s[p[n]] /\ t[n] \in Entry
  BY <1>1, <1>2, <1>3
<1>5. DOMAIN t = 1 .. Len(s)
  BY <1>1, <1>3
<1>6. t \in [1 .. Len(s) -> Entry]
  BY <1>1, <1>3, <1>4, <1>5
<1>7. t \in Seq(Entry)
  BY <1>3, <1>6
<1>8. Range(t) = Range(s)
  BY <1>2, <1>3, <1>4, <1>5 DEF Range
<1> QED
  BY <1>7, <1>8 DEF Sorted

(* A page is made of the entries of its places.                               *)
LEMMA PageHas ==
  ASSUME NEW q \in Seq(Entry), NEW a \in Nat, NEW b \in Nat
  PROVE  /\ SubSeq(q, a + 1, Min({b, Len(q)})) \in Seq(Entry)
         /\ \A k \in DOMAIN q : k > a /\ k <= b =>
              q[k] \in Range(SubSeq(q, a + 1, Min({b, Len(q)})))
<1>1. PICK z : z = Min({b, Len(q)})
  OBVIOUS
<1>2. z \in {b, Len(q)} /\ z <= b /\ z <= Len(q)
  <2>1. Len(q) \in Nat
    OBVIOUS
  <2>2. \E x \in {b, Len(q)} : \A y \in {b, Len(q)} : x <= y
    BY <2>1
  <2> QED
    BY <1>1, <2>2, Zenon DEF Min
<1>3. Len(q) \in Nat /\ z \in Nat
  BY <1>2
<1>4. DOMAIN q = 1 .. Len(q) /\ \A k \in 1 .. Len(q) : q[k] \in Entry
  OBVIOUS
<1>5. /\ SubSeq(q, a + 1, z) \in Seq(Entry)
      /\ Len(SubSeq(q, a + 1, z)) = IF a + 1 <= z THEN z - (a + 1) + 1 ELSE 0
      /\ \A i \in 1 .. z - (a + 1) + 1 : SubSeq(q, a + 1, z)[i] = q[a + 1 + i - 1]
  <2>1. a + 1 \in Int /\ z \in Int /\ z <= Len(q)
    BY <1>2, <1>3
  <2>2. \A i \in a + 1 .. z : i \in 1 .. Len(q)
    BY <1>3, <2>1
  <2>3. \A i \in a + 1 .. z : q[i] \in Entry
    BY <1>4, <2>2
  <2> QED
    BY <2>1, <2>3, SubSeqProperties
<1>6. ASSUME NEW k \in DOMAIN q, k > a, k <= b
      PROVE  q[k] \in Range(SubSeq(q, a + 1, z))
  <2>1. k \in Nat /\ k <= Len(q)
    BY <1>4
  <2>2. k <= z
    BY <1>2, <1>6, <2>1
  <2>3. k - a \in 1 .. z - (a + 1) + 1 /\ a + 1 <= z /\ a + 1 + (k - a) - 1 = k
    BY <1>3, <1>6, <2>1, <2>2
  <2>4. SubSeq(q, a + 1, z)[k - a] = q[k]
    BY <1>5, <2>3
  <2>5. k - a \in DOMAIN SubSeq(q, a + 1, z)
    BY <1>3, <1>5, <2>3
  <2> QED
    BY <2>4, <2>5 DEF Range
<1> QED
  BY <1>1, <1>5, <1>6

(* Of two lists put together, nothing is lost.                                *)
LEMMA BothParts ==
  ASSUME NEW s \in Seq(Entry), NEW t \in Seq(Entry)
  PROVE  /\ s \o t \in Seq(Entry)
         /\ Range(s) \subseteq Range(s \o t)
         /\ Range(t) \subseteq Range(s \o t)
<1>1. s \o t \in Seq(Entry) /\ DOMAIN (s \o t) = 1 .. (Len(s) + Len(t))
  OBVIOUS
<1>2. \A i \in DOMAIN s : i \in DOMAIN (s \o t) /\ (s \o t)[i] = s[i]
  BY <1>1
<1>3. \A i \in DOMAIN t : Len(s) + i \in DOMAIN (s \o t) /\ (s \o t)[Len(s) + i] = t[i]
  BY <1>1
<1> QED
  BY <1>1, <1>2, <1>3 DEF Range

LEMMA PagingStarts == PagingInit => PagingInv
<1> SUFFICES ASSUME PagingInit
             PROVE  PagingInv
  OBVIOUS
<1>1. PICK S \in SUBSET Entry : IsFiniteSet(S) /\ list \in [1 .. Cardinality(S) -> S]
  BY DEF PagingInit
<1>2. Cardinality(S) \in Nat
  BY <1>1, FS_CardinalityType
<1>3. list \in Seq(Entry)
  BY <1>1, <1>2
<1>4. \A i \in DOMAIN list : i > 0
  BY <1>1, <1>2
<1>5. (1 - 1) * PageSize = 0
  BY PagingAssumption
<1>6. Range(list) \subseteq Beyond(1)
  BY <1>4, <1>5 DEF Range, Beyond
<1> QED
  BY <1>3, <1>6 DEF PagingInv, PagingTypes, NoneSkipped, PagingInit

LEMMA PageKeeps ==
  ASSUME PagingInv, FetchPage
  PROVE  PagingInv'
<1> DEFINE more == MorePages(page) /\ ~loop.onePage
<1>1. PICK n \in Nat : n = page /\ n # 0
  BY DEF PagingInv, PagingTypes, FetchPage
<1>2. PICK a \in Nat, b \in Nat : a = (n - 1) * PageSize /\ b = n * PageSize
  BY <1>1, PagingAssumption
<1>3. PICK pg : pg = PageOf(n)
  OBVIOUS
<1>4. /\ pg \in Seq(Entry)
      /\ \A k \in DOMAIN list : k > a /\ k <= b => list[k] \in Range(pg)
  <2>1. list \in Seq(Entry)
    BY DEF PagingInv, PagingTypes
  <2>2. pg = SubSeq(list, a + 1, Min({b, Len(list)}))
    BY <1>2, <1>3 DEF PageOf
  <2> QED
    BY <2>1, <2>2, PageHas
<1>5. PICK all : all = got \o pg
  OBVIOUS
<1>6. all \in Seq(Entry) /\ Range(got) \subseteq Range(all) /\ Range(pg) \subseteq Range(all)
  BY <1>4, <1>5, BothParts DEF PagingInv, PagingTypes
<1>7. /\ page' = IF more THEN n + 1 ELSE 0
      /\ got' \in IF ~more /\ loop.sorted THEN Sorted(all) ELSE {all}
      /\ UNCHANGED <<loop, list, stayed, shrunk>>
  BY <1>1, <1>3, <1>5 DEF FetchPage
<1>8. /\ got' \in Seq(Entry) /\ Range(got') = Range(all)
      /\ ~more /\ loop.sorted => Rising(got')
  BY <1>6, <1>7, SortedKeeps
<1>9. PagingTypes'
  BY <1>1, <1>7, <1>8 DEF PagingTypes, PagingInv
<1>10. ASSUME ~shrunk, ~loop.onePage, NEW e \in stayed
       PROVE  e \in Range(all) \/ \E k \in DOMAIN list : k > b /\ list[k] = e
  <2>1. e \in Range(got) \/ \E k \in DOMAIN list : k > a /\ list[k] = e
    BY <1>1, <1>2, <1>10 DEF PagingInv, NoneSkipped, Read, Beyond
  <2>2. \A k \in DOMAIN list : k \in Nat
    BY DEF PagingInv, PagingTypes
  <2> QED
    BY <1>2, <1>4, <1>6, <2>1, <2>2
<1>11. NoneSkipped'
  <2> SUFFICES ASSUME ~shrunk, ~loop.onePage, NEW e \in stayed
               PROVE  e \in IF page' = 0 THEN Read' ELSE Read' \cup Beyond(page)'
    BY <1>7 DEF NoneSkipped
  <2>1. CASE more
    <3>1. page' = n + 1 /\ n + 1 # 0 /\ (page' - 1) * PageSize = b
      BY <1>1, <1>2, <1>7, <2>1
    <3> QED
      BY <1>7, <1>8, <1>10, <3>1 DEF Read, Beyond
  <2>2. CASE ~more
    <3>1. page' = 0
      BY <1>7, <2>2
    <3>2. ~(b < Len(list))
      BY <1>1, <1>2, <2>2 DEF MorePages
    <3>3. \A k \in DOMAIN list : ~(k > b)
      BY <1>2, <3>2 DEF PagingInv, PagingTypes
    <3> QED
      BY <1>8, <1>10, <3>1, <3>3 DEF Read
  <2> QED
    BY <2>1, <2>2
<1>12. page' = 0 /\ loop'.sorted => Rising(got')
  <2>1. page' = 0 => ~more
    BY <1>1, <1>7
  <2> QED
    BY <1>7, <1>8, <2>1
<1> QED
  BY <1>9, <1>11, <1>12 DEF PagingInv, Rising

LEMMA GrowthKeeps ==
  ASSUME PagingInv, Grow
  PROVE  PagingInv'
<1>1. PICK e \in Entry : list' \in {<<e>> \o list, Append(list, e)}
  BY DEF Grow
<1>2. list \in Seq(Entry) /\ page \in Nat /\ page # 0
  BY DEF Grow, PagingInv, PagingTypes
<1>3. PICK a \in Nat : a = (page - 1) * PageSize
  BY <1>2, PagingAssumption
<1>4. list' \in Seq(Entry)
  <2>1. <<e>> \in Seq(Entry)
    OBVIOUS
  <2>2. <<e>> \o list \in Seq(Entry) /\ Append(list, e) \in Seq(Entry)
    BY <1>2, <2>1
  <2> QED
    BY <1>1, <2>2
<1>5. \A k \in DOMAIN list : k > a => \E j \in DOMAIN list' : j > a /\ list'[j] = list[k]
  <2> SUFFICES ASSUME NEW k \in DOMAIN list, k > a
               PROVE  \E j \in DOMAIN list' : j > a /\ list'[j] = list[k]
    OBVIOUS
  <2>1. CASE list' = <<e>> \o list
    <3>1. k + 1 \in DOMAIN list' /\ list'[k + 1] = list[k] /\ k + 1 > a
      BY <1>2, <2>1
    <3> QED
      BY <3>1
  <2>2. CASE list' = Append(list, e)
    <3>1. k \in DOMAIN list' /\ list'[k] = list[k]
      BY <1>2, <2>2
    <3> QED
      BY <3>1
  <2> QED
    BY <1>1, <2>1, <2>2
<1>6. UNCHANGED <<loop, page, got, stayed, shrunk>>
  BY DEF Grow
<1>7. Beyond(page) \subseteq Beyond(page)'
  BY <1>3, <1>5, <1>6 DEF Beyond
<1> QED
  BY <1>2, <1>4, <1>6, <1>7 DEF PagingInv, PagingTypes, NoneSkipped, Read, Rising

LEMMA ShrinkingKeeps ==
  ASSUME PagingInv, Shrink
  PROVE  PagingInv'
<1>1. PICK n \in DOMAIN list : list' = RemoveAt(list, n)
  BY DEF Shrink
<1>2. list' = SubSeq(list, 1, n - 1) \o SubSeq(list, n + 1, Len(list))
  BY <1>1 DEF RemoveAt
<1>3. list \in Seq(Entry) /\ n \in 1 .. Len(list)
  BY DEF PagingInv, PagingTypes
<1>4. SubSeq(list, 1, n - 1) \in Seq(Entry) /\ SubSeq(list, n + 1, Len(list)) \in Seq(Entry)
  BY <1>3
<1>5. list' \in Seq(Entry)
  BY <1>2, <1>4
<1> QED
  BY <1>5 DEF Shrink, PagingInv, PagingTypes, NoneSkipped, Rising

(* While nothing is deleted, a loop that reads all pages has, when it ends,   *)
(* every entry that has been on the list since it began, wherever others were *)
(* added; and a loop that sorts has them in order (github.go, ListReviews and *)
(* the other loops over pages).                                               *)
THEOREM ReadInFull == PagingSpec => []ListedInFull
<1>1. PagingInv /\ [PagingNext]_pagingVars => PagingInv'
  <2>1. CASE UNCHANGED pagingVars
    BY <2>1 DEF pagingVars, PagingInv, PagingTypes, NoneSkipped, Read, Beyond, Rising
  <2> QED
    BY <2>1, PageKeeps, GrowthKeeps, ShrinkingKeeps DEF PagingNext
<1>2. PagingInv => ListedInFull
  BY DEF PagingInv, NoneSkipped, Read, ListedInFull
<1> QED
  BY <1>1, <1>2, PagingStarts, PTL DEF PagingSpec

--------------------------------------------------------------------------------
(* Backports.  Natural numbers first.                                         *)

LEMMA LeastOfNaturals ==
    ASSUME NEW S \in SUBSET Nat, S # {}
    PROVE  \E n \in S : \A m \in S : n <= m
<1> DEFINE less == {ss \in Nat \X Nat : ss[1] < ss[2]}
<1>1. IsWellFoundedOn(less, Nat)
  BY NatLessThanWellFounded DEF OpToRel
<1> HIDE DEF less
<1>2. PICK n \in S : \A m \in S : ~(<<m, n>> \in less)
  BY <1>1, WFMin
<1>3. ASSUME NEW m \in S PROVE n <= m
  <2>1. <<m, n>> \notin less
    BY <1>2
  <2>2. m \in Nat /\ n \in Nat
    OBVIOUS
  <2>3. ~(m < n)
    BY <2>1, <2>2 DEF less
  <2>4. QED
    BY <2>2, <2>3
<1>4. QED
  BY <1>3

LEMMA NatInduct ==
    ASSUME NEW n \in Nat, NEW T \in SUBSET Nat, 0 \in T,
           \A k \in Nat : k < n /\ k \in T => k + 1 \in T
    PROVE  n \in T
<1> SUFFICES ASSUME n \notin T PROVE FALSE
  OBVIOUS
<1> DEFINE out == {k \in 0..n : k \notin T}
<1>1. PICK k \in out : \A m \in out : k <= m
  <2>1. n \in out /\ out \in SUBSET Nat
    OBVIOUS
  <2> HIDE DEF out
  <2>2. QED
    BY <2>1, LeastOfNaturals
<1>2. k # 0 /\ k - 1 \in Nat /\ k - 1 < n
  BY <1>1
<1>3. k - 1 \in T
  BY <1>1, <1>2
<1>4. QED
  BY <1>1, <1>2, <1>3

LEMMA MaxIs ==
    ASSUME NEW s, NEW n \in s, \A m \in s : n >= m, s \subseteq Nat
    PROVE  Max(s) = n
<1>1. \E x \in s : \A m \in s : x >= m
  OBVIOUS
<1>2. Max(s) \in s /\ \A m \in s : Max(s) >= m
  BY <1>1, Zenon DEF Max
<1>3. Max(s) \in Nat /\ n \in Nat /\ Max(s) >= n /\ n >= Max(s)
  BY <1>2
<1>4. QED
  BY <1>3

LEMMA LastPlace ==
    ASSUME NEW k \in Nat, NEW s \in SUBSET (1..(k+1))
    PROVE  /\ k + 1 \in s => Max(s) = k + 1 /\ s \ {k + 1} \in SUBSET (1..k)
           /\ k + 1 \notin s => s \in SUBSET (1..k)
<1>1. s \subseteq Nat /\ \A m \in s : k + 1 >= m
  OBVIOUS
<1>2. k + 1 \in s => Max(s) = k + 1
  BY <1>1, MaxIs
<1>3. \A m \in s : m # k + 1 => m \in 1..k
  OBVIOUS
<1>4. QED
  BY <1>2, <1>3

(* One more place of the list in the loop of Only.                            *)
OneMore(S, kept, x) == IF x \in S THEN Append(kept, x) ELSE kept
IsOnlyFold(q, S, places, g) ==
  g = [s \in SUBSET places |->
         IF s = {} THEN <<>> ELSE OneMore(S, g[s \ {Max(s)}], q[Max(s)])]

LEMMA OnlyFolds ==
    ASSUME NEW q, NEW S
    PROVE  Only(q, S) = (CHOOSE g : IsOnlyFold(q, S, DOMAIN q, g))[DOMAIN q]
  BY DEF Only, FoldLeft, MapThenFoldSet, IsOnlyFold, OneMore

LEMMA OnlyFoldExists ==
    ASSUME NEW q, NEW S, NEW n \in Nat
    PROVE  \E g : IsOnlyFold(q, S, 1..n, g)
<1> DEFINE T == {k \in Nat : \E g : IsOnlyFold(q, S, 1..k, g)}
<1>1. 0 \in T
  <2> DEFINE g == [s \in SUBSET (1..0) |-> <<>>]
  <2>1. IsOnlyFold(q, S, 1..0, g)
    BY DEF IsOnlyFold
  <2>2. QED
    BY <2>1
<1>2. ASSUME NEW k \in Nat, k \in T PROVE k + 1 \in T
  <2>1. PICK g : IsOnlyFold(q, S, 1..k, g)
    BY <1>2
  <2> DEFINE h == [s \in SUBSET (1..(k+1)) |->
                     IF k + 1 \in s THEN OneMore(S, g[s \ {k + 1}], q[k + 1]) ELSE g[s]]
  <2>2. ASSUME NEW s \in SUBSET (1..(k+1))
        PROVE  h[s] = IF s = {} THEN <<>> ELSE OneMore(S, h[s \ {Max(s)}], q[Max(s)])
    <3>1. CASE k + 1 \in s
      <4>1. Max(s) = k + 1 /\ s \ {k + 1} \in SUBSET (1..k)
        BY <3>1, LastPlace
      <4>2. h[s \ {k + 1}] = g[s \ {k + 1}]
        BY <4>1
      <4>3. h[s] = OneMore(S, g[s \ {k + 1}], q[k + 1])
        BY <3>1
      <4> HIDE DEF h
      <4>4. QED
        BY <3>1, <4>1, <4>2, <4>3
    <3>2. CASE k + 1 \notin s
      <4>1. s \in SUBSET (1..k) /\ s \ {Max(s)} \in SUBSET (1..k)
        BY <3>2, LastPlace
      <4>2. h[s] = g[s] /\ h[s \ {Max(s)}] = g[s \ {Max(s)}]
        BY <3>2, <4>1
      <4> HIDE DEF h
      <4>3. QED
        BY <2>1, <4>1, <4>2 DEF IsOnlyFold
    <3>3. QED
      BY <3>1, <3>2
  <2>3. h = [s \in SUBSET (1..(k+1)) |-> h[s]]
    OBVIOUS
  <2> HIDE DEF h
  <2>4. IsOnlyFold(q, S, 1..(k+1), h)
    BY <2>2, <2>3 DEF IsOnlyFold
  <2>5. QED
    BY <2>4
<1> HIDE DEF T
<1>3. n \in T
  BY <1>1, <1>2, NatInduct DEF T
<1>4. QED
  BY <1>3 DEF T

(* What is kept after k places of the list.                                   *)
Distinct(q) == \A m, n \in DOMAIN q : q[m] = q[n] => m = n
KeptSoFar(q, S, t, k) ==
  /\ t \in Seq(Range(q))
  /\ \A n \in DOMAIN t : t[n] \in S /\ \E i \in 1..k : t[n] = q[i]
  /\ \A i \in 1..k : q[i] \in S => \E n \in DOMAIN t : t[n] = q[i]
  /\ Distinct(q) => Distinct(t)

LEMMA OneMoreKept ==
    ASSUME NEW q, q \in Seq(Range(q)), NEW S, NEW k \in Nat, k < Len(q),
           NEW t, KeptSoFar(q, S, t, k)
    PROVE  KeptSoFar(q, S, OneMore(S, t, q[k+1]), k + 1)
<1>1. k + 1 \in DOMAIN q /\ q[k+1] \in Range(q) /\ t \in Seq(Range(q))
  <2>1. k + 1 \in DOMAIN q
    OBVIOUS
  <2> QED
    BY <2>1 DEF Range, KeptSoFar
<1>2. CASE q[k+1] \notin S
  <2>1. \A i \in 1..(k+1) : q[i] \in S => i \in 1..k
    BY <1>2
  <2>2. 1..k \subseteq 1..(k+1)
    OBVIOUS
  <2> QED
    BY <1>2, <2>1, <2>2 DEF KeptSoFar, OneMore
<1>3. CASE q[k+1] \in S
  <2>1. PICK x : x = q[k+1]
    OBVIOUS
  <2>2. PICK u : u = Append(t, x)
    OBVIOUS
  <2>3. x \in Range(q) /\ x \in S
    BY <1>1, <1>3, <2>1
  <2>4. /\ u \in Seq(Range(q)) /\ Len(u) = Len(t) + 1 /\ u[Len(t) + 1] = x
        /\ Len(t) \in Nat
        /\ \A n \in 1..Len(t) : u[n] = t[n]
        /\ DOMAIN u = 1..(Len(t) + 1) /\ DOMAIN t = 1..Len(t)
    BY <1>1, <2>2, <2>3
  <2>5. \A n \in DOMAIN u : u[n] \in S /\ \E i \in 1..(k+1) : u[n] = q[i]
    <3> SUFFICES ASSUME NEW n \in DOMAIN u
                 PROVE  u[n] \in S /\ \E i \in 1..(k+1) : u[n] = q[i]
      OBVIOUS
    <3>1. CASE n = Len(t) + 1
      <4>1. k + 1 \in 1..(k+1)
        OBVIOUS
      <4> QED
        BY <2>1, <2>3, <2>4, <3>1, <4>1
    <3>2. CASE n # Len(t) + 1
      <4>1. n \in DOMAIN t /\ u[n] = t[n]
        BY <2>4, <3>2
      <4>2. PICK i \in 1..k : t[n] = q[i]
        BY <4>1 DEF KeptSoFar
      <4>3. i \in 1..(k+1)
        OBVIOUS
      <4> QED
        BY <4>1, <4>2, <4>3 DEF KeptSoFar
    <3> QED
      BY <3>1, <3>2
  <2>6. \A i \in 1..(k+1) : q[i] \in S => \E n \in DOMAIN u : u[n] = q[i]
    <3> SUFFICES ASSUME NEW i \in 1..(k+1), q[i] \in S
                 PROVE  \E n \in DOMAIN u : u[n] = q[i]
      OBVIOUS
    <3>1. CASE i = k + 1
      <4>1. Len(t) + 1 \in DOMAIN u
        BY <2>4
      <4> QED
        BY <2>1, <2>4, <3>1, <4>1
    <3>2. CASE i # k + 1
      <4>1. i \in 1..k
        BY <3>2
      <4>2. PICK n \in DOMAIN t : t[n] = q[i]
        BY <4>1 DEF KeptSoFar
      <4>3. n \in DOMAIN u /\ u[n] = t[n]
        BY <2>4
      <4> QED
        BY <4>2, <4>3
    <3> QED
      BY <3>1, <3>2
  <2>7. ASSUME Distinct(q)
        PROVE  Distinct(u)
    <3>1. \A n \in DOMAIN t : t[n] # x
      <4> SUFFICES ASSUME NEW n \in DOMAIN t, t[n] = x
                   PROVE  FALSE
        OBVIOUS
      <4>1. PICK i \in 1..k : t[n] = q[i]
        BY DEF KeptSoFar
      <4>2. i \in DOMAIN q /\ i # k + 1
        OBVIOUS
      <4> QED
        BY <1>1, <2>1, <2>7, <4>1, <4>2 DEF Distinct
    <3>2. Distinct(t)
      BY <2>7 DEF KeptSoFar
    <3>3. \A n \in DOMAIN u : (n \in DOMAIN t /\ u[n] = t[n]) \/ (n = Len(t) + 1 /\ u[n] = x)
      BY <2>4
    <3>4. ASSUME NEW m \in DOMAIN u, NEW n \in DOMAIN u, u[m] = u[n]
          PROVE  m = n
      <4>1. CASE m \in DOMAIN t /\ n \in DOMAIN t
        BY <2>4, <3>2, <3>4, <4>1 DEF Distinct
      <4>2. CASE m \in DOMAIN t /\ n \notin DOMAIN t
        BY <3>1, <3>3, <3>4, <4>2
      <4>3. CASE m \notin DOMAIN t /\ n \in DOMAIN t
        BY <3>1, <3>3, <3>4, <4>3
      <4>4. CASE m \notin DOMAIN t /\ n \notin DOMAIN t
        BY <3>3, <4>4
      <4> QED
        BY <4>1, <4>2, <4>3, <4>4
    <3> QED
      BY <3>4 DEF Distinct
  <2> QED
    BY <1>3, <2>1, <2>2, <2>4, <2>5, <2>6, <2>7 DEF KeptSoFar, OneMore
<1> QED
  BY <1>2, <1>3

(* Only keeps those of S, each as often and in the order it was listed.       *)
LEMMA OnlyKeeps ==
    ASSUME NEW q, q \in Seq(Range(q)), NEW S
    PROVE  /\ Only(q, S) \in Seq(Range(q))
           /\ Range(Only(q, S)) = Range(q) \cap S
           /\ Distinct(q) => Distinct(Only(q, S))
<1>0. DOMAIN q = 1..Len(q) /\ Len(q) \in Nat
  OBVIOUS
<1> DEFINE n == Len(q)
           g == CHOOSE f : IsOnlyFold(q, S, DOMAIN q, f)
<1>1. IsOnlyFold(q, S, 1..n, g)
  <2>1. \E f : IsOnlyFold(q, S, DOMAIN q, f)
    BY <1>0, OnlyFoldExists
  <2>2. IsOnlyFold(q, S, DOMAIN q, g)
    BY <2>1, Zenon
  <2> HIDE DEF g
  <2>3. QED
    BY <1>0, <2>2
<1>2. Only(q, S) = g[1..n]
  <2>1. Only(q, S) = g[DOMAIN q]
    BY OnlyFolds, Zenon
  <2> HIDE DEF g
  <2>2. QED
    BY <1>0, <2>1
<1> HIDE DEF g
<1> DEFINE T == {k \in Nat : k <= n => KeptSoFar(q, S, g[1..k], k)}
<1>3. 0 \in T
  <2>1. 1..0 = {} /\ {} \in SUBSET (1..n)
    OBVIOUS
  <2>2. g[{}] = <<>>
    BY <1>1, <2>1 DEF IsOnlyFold
  <2>3. KeptSoFar(q, S, <<>>, 0)
    BY DEF KeptSoFar, Distinct
  <2>4. QED
    BY <2>1, <2>2, <2>3
<1>4. ASSUME NEW k \in Nat, k < n, k \in T PROVE k + 1 \in T
  <2>1. KeptSoFar(q, S, g[1..k], k)
    BY <1>4
  <2>2. 1..(k+1) \in SUBSET (1..n) /\ 1..(k+1) # {} /\ (1..(k+1)) \ {k+1} = 1..k
    <3>1. n \in Nat
      BY <1>0
    <3> HIDE DEF n
    <3>2. 1..(k+1) \subseteq 1..n
      BY <1>4, <3>1
    <3>3. k + 1 \in 1..(k+1)
      OBVIOUS
    <3>4. (1..(k+1)) \ {k+1} = 1..k
      OBVIOUS
    <3>5. QED
      BY <3>2, <3>3, <3>4
  <2>3. Max(1..(k+1)) = k + 1
    <3>1. k + 1 \in 1..(k+1) /\ 1..(k+1) \subseteq Nat /\ \A m \in 1..(k+1) : k + 1 >= m
      OBVIOUS
    <3>2. QED
      BY <3>1, MaxIs
  <2>4. g[1..(k+1)] = OneMore(S, g[1..k], q[k+1])
    BY <1>1, <2>2, <2>3 DEF IsOnlyFold
  <2>5. QED
    BY <1>4, <2>1, <2>4, OneMoreKept
<1> HIDE DEF T
<1>5. n \in T
  BY <1>0, <1>3, <1>4, NatInduct DEF T
<1>6. PICK t : t = Only(q, S)
  OBVIOUS
<1>7. KeptSoFar(q, S, t, n) /\ n \in Nat
  BY <1>0, <1>2, <1>5, <1>6 DEF T
<1>8. \A x \in Range(t) : x \in Range(q) /\ x \in S
  BY <1>0, <1>7 DEF KeptSoFar, Range
<1>9. \A x \in Range(q) : x \in S => x \in Range(t)
  BY <1>0, <1>7 DEF KeptSoFar, Range
<1>10. Range(t) = Range(q) \cap S
  BY <1>8, <1>9
<1> QED
  BY <1>6, <1>7, <1>10 DEF KeptSoFar

(* The inductive invariant.  In a run, a branch has a row or is still to do,  *)
(* and not both; the clone is stopped, or a branch was blocked by that, only  *)
(* after a row says so; what is picked are the first of the commits;          *)
(* and what a row says was pushed is on GitHub, where nothing changes it.     *)
Outcomes == {"none", "failed", "stuck", "blocked", "created"}
Commits == UNION {Range(p.commits) : p \in Pulls}
Trees == [branch : Base \cup {"start"}, picked : Seq(Commits), stopped : BOOLEAN]

BackportTypes ==
  /\ pull \in Pulls
  /\ step \in {"starting", "branching", "picking", "ended"}
  /\ attempt \in Nat
  /\ todo \in Seq(Base)
  /\ rows \in [Base -> Outcomes]
  /\ tree \in Trees
  /\ pushed \in [Base -> Seq(Nat \cup Commits)]

RowsOrTodo ==
  step \in {"branching", "picking"} =>
    /\ Distinct(todo)
    /\ \A b \in Range(todo) : rows[b] = "none"
    /\ \A b \in Base : rows[b] # "none" \/ b \in Range(todo) <=> b \in Named(pull.labels)

AtStart == step = "starting" => rows = NoRows /\ todo = Nothing /\ tree = Clean

StoppedIsTold ==
  tree.stopped \/ (\E b \in Base : rows[b] = "blocked") => \E b \in Base : rows[b] = "stuck"

Picking ==
  step = "picking" =>
    /\ todo # Nothing
    /\ tree.branch = Head(todo)
    /\ ~tree.stopped
    /\ Len(tree.picked) <= Len(CommitsOf(pull))
    /\ \A n \in DOMAIN tree.picked : tree.picked[n] = CommitsOf(pull)[n]

OnGitHub == <<attempt>> \o CommitsOf(pull)
CreatedIsPushed == \A b \in Base : rows[b] = "created" => pushed[b] = OnGitHub

Truth(c) ==
  \A b \in Base :
    /\ c.rows[b] = "blocked" => \E x \in Base : c.rows[x] = "stuck"
    /\ c.rows[b] # "none" <=> b \in Named(pull.labels)
    /\ c.rows[b] = "created" => pushed[b] = <<c.attempt>> \o CommitsOf(pull) /\ c.attempt \in Nat

BackportInv ==
  /\ BackportTypes
  /\ RowsOrTodo
  /\ AtStart
  /\ StoppedIsTold
  /\ Picking
  /\ CreatedIsPushed
  /\ \A c \in comments : Truth(c)

--------------------------------------------------------------------------------
LEMMA MinOfTwo ==
    ASSUME NEW a \in Nat, NEW b \in Nat
    PROVE  Min({a, b}) \in {a, b} /\ Min({a, b}) <= a /\ Min({a, b}) <= b
<1>1. \E x \in {a, b} : \A y \in {a, b} : x <= y
  OBVIOUS
<1> QED
  BY <1>1, Zenon DEF Min

(* What is picked are commits of the pull request, and all but the merges of a*)
(* pull request that fits the page.                                           *)
LEMMA CommitsAre ==
    ASSUME NEW p \in Pulls
    PROVE  /\ CommitsOf(p) \in Seq(Commits)
           /\ Len(p.commits) <= CommitsPage => CommitsOf(p) = WithoutMerges(p.commits, p)
<1>1. PICK q : q = p.commits
  OBVIOUS
<1>2. q \in Seq(Range(q)) /\ CommitsPage \in Nat /\ Range(q) \subseteq Commits
  BY <1>1, BackportAssumption DEF Commits
<1>3. PICK k \in Nat : k = Len(q) /\ DOMAIN q = 1 .. k /\ \A n \in DOMAIN q : q[n] \in Range(q)
  BY <1>2
<1>4. PICK z : z = Min({CommitsPage, Len(q)})
  OBVIOUS
<1>5. z \in {CommitsPage, k} /\ z <= CommitsPage /\ z <= k
  BY <1>2, <1>3, <1>4, MinOfTwo
<1>6. z \in Nat
  BY <1>2, <1>3, <1>5
<1>7. PICK s : s = SubSeq(q, 1, z)
  OBVIOUS
<1>8. s \in Seq(Range(q))
  <2>1. \A i \in 1 .. z : q[i] \in Range(q)
    BY <1>3, <1>5, <1>6
  <2>2. 1 \in Int /\ z \in Int
    BY <1>6
  <2> QED
    BY <1>7, <2>1, <2>2, SubSeqProperties
<1>9. s \in Seq(Range(s)) /\ Range(s) \subseteq Range(q)
  BY <1>8 DEF Range
<1>10. PICK R : R = Range(s) \ p.merges
  OBVIOUS
<1>11. CommitsOf(p) = Only(s, R)
  BY <1>1, <1>4, <1>7, <1>10 DEF CommitsOf, WithoutMerges
<1>12. Only(s, R) \in Seq(Range(s))
  BY <1>9, OnlyKeeps
<1>13. Only(s, R) \in Seq(Commits)
  <2>1. Range(s) \subseteq Commits
    BY <1>2, <1>9
  <2> QED
    BY <1>12, <2>1
<1>14. ASSUME Len(q) <= CommitsPage
       PROVE  s = q
  <2>1. k <= CommitsPage
    BY <1>3, <1>14
  <2>2. z = k
    BY <1>2, <1>5, <2>1
  <2>3. z = Len(q)
    BY <1>3, <2>2
  <2> QED
    BY <1>2, <1>7, <2>3, SubSeqFull
<1>15. Len(q) <= CommitsPage => CommitsOf(p) = WithoutMerges(q, p)
  BY <1>10, <1>11, <1>14 DEF WithoutMerges
<1> QED
  BY <1>1, <1>11, <1>13, <1>15

(* The branches to do are those that were asked for, once each.               *)
LEMMA BranchesAre ==
    ASSUME NEW labels
    PROVE  /\ FindBranches(labels) \in Seq(Base)
           /\ Range(FindBranches(labels)) = Named(labels)
           /\ Distinct(FindBranches(labels))
<1>1. Bases \in Seq(Range(Bases)) /\ Distinct(Bases)
  BY BackportAssumption DEF Distinct
<1>2. Named(labels) \subseteq Range(Bases)
  BY BackportAssumption DEF Named
<1>3. PICK N : N = Named(labels)
  OBVIOUS
<1>4. /\ Only(Bases, N) \in Seq(Range(Bases))
      /\ Range(Only(Bases, N)) = Range(Bases) \cap N
      /\ Distinct(Only(Bases, N))
  BY <1>1, OnlyKeeps
<1> QED
  BY <1>2, <1>3, <1>4 DEF FindBranches, Base

LEMMA TailOf ==
    ASSUME NEW q \in Seq(Base), q # <<>>, Distinct(q)
    PROVE  /\ Head(q) \in Base /\ Tail(q) \in Seq(Base) /\ Distinct(Tail(q))
           /\ Head(q) \in Range(q)
           /\ Range(Tail(q)) = Range(q) \ {Head(q)}
<1>1. Len(q) \in Nat /\ Len(q) > 0 /\ DOMAIN q = 1 .. Len(q)
  OBVIOUS
<1>2. Head(q) = q[1] /\ Head(q) \in Base /\ 1 \in DOMAIN q
  BY <1>1
<1>3. PICK t : t = Tail(q)
  OBVIOUS
<1>4. t \in Seq(Base) /\ Len(t) = Len(q) - 1 /\ \A i \in 1 .. Len(t) : t[i] = q[i + 1]
  BY <1>3, HeadTailProperties
<1>5. DOMAIN t = 1 .. Len(t)
  BY <1>4
<1>6. \A i \in DOMAIN t : i + 1 \in DOMAIN q /\ i + 1 # 1 /\ t[i] = q[i + 1]
  BY <1>1, <1>4, <1>5
<1>7. Distinct(t)
  <2> SUFFICES ASSUME NEW m \in DOMAIN t, NEW n \in DOMAIN t, t[m] = t[n]
               PROVE  m = n
    BY DEF Distinct
  <2>1. m + 1 = n + 1
    BY <1>6 DEF Distinct
  <2> QED
    BY <1>1, <1>4, <1>5, <2>1
<1>8. \A x \in Range(t) : x \in Range(q) /\ x # Head(q)
  BY <1>2, <1>6 DEF Range, Distinct
<1>9. ASSUME NEW x \in Range(q), x # Head(q)
      PROVE  x \in Range(t)
  <2>1. PICK i \in DOMAIN q : q[i] = x
    BY DEF Range
  <2>2. i - 1 \in DOMAIN t /\ i - 1 + 1 = i
    BY <1>1, <1>2, <1>4, <1>5, <1>9, <2>1
  <2> QED
    BY <1>6, <2>1, <2>2 DEF Range
<1>10. Range(t) = Range(q) \ {Head(q)}
  BY <1>8, <1>9
<1> QED
  BY <1>2, <1>3, <1>4, <1>7, <1>10 DEF Range

--------------------------------------------------------------------------------
LEMMA BackportStarts == BackportInit => BackportInv
<1> SUFFICES ASSUME BackportInit
             PROVE  BackportInv
  OBVIOUS
<1>1. tree \in Trees
  BY DEF BackportInit, Clean, Nothing, Trees
<1>2. BackportTypes
  BY <1>1 DEF BackportTypes, BackportInit, NoRows, Outcomes, Nothing
<1> QED
  BY <1>2 DEF BackportInv, BackportInit, RowsOrTodo, AtStart, StoppedIsTold, Picking,
              CreatedIsPushed, NoRows, Clean

(* A row for the branch at hand leaves the others as they are.                *)
LEMMA RowKeeps ==
    ASSUME BackportInv, step \in {"branching", "picking"}, todo # Nothing,
           NEW r \in Outcomes \ {"none"}, RowFor(Head(todo), r), UNCHANGED pull
    PROVE  /\ Head(todo) \in Base /\ rows[Head(todo)] = "none" /\ rows'[Head(todo)] = r
           /\ \A b \in Base : b # Head(todo) => rows'[b] = rows[b]
           /\ rows' \in [Base -> Outcomes] /\ todo' \in Seq(Base) /\ step' = "branching"
           /\ RowsOrTodo'
<1>1. todo \in Seq(Base) /\ todo # <<>> /\ Distinct(todo) /\ rows \in [Base -> Outcomes]
  BY DEF BackportInv, BackportTypes, RowsOrTodo, Nothing
<1>2. PICK b : b = Head(todo)
  OBVIOUS
<1>3. PICK t : t = Tail(todo)
  OBVIOUS
<1>4. /\ b \in Base /\ t \in Seq(Base) /\ Distinct(t) /\ b \in Range(todo)
      /\ Range(t) = Range(todo) \ {b}
  BY <1>1, <1>2, <1>3, TailOf
<1>5. rows' = [rows EXCEPT ![b] = r] /\ todo' = t /\ step' = "branching"
  BY <1>2, <1>3 DEF RowFor
<1>6. rows[b] = "none"
  BY <1>4 DEF BackportInv, RowsOrTodo
<1>7. /\ rows'[b] = r /\ rows' \in [Base -> Outcomes]
      /\ \A x \in Base : x # b => rows'[x] = rows[x]
  BY <1>1, <1>4, <1>5
<1>8. Range(todo) \subseteq Base
  BY <1>1 DEF Range
<1>9. RowsOrTodo'
  <2>1. \A x \in Range(t) : rows'[x] = "none"
    BY <1>4, <1>7, <1>8 DEF BackportInv, RowsOrTodo
  <2>2. ASSUME NEW x \in Base
        PROVE  rows'[x] # "none" \/ x \in Range(t) <=> x \in Named(pull.labels)
    <3>1. rows[x] # "none" \/ x \in Range(todo) <=> x \in Named(pull.labels)
      BY DEF BackportInv, RowsOrTodo
    <3> QED
      BY <1>4, <1>7, <3>1
  <2> QED
    BY <1>4, <1>5, <2>1, <2>2 DEF RowsOrTodo, Distinct, Range
<1> QED
  BY <1>2, <1>4, <1>5, <1>6, <1>7, <1>9

(* What is on GitHub stays there, so that what was said of it stays true.     *)
LEMMA TruthKept ==
    ASSUME BackportInv, UNCHANGED pull,
           \A b \in Base : pushed[b] # Nothing => pushed'[b] = pushed[b],
           NEW c \in comments
    PROVE  Truth(c)'
<1>1. Truth(c) /\ CommitsOf(pull) \in Seq(Commits)
  BY CommitsAre DEF BackportInv, BackportTypes
<1>2. PICK C \in Seq(Commits) : C = CommitsOf(pull)
  BY <1>1
<1>3. \A k \in Nat : <<k>> \o C # <<>>
  OBVIOUS
<1>4. ASSUME NEW b \in Base, c.rows[b] = "created"
      PROVE  pushed'[b] = <<c.attempt>> \o C /\ c.attempt \in Nat
  BY <1>1, <1>2, <1>3, <1>4 DEF Truth, Nothing
<1> QED
  BY <1>1, <1>2, <1>4 DEF Truth, CommitsOf, WithoutMerges

(* The run ends one branch without a push.                                    *)
LEMMA FailKeeps ==
    ASSUME BackportInv, step \in {"branching", "picking"}, todo # Nothing,
           NEW r \in {"failed", "stuck", "blocked"}, Fail(r), tree' \in Trees,
           \/ tree'.stopped = tree.stopped /\ r = "failed"
           \/ r = "stuck"
           \/ tree.stopped /\ tree'.stopped
    PROVE  BackportInv'
<1>1. PICK h : h = Head(todo)
  OBVIOUS
<1>2. RowFor(h, r) /\ UNCHANGED <<pull, attempt, pushed, comments>>
  BY <1>1 DEF Fail
<1>3. /\ h \in Base /\ rows[h] = "none" /\ rows'[h] = r
      /\ \A b \in Base : b # h => rows'[b] = rows[b]
      /\ rows' \in [Base -> Outcomes] /\ todo' \in Seq(Base) /\ step' = "branching"
      /\ RowsOrTodo'
  BY <1>1, <1>2, RowKeeps DEF Outcomes
<1>4. BackportTypes'
  BY <1>2, <1>3 DEF BackportInv, BackportTypes
<1>5. StoppedIsTold'
  <2>1. \A b \in Base : rows[b] = "stuck" => rows'[b] = "stuck"
    BY <1>3
  <2>2. CASE r = "stuck"
    BY <1>3, <2>2 DEF StoppedIsTold
  <2>3. CASE tree.stopped
    BY <2>1, <2>3 DEF StoppedIsTold, BackportInv
  <2>4. CASE r = "failed" /\ ~tree'.stopped
    BY <1>3, <2>1, <2>4 DEF StoppedIsTold, BackportInv
  <2>5. tree'.stopped \in BOOLEAN /\ tree.stopped \in BOOLEAN
    BY DEF Trees, BackportInv, BackportTypes
  <2> QED
    BY <2>2, <2>3, <2>4, <2>5
<1>6. CreatedIsPushed'
  <2>1. OnGitHub' = OnGitHub
    BY <1>2 DEF OnGitHub, CommitsOf, WithoutMerges
  <2> QED
    BY <1>2, <1>3, <2>1 DEF CreatedIsPushed, BackportInv
<1>7. \A c \in comments' : Truth(c)'
  BY <1>2, TruthKept
<1> QED
  BY <1>3, <1>4, <1>5, <1>6, <1>7 DEF BackportInv, AtStart, Picking

LEMMA StartKeeps == BackportInv /\ Start => BackportInv'
<1> SUFFICES ASSUME BackportInv, Start
             PROVE  BackportInv'
  OBVIOUS
<1>1. /\ step = "starting" /\ step' = "branching"
      /\ todo' = FindBranches(pull.labels)
      /\ UNCHANGED <<pull, attempt, rows, tree, pushed, comments>>
  BY DEF Start
<1>2. todo' \in Seq(Base) /\ Range(todo') = Named(pull.labels) /\ Distinct(todo')
  BY <1>1, BranchesAre
<1>3. rows = NoRows /\ tree = Clean
  BY <1>1 DEF BackportInv, AtStart
<1>4. Named(pull.labels) \subseteq Base
  BY BackportAssumption DEF Named, Base
<1>5. BackportTypes'
  BY <1>1, <1>2 DEF BackportInv, BackportTypes
<1>6. RowsOrTodo'
  BY <1>1, <1>2, <1>3, <1>4 DEF RowsOrTodo, NoRows, Distinct, Range
<1>7. StoppedIsTold' /\ CreatedIsPushed'
  BY <1>1, <1>3 DEF StoppedIsTold, CreatedIsPushed, NoRows, Clean
<1>8. \A c \in comments' : Truth(c)'
  BY <1>1, TruthKept
<1> QED
  BY <1>1, <1>5, <1>6, <1>7, <1>8 DEF BackportInv, AtStart, Picking

LEMMA NewBranchKeeps == BackportInv /\ NewBranch => BackportInv'
<1> SUFFICES ASSUME BackportInv, NewBranch
             PROVE  BackportInv'
  OBVIOUS
<1>1. /\ step = "branching" /\ todo # Nothing /\ ~tree.stopped /\ step' = "picking"
      /\ tree' = [branch |-> Head(todo), picked |-> Nothing, stopped |-> FALSE]
      /\ UNCHANGED <<pull, attempt, todo, rows, pushed, comments>>
  BY DEF NewBranch
<1>2. todo \in Seq(Base) /\ todo # <<>> /\ Distinct(todo)
  BY <1>1 DEF BackportInv, BackportTypes, RowsOrTodo, Nothing
<1>3. Head(todo) \in Base
  BY <1>2, TailOf
<1>4. tree' \in Trees
  BY <1>1, <1>3 DEF Trees, Nothing
<1>5. BackportTypes'
  BY <1>1, <1>4 DEF BackportInv, BackportTypes
<1>6. RowsOrTodo'
  BY <1>1 DEF BackportInv, RowsOrTodo, Distinct, Range
<1>7. StoppedIsTold' /\ CreatedIsPushed'
  BY <1>1 DEF BackportInv, StoppedIsTold, CreatedIsPushed, OnGitHub, CommitsOf, WithoutMerges
<1>8. Picking'
  <2>1. CommitsOf(pull)' = CommitsOf(pull) /\ CommitsOf(pull) \in Seq(Commits)
    BY <1>1, CommitsAre DEF BackportInv, BackportTypes, CommitsOf, WithoutMerges
  <2>2. tree'.picked = <<>> /\ Len(<<>>) = 0 /\ DOMAIN <<>> = {}
    BY <1>1 DEF Nothing
  <2>3. 0 <= Len(CommitsOf(pull))
    BY <2>1
  <2> QED
    BY <1>1, <2>1, <2>2, <2>3 DEF Picking
<1>9. \A c \in comments' : Truth(c)'
  BY <1>1, TruthKept
<1> QED
  BY <1>1, <1>5, <1>6, <1>7, <1>8, <1>9 DEF BackportInv, AtStart

LEMMA PickKeeps == BackportInv /\ Pick => BackportInv'
<1> SUFFICES ASSUME BackportInv, Pick
             PROVE  BackportInv'
  OBVIOUS
<1>1. /\ step = "picking" /\ LeftToPick
      /\ tree' = [tree EXCEPT !.picked = Append(@, NextPick)]
      /\ UNCHANGED <<pull, step, attempt, todo, rows, pushed, comments>>
  BY DEF Pick
<1>2. PICK C \in Seq(Commits) : C = CommitsOf(pull)
  BY CommitsAre DEF BackportInv, BackportTypes
<1>3. PICK q \in Seq(Commits) : q = tree.picked
  BY DEF BackportInv, BackportTypes, Trees
<1>4. /\ tree \in Trees /\ tree.branch = Head(todo) /\ ~tree.stopped /\ todo # Nothing
      /\ Len(q) <= Len(C) /\ \A n \in DOMAIN q : q[n] = C[n]
  BY <1>1, <1>2, <1>3 DEF BackportInv, BackportTypes, Picking
<1>5. Len(C) > Len(q)
  BY <1>1, <1>2, <1>3 DEF LeftToPick
<1>6. PICK x : x = C[Len(q) + 1] /\ x \in Commits
  BY <1>5
<1>7. NextPick = x
  BY <1>2, <1>3, <1>6 DEF NextPick
<1>8. PICK u : u = Append(q, x)
  OBVIOUS
<1>9. /\ u \in Seq(Commits) /\ Len(u) <= Len(C)
      /\ \A n \in DOMAIN u : u[n] = C[n]
  BY <1>4, <1>5, <1>6, <1>8
<1>10. /\ tree' \in Trees /\ tree'.picked = u
       /\ tree'.branch = tree.branch /\ tree'.stopped = tree.stopped
  BY <1>1, <1>3, <1>4, <1>7, <1>8, <1>9 DEF Trees
<1>11. BackportTypes'
  BY <1>1, <1>10 DEF BackportInv, BackportTypes
<1>12. RowsOrTodo'
  BY <1>1 DEF BackportInv, RowsOrTodo, Distinct, Range
<1>13. StoppedIsTold' /\ CreatedIsPushed'
  BY <1>1, <1>10
     DEF BackportInv, StoppedIsTold, CreatedIsPushed, OnGitHub, CommitsOf, WithoutMerges
<1>14. Picking'
  <2>1. C = CommitsOf(pull)'
    BY <1>1, <1>2 DEF CommitsOf, WithoutMerges
  <2> QED
    BY <1>1, <1>4, <1>9, <1>10, <2>1 DEF Picking
<1>15. \A c \in comments' : Truth(c)'
  BY <1>1, TruthKept
<1> QED
  BY <1>1, <1>11, <1>12, <1>13, <1>14, <1>15 DEF BackportInv, AtStart

LEMMA FailuresKeep == BackportInv /\ (FetchFails \/ PickConflicts \/ PushFails) => BackportInv'
<1> SUFFICES ASSUME BackportInv
             PROVE  FetchFails \/ PickConflicts \/ PushFails => BackportInv'
  OBVIOUS
<1>1. tree \in Trees /\ (step = "picking" => todo # Nothing /\ ~tree.stopped)
  BY DEF BackportInv, BackportTypes, Picking
<1>2. ASSUME FetchFails PROVE BackportInv'
  <2>1. CASE tree.stopped
    <3>1. Fail("blocked") /\ tree' = tree /\ step = "branching" /\ todo # Nothing
      BY <1>2, <2>1 DEF FetchFails
    <3> QED
      BY <1>1, <2>1, <3>1, FailKeeps
  <2>2. CASE ~tree.stopped
    <3>1. Fail("failed") /\ tree' = tree /\ step = "branching" /\ todo # Nothing
      BY <1>2, <2>2 DEF FetchFails
    <3> QED
      BY <1>1, <3>1, FailKeeps
  <2> QED
    BY <2>1, <2>2
<1>3. ASSUME PickConflicts PROVE BackportInv'
  <2>1. step = "picking" /\ todo # Nothing /\ ~tree.stopped
    BY <1>1, <1>3 DEF PickConflicts
  <2>2. PICK t : t = [tree EXCEPT !.stopped = TRUE]
    OBVIOUS
  <2>3. t \in Trees /\ Aborted(t) \in Trees /\ Aborted(t).stopped = FALSE
    <3>1. t \in Trees
      BY <1>1, <2>2 DEF Trees
    <3> QED
      BY <3>1 DEF Trees, Aborted
  <2>4. CASE tree' = Aborted(t) /\ Fail("failed")
    <3>1. tree.stopped \in BOOLEAN
      BY <1>1 DEF Trees
    <3>2. tree' \in Trees /\ tree'.stopped = tree.stopped
      BY <2>1, <2>3, <2>4, <3>1
    <3> QED
      BY <2>1, <2>4, <3>2, FailKeeps
  <2>5. CASE tree' = t /\ Fail("stuck")
    BY <2>1, <2>3, <2>5, FailKeeps
  <2> QED
    BY <1>3, <2>2, <2>4, <2>5 DEF PickConflicts
<1>4. ASSUME PushFails PROVE BackportInv'
  <2>1. Fail("failed") /\ tree' = tree /\ step = "picking"
    BY <1>4 DEF PushFails
  <2> QED
    BY <1>1, <2>1, FailKeeps
<1> QED
  BY <1>2, <1>3, <1>4

LEMMA PushKeeps == BackportInv /\ Push => BackportInv'
<1> SUFFICES ASSUME BackportInv, Push
             PROVE  BackportInv'
  OBVIOUS
<1>1. PICK h : h = Head(todo)
  OBVIOUS
<1>2. step = "picking" /\ todo # Nothing /\ tree.branch = h /\ tree \in Trees /\ ~tree.stopped
  BY <1>1 DEF BackportInv, BackportTypes, Picking, Push
<1>3. /\ ~LeftToPick /\ pushed[h] = Nothing
      /\ pushed' = [pushed EXCEPT ![h] = <<attempt>> \o tree.picked]
      /\ RowFor(h, "created")
      /\ UNCHANGED <<pull, attempt, tree, comments>>
  BY <1>1, <1>2 DEF Push, MayPush
<1>4. /\ h \in Base /\ rows[h] = "none" /\ rows'[h] = "created"
      /\ \A b \in Base : b # h => rows'[b] = rows[b]
      /\ rows' \in [Base -> Outcomes] /\ todo' \in Seq(Base) /\ step' = "branching"
      /\ RowsOrTodo'
  BY <1>1, <1>2, <1>3, RowKeeps DEF Outcomes
<1>5. PICK C \in Seq(Commits) : C = CommitsOf(pull)
  BY CommitsAre DEF BackportInv, BackportTypes
<1>6. tree.picked = C
  <2>1. PICK q \in Seq(Commits) : q = tree.picked
    BY <1>2 DEF Trees
  <2>2. Len(q) <= Len(C) /\ \A n \in DOMAIN q : q[n] = C[n]
    BY <1>2, <1>5, <2>1 DEF BackportInv, Picking
  <2>3. ~(Len(C) > Len(q))
    BY <1>3, <1>5, <2>1 DEF LeftToPick
  <2>4. Len(q) = Len(C)
    BY <2>2, <2>3
  <2> QED
    BY <2>1, <2>2, <2>4, SeqEqual
<1>7. PICK z : z = <<attempt>> \o C
  OBVIOUS
<1>8. z \in Seq(Nat \cup Commits)
  <2>1. <<attempt>> \in Seq(Nat \cup Commits) /\ C \in Seq(Nat \cup Commits)
    BY DEF BackportInv, BackportTypes
  <2> QED
    BY <1>7, <2>1
<1>9. pushed \in [Base -> Seq(Nat \cup Commits)] /\ pushed' = [pushed EXCEPT ![h] = z]
  BY <1>3, <1>6, <1>7 DEF BackportInv, BackportTypes
<1>10. /\ pushed' \in [Base -> Seq(Nat \cup Commits)] /\ pushed'[h] = z
       /\ \A b \in Base : b # h => pushed'[b] = pushed[b]
  BY <1>4, <1>8, <1>9
<1>11. BackportTypes'
  BY <1>3, <1>4, <1>10 DEF BackportInv, BackportTypes
<1>12. StoppedIsTold'
  BY <1>3, <1>4 DEF StoppedIsTold, BackportInv
<1>13. CreatedIsPushed'
  <2>1. OnGitHub' = z /\ OnGitHub = z
    BY <1>3, <1>5, <1>7 DEF OnGitHub, CommitsOf, WithoutMerges
  <2> QED
    BY <1>4, <1>10, <2>1 DEF CreatedIsPushed, BackportInv
<1>14. \A c \in comments' : Truth(c)'
  <2>1. \A b \in Base : pushed[b] # Nothing => pushed'[b] = pushed[b]
    BY <1>3, <1>10
  <2> QED
    BY <1>3, <2>1, TruthKept
<1> QED
  BY <1>4, <1>11, <1>12, <1>13, <1>14 DEF BackportInv, AtStart, Picking

LEMMA CommentKeeps == BackportInv /\ Comment => BackportInv'
<1> SUFFICES ASSUME BackportInv, Comment
             PROVE  BackportInv'
  OBVIOUS
<1>1. /\ step = "branching" /\ todo = <<>> /\ step' = "ended"
      /\ UNCHANGED <<pull, attempt, todo, rows, tree, pushed>>
  BY DEF Comment, Nothing
<1>2. PICK d : d = [attempt |-> attempt, rows |-> rows]
  OBVIOUS
<1>3. comments' \subseteq comments \cup {d}
  BY <1>2 DEF Comment
<1>4. Truth(d)
  <2>1. Range(todo) = {}
    BY <1>1 DEF Range
  <2>2. \A b \in Base : rows[b] # "none" <=> b \in Named(pull.labels)
    BY <1>1, <2>1 DEF BackportInv, RowsOrTodo
  <2>3. \A b \in Base : rows[b] = "blocked" => \E x \in Base : rows[x] = "stuck"
    BY DEF BackportInv, StoppedIsTold
  <2>4. \A b \in Base : rows[b] = "created" =>
           pushed[b] = <<attempt>> \o CommitsOf(pull) /\ attempt \in Nat
    BY DEF BackportInv, BackportTypes, CreatedIsPushed, OnGitHub
  <2>5. d.rows = rows /\ d.attempt = attempt
    BY <1>2
  <2> QED
    BY <2>2, <2>3, <2>4, <2>5 DEF Truth
<1>5. \A c \in comments' : Truth(c)
  BY <1>3, <1>4 DEF BackportInv
<1>6. \A c \in comments' : Truth(c)'
  BY <1>1, <1>5 DEF Truth, CommitsOf, WithoutMerges
<1>7. BackportTypes'
  BY <1>1 DEF BackportInv, BackportTypes
<1>8. StoppedIsTold' /\ CreatedIsPushed'
  BY <1>1 DEF BackportInv, StoppedIsTold, CreatedIsPushed, OnGitHub, CommitsOf, WithoutMerges
<1> QED
  BY <1>1, <1>6, <1>7, <1>8 DEF BackportInv, RowsOrTodo, AtStart, Picking

LEMMA RunsKeep == BackportInv /\ (Refuse \/ RunAgain) => BackportInv'
<1> SUFFICES ASSUME BackportInv, Refuse \/ RunAgain
             PROVE  BackportInv'
  OBVIOUS
<1>1. /\ UNCHANGED <<pull, pushed, comments>>
      /\ step' \in {"starting", "ended"}
      /\ attempt' \in Nat
      /\ \/ UNCHANGED <<attempt, todo, rows, tree>> /\ step' = "ended"
         \/ todo' = <<>> /\ rows' = NoRows /\ tree' = Clean
  BY DEF Refuse, RunAgain, Nothing, BackportInv, BackportTypes
<1>2. BackportTypes'
  <2>1. Clean \in Trees
    BY DEF Clean, Nothing, Trees
  <2>2. NoRows \in [Base -> Outcomes]
    BY DEF NoRows, Outcomes
  <2>3. BackportTypes
    BY DEF BackportInv
  <2>4. tree' \in Trees /\ rows' \in [Base -> Outcomes] /\ todo' \in Seq(Base)
    <3>1. CASE UNCHANGED <<attempt, todo, rows, tree>>
      BY <2>3, <3>1 DEF BackportTypes
    <3>2. CASE todo' = <<>> /\ rows' = NoRows /\ tree' = Clean
      <4>1. <<>> \in Seq(Base)
        OBVIOUS
      <4> QED
        BY <2>1, <2>2, <3>2, <4>1
    <3> QED
      BY <1>1, <3>1, <3>2
  <2> QED
    BY <1>1, <2>3, <2>4 DEF BackportTypes
<1>3. StoppedIsTold' /\ CreatedIsPushed'
  <2>1. CASE UNCHANGED <<attempt, todo, rows, tree>>
    BY <1>1, <2>1 DEF BackportInv, StoppedIsTold, CreatedIsPushed, OnGitHub, CommitsOf,
                      WithoutMerges
  <2>2. CASE rows' = NoRows /\ tree' = Clean
    BY <2>2 DEF StoppedIsTold, CreatedIsPushed, NoRows, Clean
  <2> QED
    BY <1>1, <2>1, <2>2
<1>4. \A c \in comments' : Truth(c)'
  BY <1>1, TruthKept
<1> QED
  BY <1>1, <1>2, <1>3, <1>4 DEF BackportInv, RowsOrTodo, AtStart, Picking, Nothing

(* Every comment of the command tells the truth, for any branches, labels and *)
(* pull requests: it has a row for each branch that was asked for, offers only*)
(* branches that are on GitHub with all the commits, and says that one was    *)
(* blocked only beside another whose pick could not be aborted (backport.go). *)
THEOREM CommentsAreTrue == BackportSpec => []CommentsTellTheTruth
<1>1. BackportInv /\ [BackportNext]_backportVars => BackportInv'
  <2>1. ASSUME BackportInv, UNCHANGED backportVars
        PROVE  BackportInv'
    <3>1. UNCHANGED <<pull, step, attempt, todo, rows, tree, pushed, comments>>
      BY <2>1 DEF backportVars
    <3>2. \A c \in comments' : Truth(c)'
      BY <2>1, <3>1, TruthKept
    <3>3. BackportTypes' /\ RowsOrTodo' /\ AtStart'
      BY <2>1, <3>1 DEF BackportInv, BackportTypes, RowsOrTodo, AtStart, Distinct, Range
    <3>4. StoppedIsTold' /\ Picking' /\ CreatedIsPushed'
      BY <2>1, <3>1 DEF BackportInv, StoppedIsTold, Picking, CreatedIsPushed, OnGitHub,
                        CommitsOf, WithoutMerges
    <3> QED
      BY <3>2, <3>3, <3>4 DEF BackportInv
  <2> QED
    BY <2>1, StartKeeps, NewBranchKeeps, PickKeeps, FailuresKeep, PushKeeps, CommentKeeps,
       RunsKeep
       DEF BackportNext
<1>2. BackportInv => CommentsTellTheTruth
  <2> SUFFICES ASSUME BackportInv, NEW c \in comments, NEW b \in Base
               PROVE  /\ c.rows[b] = "blocked" => \E x \in Base : c.rows[x] = "stuck"
                      /\ c.rows[b] # "none" <=> b \in Named(pull.labels)
                      /\ c.rows[b] = "created" /\ Len(pull.commits) <= CommitsPage =>
                           pushed[b] = <<c.attempt>> \o WithoutMerges(pull.commits, pull)
    BY DEF CommentsTellTheTruth
  <2>1. Truth(c) /\ pull \in Pulls
    BY DEF BackportInv, BackportTypes
  <2>2. Len(pull.commits) <= CommitsPage => CommitsOf(pull) = WithoutMerges(pull.commits, pull)
    BY <2>1, CommitsAre
  <2> QED
    BY <2>1, <2>2 DEF Truth
<1> QED
  BY <1>1, <1>2, BackportStarts, PTL DEF BackportSpec

================================================================================
