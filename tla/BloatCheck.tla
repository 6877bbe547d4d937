------------------------------ MODULE BloatCheck ------------------------------
(* The bot's check of the sizes of binaries (bot/internal/bot/bloat.go) and the *)
(* comments that exempt from it (skip.go), which people write and edit while it *)
(* is on its way.  GitHub dates comments with times of limited precision.       *)
EXTENDS Integers, FiniteSets

CONSTANTS Person, Admin,      \* people who may comment; administrators
          Author,             \* the author of the pull request
          Artifact,
          Builds,             \* pairs of the sizes of an artifact, base and current, in bytes
          MB, ErrorThreshold, \* bytes in a megabyte; megabytes that it may grow by
          MaxMoment, MaxPosts

ASSUME SizesAssumption ==
  /\ MB \in Nat \ {0} /\ ErrorThreshold \in Nat
  /\ Builds \subseteq Nat \X Nat

VARIABLES moment,     \* the time, in units of the dates of comments
          posts,      \* the comments of the pull request
          build,      \* build[a]: sizes of artifact a
          bloat       \* outcome of the check: "none", "passed", "failed"

bloatVars == <<moment, posts, build, bloat>>

BloatInit ==
  /\ moment = 0
  /\ posts = {}
  /\ build \in [Artifact -> Builds]
  /\ bloat = "none"

(* Anybody comments with /excludebloat and names of artifacts.  "original" is   *)
(* what the author wrote; the bot sees only the text as it is.                  *)
PostComment(p, items) ==
  /\ bloat = "none" /\ Cardinality(posts) < MaxPosts
  /\ posts' = posts \cup {[number |-> Cardinality(posts) + 1, author |-> p,
                                 items |-> items, original |-> items, edited |-> FALSE,
                                 createdAt |-> moment, updatedAt |-> moment]}
  /\ UNCHANGED <<moment, build, bloat>>

(* Somebody with write access edits a comment, no matter whose.                 *)
EditComment(c, items) ==
  /\ bloat = "none"
  /\ posts' = (posts \ {c})
       \cup {[c EXCEPT !.items = items, !.edited = TRUE, !.updatedAt = moment]}
  /\ UNCHANGED <<moment, build, bloat>>

Later ==
  /\ bloat = "none" /\ moment < MaxMoment
  /\ moment' = moment + 1
  /\ UNCHANGED <<posts, build, bloat>>

(* GetAdminCheckers *)
AdminCheckers == Admin \ {Author}

(* A mistake: comments count although they have been edited.                    *)
CountsThoughEdited(c) == c.author \in AdminCheckers

CountsForSkipping(c) == c.author \in AdminCheckers /\ c.createdAt = c.updatedAt

(* skipItems *)
SkipItems == UNION {c.items : c \in {x \in posts : CountsForSkipping(x)}}

(* calculateChange: the difference of two sizes that are cut to megabytes.      *)
CalculateChange(sizes) == sizes[2] \div MB - sizes[1] \div MB

Bloated(a) == CalculateChange(build[a]) > ErrorThreshold

RunBloatCheck ==
  /\ bloat = "none"
  /\ bloat' = IF \E a \in Artifact \ SkipItems : Bloated(a) THEN "failed" ELSE "passed"
  /\ UNCHANGED <<moment, posts, build>>

BloatNext ==
  \/ \E items \in SUBSET Artifact : \/ \E p \in Person : PostComment(p, items)
                                    \/ \E c \in posts : EditComment(c, items)
  \/ Later \/ RunBloatCheck

BloatSpec == BloatInit /\ [][BloatNext]_bloatVars

-------------------------------------------------------------------------------
(* What an administrator other than the author has written, and that is still   *)
(* so, or was changed within the precision of the dates.                        *)
Exempted(a) ==
  \E c \in posts :
    /\ c.author \in Admin \ {Author}
    /\ a \in c.original \/ (c.edited /\ c.updatedAt = c.createdAt)

Growth(a) == build[a][2] - build[a][1]

(* A pull request that makes a binary grow by a megabyte more than the threshold*)
(* only passes with the word of an administrator who is not its author, however *)
(* comments are edited meanwhile; and one that fails has a binary which grew by *)
(* more than the threshold.  In between cutting to megabytes decides            *)
(* (bloat.go, skip.go: "non-admins can edit comments from admins").             *)
BloatNeedsAnAdmin ==
  /\ bloat = "passed" =>
       \A a \in Artifact : Growth(a) >= (ErrorThreshold + 1) * MB => Exempted(a)
  /\ bloat = "failed" => \E a \in Artifact : Growth(a) > ErrorThreshold * MB

===============================================================================
