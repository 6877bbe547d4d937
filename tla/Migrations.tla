------------------------------ MODULE Migrations ------------------------------
(* The bot's check that database migrations are added in order                  *)
(* (bot/internal/bot/verify.go), and what becomes of it while other pull        *)
(* requests are merged.  A migration file is a record: the directory it is in,  *)
(* the number its name starts with (0 for a name that cannot be read), whether  *)
(* it undoes a migration, and whether the pull request removes it.              *)
EXTENDS Integers, Sequences

CONSTANTS Change,       \* pull requests
          Directories,  \* the directories with migrations (migrationConfig), in order
          FilesOf,      \* FilesOf[p]: migration files of pull request p
          AtFirst       \* migration files of the base branch at first

ASSUME DirectoriesListed == Directories \in Seq(STRING) /\ Directories # <<>>

VARIABLES base,         \* files of the base branch
          merged,       \* pull requests that have been merged
          looking,      \* looking[p]: the directory that a check of p is at, or 0
          saw,          \* saw[p][n]: what the latest check read of directory n
          verdict       \* verdict[p]: "none", "passed", "failed"

migrationVars == <<base, merged, looking, saw, verdict>>

In(files, d) == {f \in files : f.dir = d}

MigrationsInit ==
  /\ base = AtFirst
  /\ merged = {}
  /\ looking = [p \in Change |-> 0]
  /\ saw = [p \in Change |-> [n \in DOMAIN Directories |-> {}]]
  /\ verdict = [p \in Change |-> "none"]

(* parseMigrationFileIDs: the numbers of the files in a directory, or an error. *)
IDs(files, d) == {f.id : f \in In(files, d)}
Unreadable(files, d) == 0 \in IDs(files, d)

(* The files of a pull request that count: not removed, and not undoing.        *)
Added(p) == {f \in FilesOf[p] : ~f.removed /\ ~f.down}

(* A mistake: newer than some file is taken for newer than all.                 *)
LaterThanSome(new, old) == \A n \in new : \E o \in old : n > o

Late(new, old) == \A n \in new, o \in old : n > o

(* verifyDBMigration for one directory of which the branch has the files had.   *)
DirectoryPasses(p, d, had) ==
  /\ ~Unreadable(Added(p), d)
  /\ \/ IDs(Added(p), d) = {}
     \/ /\ ~Unreadable(had, d)
        /\ IDs(had, d) = {} \/ Late(IDs(Added(p), d), IDs(had, d))

-------------------------------------------------------------------------------
(* A check starts; the job of the merge queue (Number = 0) passes without one.  *)
VerifyDBMigrations(p) ==
  /\ p \notin merged /\ looking[p] = 0
  /\ looking' = [looking EXCEPT ![p] = 1]
  /\ verdict' = [verdict EXCEPT ![p] = "none"]
  /\ UNCHANGED <<base, merged, saw>>

(* One directory: read at a commit of its own, so that the branch may change    *)
(* before the next.  When GitHub cuts the list of files short the directory     *)
(* passes; when a call fails the check does.                                    *)
VerifyDBMigration(p) ==
  /\ looking[p] # 0
  /\ LET n == looking[p]
         d == Directories[n]
         last == n = Len(Directories)
     IN  \E answer \in {"list", "cut", "error"} :
           LET passes == \/ answer = "list" /\ DirectoryPasses(p, d, base)
                         \/ answer = "cut" /\ ~Unreadable(Added(p), d)
           IN  /\ saw' = [saw EXCEPT ![p][n] = IF answer = "list" THEN In(base, d) ELSE {}]
               /\ looking' = [looking EXCEPT ![p] = IF passes /\ ~last THEN n + 1 ELSE 0]
               /\ verdict' = [verdict EXCEPT ![p] = IF ~passes THEN "failed"
                                                    ELSE IF last THEN "passed" ELSE @]
  /\ UNCHANGED <<base, merged>>

(* A pull request is merged on the verdict that it has.                         *)
MergeChange(p) ==
  /\ p \notin merged /\ looking[p] = 0 /\ verdict[p] = "passed"
  /\ merged' = merged \cup {p}
  /\ base' = {f \in base : \A x \in FilesOf[p] : ~(x.removed /\ x.dir = f.dir /\ x.id = f.id)}
             \cup {f \in FilesOf[p] : ~f.removed}
  /\ UNCHANGED <<looking, saw, verdict>>

MigrationsNext ==
  \E p \in Change : VerifyDBMigrations(p) \/ VerifyDBMigration(p) \/ MergeChange(p)

MigrationsSpec == MigrationsInit /\ [][MigrationsNext]_migrationVars

-------------------------------------------------------------------------------
Applied(files, d) == {f.id : f \in {x \in In(files, d) : ~x.down}}

(* A merge adds no migration to a directory that is not newer than all that the *)
(* branch has there, provided that the directory is as the check read it, which *)
(* nothing makes sure of: a verdict outlives the branch that it was given for   *)
(* (verify.go: "a timestamp that is more recent than the migration files in the *)
(* base branch").                                                               *)
AddedInOrder ==
  [][\A p \in merged' \ merged : \A n \in DOMAIN Directories :
       LET d == Directories[n]
       IN  In(base, d) = saw[p][n] =>
             \A new \in Applied(base', d) \ Applied(base, d), old \in Applied(base, d) :
               new > old]_migrationVars

===============================================================================
