------------------------------- MODULE MCPrograms -------------------------------
(* The smaller programs and parts of programs of the repository, each with its  *)
(* instance.  They have nothing in common: a behaviour is one of the program    *)
(* that the initial state chooses, and the others stand still, so that the      *)
(* state space is the sum of theirs.                                            *)
EXTENDS TTLEventCache, ServiceLifecycle, Backport, Paging, Migrations, DocsRedirects,
        BloatCheck, S3Files, PackagePublishing, AppToken, LostLogs, AmplifyPreview, EnvValues

(* Backport: three branches; nothing to do, one branch or all of them; two      *)
(* commits, three with a merge among them, and one more than a page has.        *)
MCBaseOf == [l \in {"backport/v1", "backport/v2", "backport/master"} |->
               CASE l = "backport/v1" -> "v1" [] l = "backport/v2" -> "v2"
                 [] l = "backport/master" -> "master"]
MCBases == <<"master", "v1", "v2">>
MCPulls == {[labels |-> L, commits |-> cm[1], merges |-> cm[2]] :
              L \in {{}, {"backport/v1", "docs"}, DOMAIN MCBaseOf},
              cm \in {<< <<1, 2>>, {} >>, << <<1, 2, 3>>, {2} >>, << <<1, 2, 3, 4>>, {1} >>}}

(* Migrations: two directories; pull requests that add a newer file, an older   *)
(* one, none but an undoing one, and that remove files.                         *)
MigrationFile(d, i) == [dir |-> d, id |-> i, down |-> FALSE, removed |-> FALSE]
MCAtFirst == {MigrationFile("a", 1), [MigrationFile("a", 1) EXCEPT !.down = TRUE],
              MigrationFile("b", 2)}
MCDirectories == <<"a", "b">>
MCFilesOf ==
  << {MigrationFile("a", 2), [MigrationFile("a", 2) EXCEPT !.down = TRUE], MigrationFile("b", 3)},
     {MigrationFile("a", 3), [MigrationFile("b", 2) EXCEPT !.removed = TRUE]},
     {[MigrationFile("b", 1) EXCEPT !.down = TRUE], [MigrationFile("a", 1) EXCEPT !.removed = TRUE],
      MigrationFile("b", 4), MigrationFile("a", 0)} >>

(* Documentation: two files that are served at one address, a page whose        *)
(* directory's name ends in its own, a partial, and a file not below docs/pages.*)
MCFile == {<<"pages", "a">>, <<"pages", "a", "a">>, <<"pages", "ba", "a">>,
           <<"pages", "a", "includes", "b">>, <<"root", "b">>}
MCRedirect == {<<"pages", "a">>}
MCEndsIn == {<<"ba", "a">>}

(* Sizes: growth below, at and above the threshold, with and without the        *)
(* remainders that are cut off; a build that got smaller.                       *)
MCBuilds == {<<0, 0>>, <<3, 11>>, <<3, 12>>, <<4, 11>>, <<12, 0>>}

(* Two matchers of one component select the same file; the other has one.       *)
MCMatchers == << << {1, 2}, {2} >>, << {2} >> >>

MCSkews == {-2, 1}

(* Four jobs that may fail in one run, and more runs and workflows behind it.   *)
RunOf(first, js) == [passedAtFirst |-> first, jobs |-> js]
MCWorkflows ==
  << << RunOf(FALSE, <<"lost", "kept", "passed", "lost", "lost">>), RunOf(TRUE, <<"passed">>),
        RunOf(FALSE, <<"lost", "selfHosted">>) >>,
     << RunOf(FALSE, <<"kept", "lost">>) >> >>

MCApps == <<"first", "second">>

MCItems == << [name |-> "A", kind |-> "variable", key |-> "a"],
              [name |-> "A", kind |-> "secret", key |-> "a"],
              [name |-> "B", kind |-> "variable", key |-> "a"] >>
GoodToken == [key |-> "github", issuer |-> "enterprise", audience |-> "cognito",
              fresh |-> TRUE, claims |-> TRUE, environment |-> TRUE]
MCToken == {GoodToken, [GoodToken EXCEPT !.environment = FALSE], [GoodToken EXCEPT !.claims = FALSE],
            [GoodToken EXCEPT !.key = "other"], [GoodToken EXCEPT !.issuer = "other"],
            [GoodToken EXCEPT !.audience = "other"], [GoodToken EXCEPT !.fresh = FALSE]}
MCConfig == [pool : {"bare", "full"}, role : {"full"}, account : {FALSE}, smAccount : {FALSE},
             smRegion : {FALSE}, request : {TRUE}]
MCStoreKeys == [x \in {"repo", "env"} \X {"secret", "variable"} |->
                  IF x[2] = "secret" THEN {{}, {"a"}} ELSE {{}, {"a"}, {"a", "migration"}}]

-------------------------------------------------------------------------------
VARIABLE program

approvalVars == <<vars, lifeVars>>
botVars == <<backportVars, pagingVars, migrationVars, docsVars, bloatVars>>
toolVars == <<s3Vars, publishVars, tokenVars, searchVars, previewVars, envVars>>
allVars == <<program, approvalVars, botVars, toolVars>>

Programs == {"cache", "service", "backport", "paging", "migrations", "docs", "bloat",
             "files", "publishing", "token", "logs", "preview", "values"}

(* A program that is not chosen starts in one of its initial states only, which *)
(* is written out where there are many.                                         *)
Fixed(p, state) == program # p => state

NoPaging == /\ loop = ListFiles /\ list = <<>> /\ page = 1
            /\ got = <<>> /\ stayed = {} /\ shrunk = FALSE
NoDocs == before = {} /\ after = {} /\ changes = {} /\ redirects = {} /\ reports = {}
NoBloat == /\ moment = 0 /\ posts = {} /\ bloat = "none"
           /\ build = [a \in Artifact |-> <<0, 0>>]
NoValues == /\ jwt = GoodToken /\ config \in {c \in Config : c.pool = "full"}
            /\ stores = [x \in Levels \X Kinds |-> {}] /\ had = stores
            /\ stepAt = "validate"
            /\ warned = {} /\ values = <<>> /\ masked = {} /\ exported = {}

MCInit ==
  /\ program \in Programs
  /\ Init /\ LifeInit /\ MigrationsInit /\ S3Init
  /\ PublishInit /\ Fixed("publishing", limit = 0)
  /\ TokenInit /\ Fixed("token", skew = 1)
  /\ SearchInit /\ Fixed("logs", selfHosted)
  /\ PreviewInit /\ Fixed("preview", full = {})
  /\ BackportInit /\ Fixed("backport", pull.labels = {} /\ pull.merges = {})
  /\ IF program = "values" THEN EnvInit ELSE NoValues
  /\ IF program = "bloat" THEN BloatInit ELSE NoBloat
  /\ IF program = "paging" THEN PagingInit ELSE NoPaging
  /\ IF program = "docs" THEN DocsInit ELSE NoDocs

ApprovalNext ==
  /\ \/ program = "cache" /\ Next /\ UNCHANGED lifeVars
     \/ program = "service" /\ LifeNext /\ UNCHANGED vars
  /\ UNCHANGED <<program, botVars, toolVars>>

BotNext ==
  /\ \/ /\ program = "backport" /\ BackportNext
        /\ UNCHANGED <<pagingVars, migrationVars, docsVars, bloatVars>>
     \/ /\ program = "paging" /\ PagingNext
        /\ UNCHANGED <<backportVars, migrationVars, docsVars, bloatVars>>
     \/ /\ program = "migrations" /\ MigrationsNext
        /\ UNCHANGED <<backportVars, pagingVars, docsVars, bloatVars>>
     \/ /\ program = "docs" /\ DocsNext
        /\ UNCHANGED <<backportVars, pagingVars, migrationVars, bloatVars>>
     \/ /\ program = "bloat" /\ BloatNext
        /\ UNCHANGED <<backportVars, pagingVars, migrationVars, docsVars>>
  /\ UNCHANGED <<program, approvalVars, toolVars>>

ToolNext ==
  /\ \/ /\ program = "files" /\ S3Next
        /\ UNCHANGED <<publishVars, tokenVars, searchVars, previewVars, envVars>>
     \/ /\ program = "publishing" /\ PublishNext
        /\ UNCHANGED <<s3Vars, tokenVars, searchVars, previewVars, envVars>>
     \/ /\ program = "token" /\ TokenNext
        /\ UNCHANGED <<s3Vars, publishVars, searchVars, previewVars, envVars>>
     \/ /\ program = "logs" /\ SearchNext
        /\ UNCHANGED <<s3Vars, publishVars, tokenVars, previewVars, envVars>>
     \/ /\ program = "preview" /\ PreviewNext
        /\ UNCHANGED <<s3Vars, publishVars, tokenVars, searchVars, envVars>>
     \/ /\ program = "values" /\ EnvNext
        /\ UNCHANGED <<s3Vars, publishVars, tokenVars, searchVars, previewVars>>
  /\ UNCHANGED <<program, approvalVars, botVars>>

(* The fairness of PublishSpec and of LifeSpec.                                 *)
FairStep ==
  \/ /\ program = "publishing" /\ PublishNext
     /\ UNCHANGED <<program, approvalVars, botVars>>
     /\ UNCHANGED <<s3Vars, tokenVars, searchVars, previewVars, envVars>>
  \/ /\ program = "service" /\ ServiceStep
     /\ UNCHANGED <<program, vars, botVars, toolVars>>

MCSpec == MCInit /\ [][ApprovalNext \/ BotNext \/ ToolNext]_allVars /\ WF_allVars(FairStep)

===============================================================================
