------------------------------- MODULE EnvValues -------------------------------
(* One run of env-kvstore: the job's GitHub token is checked and exchanged for  *)
(* AWS credentials, the values of the job's repository and environment are read *)
(* from Secrets Manager, and those that the job asks for are masked and written *)
(* to the file from which its next steps take their environment; at the end the *)
(* old values are uploaded once more for a migration.                           *)
(* A value is told from others by its place in the stores: level, kind and key. *)
EXTENDS Integers, Sequences, SequencesExt

CONSTANTS Items,        \* what the job asks for: [name, kind, key], in this order
          Config,       \* configurations: [pool, role, account, smAccount, smRegion, request]
          Token,        \* tokens of GitHub: [key, issuer, audience, fresh, claims, environment]
          StoreKeys     \* StoreKeys[level, kind]: the sets of keys the store may have

Levels == {"repo", "env"}
Kinds == {"secret", "variable"}

(* ParseValues lets two items have one name.                                    *)
ASSUME ItemsTyped == Items \in Seq(Range(Items)) /\ \A i \in Range(Items) : i.kind \in Kinds

VARIABLES config, jwt, stores,
          stepAt,       \* the next step of the run, "ok" or "failed"
          had,          \* had[level, kind]: what the run read, nothing at first
          warned,       \* kinds whose environment's values could not be read
          values,       \* values[n]: what was found for the n-th item, [name, kind, key, level]
          masked,       \* values that GitHub masks in the logs
          exported      \* what the next steps of the job see: as values

envVars == <<config, jwt, stores, stepAt, had, warned, values, masked, exported>>

EnvInit ==
  /\ config \in Config /\ jwt \in Token
  /\ stores \in {s \in [Levels \X Kinds -> UNION {StoreKeys[x] : x \in Levels \X Kinds}] :
                   \A x \in Levels \X Kinds : s[x] \in StoreKeys[x]}
  /\ stepAt = "validate"
  /\ had = [x \in Levels \X Kinds |-> {}]
  /\ warned = {} /\ values = <<>> /\ masked = {} /\ exported = {}

GoOn(s) == stepAt' = s

(* Validate fills in the account from a complete role ARN and the region from a *)
(* complete identity pool, and refuses what stays empty.                        *)
Complete(c) ==
  /\ c.pool # "none" /\ c.role # "none" /\ c.request
  /\ c.role = "full" \/ (c.account /\ c.smAccount)
  /\ c.pool = "full" \/ c.smRegion

Validate ==
  /\ stepAt = "validate"
  /\ GoOn(IF Complete(config) THEN "token" ELSE "failed")
  /\ UNCHANGED <<config, jwt, stores, had, warned, values, masked, exported>>

(* fetchGHAJWT with validateGHAToken, and the claims getAWSSessionName needs.   *)
Genuine(t) ==
  /\ t.key = "github" /\ t.fresh
  /\ t.issuer = "enterprise" /\ t.audience = "cognito"

GetAWSSessionName ==
  /\ stepAt = "token"
  /\ GoOn(IF Genuine(jwt) /\ jwt.claims THEN "credentials" ELSE "failed")
  /\ UNCHANGED <<config, jwt, stores, had, warned, values, masked, exported>>

(* GetId and GetOpenIdToken at Cognito, AssumeRole and GetCallerIdentity at STS.*)
GetIdentityToken ==
  /\ stepAt = "credentials"
  /\ GoOn("secret")
  /\ UNCHANGED <<config, jwt, stores, had, warned, values, masked, exported>>

(* Any call of the steps that have one fails: the run fails.                    *)
CallRefused ==
  /\ stepAt \in {"token", "credentials", "secret", "variable", "write"}
  /\ GoOn("failed")
  /\ UNCHANGED <<config, jwt, stores, had, warned, values, masked, exported>>

(* repoOrEnvStoreFromSecretARNs: the store of the environment, if the token has *)
(* one, may be out of reach, which leaves a warning; a store that cannot be     *)
(* parsed is an error (CallRefused).                                            *)
After(kind) == IF kind = "secret" THEN "variable" ELSE "populate"

InitializeStore(kind) ==
  /\ stepAt = kind
  /\ \E reached \in BOOLEAN :
       /\ ~reached => jwt.environment
       /\ had' = [x \in Levels \X Kinds |->
                    IF x[2] # kind THEN had[x]
                    ELSE IF x[1] = "repo" \/ (jwt.environment /\ reached) THEN stores[x]
                    ELSE {}]
       /\ warned' = IF reached THEN warned ELSE warned \cup {kind}
  /\ GoOn(After(kind))
  /\ UNCHANGED <<config, jwt, stores, values, masked, exported>>

(* RepoOrEnvKVStore.GetValue.                                                   *)
IsFound(kind, key) == \E l \in Levels : key \in had[<<l, kind>>]

(* A mistake: the repository's value goes before that of the environment.       *)
RepositoryFirst(kind, key) == IF key \in had[<<"repo", kind>>] THEN "repo" ELSE "env"

LevelOf(kind, key) == IF key \in had[<<"env", kind>>] THEN "env" ELSE "repo"

ValueOf(item) ==
  [name |-> item.name, kind |-> item.kind, key |-> item.key,
   level |-> LevelOf(item.kind, item.key)]

(* populateEnvValues: every item must be found.                                 *)
PopulateEnvValues ==
  /\ stepAt = "populate"
  /\ LET found == {n \in DOMAIN Items : IsFound(Items[n].kind, Items[n].key)}
     IN  /\ values' = [n \in found |-> ValueOf(Items[n])]
         /\ GoOn(IF found = DOMAIN Items THEN "mask" ELSE "failed")
  /\ UNCHANGED <<config, jwt, stores, had, warned, masked, exported>>

MaskAllSecretValues ==
  /\ stepAt = "mask"
  /\ masked' = {v \in Range(values) : v.kind = "secret"}
  /\ GoOn("write")
  /\ UNCHANGED <<config, jwt, stores, had, warned, values, exported>>

(* A mistake: a value is dropped for one of its name that is there already.     *)
IsDropped(n) == \E m \in DOMAIN values : m < n /\ values[m].name = values[n].name

(* SetEnvValuesForGitHubActions collects the values in a map by their names, in *)
(* which a value takes the place of an earlier one of its name.                 *)
IsReplaced(n) == \E m \in DOMAIN values : m > n /\ values[m].name = values[n].name

WriteGithubEnv ==
  /\ stepAt = "write"
  /\ exported' = {values[n] : n \in {m \in DOMAIN values : ~IsReplaced(m)}}
  /\ GoOn("migrate")
  /\ UNCHANGED <<config, jwt, stores, had, warned, values, masked>>

(* Upload does nothing without its two variables or without old values to send; *)
(* when it fails the run does, after the values were written.                   *)
HasMigrationConfig == IsFound("variable", "migration")

Upload ==
  /\ stepAt = "migrate"
  /\ \/ GoOn("ok")
     \/ HasMigrationConfig /\ GoOn("failed")
  /\ UNCHANGED <<config, jwt, stores, had, warned, values, masked, exported>>

EnvNext ==
  \/ Validate \/ GetAWSSessionName \/ GetIdentityToken \/ CallRefused
  \/ \E kind \in Kinds : InitializeStore(kind)
  \/ PopulateEnvValues \/ MaskAllSecretValues \/ WriteGithubEnv \/ Upload

EnvSpec == EnvInit /\ [][EnvNext]_envVars

-------------------------------------------------------------------------------
(* The value the job is to see: that of its environment, unless the run warned  *)
(* that it cannot read those of this kind, else that of its repository.         *)
Due(item) ==
  [name |-> item.name, kind |-> item.kind, key |-> item.key,
   level |-> IF /\ jwt.environment /\ item.kind \notin warned
                /\ item.key \in stores[<<"env", item.kind>>]
             THEN "env" ELSE "repo"]

(* The next steps of a job see a value for every name it asked for or nothing:  *)
(* after a run that succeeded they see it, each value is that of the last item  *)
(* of its name, from the job's environment or, where that has none or the run   *)
(* warned of it, from its repository, no secret is seen that the logs would     *)
(* show, and all of it only with a token GitHub made for this use               *)
(* (cmd/env-kvstore.go run, kvstore/secretsmanager.go, cognitotoken.go).        *)
ValuesOfTheEnvironment ==
  stepAt = "ok" \/ exported # {} =>
    /\ \A i \in Range(Items) : \E v \in exported : v.name = i.name
    /\ \A v \in exported : \E n \in DOMAIN Items :
         /\ v = Due(Items[n])
         /\ \A m \in DOMAIN Items : m > n => Items[m].name # v.name
    /\ {v \in exported : v.kind = "secret"} \subseteq masked
    /\ Genuine(jwt) /\ Complete(config)

===============================================================================
