------------------------------ MODULE ToolsProofs ------------------------------
(* The tools, for any number of what each works on: the locks and the file    *)
(* manager of oprt2 and its runs, for all goroutines, keys and orders of their*)
(* steps; the tokens of an app's client, the values of a job, the previews of *)
(* a pull request and the search for lost logs.                               *)
EXTENDS S3Files, PackagePublishing, AppToken, EnvValues, AmplifyPreview, LostLogs,
        FiniteSetTheorems, WellFoundedInduction, TLAPS

(* The locks and the file manager of oprt2.                                   *)

LEMMA LocksInitType == LocksInit => LocksTypeOK
<1> SUFFICES ASSUME LocksInit PROVE LocksTypeOK
  OBVIOUS
<1>1. NoKey \in Key
  BY KeysExist DEF NoKey
<1>2. refs \in [Key -> Nat] /\ calls \in Nat
  BY DEF LocksInit
<1>3. taken \in [Key -> BOOLEAN] /\ shut \in [Key -> BOOLEAN] /\ sealed \in BOOLEAN
  BY DEF LocksInit
<1>4. place \in [Caller -> Places] /\ wanted \in [Caller -> Key]
  BY <1>1 DEF LocksInit, Places
<1>5. QED
  BY <1>2, <1>3, <1>4 DEF LocksInit, LocksTypeOK

LEMMA LocksStepType == LocksTypeOK /\ [LocksNext]_lockVars => LocksTypeOK'
<1> SUFFICES ASSUME LocksTypeOK, [LocksNext]_lockVars PROVE LocksTypeOK'
  OBVIOUS
<1> USE DEF LocksTypeOK, Places
<1>1. CASE UNCHANGED lockVars
  BY <1>1 DEF lockVars
<1>2. ASSUME NEW c \in Caller, NEW k \in Key, CallLock(c, k) PROVE LocksTypeOK'
  BY <1>2 DEF CallLock
<1>3. ASSUME NEW c \in Caller, LookUp(c) PROVE LocksTypeOK'
  BY <1>3 DEF LookUp
<1>4. ASSUME NEW c \in Caller, Take(c) PROVE LocksTypeOK'
  BY <1>4 DEF Take
<1>5. ASSUME NEW c \in Caller, SendPanics(c) \/ GiveUp(c) \/ CallUnlock(c) PROVE LocksTypeOK'
  BY <1>5 DEF SendPanics, GiveUp, CallUnlock
<1>6. ASSUME NEW c \in Caller, Unlock(c) PROVE LocksTypeOK'
  BY <1>6 DEF Unlock, LastReference
<1>7. CASE CloseStep
  BY <1>7 DEF CloseStep, BeginClose, CloseEntry, EndClose
<1>8. QED
  BY <1>1, <1>2, <1>3, <1>4, <1>5, <1>6, <1>7 DEF LocksNext, LockStep

(* The locks keep their types (mutexlock.go, contextlock.go).                 *)
THEOREM LocksTypeCorrect == LocksSpec => []LocksTypeOK
BY LocksInitType, LocksStepType, PTL DEF LocksSpec

--------------------------------------------------------------------------------
(* Users of a key, counted.                                                   *)
LEMMA UsersFinite == \A k \in Key : IsFiniteSet(Users(k)) /\ Cardinality(Users(k)) \in Nat
BY CallersFinite, FS_Subset, FS_CardinalityType DEF Users

LEMMA FewerUsers ==
  ASSUME NEW k \in Key, LocksTypeOK, Users(k)' \subseteq Users(k), ReferencesCounted,
         refs'[k] = refs[k]
  PROVE  Cardinality(Users(k)') <= refs'[k]
<1>1. IsFiniteSet(Users(k)) /\ Cardinality(Users(k)) \in Nat
  BY UsersFinite
<1>2. Cardinality(Users(k)') \in Nat /\ Cardinality(Users(k)') <= Cardinality(Users(k))
  BY <1>1, FS_Subset, FS_CardinalityType
<1>3. Cardinality(Users(k)) <= refs[k] /\ refs[k] \in Nat
  BY DEF ReferencesCounted, LocksTypeOK
<1>4. QED
  BY <1>1, <1>2, <1>3

LEMMA CountedStep ==
  LocksTypeOK /\ ReferencesCounted /\ [LocksNext]_lockVars => ReferencesCounted'
<1> SUFFICES ASSUME LocksTypeOK, ReferencesCounted, [LocksNext]_lockVars, NEW k \in Key
             PROVE  Cardinality(Users(k)') <= refs'[k]
  BY DEF ReferencesCounted, Users
<1>0. LocksTypeOK'
  BY LocksStepType
<1>1. CASE UNCHANGED lockVars
  <2>1. Users(k)' = Users(k) /\ refs'[k] = refs[k]
    BY <1>1 DEF lockVars, Users
  <2>2. QED
    BY <2>1, FewerUsers
<1>2. ASSUME NEW c \in Caller, NEW j \in Key, CallLock(c, j)
      PROVE  Cardinality(Users(k)') <= refs'[k]
  <2>1. Users(k)' \subseteq Users(k) /\ refs'[k] = refs[k]
    BY <1>2 DEF CallLock, Users, LocksTypeOK, Places
  <2>2. QED
    BY <2>1, FewerUsers
<1>3. ASSUME NEW c \in Caller, LookUp(c) PROVE Cardinality(Users(k)') <= refs'[k]
  <2>1. CASE wanted[c] # k
    <3>1. Users(k)' \subseteq Users(k) /\ refs'[k] = refs[k]
      BY <1>3, <2>1 DEF LookUp, Users, LocksTypeOK, Places
    <3>2. QED
      BY <3>1, FewerUsers
  <2>2. CASE wanted[c] = k
    <3>1. Users(k)' = Users(k) \cup {c} /\ refs'[k] = refs[k] + 1
      BY <1>3, <2>2 DEF LookUp, Users, LocksTypeOK, Places
    <3>2. IsFiniteSet(Users(k)) /\ Cardinality(Users(k)) \in Nat
      BY UsersFinite
    <3>3. Cardinality(Users(k) \cup {c}) <= Cardinality(Users(k)) + 1
      BY <3>2, FS_AddElement
    <3>4. Cardinality(Users(k) \cup {c}) \in Nat
      BY <3>2, FS_AddElement, FS_CardinalityType
    <3>5. Cardinality(Users(k)) <= refs[k] /\ refs[k] \in Nat
      BY DEF ReferencesCounted, LocksTypeOK
    <3>6. QED
      BY <3>1, <3>2, <3>3, <3>4, <3>5
  <2>3. QED
    BY <2>1, <2>2
<1>4. ASSUME NEW c \in Caller, Take(c) \/ SendPanics(c) \/ GiveUp(c) \/ CallUnlock(c)
      PROVE  Cardinality(Users(k)') <= refs'[k]
  <2>1. Users(k)' \subseteq Users(k) /\ refs'[k] = refs[k]
    BY <1>4 DEF Take, SendPanics, GiveUp, CallUnlock, Users, LocksTypeOK, Places
  <2>2. QED
    BY <2>1, FewerUsers
<1>5. ASSUME NEW c \in Caller, Unlock(c) PROVE Cardinality(Users(k)') <= refs'[k]
  <2>1. CASE wanted[c] # k
    <3>1. Users(k)' \subseteq Users(k) /\ refs'[k] = refs[k]
      BY <1>5, <2>1 DEF Unlock, Users, LocksTypeOK, Places
    <3>2. QED
      BY <3>1, FewerUsers
  <2>2. CASE wanted[c] = k
    <3>1. c \in Users(k) /\ Users(k)' = Users(k) \ {c}
      BY <1>5, <2>2 DEF Unlock, Users, LocksTypeOK, Places
    <3>2. IsFiniteSet(Users(k)) /\ Cardinality(Users(k)) \in Nat
      BY UsersFinite
    <3>3. Cardinality(Users(k)') = Cardinality(Users(k)) - 1
      BY <3>1, <3>2, FS_RemoveElement
    <3>4. Cardinality(Users(k)') \in Nat
      BY <3>1, <3>2, FS_RemoveElement, FS_CardinalityType
    <3>5. Cardinality(Users(k)) <= refs[k] /\ refs[k] \in Nat
      BY DEF ReferencesCounted, LocksTypeOK
    <3>6. refs[k] # 0
      BY <3>2, <3>3, <3>4, <3>5
    <3>7. refs'[k] = refs[k] - 1
      BY <1>5, <2>2, <3>5, <3>6 DEF Unlock, LastReference, LocksTypeOK
    <3>8. QED
      BY <3>2, <3>3, <3>5, <3>7
  <2>3. QED
    BY <2>1, <2>2
<1>6. CASE CloseStep
  <2>1. Users(k)' = Users(k) /\ refs'[k] = refs[k]
    BY <1>6 DEF CloseStep, BeginClose, CloseEntry, EndClose, Users
  <2>2. QED
    BY <2>1, FewerUsers
<1>7. QED
  BY <1>1, <1>2, <1>3, <1>4, <1>5, <1>6 DEF LocksNext, LockStep

LEMMA CountedInit == LocksInit => ReferencesCounted
<1> SUFFICES ASSUME LocksInit, NEW k \in Key PROVE Cardinality(Users(k)) <= refs[k]
  BY DEF ReferencesCounted
<1>1. Users(k) = {} /\ refs[k] = 0
  BY DEF LocksInit, Users
<1>2. QED
  BY <1>1, FS_EmptySet

(* Every goroutine that may still use an entry's lock is counted in the       *)
(* entry, so that no entry is dropped too early (mutexlock.go Lock, Unlock).  *)
THEOREM EveryUserCounted == LocksSpec => []ReferencesCounted
BY LocksInitType, LocksStepType, CountedInit, CountedStep, PTL DEF LocksSpec

--------------------------------------------------------------------------------
(* A goroutine inside has filled the channel of the entry.                    *)
HolderTook == \A c \in Caller : Inside(c) => taken[wanted[c]]

LocksInv == LocksTypeOK /\ ReferencesCounted /\ HolderTook /\ MutualExclusion

(* The last reference is the only user's.                                     *)
LEMMA OnlyUser ==
  ASSUME LocksTypeOK, ReferencesCounted, NEW c \in Caller, NEW d \in Caller,
         place[c] = "leaving", LastReference(wanted[c]), Inside(d), wanted[d] = wanted[c]
  PROVE  d = c
<1> DEFINE k == wanted[c]
<1>1. k \in Key
  BY DEF LocksTypeOK
<1>2. c \in Users(k) /\ d \in Users(k)
  BY DEF Users, Inside
<1>3. IsFiniteSet(Users(k)) /\ Cardinality(Users(k)) \in Nat
  BY <1>1, UsersFinite
<1>4. Cardinality(Users(k)) <= 1
  BY <1>1 DEF ReferencesCounted, LastReference
<1>5. Cardinality(Users(k)) # 0
  BY <1>2, <1>3, FS_EmptySet
<1>6. Cardinality(Users(k)) = 1
  BY <1>3, <1>4, <1>5
<1>7. PICK x : Users(k) = {x}
  BY <1>3, <1>6, FS_Singleton
<1>8. QED
  BY <1>2, <1>7

LEMMA HolderStep == LocksInv /\ [LocksNext]_lockVars => HolderTook' /\ MutualExclusion'
<1> SUFFICES ASSUME LocksInv, [LocksNext]_lockVars PROVE HolderTook' /\ MutualExclusion'
  OBVIOUS
<1> USE DEF LocksInv
<1>1. CASE UNCHANGED lockVars
  BY <1>1 DEF lockVars, HolderTook, MutualExclusion, Inside
<1>2. ASSUME NEW c \in Caller, NEW k \in Key, CallLock(c, k)
      PROVE  HolderTook' /\ MutualExclusion'
  BY <1>2 DEF CallLock, HolderTook, MutualExclusion, Inside, LocksTypeOK, Places
<1>3. ASSUME NEW c \in Caller, LookUp(c) \/ SendPanics(c) \/ GiveUp(c) \/ CallUnlock(c)
      PROVE  HolderTook' /\ MutualExclusion'
  BY <1>3 DEF LookUp, SendPanics, GiveUp, CallUnlock, HolderTook, MutualExclusion, Inside,
              LocksTypeOK, Places
<1>4. ASSUME NEW c \in Caller, Take(c) PROVE HolderTook' /\ MutualExclusion'
  BY <1>4 DEF Take, HolderTook, MutualExclusion, Inside, LocksTypeOK, Places
<1>5. ASSUME NEW c \in Caller, Unlock(c) PROVE HolderTook' /\ MutualExclusion'
  <2>1. \A d \in Caller : Inside(d)' => d # c /\ Inside(d) /\ wanted'[d] = wanted[d]
    BY <1>5 DEF Unlock, Inside, LocksTypeOK, Places
  <2>2. \A d \in Caller : Inside(d)' => taken'[wanted[d]] = taken[wanted[d]]
    <3>1. CASE LastReference(wanted[c])
      <4>1. \A d \in Caller : Inside(d)' => wanted[d] # wanted[c]
        BY <1>5, <2>1, <3>1, OnlyUser DEF Unlock
      <4>2. QED
        BY <1>5, <4>1 DEF Unlock, LocksTypeOK
    <3>2. CASE ~LastReference(wanted[c])
      BY <1>5, <3>2 DEF Unlock, LocksTypeOK
    <3>3. QED
      BY <3>1, <3>2
  <2>3. QED
    BY <2>1, <2>2 DEF HolderTook, MutualExclusion
<1>6. CASE CloseStep
  BY <1>6 DEF CloseStep, BeginClose, CloseEntry, EndClose, HolderTook, MutualExclusion, Inside,
              LocksTypeOK
<1>7. QED
  BY <1>1, <1>2, <1>3, <1>4, <1>5, <1>6 DEF LocksNext, LockStep

LEMMA HolderInit == LocksInit => HolderTook /\ MutualExclusion
BY DEF LocksInit, HolderTook, MutualExclusion, Inside

LEMMA LocksInvariant == LocksSpec => []LocksInv
<1>1. LocksInit => LocksInv
  BY LocksInitType, CountedInit, HolderInit DEF LocksInv
<1>2. LocksInv /\ [LocksNext]_lockVars => LocksInv'
  BY LocksStepType, CountedStep, HolderStep DEF LocksInv
<1>3. QED
  BY <1>1, <1>2, PTL DEF LocksSpec

(* Two goroutines never hold the lock of one key, although entries go with    *)
(* the last reference and are made again, callers give up at any time, and    *)
(* Close takes the locks from everyone (mutexlock.go, contextlock.go).        *)
THEOREM LocksExclude == LocksSpec => []MutualExclusion
<1>1. LocksInv => MutualExclusion
  BY DEF LocksInv
<1>2. QED
  BY <1>1, LocksInvariant, PTL

--------------------------------------------------------------------------------
(* What Close has closed stays closed to all.                                 *)
Sealed ==
  /\ closing \in {"closing", "closed"} => sealed
  /\ \A k \in Key : shut[k] => taken[k]
  /\ \A c \in Caller : Inside(c) => ~shut[wanted[c]]
  /\ closing = "closed" => \A k \in Key : refs[k] > 0 => shut[k]

LEMMA SealedInit == LocksInit => Sealed
BY DEF LocksInit, Sealed, Inside

LEMMA SealedStep == LocksInv /\ Sealed /\ [LocksNext]_lockVars => Sealed'
<1> SUFFICES ASSUME LocksInv, Sealed, [LocksNext]_lockVars PROVE Sealed'
  OBVIOUS
<1> USE DEF LocksInv, Sealed
<1>1. CASE UNCHANGED lockVars
  BY <1>1 DEF lockVars, Inside
<1>2. ASSUME NEW c \in Caller, NEW k \in Key, CallLock(c, k) PROVE Sealed'
  BY <1>2 DEF CallLock, Inside, LocksTypeOK, Places
<1>3. ASSUME NEW c \in Caller, LookUp(c) PROVE Sealed'
  BY <1>3 DEF LookUp, Inside, LocksTypeOK, Places
<1>4. ASSUME NEW c \in Caller, SendPanics(c) \/ GiveUp(c) \/ CallUnlock(c) PROVE Sealed'
  BY <1>4 DEF SendPanics, GiveUp, CallUnlock, Inside, LocksTypeOK, Places
<1>5. ASSUME NEW c \in Caller, Take(c) PROVE Sealed'
  BY <1>5 DEF Take, Inside, LocksTypeOK, Places
<1>6. ASSUME NEW c \in Caller, Unlock(c) PROVE Sealed'
  <2>1. ~shut[wanted[c]] /\ wanted[c] \in Key
    BY <1>6 DEF Unlock, Inside, LocksTypeOK
  <2>2. \A d \in Caller : Inside(d)' => Inside(d)
    BY <1>6 DEF Unlock, Inside, LocksTypeOK, Places
  <2>3. QED
    BY <1>6, <2>1, <2>2 DEF Unlock, LocksTypeOK
<1>7. CASE CloseStep
  <2>1. CASE BeginClose
    BY <2>1 DEF BeginClose, Inside
  <2>2. ASSUME NEW k \in Key, CloseEntry(k) PROVE Sealed'
    <3>1. \A c \in Caller : Inside(c) => wanted[c] # k
      BY <2>2 DEF CloseEntry, HolderTook
    <3>2. QED
      BY <2>2, <3>1 DEF CloseEntry, Inside, LocksTypeOK
  <2>3. CASE EndClose
    BY <2>3 DEF EndClose, Inside
  <2>4. QED
    BY <1>7, <2>1, <2>2, <2>3 DEF CloseStep
<1>8. QED
  BY <1>1, <1>2, <1>3, <1>4, <1>5, <1>6, <1>7 DEF LocksNext, LockStep

(* With all locks closed nobody is inside.                                    *)
LEMMA ClosedIsEmpty ==
  ASSUME LocksInv, Sealed, closing = "closed", NEW c \in Caller
  PROVE  ~Inside(c)
<1> SUFFICES ASSUME Inside(c) PROVE FALSE
  OBVIOUS
<1> DEFINE k == wanted[c]
<1>1. k \in Key
  BY DEF LocksInv, LocksTypeOK
<1>2. c \in Users(k)
  BY DEF Users, Inside
<1>3. IsFiniteSet(Users(k)) /\ Cardinality(Users(k)) \in Nat
  BY <1>1, UsersFinite
<1>4. Cardinality(Users(k)) # 0
  BY <1>2, <1>3, FS_EmptySet
<1>5. Cardinality(Users(k)) <= refs[k] /\ refs[k] \in Nat
  BY <1>1 DEF LocksInv, LocksTypeOK, ReferencesCounted
<1>6. refs[k] > 0
  BY <1>3, <1>4, <1>5
<1>7. QED
  BY <1>1, <1>6 DEF Sealed

--------------------------------------------------------------------------------
(* The file manager.                                                          *)
LEMMA StepsOfLocks == [S3Next]_s3Vars => [LocksNext]_lockVars
BY DEF S3Next, s3Vars, lockVars, fileVars, LocksNext, AlreadyThere, StartDownload, NoDownload,
       EndDownload, RemoveFiles

(* The file manager uses the locks as they are meant to be used: its runs are *)
(* runs of the locks, so that what holds of these holds in it (s3.go          *)
(* GetLocalFilePath, Close).                                                  *)
THEOREM UsesLocks == S3Spec => LocksSpec
<1>1. S3Init => LocksInit
  BY DEF S3Init
<1>2. QED
  BY <1>1, StepsOfLocks, PTL DEF S3Spec, LocksSpec

LEMMA FilesStepType == S3TypeOK /\ [S3Next]_s3Vars => S3TypeOK'
<1> SUFFICES ASSUME S3TypeOK, [S3Next]_s3Vars PROVE S3TypeOK'
  OBVIOUS
<1>1. LocksTypeOK'
  BY StepsOfLocks, LocksStepType DEF S3TypeOK
<1>2. CASE UNCHANGED fileVars
  BY <1>1, <1>2 DEF S3TypeOK, fileVars
<1>3. ASSUME NEW c \in Caller, StartDownload(c) \/ EndDownload(c) PROVE S3TypeOK'
  BY <1>1, <1>3 DEF S3TypeOK, LocksTypeOK, StartDownload, EndDownload
<1>4. CASE RemoveFiles
  BY <1>1, <1>4 DEF S3TypeOK, RemoveFiles
<1>5. QED
  BY <1>2, <1>3, <1>4 DEF S3Next, s3Vars, AlreadyThere, NoDownload

(* The file manager keeps its types.                                          *)
THEOREM S3TypeCorrect == S3Spec => []S3TypeOK
<1>1. S3Init => S3TypeOK
  BY LocksInitType DEF S3Init, S3TypeOK
<1>2. QED
  BY <1>1, FilesStepType, PTL DEF S3Spec

RemovedWhenClosed == removed => closing = "closed"

LEMMA RemovedStep == RemovedWhenClosed /\ [S3Next]_s3Vars => RemovedWhenClosed'
<1> SUFFICES ASSUME RemovedWhenClosed, [S3Next]_s3Vars PROVE RemovedWhenClosed'
  OBVIOUS
<1> USE DEF RemovedWhenClosed
<1>1. CASE UNCHANGED s3Vars
  BY <1>1 DEF s3Vars, lockVars, fileVars
<1>2. ASSUME NEW c \in Caller, LockStep(c), UNCHANGED fileVars PROVE RemovedWhenClosed'
  BY <1>2 DEF LockStep, fileVars, CallLock, LookUp, Take, SendPanics, GiveUp, Unlock
<1>3. ASSUME NEW c \in Caller,
             AlreadyThere(c) \/ StartDownload(c) \/ NoDownload(c) \/ EndDownload(c)
      PROVE  RemovedWhenClosed'
  BY <1>3 DEF AlreadyThere, StartDownload, NoDownload, EndDownload, CallUnlock, lockVars, fileVars
<1>4. CASE CloseStep /\ UNCHANGED fileVars
  BY <1>4 DEF CloseStep, BeginClose, CloseEntry, EndClose, fileVars
<1>5. CASE RemoveFiles
  BY <1>5 DEF RemoveFiles, lockVars
<1>6. QED
  BY <1>1, <1>2, <1>3, <1>4, <1>5 DEF S3Next

(* No goroutine is left inside when the temporary directory goes, for however *)
(* many goroutines and files (s3.go Close).                                   *)
THEOREM NothingRemovedInUse == S3Spec => []NoRemovalInUse
<1> DEFINE Inv == LocksInv /\ Sealed /\ RemovedWhenClosed
<1>1. S3Init => Inv
  BY LocksInitType, CountedInit, HolderInit, SealedInit DEF S3Init, LocksInv, RemovedWhenClosed
<1>2. Inv /\ [S3Next]_s3Vars => Inv'
  BY StepsOfLocks, LocksStepType, CountedStep, HolderStep, SealedStep, RemovedStep DEF LocksInv
<1>3. Inv => NoRemovalInUse
  BY ClosedIsEmpty DEF NoRemovalInUse, RemovedWhenClosed
<1>4. QED
  BY <1>1, <1>2, <1>3, PTL DEF S3Spec

--------------------------------------------------------------------------------
(* Publishing.  While nothing has failed, every copy of a file that is to be  *)
(* published is still to be started, being published, or published; and the   *)
(* managers are created, and later closed, in their order.                    *)
PublishTypeOK ==
  /\ phase \in {"creating", "collecting", "publishing", "cleaning", "ended"}
  /\ at \in Nat \ {0}
  /\ dirs \subseteq Manager /\ closed \subseteq Manager
  /\ queue \in [Task -> Nat] /\ published \in [Task -> Nat]
  /\ running \subseteq Task
  /\ outcome \in {"ok", "error", "panic"}

Before(m) == {n \in Manager : n < m}
InHand(t) == IF t \in running THEN 1 ELSE 0
AllPublished == \A t \in Task : published[t] = Copies(t[2], t[3])

CreatingInv ==
  phase = "creating" =>
    /\ at \in Manager /\ dirs = Before(at)
    /\ queue = [t \in Task |-> 0]

CollectingInv ==
  phase = "collecting" =>
    /\ at \in Manager
    /\ \A t \in Task : queue[t] = IF t[1] < at THEN Copies(t[2], t[3]) ELSE 0

PublishingInv ==
  phase = "publishing" =>
    /\ at = 1
    /\ outcome = "ok" =>
         \A t \in Task : queue[t] + InHand(t) + published[t] = Copies(t[2], t[3])

CleaningInv ==
  phase = "cleaning" =>
    /\ at \in Manager /\ closed = Before(at)
    /\ outcome = "ok" => AllPublished /\ dirs = Manager \ Before(at)

EndedInv ==
  phase = "ended" =>
    /\ at > Cardinality(Manager) => closed = Manager
    /\ outcome = "ok" => AllPublished /\ dirs = {} /\ closed = Manager

PublishInv ==
  /\ PublishTypeOK
  /\ CreatingInv /\ CollectingInv /\ PublishingInv /\ CleaningInv /\ EndedInv
  /\ phase \in {"creating", "collecting"} =>
       outcome = "ok" /\ published = [t \in Task |-> 0]
  /\ phase \in {"collecting", "publishing"} => dirs = Manager
  /\ phase \in {"creating", "collecting", "publishing"} => closed = {}
  /\ phase # "publishing" => running = {}

LEMMA ManagersCounted ==
  /\ Cardinality(Manager) \in Nat \ {0}
  /\ 1 \in Manager
  /\ \A m : m \in Manager <=> m \in Nat /\ 1 <= m /\ m <= Cardinality(Manager)
<1>1. Cardinality(Manager) \in Nat
  BY ManagersNumbered, FS_CardinalityType
<1>2. QED
  BY <1>1, ManagersNumbered

LEMMA TaskTyped == \A t \in Task : t[1] \in Manager
BY DEF Task

LEMMA CopiesTyped == \A c, i : Copies(c, i) \in {0, 1}
BY DEF Copies

LEMMA PublishInitInv == PublishInit => PublishInv
BY ManagersCounted DEF PublishInit, PublishInv, PublishTypeOK, CreatingInv, CollectingInv,
   PublishingInv, CleaningInv, EndedInv, Before

(* Before the group is started.                                               *)
LEMMA PreparingStep ==
  ASSUME PublishInv,
         CreateManager \/ CreationFails \/ CreationPanics \/ CollectTasks \/ CollectingFails
  PROVE  PublishInv'
<1> USE ManagersCounted, TaskTyped, CopiesTyped
    DEF PublishInv, PublishTypeOK, CreatingInv, CollectingInv, PublishingInv, CleaningInv,
        EndedInv, Before, InHand, AllPublished, LastManager
<1>1. CASE CreateManager
  BY <1>1 DEF CreateManager
<1>2. CASE CreationFails
  BY <1>2 DEF CreationFails
<1>3. CASE CreationPanics
  BY <1>3 DEF CreationPanics
<1>4. CASE CollectTasks
  BY <1>4 DEF CollectTasks
<1>5. CASE CollectingFails
  BY <1>5 DEF CollectingFails
<1>6. QED
  BY <1>1, <1>2, <1>3, <1>4, <1>5

(* The group's tasks.                                                         *)
LEMMA TaskStep ==
  ASSUME PublishInv, NEW t \in Task, StartTask(t) \/ TaskSucceeds(t) \/ TaskFails(t)
  PROVE  PublishInv'
<1> USE ManagersCounted, TaskTyped, CopiesTyped
    DEF PublishInv, PublishTypeOK, CreatingInv, CollectingInv, PublishingInv, CleaningInv,
        EndedInv, Before, InHand, AllPublished, LastManager
<1>1. CASE StartTask(t)
  BY <1>1 DEF StartTask
<1>2. CASE TaskSucceeds(t)
  BY <1>2 DEF TaskSucceeds
<1>3. CASE TaskFails(t)
  BY <1>3 DEF TaskFails
<1>4. QED
  BY <1>1, <1>2, <1>3

(* The signal, the wait for the group, and the clean-up.                      *)
LEMMA EndingStep ==
  ASSUME PublishInv, Interrupt \/ Wait \/ CloseManager
  PROVE  PublishInv'
<1> USE ManagersCounted, TaskTyped, CopiesTyped
    DEF PublishInv, PublishTypeOK, CreatingInv, CollectingInv, PublishingInv, CleaningInv,
        EndedInv, Before, InHand, AllPublished, LastManager
<1>1. CASE Interrupt
  BY <1>1 DEF Interrupt
<1>2. CASE Wait
  BY <1>2 DEF Wait, AllTasksReturned
<1>3. CASE CloseManager
  BY <1>3 DEF CloseManager
<1>4. QED
  BY <1>1, <1>2, <1>3

LEMMA PublishStepInv == PublishInv /\ [PublishNext]_publishVars => PublishInv'
<1> SUFFICES ASSUME PublishInv, [PublishNext]_publishVars PROVE PublishInv'
  OBVIOUS
<1>1. CASE UNCHANGED publishVars
  BY <1>1 DEF publishVars, PublishInv, PublishTypeOK, CreatingInv, CollectingInv,
     PublishingInv, CleaningInv, EndedInv, Before, InHand, AllPublished
<1>2. QED
  BY <1>1, PreparingStep, TaskStep, EndingStep DEF PublishNext

(* When oprt2 reports success, every file was published once for each         *)
(* component that selects it and every manager is closed, for any managers,   *)
(* components, matchers and limits (main.go, apt.go).                         *)
THEOREM EachPublishedOnce == PublishSpec => []SuccessMeansPublished
<1>1. PublishInv => SuccessMeansPublished
  BY DEF PublishInv, EndedInv, AllPublished, SuccessMeansPublished, Copies, Selected
<1>2. QED
  BY <1>1, PublishInitInv, PublishStepInv, PTL DEF PublishSpec

(* No task loses its files while it runs, and no manager is left open once all*)
(* exist, whichever task fails and whenever the signal comes (main.go).       *)
THEOREM FilesStay == PublishSpec => []FilesOutliveTasks
<1>1. PublishInv => FilesOutliveTasks
  BY TaskTyped DEF PublishInv, PublishTypeOK, EndedInv, FilesOutliveTasks
<1>2. QED
  BY <1>1, PublishInitInv, PublishStepInv, PTL DEF PublishSpec

--------------------------------------------------------------------------------
(* Tokens, for any number of requests and any clocks.                         *)
TokenTypeOK ==
  /\ time \in Nat /\ skew \in Int /\ token \in Int
  /\ lock \subseteq Sender
  /\ reqAt \in [Sender -> {"idle", "waiting", "creating", "sent"}]
  /\ header \in [Sender -> Int]
  /\ since \in [Sender -> Nat]

(* A request that is under way had, when its token was taken or asked for,    *)
(* the buffer but for the difference of the clocks left.                      *)
SentInGrace == \A c \in Sender : reqAt[c] = "sent" => header[c] >= since[c] + Grace

TokenInv == TokenTypeOK /\ SentInGrace

LEMMA SkewMatters ==
  ASSUME NEW n \in Int
  PROVE  Abs(n) \in Nat /\ -n <= Abs(n)
BY DEF Abs

LEMMA TokenInitInv == TokenInit => TokenInv
BY TimesAssumption DEF TokenInit, TokenInv, TokenTypeOK, SentInGrace

LEMMA TokenStepInv == TokenInv /\ [TokenNext]_tokenVars => TokenInv'
<1> SUFFICES ASSUME TokenInv, [TokenNext]_tokenVars PROVE TokenInv'
  OBVIOUS
<1> USE DEF TokenInv
<1>1. Grace \in Int /\ Buffer \in Nat /\ Life \in Nat /\ Buffer <= Life
      /\ Grace <= Buffer /\ Grace <= Buffer + skew
  BY SkewMatters, TimesAssumption DEF Grace, TokenTypeOK
<1>2. skew' = skew /\ Grace' = Grace
  BY DEF TokenNext, tokenVars, TokenTick, RoundTrip, TakeToken, TokenCreated, CreationFailed,
         Arrive, Grace
<1>3. CASE UNCHANGED tokenVars
  BY <1>2, <1>3 DEF tokenVars, TokenTypeOK, SentInGrace
<1>4. CASE TokenTick
  BY <1>2, <1>4 DEF TokenTick, TokenTypeOK, SentInGrace
<1>5. ASSUME NEW c \in Sender, RoundTrip(c) \/ CreationFailed(c) \/ Arrive(c) PROVE TokenInv'
  BY <1>2, <1>5 DEF RoundTrip, CreationFailed, Arrive, TokenTypeOK, SentInGrace
<1>6. ASSUME NEW c \in Sender, TakeToken(c) PROVE TokenInv'
  <2>1. since'[c] = time /\ \A d \in Sender \ {c} : since'[d] = since[d]
    BY <1>6 DEF TakeToken, TokenTypeOK
  <2>2. CASE GoodEnough
    <3>1. header' = [header EXCEPT ![c] = token] /\ reqAt' = [reqAt EXCEPT ![c] = "sent"]
      BY <1>6, <2>2 DEF TakeToken, Use
    <3>2. token >= time + Grace
      BY <1>1, <2>2 DEF GoodEnough, LocalTime, TokenTypeOK
    <3>3. TokenTypeOK'
      BY <1>6, <2>2, <3>1 DEF TakeToken, TokenTypeOK
    <3>4. SentInGrace'
      BY <1>2, <2>1, <3>1, <3>2 DEF TokenTypeOK, SentInGrace
    <3>5. QED
      BY <3>3, <3>4
  <2>3. CASE ~GoodEnough
    <3>1. header' = header /\ reqAt' = [reqAt EXCEPT ![c] = "creating"]
      BY <1>6, <2>3 DEF TakeToken
    <3>2. TokenTypeOK'
      BY <1>6, <2>3, <3>1 DEF TakeToken, TokenTypeOK
    <3>3. SentInGrace'
      BY <1>2, <2>1, <3>1 DEF TokenTypeOK, SentInGrace
    <3>4. QED
      BY <3>2, <3>3
  <2>4. QED
    BY <2>2, <2>3
<1>7. ASSUME NEW c \in Sender, TokenCreated(c) PROVE TokenInv'
  <2>1. PICK made \in since[c]..time : token' = made + Life
    BY <1>7 DEF TokenCreated
  <2>2. made \in Int /\ since[c] <= made
    BY <2>1 DEF TokenTypeOK
  <2>3. token' \in Int /\ token' >= since[c] + Grace
    BY <1>1, <2>1, <2>2 DEF TokenTypeOK
  <2>4. header' = [header EXCEPT ![c] = token'] /\ reqAt' = [reqAt EXCEPT ![c] = "sent"]
    BY <1>7 DEF TokenCreated, Use
  <2>5. TokenTypeOK'
    BY <1>7, <2>3, <2>4 DEF TokenCreated, TokenTypeOK
  <2>6. SentInGrace'
    BY <1>2, <1>7, <2>3, <2>4 DEF TokenCreated, TokenTypeOK, SentInGrace
  <2>7. QED
    BY <2>5, <2>6
<1>8. QED
  BY <1>3, <1>4, <1>5, <1>6, <1>7 DEF TokenNext

(* For any lifetime of tokens, any difference of the clocks and any number of *)
(* requests, a request that is not under way for longer than what that        *)
(* difference leaves of the buffer arrives with a good token (github.go       *)
(* RoundTrip, getAccessToken).                                                *)
THEOREM TokensInTime == TokenSpec => []ArrivesInTime
<1>1. TokenInv => ArrivesInTime
  <2> SUFFICES ASSUME TokenInv, NEW c \in Sender, reqAt[c] = "sent", time <= since[c] + Grace
               PROVE  time <= header[c]
    BY DEF ArrivesInTime
  <2>1. Grace \in Int
    BY SkewMatters, TimesAssumption DEF Grace, TokenInv, TokenTypeOK
  <2>2. QED
    BY <2>1 DEF TokenInv, TokenTypeOK, SentInGrace
<1>2. QED
  BY <1>1, TokenInitInv, TokenStepInv, PTL DEF TokenSpec

--------------------------------------------------------------------------------
(* Naturals have a least element.                                             *)
LEMMA LeastOfNaturals ==
  ASSUME NEW S \in SUBSET Nat, S # {}
  PROVE  \E n \in S : \A m \in S : n <= m
<1> DEFINE less == {ss \in Nat \X Nat : ss[1] < ss[2]}
<1>1. IsWellFoundedOn(less, Nat)
  BY NatLessThanWellFounded DEF OpToRel
<1> HIDE DEF less
<1>2. PICK n \in S : \A m \in S : ~(<<m, n>> \in less)
  BY <1>1, WFMin
<1>3. ASSUME NEW m \in S PROVE n <= m
  <2>1. <<m, n>> \notin less
    BY <1>2
  <2>2. m \in Nat /\ n \in Nat
    OBVIOUS
  <2>3. ~(m < n)
    BY <2>1, <2>2 DEF less
  <2>4. QED
    BY <2>2, <2>3
<1>4. QED
  BY <1>3

Stores == Levels \X Kinds

(* Of the items of one name one is the last.                                  *)
LEMMA OneIsLast ==
  ASSUME NEW i \in DOMAIN Items
  PROVE  \E n \in DOMAIN Items :
           /\ Items[n].name = Items[i].name
           /\ \A m \in DOMAIN Items : m > n => Items[m].name # Items[n].name
<1> DEFINE same == {n \in DOMAIN Items : Items[n].name = Items[i].name}
           behind == {Len(Items) - n : n \in same}
<1>1. Len(Items) \in Nat /\ DOMAIN Items = 1..Len(Items)
  BY ItemsTyped
<1>2. behind \in SUBSET Nat /\ Len(Items) - i \in behind
  BY <1>1
<1> HIDE DEF behind
<1>3. PICK d \in behind : \A e \in behind : d <= e
  BY <1>2, LeastOfNaturals, Zenon
<1> USE DEF behind
<1>4. PICK n \in same : d = Len(Items) - n
  OBVIOUS
<1>5. ASSUME NEW m \in DOMAIN Items, m > n PROVE Items[m].name # Items[n].name
  <2>1. SUFFICES ASSUME m \in same PROVE FALSE
    OBVIOUS
  <2>2. d <= Len(Items) - m
    BY <1>3, <2>1
  <2>3. QED
    BY <1>1, <1>4, <1>5, <2>2
<1>6. QED
  BY <1>4, <1>5

(* The steps behind the one that establishes a fact.                          *)
Validated == {"token", "credentials", "secret", "variable", "populate", "mask", "write",
              "migrate", "ok"}
Identified == Validated \ {"token"}
HasRead(kind) ==
  IF kind = "secret" THEN Identified \ {"credentials", "secret"}
  ELSE Identified \ {"credentials", "secret", "variable"}
Unread(kind) == ({"validate", "token"} \cup Identified) \ HasRead(kind)
Populated == {"mask", "write", "migrate", "ok"}

EnvTypeOK ==
  /\ stepAt \in Validated \cup {"validate", "failed"}
  /\ had = [x \in Stores |-> had[x]]

(* What was read of a kind is what the job is to see, but for a warning.      *)
ReadRight(kind) ==
  had[<<"env", kind>>] =
    IF jwt.environment /\ kind \notin warned THEN stores[<<"env", kind>>] ELSE {}

(* Each item has its value, that of another item of its name beside it.       *)
ValuesRight ==
  /\ DOMAIN values = DOMAIN Items
  /\ \A n \in DOMAIN Items : values[n] = Due(Items[n])

SecretsMasked(shown) == {v \in shown : v.kind = "secret"} \subseteq masked

LastsOnly ==
  /\ \A i \in Range(Items) : \E v \in exported : v.name = i.name
  /\ \A v \in exported : \E n \in DOMAIN Items :
       /\ v = Due(Items[n])
       /\ \A m \in DOMAIN Items : m > n => Items[m].name # v.name

Results ==
  /\ LastsOnly
  /\ SecretsMasked(exported)
  /\ Genuine(jwt) /\ Complete(config)

EnvInv ==
  /\ EnvTypeOK
  /\ stepAt \in Validated => Complete(config)
  /\ stepAt \in Identified => Genuine(jwt)
  /\ \A kind \in Kinds : stepAt \in HasRead(kind) => ReadRight(kind)
  /\ \A kind \in Kinds : stepAt \in Unread(kind) => kind \notin warned
  /\ stepAt \in Populated => ValuesRight
  /\ stepAt \in {"write", "migrate", "ok"} => SecretsMasked(Range(values))
  /\ stepAt \notin {"migrate", "ok", "failed"} => exported = {}
  /\ exported # {} \/ stepAt \in {"migrate", "ok"} => Results

LEMMA EnvInitInv == EnvInit => EnvInv
BY DEF EnvInit, EnvInv, EnvTypeOK, Validated, Identified, HasRead, Unread, Populated, Stores

(* A step that only goes on, without new facts.                               *)
LEMMA StepInPlace ==
  ASSUME EnvInv, UNCHANGED <<config, jwt, stores, had, warned, values, masked, exported>>,
         \/ stepAt' \in {stepAt, "failed"}
         \/ stepAt = "validate" /\ stepAt' = "token" /\ Complete(config)
         \/ stepAt = "token" /\ stepAt' = "credentials" /\ Genuine(jwt)
         \/ stepAt = "credentials" /\ stepAt' = "secret"
         \/ stepAt = "migrate" /\ stepAt' = "ok"
  PROVE  EnvInv'
<1> USE DEF Validated, Identified, HasRead, Unread, Populated, Kinds
<1>1. /\ EnvTypeOK' /\ (ValuesRight <=> ValuesRight') /\ (Results <=> Results')
      /\ (SecretsMasked(Range(values)) <=> SecretsMasked(Range(values))')
      /\ \A kind \in Kinds : ReadRight(kind) <=> ReadRight(kind)'
      /\ (Complete(config) <=> Complete(config)') /\ (Genuine(jwt) <=> Genuine(jwt)')
  BY DEF EnvInv, EnvTypeOK, ValuesRight, Results, LastsOnly, SecretsMasked, ReadRight, Due,
         Complete, Genuine
<1>2. QED
  BY <1>1 DEF EnvInv, EnvTypeOK

LEMMA EnvStepInv == EnvInv /\ [EnvNext]_envVars => EnvInv'
<1> SUFFICES ASSUME EnvInv, [EnvNext]_envVars PROVE EnvInv'
  OBVIOUS
<1>1. CASE UNCHANGED envVars
  BY <1>1, StepInPlace DEF envVars
<1>2. CASE Validate
  BY <1>2, StepInPlace DEF Validate, GoOn
<1>3. CASE GetAWSSessionName
  BY <1>3, StepInPlace DEF GetAWSSessionName, GoOn
<1>4. CASE GetIdentityToken \/ CallRefused \/ Upload
  BY <1>4, StepInPlace DEF GetIdentityToken, CallRefused, Upload, GoOn
<1>5. ASSUME NEW kind \in Kinds, InitializeStore(kind) PROVE EnvInv'
  <2>1. PICK reached \in BOOLEAN :
          /\ ~reached => jwt.environment
          /\ had' = [x \in Stores |->
                       IF x[2] # kind THEN had[x]
                       ELSE IF x[1] = "repo" \/ (jwt.environment /\ reached) THEN stores[x]
                       ELSE {}]
          /\ warned' = IF reached THEN warned ELSE warned \cup {kind}
    BY <1>5 DEF InitializeStore, Stores
  <2>2. /\ stepAt = kind /\ stepAt' = After(kind)
        /\ UNCHANGED <<config, jwt, stores, values, masked, exported>>
    BY <1>5 DEF InitializeStore, GoOn
  <2>3. /\ stepAt \in {"secret", "variable"}
        /\ stepAt' = IF stepAt = "secret" THEN "variable" ELSE "populate"
    BY <2>2 DEF After, Kinds
  <2>4. ReadRight(kind)'
    <3>1. <<"env", kind>> \in Stores
      BY DEF Stores, Levels
    <3>2. had'[<<"env", kind>>] = IF jwt.environment /\ reached THEN stores[<<"env", kind>>] ELSE {}
      BY <2>1, <3>1
    <3>3. kind \notin warned
      BY <2>2, <2>3 DEF EnvInv, HasRead, Unread, Identified, Validated
    <3>4. QED
      BY <2>1, <2>2, <3>2, <3>3 DEF ReadRight
  <2>5. \A other \in Kinds \ {kind} : ReadRight(other) => ReadRight(other)'
    <3> SUFFICES ASSUME NEW other \in Kinds \ {kind}, ReadRight(other) PROVE ReadRight(other)'
      OBVIOUS
    <3>1. <<"env", other>> \in Stores
      BY DEF Stores, Levels
    <3>2. had'[<<"env", other>>] = had[<<"env", other>>]
      BY <2>1, <3>1
    <3>3. QED
      BY <2>1, <2>2, <3>2 DEF ReadRight
  <2>6. EnvTypeOK'
    <3>1. had' = [x \in Stores |-> had'[x]]
      BY <2>1
    <3>2. QED
      BY <2>3, <3>1 DEF EnvTypeOK, Validated
  <2>7. Complete(config)' /\ Genuine(jwt)'
    BY <2>2, <2>3 DEF EnvInv, Validated, Identified, Complete, Genuine
  <2>8. exported' = {}
    BY <2>2, <2>3 DEF EnvInv
  <2>9. ASSUME NEW other \in Kinds, stepAt' \in HasRead(other) PROVE ReadRight(other)'
    <3>1. CASE other = kind
      BY <2>4, <3>1
    <3>2. CASE other # kind
      <4>1. stepAt \in HasRead(other)
        BY <2>2, <2>3, <2>9, <3>2 DEF HasRead, Identified, Validated, Kinds
      <4>2. QED
        BY <2>5, <3>2, <4>1 DEF EnvInv
    <3>3. QED
      BY <3>1, <3>2
  <2>10. stepAt' \notin Populated \cup {"write", "migrate", "ok", "failed"}
    BY <2>3 DEF Populated
  <2>11. ASSUME NEW other \in Kinds,
                stepAt' \in Unread(other)
         PROVE  other \notin warned'
    <3>1. /\ other # kind
          /\ stepAt \in Unread(other)
      BY <2>2, <2>3, <2>11 DEF HasRead, Unread, Identified, Validated, Kinds
    <3>2. QED
      BY <2>1, <3>1 DEF EnvInv
  <2>12. QED
    BY <2>6, <2>7, <2>8, <2>9, <2>10, <2>11 DEF EnvInv
<1>6. CASE PopulateEnvValues
  <2>1. /\ stepAt = "populate"
        /\ UNCHANGED <<config, jwt, stores, had, warned, masked, exported>>
        /\ stepAt' \in {"mask", "failed"}
    BY <1>6 DEF PopulateEnvValues, GoOn
  <2>2. /\ EnvTypeOK' /\ exported' = {}
        /\ Complete(config)' /\ Genuine(jwt)'
        /\ \A kind \in Kinds : ReadRight(kind) /\ ReadRight(kind)'
    <3>1. \A kind \in Kinds : ReadRight(kind)
      BY <2>1 DEF EnvInv, HasRead, Identified, Validated
    <3>2. \A kind \in Kinds : ReadRight(kind)'
      BY <2>1, <3>1 DEF ReadRight
    <3>3. QED
      BY <2>1, <3>1, <3>2 DEF EnvInv, EnvTypeOK, Validated, Identified, Complete, Genuine
  <2>3. stepAt' = "mask" => ValuesRight'
    <3> SUFFICES ASSUME stepAt' = "mask"
                 PROVE  /\ DOMAIN values' = DOMAIN Items
                        /\ \A n \in DOMAIN Items : values'[n] = Due(Items[n])
      BY <2>1 DEF ValuesRight, Due
    <3>1. values' = [n \in DOMAIN Items |-> ValueOf(Items[n])]
      BY <1>6 DEF PopulateEnvValues, GoOn
    <3>2. ASSUME NEW n \in DOMAIN Items PROVE ValueOf(Items[n]) = Due(Items[n])
      <4>1. Items[n].kind \in Kinds
        BY ItemsTyped DEF Range
      <4>2. ReadRight(Items[n].kind)
        BY <2>2, <4>1
      <4>3. LevelOf(Items[n].kind, Items[n].key) =
              IF /\ jwt.environment /\ Items[n].kind \notin warned
                 /\ Items[n].key \in stores[<<"env", Items[n].kind>>]
              THEN "env" ELSE "repo"
        BY <4>2 DEF LevelOf, ReadRight
      <4>4. QED
        BY <4>3 DEF Due, ValueOf
    <3>3. QED
      BY <3>1, <3>2
  <2>4. \A kind \in Kinds : stepAt' \notin Unread(kind)
    BY <2>1 DEF Unread, HasRead, Identified, Validated, Kinds
  <2>5. QED
    BY <2>1, <2>2, <2>3, <2>4 DEF EnvInv, Populated
<1>7. CASE MaskAllSecretValues
  <2>1. /\ stepAt = "mask" /\ stepAt' = "write"
        /\ masked' = {v \in Range(values) : v.kind = "secret"}
        /\ UNCHANGED <<config, jwt, stores, had, warned, values, exported>>
    BY <1>7 DEF MaskAllSecretValues, GoOn
  <2>2. EnvTypeOK' /\ exported' = {} /\ Complete(config)' /\ Genuine(jwt)'
    BY <2>1 DEF EnvInv, EnvTypeOK, Validated, Identified, Complete, Genuine
  <2>3. \A kind \in Kinds : ReadRight(kind)'
    BY <2>1 DEF EnvInv, HasRead, Identified, Validated, ReadRight
  <2>4. ValuesRight'
    BY <2>1 DEF EnvInv, Populated, ValuesRight, Due
  <2>5. SecretsMasked(Range(values))'
    BY <2>1 DEF SecretsMasked
  <2>6. \A kind \in Kinds : stepAt' \notin Unread(kind)
    BY <2>1 DEF Unread, HasRead, Identified, Validated, Kinds
  <2>7. QED
    BY <2>1, <2>2, <2>3, <2>4, <2>5, <2>6 DEF EnvInv
<1>8. CASE WriteGithubEnv
  <2>1. /\ stepAt = "write" /\ stepAt' = "migrate"
        /\ exported' = {values[n] : n \in {m \in DOMAIN values : ~IsReplaced(m)}}
        /\ UNCHANGED <<config, jwt, stores, had, warned, values, masked>>
    BY <1>8 DEF WriteGithubEnv, GoOn
  <2>2. EnvTypeOK' /\ Complete(config)' /\ Genuine(jwt)'
    BY <2>1 DEF EnvInv, EnvTypeOK, Validated, Identified, Complete, Genuine
  <2>3. \A kind \in Kinds : ReadRight(kind)'
    BY <2>1 DEF EnvInv, HasRead, Identified, Validated, ReadRight
  <2>4. ValuesRight /\ ValuesRight'
    BY <2>1 DEF EnvInv, Populated, ValuesRight, Due
  <2>5. SecretsMasked(Range(values)) /\ SecretsMasked(Range(values))'
    BY <2>1 DEF EnvInv, SecretsMasked
  <2>6. \A n \in DOMAIN Items :
          Due(Items[n]).name = Items[n].name /\ Due(Items[n])' = Due(Items[n])
    BY <2>1 DEF Due
  <2>7. exported' = {Due(Items[n]) : n \in
          {k \in DOMAIN Items : \A m \in DOMAIN Items : m > k => Items[m].name # Items[k].name}}
    BY <2>1, <2>4, <2>6 DEF ValuesRight, IsReplaced
  <2>8. LastsOnly'
    <3>1. ASSUME NEW i \in DOMAIN Items
          PROVE  \E v \in exported' : v.name = Items[i].name
      BY <2>6, <2>7, OneIsLast
    <3>2. ASSUME NEW v \in exported'
          PROVE  \E n \in DOMAIN Items :
                   /\ v = Due(Items[n])'
                   /\ \A m \in DOMAIN Items : m > n => Items[m].name # v.name
      BY <2>6, <2>7
    <3>3. QED
      BY <3>1, <3>2 DEF LastsOnly, Range
  <2>9. exported' \subseteq Range(values) /\ masked' = masked
    BY <2>1 DEF Range
  <2>10. Results'
    BY <2>2, <2>5, <2>8, <2>9 DEF Results, SecretsMasked
  <2>11. \A kind \in Kinds : stepAt' \notin Unread(kind)
    BY <2>1 DEF Unread, HasRead, Identified, Validated, Kinds
  <2>12. QED
    BY <2>1, <2>2, <2>3, <2>4, <2>5, <2>10, <2>11 DEF EnvInv
<1>9. QED
  BY <1>1, <1>2, <1>3, <1>4, <1>5, <1>6, <1>7, <1>8 DEF EnvNext

(* For any items, also of one name, and any stores, tokens and configurations *)
(* the next steps of a job see under each name the value of its last item, at *)
(* the level due to the job and masked if secret, or nothing at all           *)
(* (cmd/env-kvstore.go run).                                                  *)
THEOREM ValuesCorrect == EnvSpec => []ValuesOfTheEnvironment
<1>1. EnvInv => ValuesOfTheEnvironment
  BY DEF EnvInv, Results, LastsOnly, SecretsMasked, ValuesOfTheEnvironment
<1>2. QED
  BY <1>1, EnvInitInv, EnvStepInv, PTL DEF EnvSpec

--------------------------------------------------------------------------------
(* Previews.  What a job may be.                                              *)
Deploying == {"deploying", "finding", "posting", "waiting"}
Status == {"none", "running", "done", "failed"}
Stages == {"idle", "ok", "failed", "looking", "creating"} \cup Deploying
JobType == [stage : Stages, tried : Nat, app : App, seen : Status, mine : Nat, retries : Int]

PreviewTypeOK ==
  /\ branches \subseteq App
  /\ builds \in [App -> Status]
  /\ thread \in Seq({"talk", "preview"})
  /\ job \in JobType
  /\ lost \in BOOLEAN

OneBranch == \A a, b \in branches : a = b

(* A job that is to create the branch knows that no app has it.               *)
BranchesInv ==
  /\ ~lost => OneBranch
  /\ ~lost /\ job.stage = "creating" => branches = {}
  /\ job.stage \in Deploying => job.app \in branches

(* A job that is to post a comment has seen the first page without one, and   *)
(* comments come after those that are there.                                  *)
NoneOnFirstPage == \A n \in Previews : n > FirstPage
ThreadInv ==
  /\ NoneOnFirstPage \/ (\A m, n \in Previews : m = n)
  /\ job.stage = "posting" /\ job.mine = 0 => NoneOnFirstPage

PreviewInv == PreviewTypeOK /\ BranchesInv /\ ThreadInv

LEMMA AppsKnown ==
  /\ Len(Apps) \in Nat \ {0}
  /\ \A n \in 1..Len(Apps) : Apps[n] \in App
BY AppsListed DEF App, Range

LEMMA FoundNone ==
  ASSUME PreviewTypeOK
  PROVE  FoundOn(thread) \in Nat /\ (FoundOn(thread) = 0 => NoneOnFirstPage)
<1> DEFINE places == {n \in DOMAIN thread : n <= FirstPage /\ thread[n] = "preview"}
<1>1. places \in SUBSET Nat /\ 0 \notin places
  BY DEF PreviewTypeOK
<1>2. CASE places = {}
  <2>1. NoneOnFirstPage
    BY <1>2, AppsListed DEF NoneOnFirstPage, Previews, PreviewTypeOK
  <2>2. QED
    BY <1>2, <2>1 DEF FoundOn
<1>3. CASE places # {}
  <2>1. PICK n \in places : \A m \in places : n <= m
    BY <1>1, <1>3, LeastOfNaturals
  <2>2. FoundOn(thread) = Min(places)
    BY <1>3 DEF FoundOn
  <2> HIDE DEF places
  <2>3. Min(places) \in places
    BY <2>1, Zenon DEF Min
  <2>4. QED
    BY <1>1, <2>2, <2>3
<1>4. QED
  BY <1>2, <1>3

(* A new comment leaves what is on the first page as it is.                   *)
LEMMA ThreadGrows ==
  ASSUME PreviewTypeOK, ThreadInv, NEW c \in {"talk", "preview"}, thread' = Append(thread, c),
         c = "preview" => NoneOnFirstPage
  PROVE  /\ thread' \in Seq({"talk", "preview"})
         /\ c = "talk" => Previews' = Previews
         /\ (NoneOnFirstPage \/ (\A m, n \in Previews : m = n))'
<1>1. /\ Len(thread) \in Nat /\ DOMAIN thread = 1..Len(thread)
      /\ thread' \in Seq({"talk", "preview"})
      /\ DOMAIN thread' = 1..(Len(thread) + 1)
      /\ \A n \in 1..Len(thread) : thread'[n] = thread[n]
      /\ thread'[Len(thread) + 1] = c
  BY DEF PreviewTypeOK
<1>2. Previews' = IF c = "talk" THEN Previews ELSE Previews \cup {Len(thread) + 1}
  BY <1>1 DEF Previews
<1>3. \A n \in Previews : n \in 1..Len(thread)
  BY <1>1 DEF Previews
<1>4. QED
  BY <1>1, <1>2, <1>3, AppsListed DEF ThreadInv, NoneOnFirstPage

(* A job that starts or ends.                                                 *)
LEMMA JobStarts ==
  ASSUME NEW s \in Stages
  PROVE  /\ JobAt(s) \in JobType /\ JobAt(s).stage = s
         /\ \A n \in Int : [JobAt(s) EXCEPT !.retries = n] \in JobType
         /\ \A n \in Int : [JobAt(s) EXCEPT !.retries = n].stage = s
<1>1. Apps[1] \in App
  BY AppsKnown
<1>2. JobAt(s) \in JobType
  BY <1>1 DEF JobAt, JobType, Status
<1>3. JobAt(s).stage = s
  BY DEF JobAt
<1>4. QED
  BY <1>2, <1>3 DEF JobType

(* What is left to show of a step that leaves the thread alone.               *)
LEMMA QuietStep ==
  ASSUME PreviewInv, UNCHANGED <<thread, lost>>, job' \in JobType,
         branches' \subseteq App, builds' \in [App -> Status], BranchesInv',
         job'.stage = "posting" /\ job'.mine = 0 => NoneOnFirstPage
  PROVE  PreviewInv'
BY DEF PreviewInv, PreviewTypeOK, ThreadInv, NoneOnFirstPage, Previews

LEMMA PreviewStepInv == PreviewInv /\ [PreviewNext]_previewVars => PreviewInv'
<1> SUFFICES ASSUME PreviewInv, [PreviewNext]_previewVars PROVE PreviewInv'
  OBVIOUS
<1>0. /\ job \in JobType /\ branches \subseteq App /\ builds \in [App -> Status]
      /\ thread \in Seq({"talk", "preview"}) /\ lost \in BOOLEAN
      /\ BranchesInv /\ ThreadInv
  BY DEF PreviewInv, PreviewTypeOK
<1>1. CASE UNCHANGED previewVars
  BY <1>1 DEF previewVars, PreviewInv, PreviewTypeOK, BranchesInv, OneBranch, ThreadInv,
     NoneOnFirstPage, Previews
<1>2. CASE BeginPreview
  <2>1. PICK n \in {0, MaxRetries} : job' = [JobAt("looking") EXCEPT !.retries = n]
    BY <1>2 DEF BeginPreview
  <2>2. n \in Int /\ "looking" \in Stages
    BY AppsListed DEF Stages
  <2>3. job' \in JobType /\ job'.stage = "looking"
    BY <2>1, <2>2, JobStarts
  <2>4. BranchesInv'
    BY <1>0, <1>2, <2>3 DEF BeginPreview, BranchesInv, OneBranch, Deploying
  <2>5. QED
    BY <1>0, <1>2, <2>3, <2>4, QuietStep DEF BeginPreview
<1>3. ASSUME NEW s \in {"ok", "failed"}, job' = JobAt(s), UNCHANGED <<branches, lost>>
      PROVE  job' \in JobType /\ job'.stage = s /\ BranchesInv'
  <2>1. job' \in JobType /\ job'.stage = s
    BY <1>3, JobStarts DEF Stages
  <2>2. QED
    BY <1>0, <1>3, <2>1 DEF BranchesInv, OneBranch, Deploying
<1>4. CASE CallFails
  <2>1. job' \in JobType /\ job'.stage = "failed" /\ BranchesInv'
    BY <1>3, <1>4 DEF CallFails
  <2>2. QED
    BY <1>0, <1>4, <2>1, QuietStep DEF CallFails
<1>5. CASE FindExistingBranch
  <2>1. PICK silent \in SUBSET App :
          LET found == branches \ silent
          IN  /\ Usable(found, silent)
              /\ \/ /\ found = {}
                    /\ job' = [job EXCEPT !.stage = "creating"]
                 \/ \E a \in found : job' = [job EXCEPT !.stage = "deploying", !.app = a]
    BY <1>5 DEF FindExistingBranch
  <2>2. CASE branches \ silent = {} /\ job' = [job EXCEPT !.stage = "creating"]
    <3>1. job' \in JobType /\ job'.stage = "creating"
      BY <1>0, <2>2 DEF JobType, Stages
    <3>2. branches = {}
      BY <2>1, <2>2 DEF Usable
    <3>3. BranchesInv'
      BY <1>0, <1>5, <3>1, <3>2 DEF FindExistingBranch, BranchesInv, OneBranch, Deploying
    <3>4. QED
      BY <1>0, <1>5, <3>1, <3>3, QuietStep DEF FindExistingBranch
  <2>3. ASSUME NEW a \in branches, job' = [job EXCEPT !.stage = "deploying", !.app = a]
        PROVE  PreviewInv'
    <3>1. job' \in JobType /\ job'.stage = "deploying" /\ job'.app = a
      BY <1>0, <2>3 DEF JobType, Stages, Deploying
    <3>2. BranchesInv'
      <4>1. UNCHANGED <<branches, lost>>
        BY <1>5 DEF FindExistingBranch
      <4>2. QED
        BY <1>0, <2>3, <3>1, <4>1 DEF BranchesInv, OneBranch, Deploying
    <3>3. QED
      BY <1>0, <1>5, <3>1, <3>2, QuietStep DEF FindExistingBranch
  <2>4. QED
    BY <2>1, <2>2, <2>3
<1>6. CASE CreateBranch
  <2> DEFINE a == Apps[job.tried + 1]
             goOn == [job EXCEPT !.tried = @ + 1]
  <2>1. job.stage = "creating" /\ a \in App
    BY <1>0, <1>6, AppsKnown DEF CreateBranch, JobType
  <2>2. goOn \in JobType /\ goOn.stage = "creating"
    BY <1>0, <2>1 DEF JobType
  <2>3. CASE /\ branches' = branches \cup {a} /\ lost' = lost
             /\ job' = [job EXCEPT !.stage = "deploying", !.app = a]
    <3> HIDE DEF a
    <3>1. job' \in JobType /\ job'.stage = "deploying" /\ job'.app = a
      BY <1>0, <2>1, <2>3 DEF JobType, Stages, Deploying
    <3>2. BranchesInv'
      BY <1>0, <2>1, <2>3, <3>1 DEF BranchesInv, OneBranch, Deploying
    <3>3. QED
      BY <1>0, <1>6, <2>1, <2>3, <3>1, <3>2, QuietStep DEF CreateBranch
  <2>4. CASE branches' = branches \cup {a} /\ lost' = TRUE /\ job' = goOn
    <3> HIDE DEF a, goOn
    <3>1. BranchesInv'
      BY <2>2, <2>4 DEF BranchesInv, Deploying
    <3>2. ThreadInv'
      BY <1>0, <1>6, <2>2, <2>4 DEF CreateBranch, ThreadInv, NoneOnFirstPage, Previews
    <3>3. QED
      BY <1>0, <1>6, <2>1, <2>2, <2>4, <3>1, <3>2 DEF CreateBranch, PreviewInv, PreviewTypeOK
  <2>5. CASE job' = goOn /\ UNCHANGED <<branches, lost>>
    <3> HIDE DEF a, goOn
    <3>1. BranchesInv'
      BY <1>0, <2>1, <2>2, <2>5 DEF BranchesInv, OneBranch, Deploying
    <3>2. QED
      BY <1>0, <1>6, <2>2, <2>5, <3>1, QuietStep DEF CreateBranch
  <2>6. QED
    BY <1>6, <2>3, <2>4, <2>5 DEF CreateBranch
<1>7. CASE EnsureDeployment
  <2>1. builds' \in [App -> Status]
    BY <1>0, <1>7 DEF EnsureDeployment, JobType, Status
  <2>2. builds'[job.app] \in Status
    BY <1>0, <2>1 DEF JobType
  <2>3. job' \in JobType /\ job'.stage = "finding" /\ job'.app = job.app /\ job.stage = "deploying"
    BY <1>0, <1>7, <2>2 DEF EnsureDeployment, JobType, Stages, Deploying
  <2>4. BranchesInv'
    BY <1>0, <1>7, <2>3 DEF EnsureDeployment, BranchesInv, OneBranch, Deploying
  <2>5. QED
    BY <1>0, <1>7, <2>1, <2>3, <2>4, QuietStep DEF EnsureDeployment
<1>8. CASE FindComment
  <2>1. FoundOn(thread) \in Nat /\ (FoundOn(thread) = 0 => NoneOnFirstPage)
    BY FoundNone DEF PreviewInv
  <2>2. /\ job' \in JobType /\ job'.stage = "posting" /\ job'.app = job.app
        /\ job'.mine = FoundOn(thread) /\ job.stage = "finding"
    BY <1>0, <1>8, <2>1 DEF FindComment, JobType, Stages, Deploying
  <2>3. BranchesInv'
    BY <1>0, <1>8, <2>2 DEF FindComment, BranchesInv, OneBranch, Deploying
  <2>4. QED
    BY <1>0, <1>8, <2>1, <2>2, <2>3, QuietStep DEF FindComment
<1>9. CASE PostPreview
  <2>1. /\ job' \in JobType /\ job'.stage \in {"waiting", "failed", "ok"}
        /\ BranchesInv'
    <3>1. CASE job.retries > 0
      <4>1. job' \in JobType /\ job'.stage = "waiting" /\ job'.app = job.app /\ job.stage = "posting"
        BY <1>0, <1>9, <3>1 DEF PostPreview, JobType, Stages, Deploying
      <4>2. QED
        BY <1>0, <1>9, <4>1 DEF PostPreview, BranchesInv, OneBranch, Deploying
    <3>2. CASE ~(job.retries > 0)
      BY <1>3, <1>9, <3>2 DEF PostPreview
    <3>3. QED
      BY <3>1, <3>2
  <2>2. /\ thread' \in Seq({"talk", "preview"})
        /\ (NoneOnFirstPage \/ (\A m, n \in Previews : m = n))'
    <3>1. CASE job.mine = 0
      BY <1>0, <1>9, <3>1, ThreadGrows DEF PostPreview, PreviewInv, ThreadInv
    <3>2. CASE job.mine # 0
      BY <1>0, <1>9, <3>2 DEF PostPreview, ThreadInv, NoneOnFirstPage, Previews
    <3>3. QED
      BY <3>1, <3>2
  <2>3. QED
    BY <1>0, <1>9, <2>1, <2>2 DEF PostPreview, PreviewInv, PreviewTypeOK, ThreadInv
<1>10. CASE WaitForJobCompletion
  <2> DEFINE status == builds[job.app]
  <2>1. /\ status \in Status /\ job.retries - 1 \in Int /\ job.stage = "waiting"
        /\ UNCHANGED <<branches, thread, lost, builds>>
    BY <1>0, <1>10 DEF WaitForJobCompletion, JobType
  <2> HIDE DEF status
  <2>2. CASE job' = [job EXCEPT !.stage = "finding", !.seen = status, !.retries = 0]
    <3>1. job' \in JobType /\ job'.stage = "finding" /\ job'.app = job.app
      <4>1. "finding" \in Stages /\ 0 \in Int
        BY DEF Stages, Deploying
      <4>2. QED
        BY <1>0, <2>1, <2>2, <4>1 DEF JobType
    <3>2. BranchesInv'
      BY <1>0, <2>1, <3>1 DEF BranchesInv, OneBranch, Deploying
    <3>3. QED
      BY <1>0, <2>1, <3>1, <3>2, QuietStep
  <2>3. CASE job' = JobAt("failed")
    BY <1>0, <1>3, <2>1, <2>3, QuietStep
  <2>4. CASE job' = [job EXCEPT !.seen = status, !.retries = @ - 1]
    <3>1. job' \in JobType /\ job'.stage = "waiting" /\ job'.app = job.app
      BY <1>0, <2>1, <2>4 DEF JobType
    <3>2. BranchesInv'
      BY <1>0, <2>1, <3>1 DEF BranchesInv, OneBranch, Deploying
    <3>3. QED
      BY <1>0, <2>1, <3>1, <3>2, QuietStep
  <2>5. QED
    BY <1>10, <2>2, <2>3, <2>4 DEF WaitForJobCompletion, status
<1>11. ASSUME NEW a \in App, BuildEnds(a) \/ NewCommit(a) PROVE PreviewInv'
  <2>1. builds' \in [App -> Status] /\ UNCHANGED <<branches, thread, job, lost>>
    BY <1>0, <1>11 DEF BuildEnds, NewCommit, Status
  <2>2. QED
    BY <1>0, <2>1, QuietStep DEF BranchesInv, OneBranch, ThreadInv
<1>12. CASE Talk
  <2>1. /\ thread' \in Seq({"talk", "preview"}) /\ Previews' = Previews
        /\ UNCHANGED <<branches, builds, job, lost>>
    BY <1>0, <1>12, ThreadGrows DEF Talk, PreviewInv
  <2>2. QED
    BY <1>0, <2>1 DEF PreviewInv, PreviewTypeOK, BranchesInv, OneBranch, ThreadInv, NoneOnFirstPage
<1>13. QED
  BY <1>1, <1>2, <1>4, <1>5, <1>6, <1>7, <1>8, <1>9, <1>10, <1>11, <1>12 DEF PreviewNext

LEMMA AtMostOne ==
  ASSUME NEW S, \A m, n \in S : m = n
  PROVE  Cardinality(S) <= 1 /\ (S # {} => Cardinality(S) = 1)
<1>1. S = {} \/ \E x : S = {x}
  OBVIOUS
<1>2. QED
  <2>1. CASE S = {}
    BY <2>1, FS_EmptySet
  <2>2. CASE \E x : S = {x}
    <3>1. PICK x : S = {x}
      BY <2>2
    <3>2. Cardinality(S) = 1
      BY <3>1, FS_Singleton
    <3>3. QED
      BY <3>2
  <2>3. QED
    BY <1>1, <2>1, <2>2

(* One branch per pull request and one comment on the first page, for any     *)
(* apps, numbers of jobs and comments, whatever fails (amplify.go,            *)
(* comment.go).                                                               *)
THEOREM OnePreview == PreviewSpec => []PreviewIsUnique
<1>1. PreviewInit => PreviewInv
  <2> SUFFICES ASSUME PreviewInit PROVE PreviewInv
    OBVIOUS
  <2>1. job \in JobType /\ job.stage = "idle"
    BY JobStarts DEF PreviewInit, Stages, Status
  <2>2. PreviewTypeOK
    <3>1. <<>> \in Seq({"talk", "preview"})
      OBVIOUS
    <3>2. builds \in [App -> Status]
      BY DEF PreviewInit, Status
    <3>3. QED
      BY <2>1, <3>1, <3>2 DEF PreviewInit, PreviewTypeOK
  <2>3. Previews = {}
    BY DEF PreviewInit, Previews
  <2>4. BranchesInv /\ ThreadInv
    BY <2>1, <2>3 DEF PreviewInit, BranchesInv, OneBranch, ThreadInv, NoneOnFirstPage, Deploying
  <2>5. QED
    BY <2>2, <2>4 DEF PreviewInv
<1>2. PreviewInv => PreviewIsUnique
  <2> SUFFICES ASSUME PreviewInv PROVE PreviewIsUnique
    OBVIOUS
  <2>1. ~lost => Cardinality(branches) <= 1
    BY AtMostOne DEF PreviewInv, BranchesInv, OneBranch
  <2>2. ASSUME NEW n \in Previews, n <= FirstPage PROVE Cardinality(Previews) = 1
    <3>1. n \in Nat
      BY DEF PreviewInv, PreviewTypeOK, Previews
    <3>2. \A k, m \in Previews : k = m
      BY <2>2, <3>1, AppsListed DEF PreviewInv, ThreadInv, NoneOnFirstPage
    <3>3. QED
      BY <3>2, AtMostOne
  <2>3. QED
    BY <2>1, <2>2 DEF PreviewInv, BranchesInv, PreviewIsUnique, Deploying
<1>3. QED
  BY <1>1, <1>2, PreviewStepInv, PTL DEF PreviewSpec

--------------------------------------------------------------------------------
(* The search for lost logs.  Job j of run r of workflow w has lost its logs. *)
IsLost(w, r, j) ==
  /\ w \in DOMAIN Workflows /\ r \in DOMAIN Workflows[w] /\ ~Workflows[w][r].passedAtFirst
  /\ j \in DOMAIN Workflows[w][r].jobs /\ Workflows[w][r].jobs[j] \in LostKinds

Triple == Nat \X Nat \X Nat

(* u comes before the place where the search is.                              *)
Past(u) ==
  \/ u[1] < workflow
  \/ u[1] = workflow /\ u[2] < run
  \/ u[1] = workflow /\ u[2] = run /\ u[3] < jobAt

SearchTypeOK ==
  /\ workflow \in Nat \ {0} /\ run \in Nat \ {0} /\ jobAt \in Nat /\ errCount \in Nat
  /\ workflow <= Len(Workflows) + 1
  /\ unsure \subseteq Triple /\ IsFiniteSet(unsure)
  /\ search \in {"going", "stuck", "crashed", "done", "failed"}

InRun ==
  jobAt # 0 =>
    /\ workflow \in DOMAIN Workflows /\ run \in DOMAIN Workflows[workflow]
    /\ ~Workflows[workflow][run].passedAtFirst

(* The trackers together have every job so far.                               *)
OnlyLost == runReport \cup workflowReport \cup summary \subseteq LostJobs
RunTracked ==
  jobAt # 0 => \A j \in Nat : j < jobAt /\ IsLost(workflow, run, j) =>
                 <<workflow, run, j>> \in runReport \cup unsure
WorkflowTracked ==
  \A r, j \in Nat : r < run /\ IsLost(workflow, r, j) =>
    <<workflow, r, j>> \in workflowReport \cup unsure
Tracked ==
  \A w, r, j \in Nat : w < workflow /\ IsLost(w, r, j) => <<w, r, j>> \in summary \cup unsure

(* Errors are counted.                                                        *)
UnsureIn(w, r) == {u \in unsure : u[1] = w /\ u[2] = r}
Counted ==
  search # "failed" =>
    /\ \A u \in unsure : Past(u)
    /\ \A w, r \in Nat : Cardinality(UnsureIn(w, r)) <= 3
    /\ jobAt # 0 => Cardinality(UnsureIn(workflow, run)) <= errCount

SearchInv ==
  /\ SearchTypeOK /\ InRun /\ OnlyLost /\ RunTracked /\ WorkflowTracked /\ Tracked /\ Counted
  /\ search = "done" => workflow > Len(Workflows)
  /\ search = "failed" => workflowReport \subseteq summary

LEMMA WorkflowsCounted ==
  /\ Len(Workflows) \in Nat /\ DOMAIN Workflows = 1..Len(Workflows)
  /\ \A w \in DOMAIN Workflows :
       /\ Len(Workflows[w]) \in Nat /\ DOMAIN Workflows[w] = 1..Len(Workflows[w])
       /\ \A r \in DOMAIN Workflows[w] :
            /\ Workflows[w][r].passedAtFirst \in BOOLEAN
            /\ Workflows[w][r].jobs \in Seq(STRING)
            /\ Len(Workflows[w][r].jobs) \in Nat
            /\ DOMAIN Workflows[w][r].jobs = 1..Len(Workflows[w][r].jobs)
<1> DEFINE RunType == [passedAtFirst : BOOLEAN, jobs : Seq(STRING)]
<1>1. Workflows \in Seq(Seq(RunType))
  BY WorkflowsTyped
<1>2. ASSUME NEW x \in RunType
      PROVE  /\ x.passedAtFirst \in BOOLEAN /\ x.jobs \in Seq(STRING)
             /\ Len(x.jobs) \in Nat /\ DOMAIN x.jobs = 1..Len(x.jobs)
  OBVIOUS
<1> HIDE DEF RunType
<1>3. QED
  BY <1>1, <1>2

LEMMA LostJobsAre ==
  /\ \A u \in LostJobs : u \in Triple /\ u = <<u[1], u[2], u[3]>> /\ IsLost(u[1], u[2], u[3])
  /\ \A w, r, j \in Nat : IsLost(w, r, j) => <<w, r, j>> \in LostJobs
<1>1. ASSUME NEW u \in LostJobs
      PROVE  u \in Triple /\ u = <<u[1], u[2], u[3]>> /\ IsLost(u[1], u[2], u[3])
  <2>1. PICK w \in DOMAIN Workflows : \E r \in DOMAIN Workflows[w] : u \in LostIn(w, r)
    BY DEF LostJobs
  <2>2. PICK r \in DOMAIN Workflows[w] : u \in LostIn(w, r)
    BY <2>1
  <2>3. PICK j \in DOMAIN Workflows[w][r].jobs :
          /\ u = <<w, r, j>> /\ ~Workflows[w][r].passedAtFirst
          /\ Workflows[w][r].jobs[j] \in LostKinds
    BY <2>2 DEF LostIn
  <2>4. QED
    BY <2>3, WorkflowsCounted DEF IsLost, Triple
<1>2. ASSUME NEW w \in Nat, NEW r \in Nat, NEW j \in Nat, IsLost(w, r, j)
      PROVE  <<w, r, j>> \in LostJobs
  <2>1. <<w, r, j>> \in LostIn(w, r)
    BY <1>2 DEF IsLost, LostIn
  <2>2. w \in DOMAIN Workflows /\ r \in DOMAIN Workflows[w]
    BY <1>2 DEF IsLost
  <2>3. QED
    BY <2>1, <2>2 DEF LostJobs
<1>3. QED
  BY <1>1, <1>2

LEMMA SameLost == UNCHANGED selfHosted => LostJobs' = LostJobs
                                         /\ \A w, r, j : IsLost(w, r, j)' = IsLost(w, r, j)
BY DEF LostJobs, LostIn, LostKinds, IsLost

LEMMA SearchInitInv == SearchInit => SearchInv
<1> SUFFICES ASSUME SearchInit PROVE SearchInv
  OBVIOUS
<1>1. \A w, r : UnsureIn(w, r) = {}
  BY DEF SearchInit, UnsureIn
<1>2. SearchTypeOK
  BY WorkflowsCounted, FS_EmptySet DEF SearchInit, SearchTypeOK
<1>3. Counted
  BY <1>1, FS_EmptySet DEF SearchInit, Counted
<1>4. QED
  BY <1>2, <1>3, WorkflowsCounted
     DEF SearchInit, SearchInv, InRun, OnlyLost, RunTracked, WorkflowTracked, Tracked, IsLost

(* Steps that only end the search, or let it go on.                           *)
LEMMA HaltStep ==
  ASSUME SearchInv, UNCHANGED <<selfHosted, workflow, run, jobAt, errCount, runReport,
                                workflowReport, unsure>>,
         summary' = summary \/ summary' = summary \cup workflowReport,
         search' \in {"going", "stuck", "crashed", "done", "failed"},
         search = "failed" => search' = "failed",
         search' = "done" => workflow > Len(Workflows),
         search' = "failed" => workflowReport \subseteq summary'
  PROVE  SearchInv'
<1>1. /\ LostJobs' = LostJobs /\ \A w, r, j : IsLost(w, r, j)' = IsLost(w, r, j)
      /\ \A w, r : UnsureIn(w, r)' = UnsureIn(w, r)
      /\ \A u : Past(u)' = Past(u)
  BY SameLost DEF UnsureIn, Past
<1>2. SearchTypeOK' /\ InRun' /\ OnlyLost'
  BY <1>1 DEF SearchInv, SearchTypeOK, InRun, OnlyLost
<1>3. RunTracked' /\ WorkflowTracked' /\ Tracked'
  BY <1>1 DEF SearchInv, RunTracked, WorkflowTracked, Tracked
<1>4. Counted'
  BY <1>1 DEF SearchInv, Counted
<1>5. QED
  BY <1>2, <1>3, <1>4 DEF SearchInv

(* What a step keeps that leaves the record of errors alone.                  *)
LEMMA QuietCount ==
  ASSUME SearchInv, UNCHANGED <<selfHosted, unsure, search>>,
         \A u \in unsure : Past(u) => Past(u)',
         jobAt' # 0 /\ search # "failed" => Cardinality(UnsureIn(workflow', run')) <= errCount'
  PROVE  Counted'
<1>1. \A w, r : UnsureIn(w, r)' = UnsureIn(w, r)
  BY DEF UnsureIn
<1>2. QED
  BY <1>1 DEF SearchInv, Counted

LEMMA SearchStepInv == SearchInv /\ [SearchNext]_searchVars => SearchInv'
<1> SUFFICES ASSUME SearchInv, [SearchNext]_searchVars PROVE SearchInv'
  OBVIOUS
<1>0. UNCHANGED selfHosted
      /\ LostJobs' = LostJobs /\ \A w, r, j : IsLost(w, r, j)' = IsLost(w, r, j)
  <2>1. UNCHANGED selfHosted
    BY DEF SearchNext, searchVars, ListFails, Recovered, Interrupted, SkipRun, BeginRun, CheckJob,
           CheckFails, EndRun, EndWorkflow, EndSearch
  <2>2. QED
    BY <2>1, SameLost
<1>h. /\ SearchTypeOK /\ InRun /\ OnlyLost /\ RunTracked /\ WorkflowTracked /\ Tracked /\ Counted
      /\ search = "done" => workflow > Len(Workflows)
      /\ search = "failed" => workflowReport \subseteq summary
  BY DEF SearchInv
<1>r. workflow <= Len(Workflows) => Runs = Workflows[workflow] /\ workflow \in DOMAIN Workflows
  BY <1>h, WorkflowsCounted DEF Runs, SearchTypeOK
<1>e. workflow > Len(Workflows) => Runs = <<>>
  BY <1>h, WorkflowsCounted DEF Runs, SearchTypeOK
<1>1. CASE UNCHANGED searchVars
  BY <1>1, <1>h, HaltStep DEF searchVars, SearchTypeOK
<1>2. CASE ListFails
  <2>1. search' \in {"stuck", "crashed", "failed"}
    BY <1>2 DEF ListFails, Outcome
  <2>2. QED
    BY <1>2, <2>1, HaltStep DEF ListFails
<1>3. CASE Recovered \/ Interrupted
  BY <1>3, HaltStep DEF Recovered, Interrupted
<1>4. CASE EndSearch
  BY <1>4, HaltStep DEF EndSearch
<1>5. CASE SkipRun
  <2>1. workflow <= Len(Workflows)
    BY <1>5, <1>e, <1>h DEF SkipRun, SearchTypeOK
  <2>2. Workflows[workflow][run].passedAtFirst
    BY <1>5, <1>r, <2>1 DEF SkipRun
  <2>3. \A j : ~IsLost(workflow, run, j)
    BY <2>2 DEF IsLost
  <2>4. SearchTypeOK' /\ InRun' /\ OnlyLost' /\ RunTracked' /\ Tracked'
    BY <1>0, <1>5, <1>h DEF SkipRun, SearchTypeOK, InRun, OnlyLost, RunTracked, Tracked
  <2>5. WorkflowTracked'
    BY <1>0, <1>5, <1>h, <2>3 DEF SkipRun, WorkflowTracked, SearchTypeOK
  <2>6. \A u \in unsure : Past(u) => Past(u)'
    BY <1>5, <1>h DEF SkipRun, Past, SearchTypeOK, Triple
  <2>7. Counted'
    BY <1>5, <2>6, QuietCount DEF SkipRun
  <2>8. QED
    BY <1>5, <1>h, <2>4, <2>5, <2>7 DEF SkipRun, SearchInv
<1>6. CASE BeginRun
  <2>1. workflow <= Len(Workflows)
    BY <1>6, <1>e, <1>h DEF BeginRun, SearchTypeOK
  <2>2. /\ workflow \in DOMAIN Workflows /\ run \in DOMAIN Workflows[workflow]
        /\ ~Workflows[workflow][run].passedAtFirst
    BY <1>6, <1>r, <1>h, <2>1, WorkflowsCounted DEF BeginRun, SearchTypeOK
  <2>3. SearchTypeOK' /\ InRun' /\ OnlyLost' /\ WorkflowTracked' /\ Tracked'
    BY <1>0, <1>6, <1>h, <2>2 DEF BeginRun, SearchTypeOK, InRun, OnlyLost, WorkflowTracked, Tracked
  <2>4. RunTracked'
    BY <1>0, <1>6, <2>2, WorkflowsCounted DEF BeginRun, RunTracked, IsLost
  <2>5. \A u \in unsure : Past(u) => Past(u)'
    BY <1>6, <1>h DEF BeginRun, Past, SearchTypeOK, Triple
  <2>6. search # "failed" => UnsureIn(workflow, run) = {}
    BY <1>6, <1>h DEF BeginRun, Counted, Past, UnsureIn, SearchTypeOK, Triple
  <2>7. Counted'
    BY <1>6, <2>5, <2>6, QuietCount, FS_EmptySet DEF BeginRun
  <2>8. QED
    BY <1>6, <1>h, <2>3, <2>4, <2>7 DEF BeginRun, SearchInv
<1>j. jobAt # 0 => Jobs = Workflows[workflow][run].jobs
  BY <1>h, <1>r, WorkflowsCounted DEF Jobs, InRun
<1>k. \A j : jobAt # 0 /\ IsLost(workflow, run, j) <=>
             jobAt # 0 /\ j \in DOMAIN Jobs /\ Jobs[j] \in LostKinds
  BY <1>h, <1>j DEF IsLost, InRun
<1>7. CASE CheckJob
  <2>1. Jobs[jobAt] \in {"lost", "selfHosted"} /\ ~Ignored(Jobs[jobAt]) <=> Jobs[jobAt] \in LostKinds
    BY DEF Ignored, LostKinds
  <2>2. IsLost(workflow, run, jobAt) <=> Jobs[jobAt] \in LostKinds
    BY <1>7, <1>h, <1>j, <1>k, WorkflowsCounted DEF CheckJob, InRun, SearchTypeOK
  <2>3. runReport' = IF IsLost(workflow, run, jobAt) THEN runReport \cup {<<workflow, run, jobAt>>}
                     ELSE runReport
    BY <1>7, <2>1, <2>2 DEF CheckJob, Here
  <2>4. IsLost(workflow, run, jobAt) => <<workflow, run, jobAt>> \in LostJobs
    BY <1>h, LostJobsAre DEF SearchTypeOK
  <2>5. SearchTypeOK' /\ InRun' /\ OnlyLost' /\ WorkflowTracked' /\ Tracked'
    <3>1. runReport' \subseteq LostJobs
      BY <1>h, <2>3, <2>4 DEF OnlyLost
    <3>2. SearchTypeOK'
      BY <1>7, <1>h, <2>3 DEF CheckJob, SearchTypeOK
    <3>3. InRun' /\ OnlyLost'
      BY <1>0, <1>7, <1>h, <3>1 DEF CheckJob, InRun, OnlyLost
    <3>4. WorkflowTracked' /\ Tracked'
      BY <1>0, <1>7, <1>h DEF CheckJob, WorkflowTracked, Tracked
    <3> QED
      BY <3>2, <3>3, <3>4
  <2>6. RunTracked'
    BY <1>0, <1>7, <1>h, <2>3 DEF CheckJob, RunTracked, SearchTypeOK
  <2>7. \A u \in unsure : Past(u) => Past(u)'
    BY <1>7, <1>h DEF CheckJob, Past, SearchTypeOK, Triple
  <2>8. Counted'
    BY <1>7, <1>h, <2>7, QuietCount DEF CheckJob, Counted
  <2>9. QED
    BY <1>7, <1>h, <2>5, <2>6, <2>8 DEF CheckJob, SearchInv
<1>8. CASE CheckFails
  <2>1. Here \in Triple /\ Here[1] = workflow /\ Here[2] = run /\ Here[3] = jobAt
    BY <1>h DEF Here, SearchTypeOK, Triple
  <2>2. unsure' = unsure \cup {Here} /\ IsFiniteSet(unsure')
    BY <1>8, <1>h, FS_AddElement DEF CheckFails, SearchTypeOK
  <2>3. SearchTypeOK' /\ InRun' /\ OnlyLost' /\ WorkflowTracked' /\ Tracked'
    <3>1. SearchTypeOK' /\ InRun'
      BY <1>8, <1>h, <2>1, <2>2 DEF CheckFails, SearchTypeOK, InRun
    <3>2. /\ summary' \in {summary, summary \cup workflowReport}
          /\ UNCHANGED <<workflow, run, runReport, workflowReport>>
      BY <1>8 DEF CheckFails
    <3>3. OnlyLost' /\ WorkflowTracked' /\ Tracked'
      BY <1>0, <1>h, <2>2, <3>2 DEF OnlyLost, WorkflowTracked, Tracked
    <3>4. QED
      BY <3>1, <3>3
  <2>4. RunTracked'
    BY <1>0, <1>8, <1>h, <2>2 DEF CheckFails, RunTracked, SearchTypeOK, Here
  <2>5. Counted'
    <3> SUFFICES ASSUME search' # "failed" PROVE Counted'
      BY DEF Counted
    <3>1. errCount' = errCount + 1 /\ errCount' <= 3 /\ jobAt' = jobAt + 1 /\ search # "failed"
          /\ UNCHANGED <<workflow, run>> /\ jobAt # 0
      BY <1>8 DEF CheckFails, Tolerated
    <3>2. \A u \in unsure' : Past(u)'
      BY <1>h, <2>1, <2>2, <3>1 DEF Counted, Past, SearchTypeOK, Triple
    <3>3. \A w, r : UnsureIn(w, r)' = IF w = workflow /\ r = run THEN UnsureIn(w, r) \cup {Here}
                                      ELSE UnsureIn(w, r)
      BY <2>1, <2>2 DEF UnsureIn
    <3>4. IsFiniteSet(UnsureIn(workflow, run))
      BY <1>h, FS_Subset DEF UnsureIn, SearchTypeOK
    <3>5. Cardinality(UnsureIn(workflow, run) \cup {Here}) <= errCount + 1
      <4>1. Cardinality(UnsureIn(workflow, run)) \in Nat
        BY <3>4, FS_CardinalityType
      <4>2. Cardinality(UnsureIn(workflow, run)) <= errCount
        BY <1>h, <3>1 DEF Counted
      <4>3. Cardinality(UnsureIn(workflow, run) \cup {Here}) \in
              {Cardinality(UnsureIn(workflow, run)), Cardinality(UnsureIn(workflow, run)) + 1}
        BY <3>4, FS_AddElement
      <4> HIDE DEF UnsureIn
      <4>4. errCount \in Nat
        BY <1>h DEF SearchTypeOK
      <4>5. QED
        BY <4>1, <4>2, <4>3, <4>4
    <3>6. ASSUME NEW w \in Nat, NEW r \in Nat PROVE Cardinality(UnsureIn(w, r)') <= 3
      <4>1. CASE w = workflow /\ r = run
        <5>1. UnsureIn(w, r)' = UnsureIn(workflow, run) \cup {Here}
          BY <3>3, <4>1
        <5>2. Cardinality(UnsureIn(w, r)') <= errCount'
          BY <3>1, <3>5, <5>1
        <5>3. Cardinality(UnsureIn(w, r)') \in Nat
          BY <3>4, <5>1, FS_AddElement, FS_CardinalityType
        <5>4. errCount' \in Nat
          BY <1>h, <3>1 DEF SearchTypeOK
        <5>5. QED
          BY <3>1, <5>2, <5>3, <5>4
      <4>2. CASE ~(w = workflow /\ r = run)
        BY <1>h, <3>1, <3>3, <4>2 DEF Counted
      <4>3. QED
        BY <4>1, <4>2
    <3>7. Cardinality(UnsureIn(workflow, run)') <= errCount'
      BY <3>1, <3>3, <3>5
    <3>8. QED
      BY <3>1, <3>2, <3>6, <3>7 DEF Counted, UnsureIn
  <2>6. (search = "done" => workflow > Len(Workflows))'
        /\ (search = "failed" => workflowReport \subseteq summary)'
    BY <1>8, <1>h DEF CheckFails
  <2>7. QED
    BY <2>3, <2>4, <2>5, <2>6 DEF SearchInv
<1>9. CASE EndRun
  <2>1. \A j \in Nat : IsLost(workflow, run, j) => j < jobAt
    BY <1>9, <1>h, <1>j, <1>k, WorkflowsCounted DEF EndRun, InRun, SearchTypeOK
  <2>2. SearchTypeOK' /\ InRun' /\ OnlyLost' /\ RunTracked' /\ Tracked'
    BY <1>0, <1>9, <1>h DEF EndRun, SearchTypeOK, InRun, OnlyLost, RunTracked, Tracked
  <2>3. WorkflowTracked'
    BY <1>0, <1>9, <1>h, <2>1 DEF EndRun, RunTracked, WorkflowTracked, SearchTypeOK
  <2>4. \A u \in unsure : Past(u) => Past(u)'
    BY <1>9, <1>h DEF EndRun, Past, SearchTypeOK, Triple
  <2>5. Counted'
    BY <1>9, <2>4, QuietCount DEF EndRun
  <2>6. QED
    BY <1>9, <1>h, <2>2, <2>3, <2>5 DEF EndRun, SearchInv
<1>10. CASE EndWorkflow
  <2>1. workflow \in DOMAIN Workflows /\ run > Len(Workflows[workflow])
    BY <1>10, <1>r DEF EndWorkflow
  <2>2. \A r, j \in Nat : IsLost(workflow, r, j) => r < run
    BY <1>h, <2>1, WorkflowsCounted DEF IsLost, SearchTypeOK
  <2>3. SearchTypeOK' /\ InRun' /\ OnlyLost' /\ RunTracked'
    BY <1>0, <1>10, <1>h, <2>1 DEF EndWorkflow, SearchTypeOK, InRun, OnlyLost, RunTracked
  <2>4. WorkflowTracked'
    BY <1>0, <1>10, WorkflowsCounted DEF EndWorkflow, WorkflowTracked, IsLost
  <2>5. Tracked'
    BY <1>0, <1>10, <1>h, <2>2 DEF EndWorkflow, WorkflowTracked, Tracked, SearchTypeOK
  <2>6. \A u \in unsure : Past(u) => Past(u)'
    BY <1>10, <1>h DEF EndWorkflow, Past, SearchTypeOK, Triple
  <2>7. Counted'
    BY <1>10, <2>6, QuietCount DEF EndWorkflow
  <2>8. QED
    BY <1>10, <1>h, <2>3, <2>4, <2>5, <2>7 DEF EndWorkflow, SearchInv
<1>11. QED
  BY <1>1, <1>2, <1>3, <1>4, <1>5, <1>6, <1>7, <1>8, <1>9, <1>10 DEF SearchNext

(* A search that ends well has found every job that lost its logs, but for at *)
(* most three in a run that could not be asked about, for any workflows, runs *)
(* and jobs and every order of errors (find-lost-gha-logs/cmd/main.go).       *)
THEOREM AllLostFound == SearchSpec => []SearchIsThorough
<1>1. SearchInv => SearchIsThorough
  <2> SUFFICES ASSUME SearchInv PROVE SearchIsThorough
    OBVIOUS
  <2>1. summary \subseteq LostJobs
    BY DEF SearchInv, OnlyLost
  <2>2. ASSUME search = "done", NEW u \in LostJobs PROVE u \in summary \cup unsure
    <3>1. u[1] < workflow
      BY <2>2, LostJobsAre, WorkflowsCounted DEF SearchInv, SearchTypeOK, IsLost, Triple
    <3>2. u[1] \in Nat /\ u[2] \in Nat /\ u[3] \in Nat /\ IsLost(u[1], u[2], u[3])
          /\ u = <<u[1], u[2], u[3]>>
      BY LostJobsAre DEF Triple
    <3>3. QED
      BY <3>1, <3>2 DEF SearchInv, Tracked
  <2>3. ASSUME search = "done", NEW w \in DOMAIN Workflows, NEW r \in DOMAIN Workflows[w]
        PROVE  Cardinality({u \in unsure : u[1] = w /\ u[2] = r}) <= 3
    BY <2>3, WorkflowsCounted DEF SearchInv, Counted, UnsureIn
  <2>4. ASSUME search = "failed", NEW u \in LostJobs \ unsure,
               u[1] < workflow \/ (u[1] = workflow /\ u[2] < run)
        PROVE  u \in summary
    <3>1. u[1] \in Nat /\ u[2] \in Nat /\ u[3] \in Nat /\ IsLost(u[1], u[2], u[3])
          /\ u = <<u[1], u[2], u[3]>>
      BY LostJobsAre DEF Triple
    <3>2. CASE u[1] < workflow
      BY <3>1, <3>2 DEF SearchInv, Tracked
    <3>3. CASE u[1] = workflow /\ u[2] < run
      BY <2>4, <3>1, <3>3 DEF SearchInv, WorkflowTracked
    <3>4. QED
      BY <2>4, <3>2, <3>3
  <2>5. QED
    BY <2>1, <2>2, <2>3, <2>4 DEF SearchIsThorough
<1>2. QED
  BY <1>1, SearchInitInv, SearchStepInv, PTL DEF SearchSpec

================================================================================
