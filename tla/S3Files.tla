-------------------------------- MODULE S3Files --------------------------------
(* The S3 file manager of oprt2 (pkg/filemanager/s3): GetLocalFilePath        *)
(* downloads an item once into a temporary directory, under the item's lock,  *)
(* and Close removes the directory once it has closed the locks.              *)
EXTENDS KeyedLocks

VARIABLES file,      \* file[k]: what the temporary directory has of item k
          removed,   \* Close has removed the directory
          fetching   \* fetching[c]: goroutine c is downloading its item

fileVars == <<file, removed, fetching>>
s3Vars == <<lockVars, fileVars>>

S3TypeOK ==
  /\ LocksTypeOK
  /\ file \in [Key -> {"absent", "partial", "complete"}]
  /\ removed \in BOOLEAN
  /\ fetching \in [Caller -> BOOLEAN]

S3Init ==
  /\ LocksInit
  /\ file = [k \in Key |-> "absent"]
  /\ removed = FALSE
  /\ fetching = [c \in Caller |-> FALSE]

(* The item was downloaded before: its path is returned.                      *)
AlreadyThere(c) ==
  /\ ~fetching[c] /\ file[wanted[c]] # "absent"
  /\ CallUnlock(c)
  /\ UNCHANGED fileVars

(* Create the file and start the download, or fail to make it or to look.     *)
StartDownload(c) ==
  /\ place[c] = "holding" /\ ~fetching[c] /\ file[wanted[c]] = "absent"
  /\ file' = [file EXCEPT ![wanted[c]] = "partial"]
  /\ fetching' = [fetching EXCEPT ![c] = TRUE]
  /\ UNCHANGED <<removed, lockVars>>

NoDownload(c) ==
  /\ ~fetching[c]
  /\ CallUnlock(c)
  /\ UNCHANGED fileVars

(* The download ends; when it fails, what has arrived stays.                  *)
EndDownload(c) ==
  /\ fetching[c]
  /\ \/ file' = [file EXCEPT ![wanted[c]] = "complete"]
     \/ UNCHANGED file
  /\ fetching' = [fetching EXCEPT ![c] = FALSE]
  /\ CallUnlock(c)
  /\ UNCHANGED removed

(* Close goes on to remove the directory if it could close the locks.         *)
RemoveFiles ==
  /\ closing = "closed" /\ ~removed
  /\ removed' = TRUE
  /\ file' = [k \in Key |-> "absent"]
  /\ UNCHANGED <<fetching, lockVars>>

S3Next ==
  \/ \E c \in Caller :
       \/ LockStep(c) /\ UNCHANGED fileVars
       \/ AlreadyThere(c) \/ StartDownload(c) \/ NoDownload(c) \/ EndDownload(c)
  \/ CloseStep /\ UNCHANGED fileVars
  \/ RemoveFiles

S3Spec == S3Init /\ [][S3Next]_s3Vars

-------------------------------------------------------------------------------
(* The temporary directory is not removed while some goroutine is between     *)
(* Lock and Unlock, where it may be writing to it: that is why Close closes   *)
(* the locks first (s3.go).                                                   *)
NoRemovalInUse == removed => \A c \in Caller : ~Inside(c)

===============================================================================
