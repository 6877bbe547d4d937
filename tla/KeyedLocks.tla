------------------------------ MODULE KeyedLocks ------------------------------
(* The locks by key of oprt2 (pkg/locking): a map from keys to a context-     *)
(* aware lock and a count of references, itself guarded by such a lock.       *)
(*                                                                            *)
(* A ContextLock is a channel of capacity one: a full channel is a held lock. *)
(* Lock and Unlock keep the map's lock over straight-line code only, so each  *)
(* of their critical sections is one step here.  Close keeps it for good.     *)
(* A context may end at any time, so GiveUp is never forced and never late.   *)
EXTENDS Naturals, FiniteSets

CONSTANTS Caller,    \* goroutines, each making one call after another
          Key,
          MaxCalls   \* bound on the calls of all

ASSUME CallersFinite == IsFiniteSet(Caller)
ASSUME KeysExist == Key # {}

VARIABLES refs,     \* refs[k]: the references to k's entry, 0 when there is none
          taken,    \* taken[k]: the channel of k's entry is full
          shut,     \* shut[k]: ... and closed
          sealed,   \* Close has the lock of the map
          closing,  \* where Close is
          place,    \* place[c]: where goroutine c is in Lock and Unlock
          wanted,   \* wanted[c]: the key of c's latest call
          calls     \* the calls made so far

lockVars == <<refs, taken, shut, sealed, closing, place, wanted, calls>>

Places == {"idle", "asking", "waiting", "holding", "leaving", "panicked"}

LocksTypeOK ==
  /\ refs \in [Key -> Nat]
  /\ taken \in [Key -> BOOLEAN]
  /\ shut \in [Key -> BOOLEAN]
  /\ sealed \in BOOLEAN
  /\ closing \in {"open", "closing", "closed", "failed"}
  /\ place \in [Caller -> Places]
  /\ wanted \in [Caller -> Key]
  /\ calls \in Nat

(* The key of a goroutine that has not made a call yet: any will do.          *)
NoKey == CHOOSE k \in Key : TRUE

LocksInit ==
  /\ refs = [k \in Key |-> 0]
  /\ taken = [k \in Key |-> FALSE]
  /\ shut = [k \in Key |-> FALSE]
  /\ sealed = FALSE
  /\ closing = "open"
  /\ place = [c \in Caller |-> "idle"]
  /\ wanted = [c \in Caller |-> NoKey]
  /\ calls = 0

CallLock(c, k) ==
  /\ place[c] = "idle" /\ calls < MaxCalls
  /\ place' = [place EXCEPT ![c] = "asking"]
  /\ wanted' = [wanted EXCEPT ![c] = k]
  /\ calls' = calls + 1
  /\ UNCHANGED <<refs, taken, shut, sealed, closing>>

(* Lock's critical section: find or make the entry and count the reference.   *)
LookUp(c) ==
  /\ place[c] = "asking" /\ ~sealed
  /\ refs' = [refs EXCEPT ![wanted[c]] = @ + 1]
  /\ place' = [place EXCEPT ![c] = "waiting"]
  /\ UNCHANGED <<taken, shut, sealed, closing, wanted, calls>>

(* ContextLock.Lock sends to the entry's channel when there is room, ...      *)
Take(c) ==
  /\ place[c] = "waiting" /\ ~taken[wanted[c]]
  /\ taken' = [taken EXCEPT ![wanted[c]] = TRUE]
  /\ place' = [place EXCEPT ![c] = "holding"]
  /\ UNCHANGED <<refs, shut, sealed, closing, wanted, calls>>

(* ... panics when Close has closed it, ...                                   *)
SendPanics(c) ==
  /\ place[c] = "waiting" /\ shut[wanted[c]]
  /\ place' = [place EXCEPT ![c] = "panicked"]
  /\ UNCHANGED <<refs, taken, shut, sealed, closing, wanted, calls>>

(* ... or returns when the context is done; the reference stays counted.      *)
GiveUp(c) ==
  /\ place[c] \in {"asking", "waiting"}
  /\ place' = [place EXCEPT ![c] = "idle"]
  /\ UNCHANGED <<refs, taken, shut, sealed, closing, wanted, calls>>

(* The caller is done and calls Unlock, as the S3 file manager does with a    *)
(* context that never ends.                                                   *)
CallUnlock(c) ==
  /\ place[c] = "holding"
  /\ place' = [place EXCEPT ![c] = "leaving"]
  /\ UNCHANGED <<refs, taken, shut, sealed, closing, wanted, calls>>

(* A mistake: an entry goes although somebody may be waiting for it.          *)
FewReferences(k) == refs[k] <= 2

LastReference(k) == refs[k] = 1

(* Unlock's critical section counts the reference down, and takes the entry   *)
(* with the last one out of the map, so that the next Lock makes another.     *)
(* Nothing empties the channel of an entry that stays.  That one channel per  *)
(* key is enough here, although an entry and its successor have channels of   *)
(* their own, follows from ReferencesCounted: nobody is left at the old one.  *)
Unlock(c) ==
  LET k == wanted[c]
  IN  /\ place[c] = "leaving" /\ ~sealed
      /\ place' = [place EXCEPT ![c] = IF refs[k] = 0 THEN "panicked" ELSE "idle"]
      /\ refs' = [refs EXCEPT ![k] = IF LastReference(k) \/ @ = 0 THEN 0 ELSE @ - 1]
      /\ taken' = [taken EXCEPT ![k] = @ /\ ~LastReference(k)]
      /\ UNCHANGED <<shut, sealed, closing, wanted, calls>>

(* Close takes the lock of the map, or gives up when its context is done, ... *)
BeginClose ==
  /\ closing = "open"
  /\ \/ sealed' = TRUE /\ closing' = "closing"
     \/ sealed' = sealed /\ closing' = "failed"
  /\ UNCHANGED <<refs, taken, shut, place, wanted, calls>>

(* ... takes and closes the lock of every entry, in any order, ...            *)
CloseEntry(k) ==
  /\ closing = "closing" /\ refs[k] > 0 /\ ~taken[k]
  /\ taken' = [taken EXCEPT ![k] = TRUE]
  /\ shut' = [shut EXCEPT ![k] = TRUE]
  /\ UNCHANGED <<refs, sealed, closing, place, wanted, calls>>

(* A mistake: Close does not report that its context was done first.          *)
EndCloseAnyway ==
  /\ closing = "closing"
  /\ closing' = "closed"
  /\ UNCHANGED <<refs, taken, shut, sealed, place, wanted, calls>>

(* ... and returns, with an error if its context is done before that.  The    *)
(* lock of the map stays taken in both cases.                                 *)
EndClose ==
  /\ closing = "closing"
  /\ closing' = IF \A k \in Key : refs[k] > 0 => shut[k] THEN "closed" ELSE "failed"
  /\ UNCHANGED <<refs, taken, shut, sealed, place, wanted, calls>>

LockStep(c) ==
  \/ \E k \in Key : CallLock(c, k)
  \/ LookUp(c) \/ Take(c) \/ SendPanics(c) \/ GiveUp(c) \/ Unlock(c)

CloseStep ==
  \/ BeginClose \/ EndClose
  \/ \E k \in Key : CloseEntry(k)

LocksNext == (\E c \in Caller : LockStep(c) \/ CallUnlock(c)) \/ CloseStep

LocksSpec == LocksInit /\ [][LocksNext]_lockVars

-------------------------------------------------------------------------------
Inside(c) == place[c] \in {"holding", "leaving"}

(* No two goroutines are between Lock and Unlock for one key, although        *)
(* entries come and go, callers give up, and references are counted by        *)
(* hand (mutexlock.go).                                                       *)
MutualExclusion ==
  \A c, d \in Caller : Inside(c) /\ Inside(d) /\ wanted[c] = wanted[d] => c = d

Users(k) == {c \in Caller : /\ place[c] \in {"waiting", "holding", "leaving"}
                            /\ wanted[c] = k}

(* Every goroutine that has looked up an entry is counted in it, so an entry  *)
(* goes only when nobody is left who could use its lock, and Unlock never     *)
(* panics.  Callers that gave up are counted as well: hence no equality.      *)
ReferencesCounted == \A k \in Key : Cardinality(Users(k)) <= refs[k]

===============================================================================
