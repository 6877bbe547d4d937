---------------------------- MODULE TTLEventCache ----------------------------
(***************************************************************************)
(* tools/approval-service/internal/service/ttleventcache.go                *)
(*                                                                         *)
(* A mutex makes every method atomic, and TryAdd reads the clock while it  *)
(* holds the mutex, so one action per method is the code's own grain.      *)
(* Time is a counter; Tick advances it up to MaxTime.                      *)
(***************************************************************************)
EXTENDS Integers, Sequences, CacheStatus

CONSTANTS
    Id,            \* the identifiers callers add
    TTLConfig,     \* the ttl given to NewTTLEventCache
    DefaultTTL,    \* the default taken when it is zero or negative (15 s)
    MaxTime        \* bound on the clock

ASSUME TTLAssumption ==
    /\ TTLConfig \in Int
    /\ DefaultTTL \in Nat \ {0}
    /\ MaxTime \in Nat

VARIABLES
    now,           \* the clock
    cache,         \* map from the ids held to their expiry
    expiryList,    \* the same entries, in the order they were added
    answer         \* the last call and its result

vars == <<now, cache, expiryList, answer>>

Call(op, k, ok) == [op |-> op, key |-> k, ok |-> ok]
NoCall == [op |-> "none"]

-----------------------------------------------------------------------------
(* NewTTLEventCache *)

ttl == IF TTLConfig <= 0 THEN DefaultTTL ELSE TTLConfig

Init ==
    /\ now = 0
    /\ cache = [id \in {} |-> 0]
    /\ expiryList = <<>>
    /\ answer = NoCall

-----------------------------------------------------------------------------
(* evictExpired: the scan from the front of the list stops at the first    *)
(* entry that has not expired; what it passed leaves the list and the map. *)

EvictStopsAtNever(k) == k = 0

EvictStopsAt(k) ==
    /\ \A i \in 1..k : expiryList[i].expiry <= now
    /\ k < Len(expiryList) => expiryList[k + 1].expiry > now

EvictedIdsButLast(k) == {expiryList[i].id : i \in 1..(k - 1)}

EvictedIds(k) == {expiryList[i].id : i \in 1..k}

Kept(k) == SubSeq(expiryList, k + 1, Len(expiryList))

Remaining(k) == [id \in (DOMAIN cache) \ EvictedIds(k) |-> cache[id]]

-----------------------------------------------------------------------------
(* TryAdd *)

NewExpiryBackwards == now - ttl

NewExpiry == now + ttl

FoundNever(k, id) == FALSE

(* The lookup comes after the eviction, so an expired entry is not found. *)
Found(k, id) == id \in DOMAIN Remaining(k)

ListedAtFront(k, id) == <<[id |-> id, expiry |-> NewExpiry]>> \o Kept(k)

Listed(k, id) == Append(Kept(k), [id |-> id, expiry |-> NewExpiry])

TryAdd(id) ==
    \E k \in 0..Len(expiryList) :
        /\ EvictStopsAt(k)
        /\ \/ /\ Found(k, id)
              /\ cache' = Remaining(k)
              /\ expiryList' = Kept(k)
              /\ answer' = Call("TryAdd", id, FALSE)
           \/ /\ ~Found(k, id)
              /\ cache' = [x \in DOMAIN Remaining(k) \cup {id} |->
                              IF x = id THEN NewExpiry ELSE cache[x]]
              /\ expiryList' = Listed(k, id)
              /\ answer' = Call("TryAdd", id, TRUE)
        /\ UNCHANGED now

(* IsBeingProcessed: presence in the map; nothing is evicted. *)
IsBeingProcessed(id) ==
    /\ answer' = Call("IsBeingProcessed", id, id \in DOMAIN cache)
    /\ UNCHANGED <<now, cache, expiryList>>

Tick ==
    /\ now < MaxTime
    /\ now' = now + 1
    /\ UNCHANGED <<cache, expiryList, answer>>

Next ==
    \/ \E id \in Id : TryAdd(id) \/ IsBeingProcessed(id)
    \/ Tick

Spec == Init /\ [][Next]_vars

-----------------------------------------------------------------------------
(* Types: the values Go's declarations of the struct fields allow. *)
TypeOK ==
    /\ now \in Nat
    /\ DOMAIN cache \subseteq Id
    /\ cache \in [DOMAIN cache -> Nat]
    /\ expiryList \in Seq([id : Id, expiry : Nat])
    /\ answer \in {NoCall} \cup [op : {"TryAdd", "IsBeingProcessed"}, key : Id, ok : BOOLEAN]

(* Map m and list l describe the same entries. *)
Agree(m, l) ==
    /\ \A i \in DOMAIN l : l[i].id \in DOMAIN m /\ m[l[i].id] = l[i].expiry
    /\ \A id \in DOMAIN m : \E i \in DOMAIN l : l[i].id = id
    /\ \A i, j \in DOMAIN l : l[i].id = l[j].id => i = j

SortedByExpiry(l) ==
    \A i, j \in DOMAIN l : i <= j => l[i].expiry <= l[j].expiry

(* The map and the list, which the code updates separately, describe the   *)
(* same entries: each held id is in the list exactly once, with the expiry *)
(* the map gives it.  Were an id listed twice, the older listing's expiry  *)
(* would later delete the newer entry from the map.                        *)
MapListAgree == Agree(cache, expiryList)

(* "The expiry slice is guaranteed to be sorted by expiry time", which the *)
(* fast path and the early stop of evictExpired rely on; it follows from a *)
(* constant ttl and a clock that is read under the mutex.                  *)
ListSorted == SortedByExpiry(expiryList)

(* A window is never cut short and never extended: while its time has not  *)
(* come, an entry stays, with the expiry it was given when it was added.   *)
WindowKept ==
    [][\A id \in DOMAIN cache :
          cache[id] > now' => id \in DOMAIN cache' /\ cache'[id] = cache[id]]_vars

(* What the map and the clock say of an id, in the terms of EventCache. *)
StatusOf ==
    [id \in Id |-> IF id \notin DOMAIN cache THEN "absent"
                   ELSE IF cache[id] > now THEN "live" ELSE "stale"]

Contract == INSTANCE EventCache WITH Key <- Id, status <- StatusOf

(* The cache keeps the promise of EventCache: in particular TryAdd accepts *)
(* an id exactly when no unexpired entry is held for it, and sweeps every  *)
(* expired entry, though it only looks at the front of the list.           *)
ImplementsContract == Contract!Spec

=============================================================================
