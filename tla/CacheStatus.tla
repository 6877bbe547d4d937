----------------------------- MODULE CacheStatus -----------------------------
(***************************************************************************)
(* The approval service's deduplication cache, seen without its clock.     *)
(*                                                                         *)
(* A key has one of three statuses:                                        *)
(*   absent  the cache holds no entry for the key;                         *)
(*   live    it holds an entry whose time-to-live has not elapsed;         *)
(*   stale   it holds an entry that has expired and that no TryAdd has     *)
(*           evicted yet.                                                  *)
(* The third one exists because eviction only happens inside TryAdd.  The  *)
(* operators below say what each call of the Go type does to a status      *)
(* function c and what it answers; EventCache makes a state machine of     *)
(* them, ReleaseService calls them, and TTLEventCache, with its clock, map *)
(* and expiry list, is shown to implement them.                            *)
(***************************************************************************)

Status == {"absent", "live", "stale"}

(* Eviction on write: every expired entry goes, whatever its key. *)
Evicted(c) == [x \in DOMAIN c |-> IF c[x] = "stale" THEN "absent" ELSE c[x]]

(* TryAdd(k) answers true exactly when no unexpired entry is held for k. *)
Accepts(c, k) == c[k] # "live"

AfterTryAddEvictsOnly(c, k) == Evicted(c)

(* The cache after TryAdd(k): evicted, and k is live whether it was added  *)
(* now or was refused because it already was.                              *)
AfterTryAdd(c, k) == [Evicted(c) EXCEPT ![k] = "live"]

(* IsBeingProcessed(k): presence, with no look at the expiry. *)
Holds(c, k) == c[k] # "absent"

(* Time passes and the entries of the keys in K run out. *)
AfterExpiry(c, K) ==
    [x \in DOMAIN c |-> IF x \in K /\ c[x] = "live" THEN "stale" ELSE c[x]]

=============================================================================
