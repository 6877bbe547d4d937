------------------------------ MODULE EventCache ------------------------------
(***************************************************************************)
(* What TTLEventCache promises its callers: the first TryAdd of a key      *)
(* opens a window, every further TryAdd of that key is refused while the   *)
(* window is open, and is accepted again once it has run out.              *)
(* IsBeingProcessed promises less: it is always true inside a window, and  *)
(* stays true after it until some TryAdd, of any key, sweeps the cache.    *)
(***************************************************************************)
EXTENDS CacheStatus

CONSTANT Key

VARIABLES
    status,  \* status[k]: what the cache holds for key k
    answer   \* what the last call was and returned

vars == <<status, answer>>

(* The call that the caller made last, and the boolean it got. *)
Call(op, k, ok) == [op |-> op, key |-> k, ok |-> ok]
NoCall == [op |-> "none"]

Init ==
    /\ status = [k \in Key |-> "absent"]
    /\ answer = NoCall

TryAdd(k) ==
    /\ status' = AfterTryAdd(status, k)
    /\ answer' = Call("TryAdd", k, Accepts(status, k))

IsBeingProcessed(k) ==
    /\ answer' = Call("IsBeingProcessed", k, Holds(status, k))
    /\ UNCHANGED status

(* Time passes: any set of windows may run out together. *)
Expire ==
    /\ \E K \in SUBSET Key : status' = AfterExpiry(status, K)
    /\ UNCHANGED answer

Next ==
    \/ \E k \in Key : TryAdd(k) \/ IsBeingProcessed(k)
    \/ Expire

Spec == Init /\ [][Next]_vars

=============================================================================
