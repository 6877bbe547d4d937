------------------------- MODULE ApprovalServiceProofs -------------------------
(* For every set of ids, every ttl and every bound on the clock: the map and  *)
(* the list of TTLEventCache agree, the list is sorted, no window is cut      *)
(* short, and the cache implements EventCache.  And the service never ends    *)
(* well by itself, for any deliveries and reviews and every order of failures.*)
EXTENDS TTLEventCache, ServiceLifecycle, SequenceTheorems, TLAPS

Entry == [id : Id, expiry : Nat]

(* No entry expires later than one added now would, which is what lets        *)
(* TryAdd append at the end of a sorted list.                                 *)
ExpiriesWithinTTL ==
    \A i \in DOMAIN expiryList : expiryList[i].expiry <= now + ttl

IInv ==
    /\ TypeOK
    /\ MapListAgree
    /\ ListSorted
    /\ ExpiriesWithinTTL

(* The effective ttl is positive, whatever was configured.                    *)
LEMMA TTLPositive == ttl \in Nat /\ ttl > 0
BY TTLAssumption DEF ttl

--------------------------------------------------------------------------------
(* The list, as a sequence of entries.                                        *)
LEMMA ListOfEntries ==
    ASSUME TypeOK
    PROVE  /\ Len(expiryList) \in Nat
           /\ DOMAIN expiryList = 1..Len(expiryList)
           /\ \A i \in DOMAIN expiryList : expiryList[i] \in Entry
<1>1. expiryList \in Seq(Entry)
  BY DEF TypeOK, Entry
<1> HIDE DEF Entry
<1>2. QED
  BY <1>1, LenProperties, ElementOfSeq

--------------------------------------------------------------------------------
(* What an eviction leaves behind: the list without its first k entries,      *)
(* and, because the list is sorted and agrees with the map, the map of        *)
(* exactly those ids whose time has not come.                                 *)

LEMMA KeptList ==
    ASSUME TypeOK, NEW k \in 0..Len(expiryList)
    PROVE  /\ Kept(k) \in Seq(Entry)
           /\ Len(Kept(k)) = Len(expiryList) - k
           /\ \A i \in 1..(Len(expiryList) - k) : Kept(k)[i] = expiryList[i + k]
<1>1. expiryList \in Seq(Entry)
  BY DEF TypeOK, Entry
<1>2. Len(expiryList) \in Nat
  BY <1>1, LenProperties
<1>3. \A i \in (k + 1)..Len(expiryList) : expiryList[i] \in Entry
  BY <1>1, <1>2, ElementOfSeq
<1>4. /\ Kept(k) \in Seq(Entry)
      /\ Len(Kept(k)) = IF k + 1 <= Len(expiryList) THEN Len(expiryList) - (k + 1) + 1 ELSE 0
      /\ \A i \in 1..(Len(expiryList) - (k + 1) + 1) : Kept(k)[i] = expiryList[(k + 1) + i - 1]
  <2>1. k + 1 \in Int /\ Len(expiryList) \in Int
    BY <1>2
  <2> HIDE DEF Entry
  <2>2. QED
    BY <2>1, <1>3, SubSeqProperties DEF Kept
<1>5. QED
  BY <1>2, <1>4

LEMMA RemainingMap ==
    ASSUME IInv, NEW k \in 0..Len(expiryList), EvictStopsAt(k)
    PROVE  /\ DOMAIN Remaining(k) = {id \in DOMAIN cache : cache[id] > now}
           /\ \A id \in DOMAIN Remaining(k) : Remaining(k)[id] = cache[id]
           /\ \A id \in DOMAIN cache :
                 id \in EvictedIds(k) <=> \E i \in 1..k : expiryList[i].id = id
<1>1. /\ Len(expiryList) \in Nat
      /\ DOMAIN expiryList = 1..Len(expiryList)
      /\ \A i \in DOMAIN expiryList : expiryList[i].expiry \in Nat
  BY ListOfEntries DEF IInv, Entry
<1>2. \A i \in (k + 1)..Len(expiryList) : expiryList[i].expiry > now
  <2>1. SUFFICES ASSUME NEW i \in (k + 1)..Len(expiryList)
                 PROVE  expiryList[i].expiry > now
    OBVIOUS
  <2>2. k + 1 \in DOMAIN expiryList /\ i \in DOMAIN expiryList /\ k + 1 <= i
    BY <1>1
  <2>3. expiryList[k + 1].expiry > now
    BY <2>2, <1>1 DEF EvictStopsAt
  <2>4. expiryList[k + 1].expiry <= expiryList[i].expiry
    BY <2>2 DEF IInv, ListSorted, SortedByExpiry
  <2>5. QED
    BY <2>2, <2>3, <2>4, <1>1 DEF IInv, TypeOK
<1>3. ASSUME NEW id \in DOMAIN cache
      PROVE  id \in EvictedIds(k) <=> ~(cache[id] > now)
  <2>1. PICK j \in DOMAIN expiryList : expiryList[j].id = id
    BY DEF IInv, MapListAgree, Agree
  <2>2. cache[id] = expiryList[j].expiry /\ cache[id] \in Nat
    BY <2>1, <1>1 DEF IInv, MapListAgree, Agree
  <2>3. CASE j \in 1..k
    <3>1. id \in EvictedIds(k)
      BY <2>1, <2>3 DEF EvictedIds
    <3>2. cache[id] <= now
      BY <2>2, <2>3 DEF EvictStopsAt
    <3>3. QED
      BY <3>1, <3>2, <2>2 DEF IInv, TypeOK
  <2>4. CASE j \notin 1..k
    <3>1. j \in (k + 1)..Len(expiryList)
      BY <2>4, <1>1
    <3>2. cache[id] > now
      BY <3>1, <1>2, <2>2
    <3>3. id \notin EvictedIds(k)
      <4>1. SUFFICES ASSUME NEW i \in 1..k, expiryList[i].id = id
                     PROVE  FALSE
        BY DEF EvictedIds
      <4>2. i \in DOMAIN expiryList
        BY <1>1
      <4>3. i = j
        BY <4>1, <4>2, <2>1 DEF IInv, MapListAgree, Agree
      <4>4. QED
        BY <4>3, <2>4
    <3>4. QED
      BY <3>2, <3>3
  <2>5. QED
    BY <2>3, <2>4
<1>4. DOMAIN Remaining(k) = (DOMAIN cache) \ EvictedIds(k)
  BY DEF Remaining
<1>5. QED
  BY <1>3, <1>4 DEF Remaining, EvictedIds

(* The survivors of an eviction agree with each other and stay sorted.        *)
LEMMA Survivors ==
    ASSUME IInv, NEW k \in 0..Len(expiryList), EvictStopsAt(k)
    PROVE  /\ Agree(Remaining(k), Kept(k))
           /\ SortedByExpiry(Kept(k))
           /\ \A i \in DOMAIN Kept(k) : Kept(k)[i].expiry <= now + ttl
<1> DEFINE n == Len(expiryList)
<1>1. /\ n \in Nat
      /\ DOMAIN expiryList = 1..n
  BY ListOfEntries DEF IInv
<1>2. /\ DOMAIN Kept(k) = 1..(n - k)
      /\ \A i \in 1..(n - k) : Kept(k)[i] = expiryList[i + k]
  BY KeptList, LenProperties DEF IInv
<1>3. /\ DOMAIN Remaining(k) = (DOMAIN cache) \ EvictedIds(k)
      /\ \A x \in DOMAIN Remaining(k) : Remaining(k)[x] = cache[x]
  BY DEF Remaining
<1>4. ASSUME NEW i \in DOMAIN Kept(k)
      PROVE  i + k \in DOMAIN expiryList /\ Kept(k)[i] = expiryList[i + k] /\ i + k \notin 1..k
  BY <1>1, <1>2
<1>5. \A i, j \in DOMAIN expiryList : expiryList[i].id = expiryList[j].id => i = j
  BY DEF IInv, MapListAgree, Agree
<1>6. ASSUME NEW i \in DOMAIN Kept(k)
      PROVE  /\ Kept(k)[i].id \in DOMAIN Remaining(k)
             /\ Remaining(k)[Kept(k)[i].id] = Kept(k)[i].expiry
  <2>1. /\ expiryList[i + k].id \in DOMAIN cache
        /\ cache[expiryList[i + k].id] = expiryList[i + k].expiry
    BY <1>4 DEF IInv, MapListAgree, Agree
  <2>2. \A j \in 1..k : expiryList[j].id # expiryList[i + k].id
    BY <1>1, <1>4, <1>5
  <2>3. expiryList[i + k].id \notin EvictedIds(k)
    BY <2>2 DEF EvictedIds
  <2>4. QED
    BY <1>3, <1>4, <2>1, <2>3
<1>7. ASSUME NEW x \in DOMAIN Remaining(k)
      PROVE  \E i \in DOMAIN Kept(k) : Kept(k)[i].id = x
  <2>1. PICK j \in DOMAIN expiryList : expiryList[j].id = x
    BY <1>3 DEF IInv, MapListAgree, Agree
  <2>2. j \notin 1..k
    BY <2>1, <1>3 DEF EvictedIds
  <2>3. j - k \in 1..(n - k) /\ (j - k) + k = j
    BY <2>2, <1>1
  <2>4. QED
    BY <2>1, <2>3, <1>2
<1>8. ASSUME NEW i \in DOMAIN Kept(k), NEW j \in DOMAIN Kept(k), Kept(k)[i].id = Kept(k)[j].id
      PROVE  i = j
  BY <1>8, <1>1, <1>2, <1>4, <1>5
<1>9. ASSUME NEW i \in DOMAIN Kept(k), NEW j \in DOMAIN Kept(k), i <= j
      PROVE  Kept(k)[i].expiry <= Kept(k)[j].expiry
  <2>1. i + k <= j + k
    BY <1>9, <1>1, <1>2
  <2>2. QED
    BY <2>1, <1>4 DEF IInv, ListSorted, SortedByExpiry
<1>10. ASSUME NEW i \in DOMAIN Kept(k)
       PROVE  Kept(k)[i].expiry <= now + ttl
  BY <1>4 DEF IInv, ExpiriesWithinTTL
<1>11. QED
  BY <1>6, <1>7, <1>8, <1>9, <1>10 DEF Agree, SortedByExpiry

--------------------------------------------------------------------------------
(* Inductive step of TryAdd, in its two outcomes.                             *)

LEMMA RefusedKeepsInv ==
    ASSUME IInv, NEW k \in 0..Len(expiryList), EvictStopsAt(k), NEW id \in Id,
           cache' = Remaining(k), expiryList' = Kept(k),
           answer' = Call("TryAdd", id, FALSE), now' = now
    PROVE  IInv'
<1>1. TypeOK'
  <2>1. cache' \in [DOMAIN cache' -> Nat] /\ DOMAIN cache' \subseteq Id
    BY DEF IInv, TypeOK, Remaining
  <2>2. expiryList' \in Seq([id : Id, expiry : Nat])
    BY KeptList DEF IInv, Entry
  <2>3. QED
    BY <2>1, <2>2 DEF IInv, TypeOK, Call
<1>2. MapListAgree' /\ ListSorted'
  BY Survivors DEF MapListAgree, ListSorted
<1>3. ExpiriesWithinTTL'
  BY Survivors DEF ExpiriesWithinTTL, ttl
<1>4. QED
  BY <1>1, <1>2, <1>3 DEF IInv

LEMMA AcceptedKeepsInv ==
    ASSUME IInv, NEW k \in 0..Len(expiryList), EvictStopsAt(k), NEW id \in Id,
           ~Found(k, id),
           cache' = [x \in DOMAIN Remaining(k) \cup {id} |->
                        IF x = id THEN NewExpiry ELSE cache[x]],
           expiryList' = Listed(k, id),
           answer' = Call("TryAdd", id, TRUE), now' = now
    PROVE  IInv'
<1> DEFINE m == Len(Kept(k))
           e == [id |-> id, expiry |-> NewExpiry]
<1>1. NewExpiry \in Nat /\ e \in Entry
  BY TTLPositive DEF NewExpiry, IInv, TypeOK, Entry
<1>2. Kept(k) \in Seq(Entry) /\ m \in Nat /\ DOMAIN Kept(k) = 1..m
  BY KeptList, LenProperties DEF IInv
<1>3. /\ expiryList' \in Seq(Entry)
      /\ DOMAIN expiryList' = 1..(m + 1)
      /\ \A i \in 1..m : expiryList'[i] = Kept(k)[i]
      /\ expiryList'[m + 1] = e
  BY <1>1, <1>2, AppendProperties, LenProperties DEF Listed
<1>4. /\ DOMAIN cache' = DOMAIN Remaining(k) \cup {id}
      /\ cache'[id] = NewExpiry
      /\ \A x \in DOMAIN Remaining(k) : cache'[x] = Remaining(k)[x]
      /\ id \notin DOMAIN Remaining(k)
  BY DEF Remaining, Found
<1>5. /\ \A i \in 1..m : /\ Kept(k)[i].id \in DOMAIN Remaining(k)
                        /\ Remaining(k)[Kept(k)[i].id] = Kept(k)[i].expiry
                        /\ Kept(k)[i].id # id
      /\ \A x \in DOMAIN Remaining(k) : \E i \in 1..m : Kept(k)[i].id = x
      /\ \A i, j \in 1..m : Kept(k)[i].id = Kept(k)[j].id => i = j
      /\ \A i, j \in 1..m : i <= j => Kept(k)[i].expiry <= Kept(k)[j].expiry
      /\ \A i \in 1..m : Kept(k)[i].expiry <= now + ttl
  <2>1. /\ Agree(Remaining(k), Kept(k))
        /\ SortedByExpiry(Kept(k))
        /\ \A i \in 1..m : Kept(k)[i].expiry <= now + ttl
    BY <1>2, Survivors
  <2>2. \A i \in 1..m : /\ Kept(k)[i].id \in DOMAIN Remaining(k)
                        /\ Remaining(k)[Kept(k)[i].id] = Kept(k)[i].expiry
    BY <2>1, <1>2 DEF Agree
  <2>3. \A i \in 1..m : Kept(k)[i].id # id
    BY <2>2, <1>4
  <2>4. /\ \A x \in DOMAIN Remaining(k) : \E i \in 1..m : Kept(k)[i].id = x
        /\ \A i, j \in 1..m : Kept(k)[i].id = Kept(k)[j].id => i = j
    BY <2>1, <1>2 DEF Agree
  <2>5. \A i, j \in 1..m : i <= j => Kept(k)[i].expiry <= Kept(k)[j].expiry
    BY <2>1, <1>2 DEF SortedByExpiry
  <2>6. QED
    BY <2>1, <2>2, <2>3, <2>4, <2>5
<1> HIDE DEF m
<1>6. TypeOK'
  <2>1. cache' \in [DOMAIN cache' -> Nat] /\ DOMAIN cache' \subseteq Id
    BY <1>1, <1>4 DEF IInv, TypeOK, Remaining
  <2>2. QED
    BY <2>1, <1>3 DEF IInv, TypeOK, Call, Entry
<1>7. MapListAgree'
  <2>1. \A i \in DOMAIN expiryList' : /\ expiryList'[i].id \in DOMAIN cache'
                                     /\ cache'[expiryList'[i].id] = expiryList'[i].expiry
    <3>1. ASSUME NEW i \in 1..m
          PROVE  /\ expiryList'[i].id \in DOMAIN cache'
                 /\ cache'[expiryList'[i].id] = expiryList'[i].expiry
      <4>1. expiryList'[i] = Kept(k)[i]
        BY <1>3
      <4>2. /\ Kept(k)[i].id \in DOMAIN Remaining(k)
            /\ Remaining(k)[Kept(k)[i].id] = Kept(k)[i].expiry
        BY <1>5
      <4>3. QED
        BY <4>1, <4>2, <1>4
    <3>2. /\ expiryList'[m + 1].id \in DOMAIN cache'
          /\ cache'[expiryList'[m + 1].id] = expiryList'[m + 1].expiry
      BY <1>3, <1>4
    <3>3. \A i \in DOMAIN expiryList' : i \in 1..m \/ i = m + 1
      BY <1>2, <1>3
    <3>4. QED
      BY <3>1, <3>2, <3>3
  <2>2. ASSUME NEW x \in DOMAIN cache'
        PROVE  \E i \in DOMAIN expiryList' : expiryList'[i].id = x
    <3>1. CASE x = id
      BY <3>1, <1>2, <1>3
    <3>2. CASE x # id
      <4>1. PICK i \in 1..m : Kept(k)[i].id = x
        BY <3>2, <1>4, <1>5
      <4>2. i \in DOMAIN expiryList' /\ expiryList'[i].id = x
        BY <4>1, <1>2, <1>3
      <4>3. QED
        BY <4>2
    <3>3. QED
      BY <3>1, <3>2
  <2>3. \A i, j \in DOMAIN expiryList' : expiryList'[i].id = expiryList'[j].id => i = j
    <3>1. SUFFICES ASSUME NEW i \in 1..(m + 1), NEW j \in 1..(m + 1),
                          expiryList'[i].id = expiryList'[j].id
                   PROVE  i = j
      BY <1>3
    <3>2. CASE i \in 1..m /\ j \in 1..m
      <4>1. expiryList'[i] = Kept(k)[i] /\ expiryList'[j] = Kept(k)[j]
        BY <3>2, <1>3
      <4>2. Kept(k)[i].id = Kept(k)[j].id
        BY <4>1, <3>1
      <4>3. QED
        BY <4>2, <3>2, <1>5
    <3>3. CASE i = m + 1 \/ j = m + 1
      <4>1. \A l \in 1..m : expiryList'[l].id # id
        BY <1>3, <1>5
      <4>2. expiryList'[m + 1].id = id
        BY <1>3
      <4>3. QED
        BY <4>1, <4>2, <3>1, <3>3, <1>2
    <3>4. QED
      BY <3>2, <3>3, <1>2
  <2>4. QED
    BY <2>1, <2>2, <2>3 DEF MapListAgree, Agree
<1>8. \A i \in DOMAIN expiryList' : /\ expiryList'[i].expiry <= now + ttl
                                   /\ expiryList'[i].expiry \in Nat
  <2>1. ASSUME NEW i \in 1..m
        PROVE  expiryList'[i].expiry <= now + ttl /\ expiryList'[i].expiry \in Nat
    <3>1. expiryList'[i] \in Entry
      <4> HIDE DEF Entry
      <4>1. QED
        BY <1>2, <1>3, ElementOfSeq
    <3>2. QED
      BY <3>1, <1>3, <1>5 DEF Entry
  <2>2. expiryList'[m + 1].expiry = now + ttl
    BY <1>3 DEF NewExpiry
  <2>3. QED
    BY <2>1, <2>2, <1>1, <1>2, <1>3 DEF NewExpiry
<1>9. ListSorted'
  <2>1. SUFFICES ASSUME NEW i \in 1..(m + 1), NEW j \in 1..(m + 1), i <= j
                 PROVE  expiryList'[i].expiry <= expiryList'[j].expiry
    BY <1>3 DEF ListSorted, SortedByExpiry
  <2>2. CASE j \in 1..m
    <3>1. i \in 1..m
      BY <2>1, <2>2, <1>2
    <3>2. expiryList'[i] = Kept(k)[i] /\ expiryList'[j] = Kept(k)[j]
      BY <3>1, <2>2, <1>3
    <3>3. Kept(k)[i].expiry <= Kept(k)[j].expiry
      BY <3>1, <2>1, <2>2, <1>5
    <3>4. QED
      BY <3>2, <3>3
  <2>3. CASE j = m + 1
    BY <2>3, <1>3, <1>8 DEF NewExpiry
  <2>4. QED
    BY <2>2, <2>3, <1>2
<1>10. ExpiriesWithinTTL'
  BY <1>8 DEF ExpiriesWithinTTL, ttl
<1>11. QED
  BY <1>6, <1>7, <1>9, <1>10 DEF IInv

--------------------------------------------------------------------------------
(* The inductive invariant, and what it gives.                                *)

LEMMA InitInv == Init => IInv
<1> SUFFICES ASSUME Init PROVE IInv
  OBVIOUS
<1>1. expiryList = <<>> /\ DOMAIN expiryList = {} /\ DOMAIN cache = {}
  BY DEF Init
<1>2. TypeOK
  BY <1>1 DEF Init, TypeOK, NoCall
<1>3. QED
  BY <1>1, <1>2 DEF IInv, MapListAgree, Agree, ListSorted, SortedByExpiry, ExpiriesWithinTTL

LEMMA NextInv == IInv /\ [Next]_vars => IInv'
<1> SUFFICES ASSUME IInv, [Next]_vars PROVE IInv'
  OBVIOUS
<1>1. ASSUME NEW id \in Id, TryAdd(id) PROVE IInv'
  BY <1>1, RefusedKeepsInv, AcceptedKeepsInv DEF TryAdd
<1>2. ASSUME NEW id \in Id, IsBeingProcessed(id) PROVE IInv'
  BY <1>2 DEF IsBeingProcessed, IInv, TypeOK, Call, MapListAgree, ListSorted,
              ExpiriesWithinTTL, ttl
<1>3. CASE Tick
  <2>1. TypeOK' /\ MapListAgree' /\ ListSorted'
    BY <1>3 DEF Tick, IInv, TypeOK, MapListAgree, ListSorted
  <2>2. ExpiriesWithinTTL'
    <3>1. \A i \in DOMAIN expiryList : expiryList[i].expiry \in Nat
      BY ListOfEntries DEF IInv, Entry
    <3>2. now \in Nat /\ now' = now + 1 /\ expiryList' = expiryList
      BY <1>3 DEF Tick, IInv, TypeOK
    <3>3. QED
      BY <3>1, <3>2, TTLPositive DEF IInv, ExpiriesWithinTTL, ttl
  <2>3. QED
    BY <2>1, <2>2 DEF IInv
<1>4. CASE UNCHANGED vars
  BY <1>4 DEF vars, IInv, TypeOK, MapListAgree, ListSorted, ExpiriesWithinTTL, ttl
<1>5. QED
  BY <1>1, <1>2, <1>3, <1>4 DEF Next

(* In every reachable state the inductive invariant holds.                    *)
THEOREM Invariance == Spec => []IInv
<1>1. IInv /\ [Next]_vars => IInv'
  BY NextInv
<1>2. QED
  BY InitInv, <1>1, PTL DEF Spec

(* The cache's fields always have the types the Go struct declares.           *)
THEOREM TypeCorrect == Spec => []TypeOK
<1>1. IInv => TypeOK
  BY DEF IInv
<1>2. QED
  BY <1>1, Invariance, PTL

(* The map and the expiry list always describe the same entries.              *)
THEOREM MapAndListAgree == Spec => []MapListAgree
<1>1. IInv => MapListAgree
  BY DEF IInv
<1>2. QED
  BY <1>1, Invariance, PTL

(* The list is always sorted, as evictExpired's comment guarantees.           *)
THEOREM SortedList == Spec => []ListSorted
<1>1. IInv => ListSorted
  BY DEF IInv
<1>2. QED
  BY <1>1, Invariance, PTL

(* No entry leaves the map, or changes its expiry, before its time.           *)
LEMMA StepKeepsWindows ==
    IInv /\ [Next]_vars =>
        \A id \in DOMAIN cache :
            cache[id] > now' => id \in DOMAIN cache' /\ cache'[id] = cache[id]
<1> SUFFICES ASSUME IInv, [Next]_vars, NEW x \in DOMAIN cache, cache[x] > now'
             PROVE  x \in DOMAIN cache' /\ cache'[x] = cache[x]
  OBVIOUS
<1>1. ASSUME NEW id \in Id, TryAdd(id)
      PROVE  x \in DOMAIN cache' /\ cache'[x] = cache[x]
  <2>1. now' = now
    BY <1>1 DEF TryAdd
  <2>2. PICK k \in 0..Len(expiryList) :
          /\ EvictStopsAt(k)
          /\ \/ Found(k, id) /\ cache' = Remaining(k)
             \/ /\ ~Found(k, id)
                /\ cache' = [y \in DOMAIN Remaining(k) \cup {id} |->
                                IF y = id THEN NewExpiry ELSE cache[y]]
    BY <1>1 DEF TryAdd
  <2>3. x \in DOMAIN Remaining(k) /\ Remaining(k)[x] = cache[x]
    BY <2>1, <2>2, RemainingMap
  <2>4. CASE Found(k, id)
    BY <2>2, <2>3, <2>4
  <2>5. CASE ~Found(k, id)
    <3>1. x # id
      BY <2>3, <2>5 DEF Found
    <3>2. QED
      BY <2>2, <2>3, <2>5, <3>1
  <2>6. QED
    BY <2>4, <2>5
<1>2. ASSUME NEW id \in Id, IsBeingProcessed(id)
      PROVE  x \in DOMAIN cache' /\ cache'[x] = cache[x]
  BY <1>2 DEF IsBeingProcessed
<1>3. CASE Tick
  BY <1>3 DEF Tick
<1>4. CASE UNCHANGED vars
  BY <1>4 DEF vars
<1>5. QED
  BY <1>1, <1>2, <1>3, <1>4 DEF Next

(* The debounce window of an id is never cut short and never extended, so     *)
(* that two accepted TryAdd of one id are at least ttl apart.                 *)
THEOREM WindowsKept == Spec => WindowKept
<1>1. IInv /\ [Next]_vars =>
        [\A id \in DOMAIN cache :
            cache[id] > now' => id \in DOMAIN cache' /\ cache'[id] = cache[id]]_vars
  BY StepKeepsWindows
<1>2. QED
  BY <1>1, Invariance, PTL DEF Spec, WindowKept

--------------------------------------------------------------------------------
(* Refinement of EventCache.                                                  *)

LEMMA InitRefines == Init => Contract!Init
BY DEF Init, Contract!Init, StatusOf, NoCall, Contract!NoCall

LEMMA TryAddRefines ==
    ASSUME IInv, NEW id \in Id, TryAdd(id)
    PROVE  Contract!TryAdd(id)
<1>1. now' = now /\ now \in Nat
  BY DEF TryAdd, IInv, TypeOK
<1>2. PICK k \in 0..Len(expiryList) :
        /\ EvictStopsAt(k)
        /\ \/ /\ Found(k, id)
              /\ cache' = Remaining(k)
              /\ answer' = Call("TryAdd", id, FALSE)
           \/ /\ ~Found(k, id)
              /\ cache' = [x \in DOMAIN Remaining(k) \cup {id} |->
                              IF x = id THEN NewExpiry ELSE cache[x]]
              /\ answer' = Call("TryAdd", id, TRUE)
  BY DEF TryAdd
<1>3. /\ DOMAIN Remaining(k) = {x \in DOMAIN cache : cache[x] > now}
      /\ \A x \in DOMAIN Remaining(k) : Remaining(k)[x] = cache[x]
  BY <1>2, RemainingMap
<1>4. Found(k, id) <=> StatusOf[id] = "live"
  BY <1>3 DEF Found, StatusOf
<1>5. answer' = Contract!Call("TryAdd", id, Accepts(StatusOf, id))
  BY <1>2, <1>4 DEF Accepts, Contract!Call, Call
<1>6. ASSUME NEW x \in Id
      PROVE  StatusOf'[x] = AfterTryAdd(StatusOf, id)[x]
  <2>1. AfterTryAdd(StatusOf, id)[x] =
          IF x = id \/ StatusOf[x] = "live" THEN "live" ELSE "absent"
    BY DEF AfterTryAdd, Evicted, StatusOf
  <2>2. StatusOf'[x] = IF x \notin DOMAIN cache' THEN "absent"
                       ELSE IF cache'[x] > now THEN "live" ELSE "stale"
    BY <1>1 DEF StatusOf
  <2>3. StatusOf[x] = "live" <=> x \in DOMAIN Remaining(k)
    BY <1>3 DEF StatusOf
  <2>4. CASE Found(k, id)
    <3>1. cache' = Remaining(k)
      BY <1>2, <2>4
    <3>2. id \in DOMAIN Remaining(k)
      BY <2>4 DEF Found
    <3>3. QED
      BY <2>1, <2>2, <2>3, <1>3, <3>1, <3>2
  <2>5. CASE ~Found(k, id)
    <3>1. /\ DOMAIN cache' = DOMAIN Remaining(k) \cup {id}
          /\ cache'[id] = NewExpiry
          /\ \A y \in DOMAIN Remaining(k) : y # id => cache'[y] = Remaining(k)[y]
      BY <1>2, <1>3, <2>5
    <3>2. NewExpiry > now
      BY <1>1, TTLPositive DEF NewExpiry
    <3>3. QED
      BY <2>1, <2>2, <2>3, <1>3, <3>1, <3>2
  <2>6. QED
    BY <2>4, <2>5
<1>7. StatusOf' = AfterTryAdd(StatusOf, id)
  <2>1. StatusOf' = [x \in Id |-> StatusOf'[x]]
    BY DEF StatusOf
  <2>2. AfterTryAdd(StatusOf, id) = [x \in Id |-> AfterTryAdd(StatusOf, id)[x]]
    BY DEF AfterTryAdd, Evicted, StatusOf
  <2>3. QED
    BY <2>1, <2>2, <1>6
<1>8. QED
  BY <1>5, <1>7 DEF Contract!TryAdd, Contract!AfterTryAdd, Contract!Accepts,
                    AfterTryAdd, Evicted, Contract!Evicted, Accepts

LEMMA TickRefines ==
    ASSUME IInv, Tick
    PROVE  Contract!Expire
<1> DEFINE K == {x \in DOMAIN cache : cache[x] = now'}
<1>1. now \in Nat /\ now' = now + 1 /\ cache' = cache /\ K \in SUBSET Id
  BY DEF Tick, IInv, TypeOK
<1>2. \A x \in DOMAIN cache : cache[x] \in Nat
  BY DEF IInv, TypeOK
<1>3. ASSUME NEW x \in Id
      PROVE  StatusOf'[x] = Contract!AfterExpiry(StatusOf, K)[x]
  <2>1. StatusOf'[x] = IF x \notin DOMAIN cache THEN "absent"
                       ELSE IF cache[x] > now + 1 THEN "live" ELSE "stale"
    BY <1>1 DEF StatusOf
  <2>2. Contract!AfterExpiry(StatusOf, K)[x] =
          IF x \in K /\ StatusOf[x] = "live" THEN "stale" ELSE StatusOf[x]
    BY DEF Contract!AfterExpiry, StatusOf
  <2>3. QED
    BY <2>1, <2>2, <1>1, <1>2 DEF StatusOf
<1>4. StatusOf' = Contract!AfterExpiry(StatusOf, K)
  <2>1. StatusOf' = [x \in Id |-> StatusOf'[x]]
    BY DEF StatusOf
  <2>2. Contract!AfterExpiry(StatusOf, K) = [x \in Id |-> Contract!AfterExpiry(StatusOf, K)[x]]
    BY DEF Contract!AfterExpiry, StatusOf
  <2>3. QED
    BY <2>1, <2>2, <1>3
<1>5. answer' = answer
  BY DEF Tick
<1>6. QED
  BY <1>1, <1>4, <1>5 DEF Contract!Expire

LEMMA StepRefines == IInv /\ [Next]_vars => [Contract!Next]_(Contract!vars)
<1> SUFFICES ASSUME IInv, [Next]_vars PROVE [Contract!Next]_(Contract!vars)
  OBVIOUS
<1>1. ASSUME NEW id \in Id, TryAdd(id) PROVE Contract!Next
  BY <1>1, TryAddRefines DEF Contract!Next
<1>2. ASSUME NEW id \in Id, IsBeingProcessed(id) PROVE Contract!Next
  <2>1. StatusOf' = StatusOf
    BY <1>2 DEF IsBeingProcessed, StatusOf
  <2>2. id \in DOMAIN cache <=> StatusOf[id] # "absent"
    BY DEF StatusOf
  <2>3. Contract!IsBeingProcessed(id)
    BY <1>2, <2>1, <2>2 DEF IsBeingProcessed, Contract!IsBeingProcessed, Contract!Holds,
                            Contract!Call, Call
  <2>4. QED
    BY <2>3 DEF Contract!Next
<1>3. CASE Tick
  BY <1>3, TickRefines DEF Contract!Next
<1>4. CASE UNCHANGED vars
  BY <1>4 DEF vars, Contract!vars, StatusOf
<1>5. QED
  BY <1>1, <1>2, <1>3, <1>4 DEF Next

(* TTLEventCache, with its clock, map and list, implements EventCache.        *)
THEOREM Implementation == Spec => ImplementsContract
<1>1. IInv /\ [Next]_vars => [Contract!Next]_(Contract!vars)
  BY StepRefines
<1>2. QED
  BY <1>1, InitRefines, Invariance, PTL DEF Spec, ImplementsContract, Contract!Spec

--------------------------------------------------------------------------------
(* Start and shutdown.                                                        *)

(* The watcher has a stream from the moment at which it starts.               *)
StreamKnown ==
  /\ stream \in {"off", "open", "failed", "cancelled", "finished"}
  /\ stage \in {"ready", "running"} => stream # "off"
  /\ stage \in {"loading", "initializing", "setup", "ready"} =>
       watcher = "off" /\ processor = "off"
  /\ watcher \in {"watching", "sending"} => stream # "off"

(* A cancelled context is told of only after the signal, or within the group  *)
(* after another error, which is the one that the group keeps.                *)
CancelledAfterwards ==
  /\ firstErr = "canceled" \/ stream = "cancelled" => signalled
  /\ stop = "draining" => ServerDone
  /\ serverErr = "canceled" => GroupDone
  /\ processor = "returned" => firstErr # "none"

LifeInv == StreamKnown /\ CancelledAfterwards /\ SuccessOnlyOnSignal

LEMMA LifeInitInv == LifeInit => LifeInv
BY DEF LifeInit, LifeInv, StreamKnown, CancelledAfterwards, SuccessOnlyOnSignal

LEMMA ServiceStepInv == LifeInv /\ ServiceStep => LifeInv'
<1> SUFFICES ASSUME LifeInv, ServiceStep PROVE LifeInv'
  OBVIOUS
<1> USE DEF LifeInv, StreamKnown, CancelledAfterwards, SuccessOnlyOnSignal, ServerDone, GroupDone,
            First, startVars, serverVars, watcherVars
<1>1. CASE Initialize
  BY <1>1 DEF Initialize
<1>2. CASE Setup
  BY <1>2 DEF Setup
<1>3. CASE StartFails
  BY <1>3 DEF StartFails
<1>4. CASE Run
  BY <1>4 DEF Run
<1>5. ASSUME NEW r \in Request, Refused(r) \/ Answer(r) PROVE LifeInv'
  BY <1>5 DEF Refused, Answer
<1>6. CASE BeginShutdown
  BY <1>6 DEF BeginShutdown
<1>7. CASE ServerClosed
  BY <1>7 DEF ServerClosed
<1>8. CASE EndShutdown
  BY <1>8 DEF EndShutdown
<1>9. CASE ServerReturns
  BY <1>9 DEF ServerReturns
<1>10. CASE StreamCancelled
  BY <1>10 DEF StreamCancelled
<1>11. CASE ReviewTaken
  BY <1>11 DEF ReviewTaken
<1>12. CASE WatcherReturns
  BY <1>12 DEF WatcherReturns
<1>13. CASE ProcessorReturns
  BY <1>13 DEF ProcessorReturns
<1>14. CASE End
  BY <1>14 DEF End
<1>15. QED
  BY <1>1, <1>2, <1>3, <1>4, <1>5, <1>6, <1>7, <1>8, <1>9, <1>10, <1>11, <1>12, <1>13, <1>14
     DEF ServiceStep

LEMMA OthersStepInv == LifeInv /\ OthersStep => LifeInv'
<1> SUFFICES ASSUME LifeInv, OthersStep PROVE LifeInv'
  OBVIOUS
<1> USE DEF LifeInv, StreamKnown, CancelledAfterwards, SuccessOnlyOnSignal, ServerDone, GroupDone,
            First, startVars, serverVars, watcherVars
<1>1. CASE LoadConfig
  BY <1>1 DEF LoadConfig
<1>2. CASE Signal
  BY <1>2 DEF Signal
<1>3. CASE ServeFails
  BY <1>3 DEF ServeFails
<1>4. CASE StreamEnds
  BY <1>4 DEF StreamEnds
<1>5. CASE Review
  BY <1>5 DEF Review
<1>6. ASSUME NEW r \in Request, Deliver(r) PROVE LifeInv'
  BY <1>6 DEF Deliver
<1>7. QED
  BY <1>1, <1>2, <1>3, <1>4, <1>5, <1>6 DEF OthersStep

(* SuccessOnlyOnSignal for any deliveries and reviews: whichever part of the  *)
(* service fails, its error is what the command ends with, unless it was told *)
(* to end (approval-service.go, approvalservice.go, server.go).               *)
THEOREM EndsWellOnSignal == LifeSpec => []SuccessOnlyOnSignal
<1>1. LifeInv /\ UNCHANGED lifeVars => LifeInv'
  BY DEF lifeVars, LifeInv, StreamKnown, CancelledAfterwards, SuccessOnlyOnSignal, ServerDone,
         GroupDone
<1>2. LifeInv => SuccessOnlyOnSignal
  BY DEF LifeInv
<1>3. LifeInv /\ [LifeNext]_lifeVars => LifeInv'
  BY <1>1, ServiceStepInv, OthersStepInv DEF LifeNext
<1>4. QED
  BY <1>2, <1>3, LifeInitInv, PTL DEF LifeSpec

================================================================================
