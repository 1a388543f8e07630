----------------------- MODULE SpeculativeRankerProofs -----------------------
(***************************************************************************)
(* Theorems about SpeculativeRanker, and about CacheUse, which adds a      *)
(* history of uses to it, for every number of callers and keys             *)
(* and every settle window, time to live, cache size and clock lag.        *)
(***************************************************************************)
EXTENDS CacheUse, OrderingProofs, TLAPS

CallerPlaces == {"idle", "lookup", "clear", "acquire", "relookup", "infer", "store"}
WorkerPlaces == {"top", "wait", "settle", "recheck", "acquire", "infer", "store"}

\* Each thread is at a point of its own code, and it has a request exactly
\* where that code works on one.
PlacesOK ==
  /\ \A c \in Callers : pc[c] \in CallerPlaces
  /\ pc[Worker] \in WorkerPlaces
  /\ \A c \in Callers : IF pc[c] = "idle" THEN req[c] = None ELSE req[c] \in Keys
  /\ pc[Worker] \in {"acquire", "infer", "store"} => req[Worker] \in Keys

TypeInv == TypeOK /\ PlacesOK

USE DEF Threads

\* What pruning keeps are fresh entries of the cache, unchanged.
LEMMA PrunedEntries ==
  ASSUME NEW entries, NEW order, NEW late
  PROVE  /\ DOMAIN Pruned(entries, order, late) \subseteq Fresh(entries, late)
         /\ DOMAIN Pruned(entries, order, late) \subseteq DOMAIN entries
         /\ \A k \in DOMAIN Pruned(entries, order, late) :
               Pruned(entries, order, late)[k] = entries[k]
  BY DEF Pruned, Fresh

\* A lookup only removes entries from the cache.
LEMMA LookupShrinks ==
  ASSUME NEW c \in Callers, LookupIn(c)
  PROVE  /\ DOMAIN cache' \subseteq DOMAIN cache
         /\ \A k \in DOMAIN cache' : cache'[k] = cache[k]
         /\ \A k \in DOMAIN cache' : cache[k].age - lag[c] <= TTL
  BY PrunedEntries DEF LookupIn, Fresh, Pruned

\* A store adds the entry of the storing thread's own request, or nothing.
LEMMA StoreAdds ==
  ASSUME NEW t \in Threads, StoreIn(t)
  PROVE  \A k \in DOMAIN cache' :
            \/ k = req[t] /\ cache'[k] = [order |-> req[t], age |-> lag[t]]
            \/ k # req[t] /\ k \in DOMAIN cache /\ cache'[k] = cache[k]
  BY PrunedEntries DEF StoreIn, StoreUnder, Pruned, Fresh
----------------------------------------------------------------------------
(* Types *)

\* The outcome of a lookup or a store is a cache of typed entries.
LEMMA LookupType ==
  ASSUME TypeOK, NEW c \in Callers, LookupIn(c)
  PROVE  /\ DOMAIN cache' \subseteq Keys
         /\ \A k \in DOMAIN cache' : cache'[k] \in [order : Keys, age : 0..OldAge]
  BY LookupShrinks DEF TypeOK

\* Storing an order keeps the types of cache and list.
LEMMA StoreType ==
  ASSUME TypeOK, NEW t \in Threads, StoreIn(t), req[t] \in Keys
  PROVE  /\ DOMAIN cache' \subseteq Keys
         /\ \A k \in DOMAIN cache' : cache'[k] \in [order : Keys, age : 0..OldAge]
<1>1. lag[t] \in 0..OldAge
  BY ClockAssumption DEF TypeOK, OldAge
<1> QED
  BY <1>1, StoreAdds DEF TypeOK

\* A thread that leaves rank() or the worker's body is at a point of its own.
LEMMA LeaveType ==
  ASSUME TypeInv, NEW t \in Threads, NEW at,
         at = IF t = Worker THEN "top" ELSE "idle", Leave(t, at)
  PROVE  /\ pc' \in [Threads -> CallerPlaces \cup WorkerPlaces]
         /\ req' \in [Threads -> Keys \cup {None}]
         /\ lag' \in [Threads -> 0..MaxLag]
         /\ PlacesOK'
<1> USE ThreadsAssumption, ClockAssumption DEF CallerPlaces, WorkerPlaces
<1>1. /\ pc' \in [Threads -> CallerPlaces \cup WorkerPlaces]
      /\ req' \in [Threads -> Keys \cup {None}]
      /\ lag' \in [Threads -> 0..MaxLag]
  BY DEF Leave, TypeInv, TypeOK
<1>2. /\ pc'[t] = at /\ req'[t] = None
      /\ \A u \in Threads \ {t} : pc'[u] = pc[u] /\ req'[u] = req[u]
  BY DEF Leave, TypeInv, TypeOK
<1>3. PlacesOK'
  BY <1>2 DEF TypeInv, PlacesOK
<1> QED
  BY <1>1, <1>3

\* Every result rank() returns is typed.
LEMMA ReturnType ==
  ASSUME TypeInv, NEW c \in Callers, req[c] \in Keys,
         NEW order \in Keys \cup {MozcOrder, Failed}, NEW age \in 0..OldAge,
         Return(c, order, age)
  PROVE  /\ pc' \in [Threads -> CallerPlaces \cup WorkerPlaces]
         /\ req' \in [Threads -> Keys \cup {None}]
         /\ lag' \in [Threads -> 0..MaxLag]
         /\ answer' \in [Callers -> [key : Keys, order : Keys \cup {MozcOrder, Failed},
                                    age : 0..OldAge] \cup {None}]
         /\ PlacesOK'
<1>1. answer' \in [Callers -> [key : Keys, order : Keys \cup {MozcOrder, Failed},
                             age : 0..OldAge] \cup {None}]
  BY DEF TypeInv, TypeOK, Return, Result
<1>2. c \in Threads /\ Leave(c, IF c = Worker THEN "top" ELSE "idle")
  BY ThreadsAssumption DEF Return
<1>3. /\ pc' \in [Threads -> CallerPlaces \cup WorkerPlaces]
      /\ req' \in [Threads -> Keys \cup {None}]
      /\ lag' \in [Threads -> 0..MaxLag]
      /\ PlacesOK'
  BY <1>2, LeaveType
<1> QED
  BY <1>1, <1>3

\* The types hold at the beginning.
LEMMA TypeInit == Init => TypeInv
  BY ThreadsAssumption, ClockAssumption
  DEF Init, TypeInv, TypeOK, PlacesOK, CallerPlaces, WorkerPlaces

\* Every step keeps all types.
LEMMA TypeStep == TypeInv /\ [Next]_vars => TypeInv'
<1> SUFFICES ASSUME TypeInv, [Next]_vars PROVE TypeInv'
  OBVIOUS
<1> USE ThreadsAssumption, ClockAssumption DEF CallerPlaces, WorkerPlaces
<1>a. OldAge \in Nat /\ 0 \in 0..OldAge /\ 0 \in 0..MaxLag
  BY DEF OldAge
<1>1. ASSUME NEW c \in Callers, NEW k \in Keys, Prefetch(c, k) PROVE TypeInv'
  BY <1>1, <1>a DEF Prefetch, TypeInv, TypeOK, PlacesOK, PendingRequest, Woken, Result
<1>2. ASSUME NEW c \in Callers, NEW k \in Keys, Explicit(c, k) PROVE TypeInv'
  BY <1>2 DEF Explicit, TypeInv, TypeOK, PlacesOK
<1>3. ASSUME NEW c \in Callers, Lookup(c) PROVE TypeInv'
  <2>1. req[c] \in Keys
    BY <1>3 DEF Lookup, TypeInv, PlacesOK
  <2>2. CASE Hit(c)
    <3>1. /\ cache[req[c]].order \in Keys \cup {MozcOrder, Failed}
          /\ cache[req[c]].age \in 0..OldAge
      BY <1>3, <2>1, <2>2, LookupShrinks DEF Lookup, Hit, TypeInv, TypeOK
    <3> QED
      BY <1>3, <2>1, <2>2, <3>1, LookupType, ReturnType DEF Lookup, TypeInv, TypeOK
  <2>3. CASE ~Hit(c)
    BY <1>3, <2>1, <2>3, <1>a, LookupType DEF Lookup, TypeInv, TypeOK, PlacesOK
  <2> QED BY <2>2, <2>3
<1>4. ASSUME NEW c \in Callers, ClearPending(c) PROVE TypeInv'
  BY <1>4 DEF ClearPending, TypeInv, TypeOK, PlacesOK, Woken
<1>5. ASSUME NEW c \in Callers, Acquire(c) PROVE TypeInv'
  BY <1>5 DEF Acquire, TypeInv, TypeOK, PlacesOK
<1>6. ASSUME NEW c \in Callers, Relookup(c) PROVE TypeInv'
  <2>1. req[c] \in Keys
    BY <1>6 DEF Relookup, TypeInv, PlacesOK
  <2>2. CASE Hit(c)
    <3>1. /\ cache[req[c]].order \in Keys \cup {MozcOrder, Failed}
          /\ cache[req[c]].age \in 0..OldAge
      BY <1>6, <2>1, <2>2, LookupShrinks DEF Relookup, Hit, TypeInv, TypeOK
    <3> QED
      BY <1>6, <2>1, <2>2, <3>1, LookupType, ReturnType DEF Relookup, TypeInv, TypeOK
  <2>3. CASE ~Hit(c)
    BY <1>6, <2>1, <2>3, <1>a, LookupType DEF Relookup, TypeInv, TypeOK, PlacesOK
  <2> QED BY <2>2, <2>3
<1>7. ASSUME NEW t \in Threads, Infer(t) PROVE TypeInv'
  BY <1>7 DEF Infer, TypeInv, TypeOK, PlacesOK
<1>8. ASSUME NEW c \in Callers, CallerFails(c) PROVE TypeInv'
  <2>1. req[c] \in Keys
    BY <1>8 DEF CallerFails, TypeInv, PlacesOK
  <2> QED
    BY <1>8, <2>1, <1>a, ReturnType DEF CallerFails, TypeInv, TypeOK
<1>9. ASSUME NEW c \in Callers, CallerStore(c) PROVE TypeInv'
  <2>1. req[c] \in Keys
    BY <1>9 DEF CallerStore, TypeInv, PlacesOK
  <2> QED
    BY <1>9, <2>1, <1>a, StoreType, ReturnType DEF CallerStore, TypeInv, TypeOK
<1>10. ASSUME WorkerStore PROVE TypeInv'
  <2>1. req[Worker] \in Keys
    BY <1>10 DEF WorkerStore, TypeInv, PlacesOK
  <2> QED
    BY <1>10, <2>1, <1>a, StoreType, LeaveType DEF WorkerStore, TypeInv, TypeOK
<1>11. ASSUME WorkerTop PROVE TypeInv'
  <2>1. CASE pending = None
    BY <1>11, <2>1 DEF WorkerTop, TypeInv, TypeOK, PlacesOK
  <2>2. CASE pending # None /\ pending.age < Settle
    <3>1. /\ pending' = [pending EXCEPT !.watched = TRUE]
          /\ timer' = Settle - pending.age
          /\ pc' = [pc EXCEPT ![Worker] = "settle"]
          /\ UNCHANGED <<req, lag, lock, cache, lru, answer, behind>>
      BY <1>11, <2>2 DEF WorkerTop, TypeInv, TypeOK
    <3>2. pending \in [key : Keys, age : 0..Settle, watched : BOOLEAN]
      BY <2>2 DEF TypeInv, TypeOK
    <3>3. pending' = [key |-> pending.key, age |-> pending.age, watched |-> TRUE]
      BY <3>1, <3>2
    <3>4. pending' \in [key : Keys, age : 0..Settle, watched : BOOLEAN]
      BY <3>2, <3>3
    <3>5. timer' \in 0..Settle
      BY <3>1, <3>2
    <3> QED
      BY <3>1, <3>4, <3>5 DEF TypeInv, TypeOK, PlacesOK
  <2>3. CASE pending # None /\ pending.age >= Settle
    <3>1. /\ TakePending
          /\ UNCHANGED <<timer, lag, lock, cache, lru, answer, behind>>
      BY <1>11, <2>3 DEF WorkerTop, TypeInv, TypeOK
    <3>2. pending.key \in Keys
      BY <2>3 DEF TypeInv, TypeOK
    <3> QED
      BY <3>1, <3>2 DEF TakePending, TypeInv, TypeOK, PlacesOK
  <2> QED
    BY <1>11, <2>1, <2>2, <2>3 DEF WorkerTop
<1>12. ASSUME WorkerTimeout PROVE TypeInv'
  BY <1>12 DEF WorkerTimeout, TypeInv, TypeOK, PlacesOK
<1>13. ASSUME WorkerRecheck PROVE TypeInv'
  BY <1>13 DEF WorkerRecheck, Watched, TakePending, TypeInv, TypeOK, PlacesOK
<1>14. ASSUME WorkerAcquire PROVE TypeInv'
  BY <1>14 DEF WorkerAcquire, LesserOf, TypeInv, TypeOK, PlacesOK
<1>15. ASSUME WorkerFails PROVE TypeInv'
  BY <1>15, LeaveType DEF WorkerFails, TypeInv, TypeOK
<1>16. ASSUME Tick PROVE TypeInv'
  <2>1. TypeOK'
    <3>1. lag' \in [Threads -> 0..MaxLag]
      BY <1>16 DEF Tick, TypeInv, TypeOK
    <3>2. pending' \in [key : Keys, age : 0..Settle, watched : BOOLEAN] \cup {None}
      BY <1>16 DEF Tick, LesserOf, TypeInv, TypeOK
    <3>3. timer' \in 0..Settle
      BY <1>16 DEF Tick, TypeInv, TypeOK
    <3>4. /\ DOMAIN cache' \subseteq Keys
          /\ \A k \in DOMAIN cache' : cache'[k] \in [order : Keys, age : 0..OldAge]
      BY <1>16, <1>a DEF Tick, LesserOf, TypeInv, TypeOK
    <3> QED
      BY <1>16, <3>1, <3>2, <3>3, <3>4 DEF Tick, TypeInv, TypeOK
  <2>2. PlacesOK'
    BY <1>16 DEF Tick, TypeInv, PlacesOK
  <2> QED
    BY <2>1, <2>2 DEF TypeInv
<1>17. ASSUME UNCHANGED vars PROVE TypeInv'
  BY <1>17 DEF vars, TypeInv, TypeOK, PlacesOK
<1> QED
  BY <1>1, <1>2, <1>3, <1>4, <1>5, <1>6, <1>7, <1>8, <1>9, <1>10, <1>11, <1>12,
     <1>13, <1>14, <1>15, <1>16, <1>17
  DEF Next, CallerStep, WorkerStep

\* Every variable keeps its type in every behaviour of the ranker.
THEOREM TypeCorrect == Spec => []TypeOK
<1>1. TypeInv => TypeOK
  BY DEF TypeInv
<1> QED
  BY <1>1, TypeInit, TypeStep, PTL DEF Spec
----------------------------------------------------------------------------
(* The inference lock *)

\* A thread that holds the lock keeps it, or gives it up where it leaves the
\* code the lock protects; nobody else can come in meanwhile.
LEMMA SerialisedStep ==
  TypeInv /\ ModelSerialised /\ [Next]_vars => ModelSerialised'
<1> SUFFICES ASSUME TypeInv, ModelSerialised, [Next]_vars PROVE ModelSerialised'
  OBVIOUS
<1> USE ThreadsAssumption DEF ModelSerialised, Holding, TypeInv, TypeOK
<1>1. ASSUME NEW c \in Callers, NEW k \in Keys, Prefetch(c, k) PROVE ModelSerialised'
  BY <1>1 DEF Prefetch, Woken
<1>2. ASSUME NEW c \in Callers, NEW k \in Keys, Explicit(c, k) PROVE ModelSerialised'
  BY <1>2 DEF Explicit
<1>3. ASSUME NEW c \in Callers, Lookup(c) PROVE ModelSerialised'
  BY <1>3 DEF Lookup, Return, Leave
<1>4. ASSUME NEW c \in Callers, ClearPending(c) PROVE ModelSerialised'
  BY <1>4 DEF ClearPending, Woken
<1>5. ASSUME NEW c \in Callers, Acquire(c) PROVE ModelSerialised'
  BY <1>5 DEF Acquire
<1>6. ASSUME NEW c \in Callers, Relookup(c) PROVE ModelSerialised'
  BY <1>6 DEF Relookup, Return, Leave
<1>7. ASSUME NEW t \in Threads, Infer(t) PROVE ModelSerialised'
  BY <1>7 DEF Infer
<1>8. ASSUME NEW c \in Callers, CallerFails(c) PROVE ModelSerialised'
  BY <1>8 DEF CallerFails, Return, Leave
<1>9. ASSUME NEW c \in Callers, CallerStore(c) PROVE ModelSerialised'
  BY <1>9 DEF CallerStore, Return, Leave
<1>10. ASSUME WorkerStore PROVE ModelSerialised'
  BY <1>10 DEF WorkerStore, Leave
<1>11. ASSUME WorkerTop PROVE ModelSerialised'
  BY <1>11 DEF WorkerTop, TakePending
<1>12. ASSUME WorkerTimeout PROVE ModelSerialised'
  BY <1>12 DEF WorkerTimeout
<1>13. ASSUME WorkerRecheck PROVE ModelSerialised'
  BY <1>13 DEF WorkerRecheck, TakePending
<1>14. ASSUME WorkerAcquire PROVE ModelSerialised'
  BY <1>14 DEF WorkerAcquire
<1>15. ASSUME WorkerFails PROVE ModelSerialised'
  BY <1>15 DEF WorkerFails, Leave
<1>16. ASSUME Tick PROVE ModelSerialised'
  BY <1>16 DEF Tick
<1>17. ASSUME UNCHANGED vars PROVE ModelSerialised'
  BY <1>17 DEF vars
<1> QED
  BY <1>1, <1>2, <1>3, <1>4, <1>5, <1>6, <1>7, <1>8, <1>9, <1>10, <1>11, <1>12,
     <1>13, <1>14, <1>15, <1>16, <1>17
  DEF Next, CallerStep, WorkerStep

\* At the beginning nobody has the inference lock.
LEMMA SerialisedInit == Init => ModelSerialised
  BY ThreadsAssumption DEF Init, ModelSerialised, Holding

\* Exactly the thread that holds the inference lock is between taking it and
\* its release, whatever the other threads do: the model is never run twice at
\* a time.
THEOREM ModelIsSerialised == Spec => []ModelSerialised
<1> QED
  BY TypeInit, TypeStep, SerialisedInit, SerialisedStep, PTL DEF Spec
----------------------------------------------------------------------------
(* The cache *)

\* Thread t ends its model run by storing the result.
Stores(t) ==
  \/ t \in Callers /\ CallerStore(t)
  \/ t = Worker /\ WorkerStore

\* Who may change the cache, and how: an entry is kept, aged, dropped, or stored
\* by a thread for its own request.
LEMMA CacheSteps ==
  ASSUME TypeInv, [Next]_vars, NEW k \in DOMAIN cache'
  PROVE  \/ k \in DOMAIN cache /\ cache'[k].order = cache[k].order
         \/ \E t \in Threads : Stores(t) /\ req[t] = k /\ cache'[k].order = k
<1>1. CASE cache' = cache
  BY <1>1
<1>2. ASSUME NEW c \in Callers, Lookup(c) \/ Relookup(c)
      PROVE k \in DOMAIN cache /\ cache'[k].order = cache[k].order
  BY <1>2, LookupShrinks DEF Lookup, Relookup
<1>3. ASSUME NEW t \in Threads, Stores(t)
      PROVE \/ k \in DOMAIN cache /\ cache'[k].order = cache[k].order
            \/ req[t] = k /\ cache'[k].order = k
  <2>1. StoreIn(t)
    BY <1>3 DEF Stores, CallerStore, WorkerStore
  <2> QED
    BY <2>1, StoreAdds
<1>4. CASE Tick
  BY <1>4 DEF Tick, TypeInv, TypeOK
<1>5. \/ cache' = cache
      \/ \E c \in Callers : Lookup(c) \/ Relookup(c)
      \/ \E t \in Threads : Stores(t)
      \/ Tick
  BY DEF Stores, Next, vars, CallerStep, WorkerStep, Prefetch, Explicit, ClearPending,
         Acquire, Infer, CallerFails, WorkerTop, WorkerTimeout, WorkerRecheck,
         WorkerAcquire, WorkerFails
<1> QED
  BY <1>1, <1>2, <1>3, <1>4, <1>5

\* Every step keeps each cached order under its own key.
LEMMA CoherentStep == TypeInv /\ CacheCoherent /\ [Next]_vars => CacheCoherent'
  BY CacheSteps DEF CacheCoherent

\* In every behaviour, the order found under a key is the model's for that key.
THEOREM CacheIsCoherent == Spec => []CacheCoherent
<1>1. Init => CacheCoherent
  BY DEF Init, CacheCoherent
<1> QED
  BY <1>1, TypeInit, TypeStep, CoherentStep, PTL DEF Spec

\* The key a caller runs the model for has no entry and gets none: entries are
\* stored by the holder of the lock only, and that is the caller itself.
LEMMA NoRepeatStep ==
  TypeInv /\ ModelSerialised /\ NoRepeatedModelCall /\ [Next]_vars
    => NoRepeatedModelCall'
<1> SUFFICES ASSUME TypeInv, ModelSerialised, NoRepeatedModelCall, [Next]_vars,
                    NEW c \in Callers, pc'[c] \in {"infer", "store"},
                    req'[c] \in DOMAIN cache'
             PROVE FALSE
  BY DEF NoRepeatedModelCall
<1> USE ThreadsAssumption
<1>1. CASE pc[c] \in {"infer", "store"}
  <2>1. lock = c
    BY <1>1 DEF ModelSerialised, Holding
  <2>2. req'[c] = req[c]
    BY <1>1, <2>1
    DEF Next, vars, CallerStep, WorkerStep, Prefetch, Explicit, Lookup, ClearPending,
        Acquire, Relookup, Infer, CallerFails, CallerStore, WorkerStore, WorkerTop,
        WorkerTimeout, WorkerRecheck, WorkerAcquire, WorkerFails, Tick, TakePending,
        Return, Leave, TypeInv, TypeOK
  <2>3. req[c] \notin DOMAIN cache
    BY <1>1 DEF NoRepeatedModelCall
  <2>4. PICK t \in Threads : Stores(t) /\ req[t] = req[c]
    BY <2>2, <2>3, CacheSteps
  <2>5. pc[t] = "store"
    BY <2>4 DEF Stores, CallerStore, WorkerStore
  <2>6. t = c
    BY <2>1, <2>5 DEF ModelSerialised, Holding
  <2>7. CallerStore(c)
    BY <2>4, <2>6 DEF Stores
  <2> QED
    BY <2>7 DEF CallerStore, Return, Leave, TypeInv, TypeOK
<1>2. CASE pc[c] \notin {"infer", "store"}
  <2>1. Relookup(c) /\ ~Hit(c)
    BY <1>2
    DEF Next, vars, CallerStep, WorkerStep, Prefetch, Explicit, Lookup, ClearPending,
        Acquire, Relookup, Infer, CallerFails, CallerStore, WorkerStore, WorkerTop,
        WorkerTimeout, WorkerRecheck, WorkerAcquire, WorkerFails, Tick, TakePending,
        Return, Leave, Woken, TypeInv, TypeOK
  <2> QED
    BY <2>1 DEF Relookup, Hit
<1> QED
  BY <1>1, <1>2

\* A caller that missed twice is the only one to compute its key: no result for
\* it can appear in the cache between its second lookup and its own store.
THEOREM ModelCallIsNeeded == Spec => []NoRepeatedModelCall
<1>1. Init => NoRepeatedModelCall
  BY ThreadsAssumption DEF Init, NoRepeatedModelCall
<1> QED
  BY <1>1, TypeInit, TypeStep, SerialisedInit, SerialisedStep, NoRepeatStep, PTL DEF Spec
----------------------------------------------------------------------------
(* The order of the cache *)

\* The order lists the keys of the cache, each once, and is no longer than the
\* cache may be.
LruOK ==
  /\ lru \in Seq(Keys)
  /\ ToSet(lru) = DOMAIN cache
  /\ IsInjective(lru)
  /\ Len(lru) <= Size

\* What pruning an order keeps: the fresh elements in their order, all of them
\* or the last Size of them; at tells where each stood before.
PrunedFrom(at, o, order, T) ==
  /\ at \in [1..Len(o) -> 1..Len(order)]
  /\ \A p \in 1..Len(o) : o[p] = order[at[p]]
  /\ \A p, q \in 1..Len(o) : p < q => at[p] < at[q]
  /\ \A i \in 1..Len(order) : order[i] \in T =>
       \/ \E p \in 1..Len(o) : at[p] = i
       \/ Len(o) = Size /\ \A p \in 1..Len(o) : i < at[p]

\* What marking k as the most recently used key makes of an order: k comes last,
\* the others in the order they had.
MovedFrom(o, order, k) ==
  \A i, j \in 1..Len(o) : i < j =>
    /\ o[i] # k
    /\ \/ o[j] = k
       \/ \E a, b \in 1..Len(order) : a < b /\ order[a] = o[i] /\ order[b] = o[j]

\* Pruning keeps an order of distinct keys one, and cuts it to the cache's size.
LEMMA PrunedOrderFacts ==
  ASSUME NEW entries, NEW late, NEW order \in Seq(Keys), IsInjective(order),
         NEW o, o = PrunedOrder(entries, order, late)
  PROVE  /\ o \in Seq(Keys) /\ IsInjective(o) /\ Len(o) <= Size
         /\ DOMAIN Pruned(entries, o, late) = ToSet(o)
         /\ ToSet(o) \subseteq ToSet(order)
         /\ \E at : PrunedFrom(at, o, order, Fresh(entries, late))
<1> DEFINE fresh == Kept(order, Fresh(entries, late))
           cut == LesserOf(Size, Len(fresh))
           first == Len(fresh) - cut + 1
<1>1. fresh \in Seq(Keys) /\ Len(fresh) \in Nat
  BY KeptFacts
<1>2. PICK at : IsKept(at, fresh, order, Fresh(entries, late))
  BY KeptFacts
<1> HIDE DEF fresh
<1> USE DEF IsKept
<1>3. cut \in Nat /\ cut <= Size /\ cut <= Len(fresh) /\ first \in Nat \ {0}
  BY <1>1, SizeAssumption DEF LesserOf
<1>4. o = SubSeq(fresh, first, Len(fresh))
  BY DEF PrunedOrder, fresh
<1> HIDE DEF cut
<1>5. \A i \in first..Len(fresh) : fresh[i] \in Keys
  BY <1>1, <1>3
<1> HIDE DEF first
<1>6. /\ o \in Seq(Keys)
      /\ Len(o) = IF first <= Len(fresh) THEN Len(fresh) - first + 1 ELSE 0
      /\ \A i \in 1..(Len(fresh) - first + 1) : o[i] = fresh[first + i - 1]
  BY <1>1, <1>3, <1>4, <1>5, SubSeqProperties
<1>7. Len(o) = cut
  BY <1>1, <1>3, <1>6 DEF first
<1>8. \A i \in 1..Len(o) : first + i - 1 \in 1..Len(fresh) /\ o[i] = fresh[first + i - 1]
  BY <1>1, <1>3, <1>6, <1>7 DEF first
<1>9. DOMAIN order = 1..Len(order) /\ DOMAIN o = 1..Len(o) /\ Len(order) \in Nat
  BY <1>6
<1>10. ASSUME NEW k \in 1..Len(fresh), NEW l \in 1..Len(fresh), fresh[k] = fresh[l]
       PROVE k = l
  <2>1. at[k] = at[l] /\ at[k] \in Int
    BY <1>2, <1>9, <1>10 DEF IsInjective
  <2>2. ~(at[k] < at[l]) /\ ~(at[l] < at[k])
    BY <2>1
  <2>3. ~(k < l) /\ ~(l < k)
    BY <1>2, <2>2
  <2> QED
    BY <1>1, <2>3
<1>11. ASSUME NEW i \in 1..Len(o), NEW j \in 1..Len(o), o[i] = o[j] PROVE i = j
  <2>1. first + i - 1 = first + j - 1
    BY <1>8, <1>10, <1>11
  <2> QED
    BY <1>3, <1>7, <2>1
<1>12. IsInjective(o)
  BY <1>9, <1>11 DEF IsInjective
<1>13. \A i \in 1..Len(o) : o[i] \in Fresh(entries, late) /\ o[i] \in ToSet(order)
  BY <1>2, <1>8, <1>9 DEF ToSet
<1>14. ToSet(o) \subseteq Fresh(entries, late) /\ ToSet(o) \subseteq ToSet(order)
  BY <1>9, <1>13 DEF ToSet
<1>15. PrunedFrom([p \in 1..Len(o) |-> at[first + p - 1]], o, order, Fresh(entries, late))
  <2> DEFINE b == [p \in 1..Len(o) |-> at[first + p - 1]]
  <2>1. \A p \in 1..Len(o) : b[p] = at[first + p - 1] /\ first + p - 1 \in 1..Len(fresh)
    BY <1>8
  <2>2. b \in [1..Len(o) -> 1..Len(order)]
    BY <1>2, <2>1
  <2>3. \A p \in 1..Len(o) : o[p] = order[b[p]]
    BY <1>2, <1>8, <2>1
  <2>4. ASSUME NEW p \in 1..Len(o), NEW q \in 1..Len(o), p < q PROVE b[p] < b[q]
    <3>1. first + p - 1 < first + q - 1
      BY <1>3, <1>7, <2>4
    <3> QED
      BY <1>2, <2>1, <3>1
  <2>5. ASSUME NEW i \in 1..Len(order), order[i] \in Fresh(entries, late)
        PROVE \/ \E p \in 1..Len(o) : b[p] = i
              \/ Len(o) = Size /\ \A p \in 1..Len(o) : i < b[p]
    <3>1. PICK m \in 1..Len(fresh) : at[m] = i
      BY <1>2, <2>5
    <3>2. CASE m >= first
      <4> DEFINE p == m - first + 1
      <4>1. p \in 1..Len(o) /\ first + p - 1 = m
        BY <1>1, <1>3, <1>7, <3>2 DEF first
      <4>2. b[p] = i
        BY <2>1, <3>1, <4>1
      <4> QED
        BY <4>1, <4>2
    <3>3. CASE m < first
      <4>1. first # 1
        BY <1>1, <1>3, <3>3
      <4>2. Len(o) = Size
        BY <1>1, <1>3, <1>7, <4>1, SizeAssumption DEF first, cut, LesserOf
      <4>3. ASSUME NEW p \in 1..Len(o) PROVE i < b[p]
        <5>1. m < first + p - 1
          BY <1>1, <1>3, <1>7, <3>3
        <5> QED
          BY <1>2, <2>1, <3>1, <5>1
      <4> QED
        BY <4>2, <4>3
    <3> QED
      BY <1>1, <1>3, <3>2, <3>3
  <2> HIDE DEF b
  <2>6. PrunedFrom(b, o, order, Fresh(entries, late))
    BY <2>2, <2>3, <2>4, <2>5 DEF PrunedFrom
  <2> QED
    BY <2>6 DEF b
<1> QED
  BY <1>3, <1>6, <1>7, <1>12, <1>14, <1>15 DEF Pruned

\* Marking a key as the most recently used one lists it once more, or still.
LEMMA MoveToEndFacts ==
  ASSUME NEW order \in Seq(Keys), IsInjective(order), NEW k \in Keys,
         NEW o, o = MoveToEnd(order, k)
  PROVE  /\ o \in Seq(Keys) /\ IsInjective(o)
         /\ ToSet(o) = ToSet(order) \cup {k}
         /\ k \in ToSet(order) => Len(o) <= Len(order)
         /\ MovedFrom(o, order, k)
<1> DEFINE others == Kept(order, Keys \ {k})
<1>1. others \in Seq(Keys) /\ Len(others) \in Nat
  BY KeptFacts
<1>2. PICK at : IsKept(at, others, order, Keys \ {k})
  BY KeptFacts
<1> USE DEF IsKept
<1>3. /\ Len(others) <= Len(order)
      /\ (\E i \in 1..Len(order) : order[i] \notin Keys \ {k}) => Len(others) < Len(order)
  BY KeptShrinks
<1>4. o = Append(others, k)
  BY DEF MoveToEnd
<1> HIDE DEF others
<1>5. /\ o \in Seq(Keys) /\ Len(o) = Len(others) + 1
      /\ \A i \in 1..Len(others) : o[i] = others[i]
      /\ o[Len(others) + 1] = k
  BY <1>1, <1>4, AppendProperties
<1>6. /\ DOMAIN order = 1..Len(order) /\ DOMAIN o = 1..Len(o)
      /\ Len(order) \in Nat /\ \A i \in 1..Len(order) : order[i] \in Keys
  BY <1>5
<1>7. \A i \in 1..Len(o) : i \in 1..Len(others) \/ i = Len(others) + 1
  BY <1>1, <1>5
<1>8. ASSUME NEW i \in 1..Len(others), NEW j \in 1..Len(others), others[i] = others[j]
      PROVE i = j
  <2>1. at[i] = at[j] /\ at[i] \in Int
    <3>1. at[i] \in 1..Len(order) /\ at[j] \in 1..Len(order)
      BY <1>2
    <3>2. order[at[i]] = order[at[j]]
      BY <1>2, <1>8
    <3> QED
      BY <1>6, <3>1, <3>2 DEF IsInjective
  <2>2. ~(at[i] < at[j]) /\ ~(at[j] < at[i])
    BY <2>1
  <2>3. ~(i < j) /\ ~(j < i)
    BY <1>2, <2>2
  <2> QED
    BY <1>1, <2>3
<1>9. \A i \in 1..Len(others) : o[i] # k
  BY <1>2, <1>5
<1>10. IsInjective(o)
  BY <1>5, <1>6, <1>7, <1>8, <1>9 DEF IsInjective
<1>11. ToSet(o) \subseteq ToSet(order) \cup {k}
  BY <1>2, <1>5, <1>6, <1>7 DEF ToSet
<1>12. ASSUME NEW i \in 1..Len(order) PROVE order[i] \in ToSet(o)
  <2>1. CASE order[i] = k
    BY <1>1, <1>5, <1>6, <2>1 DEF ToSet
  <2>2. CASE order[i] # k
    <3>1. PICK j \in 1..Len(others) : at[j] = i
      BY <1>2, <1>6, <2>2
    <3>2. j \in DOMAIN o /\ o[j] = order[i]
      BY <1>1, <1>2, <1>5, <1>6, <3>1
    <3> QED
      BY <3>2 DEF ToSet
  <2> QED
    BY <2>1, <2>2
<1>13. k \in ToSet(o)
  BY <1>1, <1>5, <1>6 DEF ToSet
<1>14. ToSet(o) = ToSet(order) \cup {k}
  BY <1>6, <1>11, <1>12, <1>13 DEF ToSet
<1>15. ASSUME k \in ToSet(order) PROVE Len(o) <= Len(order)
  BY <1>1, <1>3, <1>5, <1>6, <1>15 DEF ToSet
<1>16. ASSUME NEW i \in 1..Len(o), NEW j \in 1..Len(o), i < j
       PROVE /\ o[i] # k
             /\ \/ o[j] = k
                \/ \E a, b \in 1..Len(order) : a < b /\ order[a] = o[i] /\ order[b] = o[j]
  <2>1. i \in 1..Len(others)
    BY <1>1, <1>5, <1>16
  <2>2. CASE j = Len(others) + 1
    BY <1>5, <1>9, <2>1, <2>2
  <2>3. CASE j \in 1..Len(others)
    <3>1. at[i] \in 1..Len(order) /\ at[j] \in 1..Len(order) /\ at[i] < at[j]
      BY <1>2, <1>16, <2>1, <2>3
    <3>2. order[at[i]] = o[i] /\ order[at[j]] = o[j]
      BY <1>2, <1>5, <2>1, <2>3
    <3> QED
      BY <1>9, <2>1, <3>1, <3>2
  <2> QED
    BY <1>7, <2>2, <2>3
<1> QED
  BY <1>5, <1>10, <1>14, <1>15, <1>16 DEF MovedFrom

\* A lookup prunes cache and order alike; a hit moves its key to the end.
LEMMA LookupKeepsLru ==
  ASSUME TypeInv, LruOK, NEW c \in Callers, req[c] \in Keys, LookupIn(c)
  PROVE  LruOK'
<1> DEFINE o == PrunedOrder(cache, lru, lag[c])
<1>1. /\ o \in Seq(Keys) /\ IsInjective(o) /\ Len(o) <= Size
      /\ DOMAIN Pruned(cache, o, lag[c]) = ToSet(o)
  BY PrunedOrderFacts DEF LruOK
<1>2. DOMAIN cache' = ToSet(o) /\ lru' = IF Hit(c) THEN MoveToEnd(o, req[c]) ELSE o
  BY <1>1 DEF LookupIn
<1> HIDE DEF o
<1>3. CASE ~Hit(c)
  BY <1>1, <1>2, <1>3 DEF LruOK
<1>4. CASE Hit(c)
  <2>1. req[c] \in ToSet(o) /\ lru' = MoveToEnd(o, req[c])
    BY <1>2, <1>4 DEF Hit
  <2>2. /\ lru' \in Seq(Keys) /\ IsInjective(lru') /\ Len(lru') <= Len(o)
        /\ ToSet(lru') = ToSet(o) \cup {req[c]}
    BY <1>1, <2>1, MoveToEndFacts
  <2>3. ToSet(lru') = DOMAIN cache'
    BY <1>2, <2>1, <2>2
  <2>4. Len(lru') <= Size
    BY <1>1, <2>2, SizeAssumption
  <2> QED
    BY <2>2, <2>3, <2>4 DEF LruOK
<1> QED
  BY <1>3, <1>4

\* A store puts its key last and cuts the cache to its size.
LEMMA StoreKeepsLru ==
  ASSUME TypeInv, LruOK, NEW t \in Threads, req[t] \in Keys, StoreIn(t)
  PROVE  LruOK'
<1> DEFINE entries == [j \in DOMAIN cache \cup {req[t]} |->
                         IF j = req[t] THEN [order |-> req[t], age |-> lag[t]] ELSE cache[j]]
           moved == MoveToEnd(lru, req[t])
           o == PrunedOrder(entries, moved, lag[t])
<1>1. moved \in Seq(Keys) /\ IsInjective(moved)
  BY MoveToEndFacts DEF LruOK
<1>2. cache' = Pruned(entries, o, lag[t]) /\ lru' = o
  BY DEF StoreIn, StoreUnder
<1> HIDE DEF entries, moved
<1>3. /\ o \in Seq(Keys) /\ IsInjective(o) /\ Len(o) <= Size
      /\ DOMAIN Pruned(entries, o, lag[t]) = ToSet(o)
  BY <1>1, PrunedOrderFacts
<1> QED
  BY <1>2, <1>3 DEF LruOK

\* Every step keeps the order one of the cache's keys.
LEMMA LruStep == TypeInv /\ LruOK /\ [Next]_vars => LruOK'
<1> SUFFICES ASSUME TypeInv, LruOK, [Next]_vars PROVE LruOK'
  OBVIOUS
<1>1. ASSUME NEW c \in Callers, Lookup(c) \/ Relookup(c) PROVE LruOK'
  <2>1. req[c] \in Keys /\ LookupIn(c)
    BY <1>1 DEF Lookup, Relookup, TypeInv, PlacesOK
  <2> QED
    BY <2>1, LookupKeepsLru
<1>2. ASSUME NEW t \in Threads, Stores(t) PROVE LruOK'
  <2>1. req[t] \in Keys /\ StoreIn(t)
    BY <1>2 DEF Stores, CallerStore, WorkerStore, TypeInv, PlacesOK
  <2> QED
    BY <2>1, StoreKeepsLru
<1>3. CASE DOMAIN cache' = DOMAIN cache /\ lru' = lru
  BY <1>3 DEF LruOK
<1>4. Tick => DOMAIN cache' = DOMAIN cache /\ lru' = lru
  BY DEF Tick
<1>5. \/ DOMAIN cache' = DOMAIN cache /\ lru' = lru
      \/ \E c \in Callers : Lookup(c) \/ Relookup(c)
      \/ \E t \in Threads : Stores(t)
  BY <1>4
  DEF Stores, Next, vars, CallerStep, WorkerStep, Prefetch, Explicit, ClearPending,
      Acquire, Infer, CallerFails, WorkerTop, WorkerTimeout, WorkerRecheck,
      WorkerAcquire, WorkerFails
<1> QED
  BY <1>1, <1>2, <1>3, <1>5

----------------------------------------------------------------------------
(* What the cache keeps *)

\* The order of the cache is the order of use: what comes later in it has been
\* used after what comes before.
UseOK ==
  /\ since \in [Keys -> SUBSET Keys]
  /\ \A k \in Keys : IsFiniteSet(since[k])
  /\ \A i, j \in 1..Len(lru) : i < j => lru[j] \in since[lru[i]]

\* An order of distinct keys lists as many as it is long.
LEMMA DistinctKeys ==
  ASSUME NEW o \in Seq(Keys), IsInjective(o)
  PROVE  IsFiniteSet(ToSet(o)) /\ Cardinality(ToSet(o)) = Len(o)
<1>1. Len(o) \in Nat /\ DOMAIN o = 1..Len(o) /\ o \in [1..Len(o) -> Keys]
  OBVIOUS
<1>2. o \in Surjection(1..Len(o), ToSet(o))
  BY <1>1 DEF Surjection, ToSet
<1>3. \A i, j \in 1..Len(o) : o[i] = o[j] => i = j
  BY <1>1 DEF IsInjective
<1>4. o \in Injection(1..Len(o), ToSet(o))
  BY <1>2, <1>3 DEF Injection, Surjection
<1>5. IsFiniteSet(1..Len(o)) /\ Cardinality(1..Len(o)) = Len(o)
  BY <1>1, FS_Interval
<1> QED
  BY <1>2, <1>4, <1>5, FS_Surjection

\* Pruning drops a fresh key only when Size keys come after it.
LEMMA PrunedIsOld ==
  ASSUME NEW entries, NEW late, NEW order \in Seq(Keys), IsInjective(order),
         NEW o, o = PrunedOrder(entries, order, late),
         NEW i \in 1..Len(order), order[i] \in Fresh(entries, late),
         order[i] \notin ToSet(o),
         NEW T, IsFiniteSet(T), \A j \in 1..Len(order) : i < j => order[j] \in T
  PROVE  Cardinality(T) >= Size
<1>1. o \in Seq(Keys) /\ IsInjective(o)
  BY PrunedOrderFacts
<1>2. PICK at : PrunedFrom(at, o, order, Fresh(entries, late))
  BY PrunedOrderFacts
<1>3. DOMAIN o = 1..Len(o)
  BY <1>1
<1>4. \A p \in 1..Len(o) : at[p] # i
  BY <1>2, <1>3 DEF PrunedFrom, ToSet
<1>5. Len(o) = Size /\ \A p \in 1..Len(o) : i < at[p]
  BY <1>2, <1>4 DEF PrunedFrom
<1>6. \A p \in 1..Len(o) : o[p] \in T
  BY <1>2, <1>5 DEF PrunedFrom
<1>7. ToSet(o) \subseteq T
  BY <1>3, <1>6 DEF ToSet
<1>8. Cardinality(ToSet(o)) <= Cardinality(T)
  BY <1>7, FS_Subset
<1>9. Cardinality(ToSet(o)) = Size
  BY <1>1, <1>5, DistinctKeys
<1> QED
  BY <1>8, <1>9, FS_CardinalityType, SizeAssumption

\* Who uses a key, and which: a lookup that hits, and every store.
UsesLookup(c) ==
  /\ req[c] \in Keys
  /\ LookupIn(c)
  /\ UsedNow = IF Hit(c) THEN {req[c]} ELSE {}

UsesStore(t) == req[t] \in Keys /\ StoreIn(t) /\ UsedNow = {req[t]}

\* Every step uses the key of a lookup that hits or of a store, or leaves the
\* cache and its order alone and uses none.
LEMMA UseSteps ==
  ASSUME TypeInv, [Next]_vars
  PROVE  \/ UsedNow = {} /\ DOMAIN cache' = DOMAIN cache /\ lru' = lru
         \/ \E c \in Callers : UsesLookup(c)
         \/ \E t \in Threads : UsesStore(t)
<1> USE ThreadsAssumption
<1>1. ASSUME NEW c \in Callers, Lookup(c) \/ Relookup(c) PROVE UsesLookup(c)
  <2>1. req[c] \in Keys /\ LookupIn(c)
    BY <1>1 DEF Lookup, Relookup, TypeInv, PlacesOK
  <2>2. CASE Hit(c)
    <3>1. pc' = [pc EXCEPT ![c] = "idle"] /\ pc[c] \in Reading
      BY <1>1, <2>2 DEF Lookup, Relookup, Return, Leave, Reading
    <3>2. \A t \in Threads : Uses(t) <=> t = c
      BY <3>1 DEF Uses, TypeInv, TypeOK, Reading
    <3>3. UsedNow = {req[c]}
      BY <3>2 DEF UsedNow
    <3> QED
      BY <2>1, <2>2, <3>3 DEF UsesLookup
  <2>3. CASE ~Hit(c)
    <3>1. pc' = [pc EXCEPT ![c] = "clear"] \/ pc' = [pc EXCEPT ![c] = "infer"]
      BY <1>1, <2>3 DEF Lookup, Relookup
    <3>2. \A t \in Threads : ~Uses(t)
      BY <3>1 DEF Uses, TypeInv, TypeOK, Reading
    <3>3. UsedNow = {}
      BY <3>2 DEF UsedNow
    <3> QED
      BY <2>1, <2>3, <3>3 DEF UsesLookup
  <2> QED
    BY <2>2, <2>3
<1>2. ASSUME NEW t \in Threads, Stores(t) PROVE UsesStore(t)
  <2>1. req[t] \in Keys /\ StoreIn(t)
    BY <1>2 DEF Stores, CallerStore, WorkerStore, TypeInv, PlacesOK
  <2>2. /\ pc[t] = "store"
        /\ pc' = [pc EXCEPT ![t] = "idle"] \/ pc' = [pc EXCEPT ![t] = "top"]
    BY <1>2 DEF Stores, CallerStore, WorkerStore, Return, Leave
  <2>3. \A u \in Threads : Uses(u) <=> u = t
    BY <2>2 DEF Uses, TypeInv, TypeOK, Reading
  <2>4. UsedNow = {req[t]}
    BY <2>3 DEF UsedNow
  <2> QED
    BY <2>1, <2>4 DEF UsesStore
<1>3. ASSUME NEW c \in Callers,
             \/ \E k \in Keys : Prefetch(c, k) \/ Explicit(c, k)
             \/ ClearPending(c) \/ Acquire(c) \/ Infer(c) \/ CallerFails(c)
      PROVE  UsedNow = {} /\ DOMAIN cache' = DOMAIN cache /\ lru' = lru
  <2>1. \A t \in Threads : ~Uses(t)
    BY <1>3 DEF Prefetch, Explicit, ClearPending, Acquire, Infer, CallerFails, Return,
                Leave, Woken, Uses, Reading, TypeInv, TypeOK
  <2>2. UsedNow = {}
    BY <2>1 DEF UsedNow
  <2> QED
    BY <1>3, <2>2 DEF Prefetch, Explicit, ClearPending, Acquire, Infer, CallerFails
<1>4. ASSUME \/ WorkerTop \/ WorkerTimeout \/ WorkerRecheck \/ WorkerAcquire
             \/ Infer(Worker) \/ WorkerFails \/ Tick \/ UNCHANGED vars
      PROVE  UsedNow = {} /\ DOMAIN cache' = DOMAIN cache /\ lru' = lru
  <2>1. \A t \in Threads : ~Uses(t)
    BY <1>4 DEF WorkerTop, WorkerTimeout, WorkerRecheck, WorkerAcquire, Infer, WorkerFails,
                Tick, TakePending, Leave, Uses, Reading, TypeInv, TypeOK, vars
  <2>2. UsedNow = {}
    BY <2>1 DEF UsedNow
  <2> QED
    BY <1>4, <2>2 DEF WorkerTop, WorkerTimeout, WorkerRecheck, WorkerAcquire, Infer,
                      WorkerFails, Tick, vars
<1>5. Next \/ UNCHANGED vars
  OBVIOUS
<1> QED
  BY <1>1, <1>2, <1>3, <1>4, <1>5 DEF Next, CallerStep, WorkerStep, Stores

\* The history is one of finitely many keys for each key.
LEMMA SinceType ==
  ASSUME TypeInv, UseOK, [Next]_vars, Recorded
  PROVE  /\ since' \in [Keys -> SUBSET Keys]
         /\ \A k \in Keys : IsFiniteSet(since'[k])
<1>1. UsedNow = {} \/ \E k \in Keys : UsedNow = {k}
  BY UseSteps DEF UsesLookup, UsesStore
<1>2. ASSUME NEW k \in Keys PROVE IsFiniteSet(since[k] \cup UsedNow)
  <2>1. IsFiniteSet(UsedNow)
    BY <1>1, FS_EmptySet, FS_Singleton
  <2> QED
    BY <2>1, FS_Union DEF UseOK
<1>3. \A k \in Keys : since'[k] = {} \/ since'[k] = since[k] \cup UsedNow
  BY DEF Recorded
<1> QED
  BY <1>1, <1>2, <1>3, FS_EmptySet DEF Recorded, UseOK

\* What a lookup keeps is in the order of use, and it drops nothing early.
LEMMA LookupUse ==
  ASSUME TypeInv, LruOK, UseOK, NEW c \in Callers, UsesLookup(c), Recorded, LruOK'
  PROVE  /\ \A i, j \in 1..Len(lru') : i < j => lru'[j] \in since'[lru'[i]]
         /\ UsedNow \subseteq DOMAIN cache' /\ LeavesOld
<1> DEFINE o == PrunedOrder(cache, lru, lag[c])
           r == req[c]
<1>1. /\ o \in Seq(Keys) /\ IsInjective(o)
      /\ DOMAIN Pruned(cache, o, lag[c]) = ToSet(o)
  BY PrunedOrderFacts DEF LruOK
<1>2. PICK at : PrunedFrom(at, o, lru, Fresh(cache, lag[c]))
  BY PrunedOrderFacts DEF LruOK
<1>3. /\ DOMAIN cache' = ToSet(o) /\ r \in Keys
      /\ lru' = IF Hit(c) THEN MoveToEnd(o, r) ELSE o
      /\ UsedNow = IF Hit(c) THEN {r} ELSE {}
  BY <1>1 DEF LookupIn, UsesLookup
<1>4. UsedNow \subseteq DOMAIN cache'
  BY <1>3 DEF Hit
<1>5. LeavesOld
  <2> SUFFICES ASSUME NEW k \in DOMAIN cache \ DOMAIN cache', ~(cache[k].age > TTL)
               PROVE  Cardinality(since[k] \cup UsedNow) >= Size
    BY DEF LeavesOld
  <2>1. PICK i \in 1..Len(lru) : lru[i] = k
    BY DEF LruOK, ToSet
  <2>2. k \in Keys /\ k \in Fresh(cache, lag[c])
    BY ClockAssumption DEF Fresh, TypeInv, TypeOK, OldAge
  <2>3. IsFiniteSet(since[k] \cup UsedNow)
    <3>1. IsFiniteSet(UsedNow)
      BY <1>3, FS_EmptySet, FS_Singleton
    <3> QED
      BY <2>2, <3>1, FS_Union DEF UseOK
  <2>4. \A j \in 1..Len(lru) : i < j => lru[j] \in since[k] \cup UsedNow
    BY <2>1 DEF UseOK
  <2>5. k \notin ToSet(o)
    BY <1>3
  <2> HIDE DEF o
  <2>6. o = PrunedOrder(cache, lru, lag[c])
    BY DEF o
  <2> QED
    BY <2>1, <2>2, <2>3, <2>4, <2>5, <2>6, PrunedIsOld DEF LruOK
<1> HIDE DEF o
<1>6. DOMAIN o = 1..Len(o) /\ \A i \in 1..Len(o) : o[i] \in Keys /\ o[i] \in ToSet(o)
  BY <1>1 DEF ToSet
<1>7. ASSUME NEW i \in 1..Len(o), NEW j \in 1..Len(o), i < j PROVE o[j] \in since[o[i]]
  <2>1. at[i] \in 1..Len(lru) /\ at[j] \in 1..Len(lru) /\ at[i] < at[j]
    BY <1>2, <1>7 DEF PrunedFrom
  <2>2. o[i] = lru[at[i]] /\ o[j] = lru[at[j]]
    BY <1>2 DEF PrunedFrom
  <2> QED
    BY <2>1, <2>2 DEF UseOK
<1>8. \A k \in ToSet(o) : k \in Keys /\ since'[k] = IF k \in UsedNow THEN {} ELSE since[k] \cup UsedNow
  BY <1>3, <1>6 DEF Recorded, ToSet
<1>9. ASSUME NEW i \in 1..Len(lru'), NEW j \in 1..Len(lru'), i < j
      PROVE lru'[j] \in since'[lru'[i]]
  <2>1. CASE ~Hit(c)
    BY <1>3, <1>6, <1>7, <1>8, <1>9, <2>1
  <2>2. CASE Hit(c)
    <3>1. lru' = MoveToEnd(o, r) /\ UsedNow = {r}
      BY <1>3, <2>2
    <3>2. /\ lru'[i] # r
          /\ \/ lru'[j] = r
             \/ \E a, b \in 1..Len(o) : a < b /\ o[a] = lru'[i] /\ o[b] = lru'[j]
      <4>1. MovedFrom(lru', o, r)
        BY <1>1, <1>3, <3>1, MoveToEndFacts
      <4> QED
        BY <1>9, <4>1 DEF MovedFrom
    <3>3. lru'[i] \in DOMAIN cache'
      BY DEF LruOK, ToSet
    <3>4. since'[lru'[i]] = since[lru'[i]] \cup {r}
      BY <1>3, <1>8, <3>1, <3>2, <3>3
    <3> QED
      BY <1>7, <3>2, <3>4
  <2> QED
    BY <2>1, <2>2
<1> QED
  BY <1>4, <1>5, <1>9

\* What a store keeps is in the order of use: it puts its own key last, keeps
\* it, and drops nothing early.
LEMMA StoreUse ==
  ASSUME TypeInv, LruOK, UseOK, NEW t \in Threads, UsesStore(t), Recorded, LruOK'
  PROVE  /\ \A i, j \in 1..Len(lru') : i < j => lru'[j] \in since'[lru'[i]]
         /\ UsedNow \subseteq DOMAIN cache' /\ LeavesOld
<1> DEFINE r == req[t]
           entries == [j \in DOMAIN cache \cup {r} |->
                         IF j = r THEN [order |-> r, age |-> lag[t]] ELSE cache[j]]
           moved == MoveToEnd(lru, r)
           o == PrunedOrder(entries, moved, lag[t])
<1>1. /\ r \in Keys /\ UsedNow = {r}
      /\ cache' = Pruned(entries, o, lag[t]) /\ lru' = o
  BY DEF UsesStore, StoreIn, StoreUnder
<1>2. /\ moved \in Seq(Keys) /\ IsInjective(moved) /\ ToSet(moved) = ToSet(lru) \cup {r}
      /\ MovedFrom(moved, lru, r)
  BY <1>1, MoveToEndFacts DEF LruOK
<1>3. /\ DOMAIN entries = DOMAIN cache \cup {r} /\ entries[r].age = lag[t]
      /\ \A j \in DOMAIN cache : j # r => entries[j] = cache[j]
  OBVIOUS
<1>4. o = PrunedOrder(entries, moved, lag[t])
  OBVIOUS
<1> HIDE DEF entries, moved, o
<1>5. /\ o \in Seq(Keys) /\ DOMAIN Pruned(entries, o, lag[t]) = ToSet(o)
      /\ \E at : PrunedFrom(at, o, moved, Fresh(entries, lag[t]))
  BY <1>2, <1>4, PrunedOrderFacts
<1>6. PICK at : PrunedFrom(at, o, moved, Fresh(entries, lag[t]))
  BY <1>5
<1>7. lag[t] \in Nat
  BY ClockAssumption DEF TypeInv, TypeOK
<1>8. r \in Fresh(entries, lag[t])
  BY <1>3, <1>7, ClockAssumption DEF Fresh
<1>9. DOMAIN moved = 1..Len(moved) /\ \A i \in 1..Len(moved) : moved[i] \in Keys
  BY <1>2
<1>10. ASSUME NEW i \in 1..Len(moved), NEW j \in 1..Len(moved), i < j
       PROVE moved[i] # r /\ moved[j] \in since[moved[i]] \cup {r}
  <2>1. /\ moved[i] # r
        /\ \/ moved[j] = r
           \/ \E a, b \in 1..Len(lru) : a < b /\ lru[a] = moved[i] /\ lru[b] = moved[j]
    BY <1>2, <1>10 DEF MovedFrom
  <2> QED
    BY <2>1 DEF UseOK
<1>11. ASSUME NEW i \in 1..Len(moved), moved[i] \in Fresh(entries, lag[t]),
              moved[i] \notin ToSet(o)
       PROVE  Cardinality(since[moved[i]] \cup {r}) >= Size
  <2>1. IsFiniteSet(since[moved[i]] \cup {r})
    BY <1>9, FS_AddElement DEF UseOK
  <2>2. \A j \in 1..Len(moved) : i < j => moved[j] \in since[moved[i]] \cup {r}
    BY <1>10
  <2> QED
    BY <1>2, <1>4, <1>11, <2>1, <2>2, PrunedIsOld
<1>12. r \in ToSet(o)
  <2>1. PICK i \in 1..Len(moved) : moved[i] = r
    BY <1>2, <1>9 DEF ToSet
  <2>2. SUFFICES ASSUME r \notin ToSet(o) PROVE FALSE
    OBVIOUS
  <2>3. \A j \in 1..Len(moved) : i < j => moved[j] \in {}
    BY <1>10, <2>1
  <2>4. Cardinality({}) >= Size
    BY <1>2, <1>4, <1>8, <2>1, <2>2, <2>3, FS_EmptySet, PrunedIsOld
  <2> QED
    BY <2>4, FS_EmptySet, SizeAssumption
<1>13. DOMAIN cache' = ToSet(o)
  BY <1>1, <1>5
<1>14. LeavesOld
  <2> SUFFICES ASSUME NEW k \in DOMAIN cache \ DOMAIN cache', ~(cache[k].age > TTL)
               PROVE  Cardinality(since[k] \cup UsedNow) >= Size
    BY DEF LeavesOld
  <2>1. k # r /\ k \notin ToSet(o)
    BY <1>12, <1>13
  <2>4. k \in ToSet(moved)
    BY <1>2 DEF LruOK
  <2>2. PICK i \in 1..Len(moved) : moved[i] = k
    BY <1>9, <2>4 DEF ToSet
  <2>3. k \in Fresh(entries, lag[t])
    BY <1>3, <1>7, <2>1, ClockAssumption DEF Fresh, TypeInv, TypeOK, OldAge
  <2> QED
    BY <1>1, <1>11, <2>1, <2>2, <2>3
<1>15. DOMAIN o = 1..Len(o) /\ \A i \in 1..Len(o) : o[i] \in Keys /\ o[i] \in ToSet(o)
  BY <1>5 DEF ToSet
<1>16. ASSUME NEW i \in 1..Len(o), NEW j \in 1..Len(o), i < j
       PROVE o[j] \in since'[o[i]]
  <2>1. at[i] \in 1..Len(moved) /\ at[j] \in 1..Len(moved) /\ at[i] < at[j]
    BY <1>6, <1>16 DEF PrunedFrom
  <2>2. o[i] = moved[at[i]] /\ o[j] = moved[at[j]]
    BY <1>6 DEF PrunedFrom
  <2>3. o[i] # r /\ o[j] \in since[o[i]] \cup {r}
    BY <1>10, <2>1, <2>2
  <2>4. since'[o[i]] = since[o[i]] \cup {r}
    BY <1>1, <1>13, <1>15, <2>3 DEF Recorded
  <2> QED
    BY <2>3, <2>4
<1> QED
  BY <1>1, <1>12, <1>13, <1>14, <1>16

\* Every step keeps the cache's order the order of use.
LEMMA UseStep ==
  ASSUME TypeInv, LruOK, UseOK, [UseNext]_<<vars, since>>
  PROVE  /\ UseOK'
         /\ [Cardinality(DOMAIN cache') <= Size /\ UsedNow \subseteq DOMAIN cache'
             /\ LeavesOld]_<<vars, since>>
<1>1. CASE UNCHANGED <<vars, since>>
  BY <1>1 DEF UseOK, vars
<1>2. CASE UseNext
  <2>1. Recorded /\ [Next]_vars
    BY <1>2 DEF UseNext
  <2>2. LruOK'
    BY <2>1, LruStep
  <2>3. /\ since' \in [Keys -> SUBSET Keys]
        /\ \A k \in Keys : IsFiniteSet(since'[k])
    BY <2>1, SinceType
  <2>4. Cardinality(DOMAIN cache') <= Size
    <3>1. Cardinality(ToSet(lru')) = Len(lru')
      BY <2>2, DistinctKeys DEF LruOK
    <3> QED
      BY <2>2, <3>1 DEF LruOK
  <2>5. /\ \A i, j \in 1..Len(lru') : i < j => lru'[j] \in since'[lru'[i]]
        /\ UsedNow \subseteq DOMAIN cache' /\ LeavesOld
    <3>1. CASE UsedNow = {} /\ DOMAIN cache' = DOMAIN cache /\ lru' = lru
      <4>1. \A i \in 1..Len(lru) : lru[i] \in Keys /\ lru[i] \in DOMAIN cache
        BY DEF LruOK, ToSet
      <4>2. \A i \in 1..Len(lru) : since'[lru[i]] = since[lru[i]]
        BY <2>1, <3>1, <4>1 DEF Recorded
      <4> QED
        BY <3>1, <4>2 DEF UseOK, LeavesOld
    <3>2. CASE \E c \in Callers : UsesLookup(c)
      BY <2>1, <2>2, <3>2, LookupUse
    <3>3. CASE \E t \in Threads : UsesStore(t)
      BY <2>1, <2>2, <3>3, StoreUse
    <3> QED
      BY <2>1, <3>1, <3>2, <3>3, UseSteps
  <2> QED
    BY <2>3, <2>4, <2>5 DEF UseOK
<1> QED
  BY <1>1, <1>2

\* The cache never has more entries than it may, never drops what was just used,
\* and drops an entry that has not expired only for Size keys used after it,
\* whichever threads look up, store and prune in between.
THEOREM CacheKeepsLastUsed == UseSpec => KeepsLastUsed
<1>1. UseInit => LruOK /\ UseOK
  <2>1. Init => ToSet(lru) = DOMAIN cache /\ IsInjective(lru) /\ lru \in Seq(Keys) /\ Len(lru) = 0
    BY DEF Init, ToSet, IsInjective
  <2> QED
    BY <2>1, SizeAssumption, FS_EmptySet DEF UseInit, LruOK, UseOK
<1>2. [UseNext]_<<vars, since>> => [Next]_vars
  BY DEF UseNext
<1>3. UseInit => Init
  BY DEF UseInit
<1> QED
  BY <1>1, <1>2, <1>3, TypeInit, TypeStep, LruStep, UseStep, PTL
  DEF UseSpec, KeepsLastUsed
----------------------------------------------------------------------------
(* The worker's waits *)

\* Every step keeps the worker awake, or woken, while a request is pending.
LEMMA WakeupStep == TypeInv /\ NoLostWakeup /\ [Next]_vars => NoLostWakeup'
<1> SUFFICES ASSUME TypeInv, NoLostWakeup, [Next]_vars PROVE NoLostWakeup'
  OBVIOUS
<1> USE ThreadsAssumption DEF NoLostWakeup, Watched, TypeInv, TypeOK
<1>1. ASSUME NEW c \in Callers, NEW k \in Keys, Prefetch(c, k) PROVE NoLostWakeup'
  <2>1. pc'[Worker] = Woken(pc[Worker])
    BY <1>1 DEF Prefetch
  <2> QED
    BY <2>1 DEF Woken
<1>2. ASSUME NEW c \in Callers, ClearPending(c) PROVE NoLostWakeup'
  <2>1. \/ pc'[Worker] = Woken(pc[Worker])
        \/ pc'[Worker] = pc[Worker] /\ pending' = pending
    BY <1>2 DEF ClearPending
  <2> QED
    BY <2>1 DEF Woken
<1>3. ASSUME WorkerTop PROVE NoLostWakeup'
  <2>1. CASE pending # None /\ pending' = [pending EXCEPT !.watched = TRUE]
    <3>1. pending \in [key : Keys, age : 0..Settle, watched : BOOLEAN]
      BY <2>1
    <3>2. pending' = [key |-> pending.key, age |-> pending.age, watched |-> TRUE]
      BY <2>1, <3>1
    <3>3. pending' \in [key : Keys, age : 0..Settle, watched : BOOLEAN]
      BY <3>1, <3>2
    <3> QED
      BY <1>3, <2>1, <3>2, <3>3, RequestAssumption DEF WorkerTop, TakePending
  <2>2. CASE ~(pending # None /\ pending' = [pending EXCEPT !.watched = TRUE])
    BY <1>3, <2>2 DEF WorkerTop, TakePending
  <2> QED
    BY <2>1, <2>2
<1>4. ASSUME WorkerRecheck PROVE NoLostWakeup'
  BY <1>4 DEF WorkerRecheck, TakePending
<1>5. ASSUME Tick PROVE NoLostWakeup'
  <2>1. CASE Watched
    <3>1. pending \in [key : Keys, age : 0..Settle, watched : BOOLEAN]
      BY <2>1
    <3>2. pending' = [key |-> pending.key, age |-> LesserOf(Settle, pending.age + 1),
                      watched |-> pending.watched]
      BY <1>5, <2>1, <3>1 DEF Tick
    <3>3. pending' \in [key : Keys, age : 0..Settle, watched : BOOLEAN]
      BY <3>1, <3>2, ClockAssumption DEF LesserOf
    <3> QED
      BY <1>5, <2>1, <3>2, <3>3, RequestAssumption DEF Tick
  <2>2. CASE ~Watched
    BY <1>5, <2>2 DEF Tick
  <2> QED
    BY <2>1, <2>2
<1>6. CASE pc'[Worker] = pc[Worker] /\ pending' = pending
  BY <1>6
<1>7. CASE pc'[Worker] \notin {"wait", "settle"}
  BY <1>7
<1> QED
  BY <1>1, <1>2, <1>3, <1>4, <1>5, <1>6, <1>7
  DEF Next, vars, CallerStep, WorkerStep, Explicit, Lookup, Acquire, Relookup, Infer,
      CallerFails, CallerStore, WorkerStore, WorkerTimeout, WorkerAcquire, WorkerFails,
      Return, Leave

\* Every change of the pending request reaches a worker that waits.
THEOREM NoWakeupIsLost == Spec => []NoLostWakeup
<1>1. Init => NoLostWakeup
  BY DEF Init, NoLostWakeup
<1> QED
  BY <1>1, TypeInit, TypeStep, WakeupStep, PTL DEF Spec

\* Only the worker's own steps let it start on a request, and they take one that
\* has settled out of the queue.
LEMMA TakesSettledStep ==
  ASSUME TypeInv, [Next]_vars, Taken
  PROVE  /\ pending # None /\ pending.age >= Settle /\ pending' = None
         /\ req'[Worker] = pending.key
<1> USE ThreadsAssumption
<1>1. WorkerTop \/ WorkerRecheck
  BY DEF Next, vars, CallerStep, WorkerStep, Prefetch, Explicit, Lookup, ClearPending,
         Acquire, Relookup, Infer, CallerFails, CallerStore, WorkerStore, WorkerTimeout,
         WorkerAcquire, WorkerFails, Tick, Return, Leave, Woken, TypeInv, TypeOK, Taken
<1> QED
  BY <1>1 DEF WorkerTop, WorkerRecheck, Watched, TakePending, TypeInv, TypeOK, Taken

\* A step that empties the queue is one of the worker that takes the request, or
\* one of a caller that asks for the same key.
LEMMA DiscardStep ==
  ASSUME TypeInv, [Next]_vars, pending # None, pending' = None
  PROVE  Taken \/ Discarded
<1> USE ThreadsAssumption
<1>1. pending \in [key : Keys, age : 0..Settle, watched : BOOLEAN]
  BY DEF TypeInv, TypeOK
<1>2. ASSUME NEW c \in Callers, NEW k \in Keys, Prefetch(c, k) PROVE pending' # None
  BY <1>2, ClockAssumption, RequestAssumption DEF Prefetch, PendingRequest
<1>3. ASSUME NEW c \in Callers, ClearPending(c)
      PROVE pc[c] = "clear" /\ pc'[c] = "acquire" /\ req[c] = pending.key
  BY <1>3 DEF ClearPending, TypeInv, TypeOK
<1>4. ASSUME Tick PROVE pending' # None
  <2>1. pending' = [pending EXCEPT !.age = LesserOf(Settle, @ + 1)]
    BY <1>4 DEF Tick
  <2>2. LesserOf(Settle, pending.age + 1) \in 0..Settle
    BY <1>1, ClockAssumption DEF LesserOf
  <2> QED
    BY <1>1, <2>1, <2>2, RequestAssumption
<1>5. ASSUME WorkerTop \/ WorkerRecheck
      PROVE Taken
  <2>1. [pending EXCEPT !.watched = TRUE] # None
    BY <1>1, RequestAssumption
  <2> QED
    BY <1>5, <2>1 DEF WorkerTop, WorkerRecheck, TakePending, TypeInv, TypeOK, Taken
<1>6. \/ \E c \in Callers, k \in Keys : Prefetch(c, k)
      \/ \E c \in Callers : ClearPending(c)
      \/ Tick
      \/ WorkerTop \/ WorkerRecheck
  BY DEF Next, vars, CallerStep, WorkerStep, Explicit, Lookup, Acquire, Relookup, Infer,
         CallerFails, CallerStore, WorkerStore, WorkerTimeout, WorkerAcquire, WorkerFails
<1> QED
  BY <1>2, <1>3, <1>4, <1>5, <1>6 DEF Discarded

\* No request is lost: it leaves the queue settled and with the worker, which is
\* to run the model for it, or by a caller that is about to do the same.
THEOREM NoRequestIsLost == Spec => LeavesQueueInTurn
<1>1. TypeInv /\ [Next]_vars => [InTurn]_vars
  BY TakesSettledStep, DiscardStep DEF InTurn
<1> QED
  BY <1>1, TypeInit, TypeStep, PTL DEF Spec, LeavesQueueInTurn
----------------------------------------------------------------------------
(* The delay of an explicit request *)

\* The model runs of the worker that a blocked caller has met, and those it may
\* still meet: of the pending request, and of the one the worker has taken.
Delay(c) ==
  behind[c] + (IF pending = None THEN 0 ELSE 1) + (IF pc[Worker] = "acquire" THEN 1 ELSE 0)

DelayOK == \A c \in Callers : IF pc[c] = "acquire" THEN Delay(c) <= 2 ELSE behind[c] = 0

\* While the only caller waits nothing is added to the queue, so each run of the
\* worker it meets uses up one that it might have met.
LEMMA DelayStep ==
  ASSUME NEW c, Callers = {c}, TypeInv, ModelSerialised, DelayOK, [Next]_vars
  PROVE  DelayOK'
<1> USE ThreadsAssumption, RequestAssumption DEF DelayOK, Delay, TypeInv, TypeOK
<1>1. ASSUME NEW k \in Keys, Prefetch(c, k) PROVE DelayOK'
  BY <1>1 DEF Prefetch
<1>2. ASSUME NEW k \in Keys, Explicit(c, k) PROVE DelayOK'
  BY <1>2 DEF Explicit
<1>3. ASSUME Lookup(c) PROVE DelayOK'
  BY <1>3 DEF Lookup, Return, Leave
<1>4. ASSUME ClearPending(c) PROVE DelayOK'
  <2>1. behind'[c] = IF lock = Worker THEN 1 ELSE 0
    BY <1>4 DEF ClearPending
  <2>2. lock = Worker => pc[Worker] \in {"infer", "store"}
    BY DEF ModelSerialised, Holding
  <2>3. pc'[c] = "acquire" /\ (pc'[Worker] = "acquire" => pc[Worker] = "acquire")
    BY <1>4 DEF ClearPending, Woken
  <2> QED
    BY <2>1, <2>2, <2>3
<1>5. ASSUME Acquire(c) PROVE DelayOK'
  BY <1>5 DEF Acquire
<1>6. ASSUME Relookup(c) PROVE DelayOK'
  BY <1>6 DEF Relookup, Return, Leave
<1>7. ASSUME NEW t \in Threads, Infer(t) PROVE DelayOK'
  BY <1>7 DEF Infer
<1>8. ASSUME CallerFails(c) PROVE DelayOK'
  BY <1>8 DEF CallerFails, Return, Leave
<1>9. ASSUME CallerStore(c) PROVE DelayOK'
  BY <1>9 DEF CallerStore, Return, Leave
<1>10. ASSUME WorkerStore PROVE DelayOK'
  BY <1>10 DEF WorkerStore, Leave
<1>11. ASSUME WorkerTop PROVE DelayOK'
  <2>1. pc'[c] = pc[c] /\ behind' = behind
    BY <1>11 DEF WorkerTop, TakePending
  <2>2. \/ (pending = None => pending' = None) /\ pc'[Worker] # "acquire"
        \/ pending # None /\ pending' = None /\ pc[Worker] # "acquire"
    BY <1>11 DEF WorkerTop, TakePending
  <2> QED
    BY <2>1, <2>2
<1>12. ASSUME WorkerTimeout PROVE DelayOK'
  BY <1>12 DEF WorkerTimeout
<1>13. ASSUME WorkerRecheck PROVE DelayOK'
  BY <1>13 DEF WorkerRecheck, TakePending, Watched
<1>14. ASSUME WorkerAcquire PROVE DelayOK'
  BY <1>14 DEF WorkerAcquire, LesserOf
<1>15. ASSUME WorkerFails PROVE DelayOK'
  BY <1>15 DEF WorkerFails, Leave
<1>16. ASSUME Tick PROVE DelayOK'
  <2>1. pc' = pc /\ behind' = behind /\ (pending = None => pending' = None)
    BY <1>16 DEF Tick
  <2>2. pending # None \/ pending' = None
    BY <1>16 DEF Tick
  <2> QED
    BY <2>1, <2>2
<1>17. ASSUME UNCHANGED vars PROVE DelayOK'
  BY <1>17 DEF vars
<1> QED
  BY <1>1, <1>2, <1>3, <1>4, <1>5, <1>6, <1>7, <1>8, <1>9, <1>10, <1>11, <1>12,
     <1>13, <1>14, <1>15, <1>16, <1>17
  DEF Next, CallerStep, WorkerStep

\* With one caller, as in the pipe server, which calls rank() from one thread,
\* a request waits for at most two model runs of the worker, whatever the worker
\* does and however the inference lock is passed on.
THEOREM DelayIsBounded ==
  ASSUME NEW CONSTANT c, Callers = {c}
  PROVE  Spec => []BoundedDelay
<1>1. Init => DelayOK
  BY ThreadsAssumption DEF Init, DelayOK
<1>2. TypeInv /\ DelayOK => BoundedDelay
  BY DEF DelayOK, Delay, BoundedDelay, TypeInv, TypeOK
<1>3. TypeInv /\ ModelSerialised /\ DelayOK /\ [Next]_vars => DelayOK'
  BY DelayStep
<1> QED
  BY <1>1, <1>2, <1>3, TypeInit, TypeStep, SerialisedInit, SerialisedStep, PTL DEF Spec
----------------------------------------------------------------------------
(* What the clients see *)

\* Every step keeps what has been looked up young enough.
LEMMA FreshStep == TypeInv /\ AnswerIsFresh /\ [Next]_vars => AnswerIsFresh'
<1> SUFFICES ASSUME TypeInv, AnswerIsFresh, [Next]_vars PROVE AnswerIsFresh'
  OBVIOUS
<1> USE ClockAssumption
<1>1. CASE answer' = answer
  BY <1>1 DEF AnswerIsFresh
<1>2. ASSUME NEW c \in Callers, NEW a, a.age \in Nat, a.age <= TTL + MaxLag,
             answer' = [answer EXCEPT ![c] = a]
      PROVE AnswerIsFresh'
  BY <1>2 DEF AnswerIsFresh, TypeInv, TypeOK
<1>3. ASSUME NEW c \in Callers, NEW k \in Keys, Prefetch(c, k) PROVE AnswerIsFresh'
  <2>1. PICK a : a.age = 0 /\ answer' = [answer EXCEPT ![c] = a]
    BY <1>3 DEF Prefetch, Result
  <2>2. a.age \in Nat /\ a.age <= TTL + MaxLag
    BY <2>1
  <2> QED
    BY <1>2, <2>1, <2>2
<1>4. ASSUME NEW c \in Callers, Lookup(c) \/ Relookup(c), answer' # answer
      PROVE AnswerIsFresh'
  <2>1. LookupIn(c) /\ Hit(c)
    BY <1>4 DEF Lookup, Relookup
  <2>2. answer' = [answer EXCEPT ![c] =
                     Result(req[c], cache[req[c]].order, cache[req[c]].age)]
    BY <1>4, <2>1 DEF Lookup, Relookup, Return
  <2>3. cache[req[c]].age \in Nat /\ cache[req[c]].age - lag[c] <= TTL
    BY <2>1, LookupShrinks DEF Hit, TypeInv, TypeOK
  <2>4. lag[c] \in 0..MaxLag
    BY DEF TypeInv, TypeOK
  <2>5. cache[req[c]].age <= TTL + MaxLag
    BY <2>3, <2>4
  <2> QED
    BY <1>2, <2>2, <2>3, <2>5 DEF Result
<1>5. ASSUME NEW c \in Callers, CallerFails(c) \/ CallerStore(c) PROVE AnswerIsFresh'
  <2>1. PICK a : a.age = 0 /\ answer' = [answer EXCEPT ![c] = a]
    BY <1>5 DEF CallerFails, CallerStore, Return, Result
  <2>2. a.age \in Nat /\ a.age <= TTL + MaxLag
    BY <2>1
  <2> QED
    BY <1>2, <2>1, <2>2
<1> QED
  BY <1>1, <1>3, <1>4, <1>5
  DEF Next, vars, CallerStep, WorkerStep, Explicit, ClearPending, Acquire, Infer,
      WorkerStore, WorkerTop, WorkerTimeout, WorkerRecheck, WorkerAcquire, WorkerFails,
      Tick

\* No answer comes from a result that had outlived its time to live by more
\* than the lag of the clock reading.
THEOREM AnswersAreFresh == Spec => []AnswerIsFresh
<1>1. Init => AnswerIsFresh
  BY DEF Init, AnswerIsFresh
<1> QED
  BY <1>1, TypeInit, TypeStep, FreshStep, PTL DEF Spec

\* A result rank() returns is what the service shows from then on.
LEMMA ShownResult ==
  ASSUME TypeInv, NEW c \in Callers, NEW k \in Keys,
         NEW order \in Keys \cup {MozcOrder, Failed}, NEW age \in 0..OldAge,
         answer' = [answer EXCEPT ![c] = Result(k, order, age)]
  PROVE  [d \in Callers |-> Shown(answer'[d])] =
           [[d \in Callers |-> Shown(answer[d])] EXCEPT ![c] = [key |-> k, order |-> order]]
<1>1. Result(k, order, age) # None
  BY ResultAssumption DEF Result, OldAge
<1>2. /\ answer'[c] = Result(k, order, age)
      /\ \A d \in Callers \ {c} : answer'[d] = answer[d]
  BY DEF TypeInv, TypeOK
<1>3. Shown(answer'[c]) = [key |-> k, order |-> order]
  BY <1>1, <1>2 DEF Shown, Result
<1>4. \A d \in Callers \ {c} : Shown(answer'[d]) = Shown(answer[d])
  BY <1>2
<1> QED
  BY <1>3, <1>4

\* The initial states are initial states of the service.
LEMMA ServiceInit == Init => Service!Init
  BY ThreadsAssumption DEF Init, Shown, Service!Init

\* Every step is one of the service or none.
LEMMA ServiceStep ==
  TypeInv /\ CacheCoherent /\ [Next]_vars => [Service!Next]_(Service!vars)
<1> SUFFICES ASSUME TypeInv, CacheCoherent, [Next]_vars
             PROVE [Service!Next]_(Service!vars)
  OBVIOUS
<1> DEFINE asked == [c \in Callers |-> req[c]]
           shown == [c \in Callers |-> Shown(answer[c])]
<1> USE ThreadsAssumption, KeysAssumption
<1>1. CASE (\A c \in Callers : req'[c] = req[c]) /\ answer' = answer
  BY <1>1 DEF Service!vars
<1>2. ASSUME NEW c \in Callers, NEW k \in Keys, Prefetch(c, k)
      PROVE Service!AskPrefetch(c, k)
  <2>1. req[c] = None /\ req' = req
    BY <1>2 DEF Prefetch, TypeInv, PlacesOK
  <2>2. shown' = [shown EXCEPT ![c] = [key |-> k, order |-> MozcOrder]]
    <3>1. /\ answer' = [answer EXCEPT ![c] = Result(k, MozcOrder, 0)]
          /\ 0 \in 0..OldAge
      BY <1>2, ClockAssumption DEF Prefetch, OldAge
    <3> QED
      BY <3>1, ShownResult
  <2> QED
    BY <2>1, <2>2 DEF Service!AskPrefetch
<1>3. ASSUME NEW c \in Callers, NEW k \in Keys, Explicit(c, k)
      PROVE Service!AskExplicit(c, k)
  <2>1. req[c] = None /\ answer' = answer
    BY <1>3 DEF Explicit, TypeInv, PlacesOK
  <2>2. asked' = [asked EXCEPT ![c] = k]
    BY <1>3 DEF Explicit, TypeInv, TypeOK
  <2> QED
    BY <2>1, <2>2 DEF Service!AskExplicit
<1>4. ASSUME NEW c \in Callers, pc[c] # "idle", NEW order \in {req[c], Failed},
             NEW age \in 0..OldAge,
             Return(c, order, age)
      PROVE Service!Reply(c)
  <2>1. asked[c] # None /\ asked[c] = req[c]
    BY <1>4 DEF TypeInv, PlacesOK
  <2>2. shown' = [shown EXCEPT ![c] = [key |-> asked[c], order |-> order]]
    <3>1. /\ answer' = [answer EXCEPT ![c] = Result(req[c], order, age)]
          /\ req[c] \in Keys /\ order \in Keys \cup {MozcOrder, Failed}
      BY <1>4 DEF Return, TypeInv, PlacesOK
    <3> QED
      BY <2>1, <3>1, ShownResult
  <2>3. asked' = [asked EXCEPT ![c] = None]
    BY <1>4 DEF Return, Leave, TypeInv, TypeOK
  <2> QED
    BY <2>1, <2>2, <2>3 DEF Service!Reply
<1>5. ASSUME NEW c \in Callers, Lookup(c) \/ Relookup(c)
      PROVE Service!Reply(c) \/ (req' = req /\ answer' = answer)
  <2>1. CASE Hit(c)
    <3>1. Return(c, cache[req[c]].order, cache[req[c]].age) /\ pc[c] # "idle"
      BY <1>5, <2>1 DEF Lookup, Relookup
    <3>2. cache[req[c]].order = req[c] /\ cache[req[c]].age \in 0..OldAge
      BY <1>5, <2>1, LookupShrinks
      DEF Lookup, Relookup, Hit, CacheCoherent, TypeInv, TypeOK
    <3> QED
      BY <1>4, <3>1, <3>2
  <2>2. CASE ~Hit(c)
    BY <1>5, <2>2 DEF Lookup, Relookup
  <2> QED
    BY <2>1, <2>2
<1>6. ASSUME NEW c \in Callers, CallerFails(c) \/ CallerStore(c)
      PROVE Service!Reply(c)
  <2>1. pc[c] # "idle" /\ (Return(c, req[c], 0) \/ Return(c, Failed, 0))
    BY <1>6 DEF CallerFails, CallerStore
  <2>2. 0 \in 0..OldAge
    BY ClockAssumption DEF OldAge
  <2> QED
    BY <1>4, <2>1, <2>2
<1>7. CASE \/ \E c \in Callers, k \in Keys : Prefetch(c, k) \/ Explicit(c, k)
           \/ \E c \in Callers : CallerFails(c) \/ CallerStore(c)
  BY <1>2, <1>3, <1>6, <1>7 DEF Service!Next
<1>8. CASE \E c \in Callers : Lookup(c) \/ Relookup(c)
  BY <1>1, <1>5, <1>8 DEF Service!Next
<1>9. ASSUME NEW t \in Threads,
             \/ /\ t \in Callers
                /\ ClearPending(t) \/ Acquire(t)
             \/ Infer(t)
             \/ WorkerStep \/ Tick \/ UNCHANGED vars
      PROVE (\A c \in Callers : req'[c] = req[c]) /\ answer' = answer
  BY <1>9
  DEF vars, ClearPending, Acquire, Infer, WorkerStep, WorkerStore, WorkerTop,
      WorkerTimeout, WorkerRecheck, WorkerAcquire, WorkerFails, TakePending, Leave, Tick,
      TypeInv, TypeOK
<1> QED
  BY <1>1, <1>7, <1>8, <1>9 DEF Next, CallerStep

\* The cache, the lock and the worker cannot be seen from outside: every
\* behaviour of the ranker is one of the service that runs the model for each
\* explicit request and answers each prefetch with the order it came in.
THEOREM RankerImplementsService == Spec => ImplementsService
<1>1. Init => CacheCoherent
  BY DEF Init, CacheCoherent
<1> QED
  BY <1>1, TypeInit, TypeStep, CoherentStep, ServiceInit, ServiceStep, PTL
  DEF Spec, ImplementsService, Service!Spec
=============================================================================
