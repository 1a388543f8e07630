-------------------------- MODULE SpeculativeRanker --------------------------
(***************************************************************************)
(* The typing-time rerank cache of ranker/speculative.py: callers of       *)
(* rank(), one background worker, a condition that guards the pending      *)
(* request and the cache, and an inference lock that serialises the model. *)
(*                                                                         *)
(* A block under `with self._condition` has no observable intermediate     *)
(* state and is one action; wait() gives the lock up and ends the action.  *)
(* The clock is kept as ages (of the pending request, of a cached result)  *)
(* and, for a thread that read time.monotonic() before it had the          *)
(* condition, as the lag of its reading.  Ages saturate where the code     *)
(* can no longer tell them apart; MaxLag bounds the lag.                   *)
(*                                                                         *)
(* A request is its normalised cache key (_key); the model's order for a   *)
(* key is represented by that key.                                         *)
(*                                                                         *)
(* Operators without a comment that stand right before the definition they *)
(* vary are seeded bugs: no action uses them; substituted for that         *)
(* definition, each breaks a property below.                               *)
(***************************************************************************)
EXTENDS Ordering, SequencesExt

CONSTANTS
  Callers,      \* threads that call rank()
  Worker,       \* the background thread
  Keys,         \* normalised cache keys
  Settle,       \* settle_seconds, in clock ticks
  TTL,          \* cache_ttl_seconds, in clock ticks
  Size,         \* cache_size
  MaxLag,       \* bound: ticks between reading the clock and using it
  None,         \* Python's None; also "no thread" for the lock
  MozcOrder,    \* the order the candidates came in
  Failed        \* rank() raised

ASSUME ThreadsAssumption == Worker \notin Callers /\ None \notin Callers \cup {Worker}
ASSUME KeysAssumption == Keys \cap {None, MozcOrder, Failed} = {} /\ MozcOrder # Failed
ASSUME ClockAssumption == Settle \in Nat /\ TTL \in Nat /\ MaxLag \in Nat
ASSUME RequestAssumption == None \notin [key : Keys, age : 0..Settle, watched : BOOLEAN]
ASSUME ResultAssumption ==
  None \notin [key : Keys, order : Keys \cup {MozcOrder, Failed}, age : 0..(TTL + MaxLag + 1)]
ASSUME SizeAssumption == Size \in Nat \ {0}

VARIABLES
  pc,           \* where each thread is
  req,          \* the key of the request each thread works on
  lag,          \* how old the clock reading of each thread is
  lock,         \* _inference_lock: its holder or None
  pending,      \* _pending and _pending_at, see PendingRequest
  timer,        \* ticks left of the worker's timed wait
  cache,        \* _cache: stored key -> order and age of the result
  lru,          \* the keys of _cache in its order, least recently used first
  answer,       \* the last value returned to each caller
  behind        \* history: background model runs a blocked caller has met

vars == <<pc, req, lag, lock, pending, timer, cache, lru, answer, behind>>
----------------------------------------------------------------------------
Threads == Callers \cup {Worker}

LesserOf(m, n) == IF m < n THEN m ELSE n

\* Beyond this age a result is expired for every lag a reading can have.
OldAge == TTL + MaxLag + 1

\* Program points at which a thread holds a clock reading it will use.
Reading == {"lookup", "relookup", "store"}

\* `watched` is the outcome of the worker's test `self._pending is request`:
\* a new object is not the one the worker looks at.
PendingRequestUndated(k) == [key |-> k, age |-> Settle + 1, watched |-> FALSE]
PendingRequest(k) == [key |-> k, age |-> 0, watched |-> FALSE]

Watched == pending # None /\ pending.watched

Init ==
  /\ pc = [t \in Threads |-> IF t = Worker THEN "top" ELSE "idle"]
  /\ req = [t \in Threads |-> None]
  /\ lag = [t \in Threads |-> 0]
  /\ lock = None
  /\ pending = None
  /\ timer = 0
  /\ cache = <<>>
  /\ lru = <<>>
  /\ answer = [c \in Callers |-> None]
  /\ behind = [c \in Callers |-> 0]
----------------------------------------------------------------------------
\* _prune_locked(now) for an ordered dictionary given by its entries and its
\* order: drop what has expired for a clock read `late` ticks ago, then the
\* least recently used until Size entries are left.
FreshForever(entries, late) == DOMAIN entries
Fresh(entries, late) == {k \in DOMAIN entries : entries[k].age - late <= TTL}

PrunedOrder(entries, order, late) ==
  LET fresh == Kept(order, Fresh(entries, late))
  IN  SubSeq(fresh, Len(fresh) - LesserOf(Size, Len(fresh)) + 1, Len(fresh))

Pruned(entries, order, late) ==
  [k \in Fresh(entries, late) \cap ToSet(order) |-> entries[k]]

\* move_to_end(key), for a new or an existing key.
KeepPlace(order, k) == IF k \in ToSet(order) THEN order ELSE Append(order, k)
MoveToEnd(order, k) == Append(Kept(order, Keys \ {k}), k)

\* notify_all(): a worker that waits goes on, whatever it waits for.
NotWoken(at) == at
Woken(at) == CASE at = "wait" -> "top" [] at = "settle" -> "recheck" [] OTHER -> at

Result(k, order, age) == [key |-> k, order |-> order, age |-> age]

\* Thread t leaves rank() or the loop's body: its local variables are gone.
Leave(t, at) ==
  /\ pc' = [pc EXCEPT ![t] = at]
  /\ req' = [req EXCEPT ![t] = None]
  /\ lag' = [lag EXCEPT ![t] = 0]

\* rank(req[c]) returns an order the cache has kept for `age` ticks.
Return(c, order, age) ==
  /\ answer' = [answer EXCEPT ![c] = Result(req[c], order, age)]
  /\ Leave(c, "idle")
----------------------------------------------------------------------------
(* rank(): the callers *)

\* A prefetch or interactive request replaces the pending one (_schedule) and
\* is answered at once with the order it came in.
Prefetch(c, k) ==
  /\ pc[c] = "idle"
  /\ pending' = PendingRequest(k)
  /\ pc' = [pc EXCEPT ![Worker] = Woken(@)]
  /\ answer' = [answer EXCEPT ![c] = Result(k, MozcOrder, 0)]
  /\ UNCHANGED <<req, lag, lock, timer, cache, lru, behind>>

\* An explicit request: _lookup reads the clock before it takes the condition.
Explicit(c, k) ==
  /\ pc[c] = "idle"
  /\ pc' = [pc EXCEPT ![c] = "lookup"]
  /\ req' = [req EXCEPT ![c] = k]
  /\ UNCHANGED <<lag, lock, pending, timer, cache, lru, answer, behind>>

\* The locked part of _lookup, with its outcome: prune, and on a hit mark the
\* entry as the most recently used one.
Hit(c) == req[c] \in DOMAIN cache'

LookupIn(c) ==
  LET order == PrunedOrder(cache, lru, lag[c])
  IN  /\ cache' = Pruned(cache, order, lag[c])
      /\ lru' = IF Hit(c) THEN MoveToEnd(order, req[c]) ELSE order

\* The first lookup, before any lock of the model is asked for.
Lookup(c) ==
  /\ pc[c] = "lookup"
  /\ LookupIn(c)
  /\ IF Hit(c)
     THEN Return(c, cache[req[c]].order, cache[req[c]].age)
     ELSE /\ pc' = [pc EXCEPT ![c] = "clear"]
          /\ lag' = [lag EXCEPT ![c] = 0]
          /\ UNCHANGED <<req, answer>>
  /\ UNCHANGED <<lock, pending, timer, behind>>

ClearAnyPending(c) ==
  /\ pc[c] = "clear"
  /\ pending' = None
  /\ pc' = [pc EXCEPT ![c] = "acquire", ![Worker] = Woken(@)]
  /\ behind' = [behind EXCEPT ![c] = IF lock = Worker THEN 1 ELSE 0]
  /\ UNCHANGED <<req, lag, lock, timer, cache, lru, answer>>

\* An explicit request discards a queued copy of itself and tells the worker.
ClearPending(c) ==
  /\ pc[c] = "clear"
  /\ IF pending # None /\ pending.key = req[c]
     THEN /\ pending' = None
          /\ pc' = [pc EXCEPT ![c] = "acquire", ![Worker] = Woken(@)]
     ELSE /\ pc' = [pc EXCEPT ![c] = "acquire"]
          /\ UNCHANGED pending
  /\ behind' = [behind EXCEPT ![c] = IF lock = Worker THEN 1 ELSE 0]
  /\ UNCHANGED <<req, lag, lock, timer, cache, lru, answer>>

AcquireWithoutRecheck(c) ==
  /\ pc[c] = "acquire"
  /\ lock = None
  /\ lock' = c
  /\ pc' = [pc EXCEPT ![c] = "infer"]
  /\ behind' = [behind EXCEPT ![c] = 0]
  /\ UNCHANGED <<req, lag, pending, timer, cache, lru, answer>>

\* The caller gets the inference lock and _lookup reads the clock again.
Acquire(c) ==
  /\ pc[c] = "acquire"
  /\ lock = None
  /\ lock' = c
  /\ pc' = [pc EXCEPT ![c] = "relookup"]
  /\ behind' = [behind EXCEPT ![c] = 0]
  /\ UNCHANGED <<req, lag, pending, timer, cache, lru, answer>>

\* The second lookup, under the inference lock: a hit releases the lock.
Relookup(c) ==
  /\ pc[c] = "relookup"
  /\ LookupIn(c)
  /\ IF Hit(c)
     THEN /\ Return(c, cache[req[c]].order, cache[req[c]].age)
          /\ lock' = None
     ELSE /\ pc' = [pc EXCEPT ![c] = "infer"]
          /\ lag' = [lag EXCEPT ![c] = 0]
          /\ UNCHANGED <<req, answer, lock>>
  /\ UNCHANGED <<pending, timer, behind>>

CallerFailsSilently(c) ==
  /\ pc[c] = "infer"
  /\ Return(c, MozcOrder, 0)
  /\ lock' = None
  /\ UNCHANGED <<pending, timer, cache, lru, behind>>

CallerFailsLocked(c) ==
  /\ pc[c] = "infer"
  /\ Return(c, Failed, 0)
  /\ UNCHANGED <<lock, pending, timer, cache, lru, behind>>

\* The model raises in the caller's own thread: rank() raises.
CallerFails(c) ==
  /\ pc[c] = "infer"
  /\ Return(c, Failed, 0)
  /\ lock' = None
  /\ UNCHANGED <<pending, timer, cache, lru, behind>>
----------------------------------------------------------------------------
(* delegate.rank() and _store(): callers and worker alike *)

\* The model answers; _store computes the key and reads the clock.
Infer(t) ==
  /\ pc[t] = "infer"
  /\ pc' = [pc EXCEPT ![t] = "store"]
  /\ UNCHANGED <<req, lag, lock, pending, timer, cache, lru, answer, behind>>

\* _store of thread t: the model's order for req[t] under its key.
StoreUnder(k, t) ==
  LET entry   == [order |-> req[t], age |-> lag[t]]
      entries == [j \in DOMAIN cache \cup {k} |-> IF j = k THEN entry ELSE cache[j]]
      order   == PrunedOrder(entries, MoveToEnd(lru, k), lag[t])
  IN  /\ cache' = Pruned(entries, order, lag[t])
      /\ lru' = order

StoreUnderNewest(t) == StoreUnder(IF pending = None THEN req[t] ELSE pending.key, t)
StoreIn(t) == StoreUnder(req[t], t)

\* The locked part of _store and the release of the inference lock.
CallerStore(c) ==
  /\ pc[c] = "store"
  /\ StoreIn(c)
  /\ Return(c, req[c], 0)
  /\ lock' = None
  /\ UNCHANGED <<pending, timer, behind>>

WorkerStore ==
  /\ pc[Worker] = "store"
  /\ StoreIn(Worker)
  /\ Leave(Worker, "top")
  /\ lock' = None
  /\ UNCHANGED <<pending, timer, answer, behind>>
----------------------------------------------------------------------------
(* _worker_loop *)

TakePendingCopy ==
  /\ req' = [req EXCEPT ![Worker] = pending.key]
  /\ pc' = [pc EXCEPT ![Worker] = "acquire"]
  /\ UNCHANGED pending

\* The worker takes the pending request out of the queue.
TakePending ==
  /\ req' = [req EXCEPT ![Worker] = pending.key]
  /\ pending' = None
  /\ pc' = [pc EXCEPT ![Worker] = "acquire"]

\* The head of the loop: wait for a request, wait for it to settle, or take it.
WorkerTop ==
  /\ pc[Worker] = "top"
  /\ \/ /\ pending = None
        /\ pc' = [pc EXCEPT ![Worker] = "wait"]
        /\ UNCHANGED <<req, pending, timer>>
     \/ /\ pending # None
        /\ pending.age < Settle
        /\ pending' = [pending EXCEPT !.watched = TRUE]
        /\ timer' = Settle - pending.age
        /\ pc' = [pc EXCEPT ![Worker] = "settle"]
        /\ UNCHANGED req
     \/ /\ pending # None
        /\ pending.age >= Settle
        /\ TakePending
        /\ UNCHANGED timer
  /\ UNCHANGED <<lag, lock, cache, lru, answer, behind>>

\* The timed wait ends; the timer may run up to a tick ahead of the clock.
WorkerTimeout ==
  /\ pc[Worker] = "settle"
  /\ timer <= 1
  /\ pc' = [pc EXCEPT ![Worker] = "recheck"]
  /\ UNCHANGED <<req, lag, lock, pending, timer, cache, lru, answer, behind>>

\* After the timed wait: start over unless the request is still the pending
\* one and has settled.
WorkerRecheck ==
  /\ pc[Worker] = "recheck"
  /\ IF Watched /\ pending.age >= Settle
     THEN TakePending
     ELSE /\ pc' = [pc EXCEPT ![Worker] = "top"]
          /\ UNCHANGED <<req, pending>>
  /\ UNCHANGED <<lag, lock, timer, cache, lru, answer, behind>>

\* The worker gets the inference lock; every caller that waits is behind it.
WorkerAcquire ==
  /\ pc[Worker] = "acquire"
  /\ lock = None
  /\ lock' = Worker
  /\ pc' = [pc EXCEPT ![Worker] = "infer"]
  /\ behind' = [c \in Callers |->
                  IF pc[c] = "acquire" THEN LesserOf(3, behind[c] + 1) ELSE behind[c]]
  /\ UNCHANGED <<req, lag, pending, timer, cache, lru, answer>>

WorkerFailsLocked ==
  /\ pc[Worker] = "infer"
  /\ Leave(Worker, "top")
  /\ UNCHANGED <<lock, pending, timer, cache, lru, answer, behind>>

\* The model raises in the worker: the exception is dropped.
WorkerFails ==
  /\ pc[Worker] = "infer"
  /\ Leave(Worker, "top")
  /\ lock' = None
  /\ UNCHANGED <<pending, timer, cache, lru, answer, behind>>
----------------------------------------------------------------------------
\* time.monotonic() advances.
Tick ==
  /\ \A t \in Threads : pc[t] \in Reading => lag[t] < MaxLag
  /\ lag' = [t \in Threads |-> IF pc[t] \in Reading THEN lag[t] + 1 ELSE 0]
  /\ pending' = IF pending = None THEN None
                ELSE [pending EXCEPT !.age = LesserOf(Settle, @ + 1)]
  /\ timer' = IF timer > 0 THEN timer - 1 ELSE 0
  /\ cache' = [k \in DOMAIN cache |->
                 [cache[k] EXCEPT !.age = LesserOf(OldAge, @ + 1)]]
  /\ UNCHANGED <<pc, req, lock, lru, answer, behind>>

CallerStep(c) ==
  \/ Lookup(c) \/ ClearPending(c) \/ Acquire(c) \/ Relookup(c)
  \/ Infer(c) \/ CallerFails(c) \/ CallerStore(c)

WorkerStep ==
  \/ WorkerTop \/ WorkerTimeout \/ WorkerRecheck \/ WorkerAcquire
  \/ Infer(Worker) \/ WorkerFails \/ WorkerStore

Next ==
  \/ \E c \in Callers, k \in Keys : Prefetch(c, k) \/ Explicit(c, k)
  \/ \E c \in Callers : CallerStep(c)
  \/ WorkerStep
  \/ Tick

Spec == Init /\ [][Next]_vars

\* Started threads run, model calls return and time passes; nothing makes a
\* client send a request.  Strong fairness only where the worker waits for the
\* inference lock: between two requests of one client its thread does pipe I/O
\* and leaves the lock to a waiting worker.
Fairness ==
  /\ \A c \in Callers : WF_vars(CallerStep(c))
  /\ WF_vars(WorkerStep)
  /\ SF_vars(WorkerAcquire)
  /\ WF_vars(Tick)

LiveSpec == Spec /\ Fairness
----------------------------------------------------------------------------
TypeOK ==
  /\ pc \in [Threads -> {"idle", "lookup", "clear", "acquire", "relookup", "infer",
                          "store", "top", "wait", "settle", "recheck"}]
  /\ req \in [Threads -> Keys \cup {None}]
  /\ lag \in [Threads -> 0..MaxLag]
  /\ lock \in Threads \cup {None}
  /\ pending \in [key : Keys, age : 0..Settle, watched : BOOLEAN] \cup {None}
  /\ timer \in 0..Settle
  /\ DOMAIN cache \subseteq Keys
  /\ \A k \in DOMAIN cache : cache[k] \in [order : Keys, age : 0..OldAge]
  /\ answer \in [Callers -> [key : Keys, order : Keys \cup {MozcOrder, Failed},
                             age : 0..OldAge] \cup {None}]
  /\ behind \in [Callers -> 0..3]

Holding(t) == pc[t] \in {"infer", "store"} \/ (t # Worker /\ pc[t] = "relookup")

\* The model is never run by two threads at once, and no thread leaves rank()
\* or the worker's body, by any exit, with the inference lock still taken.
ModelSerialised == \A t \in Threads : Holding(t) <=> lock = t

\* An order found under a key is the model's order for that key, although the
\* key is computed again after the model call and by either thread.
CacheCoherent == \A k \in DOMAIN cache : cache[k].order = k

\* A result is used no longer after it was stored than its time to live and
\* the lag of the clock reading it was judged by.
AnswerIsFresh ==
  \A c \in Callers : answer[c] # None => answer[c].age <= TTL + MaxLag

\* While a caller runs the model for a key nobody else can have stored a result
\* for it: the second lookup stays valid until the caller stores its own.
NoRepeatedModelCall ==
  \A c \in Callers : pc[c] \in {"infer", "store"} => req[c] \notin DOMAIN cache

\* No wake-up is lost: the worker never waits for a request that is there, and
\* never times a request that has been replaced or cancelled.
NoLostWakeup ==
  /\ pc[Worker] = "wait" => pending = None
  /\ pc[Worker] = "settle" => Watched

\* The two ways out of the queue: the worker takes the request, or a caller
\* that is about to run the model for the same key discards it.
Taken == pc[Worker] # "acquire" /\ pc'[Worker] = "acquire"

Discarded ==
  \E c \in Callers : pc[c] = "clear" /\ pc'[c] = "acquire" /\ req[c] = pending.key

InTurn ==
  /\ Taken => /\ pending # None /\ pending.age >= Settle
              /\ pending' = None /\ req'[Worker] = pending.key
  /\ pending # None /\ pending' = None => Taken \/ Discarded

\* No request is lost: it leaves the queue for the worker, and then nothing
\* newer has come for the whole settle window, or for a caller with its own key.
LeavesQueueInTurn == [][InTurn]_vars

\* Debounce and background work delay an explicit request by at most two model
\* runs that are not its own: the one under way and one that had settled.
BoundedDelay == \A c \in Callers : behind[c] <= 2

\* A prefetch that is not superseded or cancelled is taken by the worker.
PendingSettles ==
  (pending # None /\ pending.age > 0) ~> (pending = None \/ pending.age = 0)
----------------------------------------------------------------------------
\* The part of a result that a client sees.
Shown(a) == IF a = None THEN None ELSE [key |-> a.key, order |-> a.order]

\* The service a client sees: what each caller has asked and got.
Service == INSTANCE RerankService WITH
  asked  <- [c \in Callers |-> req[c]],
  answer <- [c \in Callers |-> Shown(answer[c])]

\* Cache, lock and worker are invisible to a client: every request is answered
\* as if the model had been run for it alone.
ImplementsService == Service!Spec

\* ... and is answered in the end, although the worker competes for the
\* inference lock and the lock favours nobody.
ImplementsLiveService == Service!LiveSpec
=============================================================================
