------------------------------- MODULE CacheUse -------------------------------
(***************************************************************************)
(* SpeculativeRanker with a history of how its cache has been used: for    *)
(* each cached key, which other keys have been used since it was last      *)
(* used.  A use is read off the threads, never off the order the cache     *)
(* keeps, so the history tells what an LRU cache of this size and time to  *)
(* live has to keep.                                                       *)
(***************************************************************************)
EXTENDS SpeculativeRanker

VARIABLE since   \* history: the keys used after the last use of each cached key

\* A thread uses a key when it gets the result out of the cache or puts it in:
\* the locked part of _lookup or _store, after which it is done.
Uses(t) == pc[t] \in Reading /\ pc'[t] \in {"idle", "top"}
UsedNow == {req[t] : t \in {t \in Threads : Uses(t)}}

UseInit == Init /\ since = [k \in Keys |-> {}]

\* What leaves the cache has no history until it is used again.
Recorded ==
  since' = [k \in Keys |-> IF k \in UsedNow \/ k \notin DOMAIN cache' THEN {}
                           ELSE since[k] \cup UsedNow]

UseNext == Next /\ Recorded

UseSpec == UseInit /\ [][UseNext]_<<vars, since>>

LiveUseSpec == UseSpec /\ Fairness
----------------------------------------------------------------------------
\* A result leaves before its time to live is over only when Size other keys
\* were used after it.
LeavesOld ==
  \A k \in DOMAIN cache \ DOMAIN cache' :
    cache[k].age > TTL \/ Cardinality(since[k] \cup UsedNow) >= Size

\* The cache stays within its size, a result that was just stored or found is
\* still there after the pruning of the same step, and no result leaves early.
KeepsLastUsed ==
  [][Cardinality(DOMAIN cache') <= Size /\ UsedNow \subseteq DOMAIN cache'
     /\ LeavesOld]_<<vars, since>>
=============================================================================
