----------------------------- MODULE BurstGuard -----------------------------
(***************************************************************************)
(* InteractiveBurstGuard of src/ranker/ranker.py: between an old client    *)
(* that asks for every keystroke and the ranker behind it.  A key is a     *)
(* request without its id.  One thread calls rank(); the clock goes on     *)
(* between two calls.  A ranking is named by the time it was made.         *)
(***************************************************************************)
EXTENDS Integers

CONSTANTS
  BurstKeys,
  SettleSeconds, ForgetSeconds,   \* what the constructor is given
  MaxTime                         \* bound: the clock

\* Any two numbers, in units of the clock's.
ASSUME BurstAssumption == SettleSeconds \in Int /\ ForgetSeconds \in Int

\* max(0.0, settle_seconds) and max(settle_seconds, forget_seconds).
Settle == IF SettleSeconds < 0 THEN 0 ELSE SettleSeconds
ForgetAfter == IF ForgetSeconds < Settle THEN Settle ELSE ForgetSeconds

Never == -1

VARIABLES
  now,
  firstSeen,        \* per key, Never if the key is not in the dictionary
  ranked,           \* likewise: the ranking that is kept
  lastRun,          \* when the ranker last answered an interactive request of the key
  served            \* the ranking that the last call returned; Never for Mozc's order

burstVars == <<now, firstSeen, ranked, lastRun, served>>

BurstInit ==
  /\ now = 0
  /\ firstSeen = [k \in BurstKeys |-> Never]
  /\ ranked = [k \in BurstKeys |-> Never]
  /\ lastRun = [k \in BurstKeys |-> Never]
  /\ served = Never

-----------------------------------------------------------------------------
(* Every interactive request first drops what is too old, of any key.        *)

Old(k) == firstSeen[k] # Never /\ now - firstSeen[k] > ForgetAfter

\* Seeded bug: the ranking is dropped and the first sighting stays.
SeenForGood(k) == firstSeen[k]

Seen(k) == IF Old(k) THEN Never ELSE firstSeen[k]

Recent(k) == IF Old(k) THEN Never ELSE ranked[k]

\* An explicit request goes straight through and leaves the dictionaries alone.
Explicit(k) ==
  /\ served' = now
  /\ UNCHANGED <<now, firstSeen, ranked, lastRun>>

ServeKept(k) ==
  /\ Recent(k) # Never
  /\ served' = Recent(k)
  /\ firstSeen' = [j \in BurstKeys |-> Seen(j)]
  /\ ranked' = [j \in BurstKeys |-> Recent(j)]
  /\ UNCHANGED <<now, lastRun>>

FirstSight(k) ==
  /\ Recent(k) = Never
  /\ Seen(k) = Never
  /\ served' = Never
  /\ firstSeen' = [j \in BurstKeys |-> IF j = k THEN now ELSE Seen(j)]
  /\ ranked' = [j \in BurstKeys |-> Recent(j)]
  /\ UNCHANGED <<now, lastRun>>

Settled(k) == Seen(k) # Never /\ now - Seen(k) >= Settle

Unsettled(k) ==
  /\ Recent(k) = Never
  /\ Seen(k) # Never
  /\ ~Settled(k)
  /\ served' = Never
  /\ firstSeen' = [j \in BurstKeys |-> Seen(j)]
  /\ ranked' = [j \in BurstKeys |-> Recent(j)]
  /\ UNCHANGED <<now, lastRun>>

Run(k) ==
  /\ Recent(k) = Never
  /\ Settled(k)
  /\ served' = now
  /\ firstSeen' = [j \in BurstKeys |-> Seen(j)]
  /\ ranked' = [j \in BurstKeys |-> IF j = k THEN now ELSE Recent(j)]
  /\ lastRun' = [lastRun EXCEPT ![k] = now]
  /\ UNCHANGED now

\* The ranker raises: the dictionaries stay as they are after the cleaning.
RunFails(k) ==
  /\ Recent(k) = Never
  /\ Settled(k)
  /\ firstSeen' = [j \in BurstKeys |-> Seen(j)]
  /\ ranked' = [j \in BurstKeys |-> Recent(j)]
  /\ UNCHANGED <<now, lastRun, served>>

Tick ==
  /\ now < MaxTime
  /\ now' = now + 1
  /\ UNCHANGED <<firstSeen, ranked, lastRun, served>>

Rank(k) == Explicit(k) \/ ServeKept(k) \/ FirstSight(k) \/ Unsettled(k) \/ Run(k) \/ RunFails(k)

BurstNext == Tick \/ \E k \in BurstKeys : Rank(k)

BurstSpec == BurstInit /\ [][BurstNext]_burstVars

-----------------------------------------------------------------------------
(* Properties.                                                               *)

\* However an old client repeats and mixes its requests, the ranker answers one key
\* again only when more than the settling time has passed since it last did
\* (ranker.py:251-277): a ranking is kept as long as the sighting that it rests on.
RunsAreApart ==
  [][\A k \in BurstKeys : lastRun'[k] # lastRun[k] /\ lastRun[k] # Never
                            => lastRun'[k] - lastRun[k] > Settle]_burstVars

\* A kept ranking can be served until the key is forgotten, and was made when it had
\* settled: it is never older than what lies between (ranker.py:254-263).
KeptIsRecent ==
  [][\A k \in BurstKeys : ServeKept(k) => now - served' <= ForgetAfter - Settle]_burstVars

-----------------------------------------------------------------------------
(* The inductive invariant of the proofs.                                    *)

TypeOK ==
  /\ now \in Nat
  /\ firstSeen \in [BurstKeys -> Nat \cup {Never}]
  /\ ranked \in [BurstKeys -> Nat \cup {Never}]
  /\ lastRun \in [BurstKeys -> Nat \cup {Never}]

\* While the ranking of the last run is kept, the sighting is the one it settled
\* from; afterwards the run lies before the next sighting, or in the past.
RunBelongsToSighting(k) ==
  lastRun[k] # Never =>
    \/ /\ ranked[k] = lastRun[k]
       /\ firstSeen[k] # Never
       /\ firstSeen[k] + Settle <= lastRun[k]
       /\ lastRun[k] <= firstSeen[k] + ForgetAfter
       /\ lastRun[k] <= now
    \/ /\ ranked[k] = Never
       /\ firstSeen[k] = Never => lastRun[k] < now
       /\ firstSeen[k] # Never => lastRun[k] < firstSeen[k]

RunInv ==
  \A k \in BurstKeys : /\ RunBelongsToSighting(k)
                       /\ ranked[k] # Never => ranked[k] = lastRun[k]
=============================================================================
