---------------------------- MODULE MemoryCache ----------------------------
(***************************************************************************)
(* memoryCache (cache.go): a map under a mutex.  Nothing sweeps it, so an  *)
(* entry past its ttl stays in the map until a write or a listing walks    *)
(* over it, and every operation has to see through the ones still there.   *)
(* An operation runs under the mutex and is one step.                      *)
(***************************************************************************)
EXTENDS Integers, CacheKeys

CONSTANTS Keys, Patterns, Vals, Absent, TTLs,
          MaxTime   \* bound on the clock

ASSUME MemoryAssumption ==
    /\ Absent \notin Vals
    /\ TTLs \subseteq Nat
    /\ MaxTime \in Nat

\* A key has no star in it.
ASSUME TextAssumption ==
    /\ Patterns \subseteq Seq(STRING)
    /\ \A k \in Keys : k \in Seq(STRING) /\ "*" \notin Range(k)

VARIABLES
    now,
    data,       \* entries[k].data, Absent for a key that is not in the map
    expiresAt,  \* entries[k].expiresAt, the zero time for no expiration
    answer      \* the operation just done and its result

vars == <<now, data, expiresAt, answer>>

TypeOK ==
    /\ now \in Nat
    /\ data \in [Keys -> Vals \cup {Absent}]
    /\ expiresAt \in [Keys -> Nat]

Init ==
    /\ now = 0
    /\ data = [k \in Keys |-> Absent]
    /\ expiresAt = [k \in Keys |-> 0]
    /\ answer = <<"none", Absent>>

\* expired, strictly after the instant.
expired(k) == expiresAt[k] # 0 /\ now > expiresAt[k]

\* evictExpired, as the map it leaves.
keptData == [k \in Keys |-> IF expired(k) THEN Absent ELSE data[k]]
keptExpiry == [k \in Keys |-> IF expired(k) THEN 0 ELSE expiresAt[k]]

\* store, after evictExpired.
store(k, v, ttl) ==
    /\ data' = [keptData EXCEPT ![k] = v]
    /\ expiresAt' = [keptExpiry EXCEPT ![k] = IF ttl > 0 THEN now + ttl ELSE 0]

Set(k, v, ttl) ==
    /\ store(k, v, ttl)
    /\ answer' = <<"set", v>>
    /\ UNCHANGED now

\* Mutant: an expired entry still in the map counts as present.
SetIfAbsentStale(k, v, ttl) ==
    /\ answer' = <<"setIfAbsent", data[k] = Absent>>
    /\ IF data[k] # Absent THEN UNCHANGED <<data, expiresAt>> ELSE store(k, v, ttl)
    /\ UNCHANGED now

SetIfAbsent(k, v, ttl) ==
    /\ answer' = <<"setIfAbsent", keptData[k] = Absent>>
    /\ IF keptData[k] # Absent THEN data' = keptData /\ expiresAt' = keptExpiry
                               ELSE store(k, v, ttl)
    /\ UNCHANGED now

\* Under the read lock: it hides an expired entry and leaves it.
Get(k) ==
    /\ answer' = <<"get", IF data[k] = Absent \/ expired(k) THEN Absent ELSE data[k]>>
    /\ UNCHANGED <<now, data, expiresAt>>

GetAllKeys(pattern) ==
    /\ data' = keptData
    /\ expiresAt' = keptExpiry
    /\ answer' = <<"keys", {k \in Keys : keptData[k] # Absent /\ globMatch(pattern, k)}>>
    /\ UNCHANGED now

Delete(keys) ==
    /\ data' = [k \in Keys |-> IF k \in keys THEN Absent ELSE data[k]]
    /\ expiresAt' = [k \in Keys |-> IF k \in keys THEN 0 ELSE expiresAt[k]]
    /\ answer' = <<"delete", keys>>
    /\ UNCHANGED now

Tick ==
    /\ now < MaxTime
    /\ now' = now + 1
    /\ UNCHANGED <<data, expiresAt, answer>>

Next ==
    \/ \E k \in Keys, v \in Vals, ttl \in TTLs : Set(k, v, ttl) \/ SetIfAbsent(k, v, ttl)
    \/ \E k \in Keys : Get(k)
    \/ \E pattern \in Patterns : GetAllKeys(pattern)
    \/ \E K \in SUBSET Keys : Delete(K)
    \/ Tick

Spec == Init /\ [][Next]_vars

-----------------------------------------------------------------------------

\* What each pattern should list.
CoveredBy == [pattern \in Patterns |-> {k \in Keys : Covers(pattern, k)}]

\* A listing at this moment has the keys that its pattern covers and that have not
\* expired, and no other: the single pass of globMatch, which goes back to the last
\* star only, misses none of them (cache.go:90-104, 131-159).  No key has a star in it.
GlobAgrees ==
    \A pattern \in Patterns :
        \A k \in Keys : keptData[k] # Absent =>
            (globMatch(pattern, k) <=> k \in CoveredBy[pattern])

\* The lazily evicted map behaves as one that forgets an entry the moment it
\* expires: no operation ever answers from, or is refused by, an entry past its
\* ttl (cache.go:56-58, 82-84, 94, 117-129).
Promised == INSTANCE Cache WITH val <- keptData, until <- keptExpiry

ImplementsCache == Promised!Spec
=============================================================================
