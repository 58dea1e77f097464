------------------------------- MODULE Cache -------------------------------
(***************************************************************************)
(* What the clients rely on in a gorabbit.Cache (the interface in          *)
(* cache.go): a map whose entries are gone the moment their ttl is over,   *)
(* with every operation one indivisible step.  Each step records what the  *)
(* operation returned.                                                     *)
(***************************************************************************)
EXTENDS Naturals

CONSTANTS
    Keys, Vals,
    Absent,     \* nil data
    TTLs        \* the ttls callers pass; zero means no expiration

VARIABLES
    now,
    val,        \* the data under a key, or Absent
    until,      \* the last instant of a key, zero for one that does not expire
    answer      \* the operation just done and its result

vars == <<now, val, until, answer>>

Init ==
    /\ now = 0
    /\ val = [k \in Keys |-> Absent]
    /\ until = [k \in Keys |-> 0]
    /\ answer = <<"none", Absent>>

Deadline(ttl) == IF ttl > 0 THEN now + ttl ELSE 0

Write(k, v, ttl) ==
    /\ val' = [val EXCEPT ![k] = v]
    /\ until' = [until EXCEPT ![k] = Deadline(ttl)]

Set(k, v, ttl) ==
    /\ Write(k, v, ttl)
    /\ answer' = <<"set", v>>
    /\ UNCHANGED now

SetIfAbsent(k, v, ttl) ==
    /\ answer' = <<"setIfAbsent", val[k] = Absent>>
    /\ IF val[k] = Absent THEN Write(k, v, ttl) ELSE UNCHANGED <<val, until>>
    /\ UNCHANGED now

Get(k) ==
    /\ answer' = <<"get", val[k]>>
    /\ UNCHANGED <<now, val, until>>

\* matching is the set of keys the pattern matches.
GetAllKeys(matching) ==
    /\ answer' = <<"keys", {k \in matching : val[k] # Absent}>>
    /\ UNCHANGED <<now, val, until>>

Delete(keys) ==
    /\ val' = [k \in Keys |-> IF k \in keys THEN Absent ELSE val[k]]
    /\ until' = [k \in Keys |-> IF k \in keys THEN 0 ELSE until[k]]
    /\ answer' = <<"delete", keys>>
    /\ UNCHANGED now

\* Time passes, and takes with it the entries past their last instant.
Over(k) == until[k] # 0 /\ until[k] < now + 1

Tick ==
    /\ now' = now + 1
    /\ val' = [k \in Keys |-> IF Over(k) THEN Absent ELSE val[k]]
    /\ until' = [k \in Keys |-> IF Over(k) THEN 0 ELSE until[k]]
    /\ UNCHANGED answer

Next ==
    \/ \E k \in Keys, v \in Vals, ttl \in TTLs : Set(k, v, ttl) \/ SetIfAbsent(k, v, ttl)
    \/ \E k \in Keys : Get(k)
    \/ \E K \in SUBSET Keys : GetAllKeys(K) \/ Delete(K)
    \/ Tick

Spec == Init /\ [][Next]_vars
=============================================================================
