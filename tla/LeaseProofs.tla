---------------------------- MODULE LeaseProofs ----------------------------
(***************************************************************************)
(* The lease outlives the work done under it, for any number of replicas   *)
(* and any timeouts that leave the slack of SlackAssumption.               *)
(*                                                                         *)
(* HeldThroughout says nothing of the time that is left, so it is not      *)
(* inductive: InTime bounds, in every phase, the latest end of what is     *)
(* still to come by the instant the lease expires.                         *)
(***************************************************************************)
EXTENDS Lease, TLAPS

InTime(r) ==
    /\ holder = r
    /\ now <= due[r]
    /\ phase[r] = "reading" => due[r] + LongestAttempt + SettleTime < exp
    /\ phase[r] = "sending" =>
         /\ due[r] + LongestAttempt + SettleTime < exp + SendTime
         /\ ctxEnd[r] + SendTime = due[r] + AttemptTimeout
    /\ phase[r] = "waiting" => due[r] + SettleTime < exp
    /\ phase[r] \in {"delivered", "failed"} => due[r] < exp

Inv == TypeOK /\ \A r \in Replicas : phase[r] # "idle" => InTime(r)

-----------------------------------------------------------------------------

LEMMA MaxOfTwo ==
    ASSUME NEW a \in Nat, NEW b \in Nat
    PROVE  Max({a, b}) \in {a, b} /\ Max({a, b}) >= a /\ Max({a, b}) >= b
<1>1. \E x \in {a, b} : \A y \in {a, b} : x >= y
  OBVIOUS
<1> QED
  BY <1>1 DEF Max

LEMMA MinOfTwo ==
    ASSUME NEW a \in Nat, NEW b \in Nat
    PROVE  Min({a, b}) \in {a, b} /\ Min({a, b}) <= a /\ Min({a, b}) <= b
<1>1. \E x \in {a, b} : \A y \in {a, b} : x <= y
  OBVIOUS
<1> QED
  BY <1>1 DEF Min

\* The longest attempt covers its send, and a wait cut off by either timeout.
LEMMA Longest ==
    /\ AttemptTimeout \in Nat
    /\ LeaseTTL \in Nat
    /\ LongestAttempt \in Nat
    /\ LongestAttempt >= SendTime
    /\ LongestAttempt >= SendTime + ConfirmTimeout \/ LongestAttempt >= AttemptTimeout
<1>1. AttemptTimeout \in Nat
  BY TimesAssumption DEF AttemptTimeout
<1>2. LeaseTTL \in Nat
  BY <1>1, TimesAssumption, MaxOfTwo DEF LeaseTTL
<1>3. Min({SendTime + ConfirmTimeout, AttemptTimeout}) \in
        {SendTime + ConfirmTimeout, AttemptTimeout}
  BY <1>1, TimesAssumption, MinOfTwo
<1>4. Min({SendTime + ConfirmTimeout, AttemptTimeout}) \in Nat
  BY <1>1, <1>3, TimesAssumption
<1>5. /\ LongestAttempt \in {SendTime, Min({SendTime + ConfirmTimeout, AttemptTimeout})}
      /\ LongestAttempt >= SendTime
      /\ LongestAttempt >= Min({SendTime + ConfirmTimeout, AttemptTimeout})
  BY <1>4, TimesAssumption, MaxOfTwo DEF LongestAttempt
<1> QED
  BY <1>1, <1>2, <1>3, <1>4, <1>5, TimesAssumption

LEMMA InitInv == Init => Inv
BY TimesAssumption DEF Init, Inv, TypeOK

\* Nobody but the holder is inside, so a step of one replica disturbs no other.
LEMMA Alone ==
    ASSUME Inv, NEW r \in Replicas, phase[r] # "idle" \/ LeaseAbsent
    PROVE  \A q \in Replicas \ {r} : phase[q] = "idle"
<1> SUFFICES ASSUME NEW q \in Replicas \ {r}, phase[q] # "idle" PROVE FALSE
  OBVIOUS
<1>1. holder = q /\ now < exp
  <2>1. /\ InTime(q) /\ now \in Nat /\ exp \in Nat /\ due[q] \in Nat
        /\ phase[q] \in {"reading", "sending", "waiting", "delivered", "failed"}
    BY DEF Inv, TypeOK
  <2> QED
    BY <2>1, TimesAssumption, Longest DEF InTime
<1>2. CASE phase[r] # "idle"
  BY <1>1, <1>2 DEF Inv, InTime
<1>3. CASE LeaseAbsent
  BY <1>1, <1>3, TimesAssumption DEF LeaseAbsent, Inv, TypeOK
<1> QED
  BY <1>2, <1>3

LEMMA NextInv == Inv /\ [Next]_vars => Inv'
<1> SUFFICES ASSUME Inv, [Next]_vars PROVE Inv'
  OBVIOUS
<1> USE TimesAssumption, Longest
<1>1. ASSUME NEW r \in Replicas, Reserve(r) PROVE Inv'
  BY <1>1, Alone, SlackAssumption DEF Reserve, Enter, Inv, TypeOK, InTime
<1>2. ASSUME NEW r \in Replicas, ReadEntry(r) PROVE Inv'
  BY <1>2, Alone DEF ReadEntry, Enter, Leave, Inv, TypeOK, InTime
<1>3. ASSUME NEW r \in Replicas, Sent(r) PROVE Inv'
  <2> DEFINE c == Min({now + ConfirmTimeout, ctxEnd[r]})
             d == Max({now, c})
  <2>1. /\ now \in Nat /\ ctxEnd[r] \in Nat /\ due[r] \in Nat /\ exp \in Nat
        /\ InTime(r) /\ phase[r] = "sending"
    BY <1>3 DEF Sent, Inv, TypeOK
  <2>2. /\ c \in Nat
        /\ c <= now + ConfirmTimeout /\ c <= ctxEnd[r]
    BY <2>1, MinOfTwo
  <2>3. d \in Nat /\ d >= now /\ d \in {now, c}
    BY <2>1, <2>2, MaxOfTwo
  <2> HIDE DEF c, d
  <2>4. d + SettleTime < exp
    BY <2>1, <2>2, <2>3 DEF InTime
  <2>5. Enter(r, "waiting", d) /\ UNCHANGED <<now, entry, holder, exp, ctxEnd>>
    BY <1>3 DEF Sent, c, d
  <2> QED
    BY <2>1, <2>3, <2>4, <2>5, Alone DEF Enter, Inv, TypeOK, InTime
<1>4. ASSUME NEW r \in Replicas, SendFails(r) PROVE Inv'
  BY <1>4, Alone DEF SendFails, Enter, Inv, TypeOK, InTime
<1>5. ASSUME NEW r \in Replicas, Concluded(r) PROVE Inv'
  BY <1>5, Alone DEF Concluded, Enter, Inv, TypeOK, InTime
<1>6. ASSUME NEW r \in Replicas, DeleteEntry(r) PROVE Inv'
  BY <1>6, Alone DEF DeleteEntry, Leave, Enter, Inv, TypeOK, InTime
<1>7. ASSUME NEW r \in Replicas, ReleaseLease(r) PROVE Inv'
  BY <1>7, Alone DEF ReleaseLease, Leave, Enter, Inv, TypeOK, InTime
<1>8. ASSUME NEW r \in Replicas, Crash(r) PROVE Inv'
  BY <1>8, Alone DEF Crash, Leave, Enter, Inv, TypeOK, InTime
<1>9. CASE Tick
  BY <1>9 DEF Tick, Inv, TypeOK, InTime
<1>10. CASE UNCHANGED vars
  BY <1>10 DEF vars, Inv, TypeOK, InTime
<1> QED
  BY <1>1, <1>2, <1>3, <1>4, <1>5, <1>6, <1>7, <1>8, <1>9, <1>10 DEF Next

LEMMA Invariant == Spec => []Inv
BY InitInv, NextInv, PTL DEF Spec

\* The clock, the lease and the loop bodies always have their type
\* (rabbitmq/lease.go).
THEOREM TypeCorrect == Spec => []TypeOK
BY Invariant, PTL DEF Inv

\* A lease of twice the attempt's timeout is never outlived by the attempt made
\* under it (rabbitmq/lease.go:13-14, 17-24), if the slack covers the round trips.
THEOREM LeaseOutlivesAttempt == Spec => []HeldThroughout
<1>1. Inv => HeldThroughout
  <2> SUFFICES ASSUME Inv, NEW r \in Replicas, phase[r] # "idle"
               PROVE  holder = r /\ now < exp
    BY DEF HeldThroughout
  <2>1. /\ InTime(r) /\ now \in Nat /\ exp \in Nat /\ due[r] \in Nat
        /\ phase[r] \in {"reading", "sending", "waiting", "delivered", "failed"}
    BY DEF Inv, TypeOK
  <2> QED
    BY <2>1, TimesAssumption, Longest DEF InTime
<1> QED
  BY <1>1, Invariant, PTL

\* No two replicas publish one cached message at the same time
\* (rabbitmq/lease.go:33-35).
THEOREM OneAtATime == Spec => []Exclusive
<1>1. Inv => Exclusive
  BY DEF Inv, InTime, Exclusive
<1> QED
  BY <1>1, Invariant, PTL
=============================================================================
