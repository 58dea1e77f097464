------------------------------- MODULE Lease -------------------------------
(***************************************************************************)
(* The reservation of one cached message in real time (rabbitmq/lease.go   *)
(* and the loop body of flushCachedMessages in rabbitmq/common.go).        *)
(*                                                                         *)
(* A lease is a key with a ttl; nothing renews it, nothing checks that it  *)
(* is still there before the publish, and a release deletes the key        *)
(* whoever wrote it.  That two replicas never publish one message at once  *)
(* therefore rests on time alone: the ttl against how long an attempt can  *)
(* take.  Times are in milliseconds, all replicas read the store's clock.  *)
(***************************************************************************)
EXTENDS Integers, FiniteSetsExt

CONSTANTS
    Replicas,
    Nobody,
    ConfirmTimeout,     \* WithPublishConfirmTimeout
    MinLeaseTTL,        \* minPublishLeaseTTL
    ReadTime,           \* the longest Get of the entry
    SendTime,           \* the longest send: the lock and the socket obey no context
    SettleTime,         \* the longest Delete of an entry or of a lease
    MaxTime             \* bound on the clock

\* publishAttemptTimeout, with publishAttemptFactor.
AttemptTimeout == 2 * ConfirmTimeout

\* publishLeaseTTL.
LeaseTTL == Max({2 * AttemptTimeout, MinLeaseTTL})

\* The longest publish: the send, then a wait for the confirm that ends with
\* confirmTimeout or with the context of the attempt, whichever is first.
LongestAttempt == Max({SendTime, Min({SendTime + ConfirmTimeout, AttemptTimeout})})

ASSUME TimesAssumption ==
    /\ ConfirmTimeout \in Nat \ {0}
    /\ MinLeaseTTL \in Nat
    /\ ReadTime \in Nat /\ SendTime \in Nat /\ SettleTime \in Nat
    /\ MaxTime \in Nat
    /\ Nobody \notin Replicas

\* The deployment the lease is made for: what no context bounds, the store's
\* round trips and the send, fits in the slack the ttl leaves.
ASSUME SlackAssumption ==
    ReadTime + LongestAttempt + SettleTime < LeaseTTL

VARIABLES
    now,
    entry,      \* the message is still in the cache
    holder,     \* who wrote the lease key last, and has not deleted it
    exp,        \* when the lease key expires
    phase,      \* where in the loop body a replica is
    ctxEnd,     \* the deadline of attemptCtx
    due         \* when the phase ends at the latest

vars == <<now, entry, holder, exp, phase, ctxEnd, due>>

TypeOK ==
    /\ now \in Nat
    /\ entry \in BOOLEAN
    /\ holder \in Replicas \cup {Nobody}
    /\ exp \in Nat
    /\ phase \in [Replicas -> {"idle", "reading", "sending", "waiting", "delivered", "failed"}]
    /\ ctxEnd \in [Replicas -> Nat]
    /\ due \in [Replicas -> Nat]

Init ==
    /\ now = 0
    /\ entry = TRUE
    /\ holder = Nobody
    /\ exp = 0
    /\ phase = [r \in Replicas |-> "idle"]
    /\ ctxEnd = [r \in Replicas |-> 0]
    /\ due = [r \in Replicas |-> 0]

Enter(r, p, d) ==
    /\ phase' = [phase EXCEPT ![r] = p]
    /\ due' = [due EXCEPT ![r] = d]

\* The loop moves on, and the locals of its body go.
Leave(r) ==
    /\ Enter(r, "idle", 0)
    /\ ctxEnd' = [ctxEnd EXCEPT ![r] = 0]

\* A key is absent from the instant it expires.
LeaseAbsent == holder = Nobody \/ now >= exp

\* Mutants: the ttl is the attempt's timeout, not twice that; Set instead of
\* SetIfAbsent.
ReserveBriefly(r) ==
    /\ phase[r] = "idle"
    /\ LeaseAbsent
    /\ holder' = r
    /\ exp' = now + AttemptTimeout
    /\ Enter(r, "reading", now + ReadTime)
    /\ UNCHANGED <<now, entry, ctxEnd>>

ReserveWithSet(r) ==
    /\ phase[r] = "idle"
    /\ holder' = r
    /\ exp' = now + LeaseTTL
    /\ Enter(r, "reading", now + ReadTime)
    /\ UNCHANGED <<now, entry, ctxEnd>>

\* SetIfAbsent answers true.  A replica that loses the reservation skips the
\* message, which changes nothing here.
Reserve(r) ==
    /\ phase[r] = "idle"
    /\ LeaseAbsent
    /\ holder' = r
    /\ exp' = now + LeaseTTL
    /\ Enter(r, "reading", now + ReadTime)
    /\ UNCHANGED <<now, entry, ctxEnd>>

\* The entry is read under the lease; one that is gone is passed over, and the
\* lease is left to expire.
ReadEntry(r) ==
    /\ phase[r] = "reading"
    /\ IF entry THEN /\ Enter(r, "sending", now + SendTime)
                     /\ ctxEnd' = [ctxEnd EXCEPT ![r] = now + AttemptTimeout]
                ELSE Leave(r)
    /\ UNCHANGED <<now, entry, holder, exp>>

\* The frames are out: the wait ends with confirmTimeout or with attemptCtx, and
\* at once if the send outlasted it.
Sent(r) ==
    /\ phase[r] = "sending"
    /\ Enter(r, "waiting", Max({now, Min({now + ConfirmTimeout, ctxEnd[r]})}))
    /\ UNCHANGED <<now, entry, holder, exp, ctxEnd>>

SendFails(r) ==
    /\ phase[r] = "sending"
    /\ Enter(r, "failed", now + SettleTime)
    /\ UNCHANGED <<now, entry, holder, exp, ctxEnd>>

\* publish returned, with or without an error.
Concluded(r) ==
    /\ phase[r] = "waiting"
    /\ \E p \in {"delivered", "failed"} : Enter(r, p, now + SettleTime)
    /\ UNCHANGED <<now, entry, holder, exp, ctxEnd>>

\* Delivered: the entry goes and the lease stays.
DeleteEntry(r) ==
    /\ phase[r] = "delivered"
    /\ entry' = FALSE
    /\ Leave(r)
    /\ UNCHANGED <<now, holder, exp>>

\* releaseCachedMessage deletes the key without looking at who wrote it.
ReleaseLease(r) ==
    /\ phase[r] = "failed"
    /\ holder' = Nobody
    /\ Leave(r)
    /\ UNCHANGED <<now, entry, exp>>

\* A killed replica leaves its lease behind; restarted, it flushes anew.
Crash(r) ==
    /\ phase[r] # "idle"
    /\ Leave(r)
    /\ UNCHANGED <<now, entry, holder, exp>>

\* Time passes, but not past the end of a phase.
Tick ==
    /\ now < MaxTime
    /\ \A r \in Replicas : phase[r] # "idle" => now < due[r]
    /\ now' = now + 1
    /\ UNCHANGED <<entry, holder, exp, phase, ctxEnd, due>>

Next ==
    \/ \E r \in Replicas :
         \/ Reserve(r) \/ ReadEntry(r) \/ Sent(r) \/ SendFails(r) \/ Concluded(r)
         \/ DeleteEntry(r) \/ ReleaseLease(r) \/ Crash(r)
    \/ Tick

Spec == Init /\ [][Next]_vars

-----------------------------------------------------------------------------

\* A replica inside the loop body still holds the lease it took: it has neither
\* expired under a slow attempt nor been deleted by another replica's release
\* (rabbitmq/lease.go:13-14, 47-48).
HeldThroughout ==
    \A r \in Replicas : phase[r] # "idle" => holder = r /\ now < exp

\* So no two replicas are inside the loop body of one message at once
\* (rabbitmq/lease.go:33-34).
Exclusive ==
    \A r, q \in Replicas : phase[r] # "idle" /\ phase[q] # "idle" => r = q
=============================================================================
