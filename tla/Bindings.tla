------------------------------ MODULE Bindings ------------------------------
(***************************************************************************)
(* The bindings of one consumer queue, and the clients that keep them, in  *)
(* one process or several (consumer.go, claim.go, rabbitmq.go): a          *)
(* subscription is recorded in the shared cache and bound, every           *)
(* connection binds the registered handlers again, and the cleanup that    *)
(* Start launches unbinds what is recorded and has no handler.  A client   *)
(* claims the cache scope within its process from Connect to Close.        *)
(*                                                                         *)
(* All clients here have the same app, exchange and queue, so one scope.   *)
(***************************************************************************)
EXTENDS Naturals

CONSTANTS
    Clients, Procs,
    Proc,       \* the process of a client
    Keys,       \* what a handler is registered for: an exchange and a binding key
    Version,    \* the subscriptions the code of a client makes
    Recorded,   \* the keys that earlier runs left recorded and bound
    None,
    MaxFaults   \* bound on drops, failed cache and broker calls, and crashes

ASSUME BindingsAssumption ==
    /\ Proc \in [Clients -> Procs]
    /\ Version \in [Clients -> SUBSET Keys]
    /\ Recorded \subseteq Keys /\ None \notin Keys
    /\ MaxFaults \in Nat

VARIABLES
    bindings,   \* the keys the broker has bound to the queue
    records,    \* the keys with a handler info in the cache
    claimed,    \* the processes whose claimedKeys holds the scope
    st,         \* new, connecting, open, closing, closed; refused by the claim
    up,         \* isConnected, with a consumer channel
    handlers,   \* c.handlers
    left,       \* subscriptions the application has still to make
    storing,    \* the key a registerHandler is about to record
    binding,    \* the key a registerHandler is about to bind
    clean,      \* unbindUnusedBindings: off, waiting, listed, stopped
    todo,       \* the listed keys it has still to look at
    unbinding,  \* the key it is about to unbind
    deleting,   \* the key whose record it is about to delete
    unrecorded, \* history: keys bound before their record was stored or while it
                \* was being deleted, or deleted while a client handled them
    owed,       \* history: recorded keys no code handled any more when a client started
    faults

shared == <<bindings, records>>
life == <<claimed, st>>
registration == <<handlers, left, storing, binding>>
cleanup == <<clean, todo, unbinding, deleting>>
past == <<unrecorded, owed>>
vars == <<shared, life, up, registration, cleanup, past, faults>>

\* A client that holds its claim.
Live(c) == st[c] \in {"connecting", "open", "closing"}

TypeOK ==
    /\ bindings \subseteq Keys /\ records \subseteq Keys /\ unrecorded \subseteq Keys
    /\ claimed \subseteq Procs
    /\ st \in [Clients -> {"new", "refused", "connecting", "open", "closing", "closed"}]
    /\ up \in [Clients -> BOOLEAN]
    /\ handlers \in [Clients -> SUBSET Keys]
    /\ left \in [Clients -> SUBSET Keys]
    /\ storing \in [Clients -> Keys \cup {None}]
    /\ binding \in [Clients -> Keys \cup {None}]
    /\ clean \in [Clients -> {"off", "waiting", "listed", "stopped"}]
    /\ todo \in [Clients -> SUBSET Keys]
    /\ unbinding \in [Clients -> Keys \cup {None}]
    /\ deleting \in [Clients -> Keys \cup {None}]
    /\ owed \in [Clients -> SUBSET Keys]
    /\ faults \in 0..MaxFaults

Init ==
    /\ records = Recorded
    /\ bindings = Recorded
    /\ claimed = {}
    /\ st = [c \in Clients |-> "new"]
    /\ up = [c \in Clients |-> FALSE]
    /\ handlers = [c \in Clients |-> {}]
    /\ left = Version
    /\ storing = [c \in Clients |-> None]
    /\ binding = [c \in Clients |-> None]
    /\ clean = [c \in Clients |-> "off"]
    /\ todo = [c \in Clients |-> {}]
    /\ unbinding = [c \in Clients |-> None]
    /\ deleting = [c \in Clients |-> None]
    /\ unrecorded = {}
    /\ owed = [c \in Clients |-> {}]
    /\ faults = 0

\* Keys whose record a cleanup is about to delete.
Condemned == {deleting[d] : d \in Clients} \ {None}

Fault ==
    /\ faults < MaxFaults
    /\ faults' = faults + 1

-----------------------------------------------------------------------------
(* Connect and Close                                                       *)

\* Mutant: the scope is taken whoever has it.
claimCacheKeyAnyway(c) ==
    /\ st[c] = "new"
    /\ claimed' = claimed \cup {Proc[c]}
    /\ st' = [st EXCEPT ![c] = "connecting"]
    /\ UNCHANGED <<shared, up, registration, cleanup, past, faults>>

claimCacheKey(c) ==
    /\ st[c] = "new"
    /\ \/ /\ Proc[c] \in claimed
          /\ st' = [st EXCEPT ![c] = "refused"]
          /\ UNCHANGED claimed
       \/ /\ Proc[c] \notin claimed
          /\ claimed' = claimed \cup {Proc[c]}
          /\ st' = [st EXCEPT ![c] = "connecting"]
    /\ UNCHANGED <<shared, up, registration, cleanup, past, faults>>

\* The first dial of Connect lands, or the broker cannot be reached.
Connect(c) ==
    /\ st[c] = "connecting"
    /\ st' = [st EXCEPT ![c] = "open"]
    /\ \E landed \in BOOLEAN : up' = [up EXCEPT ![c] = landed]
    /\ UNCHANGED <<shared, claimed, registration, cleanup, past, faults>>

\* The broker refuses the topology, and Connect closes the client.
ConnectRejected(c) ==
    /\ st[c] = "connecting"
    /\ st' = [st EXCEPT ![c] = "closing"]
    /\ UNCHANGED <<shared, claimed, up, registration, cleanup, past, faults>>

\* Mutant: the claim goes before the drain.
CloseReleasesFirst(c) ==
    /\ st[c] = "open"
    /\ st' = [st EXCEPT ![c] = "closing"]
    /\ claimed' = claimed \ {Proc[c]}
    /\ UNCHANGED <<shared, up, registration, cleanup, past, faults>>

CloseBegins(c) ==
    /\ st[c] = "open"
    /\ st' = [st EXCEPT ![c] = "closing"]
    /\ UNCHANGED <<shared, claimed, up, registration, cleanup, past, faults>>

\* The connection is closed and the scope released.  The cleanup is not waited for.
releaseCacheKey(c) ==
    /\ st[c] = "closing"
    /\ st' = [st EXCEPT ![c] = "closed"]
    /\ up' = [up EXCEPT ![c] = FALSE]
    /\ claimed' = claimed \ {Proc[c]}
    /\ left' = [left EXCEPT ![c] = {}]
    /\ UNCHANGED <<shared, handlers, storing, binding, cleanup, past, faults>>

\* Every client of the process is gone, whatever it was doing.
Crash(p) ==
    /\ Fault
    /\ LET gone(c) == Proc[c] = p /\ st[c] # "new"
       IN  /\ st' = [c \in Clients |-> IF gone(c) THEN "closed" ELSE st[c]]
           /\ up' = [c \in Clients |-> ~gone(c) /\ up[c]]
           /\ left' = [c \in Clients |-> IF gone(c) THEN {} ELSE left[c]]
           /\ todo' = [c \in Clients |-> IF gone(c) THEN {} ELSE todo[c]]
           /\ storing' = [c \in Clients |-> IF gone(c) THEN None ELSE storing[c]]
           /\ binding' = [c \in Clients |-> IF gone(c) THEN None ELSE binding[c]]
           /\ clean' = [c \in Clients |-> IF gone(c) THEN "stopped" ELSE clean[c]]
           /\ unbinding' = [c \in Clients |-> IF gone(c) THEN None ELSE unbinding[c]]
           /\ deleting' = [c \in Clients |-> IF gone(c) THEN None ELSE deleting[c]]
    /\ claimed' = claimed \ {p}
    /\ UNCHANGED <<shared, handlers, past>>

-----------------------------------------------------------------------------
(* The connection                                                          *)

Drop(c) ==
    /\ up[c] /\ Fault
    /\ up' = [up EXCEPT ![c] = FALSE]
    /\ UNCHANGED <<shared, life, registration, cleanup, past>>

\* Mutant: a new connection does not bind what is registered.
ReconnectBindsNothing(c) ==
    /\ st[c] = "open" /\ ~up[c]
    /\ up' = [up EXCEPT ![c] = TRUE]
    /\ UNCHANGED <<shared, life, registration, cleanup, past, faults>>

\* reconnect, with bindRegisteredHandlers.  It may come before the record.
Reconnect(c) ==
    /\ st[c] = "open" /\ ~up[c]
    /\ up' = [up EXCEPT ![c] = TRUE]
    /\ bindings' = bindings \cup handlers[c]
    /\ unrecorded' = unrecorded \cup (handlers[c] \cap (Condemned \cup {storing[c]}))
    /\ UNCHANGED <<records, life, registration, cleanup, faults, owed>>

-----------------------------------------------------------------------------
(* registerHandler, which the application calls for one key after another  *)

registerHandler(c, k) ==
    /\ st[c] = "open" /\ clean[c] = "off"
    /\ storing[c] = None /\ binding[c] = None
    /\ k \in left[c]
    /\ handlers' = [handlers EXCEPT ![c] = @ \cup {k}]
    /\ storing' = [storing EXCEPT ![c] = k]
    /\ left' = [left EXCEPT ![c] = @ \ {k}]
    /\ UNCHANGED <<shared, life, up, binding, cleanup, past, faults>>

\* Mutant: what cannot be recorded is bound all the same.
storeHandlerInfoIgnoresError(c) ==
    /\ storing[c] # None
    /\ \/ /\ records' = records \cup {storing[c]}
          /\ unrecorded' = unrecorded \ ({storing[c]} \ Condemned)
          /\ UNCHANGED faults
       \/ Fault /\ UNCHANGED <<records, unrecorded>>
    /\ binding' = [binding EXCEPT ![c] = storing[c]]
    /\ storing' = [storing EXCEPT ![c] = None]
    /\ UNCHANGED <<bindings, life, up, handlers, left, cleanup, owed>>

storeHandlerInfo(c) ==
    /\ storing[c] # None
    /\ records' = records \cup {storing[c]}
    /\ unrecorded' = unrecorded \ ({storing[c]} \ Condemned)
    /\ binding' = [binding EXCEPT ![c] = storing[c]]
    /\ storing' = [storing EXCEPT ![c] = None]
    /\ UNCHANGED <<bindings, life, up, handlers, left, cleanup, faults, owed>>

\* The handler is given up again; the application may try once more, and the cache
\* may have taken the record before the call failed.
StoreFails(c) ==
    /\ storing[c] # None /\ Fault
    /\ handlers' = [handlers EXCEPT ![c] = @ \ {storing[c]}]
    /\ left' \in {left, [left EXCEPT ![c] = @ \cup {storing[c]}]}
    /\ records' \in {records, records \cup {storing[c]}}
    /\ storing' = [storing EXCEPT ![c] = None]
    /\ UNCHANGED <<bindings, life, up, binding, cleanup, past>>

\* Disconnected, it leaves the binding to the next connection.
bindHandler(c) ==
    /\ binding[c] # None
    /\ binding' = [binding EXCEPT ![c] = None]
    /\ \/ /\ up[c]
          /\ bindings' = bindings \cup {binding[c]}
          /\ unrecorded' = unrecorded \cup ({binding[c]} \cap Condemned)
          /\ UNCHANGED <<up, faults>>
       \/ /\ up[c] /\ Fault
          /\ up' = [up EXCEPT ![c] = FALSE]
          /\ UNCHANGED <<bindings, unrecorded>>
       \/ /\ ~up[c]
          /\ UNCHANGED <<bindings, unrecorded, up, faults>>
    /\ UNCHANGED <<records, life, handlers, left, storing, cleanup, owed>>

-----------------------------------------------------------------------------
(* Start and unbindUnusedBindings                                          *)

\* No client that has the key in its code is there or will be.
Unhandled(k) ==
    \A d \in Clients : k \in Version[d] => st[d] \in {"closed", "refused"} /\ storing[d] # k

\* "must be called after every handler has been registered" (rabbitmq.go:459)
Start(c) ==
    /\ st[c] = "open" /\ clean[c] = "off"
    /\ left[c] = {} /\ storing[c] = None /\ binding[c] = None
    /\ clean' = [clean EXCEPT ![c] = "waiting"]
    /\ owed' = [owed EXCEPT ![c] = {k \in records : Unhandled(k)}]
    /\ UNCHANGED <<shared, life, up, registration, todo, unbinding, deleting, unrecorded, faults>>

\* The context ended, Close began, or the keys could not be listed.
CleanupStops(c) ==
    /\ clean[c] = "waiting"
    /\ clean' = [clean EXCEPT ![c] = "stopped"]
    /\ UNCHANGED <<shared, life, up, registration, todo, unbinding, deleting, past, faults>>

\* Mutant: the keys are gone through without a connection.
CleanupListsAtOnce(c) ==
    /\ clean[c] = "waiting"
    /\ clean' = [clean EXCEPT ![c] = "listed"]
    /\ todo' = [todo EXCEPT ![c] = records]
    /\ UNCHANGED <<shared, life, up, registration, unbinding, deleting, past, faults>>

CleanupLists(c) ==
    /\ clean[c] = "waiting" /\ up[c]
    /\ clean' = [clean EXCEPT ![c] = "listed"]
    /\ todo' = [todo EXCEPT ![c] = records]
    /\ UNCHANGED <<shared, life, up, registration, unbinding, deleting, past, faults>>

\* A record that is gone by now, or cannot be read, or has its handler, is skipped.
CleanupChecks(c, k) ==
    /\ k \in todo[c] /\ unbinding[c] = None /\ deleting[c] = None
    /\ clean[c] = "listed"
    /\ todo' = [todo EXCEPT ![c] = @ \ {k}]
    /\ \/ /\ k \in records \ handlers[c]
          /\ unbinding' = [unbinding EXCEPT ![c] = k]
          /\ UNCHANGED faults
       \/ /\ k \notin records \ handlers[c]
          /\ UNCHANGED <<unbinding, faults>>
       \/ /\ Fault
          /\ UNCHANGED unbinding
    /\ UNCHANGED <<shared, life, up, registration, clean, deleting, past>>

\* QueueUnbind over the consumer channel, or the error that leaves the record.
CleanupUnbinds(c) ==
    /\ unbinding[c] # None
    /\ unbinding' = [unbinding EXCEPT ![c] = None]
    /\ \/ /\ up[c]
          /\ bindings' = bindings \ {unbinding[c]}
          /\ deleting' = [deleting EXCEPT ![c] = unbinding[c]]
       \/ /\ ~up[c]
          /\ UNCHANGED <<bindings, deleting>>
    /\ UNCHANGED <<records, life, up, registration, clean, todo, past, faults>>

\* The record goes also when a client has registered the key since.
CleanupDeletes(c) ==
    /\ deleting[c] # None
    /\ deleting' = [deleting EXCEPT ![c] = None]
    /\ \/ /\ records' = records \ {deleting[c]}
          /\ unrecorded' = IF \E d \in Clients : Live(d) /\ deleting[c] \in handlers[d]
                             THEN unrecorded \cup {deleting[c]} ELSE unrecorded
          /\ UNCHANGED faults
       \/ /\ Fault
          /\ UNCHANGED <<records, unrecorded>>
    /\ UNCHANGED <<bindings, life, up, registration, clean, todo, unbinding, owed>>

-----------------------------------------------------------------------------

SystemStep(c) ==
    \/ Connect(c) \/ releaseCacheKey(c) \/ Reconnect(c)
    \/ storeHandlerInfo(c) \/ bindHandler(c)
    \/ CleanupLists(c) \/ CleanupUnbinds(c) \/ CleanupDeletes(c)
    \/ \E k \in Keys : CleanupChecks(c, k)

Next ==
    \/ \E c \in Clients :
          \/ SystemStep(c)
          \/ claimCacheKey(c) \/ ConnectRejected(c) \/ CloseBegins(c) \/ Start(c)
          \/ Drop(c) \/ StoreFails(c) \/ CleanupStops(c)
          \/ \E k \in Keys : registerHandler(c, k)
    \/ \E p \in Procs : Crash(p)

Spec == Init /\ [][Next]_vars

\* Goroutines run, and the monitor of an open client reconnects it.  These steps
\* come to an end unless the application or a fault goes on, so that fairness to
\* all of them together is fairness to each.
FairSpec == Spec /\ WF_vars(\E c \in Clients : SystemStep(c))

-----------------------------------------------------------------------------
(* Properties                                                              *)

\* A process never has two live clients on one scope, and a scope without a live
\* client is free: a refused topology, a Close or a crash gives it back, and
\* nothing gives it back under a client (claim.go:9-11, rabbitmq.go:302-312, 497).
ClaimIsLive ==
    /\ \A c, d \in Clients : Live(c) /\ Live(d) /\ Proc[c] = Proc[d] => c = d
    /\ claimed = {Proc[c] : c \in {d \in Clients : Live(d)}}

\* A cleanup never unbinds a key that a live client of its own process handles
\* (claim.go:9-11).
OwnProcessSpared ==
    [][\A k \in bindings \ bindings' :
           \E c \in Clients : /\ unbinding[c] = k
                              /\ \A d \in Clients : Live(d) /\ Proc[d] = Proc[c] =>
                                                        k \notin handlers[d]]_vars

\* What a connected client has registered is bound, whether it was registered
\* before or after the connection, and through drops and failed binds; only the
\* cleanup of another process whose code does not have the key takes it away
\* (consumer.go:85-103, 389-453, rabbitmq.go:521-533, 783-797).
LiveIsBound ==
    \A c \in Clients : up[c] =>
        \A k \in handlers[c] \ (bindings \cup {storing[c], binding[c]}) :
            \E d \in Clients : Proc[d] # Proc[c] /\ k \notin handlers[d] /\ clean[d] # "off"

\* A binding has a record, so that a later run can take it away, unless a
\* connection landed between registering its handler and recording it, or the
\* cleanup of a client without the key met one that handles it
\* (consumer.go:84-103, 112-127, 448-451).
BindingsRecorded == bindings \subseteq records \cup unrecorded

\* A start takes away, in the end, every recorded binding that no code handled any
\* more, unless a fault met its one pass, or its client stopped (consumer.go:389-453).
StartCleans ==
    <>[](\A c \in Clients :
             \/ owed[c] \cap bindings \subseteq unrecorded
             \/ faults > 0
             \/ clean[c] = "stopped" \/ st[c] # "open")
=============================================================================
