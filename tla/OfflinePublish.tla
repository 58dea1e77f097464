--------------------------- MODULE OfflinePublish ---------------------------
(***************************************************************************)
(* The offline path of a publisher: Publish, the cache it falls back to,   *)
(* the flush that drains the cache, and the loops that start a flush       *)
(* (rabbitmq/publisher.go, common.go, lease.go).  Several replicas of one  *)
(* application share the store, and with it the cached messages and the    *)
(* leases that split a flush between them.                                 *)
(*                                                                         *)
(* One publish attempt is one step here, with the results ReturnTracker    *)
(* shows it can have; the connection is up or down (Connection has its     *)
(* life).  Messages are numbers, in the order of their UUIDv7 ids.         *)
(***************************************************************************)
EXTENDS Integers

CONSTANTS
    Replicas,       \* the processes that share the cache scope
    Msgs,           \* the messages, one call of Publish each
    Home,           \* the replica whose application publishes a message
    Background,     \* the context of Connect: its reconnects and the loops
    Nobody,
    Events,         \* what the environment may do, see AllEvents
    MaxOutages,     \* bound on the connections lost
    MaxCrashes      \* bound on the processes killed

AllEvents == {"cache",      \* an operation of the store may fail
              "timeout",    \* a confirm may be late, or negative
              "cancel",     \* a caller may cancel the context of its Publish
              "reject",     \* the broker may refuse the topology
              "ttl",        \* an entry may stay cached for cachedMessageTTL
              "slow",       \* a cache write may outlast delayedFlushDelay
              "bind",       \* a queue may be bound to a routing key,
              "unbind",     \* or unbound from it
              "close"}      \* the application may call Close

ASSUME ConstantsAssumption ==
    /\ Msgs \subseteq Nat
    /\ Home \in [Msgs -> Replicas]
    /\ Background \notin Msgs
    /\ Nobody \notin Msgs \cup {Background} \cup Replicas
    /\ Events \subseteq AllEvents
    /\ MaxOutages \in Nat /\ MaxCrashes \in Nat

\* Whose context a dial, and the flush after it, runs under.
Owners == Msgs \cup {Background}

VARIABLES
    \* the store and the broker
    cached,     \* messages with an entry in the cache
    lease,      \* who holds the lease of a message
    up,         \* the broker can be reached
    bound,      \* messages some queue is bound for
    copies,     \* copies the broker took of a message: none, 1, or 2 for more
    \* a replica
    status,     \* inside Connect, running, closed or dead
    link,       \* connected()
    dialer,     \* the owner of the dial in flight
    landed,     \* owners whose dial landed and whose flush has not begun
    sig,        \* the pending channel, of capacity one
    loop,       \* retryPendingMessages: idle, waiting on its timer, flushing
    delayed,    \* delayed flushes waiting on their timer, by owner
    \* the flush of a replica
    step, by, owner, todo, cur, left,
    \* a call of Publish
    pub, cancelled,
    \* the past
    outages, crashes,
    lapsed,     \* messages whose entry expired
    raced,      \* messages confirmed just as their connection closed
    doubt       \* messages the broker took and the client could not know, or not record

store == <<cached, lease>>
world == <<up, bound>>
conn == <<status, link, dialer, landed>>
loops == <<sig, loop, delayed>>
flush == <<step, by, owner, todo, cur, left>>
calls == <<pub, cancelled>>
budget == <<outages, crashes>>
past == <<lapsed, raced, doubt>>
vars == <<store, world, copies, conn, loops, flush, calls, budget, past>>

TypeOK ==
    /\ cached \in SUBSET Msgs
    /\ lease \in [Msgs -> Replicas \cup {Nobody}]
    /\ up \in BOOLEAN
    /\ bound \in SUBSET Msgs
    /\ copies \in [Msgs -> 0..2]
    /\ status \in [Replicas -> {"starting", "running", "closed", "dead"}]
    /\ link \in [Replicas -> BOOLEAN]
    /\ dialer \in [Replicas -> Owners \cup {Nobody}]
    /\ landed \in [Replicas -> SUBSET Owners]
    /\ sig \in [Replicas -> BOOLEAN]
    /\ loop \in [Replicas -> {"idle", "waiting", "flushing"}]
    /\ delayed \in [Replicas -> [Owners -> Nat]]
    /\ step \in [Replicas -> {"off", "keys", "next", "read", "publish", "delete",
                              "unroutable", "failed", "end"}]
    /\ by \in [Replicas -> {"reconnect", "delayed", "retry"}]
    /\ owner \in [Replicas -> Owners]
    /\ todo \in [Replicas -> SUBSET Msgs]
    /\ cur \in [Replicas -> Msgs \cup {Nobody}]
    /\ left \in [Replicas -> Nat]
    /\ pub \in [Msgs -> {"new", "dial", "flush", "send", "cache", "park", "signal",
                         "accepted", "failed"}]
    /\ cancelled \in SUBSET Msgs
    /\ outages \in Nat /\ crashes \in Nat
    /\ lapsed \in SUBSET Msgs /\ raced \in SUBSET Msgs /\ doubt \in SUBSET Msgs

\* Every replica is inside the reconnect of its Connect; none has a message yet.
Init ==
    /\ cached = {}
    /\ lease = [m \in Msgs |-> Nobody]
    /\ up \in BOOLEAN
    /\ bound \in SUBSET Msgs
    /\ copies = [m \in Msgs |-> 0]
    /\ status = [r \in Replicas |-> "starting"]
    /\ link = [r \in Replicas |-> FALSE]
    /\ dialer = [r \in Replicas |-> Background]
    /\ landed = [r \in Replicas |-> {}]
    /\ sig = [r \in Replicas |-> FALSE]
    /\ loop = [r \in Replicas |-> "idle"]
    /\ delayed = [r \in Replicas |-> [o \in Owners |-> 0]]
    /\ step = [r \in Replicas |-> "off"]
    /\ by = [r \in Replicas |-> "reconnect"]
    /\ owner = [r \in Replicas |-> Background]
    /\ todo = [r \in Replicas |-> {}]
    /\ cur = [r \in Replicas |-> Nobody]
    /\ left = [r \in Replicas |-> 0]
    /\ pub = [m \in Msgs |-> "new"]
    /\ cancelled = {}
    /\ outages = 0 /\ crashes = 0
    /\ lapsed = {} /\ raced = {} /\ doubt = {}

-----------------------------------------------------------------------------
(* One publish attempt                                                     *)

\* What publishConfirmed may return on replica r for message m under the context
\* of o, whether the broker took the message, and whether the connection is gone.
\* The last set is the race of ReturnTracker: the message came back, its confirm
\* was positive, and the tracker ended with the connection before it was asked.
Attempt(r, m, o) ==
    LET results(err, took, drop) ==
            {[err |-> err, took |-> t, drop |-> drop] : t \in took}
        maybe == IF m \in bound THEN BOOLEAN ELSE {FALSE}
        mayDrop == outages < MaxOutages
    IN  IF ~link[r] THEN results("notConnected", {FALSE}, FALSE)
        ELSE UNION {IF m \in bound THEN results("nil", {TRUE}, FALSE)
                                   ELSE results("unroutable", {FALSE}, FALSE),
                    IF mayDrop THEN results("notConfirmed", maybe, TRUE) ELSE {},
                    IF "timeout" \in Events \/ o \in cancelled
                      THEN results("notConfirmed", maybe, FALSE) ELSE {},
                    IF mayDrop /\ m \notin bound THEN results("nil", {FALSE}, TRUE)
                                                 ELSE {}}

\* Record what the attempt did to the broker, the connection and the past.
Apply(r, m, a) ==
    /\ copies' = IF a.took THEN [copies EXCEPT ![m] = IF @ = 0 THEN 1 ELSE 2] ELSE copies
    /\ link' = IF a.drop THEN [link EXCEPT ![r] = FALSE] ELSE link
    /\ outages' = IF a.drop THEN outages + 1 ELSE outages
    /\ doubt' = IF a.took /\ a.err # "nil" THEN doubt \cup {m} ELSE doubt
    /\ raced' = IF ~a.took /\ a.err = "nil" THEN raced \cup {m} ELSE raced

-----------------------------------------------------------------------------
(* flushCachedMessages                                                     *)

\* Replica r is in the loop body of message m, between its reservation and the
\* end of what it does with it.
Working(r, m) ==
    cur[r] = m /\ step[r] \in {"read", "publish", "delete", "unroutable", "failed"}

\* Connect returns once its own attempt to reconnect is over.
Started(r, o) ==
    IF o = Background /\ status[r] = "starting" THEN [status EXCEPT ![r] = "running"]
                                                ELSE status

\* Mutant: a reconnect schedules no delayed flush.
ResumeOnce(r, k, o, n) ==
    /\ status' = IF k = "reconnect" THEN Started(r, o) ELSE status
    /\ pub' = IF k = "reconnect" /\ o \in Msgs THEN [pub EXCEPT ![o] = "send"] ELSE pub
    /\ loop' = IF k = "retry"
                 THEN [loop EXCEPT ![r] = IF n = 0 THEN "idle" ELSE "waiting"]
                 ELSE loop
    /\ UNCHANGED delayed

\* Whoever called the flush goes on: a reconnect schedules the delayed flush and
\* lets its Publish send, the retry loop goes idle when nothing was left behind.
Resume(r, k, o, n) ==
    /\ status' = IF k = "reconnect" THEN Started(r, o) ELSE status
    /\ delayed' = IF k = "reconnect" THEN [delayed EXCEPT ![r][o] = @ + 1] ELSE delayed
    /\ pub' = IF k = "reconnect" /\ o \in Msgs THEN [pub EXCEPT ![o] = "send"] ELSE pub
    /\ loop' = IF k = "retry"
                 THEN [loop EXCEPT ![r] = IF n = 0 THEN "idle" ELSE "waiting"]
                 ELSE loop

\* A flush that finds no connection, or another flush running, returns 0 at once.
BeginFlush(r, k, o) ==
    \/ /\ link[r] /\ step[r] = "off"
       /\ step' = [step EXCEPT ![r] = "keys"]
       /\ by' = [by EXCEPT ![r] = k]
       /\ owner' = [owner EXCEPT ![r] = o]
       /\ loop' = IF k = "retry" THEN [loop EXCEPT ![r] = "flushing"] ELSE loop
       /\ UNCHANGED <<delayed, pub, status>>
    \/ /\ ~link[r] \/ step[r] # "off"
       /\ Resume(r, k, o, 0)
       /\ UNCHANGED <<step, by, owner>>

\* The flush returns, and its locals go.
FlushOver(r) ==
    /\ step' = [step EXCEPT ![r] = "off"]
    /\ by' = [by EXCEPT ![r] = "reconnect"]
    /\ owner' = [owner EXCEPT ![r] = Background]
    /\ todo' = [todo EXCEPT ![r] = {}]
    /\ cur' = [cur EXCEPT ![r] = Nobody]
    /\ left' = [left EXCEPT ![r] = 0]

\* The entries of the scope; Reserve takes them in the order of their ids.
cachedMessageKeys == cached

\* With no entry, or with an error, the flush is over.
ListKeys(r) ==
    /\ step[r] = "keys"
    /\ \E ok \in IF "cache" \in Events THEN BOOLEAN ELSE {TRUE} :
         IF ok /\ cachedMessageKeys # {}
           THEN /\ step' = [step EXCEPT ![r] = "next"]
                /\ todo' = [todo EXCEPT ![r] = cachedMessageKeys]
                /\ UNCHANGED <<by, owner, cur, left, delayed, pub, loop, status>>
           ELSE FlushOver(r) /\ Resume(r, by[r], owner[r], 0)
    /\ UNCHANGED <<store, world, copies, link, dialer, landed, sig, cancelled, budget,
                   past>>

\* Mutant: Set instead of SetIfAbsent.
reserveWithSet(r, m) ==
    /\ lease' = [lease EXCEPT ![m] = r]
    /\ cur' = [cur EXCEPT ![r] = m]
    /\ step' = [step EXCEPT ![r] = "read"]
    /\ UNCHANGED left

\* SetIfAbsent on the lease.  Losing it counts the message as left behind, and so
\* does an error, whether or not the store wrote the key.
reserveCachedMessage(r, m) ==
    \/ /\ lease[m] = Nobody
       /\ lease' = [lease EXCEPT ![m] = r]
       /\ cur' = [cur EXCEPT ![r] = m]
       /\ step' = [step EXCEPT ![r] = "read"]
       /\ UNCHANGED left
    \/ /\ lease[m] # Nobody
       /\ left' = [left EXCEPT ![r] = @ + 1]
       /\ UNCHANGED <<lease, cur, step>>
    \/ /\ "cache" \in Events
       /\ lease' \in {lease, [lease EXCEPT ![m] = IF @ = Nobody THEN r ELSE @]}
       /\ left' = [left EXCEPT ![r] = @ + 1]
       /\ UNCHANGED <<cur, step>>

\* The loop comes to the next message, the oldest.
Reserve(r) ==
    /\ step[r] = "next"
    /\ \E m \in todo[r] :
         /\ \A k \in todo[r] : m <= k
         /\ todo' = [todo EXCEPT ![r] = @ \ {m}]
         /\ reserveCachedMessage(r, m)
    /\ UNCHANGED <<cached, world, copies, conn, loops, by, owner, calls, budget, past>>

\* Mutant: the entry is taken from the listing, before the reservation.
ReadFromListing(r) ==
    /\ step[r] = "read"
    /\ step' = [step EXCEPT ![r] = "publish"]
    /\ UNCHANGED <<store, world, copies, conn, loops, by, owner, todo, cur, left, calls,
                   budget, past>>

\* Read after the reservation.  An entry that is gone, or that the store does not
\* return, is passed over with its lease still held.
Read(r) ==
    /\ step[r] = "read"
    /\ \E ok \in IF "cache" \in Events THEN BOOLEAN ELSE {TRUE} :
         step' = [step EXCEPT ![r] = IF ok /\ cur[r] \in cached THEN "publish" ELSE "next"]
    /\ UNCHANGED <<store, world, copies, conn, loops, by, owner, todo, cur, left, calls,
                   budget, past>>

\* Mutant: a message without a queue counts as delivered.
AfterFlushedLossy(err) == IF err \in {"nil", "unroutable"} THEN "delete" ELSE "failed"

\* What the loop body does next, by the error of the publish.
AfterFlushed(err) ==
    CASE err = "nil" -> "delete"
      [] err = "unroutable" -> "unroutable"
      [] OTHER -> "failed"

PublishCached(r) ==
    /\ step[r] = "publish"
    /\ \E a \in Attempt(r, cur[r], owner[r]) :
         /\ Apply(r, cur[r], a)
         /\ step' = [step EXCEPT ![r] = AfterFlushed(a.err)]
    /\ UNCHANGED <<store, world, status, dialer, landed, loops, by, owner, todo, cur,
                   left, calls, crashes, lapsed>>

\* Delivered: the entry goes, the lease is left to expire.
DeleteCached(r) ==
    /\ step[r] = "delete"
    /\ step' = [step EXCEPT ![r] = "next"]
    /\ \/ cached' = cached \ {cur[r]} /\ UNCHANGED doubt
       \/ "cache" \in Events /\ doubt' = doubt \cup {cur[r]} /\ UNCHANGED cached
    /\ UNCHANGED <<lease, world, copies, conn, loops, by, owner, todo, cur, left, calls,
                   budget, lapsed, raced>>

\* The lease key is deleted, whoever holds it.  Only a message with no queue lets
\* the flush go on.
Release(r) ==
    /\ step[r] \in {"unroutable", "failed"}
    /\ \/ lease' = [lease EXCEPT ![cur[r]] = Nobody]
       \/ "cache" \in Events /\ UNCHANGED lease
    /\ IF step[r] = "unroutable"
         THEN /\ step' = [step EXCEPT ![r] = "next"]
              /\ left' = [left EXCEPT ![r] = @ + 1]
         ELSE /\ step' = [step EXCEPT ![r] = "end"]
              /\ UNCHANGED left
    /\ UNCHANGED <<cached, world, copies, conn, loops, by, owner, todo, cur, calls,
                   budget, past>>

\* Through the keys, or broken off: signal what was left behind and return it.
EndFlush(r) ==
    /\ step[r] = "end" \/ (step[r] = "next" /\ todo[r] = {})
    /\ sig' = [sig EXCEPT ![r] = @ \/ left[r] > 0]
    /\ Resume(r, by[r], owner[r], left[r])
    /\ FlushOver(r)
    /\ UNCHANGED <<store, world, copies, link, dialer, landed, cancelled, budget, past>>

-----------------------------------------------------------------------------
(* reconnect, and the loops that start a flush                             *)

Alive(r) == status[r] \in {"starting", "running"}

\* The monitor and Connect are one thread, busy until their flush returns.
BackgroundBusy(r) ==
    \/ dialer[r] = Background
    \/ Background \in landed[r]
    \/ step[r] # "off" /\ by[r] = "reconnect" /\ owner[r] = Background

MonitorDials(r) ==
    /\ status[r] = "running" /\ ~link[r]
    /\ dialer[r] = Nobody /\ ~BackgroundBusy(r)
    /\ dialer' = [dialer EXCEPT ![r] = Background]
    /\ UNCHANGED <<store, world, copies, status, link, landed, loops, flush, calls,
                   budget, past>>

DialLands(r) ==
    /\ dialer[r] # Nobody
    /\ Alive(r) /\ up
    /\ dialer' = [dialer EXCEPT ![r] = Nobody]
    /\ link' = [link EXCEPT ![r] = TRUE]
    /\ landed' = [landed EXCEPT ![r] = @ \cup {dialer[r]}]
    /\ pub' = IF dialer[r] \in Msgs THEN [pub EXCEPT ![dialer[r]] = "flush"] ELSE pub
    /\ UNCHANGED <<store, world, copies, status, loops, flush, cancelled, budget, past>>

\* An unreachable broker makes Publish cache; a refused topology, or a Close that
\* overtook the dial, makes it return the error.  A topology refused to Connect
\* closes the client.
DialFails(r) ==
    /\ dialer[r] # Nobody
    /\ ~up \/ "reject" \in Events \/ ~Alive(r)
    /\ dialer' = [dialer EXCEPT ![r] = Nobody]
    /\ status' = IF up /\ status[r] = "starting" THEN [status EXCEPT ![r] = "closed"]
                                                 ELSE Started(r, dialer[r])
    /\ pub' = IF dialer[r] \in Msgs
                THEN [pub EXCEPT ![dialer[r]] = IF up THEN "failed" ELSE "cache"]
                ELSE pub
    /\ UNCHANGED <<store, world, copies, link, landed, loops, flush, cancelled, budget,
                   past>>

\* The owner of the dial flushes before it does anything else.
ReconnectFlushes(r, o) ==
    /\ o \in landed[r]
    /\ landed' = [landed EXCEPT ![r] = @ \ {o}]
    /\ BeginFlush(r, "reconnect", o)
    /\ UNCHANGED <<store, world, copies, link, dialer, sig, todo, cur, left, cancelled,
                   budget, past>>

\* scheduleDelayedFlush: its goroutine also ends with the context it was given.
DelayedFlushes(r, o) ==
    /\ delayed[r][o] > 0
    /\ Alive(r)
    /\ \/ "slow" \in Events
       \/ \A m \in Msgs : Home[m] = r => pub[m] \notin {"cache", "park"}
    /\ delayed' = [delayed EXCEPT ![r][o] = @ - 1]
    /\ \/ /\ link[r] /\ step[r] = "off"
          /\ step' = [step EXCEPT ![r] = "keys"]
          /\ by' = [by EXCEPT ![r] = "delayed"]
          /\ owner' = [owner EXCEPT ![r] = o]
       \/ /\ ~link[r] \/ step[r] # "off"
          /\ UNCHANGED <<step, by, owner>>
    /\ UNCHANGED <<store, world, copies, conn, sig, loop, todo, cur, left, calls, budget,
                   past>>

DelayedDropped(r, o) ==
    /\ delayed[r][o] > 0
    /\ o \in cancelled \/ ~Alive(r)
    /\ delayed' = [delayed EXCEPT ![r][o] = @ - 1]
    /\ UNCHANGED <<store, world, copies, conn, sig, loop, flush, calls, budget, past>>

\* retryPendingMessages: a signal arms the timer, unless it is already armed.
LoopWakes(r) ==
    /\ status[r] = "running"
    /\ sig[r] /\ loop[r] \in {"idle", "waiting"}
    /\ sig' = [sig EXCEPT ![r] = FALSE]
    /\ loop' = [loop EXCEPT ![r] = "waiting"]
    /\ UNCHANGED <<store, world, copies, conn, delayed, flush, calls, budget, past>>

LoopFires(r) ==
    /\ status[r] = "running"
    /\ loop[r] = "waiting"
    /\ BeginFlush(r, "retry", Background)
    /\ UNCHANGED <<store, world, copies, link, dialer, landed, sig, todo, cur, left,
                   cancelled, budget, past>>

-----------------------------------------------------------------------------
(* Publish                                                                 *)

\* Mutant: a call that finds a dial in flight waits for it, and nobody tells it.
PublishWaits(m) ==
    LET r == Home[m] IN
    /\ pub[m] = "new" /\ status[r] \in {"running", "closed"}
    /\ pub' = [pub EXCEPT ![m] = IF link[r] THEN "send" ELSE "dial"]
    /\ dialer' = IF ~link[r] /\ dialer[r] = Nobody THEN [dialer EXCEPT ![r] = m] ELSE dialer
    /\ UNCHANGED <<store, world, copies, status, link, landed, loops, flush, cancelled,
                   budget, past>>

Publish(m) ==
    LET r == Home[m] IN
    /\ pub[m] = "new" /\ status[r] \in {"running", "closed"}
    /\ \/ /\ link[r]
          /\ pub' = [pub EXCEPT ![m] = "send"]
          /\ UNCHANGED dialer
       \/ /\ ~link[r] /\ status[r] = "closed"
          /\ pub' = [pub EXCEPT ![m] = "failed"]
          /\ UNCHANGED dialer
       \/ /\ ~link[r] /\ status[r] = "running" /\ dialer[r] # Nobody
          /\ \E to \in IF "reject" \in Events THEN {"cache", "failed"} ELSE {"cache"} :
               pub' = [pub EXCEPT ![m] = to]
          /\ UNCHANGED dialer
       \/ /\ ~link[r] /\ status[r] = "running" /\ dialer[r] = Nobody
          /\ pub' = [pub EXCEPT ![m] = "dial"]
          /\ dialer' = [dialer EXCEPT ![r] = m]
    /\ UNCHANGED <<store, world, copies, status, link, landed, loops, flush, cancelled,
                   budget, past>>

AfterSent(err) ==
    CASE err = "nil" -> "accepted"
      [] err = "unroutable" -> "park"
      [] OTHER -> "cache"

Send(m) ==
    /\ pub[m] = "send"
    /\ \E a \in Attempt(Home[m], m, m) :
         /\ Apply(Home[m], m, a)
         /\ pub' = [pub EXCEPT ![m] = AfterSent(a.err)]
    /\ UNCHANGED <<store, world, status, dialer, landed, loops, flush, cancelled, crashes,
                   lapsed>>

\* A failing store fails the call, even if it kept the entry.
CacheMessage(m) ==
    /\ pub[m] \in {"cache", "park"}
    /\ \/ /\ cached' = cached \cup {m}
          /\ pub' = [pub EXCEPT ![m] = IF @ = "park" THEN "signal" ELSE "accepted"]
       \/ /\ "cache" \in Events
          /\ cached' \in {cached, cached \cup {m}}
          /\ pub' = [pub EXCEPT ![m] = "failed"]
    /\ UNCHANGED <<lease, world, copies, conn, loops, flush, cancelled, budget, past>>

SignalPending(m) ==
    /\ pub[m] = "signal"
    /\ sig' = [sig EXCEPT ![Home[m]] = TRUE]
    /\ pub' = [pub EXCEPT ![m] = "accepted"]
    /\ UNCHANGED <<store, world, copies, conn, loop, delayed, flush, cancelled, budget,
                   past>>

Cancel(m) ==
    /\ "cancel" \in Events
    /\ pub[m] # "new" /\ m \notin cancelled
    /\ cancelled' = cancelled \cup {m}
    /\ UNCHANGED <<store, world, copies, conn, loops, flush, pub, budget, past>>

-----------------------------------------------------------------------------
(* The store's clock, the broker and the processes                         *)

\* Lease shows that a lease outlives the attempt made under it.
LeaseExpires(m) ==
    /\ lease[m] # Nobody
    /\ \A r \in Replicas : ~Working(r, m)
    /\ lease' = [lease EXCEPT ![m] = Nobody]
    /\ UNCHANGED <<cached, world, copies, conn, loops, flush, calls, budget, past>>

EntryExpires(m) ==
    /\ "ttl" \in Events
    /\ m \in cached
    /\ cached' = cached \ {m}
    /\ lapsed' = lapsed \cup {m}
    /\ UNCHANGED <<lease, world, copies, conn, loops, flush, calls, budget, raced, doubt>>

Rebinds(m) ==
    /\ \/ "bind" \in Events /\ m \notin bound /\ bound' = bound \cup {m}
       \/ "unbind" \in Events /\ m \in bound /\ bound' = bound \ {m}
    /\ UNCHANGED <<store, up, copies, conn, loops, flush, calls, budget, past>>

BrokerStarts ==
    /\ ~up /\ up' = TRUE
    /\ UNCHANGED <<store, bound, copies, conn, loops, flush, calls, budget, past>>

BrokerStops ==
    /\ up /\ outages < MaxOutages
    /\ up' = FALSE
    /\ link' = [r \in Replicas |-> FALSE]
    /\ outages' = outages + 1
    /\ UNCHANGED <<store, bound, copies, status, dialer, landed, loops, flush, calls,
                   crashes, past>>

LinkDrops(r) ==
    /\ link[r] /\ (status[r] = "closed" \/ outages < MaxOutages)
    /\ link' = [link EXCEPT ![r] = FALSE]
    /\ outages' = IF status[r] = "closed" THEN outages ELSE outages + 1
    /\ UNCHANGED <<store, world, copies, status, dialer, landed, loops, flush, calls,
                   crashes, past>>

\* Close ends the loops; its connection goes with a LinkDrops after the drain.
Close(r) ==
    /\ "close" \in Events
    /\ status[r] = "running"
    /\ status' = [status EXCEPT ![r] = "closed"]
    /\ UNCHANGED <<store, world, copies, link, dialer, landed, loops, flush, calls,
                   budget, past>>

\* A killed process leaves behind what is in the store, its leases included.
Crash(r) ==
    /\ status[r] # "dead" /\ crashes < MaxCrashes
    /\ crashes' = crashes + 1
    /\ status' = [status EXCEPT ![r] = "dead"]
    /\ link' = [link EXCEPT ![r] = FALSE]
    /\ dialer' = [dialer EXCEPT ![r] = Nobody]
    /\ landed' = [landed EXCEPT ![r] = {}]
    /\ sig' = [sig EXCEPT ![r] = FALSE]
    /\ loop' = [loop EXCEPT ![r] = "idle"]
    /\ delayed' = [delayed EXCEPT ![r] = [o \in Owners |-> 0]]
    /\ FlushOver(r)
    /\ pub' = [m \in Msgs |-> IF Home[m] = r /\ pub[m] \notin {"new", "accepted"}
                                THEN "failed" ELSE pub[m]]
    /\ doubt' = IF step[r] = "delete" THEN doubt \cup {cur[r]} ELSE doubt
    /\ UNCHANGED <<store, world, copies, cancelled, outages, lapsed, raced>>

Restart(r) ==
    /\ status[r] = "dead"
    /\ status' = [status EXCEPT ![r] = "starting"]
    /\ dialer' = [dialer EXCEPT ![r] = Background]
    /\ UNCHANGED <<store, world, copies, link, landed, loops, flush, calls, budget, past>>

-----------------------------------------------------------------------------

FlushStep(r) ==
    \/ ListKeys(r) \/ Reserve(r) \/ Read(r) \/ PublishCached(r)
    \/ DeleteCached(r) \/ Release(r) \/ EndFlush(r)

DialStep(r) == DialLands(r) \/ DialFails(r)

CallStep(m) == Send(m) \/ CacheMessage(m) \/ SignalPending(m)

DelayedStep(r, o) == DelayedFlushes(r, o) \/ DelayedDropped(r, o)

ReplicaStep(r) ==
    \/ FlushStep(r) \/ MonitorDials(r) \/ DialStep(r)
    \/ \E o \in Owners : ReconnectFlushes(r, o) \/ DelayedStep(r, o)
    \/ LoopWakes(r) \/ LoopFires(r)

MsgStep(m) == Publish(m) \/ CallStep(m) \/ LeaseExpires(m)

Environment ==
    \/ BrokerStarts \/ BrokerStops
    \/ \E m \in Msgs : Cancel(m) \/ EntryExpires(m) \/ Rebinds(m)
    \/ \E r \in Replicas : LinkDrops(r) \/ Close(r) \/ Crash(r) \/ Restart(r)

Next ==
    \/ \E r \in Replicas : ReplicaStep(r)
    \/ \E m \in Msgs : MsgStep(m)
    \/ Environment

\* Goroutines run, timers fire, leases expire, and a broker that is down comes
\* back.  Nothing makes an application publish, or a dead replica return.
Fairness ==
    /\ \A r \in Replicas :
         /\ WF_vars(FlushStep(r)) /\ WF_vars(DialStep(r)) /\ WF_vars(MonitorDials(r))
         /\ WF_vars(LoopWakes(r)) /\ WF_vars(LoopFires(r))
         /\ \A o \in Owners : WF_vars(ReconnectFlushes(r, o)) /\ WF_vars(DelayedStep(r, o))
    /\ \A m \in Msgs : WF_vars(CallStep(m)) /\ WF_vars(LeaseExpires(m)) /\ WF_vars(Rebinds(m))
    /\ WF_vars(BrokerStarts)

Spec == Init /\ [][Next]_vars

FairSpec == Spec /\ Fairness

-----------------------------------------------------------------------------
(* Properties                                                              *)

\* A message whose Publish returned nil (rabbitmq/publisher.go:100) is on a queue
\* or still in the cache, unless it stayed cached for all of cachedMessageTTL or
\* its connection closed in the window between its confirm and the tracker's
\* answer.
NoAcceptedLoss ==
    \A m \in Msgs : pub[m] = "accepted" =>
        copies[m] > 0 \/ m \in cached \cup lapsed \cup raced

\* Two replicas are never inside the flush of one message at the same time
\* (rabbitmq/lease.go:33-35), whatever order they list, reserve, release and fail.
FlushExclusive ==
    \A r, q \in Replicas, m \in Msgs : Working(r, m) /\ Working(q, m) => r = q

\* The broker takes a second copy of a message only when a client could not learn
\* that it had taken the first, or died or failed before the entry left the cache
\* (rabbitmq/common.go:99-118).
DuplicateOnlyInDoubt ==
    \A m \in Msgs : copies[m] > 1 => m \in doubt

\* Every call of Publish returns, whoever dials and whatever its flush meets
\* (rabbitmq/publisher.go:106-140).
PublishReturns ==
    \A m \in Msgs : pub[m] # "new" ~> pub[m] \in {"accepted", "failed"}

\* A cached message that has a queue is delivered, by the flush of the reconnect or
\* by the delayed one (rabbitmq/common.go:313-325), also when other messages have no
\* queue, unless the connection is lost again or the client closed before.
Drains ==
    \A m \in Msgs : m \in cached /\ m \in bound ~>
                        m \notin cached \/ outages > 0 \/ ~Alive(Home[m])

\* README.md:378: a message whose lease a killed replica holds is delivered by
\* another replica, if a queue is bound for it.
KilledMidPublishFinished ==
    \A m \in Msgs, r \in Replicas :
        m \in cached /\ m \in bound /\ lease[m] = r /\ status[r] = "dead"
            ~> m \notin cached
=============================================================================
