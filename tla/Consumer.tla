------------------------------ MODULE Consumer ------------------------------
(***************************************************************************)
(* The consumer of one client (rabbitmq/consumer.go): the consume loop and *)
(* its workers, the deliveries they settle, the way through the retry      *)
(* queue and into the dead-letter queue, the end of Start's context, and   *)
(* the drain of Close (rabbitmq.go).                                       *)
(*                                                                         *)
(* The broker's copies of the messages are a bag.  A delivery belongs to   *)
(* the channel it came over: when that is gone the broker has the copy     *)
(* back on the queue, and the job that still works on it cannot settle it. *)
(***************************************************************************)
EXTENDS Routing

CONSTANTS
    Msgs,           \* the messages
    Published,      \* the exchange, key and headers each was published with
    Handlers,       \* the subscriptions: [exchange, key]
    Bindings,       \* the bindings of the queue, those of earlier versions included
    queueName,      \* also the exchange that the retry queue dead-letters into
    concurrency,
    preFetchCount,
    withRetry,
    RetryLimit,     \* setup.retryCount
    Nil,            \* no x-origin-exchange header
    MaxSent,        \* bound on the messages on the queue at the start
    MaxFaults       \* bound on the connections lost, and the republishes that
                    \* fail on a live one, together

Absent == [kind |-> "absent", n |-> 0]

\* The x-retry-count header: absent, an integer, or of another type.
RetryHeaders == {Absent, [kind |-> "other", n |-> 0]} \cup [kind : {"int"}, n : Nat]

ASSUME ConsumerAssumption ==
    /\ \A m \in Msgs : /\ Published[m].exchange \notin {queueName, Nil}
                       /\ Published[m].retries \in RetryHeaders
    /\ Handlers \subseteq Bindings
    /\ concurrency \in Nat \ {0} /\ preFetchCount \in Nat
    /\ preFetchCount > 0 => concurrency <= preFetchCount
    /\ withRetry \in BOOLEAN /\ RetryLimit \in Nat
    /\ MaxSent \in Nat /\ MaxFaults \in Nat

ASSUME MessagesAssumption == IsFiniteSet(Msgs)

\* The messages the broker puts on the queue.
Routed ==
    {m \in Msgs : \E b \in Bindings : /\ b.exchange = Published[m].exchange
                                      /\ TopicMatches(b.key, Published[m].key)}

VARIABLES
    \* the broker
    copies,     \* the copies it has, each on a queue or delivered
    dead,       \* messages in the dead-letter queue
    registered, \* it has our consumer
    \* the client
    chan,       \* the connection and the consumer channel on it are usable
    loop,       \* consume: at its select, about to Consume, running workers, ended
    hook,       \* context.AfterFunc(ctx, c.cancelConsumer): off, armed, or running
    idle,       \* workers at their select
    jobs,       \* the deliveries other workers process
    ctxDone,    \* the context of Start has ended
    closing,    \* Close: not called, done closed, consumer cancelled, closed
    \* the past
    sent,       \* messages that were on the queue at the start
    runs, oks,  \* calls of a message's handler, and those that returned nil
    refused,    \* messages some handler answered with an error not to be retried
    faults, timedOut

broker == <<copies, dead, registered>>
loops == <<loop, hook>>
ending == <<ctxDone, closing>>
past == <<sent, runs, oks, refused, faults, timedOut>>
vars == <<broker, chan, loops, idle, jobs, ending, past>>

Exchanges == {Published[m].exchange : m \in Msgs}

\* A copy: the message, its headers, the exchange it was delivered from, and where
\* it is: on the queue, on the retry queue, or delivered and not acked (buffered by
\* the client, taken by a worker, or stuck with nobody to ack it).
UnackedPlaces == {"buffered", "taken", "stuck"}

Copies == [msg : Msgs, retries : RetryHeaders, exchange : Exchanges \cup {queueName},
           origin : Exchanges \cup {Nil}, place : UnackedPlaces \cup {"queue", "retry"}]

\* A delivery in a worker's hands: over a channel that lives or not, and what comes
\* next with it.
Jobs == [copy : {c \in Copies : c.place = "taken"}, live : BOOLEAN,
         at : {"handle", "retry", "ack", "nack"}]

Fresh(m) == [msg |-> m, retries |-> Published[m].retries, origin |-> Nil,
             exchange |-> Published[m].exchange, place |-> "queue"]

\* The bags of the standard module, as far as they are needed.
IsABag(B) == B \in [DOMAIN B -> {n \in Nat : n > 0}]
SetToBag(S) == [e \in S |-> 1]
EmptyBag == SetToBag({})

TypeOK ==
    /\ IsABag(copies) /\ DOMAIN copies \subseteq Copies
    /\ sent \subseteq Msgs /\ dead \subseteq Msgs /\ refused \subseteq Msgs
    /\ registered \in BOOLEAN /\ chan \in BOOLEAN /\ ctxDone \in BOOLEAN /\ timedOut \in BOOLEAN
    /\ loop \in {"check", "consume", "run", "ended"}
    /\ hook \in {"off", "armed", "running"}
    /\ idle \in Nat
    /\ IsABag(jobs) /\ DOMAIN jobs \subseteq Jobs
    /\ closing \in {"no", "done", "cancelled", "closed"}
    /\ runs \in [Msgs -> Nat] /\ oks \in [Msgs -> Nat]
    /\ faults \in 0..MaxFaults

-----------------------------------------------------------------------------
(* The broker                                                              *)

Unacked == {c \in DOMAIN copies : c.place \in UnackedPlaces}

\* A bag with one more, and with one less, of x.
BagWith(B, x) ==
    [e \in DOMAIN B \cup {x} |-> IF e = x THEN 1 + (IF x \in DOMAIN B THEN B[x] ELSE 0)
                                         ELSE B[e]]

BagWithout(B, x) ==
    [e \in {d \in DOMAIN B : d # x \/ B[x] # 1} |-> IF e = x THEN B[e] - 1 ELSE B[e]]

\* The bag of what the function f makes of the elements of B.
BagImage(f, B) ==
    [e \in {f[d] : d \in DOMAIN B} |-> SumFunctionOnSet(B, {d \in DOMAIN B : f[d] = e})]

\* The bag with one copy of c moved to another place.
Moved(bag, c, to) == BagWith(BagWithout(bag, c), [c EXCEPT !.place = to])

\* The channel is gone: its deliveries are on the queue again, the buffered ones
\* dropped by the client, and what its jobs hold is out of their reach.
ChannelGone ==
    /\ copies' = BagImage([c \in DOMAIN copies |-> IF c.place \in UnackedPlaces
                                                     THEN [c EXCEPT !.place = "queue"] ELSE c],
                          copies)
    /\ jobs' = BagImage([j \in DOMAIN jobs |-> [j EXCEPT !.live = FALSE]], jobs)
    /\ registered' = FALSE
    /\ chan' = FALSE

Deliver(c) ==
    /\ registered /\ c.place = "queue"
    /\ preFetchCount = 0 \/ SumFunctionOnSet(copies, Unacked) < preFetchCount
    /\ copies' = Moved(copies, c, "buffered")
    /\ UNCHANGED <<dead, registered, chan, loops, idle, jobs, ending, past>>

\* The ttl of the retry queue dead-letters the copy into the consumer's exchange,
\* which is bound to the queue with "#".
RetryExpires(c) ==
    /\ c.place = "retry"
    /\ copies' = Moved(copies, c, "queue")
    /\ UNCHANGED <<dead, registered, chan, loops, idle, jobs, ending, past>>

Drop ==
    /\ chan /\ faults < MaxFaults
    /\ ChannelGone
    /\ faults' = faults + 1
    /\ UNCHANGED <<dead, loops, idle, ending, sent, runs, oks, refused, timedOut>>

\* The monitor's reconnect, which a closed client refuses.
Reconnect ==
    /\ ~chan /\ closing = "no"
    /\ chan' = TRUE
    /\ UNCHANGED <<broker, loops, idle, jobs, ending, past>>

-----------------------------------------------------------------------------
(* consume and consumeMessages                                             *)

Stopping == ctxDone \/ closing # "no"

LoopChecks ==
    /\ loop = "check"
    /\ \/ Stopping /\ loop' = "ended"
       \/ ~Stopping /\ chan /\ loop' = "consume"
    /\ UNCHANGED <<broker, chan, hook, idle, jobs, ending, past>>

\* An AfterFunc on a context that has ended runs at once.
LoopConsumes ==
    /\ loop = "consume"
    /\ \/ /\ chan
          /\ registered' = TRUE
          /\ idle' = idle + concurrency
          /\ hook' = IF ctxDone THEN "running" ELSE "armed"
          /\ loop' = "run"
       \/ /\ ~chan
          /\ loop' = "check"
          /\ UNCHANGED <<registered, idle, hook>>
    /\ UNCHANGED <<copies, dead, chan, jobs, ending, past>>

\* Mutant: the workers of the generation are not waited for.
LoopReturnsEarly ==
    /\ loop = "run" /\ idle = 0
    /\ hook' = IF hook = "armed" THEN "off" ELSE hook
    /\ loop' = IF Stopping THEN "ended" ELSE "check"
    /\ chan' = (chan /\ Stopping)
    /\ UNCHANGED <<broker, idle, jobs, ending, past>>

\* All workers have gone.  The hook that has not started yet is stopped.  A feed
\* that ended by itself is reported as a broken connection.
LoopReturns ==
    /\ loop = "run" /\ idle = 0 /\ jobs = EmptyBag
    /\ hook' = IF hook = "armed" THEN "off" ELSE hook
    /\ loop' = IF Stopping THEN "ended" ELSE "check"
    /\ chan' = (chan /\ Stopping)
    /\ UNCHANGED <<broker, idle, jobs, ending, past>>

\* A cancelled context closes its Done channel before it starts the functions
\* that wait for it.
HookStarts ==
    /\ hook = "armed" /\ ctxDone
    /\ hook' = "running"
    /\ UNCHANGED <<broker, chan, loop, idle, jobs, ending, past>>

\* cancelConsumer.  What the client has buffered stays unacked.
HookCancels ==
    /\ hook = "running"
    /\ hook' = "off"
    /\ registered' = FALSE
    /\ UNCHANGED <<copies, dead, chan, loop, idle, jobs, ending, past>>

-----------------------------------------------------------------------------
(* runWorker and processMessage                                            *)

\* amqp091 closes the Go channel of a cancelled consumer once it is drained, and
\* at once when the channel is gone.
FeedClosed == ~registered /\ \A c \in DOMAIN copies : c.place # "buffered"

\* Mutant: a worker that has gone is counted off again.
WorkerLeavesTwice ==
    /\ Stopping \/ FeedClosed
    /\ idle' = idle - 1
    /\ UNCHANGED <<broker, chan, loops, jobs, ending, past>>

WorkerLeaves ==
    /\ idle > 0
    /\ Stopping \/ FeedClosed
    /\ idle' = idle - 1
    /\ UNCHANGED <<broker, chan, loops, jobs, ending, past>>

\* Mutant: the origin header of a retried message is not read.
HandlerOfIgnoresOrigin(c) == handlerFor(Handlers, c.exchange, Published[c.msg].key)

\* A copy that comes from the consumer's own exchange is looked up under the
\* exchange its header names.
HandlerOf(c) ==
    LET exchange == IF c.exchange = queueName /\ c.origin # Nil THEN c.origin
                                                                     ELSE c.exchange
    IN  handlerFor(Handlers, exchange, Published[c.msg].key)

\* The select may pick a delivery also when it could pick the end.
Take(c) ==
    /\ idle > 0 /\ c.place = "buffered"
    /\ copies' = Moved(copies, c, "taken")
    /\ idle' = idle - 1
    /\ jobs' = BagWith(jobs, [copy |-> [c EXCEPT !.place = "taken"], live |-> TRUE,
                             at |-> IF HandlerOf(c) = NoHandler THEN "nack" ELSE "handle"])
    /\ UNCHANGED <<dead, registered, chan, loops, ending, past>>

Moves(j, to) == jobs' = BagWith(BagWithout(jobs, j), [j EXCEPT !.at = to])

\* What the histories count up to.
Counted(n, max) == IF n < max THEN n + 1 ELSE n

retryCount(h) == IF h.kind = "int" THEN h.n ELSE 0

\* Mutant: the limit is reached one attempt later.
ExhaustedLate(c) == retryCount(c.retries) > RetryLimit

\* Mutant: the last attempt is not made.
ExhaustedEarly(c) == retryCount(c.retries) + 1 >= RetryLimit

Exhausted(c) == retryCount(c.retries) + 1 > RetryLimit

\* The handler returns nil, an error to be retried (a panic and a body that does
\* not decode among them), or one the application does not want retried.
Handle(j) ==
    /\ j.at = "handle"
    /\ runs' = [runs EXCEPT ![j.copy.msg] = Counted(@, RetryLimit + 2)]
    /\ \/ /\ oks' = [oks EXCEPT ![j.copy.msg] = Counted(@, 2)]
          /\ Moves(j, "ack")
          /\ UNCHANGED refused
       \/ /\ withRetry
          /\ Moves(j, IF Exhausted(j.copy) THEN "nack" ELSE "retry")
          /\ UNCHANGED <<oks, refused>>
       \/ /\ refused' = refused \cup {j.copy.msg}
          /\ Moves(j, "nack")
          /\ UNCHANGED oks
    /\ UNCHANGED <<broker, chan, loops, idle, ending, sent, faults, timedOut>>

\* Done with the delivery: the worker is back at its select.
Done(j) ==
    /\ jobs' = BagWithout(jobs, j)
    /\ idle' = idle + 1

stampOriginExchange(c) ==
    IF c.exchange = queueName \/ c.origin # Nil THEN c.origin ELSE c.exchange

\* The copy that goes to the retry exchange, as it will come back from there.
Republished(c) ==
    [msg |-> c.msg, retries |-> [kind |-> "int", n |-> retryCount(c.retries) + 1],
     exchange |-> queueName, origin |-> stampOriginExchange(c), place |-> "retry"]

\* The publish goes over the client's current connection, whatever became of the
\* channel of the delivery.
Republishes(j) ==
    /\ j.at = "retry"
    /\ chan
    /\ copies' = BagWith(copies, Republished(j.copy))
    /\ Moves(j, "ack")
    /\ UNCHANGED <<dead, registered, chan, loops, idle, ending, past>>

\* Mutant: the delivery is acked whatever became of the copy.
RepublishFailsAcked(j) ==
    /\ j.at = "retry"
    /\ Moves(j, "ack")
    /\ ~chan \/ faults < MaxFaults
    /\ faults' = IF chan THEN faults + 1 ELSE faults
    /\ UNCHANGED <<broker, chan, loops, idle, ending, sent, runs, oks, refused, timedOut>>

\* A republish that fails, or whose confirm is late, leaves the delivery neither
\* acked nor nacked; the broker may have the copy all the same.
RepublishFails(j) ==
    /\ j.at = "retry"
    /\ Done(j)
    /\ LET stuck == IF j.live THEN Moved(copies, j.copy, "stuck") ELSE copies
       IN  \/ ~chan /\ copies' = stuck /\ UNCHANGED faults
           \/ /\ chan /\ faults < MaxFaults
              /\ faults' = faults + 1
              /\ copies' \in {stuck, BagWith(stuck, Republished(j.copy))}
    /\ UNCHANGED <<dead, registered, chan, loops, ending, sent, runs, oks, refused, timedOut>>

\* Mutant: what has no further attempt is logged and not nacked.
SettleAcksOnly(j) ==
    /\ j.at \in {"ack", "nack"}
    /\ Done(j)
    /\ copies' = IF j.live /\ j.at = "ack" THEN BagWithout(copies, j.copy) ELSE copies
    /\ UNCHANGED <<dead, registered, chan, loops, ending, past>>

\* An ack, or a nack without requeue, which dead-letters.  Both fail on a channel
\* that is gone, and nothing follows from that.
Settle(j) ==
    /\ j.at \in {"ack", "nack"}
    /\ Done(j)
    /\ copies' = IF j.live THEN BagWithout(copies, j.copy) ELSE copies
    /\ dead' = IF j.live /\ j.at = "nack" THEN dead \cup {j.copy.msg} ELSE dead
    /\ UNCHANGED <<registered, chan, loops, ending, past>>

-----------------------------------------------------------------------------
(* The end of Start's context, and Close                                   *)

ContextEnds ==
    /\ ~ctxDone
    /\ ctxDone' = TRUE
    /\ UNCHANGED <<broker, chan, loops, idle, jobs, closing, past>>

CloseBegins ==
    /\ closing = "no"
    /\ closing' = "done"
    /\ UNCHANGED <<broker, chan, loops, idle, jobs, ctxDone, past>>

CloseCancels ==
    /\ closing = "done"
    /\ closing' = "cancelled"
    /\ registered' = FALSE
    /\ UNCHANGED <<copies, dead, chan, loops, idle, jobs, ctxDone, past>>

\* Mutant: the drain has no time limit.
CloseEndsDrained ==
    /\ closing = "cancelled" /\ loop = "ended"
    /\ closing' = "closed"
    /\ timedOut' = FALSE
    /\ ChannelGone
    /\ UNCHANGED <<dead, loops, idle, ctxDone, sent, runs, oks, refused, faults>>

\* waitForConsumer returns when the loop has ended or its timer has fired; then
\* the channels and the connection are closed.
CloseEnds ==
    /\ closing = "cancelled"
    /\ closing' = "closed"
    /\ timedOut' = (loop # "ended")
    /\ ChannelGone
    /\ UNCHANGED <<dead, loops, idle, ctxDone, sent, runs, oks, refused, faults>>

-----------------------------------------------------------------------------

JobStep(j) == Republishes(j) \/ RepublishFails(j) \/ Settle(j)

BrokerStep(c) == Deliver(c) \/ RetryExpires(c)

LoopStep == LoopChecks \/ LoopConsumes \/ LoopReturns

HookStep == HookStarts \/ HookCancels

CloseStep == CloseCancels \/ CloseEnds

Init ==
    /\ sent \in UNION {kSubset(k, Routed) : k \in 0..MaxSent}
    /\ copies = SetToBag({Fresh(m) : m \in sent})
    /\ dead = {} /\ registered = FALSE
    /\ chan \in BOOLEAN
    /\ loop = "check" /\ hook = "off"
    /\ idle = 0 /\ jobs = EmptyBag
    /\ ctxDone = FALSE /\ closing = "no"
    /\ runs = [m \in Msgs |-> 0] /\ oks = [m \in Msgs |-> 0]
    /\ refused = {} /\ faults = 0 /\ timedOut = FALSE

SystemStep ==
    \/ \E c \in DOMAIN copies : BrokerStep(c) \/ Take(c)
    \/ \E j \in DOMAIN jobs : JobStep(j)
    \/ WorkerLeaves \/ LoopStep \/ HookStep
    \/ Reconnect \/ CloseStep

Next ==
    \/ SystemStep
    \/ \E j \in DOMAIN jobs : Handle(j)
    \/ Drop \/ ContextEnds \/ CloseBegins

\* Goroutines run, the broker delivers, the retry ttl and the drain timer expire,
\* and the monitor reconnects.  Nothing obliges a handler to return, a context to
\* end or Close to be called.  A message is delivered a bounded number of times, so
\* that these steps cannot go on for ever at the expense of one another.
Fairness == WF_vars(SystemStep)

Spec == Init /\ [][Next]_vars

FairSpec == Spec /\ Fairness

-----------------------------------------------------------------------------
(* Properties                                                              *)

Holds(m) == {c \in DOMAIN copies : c.msg = m}

\* A message that reached the queue stays in the broker's hands until a handler
\* has returned nil for it or the dead-letter queue has it: a retried delivery is
\* acked only when its copy is on the retry exchange (consumer.go:319-325), over
\* lost connections, failed republishes, ends of context and Close.
NothingLost ==
    \A m \in sent : oks[m] > 0 \/ m \in dead \/ Holds(m) # {}

\* Without a lost connection, a failed republish or a drain that timed out, a
\* message is given to its handler at most RetryLimit + 1 times
\* (consumer.go:296) and no handler returns nil for it twice, however the end of
\* the context and Close fall between the workers.
NoExtraAttempt ==
    faults = 0 /\ ~timedOut =>
        \A m \in Msgs : runs[m] <= RetryLimit + 1 /\ oks[m] <= 1

\* A message is dead-lettered only when it has no handler, when a handler said it
\* is not to be retried, or after RetryLimit + 1 attempts, those of the header it
\* was published with counted in (consumer.go:275-304, 370-387).
NotDeadEarly ==
    \A m \in dead :
        \/ HandlerOf(Fresh(m)) = NoHandler
        \/ m \in refused
        \/ ~withRetry
        \/ runs[m] + retryCount(Published[m].retries) > RetryLimit

\* Wherever a copy of a message waits, the lookup gives it the handler that the
\* message as published has, also for types of one name in two exchanges
\* (consumer.go:244-253, 329-341).
RetriedToItsHandler ==
    \A c \in DOMAIN copies : HandlerOf(c) = HandlerOf(Fresh(c.msg))

\* Two generations of workers never run side by side (consumer.go:212-214).
OnePool == idle + SumFunction(jobs) <= concurrency

\* Close takes the channel away under a handler only after the drain timed out
\* (rabbitmq.go:473-476).
CloseWaitsForHandlers ==
    [][closing' = "closed" /\ closing # "closed" /\ jobs # EmptyBag => timedOut']_vars

\* While the client runs, every message on the queue is in the end handled or
\* dead-lettered, unless one of its copies sits in a handler that does not return or
\* was left unacked by a failed republish, or such copies use up the workers or the
\* prefetch, or such a handler is of a lost connection, whose workers are waited for
\* before anything is consumed again (consumer.go:212-214, 275, 317-321).
Settles ==
    LET stuck == {c \in DOMAIN copies : c.place = "stuck"}
        handled == {j \in DOMAIN jobs : j.at = "handle"}
        inHandlers == SumFunctionOnSet(jobs, handled)
    IN  <>[](\/ Stopping
             \/ inHandlers >= concurrency
             \/ preFetchCount > 0 /\ SumFunctionOnSet(copies, stuck) + inHandlers >= preFetchCount
             \/ \E j \in handled : ~j.live
             \/ \A c \in DOMAIN copies :
                    Holds(c.msg) \cap (stuck \cup {j.copy : j \in handled}) # {})

\* Close returns, also when a handler does not (rabbitmq.go:661-673).
CloseReturns == <>[](closing \in {"no", "closed"})

\* consumer.go:202-203: "Only consuming stops with the context: the connection is
\* intact and still publishes, so no delivery may be pulled and left unacked".
NothingLeftUnacked ==
    loop = "ended" /\ closing = "no" /\ chan =>
        \A c \in DOMAIN copies : c.place # "buffered"
=============================================================================
