--------------------------- MODULE ConsumerProofs ---------------------------
(***************************************************************************)
(* What holds of the consumer for any messages, handlers, concurrency,     *)
(* prefetch, retry limit and faults: a retried message finds its handler,  *)
(* none is dead-lettered before its attempts are used up, none is lost, or *)
(* tried too often without a fault; generations of workers do not overlap, *)
(* and Close takes the channel from no handler before its drain times out. *)
(***************************************************************************)
EXTENDS Consumer, TLAPS

-----------------------------------------------------------------------------
(* Numbers                                                                 *)

\* One more than what is within two limits.
LEMMA OneMore ==
    \A a, l, n \in Nat : a <= l /\ a <= n => a + 1 <= l + 1 /\ a + 1 <= n + 1
OBVIOUS

\* What is counted at all is counted at least once.
LEMMA AtLeastOne == \A n \in Nat : n # 0 => n > 0
OBVIOUS

-----------------------------------------------------------------------------
(* Bags                                                                    *)

\* How often x is in B.
Count(B, x) == IF x \in DOMAIN B THEN B[x] ELSE 0

\* What adding one element does.
LEMMA AddOne ==
    ASSUME NEW B, NEW x
    PROVE  /\ DOMAIN BagWith(B, x) = DOMAIN B \cup {x}
           /\ \A e : e # x => Count(BagWith(B, x), e) = Count(B, e)
           /\ Count(B, x) \in Nat => Count(BagWith(B, x), x) = Count(B, x) + 1
BY DEF BagWith, Count

\* What taking one element away does.
LEMMA RemoveOne ==
    ASSUME NEW B, NEW x
    PROVE  /\ DOMAIN BagWithout(B, x) \subseteq DOMAIN B
           /\ DOMAIN B \ {x} \subseteq DOMAIN BagWithout(B, x)
           /\ \A e : e # x => Count(BagWithout(B, x), e) = Count(B, e)
           /\ Count(B, x) \in Nat \ {0} => Count(BagWithout(B, x), x) = Count(B, x) - 1
BY DEF BagWithout, Count

\* What putting y in the place of one x does.
LEMMA SwapOne ==
    ASSUME NEW B, NEW x, NEW y
    PROVE  /\ DOMAIN BagWith(BagWithout(B, x), y) \subseteq DOMAIN B \cup {y}
           /\ y \in DOMAIN BagWith(BagWithout(B, x), y)
           /\ DOMAIN B \ {x} \subseteq DOMAIN BagWith(BagWithout(B, x), y)
<1> DEFINE Rest == BagWithout(B, x)
<1>1. DOMAIN Rest \subseteq DOMAIN B /\ DOMAIN B \ {x} \subseteq DOMAIN Rest
    BY RemoveOne
<1> HIDE DEF Rest
<1>2. DOMAIN BagWith(Rest, y) = DOMAIN Rest \cup {y}
    BY AddOne, Zenon
<1> QED
    BY <1>1, <1>2 DEF Rest

\* What applying an operator to all elements does.
LEMMA GoneDomain ==
    ASSUME ChannelGone
    PROVE  /\ DOMAIN copies' = {IF c.place \in UnackedPlaces THEN [c EXCEPT !.place = "queue"] ELSE c
                                   : c \in DOMAIN copies}
           /\ DOMAIN jobs' = {[j EXCEPT !.live = FALSE] : j \in DOMAIN jobs}
BY DEF ChannelGone, BagImage
-----------------------------------------------------------------------------
(* The workers                                                             *)

\* While no generation runs, no worker is there.
PoolInv ==
    /\ idle \in Nat
    /\ loop # "run" => idle = 0 /\ jobs = EmptyBag

\* consume starts the workers and comes back to its select once all have gone.
LEMMA PoolStep == PoolInv /\ [Next]_vars => PoolInv'
<1> SUFFICES ASSUME PoolInv, [Next]_vars PROVE PoolInv'
    OBVIOUS
<1> USE ConsumerAssumption DEF PoolInv, broker, loops, ending, past
<1>1. ASSUME NEW c \in DOMAIN copies, Deliver(c) \/ RetryExpires(c) \/ Take(c) PROVE PoolInv'
    BY <1>1 DEF Deliver, RetryExpires, Take
<1>2. ASSUME NEW j \in DOMAIN jobs,
             Republishes(j) \/ RepublishFails(j) \/ Settle(j) \/ Handle(j)
      PROVE  PoolInv'
  <2>1. loop = "run"
      BY DEF EmptyBag, SetToBag
  <2> QED
      BY <1>2, <2>1 DEF Republishes, RepublishFails, Settle, Handle, Done
<1>3. CASE WorkerLeaves
    BY <1>3 DEF WorkerLeaves
<1>4. CASE LoopStep
    BY <1>4 DEF LoopStep, LoopChecks, LoopConsumes, LoopReturns
<1>5. CASE Drop \/ CloseEnds
  <2>1. ChannelGone /\ UNCHANGED <<loop, idle>>
      BY <1>5 DEF Drop, CloseEnds
  <2>2. jobs = EmptyBag => jobs' = EmptyBag
      BY <2>1 DEF ChannelGone, BagImage, EmptyBag, SetToBag
  <2> QED
      BY <2>1, <2>2
<1>6. CASE UNCHANGED <<loop, idle, jobs>>
    BY <1>6
<1> QED
    BY <1>1, <1>2, <1>3, <1>4, <1>5, <1>6
    DEF Next, SystemStep, BrokerStep, JobStep, HookStep, HookStarts, HookCancels, Reconnect,
        CloseStep, CloseCancels, ContextEnds, CloseBegins, vars
-----------------------------------------------------------------------------
(* What the copies carry                                                   *)

\* A copy is as published, or has come through the retry exchange with the exchange
\* it was published to in its header.
Original(c) ==
    /\ c \in Copies
    /\ \/ c.exchange = Published[c.msg].exchange /\ c.origin = Nil
       \/ c.exchange = queueName /\ c.origin = Published[c.msg].exchange

OriginInv ==
    /\ \A c \in DOMAIN copies : Original(c)
    /\ \A j \in DOMAIN jobs : j \in Jobs /\ Original(j.copy)

\* A count of retries is a natural number, whatever the header is.
LEMMA RetryCountNat == ASSUME NEW h \in RetryHeaders PROVE retryCount(h) \in Nat
BY DEF RetryHeaders, Absent, retryCount

\* Moving a copy does not change what it carries.
LEMMA MovedOriginal ==
    ASSUME NEW c, Original(c), NEW to \in UnackedPlaces \cup {"queue", "retry"}
    PROVE  Original([c EXCEPT !.place = to])
BY DEF Original, Copies

\* Nor does the retry.
LEMMA RepublishedOriginal ==
    ASSUME NEW c, Original(c) PROVE Original(Republished(c))
<1>1. c \in Copies /\ retryCount(c.retries) \in Nat
    BY RetryCountNat DEF Original, Copies
<1>2. [kind |-> "int", n |-> retryCount(c.retries) + 1] \in RetryHeaders
    BY <1>1 DEF RetryHeaders
<1>3. stampOriginExchange(c) = Published[c.msg].exchange
    BY <1>1, ConsumerAssumption DEF Original, Copies, stampOriginExchange
<1> QED
    BY <1>1, <1>2, <1>3 DEF Original, Copies, Republished, Exchanges

\* A copy and the message as published have the same handler.
LEMMA SameHandler ==
    ASSUME NEW c, Original(c) PROVE HandlerOf(c) = HandlerOf(Fresh(c.msg))
BY ConsumerAssumption DEF Original, Copies, HandlerOf, Fresh
\* Every step keeps what the copies carry.
LEMMA OriginStep == OriginInv /\ [Next]_vars => OriginInv'
<1> SUFFICES ASSUME OriginInv, [Next]_vars PROVE OriginInv'
    OBVIOUS
<1> USE DEF OriginInv, broker, loops, ending, past
<1>1. ASSUME NEW c \in DOMAIN copies, Deliver(c) \/ RetryExpires(c) PROVE OriginInv'
  <2>1. PICK to \in {"buffered", "queue"} : copies' = Moved(copies, c, to)
      BY <1>1 DEF Deliver, RetryExpires
  <2>2. Original([c EXCEPT !.place = to])
      BY MovedOriginal, Zenon DEF UnackedPlaces
  <2>3. DOMAIN copies' \subseteq DOMAIN copies \cup {[c EXCEPT !.place = to]}
      BY <2>1, SwapOne DEF Moved
  <2> QED
      BY <1>1, <2>2, <2>3, Zenon DEF Deliver, RetryExpires, Original
<1>2. ASSUME NEW c \in DOMAIN copies, Take(c) PROVE OriginInv'
  <2> DEFINE taken == [c EXCEPT !.place = "taken"]
             job == [copy |-> taken, live |-> TRUE,
                     at |-> IF HandlerOf(c) = NoHandler THEN "nack" ELSE "handle"]
  <2>1. Original(taken)
      BY MovedOriginal, Zenon DEF UnackedPlaces
  <2>2. \A d \in DOMAIN copies' : Original(d)
      BY <1>2, <2>1, SwapOne DEF Take, Moved
  <2>3. job \in Jobs /\ job.copy = taken
      BY <2>1 DEF Jobs, Original, Copies
  <2>4. DOMAIN jobs' = DOMAIN jobs \cup {job}
      BY <1>2, AddOne, Zenon DEF Take
  <2> QED
      BY <2>1, <2>2, <2>3, <2>4, Zenon DEF Original
<1>3. ASSUME NEW j \in DOMAIN jobs, NEW to \in {"retry", "ack", "nack"}, Moves(j, to)
      PROVE  (\A k \in DOMAIN jobs : k \in Jobs /\ Original(k.copy))'
  <2>1. DOMAIN jobs' \subseteq DOMAIN jobs \cup {[j EXCEPT !.at = to]}
      BY <1>3, SwapOne DEF Moves
  <2>2. [j EXCEPT !.at = to] \in Jobs /\ [j EXCEPT !.at = to].copy = j.copy
      BY DEF Jobs
  <2> QED
      BY <2>1, <2>2, Zenon DEF Original
<1>4. ASSUME NEW j \in DOMAIN jobs, Handle(j) PROVE OriginInv'
    BY <1>3, <1>4 DEF Handle, Original
<1>5. ASSUME NEW j \in DOMAIN jobs, Republishes(j) PROVE OriginInv'
  <2>1. DOMAIN copies' = DOMAIN copies \cup {Republished(j.copy)}
      BY <1>5, AddOne, Zenon DEF Republishes
  <2> QED
      BY <1>3, <1>5, <2>1, RepublishedOriginal DEF Republishes, Original
<1>6. ASSUME NEW j \in DOMAIN jobs, RepublishFails(j) PROVE OriginInv'
  <2>1. DOMAIN jobs' \subseteq DOMAIN jobs
      BY <1>6, RemoveOne DEF RepublishFails, Done
  <2> DEFINE stuck == IF j.live THEN Moved(copies, j.copy, "stuck") ELSE copies
  <2>2. Original([j.copy EXCEPT !.place = "stuck"]) /\ Original(Republished(j.copy))
      BY MovedOriginal, RepublishedOriginal, Zenon DEF UnackedPlaces
  <2>3. DOMAIN stuck \subseteq DOMAIN copies \cup {[j.copy EXCEPT !.place = "stuck"]}
      BY SwapOne DEF Moved
  <2>4. copies' \in {stuck, BagWith(stuck, Republished(j.copy))}
      BY <1>6 DEF RepublishFails
  <2> HIDE DEF stuck
  <2>5. DOMAIN copies' \subseteq DOMAIN stuck \cup {Republished(j.copy)}
      BY <2>4, AddOne, Zenon
  <2> QED
      BY <2>1, <2>2, <2>3, <2>5, Zenon DEF Original
<1>7. ASSUME NEW j \in DOMAIN jobs, Settle(j) PROVE OriginInv'
  <2>1. DOMAIN jobs' \subseteq DOMAIN jobs /\ DOMAIN copies' \subseteq DOMAIN copies
      BY <1>7, RemoveOne DEF Settle, Done
  <2> QED
      BY <2>1 DEF Original
<1>8. CASE ChannelGone
  <2>1. \A c \in DOMAIN copies : Original([c EXCEPT !.place = "queue"])
      BY MovedOriginal
  <2>2. \A j \in DOMAIN jobs : /\ [j EXCEPT !.live = FALSE] \in Jobs
                               /\ [j EXCEPT !.live = FALSE].copy = j.copy
      BY Zenon DEF Jobs
  <2>3. \A c \in DOMAIN copies' : Original(c)
      BY <1>8, <2>1, GoneDomain
  <2>4. \A j \in DOMAIN jobs' : j \in Jobs /\ Original(j.copy)
    <3> TAKE j \in DOMAIN jobs'
    <3>1. PICK k \in DOMAIN jobs : j = [k EXCEPT !.live = FALSE]
        BY <1>8, GoneDomain
    <3> QED
        BY <2>2, <3>1
  <2> QED
      BY <2>3, <2>4 DEF Original
<1>9. CASE UNCHANGED <<copies, jobs>>
    BY <1>9 DEF Original
<1> QED
    BY <1>1, <1>2, <1>4, <1>5, <1>6, <1>7, <1>8, <1>9
    DEF Next, SystemStep, BrokerStep, JobStep, LoopStep, LoopChecks, LoopConsumes,
        LoopReturns, WorkerLeaves, HookStep, HookStarts, HookCancels, Reconnect, Drop,
        CloseStep, CloseCancels, CloseEnds, ContextEnds, CloseBegins, vars

\* What the variables are that the other invariants say nothing of.
PlainInv ==
    /\ refused \subseteq Msgs /\ faults \in 0..MaxFaults
    /\ registered \in BOOLEAN /\ chan \in BOOLEAN /\ ctxDone \in BOOLEAN /\ timedOut \in BOOLEAN
    /\ loop \in {"check", "consume", "run", "ended"}
    /\ hook \in {"off", "armed", "running"}
    /\ closing \in {"no", "done", "cancelled", "closed"}

\* Every step keeps them.
LEMMA PlainStep == OriginInv /\ PlainInv /\ [Next]_vars => PlainInv'
<1> SUFFICES ASSUME OriginInv, PlainInv, [Next]_vars PROVE PlainInv'
    OBVIOUS
<1> USE DEF PlainInv, broker, loops, ending, past
<1>1. ASSUME NEW c \in DOMAIN copies, Deliver(c) \/ RetryExpires(c) \/ Take(c) PROVE PlainInv'
    BY <1>1 DEF Deliver, RetryExpires, Take
<1>2. ASSUME NEW j \in DOMAIN jobs, Republishes(j) \/ Settle(j) PROVE PlainInv'
    BY <1>2, Zenon DEF Republishes, Settle
<1>3. ASSUME NEW j \in DOMAIN jobs, RepublishFails(j) PROVE PlainInv'
  <2>1. faults' \in 0..MaxFaults
      BY <1>3, ConsumerAssumption DEF RepublishFails
  <2> QED
      BY <1>3, <2>1 DEF RepublishFails
<1>4. ASSUME NEW j \in DOMAIN jobs, Handle(j) PROVE PlainInv'
  <2>1. j.copy.msg \in Msgs
      BY DEF OriginInv, Original, Copies
  <2>2. refused' \subseteq Msgs
      BY <1>4, <2>1 DEF Handle
  <2> QED
      BY <1>4, <2>2 DEF Handle
<1>5. CASE Drop
  <2>1. faults' \in 0..MaxFaults
      BY <1>5, ConsumerAssumption DEF Drop
  <2> QED
      BY <1>5, <2>1, Zenon DEF Drop, ChannelGone
<1>6. CASE CloseEnds
    BY <1>6, Zenon DEF CloseEnds, ChannelGone
<1>7. CASE WorkerLeaves \/ LoopChecks \/ LoopConsumes \/ HookStep
    BY <1>7, Zenon DEF WorkerLeaves, LoopChecks, LoopConsumes, HookStep, HookStarts, HookCancels
<1>8. CASE LoopReturns
    BY <1>8 DEF LoopReturns
<1>9. CASE Reconnect \/ CloseCancels \/ ContextEnds \/ CloseBegins
    BY <1>9, Zenon DEF Reconnect, CloseCancels, ContextEnds, CloseBegins
<1>10. CASE UNCHANGED vars
    BY <1>10 DEF vars
<1> QED
    BY <1>1, <1>2, <1>3, <1>4, <1>5, <1>6, <1>7, <1>8, <1>9, <1>10
    DEF Next, SystemStep, BrokerStep, JobStep, LoopStep, CloseStep
-----------------------------------------------------------------------------
(* Attempts                                                                *)

\* The retries a message came with.
Before(m) == retryCount(Published[m].retries)

\* The header of a copy counts at most the attempts that were made, n of them not
\* yet in it.
Attempted(c, n) ==
    \/ retryCount(c.retries) + n <= runs[c.msg] + Before(c.msg)
    \/ runs[c.msg] > RetryLimit

\* Why a message may be dead-lettered.
Reason(m) ==
    \/ HandlerOf(Fresh(m)) = NoHandler
    \/ m \in refused
    \/ ~withRetry
    \/ runs[m] + Before(m) > RetryLimit

AttemptInv ==
    /\ runs \in [Msgs -> Nat]
    /\ \A c \in DOMAIN copies : Attempted(c, 0)
    /\ \A j \in DOMAIN jobs :
          /\ Attempted(j.copy, IF j.at = "retry" THEN 1 ELSE 0)
          /\ j.at = "nack" => Reason(j.copy.msg)
    /\ \A m \in dead : m \in Msgs /\ Reason(m)

\* The retries a message came with are a natural number.
LEMMA BeforeNat == ASSUME NEW m \in Msgs PROVE Before(m) \in Nat
BY RetryCountNat, ConsumerAssumption DEF Before

\* A call of a handler is counted, up to where the count no longer matters.
LEMMA CountedUp ==
    ASSUME NEW n \in Nat
    PROVE  /\ Counted(n, RetryLimit + 2) \in Nat
           /\ Counted(n, RetryLimit + 2) >= n
           /\ Counted(n, RetryLimit + 2) > n \/ n > RetryLimit
BY ConsumerAssumption DEF Counted
\* The attempts made, and the refusals, only grow.
Grows ==
    /\ runs \in [Msgs -> Nat] /\ runs' \in [Msgs -> Nat]
    /\ \A m \in Msgs : runs'[m] >= runs[m]
    /\ refused \subseteq refused'

\* What the header of a copy counts stays covered while they grow.
LEMMA AttemptedStays ==
    ASSUME Grows, NEW c \in Copies, NEW n \in {0, 1}, Attempted(c, n) PROVE Attempted(c, n)'
<1>1. c.msg \in Msgs /\ retryCount(c.retries) \in Nat
    BY RetryCountNat DEF Copies
<1>2. Before(c.msg) \in Nat
    BY <1>1, BeforeNat
<1>3. runs[c.msg] \in Nat /\ runs'[c.msg] \in Nat /\ runs'[c.msg] >= runs[c.msg]
    BY <1>1 DEF Grows
<1>4. Before(c.msg)' = Before(c.msg) /\ retryCount(c.retries)' = retryCount(c.retries)
    BY DEF Before, retryCount
<1> QED
    BY <1>1, <1>2, <1>3, <1>4, ConsumerAssumption DEF Attempted

\* So does a reason.
LEMMA ReasonStays ==
    ASSUME Grows, NEW m \in Msgs, Reason(m) PROVE Reason(m)'
<1>1. Before(m) \in Nat
    BY BeforeNat
<1>2. runs[m] \in Nat /\ runs'[m] \in Nat /\ runs'[m] >= runs[m] /\ refused \subseteq refused'
    BY DEF Grows
<1>3. Before(m)' = Before(m)
    BY DEF Before, retryCount
<1> QED
    BY <1>1, <1>2, <1>3, ConsumerAssumption DEF Reason, HandlerOf, Fresh
\* Every step keeps the header of every copy within the attempts made.
LEMMA AttemptStep == OriginInv /\ AttemptInv /\ [Next]_vars => AttemptInv'
<1> SUFFICES ASSUME OriginInv, AttemptInv, [Next]_vars PROVE AttemptInv'
    OBVIOUS
<1> USE DEF broker, loops, ending, past
<1>1. /\ \A c \in DOMAIN copies : Original(c) /\ c \in Copies /\ Attempted(c, 0)
      /\ \A j \in DOMAIN jobs : /\ j \in Jobs /\ Original(j.copy)
                                /\ j.copy \in Copies /\ j.copy.msg \in Msgs
    BY DEF OriginInv, AttemptInv, Original, Copies
<1>2. \A j \in DOMAIN jobs : Attempted(j.copy, 0)
  <2> TAKE j \in DOMAIN jobs
  <2>1. Attempted(j.copy, IF j.at = "retry" THEN 1 ELSE 0)
      BY DEF AttemptInv
  <2>2. retryCount(j.copy.retries) \in Nat /\ Before(j.copy.msg) \in Nat /\ runs[j.copy.msg] \in Nat
      BY <1>1, RetryCountNat, BeforeNat DEF Copies, AttemptInv
  <2> QED
      BY <2>1, <2>2 DEF Attempted
<1>3. ASSUME Grows,
             \A c \in DOMAIN copies' : c \in DOMAIN copies \/ (c \in Copies /\ Attempted(c, 0)),
             \A j \in DOMAIN jobs' :
                 \/ j \in DOMAIN jobs
                 \/ /\ j.copy \in Copies
                    /\ Attempted(j.copy, IF j.at = "retry" THEN 1 ELSE 0)'
                    /\ j.at = "nack" => Reason(j.copy.msg)',
             \A m \in dead' : m \in dead \/ (m \in Msgs /\ Reason(m))
      PROVE  AttemptInv'
  <2>1. \A c \in DOMAIN copies' : Attempted(c, 0)'
      BY <1>1, <1>3, AttemptedStays
  <2>2. ASSUME NEW j \in DOMAIN jobs'
        PROVE  /\ Attempted(j.copy, IF j.at = "retry" THEN 1 ELSE 0)'
               /\ j.at = "nack" => Reason(j.copy.msg)'
    <3>1. CASE j \in DOMAIN jobs
      <4>1. Attempted(j.copy, IF j.at = "retry" THEN 1 ELSE 0)
          BY <3>1 DEF AttemptInv
      <4>2. Attempted(j.copy, IF j.at = "retry" THEN 1 ELSE 0)'
          BY <1>1, <1>3, <3>1, <4>1, AttemptedStays
      <4>3. j.at = "nack" => Reason(j.copy.msg)'
          BY <1>1, <1>3, <3>1, ReasonStays DEF AttemptInv
      <4> QED
          BY <4>2, <4>3
    <3>2. CASE j \notin DOMAIN jobs
        BY <1>3, <2>2, <3>2
    <3> QED
        BY <3>1, <3>2
  <2>3. \A m \in dead' : m \in Msgs /\ Reason(m)'
      BY <1>3, ReasonStays DEF AttemptInv
  <2> QED
      BY <1>3, <2>1, <2>2, <2>3 DEF AttemptInv, Grows
<1>4. UNCHANGED <<runs, refused>> => Grows
    BY DEF Grows, AttemptInv
<1>5. ASSUME NEW c \in DOMAIN copies, NEW to \in UnackedPlaces \cup {"queue", "retry"}
      PROVE  [c EXCEPT !.place = to] \in Copies /\ Attempted([c EXCEPT !.place = to], 0)
    BY <1>1 DEF Copies, Attempted
<1>6. ASSUME NEW c \in DOMAIN copies, Deliver(c) \/ RetryExpires(c) PROVE AttemptInv'
  <2>1. PICK to \in {"buffered", "queue"} : copies' = Moved(copies, c, to)
      BY <1>6 DEF Deliver, RetryExpires
  <2>2. [c EXCEPT !.place = to] \in Copies /\ Attempted([c EXCEPT !.place = to], 0)
      BY <1>5, Zenon DEF UnackedPlaces
  <2>3. DOMAIN copies' \subseteq DOMAIN copies \cup {[c EXCEPT !.place = to]}
      BY <2>1, SwapOne DEF Moved
  <2>4. UNCHANGED <<jobs, dead, runs, refused>>
      BY <1>6 DEF Deliver, RetryExpires
  <2> QED
      BY <1>3, <1>4, <2>2, <2>3, <2>4
<1>7. ASSUME NEW c \in DOMAIN copies, Take(c) PROVE AttemptInv'
  <2> DEFINE taken == [c EXCEPT !.place = "taken"]
             job == [copy |-> taken, live |-> TRUE,
                     at |-> IF HandlerOf(c) = NoHandler THEN "nack" ELSE "handle"]
  <2>1. taken \in Copies /\ Attempted(taken, 0)
      BY <1>5, Zenon DEF UnackedPlaces
  <2>2. DOMAIN copies' \subseteq DOMAIN copies \cup {taken}
      BY <1>7, SwapOne DEF Take, Moved
  <2>3. DOMAIN jobs' = DOMAIN jobs \cup {job}
      BY <1>7, AddOne, Zenon DEF Take
  <2>4. UNCHANGED <<dead, runs, refused>>
      BY <1>7 DEF Take
  <2>5. job.copy = taken /\ job.at # "retry" /\ taken.msg = c.msg
      BY <1>1 DEF Copies
  <2>6. job.at = "nack" => Reason(job.copy.msg)'
      BY <1>1, <2>4, <2>5, SameHandler, Zenon DEF Reason, HandlerOf, Fresh
  <2>7. Attempted(taken, 0)'
      BY <1>4, <2>1, <2>4, AttemptedStays
  <2> HIDE DEF job, taken
  <2> QED
      BY <1>3, <1>4, <2>1, <2>2, <2>3, <2>4, <2>5, <2>6, <2>7
<1>8. ASSUME NEW j \in DOMAIN jobs, Handle(j) PROVE AttemptInv'
  <2> DEFINE m == j.copy.msg
  <2>1. /\ retryCount(j.copy.retries) \in Nat /\ Before(m) \in Nat
        /\ m \in Msgs /\ runs[m] \in Nat /\ runs \in [Msgs -> Nat]
      BY <1>1, RetryCountNat, BeforeNat DEF Copies, AttemptInv
  <2>2. runs' = [runs EXCEPT ![m] = Counted(@, RetryLimit + 2)]
      BY <1>8 DEF Handle
  <2>3. Grows
      BY <1>8, <2>1, <2>2, CountedUp DEF Grows, Handle
  <2>4. runs'[m] \in Nat /\ (runs'[m] > runs[m] \/ runs'[m] > RetryLimit)
      BY <2>1, <2>2, CountedUp
  <2>5. Attempted(j.copy, 0)' /\ Attempted(j.copy, 1)'
    <3>1. Before(m)' = Before(m) /\ retryCount(j.copy.retries)' = retryCount(j.copy.retries)
        BY DEF Before, retryCount
    <3>2. Attempted(j.copy, 0)
        BY <1>2
    <3>3. runs'[m] >= runs[m]
        BY <2>1, <2>3 DEF Grows
    <3> QED
        BY <2>1, <2>4, <3>1, <3>2, <3>3, ConsumerAssumption DEF Attempted
  <2>6. PICK to \in {"ack", "retry", "nack"} :
            /\ Moves(j, to)
            /\ to = "nack" => Exhausted(j.copy) \/ m \in refused'
      BY <1>8 DEF Handle
  <2>7. to = "nack" => Reason(m)'
    <3>1. Exhausted(j.copy) => runs'[m] + Before(m) > RetryLimit
        BY <2>1, <2>4, <2>5, ConsumerAssumption DEF Exhausted, Attempted, Before, retryCount
    <3>2. Before(m)' = Before(m)
        BY DEF Before, retryCount
    <3> QED
        BY <2>6, <3>1, <3>2 DEF Reason
  <2> DEFINE next == [j EXCEPT !.at = to]
  <2>8. DOMAIN jobs' \subseteq DOMAIN jobs \cup {next}
      BY <2>6, SwapOne DEF Moves
  <2>9. next.copy = j.copy /\ next.at = to
      BY <1>1 DEF Jobs
  <2>10. UNCHANGED <<copies, dead>>
      BY <1>8 DEF Handle
  <2> HIDE DEF next
  <2> QED
      BY <1>1, <1>3, <2>3, <2>5, <2>7, <2>8, <2>9, <2>10
<1>9. ASSUME NEW j \in DOMAIN jobs, j.at = "retry"
      PROVE  Republished(j.copy) \in Copies /\ Attempted(Republished(j.copy), 0)
  <2>1. Republished(j.copy) \in Copies
      BY <1>1, RepublishedOriginal DEF Original
  <2>2. Attempted(j.copy, 1)
      BY <1>9 DEF AttemptInv
  <2>3. retryCount(j.copy.retries) \in Nat
      BY <1>1, RetryCountNat DEF Copies
  <2>4. /\ Republished(j.copy).msg = j.copy.msg
        /\ retryCount(Republished(j.copy).retries) = retryCount(j.copy.retries) + 1
      BY DEF Republished, retryCount
  <2> QED
      BY <2>1, <2>2, <2>3, <2>4 DEF Attempted
<1>10. ASSUME NEW j \in DOMAIN jobs, Republishes(j) PROVE AttemptInv'
  <2>1. Republished(j.copy) \in Copies /\ Attempted(Republished(j.copy), 0)
      BY <1>9, <1>10, Zenon DEF Republishes
  <2>2. DOMAIN copies' = DOMAIN copies \cup {Republished(j.copy)}
      BY <1>10, AddOne, Zenon DEF Republishes
  <2> DEFINE next == [j EXCEPT !.at = "ack"]
  <2>3. DOMAIN jobs' \subseteq DOMAIN jobs \cup {next}
      BY <1>10, SwapOne DEF Republishes, Moves
  <2>4. next.copy = j.copy /\ next.at = "ack"
      BY <1>1 DEF Jobs
  <2>5. UNCHANGED <<dead, runs, refused>>
      BY <1>10 DEF Republishes
  <2>6. Attempted(j.copy, 0)'
      BY <1>1, <1>2, <1>4, <2>5, AttemptedStays
  <2> HIDE DEF next
  <2> QED
      BY <1>1, <1>3, <1>4, <2>1, <2>2, <2>3, <2>4, <2>5, <2>6
<1>11. ASSUME NEW j \in DOMAIN jobs, RepublishFails(j) PROVE AttemptInv'
  <2> DEFINE left == [j.copy EXCEPT !.place = "stuck"]
             stuck == IF j.live THEN Moved(copies, j.copy, "stuck") ELSE copies
  <2>1. Republished(j.copy) \in Copies /\ Attempted(Republished(j.copy), 0)
      BY <1>9, <1>11 DEF RepublishFails
  <2>2. left \in Copies /\ Attempted(left, 0)
      BY <1>1, <1>2 DEF Copies, UnackedPlaces, Attempted
  <2>3. DOMAIN stuck \subseteq DOMAIN copies \cup {left}
      BY SwapOne DEF Moved
  <2>4. copies' \in {stuck, BagWith(stuck, Republished(j.copy))}
      BY <1>11 DEF RepublishFails
  <2> HIDE DEF stuck, left
  <2>5. DOMAIN copies' \subseteq DOMAIN stuck \cup {Republished(j.copy)}
      BY <2>4, AddOne, Zenon
  <2>6. DOMAIN jobs' \subseteq DOMAIN jobs
      BY <1>11, RemoveOne DEF RepublishFails, Done
  <2>7. UNCHANGED <<dead, runs, refused>>
      BY <1>11 DEF RepublishFails
  <2> QED
      BY <1>3, <1>4, <2>1, <2>2, <2>3, <2>5, <2>6, <2>7
<1>12. ASSUME NEW j \in DOMAIN jobs, Settle(j) PROVE AttemptInv'
  <2>1. DOMAIN jobs' \subseteq DOMAIN jobs /\ DOMAIN copies' \subseteq DOMAIN copies
      BY <1>12, RemoveOne DEF Settle, Done
  <2>2. dead' \subseteq dead \cup {j.copy.msg} /\ (j.at # "nack" => dead' = dead)
      BY <1>12 DEF Settle
  <2>3. j.at = "nack" => Reason(j.copy.msg)
      BY DEF AttemptInv
  <2>4. UNCHANGED <<runs, refused>>
      BY <1>12 DEF Settle
  <2> QED
      BY <1>1, <1>3, <1>4, <2>1, <2>2, <2>3, <2>4
<1>13. CASE Drop \/ CloseEnds
  <2>1. ChannelGone /\ UNCHANGED <<dead, runs, refused>>
      BY <1>13 DEF Drop, CloseEnds
  <2>2. \A c \in DOMAIN copies' : c \in DOMAIN copies \/ (c \in Copies /\ Attempted(c, 0))
      BY <1>5, <2>1, GoneDomain
  <2>3. ASSUME NEW j \in DOMAIN jobs'
        PROVE  /\ j.copy \in Copies
               /\ Attempted(j.copy, IF j.at = "retry" THEN 1 ELSE 0)'
               /\ j.at = "nack" => Reason(j.copy.msg)'
    <3>1. PICK k \in DOMAIN jobs : j = [k EXCEPT !.live = FALSE]
        BY <2>1, GoneDomain
    <3>2. j.copy = k.copy /\ j.at = k.at
        BY <1>1, <3>1 DEF Jobs
    <3>3. Attempted(k.copy, IF k.at = "retry" THEN 1 ELSE 0)
        BY DEF AttemptInv
    <3>4. Attempted(k.copy, IF k.at = "retry" THEN 1 ELSE 0)'
        BY <1>1, <1>4, <2>1, <3>3, AttemptedStays
    <3>5. k.at = "nack" => Reason(k.copy.msg)'
        BY <1>1, <1>4, <2>1, ReasonStays DEF AttemptInv
    <3> QED
        BY <1>1, <3>2, <3>4, <3>5
  <2> QED
      BY <1>3, <1>4, <2>1, <2>2, <2>3
<1>14. CASE UNCHANGED <<copies, jobs, dead, runs, refused>>
    BY <1>3, <1>4, <1>14
<1> QED
    BY <1>6, <1>7, <1>8, <1>10, <1>11, <1>12, <1>13, <1>14
    DEF Next, SystemStep, BrokerStep, JobStep, LoopStep, LoopChecks, LoopConsumes,
        LoopReturns, WorkerLeaves, HookStep, HookStarts, HookCancels, Reconnect,
        CloseStep, CloseCancels, ContextEnds, CloseBegins, vars
-----------------------------------------------------------------------------
(* What the workers hold                                                   *)

Ats == {"handle", "retry", "ack", "nack"}

Job(c, at) == [copy |-> c, live |-> TRUE, at |-> at]

\* The live jobs of the bag B that hold a copy equal to c.
Held(B, c, at) == Count(B, Job(c, at))

InHands(B, c) == Held(B, c, "handle") + Held(B, c, "retry") + Held(B, c, "ack") + Held(B, c, "nack")

\* A bag of jobs whose live ones are counted.
Counts(B) ==
    /\ \A c \in Copies, at \in Ats : Held(B, c, at) \in Nat
    /\ \A j \in DOMAIN B : j \in Jobs /\ (j.live => Held(B, j.copy, j.at) > 0)

\* One more live job.
LEMMA JobAdded ==
    ASSUME NEW B, Counts(B), NEW c \in Copies, c.place = "taken", NEW at \in Ats
    PROVE  LET After == BagWith(B, Job(c, at))
           IN  /\ Counts(After)
               /\ Held(After, c, at) = Held(B, c, at) + 1
               /\ \A d \in Copies, b \in Ats : d # c \/ b # at => Held(After, d, b) = Held(B, d, b)
<1> DEFINE After == BagWith(B, Job(c, at))
<1>1. Held(B, c, at) \in Nat
    BY DEF Counts
<1>2. Held(After, c, at) = Held(B, c, at) + 1
    BY <1>1, AddOne, Zenon DEF Held
<1>3. \A d \in Copies, b \in Ats : d # c \/ b # at => Held(After, d, b) = Held(B, d, b)
  <2> TAKE d \in Copies, b \in Ats
  <2> HAVE d # c \/ b # at
  <2>1. Job(d, b) # Job(c, at)
      BY DEF Job
  <2>2. \A e : e # Job(c, at) => Count(After, e) = Count(B, e)
      BY AddOne, Zenon
  <2> HIDE DEF After
  <2> QED
      BY <2>1, <2>2 DEF Held
<1>4. DOMAIN After = DOMAIN B \cup {Job(c, at)}
    BY AddOne, Zenon
<1>5. Job(c, at) \in Jobs /\ Job(c, at).copy = c /\ Job(c, at).at = at
    BY DEF Job, Jobs, Ats
<1> HIDE DEF After
<1>6. ASSUME NEW j \in DOMAIN After PROVE j \in Jobs /\ (j.live => Held(After, j.copy, j.at) > 0)
  <2>1. CASE j = Job(c, at)
      BY <1>1, <1>2, <1>5, <2>1
  <2>2. CASE j \in DOMAIN B
    <3>1. j \in Jobs /\ (j.live => Held(B, j.copy, j.at) > 0)
        BY <2>2 DEF Counts
    <3>2. j.copy \in Copies /\ j.at \in Ats
        BY <3>1 DEF Jobs, Ats
    <3> QED
        BY <1>1, <1>2, <1>3, <3>1, <3>2
  <2> QED
      BY <1>4, <2>1, <2>2
<1>7. \A d \in Copies, b \in Ats : Held(After, d, b) \in Nat
    BY <1>1, <1>2, <1>3 DEF Counts
<1> QED
    BY <1>2, <1>3, <1>6, <1>7 DEF After, Counts

\* One job less, which counts if it was live.
LEMMA JobRemoved ==
    ASSUME NEW B, Counts(B), NEW j \in DOMAIN B
    PROVE  LET After == BagWithout(B, j)
           IN  /\ Counts(After)
               /\ j.live => Held(After, j.copy, j.at) = Held(B, j.copy, j.at) - 1
               /\ \A d \in Copies, b \in Ats : ~j.live \/ d # j.copy \/ b # j.at =>
                                                Held(After, d, b) = Held(B, d, b)
<1> DEFINE After == BagWithout(B, j)
<1>1. j \in Jobs /\ j.copy \in Copies /\ j.at \in Ats /\ j.live \in BOOLEAN
    BY DEF Counts, Jobs, Ats
<1>2. j.live => j = Job(j.copy, j.at)
    BY <1>1 DEF Jobs, Job
<1>3. j.live => Held(B, j.copy, j.at) \in Nat \ {0}
    BY <1>1 DEF Counts
<1>4. j.live => Held(After, j.copy, j.at) = Held(B, j.copy, j.at) - 1
    BY <1>2, <1>3, RemoveOne DEF Held
<1>5. \A d \in Copies, b \in Ats : ~j.live \/ d # j.copy \/ b # j.at =>
                                    Held(After, d, b) = Held(B, d, b)
  <2> TAKE d \in Copies, b \in Ats
  <2> HAVE ~j.live \/ d # j.copy \/ b # j.at
  <2>1. Job(d, b) # j
      BY DEF Job
  <2> QED
      BY <2>1, RemoveOne DEF Held
<1>6. DOMAIN After \subseteq DOMAIN B
    BY RemoveOne
<1>7. \A k \in DOMAIN After : k \in Jobs
    BY <1>6 DEF Counts
<1>8. ASSUME NEW k \in DOMAIN After, k.live PROVE Held(After, k.copy, k.at) > 0
  <2>1. k \in DOMAIN B /\ k.copy \in Copies /\ k.at \in Ats /\ k = Job(k.copy, k.at)
      BY <1>6, <1>7, <1>8 DEF Jobs, Job, Ats
  <2>2. Held(B, k.copy, k.at) \in Nat \ {0}
      BY <1>8, <2>1 DEF Counts
  <2>3. CASE k # j
      BY <1>2, <1>5, <2>1, <2>2, <2>3
  <2>4. CASE k = j
    <3>1. B[j] # 1 /\ j \in DOMAIN B
        BY <2>1, <2>4 DEF BagWithout
    <3>2. Held(B, j.copy, j.at) = B[j]
        BY <1>2, <1>8, <2>4 DEF Held, Count
    <3> QED
        BY <1>4, <1>8, <2>2, <2>4, <3>1, <3>2
  <2> QED
      BY <2>3, <2>4
<1>9. \A d \in Copies, b \in Ats : Held(After, d, b) \in Nat
    BY <1>1, <1>3, <1>4, <1>5 DEF Counts
<1> QED
    BY <1>4, <1>5, <1>7, <1>8, <1>9 DEF Counts
\* A job goes on to something else: what is held, is held.
LEMMA JobMoved ==
    ASSUME NEW B, Counts(B), NEW j \in DOMAIN B, NEW to \in Ats, to # j.at
    PROVE  LET After == BagWith(BagWithout(B, j), [j EXCEPT !.at = to])
           IN  /\ Counts(After)
               /\ \A c \in Copies : InHands(After, c) = InHands(B, c)
               /\ \A c \in Copies, at \in Ats :
                      ~j.live \/ c # j.copy \/ at \notin {to, j.at} =>
                          Held(After, c, at) = Held(B, c, at)
<1> DEFINE Rest == BagWithout(B, j)
           After == BagWith(Rest, [j EXCEPT !.at = to])
<1>1. j \in Jobs /\ j.copy \in Copies /\ j.copy.place = "taken" /\ j.at \in Ats /\ j.live \in BOOLEAN
    BY DEF Counts, Jobs, Ats
<1>2. /\ Counts(Rest)
      /\ j.live => Held(Rest, j.copy, j.at) = Held(B, j.copy, j.at) - 1
      /\ \A d \in Copies, b \in Ats : ~j.live \/ d # j.copy \/ b # j.at =>
                                       Held(Rest, d, b) = Held(B, d, b)
    BY JobRemoved
<1> HIDE DEF Rest
<1>3. CASE j.live
  <2>1. [j EXCEPT !.at = to] = Job(j.copy, to)
    <3> DEFINE next == [j EXCEPT !.at = to]
    <3>1. next \in Jobs /\ next.copy = j.copy /\ next.live /\ next.at = to
        BY <1>1, <1>3 DEF Jobs, Ats
    <3> HIDE DEF next
    <3>2. next = Job(next.copy, next.at)
        BY <3>1 DEF Jobs, Job
    <3> QED
        BY <3>1, <3>2 DEF next
  <2>2. /\ Counts(After)
        /\ Held(After, j.copy, to) = Held(Rest, j.copy, to) + 1
        /\ \A d \in Copies, b \in Ats : d # j.copy \/ b # to => Held(After, d, b) = Held(Rest, d, b)
      BY <1>1, <1>2, <2>1, JobAdded
  <2> HIDE DEF After
  <2>3. ASSUME NEW c \in Copies PROVE InHands(After, c) = InHands(B, c)
    <3>1. \A at \in Ats : Held(B, c, at) \in Nat
        BY DEF Counts
    <3>2. CASE c # j.copy
        BY <1>2, <2>2, <3>2 DEF InHands, Ats
    <3>3. CASE c = j.copy
        BY <1>1, <1>2, <1>3, <2>2, <3>1, <3>3 DEF InHands, Ats
    <3> QED
        BY <3>2, <3>3
  <2>4. \A c \in Copies, at \in Ats : c # j.copy \/ at \notin {to, j.at} =>
                                      Held(After, c, at) = Held(B, c, at)
      BY <1>2, <2>2
  <2> QED
      BY <1>3, <2>2, <2>3, <2>4 DEF After, Rest
<1>4. CASE ~j.live
  <2> DEFINE next == [j EXCEPT !.at = to]
  <2>1. next \in Jobs /\ ~next.live
      BY <1>1, <1>4 DEF Jobs, Ats
  <2>2. DOMAIN After = DOMAIN Rest \cup {next}
      BY AddOne, Zenon
  <2>3. \A e : e # next => Count(After, e) = Count(Rest, e)
      BY AddOne, Zenon
  <2> HIDE DEF After, next
  <2>4. \A c \in Copies, at \in Ats : Held(After, c, at) = Held(B, c, at)
    <3> TAKE c \in Copies, at \in Ats
    <3>1. Job(c, at) # next
        BY <2>1 DEF Job
    <3>2. Held(After, c, at) = Held(Rest, c, at)
        BY <2>3, <3>1 DEF Held
    <3> QED
        BY <1>2, <1>4, <3>2
  <2>5. Counts(After)
    <3>1. \A k \in DOMAIN Rest : k \in Jobs /\ (k.live => Held(Rest, k.copy, k.at) > 0)
        BY <1>2 DEF Counts
    <3>2. ASSUME NEW k \in DOMAIN After
          PROVE  k \in Jobs /\ (k.live => Held(After, k.copy, k.at) > 0)
      <4>1. CASE k = next
          BY <2>1, <4>1
      <4>2. CASE k \in DOMAIN Rest
        <5>1. k.copy \in Copies /\ k.at \in Ats
            BY <3>1, <4>2 DEF Jobs, Ats
        <5> QED
            BY <1>2, <1>4, <2>4, <3>1, <4>2, <5>1
      <4> QED
          BY <2>2, <4>1, <4>2
    <3> QED
        BY <2>4, <3>2 DEF Counts
  <2>6. \A c \in Copies : InHands(After, c) = InHands(B, c)
      BY <2>4 DEF InHands, Ats
  <2> QED
      BY <2>4, <2>5, <2>6 DEF After, Rest, next
<1> QED
    BY <1>1, <1>3, <1>4
\* The bag of copies and the live jobs agree on what has been taken.
HandsInv ==
    /\ Counts(jobs)
    /\ \A c \in Copies : c.place = "taken" => Count(copies, c) = InHands(jobs, c)
    /\ \A c \in DOMAIN copies : c.place = "taken" => Count(copies, c) # 0

\* Two bags agree on what has been taken.
TakenSame(B, After) ==
    \A c \in Copies : c.place = "taken" =>
        Count(After, c) = Count(B, c) /\ (c \in DOMAIN After => c \in DOMAIN B)

\* An element that is not taken leaves the others alone.
LEMMA AddSame ==
    ASSUME NEW B, NEW c, c.place # "taken" PROVE TakenSame(B, BagWith(B, c))
<1>1. /\ DOMAIN BagWith(B, c) = DOMAIN B \cup {c}
      /\ \A e : e # c => Count(BagWith(B, c), e) = Count(B, e)
    BY AddOne, Zenon
<1> QED
    BY <1>1 DEF TakenSame

\* So does moving it.
LEMMA MoveSame ==
    ASSUME NEW B, NEW c \in Copies, c.place # "taken",
           NEW to \in UnackedPlaces \cup {"queue", "retry"}, to # "taken"
    PROVE  TakenSame(B, Moved(B, c, to))
<1> DEFINE Rest == BagWithout(B, c)
<1>1. /\ DOMAIN Rest \subseteq DOMAIN B
      /\ \A e : e # c => Count(Rest, e) = Count(B, e)
    BY RemoveOne
<1>2. [c EXCEPT !.place = to].place # "taken"
    BY DEF Copies
<1> HIDE DEF Rest
<1>3. TakenSame(Rest, BagWith(Rest, [c EXCEPT !.place = to]))
    BY <1>2, AddSame, Zenon
<1> QED
    BY <1>1, <1>3 DEF TakenSame, Moved, Rest

\* Steps that neither take nor settle.
LEMMA HandsKept ==
    ASSUME OriginInv, OriginInv', HandsInv, TakenSame(copies, copies'), Counts(jobs'),
           \A c \in Copies : InHands(jobs', c) = InHands(jobs, c)
    PROVE  HandsInv'
<1>1. \A c \in DOMAIN copies' : c \in Copies
    BY DEF OriginInv, Original
<1>2. Counts(jobs)'
    BY Zenon DEF Counts, Held, Count, Job
<1>3. \A c \in Copies : c.place = "taken" => Count(copies', c) = InHands(jobs', c)
    BY DEF HandsInv, TakenSame
<1>4. \A c \in DOMAIN copies' : c.place = "taken" => Count(copies', c) # 0
    BY <1>1, Zenon DEF HandsInv, TakenSame
<1> QED
    BY <1>2, <1>3, <1>4, Zenon DEF HandsInv, InHands, Held, Count, Job
\* A live job is done, and its copy settled or left to nobody.
LEMMA HandsEmptied ==
    ASSUME OriginInv, OriginInv', HandsInv, NEW j \in DOMAIN jobs, j.live,
           jobs' = BagWithout(jobs, j), TakenSame(BagWithout(copies, j.copy), copies')
    PROVE  HandsInv'
<1> DEFINE Rest == BagWithout(copies, j.copy)
<1>1. j.copy \in Copies /\ j.copy.place = "taken" /\ j.at \in Ats
    BY DEF OriginInv, Jobs, Ats
<1>2. /\ Counts(jobs')
      /\ Held(jobs', j.copy, j.at) = Held(jobs, j.copy, j.at) - 1
      /\ \A d \in Copies, b \in Ats : d # j.copy \/ b # j.at => Held(jobs', d, b) = Held(jobs, d, b)
    BY JobRemoved DEF HandsInv
<1>3. /\ \A d \in Copies, b \in Ats : Held(jobs, d, b) \in Nat
      /\ Held(jobs, j.copy, j.at) > 0
    BY DEF HandsInv, Counts
<1>4. /\ InHands(jobs, j.copy) \in Nat \ {0}
      /\ InHands(jobs', j.copy) = InHands(jobs, j.copy) - 1
  <2>1. /\ Held(jobs, j.copy, "handle") \in Nat /\ Held(jobs, j.copy, "retry") \in Nat
        /\ Held(jobs, j.copy, "ack") \in Nat /\ Held(jobs, j.copy, "nack") \in Nat
      BY <1>1, <1>3 DEF Ats
  <2>2. \A b \in Ats : b # j.at => Held(jobs', j.copy, b) = Held(jobs, j.copy, b)
      BY <1>1, <1>2
  <2>3. j.at \in {"handle", "retry", "ack", "nack"}
      BY <1>1 DEF Ats
  <2>4. CASE j.at = "handle"
      BY <1>2, <1>3, <2>1, <2>2, <2>4 DEF InHands, Ats
  <2>5. CASE j.at = "retry"
      BY <1>2, <1>3, <2>1, <2>2, <2>5 DEF InHands, Ats
  <2>6. CASE j.at = "ack"
      BY <1>2, <1>3, <2>1, <2>2, <2>6 DEF InHands, Ats
  <2>7. CASE j.at = "nack"
      BY <1>2, <1>3, <2>1, <2>2, <2>7 DEF InHands, Ats
  <2> QED
      BY <2>3, <2>4, <2>5, <2>6, <2>7
<1>5. \A d \in Copies : d # j.copy => InHands(jobs', d) = InHands(jobs, d)
    BY <1>2 DEF InHands, Ats
<1>6. Count(copies, j.copy) = InHands(jobs, j.copy)
    BY <1>1 DEF HandsInv
<1>7. /\ DOMAIN Rest \subseteq DOMAIN copies
      /\ \A e : e # j.copy => Count(Rest, e) = Count(copies, e)
      /\ Count(Rest, j.copy) = Count(copies, j.copy) - 1
    BY <1>4, <1>6, RemoveOne
<1>8. j.copy \in DOMAIN Rest => Count(Rest, j.copy) # 0
  <2>1. j.copy \in DOMAIN copies /\ copies[j.copy] = Count(copies, j.copy)
      BY <1>4, <1>6 DEF Count
  <2>2. j.copy \in DOMAIN Rest => copies[j.copy] # 1
      BY <2>1 DEF BagWithout
  <2> QED
      BY <1>4, <1>6, <1>7, <2>1, <2>2
<1> HIDE DEF Rest
<1>9. \A c \in Copies : c.place = "taken" => Count(copies', c) = InHands(jobs', c)
  <2> TAKE c \in Copies
  <2> HAVE c.place = "taken"
  <2>1. Count(copies', c) = Count(Rest, c)
      BY DEF TakenSame, Rest
  <2>2. CASE c = j.copy
      BY <1>4, <1>6, <1>7, <2>1, <2>2
  <2>3. CASE c # j.copy
      BY <1>5, <1>7, <2>1, <2>3 DEF HandsInv
  <2> QED
      BY <2>2, <2>3
<1>10. \A c \in DOMAIN copies' : c.place = "taken" => Count(copies', c) # 0
  <2> TAKE c \in DOMAIN copies'
  <2> HAVE c.place = "taken"
  <2>1. c \in Copies
      BY DEF OriginInv, Original
  <2>2. Count(copies', c) = Count(Rest, c) /\ c \in DOMAIN Rest
      BY <2>1 DEF TakenSame, Rest
  <2>3. CASE c = j.copy
      BY <1>8, <2>2, <2>3
  <2>4. CASE c # j.copy
      BY <1>7, <2>2, <2>4 DEF HandsInv
  <2> QED
      BY <2>3, <2>4
<1>11. Counts(jobs)'
    BY <1>2 DEF Counts, Held, Count, Job
<1> QED
    BY <1>9, <1>10, <1>11 DEF HandsInv, InHands, Held, Count, Job

\* A worker takes a copy.
LEMMA HandsFilled ==
    ASSUME OriginInv, OriginInv', HandsInv, NEW c \in DOMAIN copies, c.place = "buffered",
           copies' = Moved(copies, c, "taken"), NEW at \in Ats,
           jobs' = BagWith(jobs, Job([c EXCEPT !.place = "taken"], at))
    PROVE  HandsInv'
<1> DEFINE Rest == BagWithout(copies, c)
           taken == [c EXCEPT !.place = "taken"]
<1>1. c \in Copies /\ taken \in Copies /\ taken.place = "taken" /\ taken # c
    BY DEF OriginInv, Original, Copies, UnackedPlaces
<1>2. /\ DOMAIN Rest \subseteq DOMAIN copies
      /\ \A e : e # c => Count(Rest, e) = Count(copies, e)
    BY RemoveOne
<1>3. copies' = BagWith(Rest, taken) /\ jobs' = BagWith(jobs, Job(taken, at))
    BY DEF Moved
<1> HIDE DEF Rest, taken
<1>4. Counts(jobs) /\ \A d \in Copies, b \in Ats : Held(jobs, d, b) \in Nat
    BY DEF HandsInv, Counts
<1>5. /\ Counts(jobs')
      /\ Held(jobs', taken, at) = Held(jobs, taken, at) + 1
      /\ \A d \in Copies, b \in Ats : d # taken \/ b # at => Held(jobs', d, b) = Held(jobs, d, b)
  <2> DEFINE After == BagWith(jobs, Job(taken, at))
  <2>1. /\ Counts(After)
        /\ Held(After, taken, at) = Held(jobs, taken, at) + 1
        /\ \A d \in Copies, b \in Ats : d # taken \/ b # at => Held(After, d, b) = Held(jobs, d, b)
      BY <1>1, <1>4, JobAdded
  <2>2. jobs' = After
      BY <1>3
  <2> QED
      BY <2>1, <2>2, Zenon
<1>6. InHands(jobs, taken) \in Nat /\ InHands(jobs', taken) = InHands(jobs, taken) + 1
    BY <1>1, <1>4, <1>5 DEF InHands, Ats
<1>7. \A d \in Copies : d # taken => InHands(jobs', d) = InHands(jobs, d)
    BY <1>5 DEF InHands, Ats
<1>8. Count(Rest, taken) = InHands(jobs, taken)
    BY <1>1, <1>2 DEF HandsInv
<1>9. /\ DOMAIN copies' = DOMAIN Rest \cup {taken}
      /\ \A e : e # taken => Count(copies', e) = Count(Rest, e)
      /\ Count(copies', taken) = Count(Rest, taken) + 1
  <2>1. Count(Rest, taken) \in Nat
      BY <1>6, <1>8
  <2>2. /\ DOMAIN BagWith(Rest, taken) = DOMAIN Rest \cup {taken}
        /\ \A e : e # taken => Count(BagWith(Rest, taken), e) = Count(Rest, e)
        /\ Count(BagWith(Rest, taken), taken) = Count(Rest, taken) + 1
      BY <2>1, AddOne, Zenon
  <2> QED
      BY <1>3, <2>2
<1>10. \A d \in Copies : d.place = "taken" => Count(copies', d) = InHands(jobs', d)
  <2> TAKE d \in Copies
  <2> HAVE d.place = "taken"
  <2>1. CASE d = taken
      BY <1>6, <1>8, <1>9, <2>1
  <2>2. CASE d # taken
      BY <1>2, <1>7, <1>9, <2>2 DEF HandsInv
  <2> QED
      BY <2>1, <2>2
<1>11. \A d \in DOMAIN copies' : d.place = "taken" => Count(copies', d) # 0
  <2> TAKE d \in DOMAIN copies'
  <2> HAVE d.place = "taken"
  <2>1. CASE d = taken
      BY <1>6, <1>8, <1>9, <2>1
  <2>2. CASE d # taken
      BY <1>2, <1>9, <2>2 DEF HandsInv
  <2> QED
      BY <2>1, <2>2
<1>12. Counts(jobs)'
    BY <1>5, Zenon DEF Counts, Held, Count, Job
<1> QED
    BY <1>10, <1>11, <1>12, Zenon DEF HandsInv, InHands, Held, Count, Job
-----------------------------------------------------------------------------
(* No message is lost                                                      *)

\* Not every one of these copies is about to be acked.
Unsettled(B, c) == c.place = "taken" => InHands(B, c) > Held(B, c, "ack")

Safe(m) == oks[m] > 0 \/ m \in dead \/ \E c \in DOMAIN copies : c.msg = m /\ Unsettled(jobs, c)

SafeInv ==
    /\ oks \in [Msgs -> Nat]
    /\ \A m \in sent : m \in Msgs /\ Safe(m)

\* A message is safe after a step that gives it a copy for the one it had.
LEMMA SafeStays ==
    ASSUME SafeInv, NEW m \in sent, UNCHANGED oks, dead \subseteq dead',
           \A c \in DOMAIN copies : c.msg = m /\ Unsettled(jobs, c) =>
               m \in dead' \/ \E d \in DOMAIN copies' : d.msg = m /\ Unsettled(jobs', d)
    PROVE  Safe(m)'
<1>1. oks'[m] > 0 \/ m \in dead' \/ \E d \in DOMAIN copies' : d.msg = m /\ Unsettled(jobs', d)
    BY DEF SafeInv, Safe
<1> QED
    BY <1>1, Zenon DEF Safe, Unsettled, InHands, Held, Count, Job

\* The jobs that hold other copies do not matter to a copy.
LEMMA UnsettledStays ==
    ASSUME NEW B, NEW After, NEW c \in Copies, Unsettled(B, c),
           \A at \in Ats : Held(After, c, at) = Held(B, c, at)
    PROVE  Unsettled(After, c)
BY DEF Unsettled, InHands, Ats

\* The broker moves a copy.
LEMMA BrokerSafe ==
    ASSUME OriginInv, OriginInv', HandsInv, SafeInv, NEW c \in DOMAIN copies,
           Deliver(c) \/ RetryExpires(c)
    PROVE  HandsInv' /\ SafeInv'
<1> USE DEF broker, loops, ending, past
<1>1. PICK to \in {"buffered", "queue"} : copies' = Moved(copies, c, to)
    BY DEF Deliver, RetryExpires
<1>2. c \in Copies /\ c.place # "taken"
    BY DEF OriginInv, Original, Deliver, RetryExpires
<1>3. UNCHANGED <<jobs, oks, dead, sent>>
    BY Zenon DEF Deliver, RetryExpires
<1>4. HandsInv'
  <2>1. TakenSame(copies, copies')
      BY <1>1, <1>2, MoveSame DEF UnackedPlaces
  <2> QED
      BY <1>3, <2>1, HandsKept DEF HandsInv
<1> DEFINE moved == [c EXCEPT !.place = to]
<1>5. moved.msg = c.msg /\ moved.place # "taken"
    BY <1>2 DEF Copies
<1>6. moved \in DOMAIN copies' /\ DOMAIN copies \ {c} \subseteq DOMAIN copies'
    BY <1>1, SwapOne DEF Moved
<1> HIDE DEF moved
<1>7. \A m \in sent : Safe(m)'
    BY <1>3, <1>5, <1>6, SafeStays DEF Unsettled
<1> QED
    BY <1>3, <1>4, <1>7 DEF SafeInv

\* A worker takes one.
LEMMA TakeSafe ==
    ASSUME OriginInv, OriginInv', HandsInv, SafeInv, NEW c \in DOMAIN copies, Take(c)
    PROVE  HandsInv' /\ SafeInv'
<1> USE DEF broker, loops, ending, past
<1> DEFINE at == IF HandlerOf(c) = NoHandler THEN "nack" ELSE "handle"
           taken == [c EXCEPT !.place = "taken"]
<1>1. /\ c.place = "buffered" /\ copies' = Moved(copies, c, "taken")
      /\ jobs' = BagWith(jobs, Job(taken, at))
      /\ UNCHANGED <<oks, dead, sent>>
    BY DEF Take, Job
<1>2. at \in Ats /\ at # "ack"
    BY DEF Ats
<1> HIDE DEF at
<1>3. HandsInv'
    BY <1>1, <1>2, HandsFilled
<1>4. c \in Copies /\ taken \in Copies /\ taken.place = "taken" /\ taken.msg = c.msg
    BY DEF OriginInv, Original, Copies, UnackedPlaces
<1>5. taken \in DOMAIN copies' /\ DOMAIN copies \ {c} \subseteq DOMAIN copies'
    BY <1>1, SwapOne, Zenon DEF Moved
<1> HIDE DEF taken
<1>6. /\ Held(jobs', taken, at) = Held(jobs, taken, at) + 1
      /\ \A d \in Copies, b \in Ats : d # taken \/ b # at => Held(jobs', d, b) = Held(jobs, d, b)
    BY <1>1, <1>2, <1>4, JobAdded DEF HandsInv
<1>7. Unsettled(jobs', taken)
  <2>1. \A b \in Ats : Held(jobs, taken, b) \in Nat
      BY <1>4 DEF HandsInv, Counts
  <2>2. \A b \in Ats : b # at => Held(jobs', taken, b) = Held(jobs, taken, b)
      BY <1>4, <1>6, Zenon
  <2> QED
      BY <1>2, <1>6, <2>1, <2>2 DEF Unsettled, InHands, Ats
<1>8. \A d \in DOMAIN copies : d # taken /\ Unsettled(jobs, d) => Unsettled(jobs', d)
    BY <1>6, UnsettledStays DEF OriginInv, Original
<1>9. \A m \in sent : Safe(m)'
  <2> TAKE m \in sent
  <2>1. \A d \in DOMAIN copies : d.msg = m /\ Unsettled(jobs, d) =>
            \E e \in DOMAIN copies' : e.msg = m /\ Unsettled(jobs', e)
      BY <1>4, <1>5, <1>7, <1>8
  <2> QED
      BY <1>1, <2>1, SafeStays
<1> QED
    BY <1>1, <1>3, <1>9 DEF SafeInv
\* A handler returns: nil counts as handled, and otherwise nothing is about to be
\* acked that was not before.
LEMMA HandleSafe ==
    ASSUME OriginInv, OriginInv', HandsInv, SafeInv, NEW j \in DOMAIN jobs, Handle(j)
    PROVE  HandsInv' /\ SafeInv'
<1> USE DEF broker, loops, ending, past
<1>1. PICK to \in {"ack", "retry", "nack"} :
          /\ Moves(j, to)
          /\ \/ /\ to = "ack"
                /\ oks' = [oks EXCEPT ![j.copy.msg] = Counted(@, 2)]
             \/ to # "ack" /\ UNCHANGED oks
    BY DEF Handle
<1>2. j.at = "handle" /\ UNCHANGED <<copies, dead, sent>>
    BY Zenon DEF Handle
<1>3. j.copy \in Copies /\ j.copy.msg \in Msgs
    BY DEF OriginInv, Original, Copies
<1>4. /\ Counts(jobs')
      /\ \A c \in Copies : InHands(jobs', c) = InHands(jobs, c)
      /\ \A c \in Copies, at \in Ats : c # j.copy \/ at \notin {to, j.at} =>
                                       Held(jobs', c, at) = Held(jobs, c, at)
  <2>1. jobs' = BagWith(BagWithout(jobs, j), [j EXCEPT !.at = to])
      BY <1>1 DEF Moves
  <2>2. Counts(jobs) /\ to \in Ats /\ to # j.at
      BY <1>2, Zenon DEF HandsInv, Ats
  <2> QED
      BY <2>1, <2>2, JobMoved
<1>5. HandsInv'
  <2>1. TakenSame(copies, copies')
      BY <1>2 DEF TakenSame
  <2> QED
      BY <1>4, <2>1, HandsKept
<1>6. \A c \in DOMAIN copies : c # j.copy \/ to # "ack" =>
                                 (Unsettled(jobs, c) => Unsettled(jobs', c))
  <2> TAKE c \in DOMAIN copies
  <2> HAVE c # j.copy \/ to # "ack"
  <2>1. c \in Copies /\ "ack" \in Ats
      BY DEF OriginInv, Original, Ats
  <2>2. c # j.copy \/ "ack" \notin {to, j.at}
      BY <1>2
  <2>3. Held(jobs', c, "ack") = Held(jobs, c, "ack") /\ InHands(jobs', c) = InHands(jobs, c)
      BY <1>4, <2>1, <2>2
  <2> QED
      BY <2>3 DEF Unsettled
<1>7. /\ oks' \in [Msgs -> Nat]
      /\ \A m \in Msgs : oks[m] > 0 => oks'[m] > 0
      /\ to = "ack" => oks'[j.copy.msg] > 0
    BY <1>1, <1>3 DEF SafeInv, Counted
<1>8. \A m \in sent : Safe(m)'
  <2> TAKE m \in sent
  <2>1. m \in Msgs /\ Safe(m)
      BY Zenon DEF SafeInv
  <2>2. \/ oks'[m] > 0 \/ m \in dead'
        \/ \E c \in DOMAIN copies' : c.msg = m /\ Unsettled(jobs', c)
    <3>1. CASE oks[m] > 0 \/ m \in dead
        BY <1>2, <1>7, <2>1, <3>1, Zenon
    <3>2. CASE \E c \in DOMAIN copies : c.msg = m /\ Unsettled(jobs, c)
        BY <1>2, <1>6, <1>7, <3>2
    <3> QED
        BY <2>1, <3>1, <3>2 DEF Safe
  <2> QED
      BY <2>2, Zenon DEF Safe, Unsettled, InHands, Held, Count, Job
<1> QED
    BY <1>2, <1>5, <1>7, <1>8 DEF SafeInv

\* A delivery is republished before it is acked.
LEMMA RepublishSafe ==
    ASSUME OriginInv, OriginInv', HandsInv, SafeInv, NEW j \in DOMAIN jobs, Republishes(j)
    PROVE  HandsInv' /\ SafeInv'
<1> USE DEF broker, loops, ending, past
<1>1. /\ j.at = "retry" /\ Moves(j, "ack") /\ copies' = BagWith(copies, Republished(j.copy))
      /\ UNCHANGED <<oks, dead, sent>>
    BY DEF Republishes
<1>2. Republished(j.copy).place = "retry" /\ Republished(j.copy).msg = j.copy.msg
    BY DEF Republished
<1>3. /\ Counts(jobs')
      /\ \A c \in Copies : InHands(jobs', c) = InHands(jobs, c)
      /\ \A c \in Copies, at \in Ats : c # j.copy => Held(jobs', c, at) = Held(jobs, c, at)
    BY <1>1, JobMoved, Zenon DEF HandsInv, Moves, Ats
<1>4. HandsInv'
  <2>1. TakenSame(copies, copies')
      BY <1>1, <1>2, AddSame
  <2> QED
      BY <1>3, <2>1, HandsKept
<1>5. DOMAIN copies' = DOMAIN copies \cup {Republished(j.copy)}
    BY <1>1, AddOne, Zenon
<1>6. \A c \in DOMAIN copies : c # j.copy /\ Unsettled(jobs, c) => Unsettled(jobs', c)
  <2>1. \A c \in DOMAIN copies : c \in Copies
      BY Zenon DEF OriginInv, Original
  <2> QED
      BY <1>3, <2>1, UnsettledStays
<1>7. Unsettled(jobs', Republished(j.copy))
    BY <1>2, Zenon DEF Unsettled
<1>8. \A m \in sent : Safe(m)'
  <2> TAKE m \in sent
  <2>1. \A d \in DOMAIN copies : d.msg = m /\ Unsettled(jobs, d) =>
            \E e \in DOMAIN copies' : e.msg = m /\ Unsettled(jobs', e)
      BY <1>2, <1>5, <1>6, <1>7, Zenon
  <2> QED
      BY <1>1, <2>1, SafeStays, Zenon
<1> QED
    BY <1>1, <1>4, <1>8 DEF SafeInv
\* The jobs that stay hold what they held.
LEMMA OthersUnsettled ==
    ASSUME OriginInv, HandsInv, NEW j \in DOMAIN jobs, jobs' = BagWithout(jobs, j)
    PROVE  \A c \in DOMAIN copies : ~j.live \/ c # j.copy =>
                                    (Unsettled(jobs, c) => Unsettled(jobs', c))
<1>1. \A d \in Copies, b \in Ats : ~j.live \/ d # j.copy => Held(jobs', d, b) = Held(jobs, d, b)
    BY JobRemoved DEF HandsInv
<1> QED
    BY <1>1, UnsettledStays DEF OriginInv, Original

\* A job of a lost channel is done: nobody held its copy.
LEMMA HandsUntouched ==
    ASSUME OriginInv, OriginInv', HandsInv, NEW j \in DOMAIN jobs, ~j.live,
           jobs' = BagWithout(jobs, j), TakenSame(copies, copies')
    PROVE  HandsInv'
<1>1. /\ Counts(jobs')
      /\ \A d \in Copies, b \in Ats : Held(jobs', d, b) = Held(jobs, d, b)
    BY JobRemoved DEF HandsInv
<1>2. \A d \in Copies : InHands(jobs', d) = InHands(jobs, d)
    BY <1>1 DEF InHands, Ats
<1> QED
    BY <1>1, <1>2, HandsKept, Zenon

\* A republish fails: the delivery stays unacked.
LEMMA RepublishFailsSafe ==
    ASSUME OriginInv, OriginInv', HandsInv, SafeInv, NEW j \in DOMAIN jobs, RepublishFails(j)
    PROVE  HandsInv' /\ SafeInv'
<1> USE DEF broker, loops, ending, past
<1> DEFINE left == [j.copy EXCEPT !.place = "stuck"]
           stuck == IF j.live THEN Moved(copies, j.copy, "stuck") ELSE copies
<1>1. /\ jobs' = BagWithout(jobs, j)
      /\ copies' \in {stuck, BagWith(stuck, Republished(j.copy))}
      /\ UNCHANGED <<oks, dead, sent>>
    BY DEF RepublishFails, Done
<1>2. /\ j.copy \in Copies /\ left.place # "taken" /\ left.msg = j.copy.msg
      /\ Republished(j.copy).place # "taken"
    BY DEF OriginInv, Original, Copies, Republished
<1>3. j.live => stuck = BagWith(BagWithout(copies, j.copy), left)
    BY DEF Moved
<1>4. ~j.live => stuck = copies
    OBVIOUS
<1> HIDE DEF left, stuck
<1>5. TakenSame(stuck, copies') /\ DOMAIN stuck \subseteq DOMAIN copies'
  <2>1. TakenSame(stuck, stuck)
      BY Zenon DEF TakenSame
  <2>2. TakenSame(stuck, BagWith(stuck, Republished(j.copy)))
      BY <1>2, AddSame
  <2>3. DOMAIN BagWith(stuck, Republished(j.copy)) = DOMAIN stuck \cup {Republished(j.copy)}
      BY AddOne, Zenon
  <2> QED
      BY <1>1, <2>1, <2>2, <2>3
<1>6. \A c \in DOMAIN copies : ~j.live \/ c # j.copy =>
                                 (Unsettled(jobs, c) => Unsettled(jobs', c))
    BY <1>1, OthersUnsettled
<1>7. CASE j.live
  <2>1. TakenSame(BagWithout(copies, j.copy), stuck)
      BY <1>2, <1>3, <1>7, AddSame
  <2>2. TakenSame(BagWithout(copies, j.copy), copies')
      BY <1>5, <2>1, Zenon DEF TakenSame
  <2>3. HandsInv'
      BY <1>1, <1>7, <2>2, HandsEmptied
  <2>4. left \in DOMAIN copies' /\ DOMAIN copies \ {j.copy} \subseteq DOMAIN copies'
      BY <1>3, <1>5, <1>7, SwapOne
  <2>5. ASSUME NEW m \in sent PROVE Safe(m)'
    <3>1. \A d \in DOMAIN copies : d.msg = m /\ Unsettled(jobs, d) =>
              \E e \in DOMAIN copies' : e.msg = m /\ Unsettled(jobs', e)
        BY <1>2, <1>6, <2>4 DEF Unsettled
    <3> QED
        BY <1>1, <3>1, SafeStays
  <2> QED
      BY <1>1, <2>3, <2>5 DEF SafeInv
<1>8. CASE ~j.live
  <2>1. HandsInv'
      BY <1>1, <1>4, <1>5, <1>8, HandsUntouched, Zenon
  <2>2. ASSUME NEW m \in sent PROVE Safe(m)'
    <3>1. \A d \in DOMAIN copies : d.msg = m /\ Unsettled(jobs, d) =>
              \E e \in DOMAIN copies' : e.msg = m /\ Unsettled(jobs', e)
        BY <1>4, <1>5, <1>6, <1>8
    <3> QED
        BY <1>1, <3>1, SafeStays
  <2> QED
      BY <1>1, <2>1, <2>2 DEF SafeInv
<1> QED
    BY <1>7, <1>8
\* A delivery is settled.  The ack of a live one is not the last of its message,
\* unless the message was handled; the nack puts it in the dead-letter queue.
LEMMA SettleSafe ==
    ASSUME OriginInv, OriginInv', HandsInv, SafeInv, NEW j \in DOMAIN jobs, Settle(j)
    PROVE  HandsInv' /\ SafeInv'
<1> USE DEF broker, loops, ending, past
<1>1. /\ j.at \in {"ack", "nack"} /\ jobs' = BagWithout(jobs, j)
      /\ copies' = IF j.live THEN BagWithout(copies, j.copy) ELSE copies
      /\ dead' = IF j.live /\ j.at = "nack" THEN dead \cup {j.copy.msg} ELSE dead
      /\ UNCHANGED <<oks, sent>>
    BY Zenon DEF Settle, Done
<1>2. \A c \in DOMAIN copies : ~j.live \/ c # j.copy =>
                                 (Unsettled(jobs, c) => Unsettled(jobs', c))
    BY <1>1, OthersUnsettled
<1>3. \A B : TakenSame(B, B)
    BY Zenon DEF TakenSame
<1>4. CASE j.live
  <2>1. HandsInv'
      BY <1>1, <1>3, <1>4, HandsEmptied
  <2>2. DOMAIN copies \ {j.copy} \subseteq DOMAIN copies'
      BY <1>1, <1>4, RemoveOne
  <2>3. j.at = "ack" /\ Unsettled(jobs, j.copy) =>
            j.copy \in DOMAIN copies' /\ Unsettled(jobs', j.copy)
    <3> SUFFICES ASSUME j.at = "ack", Unsettled(jobs, j.copy)
                 PROVE  j.copy \in DOMAIN copies' /\ Unsettled(jobs', j.copy)
        OBVIOUS
    <3>1. j.copy \in Copies /\ j.copy.place = "taken"
        BY Zenon DEF OriginInv, Jobs
    <3>2. /\ Held(jobs', j.copy, "ack") = Held(jobs, j.copy, "ack") - 1
          /\ \A b \in Ats : b # "ack" => Held(jobs', j.copy, b) = Held(jobs, j.copy, b)
        BY <1>1, <1>4, <3>1, JobRemoved DEF HandsInv
    <3>3. \A b \in Ats : Held(jobs, j.copy, b) \in Nat /\ Held(jobs', j.copy, b) \in Nat
        BY <2>1, <3>1, Zenon DEF HandsInv, Counts, Held, Count, Job
    <3>4. /\ InHands(jobs', j.copy) > Held(jobs', j.copy, "ack")
          /\ InHands(jobs', j.copy) \in Nat
      <4>1. InHands(jobs, j.copy) > Held(jobs, j.copy, "ack")
          BY <3>1 DEF Unsettled
      <4>2. /\ Held(jobs', j.copy, "handle") = Held(jobs, j.copy, "handle")
            /\ Held(jobs', j.copy, "retry") = Held(jobs, j.copy, "retry")
            /\ Held(jobs', j.copy, "nack") = Held(jobs, j.copy, "nack")
          BY <3>2 DEF Ats
      <4>3. /\ Held(jobs, j.copy, "handle") \in Nat /\ Held(jobs, j.copy, "retry") \in Nat
            /\ Held(jobs, j.copy, "nack") \in Nat
            /\ Held(jobs, j.copy, "ack") \in Nat /\ Held(jobs', j.copy, "ack") \in Nat
          BY <3>3, Zenon DEF Ats
      <4> QED
          BY <3>2, <4>1, <4>2, <4>3 DEF InHands
    <3>5. Count(copies', j.copy) = InHands(jobs', j.copy)
        BY <2>1, <3>1 DEF HandsInv, InHands, Held, Count, Job
    <3>6. "ack" \in Ats
        BY Zenon DEF Ats
    <3>7. Count(copies', j.copy) # 0
        BY <3>3, <3>4, <3>5, <3>6
    <3>8. j.copy \in DOMAIN copies'
        BY <3>7, Zenon DEF Count
    <3> QED
        BY <3>4, <3>8 DEF Unsettled
  <2>4. ASSUME NEW m \in sent PROVE Safe(m)'
    <3>1. \A d \in DOMAIN copies : d.msg = m /\ Unsettled(jobs, d) =>
              m \in dead' \/ \E e \in DOMAIN copies' : e.msg = m /\ Unsettled(jobs', e)
        BY <1>1, <1>2, <1>4, <2>2, <2>3
    <3> QED
        BY <1>1, <3>1, SafeStays
  <2> QED
      BY <1>1, <2>1, <2>4 DEF SafeInv
<1>5. CASE ~j.live
  <2>1. HandsInv'
      BY <1>1, <1>3, <1>5, HandsUntouched
  <2>2. ASSUME NEW m \in sent PROVE Safe(m)'
    <3>1. \A d \in DOMAIN copies : d.msg = m /\ Unsettled(jobs, d) =>
              \E e \in DOMAIN copies' : e.msg = m /\ Unsettled(jobs', e)
        BY <1>1, <1>2, <1>5
    <3> QED
        BY <1>1, <1>5, <3>1, SafeStays
  <2> QED
      BY <1>1, <2>1, <2>2 DEF SafeInv
<1> QED
    BY <1>4, <1>5

\* The channel goes: what was delivered is on the queue again, and nobody holds it.
LEMMA GoneSafe ==
    ASSUME OriginInv, OriginInv', HandsInv, SafeInv, ChannelGone, UNCHANGED <<oks, dead, sent>>
    PROVE  HandsInv' /\ SafeInv'
<1> DEFINE Back(c) == IF c.place \in UnackedPlaces THEN [c EXCEPT !.place = "queue"] ELSE c
<1>1. /\ DOMAIN copies' = {Back(c) : c \in DOMAIN copies}
      /\ DOMAIN jobs' = {[j EXCEPT !.live = FALSE] : j \in DOMAIN jobs}
    BY GoneDomain
<1>2. \A c \in Copies : Back(c).msg = c.msg /\ Back(c).place # "taken"
    BY DEF Copies, UnackedPlaces
<1> HIDE DEF Back
<1>3. \A j \in DOMAIN jobs' : j \in Jobs /\ ~j.live
  <2> TAKE j \in DOMAIN jobs'
  <2>1. PICK k \in DOMAIN jobs : j = [k EXCEPT !.live = FALSE]
      BY <1>1
  <2> QED
      BY <2>1 DEF OriginInv, Jobs
<1>4. \A c \in DOMAIN copies' : c.place # "taken"
    BY <1>1, <1>2 DEF OriginInv, Original
<1>5. \A c, at : Held(jobs', c, at) = 0
  <2> TAKE c, at
  <2>1. Job(c, at) \notin DOMAIN jobs'
      BY <1>3, Zenon DEF Job
  <2> QED
      BY <2>1 DEF Held, Count
<1>6. HandsInv'
  <2>1. Counts(jobs)'
      BY <1>3, <1>5 DEF Counts, Held, Count, Job
  <2>2. \A c \in Copies : c.place = "taken" => Count(copies', c) = InHands(jobs', c)
      BY <1>4, <1>5 DEF Count, InHands
  <2> QED
      BY <1>4, <2>1, <2>2 DEF HandsInv, InHands, Held, Count, Job
<1>7. ASSUME NEW m \in sent PROVE Safe(m)'
  <2>1. \A d \in DOMAIN copies : d.msg = m /\ Unsettled(jobs, d) =>
            \E e \in DOMAIN copies' : e.msg = m /\ Unsettled(jobs', e)
      BY <1>1, <1>2 DEF Unsettled, OriginInv, Original
  <2> QED
      BY <2>1, SafeStays
<1> QED
    BY <1>6, <1>7 DEF SafeInv
-----------------------------------------------------------------------------
(* Attempts without faults                                                 *)

\* A bag that is a set.
Ones(B) == \A e \in DOMAIN B : B[e] = 1

\* A new element leaves it a set.
LEMMA OnesWith ==
    ASSUME NEW B, Ones(B), NEW x, x \notin DOMAIN B
    PROVE  Ones(BagWith(B, x)) /\ DOMAIN BagWith(B, x) = DOMAIN B \cup {x}
BY DEF Ones, BagWith

\* So does the end of one, which has gone altogether.
LEMMA OnesWithout ==
    ASSUME NEW B, Ones(B), NEW x \in DOMAIN B
    PROVE  Ones(BagWithout(B, x)) /\ DOMAIN BagWithout(B, x) = DOMAIN B \ {x}
BY DEF Ones, BagWithout

\* The retries that the header of a copy counts.
Level(c) == retryCount(c.retries)

\* Of the copies D, held by the jobs J, one that is not about to be acked.
Open(J, c) == c.place = "taken" => \E j \in J : j.copy = c /\ j.at # "ack"

\* Every job has a copy of its own.
Owned(D, J) ==
    /\ D \subseteq Copies /\ J \subseteq Jobs
    /\ \A j \in J : j.live /\ j.copy \in D
    /\ \A j, k \in J : j.copy = k.copy => j = k

\* Of the copies of a message only the one with the most retries is open.
Latest(D, J) ==
    \A c, d \in D : c.msg = d.msg /\ c # d /\ Open(J, c) => Level(d) < Level(c)

\* While it is, no handler has returned nil for the message,
Unanswered(D, J, o) == \A c \in D : Open(J, c) => o[c.msg] = 0

\* and r, the attempts made, are within the limit, and in the header but for the one
\* that is being retried.
Within(D, J, r) ==
    /\ \A c \in D : c.place \notin {"taken", "stuck"} => r[c.msg] <= RetryLimit /\ r[c.msg] <= Level(c)
    /\ \A j \in J : j.at = "handle" => r[j.copy.msg] <= RetryLimit /\ r[j.copy.msg] <= Level(j.copy)
    /\ \A j \in J : j.at = "retry" => Level(j.copy) < RetryLimit /\ r[j.copy.msg] <= Level(j.copy) + 1

\* What the copies, the jobs and the counts have to do with one another.
Once(D, J, r, o) ==
    /\ r \in [Msgs -> Nat] /\ o \in [Msgs -> Nat]
    /\ Owned(D, J) /\ Latest(D, J) /\ Unanswered(D, J, o) /\ Within(D, J, r)

\* The level of a copy.
LEMMA LevelNat == ASSUME NEW c \in Copies PROVE Level(c) \in Nat /\ c.msg \in Msgs
BY RetryCountNat DEF Level, Copies

\* A copy in another place is the same copy of the same message, and not one that
\* the broker has already.
LEMMA OtherPlace ==
    ASSUME NEW D, NEW J, Owned(D, J), Latest(D, J), NEW c \in D, Open(J, c),
           NEW to \in UnackedPlaces \cup {"queue", "retry"}, to # c.place
    PROVE  LET new == [c EXCEPT !.place = to]
           IN  /\ new \in Copies /\ new.msg = c.msg /\ Level(new) = Level(c) /\ new.place = to
               /\ new \notin D
<1> DEFINE new == [c EXCEPT !.place = to]
<1>1. c \in Copies /\ Level(c) \in Nat
    BY LevelNat DEF Owned
<1>2. new \in Copies /\ new.msg = c.msg /\ new.retries = c.retries /\ new.place = to
    BY <1>1 DEF Copies
<1> HIDE DEF new
<1>3. Level(new) = Level(c)
    BY <1>2 DEF Level
<1>4. new # c
    BY <1>2
<1>5. new \notin D
    BY <1>1, <1>2, <1>3, <1>4 DEF Latest
<1> QED
    BY <1>2, <1>3, <1>5 DEF new

\* An open job is the only one of its copy, which is open.
LEMMA OpenJob ==
    ASSUME NEW D, NEW J, Owned(D, J), NEW j \in J
    PROVE  /\ j.copy \in D /\ j.copy \in Copies /\ j.copy.place = "taken"
           /\ j.at # "ack" => Open(J, j.copy)
           /\ j.at = "ack" => ~Open(J, j.copy)
<1>1. j.copy \in D /\ j.copy \in Copies /\ j.copy.place = "taken"
    BY DEF Owned, Jobs
<1> QED
    BY <1>1 DEF Owned, Open

\* The broker moves a copy that no job holds.
LEMMA OnceMoved ==
    ASSUME NEW D, NEW J, NEW r, NEW o, Once(D, J, r, o), NEW c \in D,
           c.place \notin {"taken", "stuck"}, NEW to \in {"queue", "buffered"}, to # c.place
    PROVE  LET new == [c EXCEPT !.place = to]
           IN  new \notin D /\ Once((D \ {c}) \cup {new}, J, r, o)
<1> DEFINE new == [c EXCEPT !.place = to]
           After == (D \ {c}) \cup {new}
<1>1. Owned(D, J) /\ Latest(D, J) /\ Unanswered(D, J, o) /\ Within(D, J, r)
    BY DEF Once
<1>2. Open(J, c)
    BY DEF Open
<1>3. /\ new \in Copies /\ new.msg = c.msg /\ Level(new) = Level(c) /\ new.place = to
      /\ new \notin D
    BY <1>1, <1>2, OtherPlace, Zenon DEF UnackedPlaces
<1> HIDE DEF new
<1>4. \A j \in J : j.copy # c
    BY <1>1, OpenJob
<1>5. Owned(After, J)
    BY <1>1, <1>3, <1>4 DEF Owned
<1>6. Latest(After, J)
    BY <1>1, <1>2, <1>3, Zenon DEF Latest
<1>7. Unanswered(After, J, o)
    BY <1>1, <1>2, <1>3, Zenon DEF Unanswered
<1>8. Within(After, J, r)
    BY <1>1, <1>3 DEF Within
<1> QED
    BY <1>3, <1>5, <1>6, <1>7, <1>8 DEF Once, new

\* A worker takes one: to its handler, or without one to the dead-letter queue.
LEMMA OnceTaken ==
    ASSUME NEW D, NEW J, NEW r, NEW o, Once(D, J, r, o), NEW c \in D, c.place = "buffered",
           NEW at \in {"handle", "nack"}
    PROVE  LET new == [c EXCEPT !.place = "taken"]
           IN  /\ new \notin D /\ Job(new, at) \notin J
               /\ Once((D \ {c}) \cup {new}, J \cup {Job(new, at)}, r, o)
<1> DEFINE new == [c EXCEPT !.place = "taken"]
           After == (D \ {c}) \cup {new}
           job == Job(new, at)
           With == J \cup {job}
<1>1. Owned(D, J) /\ Latest(D, J) /\ Unanswered(D, J, o) /\ Within(D, J, r)
    BY DEF Once
<1>2. Open(J, c)
    BY DEF Open
<1>3. /\ new \in Copies /\ new.msg = c.msg /\ Level(new) = Level(c) /\ new.place = "taken"
      /\ new \notin D
    BY <1>1, <1>2, OtherPlace, Zenon DEF UnackedPlaces
<1> HIDE DEF new
<1>4. job \in Jobs /\ job.copy = new /\ job.live /\ job.at = at
    BY <1>3, Zenon DEF Jobs, Job
<1> HIDE DEF job
<1>5. \A j \in J : j.copy # c /\ j.copy # new
    BY <1>1, <1>3, OpenJob, Zenon
<1>6. job \notin J
    BY <1>4, <1>5
<1>7. \A d \in D : Open(With, d) => Open(J, d)
    BY <1>3, <1>4, Zenon DEF Open
<1>8. Owned(After, With)
    BY <1>1, <1>3, <1>4, <1>5 DEF Owned
<1>9. Latest(After, With)
  <2> SUFFICES ASSUME NEW d \in After, NEW e \in After, d.msg = e.msg, d # e, Open(With, d)
               PROVE  Level(e) < Level(d)
      BY DEF Latest
  <2>1. CASE d = new
      BY <1>1, <1>2, <1>3, <2>1 DEF Latest
  <2>2. CASE d # new /\ e = new
      BY <1>1, <1>3, <1>7, <2>2 DEF Latest
  <2>3. CASE d # new /\ e # new
      BY <1>1, <1>7, <2>3, Zenon DEF Latest
  <2> QED
      BY <2>1, <2>2, <2>3
<1>10. Unanswered(After, With, o)
    BY <1>1, <1>2, <1>3, <1>7 DEF Unanswered
<1>11. Within(After, With, r)
    BY <1>1, <1>3, <1>4, Zenon DEF Within
<1> QED
    BY <1>3, <1>6, <1>8, <1>9, <1>10, <1>11 DEF Once, new, job

\* A job is done and its copy gone: the ones that stay are as open as they were.
LEMMA OnceSettled ==
    ASSUME NEW D, NEW J, NEW r, NEW o, Once(D, J, r, o), NEW j \in J
    PROVE  Once(D \ {j.copy}, J \ {j}, r, o)
<1>1. Owned(D, J) /\ Latest(D, J) /\ Unanswered(D, J, o) /\ Within(D, J, r)
    BY DEF Once
<1>2. Owned(D \ {j.copy}, J \ {j})
    BY <1>1 DEF Owned
<1>3. \A d : Open(J \ {j}, d) => Open(J, d)
    BY DEF Open
<1>4. Latest(D \ {j.copy}, J \ {j})
    BY <1>1, <1>3, Zenon DEF Latest
<1>5. Unanswered(D \ {j.copy}, J \ {j}, o)
    BY <1>1, <1>3, Zenon DEF Unanswered
<1>6. Within(D \ {j.copy}, J \ {j}, r)
    BY <1>1 DEF Within
<1> QED
    BY <1>2, <1>4, <1>5, <1>6 DEF Once

\* A job gives up, and leaves the copy that it would have republished unacked.
LEMMA OnceStuck ==
    ASSUME NEW D, NEW J, NEW r, NEW o, Once(D, J, r, o), NEW j \in J, j.at = "retry"
    PROVE  LET new == [j.copy EXCEPT !.place = "stuck"]
           IN  new \notin D /\ Once((D \ {j.copy}) \cup {new}, J \ {j}, r, o)
<1> DEFINE new == [j.copy EXCEPT !.place = "stuck"]
           Rest == D \ {j.copy}
           After == Rest \cup {new}
<1>1. Owned(D, J) /\ Latest(D, J) /\ Unanswered(D, J, o)
    BY Zenon DEF Once
<1>2. j.copy \in D /\ j.copy.place = "taken" /\ Open(J, j.copy)
    BY <1>1, OpenJob
<1>3. /\ new \in Copies /\ new.msg = j.copy.msg /\ Level(new) = Level(j.copy) /\ new.place = "stuck"
      /\ new \notin D
    BY <1>1, <1>2, OtherPlace, Zenon DEF UnackedPlaces
<1> HIDE DEF new
<1>4. /\ r \in [Msgs -> Nat] /\ o \in [Msgs -> Nat]
      /\ Owned(Rest, J \ {j}) /\ Latest(Rest, J \ {j}) /\ Unanswered(Rest, J \ {j}, o)
      /\ Within(Rest, J \ {j}, r)
    BY OnceSettled DEF Once
<1>5. \A d : Open(J \ {j}, d) => Open(J, d)
    BY DEF Open
<1>6. Owned(After, J \ {j})
  <2>1. /\ Rest \subseteq Copies /\ J \ {j} \subseteq Jobs
        /\ \A k \in J \ {j} : k.live /\ k.copy \in Rest
        /\ \A k, l \in J \ {j} : k.copy = l.copy => k = l
      BY <1>4 DEF Owned
  <2>2. After \subseteq Copies
      BY <1>3, <2>1
  <2> QED
      BY <2>1, <2>2, Zenon DEF Owned
<1>7. Latest(After, J \ {j})
  <2> SUFFICES ASSUME NEW d \in After, NEW e \in After, d.msg = e.msg, d # e, Open(J \ {j}, d)
               PROVE  Level(e) < Level(d)
      BY Zenon DEF Latest
  <2>1. CASE d = new
      BY <1>1, <1>2, <1>3, <2>1, Zenon DEF Latest
  <2>2. CASE d # new /\ e = new
      BY <1>1, <1>2, <1>3, <1>5, <2>2 DEF Latest
  <2>3. CASE d # new /\ e # new
      BY <1>4, <2>3, Zenon DEF Latest
  <2> QED
      BY <2>1, <2>2, <2>3
<1>8. Unanswered(After, J \ {j}, o)
    BY <1>1, <1>2, <1>3, <1>4 DEF Unanswered
<1>9. Within(After, J \ {j}, r)
    BY <1>3, <1>4, Zenon DEF Within
<1> QED
    BY <1>3, <1>4, <1>6, <1>7, <1>8, <1>9 DEF Once, new

\* The jobs when j moves on.
MovedOn(J, j, to, next, After) == next = [j EXCEPT !.at = to] /\ After = (J \ {j}) \cup {next}

\* A job moves on.  Its copy is open or not as the job is, and the others stay as they
\* were.
LEMMA OpenMoved ==
    ASSUME NEW D, NEW J, Owned(D, J), NEW j \in J, NEW to \in Ats,
           NEW next, NEW After, MovedOn(J, j, to, next, After)
    PROVE  /\ next.copy = j.copy /\ next.at = to
           /\ next \notin J \ {j}
           /\ Owned(D, After)
           /\ \A d \in D : d # j.copy => (Open(After, d) <=> Open(J, d))
           /\ to = "ack" => ~Open(After, j.copy)
<1>1. j \in Jobs /\ j.live
    BY DEF Owned
<1>2. next \in Jobs /\ next.copy = j.copy /\ next.at = to /\ next.live
    BY <1>1 DEF MovedOn, Jobs, Ats
<1> After = (J \ {j}) \cup {next}
    BY DEF MovedOn
<1>3. \A k \in J : k.copy = j.copy => k = j
    BY DEF Owned
<1>4. Owned(D, After)
  <2>1. \A k \in After : k \in Jobs /\ k.live /\ k.copy \in D
      BY <1>2 DEF Owned
  <2>2. \A k \in J \ {j} : k.copy # next.copy
      BY <1>2, <1>3
  <2>3. \A k, l \in After : k.copy = l.copy => k = l
      BY <2>2 DEF Owned
  <2> QED
      BY <2>1, <2>3 DEF Owned
<1>5. \A d \in D : d # j.copy => (Open(After, d) <=> Open(J, d))
    BY <1>2 DEF Open
<1>6. j.copy.place = "taken"
    BY <1>1 DEF Jobs
<1>7. to = "ack" => ~Open(After, j.copy)
    BY <1>2, <1>3, <1>6 DEF Open
<1>8. next \notin J \ {j}
    BY <1>2, <1>3
<1> QED
    BY <1>2, <1>4, <1>5, <1>7, <1>8

\* A job republishes: the new copy is the open one, with one retry more than any.
LEMMA OnceRepublished ==
    ASSUME NEW D, NEW J, NEW r, NEW o, Once(D, J, r, o), NEW j \in J, j.at = "retry",
           Original(j.copy)
    PROVE  LET next == [j EXCEPT !.at = "ack"]
           IN  /\ Republished(j.copy) \notin D /\ next \notin J \ {j}
               /\ Once(D \cup {Republished(j.copy)}, (J \ {j}) \cup {next}, r, o)
<1> DEFINE c == j.copy
           new == Republished(c)
           With == D \cup {new}
           next == [j EXCEPT !.at = "ack"]
           After == (J \ {j}) \cup {next}
<1>1. Owned(D, J) /\ Latest(D, J) /\ Unanswered(D, J, o) /\ Within(D, J, r)
    BY Zenon DEF Once
<1>2. c \in D /\ c \in Copies /\ Open(J, c) /\ Level(c) \in Nat
    BY <1>1, OpenJob, LevelNat
<1>3. new \in Copies /\ new.msg = c.msg /\ Level(new) = Level(c) + 1 /\ new.place = "retry"
  <2>1. Original(new)
      BY RepublishedOriginal
  <2> QED
      BY <2>1, Zenon DEF Original, Republished, Level, retryCount
<1>4. /\ next.copy = c /\ next.at = "ack" /\ next \notin J \ {j}
      /\ Owned(D, After)
      /\ \A d \in D : d # c => (Open(After, d) <=> Open(J, d))
      /\ ~Open(After, c)
  <2>1. "ack" \in Ats /\ MovedOn(J, j, "ack", next, After)
      BY DEF Ats, MovedOn
  <2> HIDE DEF next, After
  <2> QED
      BY <1>1, <2>1, OpenMoved
<1> HIDE DEF new, next, After
<1>5. \A d \in D : d.msg = c.msg => Level(d) <= Level(c) /\ Level(d) \in Nat
    BY <1>1, <1>2, LevelNat DEF Latest, Owned
<1>6. new \notin D
    BY <1>2, <1>3, <1>5
<1>7. \A d \in D : Open(After, d) => Open(J, d) /\ d.msg # c.msg
  <2> TAKE d \in D
  <2> HAVE Open(After, d)
  <2>1. d # c /\ Open(J, d)
      BY <1>4, Zenon
  <2>2. d.msg = c.msg => Level(d) < Level(c) /\ Level(c) < Level(d)
      BY <1>1, <1>2, <2>1 DEF Latest
  <2>3. Level(d) \in Nat
      BY <1>1, LevelNat, Zenon DEF Owned
  <2> QED
      BY <1>2, <2>1, <2>2, <2>3
<1>8. Owned(With, After)
    BY <1>3, <1>4 DEF Owned
<1>9. Latest(With, After)
  <2> SUFFICES ASSUME NEW d \in With, NEW e \in With, d.msg = e.msg, d # e, Open(After, d)
               PROVE  Level(e) < Level(d)
      BY Zenon DEF Latest
  <2>1. CASE d = new
      BY <1>2, <1>3, <1>5, <2>1
  <2>2. CASE d \in D
      BY <1>1, <1>3, <1>7, <2>2, Zenon DEF Latest
  <2> QED
      BY <2>1, <2>2
<1>10. Unanswered(With, After, o)
    BY <1>1, <1>2, <1>3, <1>7 DEF Unanswered
<1>11. Within(With, After, r)
  <2>1. r[c.msg] <= Level(c) + 1 /\ Level(c) < RetryLimit /\ r[c.msg] \in Nat
      BY <1>1, <1>2, LevelNat, Zenon DEF Within, Once
  <2>2. r[new.msg] <= RetryLimit /\ r[new.msg] <= Level(new)
      BY <1>2, <1>3, <2>1, ConsumerAssumption
  <2>3. \A k \in After : k \in J \/ k.at = "ack"
      BY <1>4, Zenon DEF After
  <2> QED
      BY <1>1, <2>2, <2>3, Zenon DEF Within
<1> QED
    BY <1>4, <1>6, <1>8, <1>9, <1>10, <1>11 DEF Once, new, next, After

\* The answer of a handler to j, which goes on as next, and what it counts.
Answered(j, to, next, r, r2, o, o2) ==
    /\ to \in {"ack", "retry", "nack"} /\ (to = "retry" => ~Exhausted(j.copy))
    /\ next = [j EXCEPT !.at = to]
    /\ r2 = [r EXCEPT ![j.copy.msg] = Counted(@, RetryLimit + 2)]
    /\ \/ to = "ack" /\ o2 = [o EXCEPT ![j.copy.msg] = Counted(@, 2)]
       \/ to # "ack" /\ o2 = o

AnswerCounted(D, J, j, next, r, r2, o, o2) ==
    /\ next \notin J \ {j}
    /\ Once(D, (J \ {j}) \cup {next}, r2, o2)
    /\ r2[j.copy.msg] <= RetryLimit + 1 /\ o2[j.copy.msg] <= 1
    /\ \A m \in Msgs : m # j.copy.msg => r2[m] = r[m] /\ o2[m] = o[m]

\* A handler returns.  The copy it was called for is the open one of its message, so
\* that no other has to do with the attempt.
LEMMA OnceHandled ==
    ASSUME NEW D, NEW J, NEW r, NEW o, Once(D, J, r, o), NEW j \in J, j.at = "handle",
           NEW to, NEW next, NEW r2, NEW o2, Answered(j, to, next, r, r2, o, o2)
    PROVE  AnswerCounted(D, J, j, next, r, r2, o, o2)
<1> DEFINE c == j.copy
           After == (J \ {j}) \cup {next}
<1>1. /\ r \in [Msgs -> Nat] /\ o \in [Msgs -> Nat]
      /\ Owned(D, J) /\ Latest(D, J) /\ Unanswered(D, J, o) /\ Within(D, J, r)
    BY DEF Once
<1>2. /\ c \in D /\ c \in Copies /\ c.place = "taken" /\ Open(J, c)
      /\ Level(c) \in Nat /\ c.msg \in Msgs
    BY <1>1, OpenJob, LevelNat, Zenon
<1>3. /\ next.copy = c /\ next.at = to /\ next \notin J \ {j}
      /\ Owned(D, After)
      /\ \A d \in D : d # c => (Open(After, d) <=> Open(J, d))
      /\ to = "ack" => ~Open(After, c)
  <2>1. to \in Ats /\ MovedOn(J, j, to, next, After)
      BY DEF Ats, MovedOn, Answered
  <2> HIDE DEF After
  <2> QED
      BY <1>1, <2>1, OpenMoved
<1> HIDE DEF After
<1>4. r[c.msg] <= RetryLimit /\ r[c.msg] <= Level(c) /\ o[c.msg] = 0
    BY <1>1, <1>2, Zenon DEF Within, Unanswered
<1>5. /\ r2 \in [Msgs -> Nat] /\ r2[c.msg] = r[c.msg] + 1
      /\ \A m \in Msgs : m # c.msg => r2[m] = r[m]
    BY <1>1, <1>2, <1>4, ConsumerAssumption DEF Counted, Answered
<1>6. r2[c.msg] <= Level(c) + 1 /\ r2[c.msg] <= RetryLimit + 1
  <2>1. r[c.msg] \in Nat /\ RetryLimit \in Nat
      BY <1>1, <1>2, ConsumerAssumption, Zenon
  <2> HIDE DEF c
  <2> QED
      BY <1>2, <1>4, <1>5, <2>1, OneMore, Zenon
<1>7. /\ o2 \in [Msgs -> Nat] /\ o2[c.msg] <= 1 /\ (to # "ack" => o2 = o)
      /\ \A m \in Msgs : m # c.msg => o2[m] = o[m]
    BY <1>1, <1>2, <1>4 DEF Counted, Answered
<1>8. \A d \in D : d.msg = c.msg /\ d # c => ~Open(J, d)
  <2> SUFFICES ASSUME NEW d \in D, d.msg = c.msg, d # c, Open(J, d) PROVE FALSE
      OBVIOUS
  <2>1. Level(d) < Level(c) /\ Level(c) < Level(d)
      BY <1>1, <1>2, Zenon DEF Latest
  <2>2. Level(d) \in Nat /\ Level(c) \in Nat
      BY <1>1, <1>2, LevelNat, Zenon DEF Owned
  <2> HIDE DEF c
  <2> QED
      BY <2>1, <2>2
<1>9. Latest(D, After)
  <2>1. \A d \in D : Open(After, d) => Open(J, d)
      BY <1>2, <1>3, Zenon
  <2> QED
      BY <1>1, <2>1, Zenon DEF Latest
<1>10. Unanswered(D, After, o2)
  <2> SUFFICES ASSUME NEW d \in D, Open(After, d) PROVE o2[d.msg] = 0
      BY Zenon DEF Unanswered
  <2>1. CASE d = c
      BY <1>3, <1>4, <1>7, <2>1
  <2>2. CASE d # c
    <3>1. Open(J, d) /\ d.msg # c.msg /\ d.msg \in Msgs
        BY <1>1, <1>3, <1>8, <2>2, LevelNat, Zenon DEF Owned
    <3> QED
        BY <1>1, <1>7, <3>1, Zenon DEF Unanswered
  <2> QED
      BY <2>1, <2>2, Zenon
<1>11. Within(D, After, r2)
  <2>1. ASSUME NEW d \in D, d.place \notin {"taken", "stuck"}
        PROVE  r2[d.msg] <= RetryLimit /\ r2[d.msg] <= Level(d)
    <3>1. Open(J, d) /\ d # c
        BY <1>2, <2>1, Zenon DEF Open
    <3>2. d.msg # c.msg /\ d.msg \in Msgs
        BY <1>1, <1>8, <3>1, LevelNat, Zenon DEF Owned
    <3> QED
        BY <1>1, <1>5, <2>1, <3>2, Zenon DEF Within
  <2>2. ASSUME NEW k \in J, k # j, k.at # "ack" PROVE r2[k.copy.msg] = r[k.copy.msg]
    <3>1. k.copy \in D /\ Open(J, k.copy) /\ k.copy # c /\ k.copy.msg \in Msgs
        BY <1>1, <2>2, OpenJob, LevelNat, Zenon DEF Owned
    <3> QED
        BY <1>5, <1>8, <3>1
  <2>3. to = "retry" => Level(c) < RetryLimit
      BY <1>2, ConsumerAssumption DEF Exhausted, Level, Answered
  <2>4. ASSUME NEW k \in After
        PROVE  /\ k.at = "handle" => r2[k.copy.msg] <= RetryLimit /\ r2[k.copy.msg] <= Level(k.copy)
               /\ k.at = "retry" => Level(k.copy) < RetryLimit /\ r2[k.copy.msg] <= Level(k.copy) + 1
    <3>1. CASE k = next
      <4>2. k.copy = c /\ k.at # "handle" /\ (k.at = "retry" => to = "retry")
          BY <1>3, <3>1 DEF Answered
      <4> QED
          BY <1>6, <2>3, <4>2
    <3>2. CASE k \in J /\ k # j
        BY <1>1, <2>2, <3>2, Zenon DEF Within
    <3> QED
        BY <3>1, <3>2, Zenon DEF After
  <2> QED
      BY <2>1, <2>4, Zenon DEF Within
<1> QED
    BY <1>3, <1>5, <1>7, <1>9, <1>10, <1>11, <1>6 DEF Once, After, AnswerCounted

\* A set with y in the place of x.
Swapped(B, x, y, After) == Ones(After) /\ DOMAIN After = (DOMAIN B \ {x}) \cup {y}

\* One element in the place of another.
LEMMA OnesSwap ==
    ASSUME NEW B, Ones(B), NEW x, x \in DOMAIN B, NEW y, y \notin DOMAIN B \ {x}
    PROVE  Swapped(B, x, y, BagWith(BagWithout(B, x), y))
<1> DEFINE Rest == BagWithout(B, x)
<1>1. Ones(Rest) /\ DOMAIN Rest = DOMAIN B \ {x}
    BY OnesWithout
<1> HIDE DEF Rest
<1>2. Ones(BagWith(Rest, y)) /\ DOMAIN BagWith(Rest, y) = DOMAIN Rest \cup {y}
    BY <1>1, OnesWith, Zenon
<1> QED
    BY <1>1, <1>2 DEF Rest, Swapped

OnceInv == Ones(copies) /\ Ones(jobs) /\ Once(DOMAIN copies, DOMAIN jobs, runs, oks)

Faultless == faults = 0 /\ ~timedOut

\* While nothing has failed every message has one open copy, and Close returned only
\* when the loop had ended.
FewInv ==
    /\ faults \in Nat
    /\ timedOut => closing = "closed"
    /\ Faultless => \A m \in Msgs : runs[m] <= RetryLimit + 1 /\ oks[m] <= 1
    /\ Faultless /\ closing = "closed" => loop = "ended"
    /\ Faultless /\ closing # "closed" => OnceInv

\* The next state has it when the next values have.
LEMMA OnceNext ==
    ASSUME Ones(copies'), Ones(jobs'), Once(DOMAIN copies', DOMAIN jobs', runs', oks')
    PROVE  OnceInv'
BY Zenon DEF OnceInv, Ones, Once, Owned, Latest, Unanswered, Within, Open, Level, retryCount, Copies,
       Jobs, UnackedPlaces, RetryHeaders, Absent, Exchanges

\* The broker moves a copy.
LEMMA BrokerOnce ==
    ASSUME OnceInv, NEW c \in DOMAIN copies, Deliver(c) \/ RetryExpires(c)
    PROVE  OnceInv'
<1> DEFINE D == DOMAIN copies
<1>1. PICK to \in {"queue", "buffered"} :
          copies' = Moved(copies, c, to) /\ to # c.place /\ c.place \notin {"taken", "stuck"}
    BY DEF Deliver, RetryExpires
<1>2. UNCHANGED <<jobs, runs, oks>>
    BY DEF Deliver, RetryExpires, past
<1> DEFINE new == [c EXCEPT !.place = to]
<1>3. copies' = BagWith(BagWithout(copies, c), new)
    BY <1>1 DEF Moved
<1>4. new \notin D /\ Once((D \ {c}) \cup {new}, DOMAIN jobs, runs, oks)
    BY <1>1, OnceMoved, Zenon DEF OnceInv
<1> HIDE DEF new
<1>5. Ones(copies') /\ DOMAIN copies' = (D \ {c}) \cup {new}
  <2>1. Ones(copies) /\ new \notin DOMAIN copies \ {c}
      BY <1>4 DEF OnceInv
  <2>2. Swapped(copies, c, new, BagWith(BagWithout(copies, c), new))
      BY <2>1, OnesSwap
  <2> QED
      BY <1>3, <2>2 DEF Swapped
<1>6. Ones(jobs')
    BY <1>2, Zenon DEF OnceInv
<1>7. Once(DOMAIN copies', DOMAIN jobs', runs', oks')
    BY <1>2, <1>4, <1>5
<1> QED
    BY <1>5, <1>6, <1>7, OnceNext, Zenon

\* A worker takes one.
LEMMA TakeOnce ==
    ASSUME OnceInv, NEW c \in DOMAIN copies, Take(c)
    PROVE  OnceInv'
<1> DEFINE D == DOMAIN copies
           J == DOMAIN jobs
           at == IF HandlerOf(c) = NoHandler THEN "nack" ELSE "handle"
           new == [c EXCEPT !.place = "taken"]
<1>1. /\ c.place = "buffered" /\ copies' = BagWith(BagWithout(copies, c), new)
      /\ jobs' = BagWith(jobs, Job(new, at))
    BY DEF Take, Moved, Job
<1>2. UNCHANGED <<runs, oks>>
    BY DEF Take, past
<1>3. at \in {"handle", "nack"}
    OBVIOUS
<1> HIDE DEF at
<1>4. /\ new \notin D /\ Job(new, at) \notin J
      /\ Once((D \ {c}) \cup {new}, J \cup {Job(new, at)}, runs, oks)
    BY <1>1, <1>3, OnceTaken, Zenon DEF OnceInv
<1> HIDE DEF new
<1>5. Ones(copies') /\ DOMAIN copies' = (D \ {c}) \cup {new}
  <2>1. Ones(copies) /\ new \notin DOMAIN copies \ {c}
      BY <1>4 DEF OnceInv
  <2>2. Swapped(copies, c, new, BagWith(BagWithout(copies, c), new))
      BY <2>1, OnesSwap, Zenon
  <2> QED
      BY <1>1, <2>2 DEF Swapped
<1>6. Ones(jobs') /\ DOMAIN jobs' = J \cup {Job(new, at)}
    BY <1>1, <1>4, OnesWith, Zenon DEF OnceInv
<1>7. Once(DOMAIN copies', DOMAIN jobs', runs', oks')
    BY <1>2, <1>4, <1>5, <1>6, Zenon
<1> QED
    BY <1>5, <1>6, <1>7, OnceNext, Zenon

\* A handler returns.
LEMMA HandleOnce ==
    ASSUME OnceInv, NEW j \in DOMAIN jobs, Handle(j)
    PROVE  /\ OnceInv'
           /\ runs'[j.copy.msg] <= RetryLimit + 1 /\ oks'[j.copy.msg] <= 1
           /\ \A m \in Msgs : m # j.copy.msg => runs'[m] = runs[m] /\ oks'[m] = oks[m]
<1> DEFINE D == DOMAIN copies
           J == DOMAIN jobs
<1>1. PICK to \in {"ack", "retry", "nack"} :
          /\ Moves(j, to)
          /\ to = "retry" => ~Exhausted(j.copy)
          /\ \/ to = "ack" /\ oks' = [oks EXCEPT ![j.copy.msg] = Counted(@, 2)]
             \/ to # "ack" /\ oks' = oks
    BY Zenon DEF Handle
<1>2. /\ j.at = "handle" /\ copies' = copies
      /\ runs' = [runs EXCEPT ![j.copy.msg] = Counted(@, RetryLimit + 2)]
    BY Zenon DEF Handle, broker
<1> DEFINE next == [j EXCEPT !.at = to]
<1>3. jobs' = BagWith(BagWithout(jobs, j), next)
    BY <1>1 DEF Moves
<1>4. /\ next \notin J \ {j}
      /\ Once(D, (J \ {j}) \cup {next}, runs', oks')
      /\ runs'[j.copy.msg] <= RetryLimit + 1 /\ oks'[j.copy.msg] <= 1
      /\ \A m \in Msgs : m # j.copy.msg => runs'[m] = runs[m] /\ oks'[m] = oks[m]
  <2>1. Once(D, J, runs, oks) /\ j \in J /\ j.at = "handle"
      BY <1>2 DEF OnceInv
  <2>2. Answered(j, to, next, runs, runs', oks, oks')
      BY <1>1, <1>2 DEF Answered
  <2> HIDE DEF D, J, next
  <2>3. AnswerCounted(D, J, j, next, runs, runs', oks, oks')
      BY <2>1, <2>2, OnceHandled, Zenon
  <2> QED
      BY <2>3, Zenon DEF AnswerCounted
<1> HIDE DEF next
<1>5. Ones(jobs') /\ DOMAIN jobs' = (J \ {j}) \cup {next}
  <2>1. Ones(jobs) /\ next \notin DOMAIN jobs \ {j}
      BY <1>4 DEF OnceInv
  <2>2. Swapped(jobs, j, next, BagWith(BagWithout(jobs, j), next))
      BY <2>1, OnesSwap, Zenon
  <2> QED
      BY <1>3, <2>2, Zenon DEF Swapped
<1>6. Ones(copies')
    BY <1>2, Zenon DEF OnceInv
<1>7. Once(DOMAIN copies', DOMAIN jobs', runs', oks')
    BY <1>2, <1>4, <1>5, Zenon
<1> QED
    BY <1>4, <1>5, <1>6, <1>7, OnceNext

\* A job republishes.
LEMMA RepublishOnce ==
    ASSUME OriginInv, OnceInv, NEW j \in DOMAIN jobs, Republishes(j)
    PROVE  OnceInv'
<1> DEFINE D == DOMAIN copies
           J == DOMAIN jobs
           next == [j EXCEPT !.at = "ack"]
           new == Republished(j.copy)
<1>1. /\ j.at = "retry" /\ copies' = BagWith(copies, new)
      /\ jobs' = BagWith(BagWithout(jobs, j), next)
    BY DEF Republishes, Moves
<1>2. UNCHANGED <<runs, oks>>
    BY DEF Republishes, past
<1>3. /\ new \notin D /\ next \notin J \ {j}
      /\ Once(D \cup {new}, (J \ {j}) \cup {next}, runs, oks)
    BY <1>1, OnceRepublished, Zenon DEF OnceInv, OriginInv
<1> HIDE DEF new, next
<1>4. Ones(copies') /\ DOMAIN copies' = D \cup {new}
    BY <1>1, <1>3, OnesWith, Zenon DEF OnceInv
<1>5. Ones(jobs') /\ DOMAIN jobs' = (J \ {j}) \cup {next}
  <2>1. Ones(jobs) /\ next \notin DOMAIN jobs \ {j}
      BY <1>3 DEF OnceInv
  <2>2. Swapped(jobs, j, next, BagWith(BagWithout(jobs, j), next))
      BY <2>1, OnesSwap
  <2> QED
      BY <1>1, <2>2 DEF Swapped
<1>6. Once(DOMAIN copies', DOMAIN jobs', runs', oks')
    BY <1>2, <1>3, <1>4, <1>5, Zenon
<1> QED
    BY <1>4, <1>5, <1>6, OnceNext

\* A republish fails, there being no connection.
LEMMA RepublishFailsOnce ==
    ASSUME OnceInv, NEW j \in DOMAIN jobs, RepublishFails(j), faults \in Nat, faults' = 0
    PROVE  OnceInv'
<1> DEFINE D == DOMAIN copies
           J == DOMAIN jobs
           new == [j.copy EXCEPT !.place = "stuck"]
<1>1. j.live /\ j.copy \in D
    BY DEF OnceInv, Once, Owned
<1>2. /\ j.at = "retry" /\ copies' = BagWith(BagWithout(copies, j.copy), new)
      /\ jobs' = BagWithout(jobs, j)
    BY <1>1 DEF RepublishFails, Done, Moved
<1>3. UNCHANGED <<runs, oks>>
    BY DEF RepublishFails
<1>4. new \notin D /\ Once((D \ {j.copy}) \cup {new}, J \ {j}, runs, oks)
    BY <1>2, OnceStuck, Zenon DEF OnceInv
<1> HIDE DEF new
<1>5. Ones(copies') /\ DOMAIN copies' = (D \ {j.copy}) \cup {new}
  <2> DEFINE c == j.copy
  <2>1. Ones(copies) /\ c \in DOMAIN copies /\ new \notin DOMAIN copies \ {c}
      BY <1>1, <1>4 DEF OnceInv
  <2>2. copies' = BagWith(BagWithout(copies, c), new)
      BY <1>2
  <2> HIDE DEF c
  <2>3. Swapped(copies, c, new, BagWith(BagWithout(copies, c), new))
      BY <2>1, OnesSwap, Zenon
  <2> QED
      BY <2>2, <2>3, Zenon DEF c, Swapped
<1>6. Ones(jobs') /\ DOMAIN jobs' = J \ {j}
    BY <1>2, OnesWithout DEF OnceInv
<1>7. Once(DOMAIN copies', DOMAIN jobs', runs', oks')
    BY <1>3, <1>4, <1>5, <1>6, Zenon
<1> QED
    BY <1>5, <1>6, <1>7, OnceNext

\* A delivery is settled.
LEMMA SettleOnce ==
    ASSUME OnceInv, NEW j \in DOMAIN jobs, Settle(j)
    PROVE  OnceInv'
<1> DEFINE D == DOMAIN copies
           J == DOMAIN jobs
<1>1. j.live /\ j.copy \in D
    BY DEF OnceInv, Once, Owned
<1>2. copies' = BagWithout(copies, j.copy) /\ jobs' = BagWithout(jobs, j)
    BY <1>1, Zenon DEF Settle, Done
<1>3. UNCHANGED <<runs, oks>>
    BY Zenon DEF Settle, past
<1>4. Once(D \ {j.copy}, J \ {j}, runs, oks)
    BY OnceSettled, Zenon DEF OnceInv
<1>5. Ones(copies') /\ DOMAIN copies' = D \ {j.copy}
    BY <1>1, <1>2, OnesWithout, Zenon DEF OnceInv
<1>6. Ones(jobs') /\ DOMAIN jobs' = J \ {j}
    BY <1>2, OnesWithout DEF OnceInv
<1>7. Once(DOMAIN copies', DOMAIN jobs', runs', oks')
    BY <1>3, <1>4, <1>5, <1>6, Zenon
<1> QED
    BY <1>5, <1>6, <1>7, OnceNext, Zenon

\* Faults are only added.
LEMMA FaultsGrow == ASSUME [Next]_vars PROVE faults' = faults \/ faults' = faults + 1
<1>1. UNCHANGED faults \/ Drop \/ \E j \in DOMAIN jobs : RepublishFails(j)
    BY Zenon DEF Next, SystemStep, BrokerStep, Deliver, RetryExpires, Take, JobStep, Republishes,
           Settle, WorkerLeaves, LoopStep, LoopChecks, LoopConsumes,
           LoopReturns, HookStep, HookStarts, HookCancels, Reconnect, CloseStep,
           CloseCancels, CloseEnds, Handle, ContextEnds, CloseBegins, past, vars
<1> QED
    BY <1>1 DEF Drop, RepublishFails

\* What was without fault after a step was so before it.
LEMMA FaultlessBefore ==
    ASSUME FewInv, [Next]_vars, Faultless' PROVE Faultless /\ (closing' # "closed" => closing # "closed")
<1>1. faults = 0
    BY FaultsGrow DEF FewInv, Faultless
<1>2. UNCHANGED <<closing, timedOut>> \/ (CloseEnds \/ CloseCancels \/ CloseBegins)
    BY Zenon DEF Next, SystemStep, BrokerStep, Deliver, RetryExpires, Take, JobStep, Republishes,
           RepublishFails, Settle, WorkerLeaves, LoopStep, LoopChecks, LoopConsumes,
           LoopReturns, HookStep, HookStarts, HookCancels, Reconnect, CloseStep,
           Handle, Drop, ContextEnds, past, ending, vars
<1>3. CASE UNCHANGED <<closing, timedOut>>
    BY <1>1, <1>3, Zenon DEF Faultless
<1>4. CASE CloseEnds \/ CloseCancels \/ CloseBegins
    BY <1>1, <1>4 DEF Faultless, FewInv, CloseEnds, CloseCancels, CloseBegins
<1> QED
    BY <1>2, <1>3, <1>4

\* Every step of a run without faults keeps to one open copy of a message.
LEMMA FewStep ==
    PoolInv /\ OriginInv /\ FewInv /\ [Next]_vars => FewInv'
<1> SUFFICES ASSUME PoolInv, OriginInv, FewInv, [Next]_vars PROVE FewInv'
    OBVIOUS
<1>1. faults' \in Nat
    BY FaultsGrow DEF FewInv
<1>2. (timedOut => closing = "closed")'
    BY Zenon DEF FewInv, Next, SystemStep, BrokerStep, Deliver, RetryExpires, Take, JobStep, Republishes,
           RepublishFails, Settle, WorkerLeaves, LoopStep, LoopChecks, LoopConsumes,
           LoopReturns, HookStep, HookStarts, HookCancels, Reconnect, CloseStep,
           CloseCancels, CloseEnds, Handle, Drop, ContextEnds, CloseBegins, past, ending, vars
<1>3. (Faultless /\ closing = "closed" => loop = "ended")'
  <2> SUFFICES ASSUME Faultless', closing' = "closed" PROVE loop' = "ended"
      BY DEF Faultless
  <2>1. Faultless
      BY FaultlessBefore
  <2>2. CASE CloseEnds
      BY <2>2, Zenon DEF CloseEnds, Faultless, loops
  <2>3. CASE closing = "closed"
    <3>1. loop = "ended"
        BY <2>1, <2>3 DEF FewInv
    <3> QED
        BY <3>1, Zenon DEF Next, SystemStep, BrokerStep, Deliver, RetryExpires, Take, JobStep, Republishes,
           RepublishFails, Settle, WorkerLeaves, LoopStep, LoopChecks, LoopConsumes,
           LoopReturns, HookStep, HookStarts, HookCancels, Reconnect, CloseStep,
           CloseCancels, CloseEnds, Handle, Drop, ContextEnds, CloseBegins, loops, vars
  <2>4. CloseEnds \/ closing = "closed"
      BY Zenon DEF Next, SystemStep, BrokerStep, Deliver, RetryExpires, Take, JobStep, Republishes,
           RepublishFails, Settle, WorkerLeaves, LoopStep, LoopChecks, LoopConsumes,
           LoopReturns, HookStep, HookStarts, HookCancels, Reconnect, CloseStep,
           CloseCancels, Handle, Drop, ContextEnds, CloseBegins, ending, vars
  <2> QED
      BY <2>2, <2>3, <2>4
<1>4. ASSUME Faultless', NEW j \in DOMAIN jobs, Handle(j)
      PROVE  OnceInv' /\ \A m \in Msgs : runs'[m] <= RetryLimit + 1 /\ oks'[m] <= 1
  <2>1. Faultless
      BY <1>4, FaultlessBefore
  <2>2. closing # "closed"
    <3>1. loop = "run"
        BY DEF PoolInv, EmptyBag, SetToBag
    <3> QED
        BY <2>1, <3>1 DEF FewInv
  <2>3. OnceInv /\ \A m \in Msgs : runs[m] <= RetryLimit + 1 /\ oks[m] <= 1
      BY <2>1, <2>2, Zenon DEF FewInv
  <2>4. /\ OnceInv'
        /\ runs'[j.copy.msg] <= RetryLimit + 1 /\ oks'[j.copy.msg] <= 1
        /\ \A m \in Msgs : m # j.copy.msg => runs'[m] = runs[m] /\ oks'[m] = oks[m]
      BY <1>4, <2>3, HandleOnce, Zenon
  <2>5. ASSUME NEW m \in Msgs PROVE runs'[m] <= RetryLimit + 1 /\ oks'[m] <= 1
      BY <2>3, <2>4
  <2> QED
      BY <2>4, <2>5
<1>5. (\E j \in DOMAIN jobs : Handle(j)) \/ UNCHANGED <<runs, oks>>
    BY Zenon DEF Next, SystemStep, BrokerStep, Deliver, RetryExpires, Take, JobStep, Republishes,
           RepublishFails, Settle, WorkerLeaves, LoopStep, LoopChecks, LoopConsumes,
           LoopReturns, HookStep, HookStarts, HookCancels, Reconnect, CloseStep,
           CloseCancels, CloseEnds, Drop, ContextEnds, CloseBegins, past, vars
<1>6. (Faultless => \A m \in Msgs : runs[m] <= RetryLimit + 1 /\ oks[m] <= 1)'
  <2>1. ASSUME Faultless', UNCHANGED <<runs, oks>>
        PROVE  \A m \in Msgs : runs'[m] <= RetryLimit + 1 /\ oks'[m] <= 1
    <3>1. Faultless
        BY <2>1, FaultlessBefore
    <3> QED
        BY <2>1, <3>1 DEF FewInv
  <2>2. Faultless' => \A m \in Msgs : runs'[m] <= RetryLimit + 1 /\ oks'[m] <= 1
      BY <1>4, <1>5, <2>1, Zenon
  <2> QED
      BY <2>2
<1>7. (Faultless /\ closing # "closed" => OnceInv)'
  <2> SUFFICES ASSUME Faultless', closing' # "closed" PROVE OnceInv'
      BY DEF Faultless
  <2>1. faults \in Nat /\ faults' = 0 /\ OnceInv
      BY FaultlessBefore DEF FewInv, Faultless
  <2>2. ~Drop /\ ~CloseEnds
      BY <2>1 DEF Drop, CloseEnds
  <2>3. CASE UNCHANGED <<copies, jobs, runs, oks>>
    <3>1. Ones(copies') /\ Ones(jobs') /\ Once(DOMAIN copies', DOMAIN jobs', runs', oks')
        BY <2>1, <2>3 DEF OnceInv
    <3> QED
        BY <3>1, OnceNext
  <2>4. ASSUME NEW j \in DOMAIN jobs, RepublishFails(j) PROVE OnceInv'
      BY <2>1, <2>4, RepublishFailsOnce
  <2>5. ASSUME NEW c \in DOMAIN copies, Deliver(c) \/ RetryExpires(c) \/ Take(c) PROVE OnceInv'
      BY <2>1, <2>5, BrokerOnce, TakeOnce
  <2>6. ASSUME NEW j \in DOMAIN jobs, Republishes(j) \/ Settle(j) \/ Handle(j) PROVE OnceInv'
      BY <2>1, <2>6, RepublishOnce, SettleOnce, HandleOnce
  <2> QED
      BY <2>2, <2>3, <2>4, <2>5, <2>6
      DEF Next, SystemStep, BrokerStep, JobStep, LoopStep, LoopChecks, LoopConsumes,
          LoopReturns, WorkerLeaves, HookStep, HookStarts, HookCancels, Reconnect, broker, past,
          CloseStep, CloseCancels, ContextEnds, CloseBegins, vars
<1> QED
    BY <1>1, <1>2, <1>3, <1>6, <1>7 DEF FewInv

\* At the start every message is on the queue once.
LEMMA FewInit == Init => FewInv
<1> SUFFICES ASSUME Init PROVE FewInv
    OBVIOUS
<1>1. sent \subseteq Msgs
    BY DEF Init, kSubset, Routed
<1>2. copies = [c \in {Fresh(m) : m \in sent} |-> 1] /\ DOMAIN jobs = {}
    BY DEF Init, SetToBag, EmptyBag
<1>3. Ones(copies) /\ Ones(jobs) /\ DOMAIN copies = {Fresh(m) : m \in sent}
    BY <1>2, Zenon DEF Ones
<1>4. \A c \in DOMAIN copies : /\ c \in Copies /\ c.place = "queue" /\ c.msg \in Msgs
                               /\ \A d \in DOMAIN copies : c.msg = d.msg => c = d
    BY <1>1, <1>3, ConsumerAssumption DEF Fresh, Copies, Exchanges
<1>5. /\ runs \in [Msgs -> Nat] /\ oks \in [Msgs -> Nat]
      /\ \A m \in Msgs : runs[m] = 0 /\ oks[m] = 0
    BY DEF Init
<1>6. Owned(DOMAIN copies, DOMAIN jobs)
    BY <1>2, <1>4 DEF Owned
<1>7. Latest(DOMAIN copies, DOMAIN jobs)
    BY <1>4 DEF Latest
<1>8. Unanswered(DOMAIN copies, DOMAIN jobs, oks)
    BY <1>4, <1>5 DEF Unanswered
<1>9. Within(DOMAIN copies, DOMAIN jobs, runs)
  <2>1. \A c \in DOMAIN copies : Level(c) \in Nat /\ runs[c.msg] = 0
      BY <1>4, <1>5, LevelNat
  <2> QED
      BY <1>2, <2>1, ConsumerAssumption DEF Within
<1>10. OnceInv
    BY <1>3, <1>5, <1>6, <1>7, <1>8, <1>9 DEF OnceInv, Once
<1>11. \A m \in Msgs : runs[m] <= RetryLimit + 1 /\ oks[m] <= 1
    BY <1>5, ConsumerAssumption
<1> QED
    BY <1>10, <1>11 DEF FewInv, Init
-----------------------------------------------------------------------------
(* The theorems                                                            *)

\* The inductive invariant.
Inv == PoolInv /\ OriginInv /\ AttemptInv /\ HandsInv /\ SafeInv /\ FewInv /\ PlainInv

\* Every message is on the queue as published.
LEMMA InitInv == Init => Inv
<1> SUFFICES ASSUME Init PROVE Inv
    OBVIOUS
<1>1. PoolInv
    BY DEF Init, PoolInv
<1>2. sent \subseteq Msgs
    BY DEF Init, kSubset, Routed
<1>3. DOMAIN copies = {Fresh(m) : m \in sent} /\ DOMAIN jobs = {}
    BY Zenon DEF Init, SetToBag, EmptyBag
<1>4. \A m \in sent : /\ Fresh(m) \in Copies /\ Original(Fresh(m))
                      /\ Fresh(m).place = "queue" /\ Fresh(m).msg = m
    BY <1>2, ConsumerAssumption DEF Fresh, Copies, Exchanges, Original
<1>5. OriginInv
    BY <1>3, <1>4 DEF OriginInv
<1>6. AttemptInv
  <2>1. \A m \in Msgs : runs[m] = 0 /\ Before(m) \in Nat
      BY BeforeNat, Zenon DEF Init
  <2>2. \A m \in sent : Attempted(Fresh(m), 0)
      BY <1>2, <2>1 DEF Attempted, Fresh, Before
  <2> QED
      BY <1>3, <2>2, Zenon DEF AttemptInv, Init
<1>7. HandsInv
  <2>1. \A c, at : Held(jobs, c, at) = 0
      BY <1>3 DEF Held, Count
  <2>2. \A c \in DOMAIN copies : c.place # "taken"
      BY <1>3, <1>4
  <2>3. Counts(jobs)
      BY <1>3, <2>1 DEF Counts
  <2>4. \A c \in Copies : c.place = "taken" => Count(copies, c) = InHands(jobs, c)
      BY <2>1, <2>2 DEF Count, InHands
  <2> QED
      BY <2>2, <2>3, <2>4 DEF HandsInv
<1>8. SafeInv
  <2>1. \A m \in sent : Safe(m)
      BY <1>3, <1>4 DEF Safe, Unsettled
  <2> QED
      BY <1>2, <2>1 DEF SafeInv, Init
<1>9. PlainInv
  <2>1. faults \in 0..MaxFaults
      BY ConsumerAssumption DEF Init
  <2> QED
      BY <2>1, Zenon DEF PlainInv, Init
<1> QED
    BY <1>1, <1>5, <1>6, <1>7, <1>8, <1>9, FewInit DEF Inv

\* Every step keeps every message safe.
LEMMA SafeStep ==
    OriginInv /\ OriginInv' /\ HandsInv /\ SafeInv /\ [Next]_vars => HandsInv' /\ SafeInv'
<1> SUFFICES ASSUME OriginInv, OriginInv', HandsInv, SafeInv, [Next]_vars
             PROVE  HandsInv' /\ SafeInv'
    OBVIOUS
<1> USE DEF broker, loops, ending, past
<1>1. CASE Drop \/ CloseEnds
  <2>1. ChannelGone /\ UNCHANGED <<oks, dead, sent>>
      BY <1>1 DEF Drop, CloseEnds
  <2> QED
      BY <2>1, GoneSafe
<1>2. CASE UNCHANGED <<copies, jobs, dead, oks, sent>>
  <2>1. HandsInv'
      BY <1>2, Zenon DEF HandsInv, Counts, InHands, Held, Count, Job
  <2>2. SafeInv'
      BY <1>2, Zenon DEF SafeInv, Safe, Unsettled, InHands, Held, Count, Job
  <2> QED
      BY <2>1, <2>2
<1> QED
    BY <1>1, <1>2, BrokerSafe, TakeSafe, HandleSafe, RepublishSafe, RepublishFailsSafe, SettleSafe, Zenon
    DEF Next, SystemStep, BrokerStep, JobStep, LoopStep, LoopChecks, LoopConsumes,
        LoopReturns, WorkerLeaves, HookStep, HookStarts, HookCancels, Reconnect,
        CloseStep, CloseCancels, ContextEnds, CloseBegins, vars

\* The inductive invariant holds in every reachable state.
LEMMA SpecInv == Spec => []Inv
<1>1. Inv /\ [Next]_vars => Inv'
    BY PoolStep, OriginStep, AttemptStep, SafeStep, FewStep, PlainStep DEF Inv
<1> QED
    BY InitInv, <1>1, PTL DEF Spec

\* Wherever a message waits, at its first attempt or a later one, the lookup finds
\* the handler of the message as published (handlerFor, stampOriginExchange).
THEOREM RetriesFindHandler == Spec => []RetriedToItsHandler
<1>1. Inv => RetriedToItsHandler
    BY SameHandler DEF Inv, OriginInv, RetriedToItsHandler
<1> QED
    BY SpecInv, <1>1, PTL

\* No message is dead-lettered before its attempts are used up, unless it has no
\* handler or was refused (processMessage, republishMessageToRetryExchange).
THEOREM DeadOnlyExhausted == Spec => []NotDeadEarly
<1>1. Inv => NotDeadEarly
    BY DEF Inv, AttemptInv, NotDeadEarly, Reason, Before
<1> QED
    BY SpecInv, <1>1, PTL

\* No message is lost between the queue, the retry queue, the workers and the
\* dead-letter queue (processMessage, republishMessageToRetryExchange).
THEOREM NoMessageLost == Spec => []NothingLost
<1>1. Inv => NothingLost
    BY DEF Inv, SafeInv, Safe, NothingLost, Holds
<1> QED
    BY SpecInv, <1>1, PTL

\* Close takes the channel away under a handler only when the drain timed out: a loop
\* that has ended has no workers (consumeMessages, waitForConsumer, Close).
THEOREM DrainHonoured == Spec => CloseWaitsForHandlers
<1>1. Inv /\ [Next]_vars =>
          [closing' = "closed" /\ closing # "closed" /\ jobs # EmptyBag => timedOut']_vars
  <2> SUFFICES ASSUME Inv, Next, closing' = "closed", closing # "closed", jobs # EmptyBag
               PROVE  timedOut'
      OBVIOUS
  <2>1. CloseEnds
      BY Zenon DEF Next, SystemStep, BrokerStep, Deliver, RetryExpires, Take, JobStep, Republishes,
             RepublishFails, Settle, WorkerLeaves, LoopStep, LoopChecks, LoopConsumes,
             LoopReturns, HookStep, HookStarts, HookCancels, Reconnect, CloseStep,
             CloseCancels, Handle, Drop, ContextEnds, CloseBegins, ending
  <2> QED
      BY <2>1, Zenon DEF CloseEnds, Inv, PoolInv
<1> QED
    BY SpecInv, <1>1, PTL DEF Spec, CloseWaitsForHandlers

\* Without a fault no handler is called more often than the limit says, and none
\* returns nil twice (processMessage, republishMessageToRetryExchange).
THEOREM AttemptsBounded == Spec => []NoExtraAttempt
<1>1. Inv => NoExtraAttempt
    BY DEF Inv, FewInv, Faultless, NoExtraAttempt
<1> QED
    BY SpecInv, <1>1, PTL
-----------------------------------------------------------------------------
(* The size of a bag                                                       *)
INSTANCE FiniteSetTheorems

\* What holds of the empty set, and of a set when it holds of the set without an
\* element, holds of every finite set.
LEMMA FiniteInduction ==
    ASSUME NEW S, IsFiniteSet(S), NEW P, {} \in P,
           \A T \in SUBSET S : T # {} /\ (\A x \in T : T \ {x} \in P) => T \in P
    PROVE  S \in P
<1> DEFINE Less == StrictSubsetOrdering(S)
           Bad == (SUBSET S) \ P
<1> SUFFICES ASSUME Bad # {} PROVE FALSE
    OBVIOUS
<1>1. IsWellFoundedOn(Less, SUBSET S)
    BY FS_StrictSubsetOrderingWellFounded, FS_FiniteSubsetsOfFinite, Zenon
<1>2. \A T, U \in SUBSET S : <<U, T>> \in Less <=> U \subseteq T /\ U # T
    BY DEF StrictSubsetOrdering
<1>3. PICK T \in Bad : \A U \in Bad : <<U, T>> \notin Less
  <2>1. Bad \subseteq SUBSET S
      OBVIOUS
  <2> HIDE DEF Less, Bad
  <2>2. Bad # {}
      OBVIOUS
  <2> QED
      BY <1>1, <2>1, <2>2, WFMin, Zenon
<1>4. T # {} /\ T \in SUBSET S
    BY Zenon
<1>5. \A x \in T : T \ {x} \notin Bad
  <2> TAKE x \in T
  <2> DEFINE U == T \ {x}
  <2>1. U \in SUBSET S /\ U \subseteq T /\ U # T
      OBVIOUS
  <2> HIDE DEF U, Less, Bad
  <2>2. <<U, T>> \in Less
      BY <1>2, <1>4, <2>1
  <2>3. U \notin Bad
      BY <1>3, <2>2
  <2> QED
      BY <2>3 DEF U
<1> QED
    BY <1>4, <1>5

\* One token for every unit of f over s.
Tokens(f, s) == {p \in s \X Nat : p[2] < f[p[1]]}

\* The tokens of one element are as many as its value.
LEMMA TokensOfOne ==
    ASSUME NEW n \in Nat, NEW x
    PROVE  /\ IsFiniteSet({x} \X (0..(n - 1))) 
           /\ Cardinality({x} \X (0..(n - 1))) = n
<1>1. IsFiniteSet({x}) /\ Cardinality({x}) = 1
    BY FS_Singleton
<1>2. IsFiniteSet(0..(n - 1)) /\ Cardinality(0..(n - 1)) = n
    BY FS_Interval
<1> DEFINE A == 0..(n - 1)
<1> HIDE DEF A
<1>3. IsFiniteSet({x} \X A) /\ Cardinality({x} \X A) = Cardinality({x}) * Cardinality(A)
    BY <1>1, <1>2, FS_Product DEF A
<1>4. Cardinality({x}) * Cardinality(A) = n
    BY <1>1, <1>2 DEF A
<1> QED
    BY <1>3, <1>4 DEF A

\* An element adds its value.
LEMMA TokensSplit ==
    ASSUME NEW f, NEW s, NEW x \in s, f[x] \in Nat, IsFiniteSet(Tokens(f, s \ {x}))
    PROVE  /\ IsFiniteSet(Tokens(f, s))
           /\ Cardinality(Tokens(f, s)) = f[x] + Cardinality(Tokens(f, s \ {x}))
<1> DEFINE One == {x} \X (0..(f[x] - 1))
           Rest == Tokens(f, s \ {x})
<1>1. IsFiniteSet(One) /\ Cardinality(One) = f[x]
    BY TokensOfOne, Zenon
<1>2. Tokens(f, s) = Rest \cup One
    BY DEF Tokens
<1>3. Rest \cap One = {}
    BY DEF Tokens
<1>4. Cardinality(Rest) \in Nat
    BY FS_CardinalityType
<1> HIDE DEF Rest, One
<1>5. /\ IsFiniteSet(Rest \cup One)
      /\ Cardinality(Rest \cup One) = Cardinality(Rest) + Cardinality(One) - Cardinality(Rest \cap One)
    BY <1>1, FS_Union, Zenon DEF Rest
<1>6. Cardinality(Rest \cap One) = 0
    BY <1>3, FS_EmptySet
<1> QED
    BY <1>1, <1>2, <1>4, <1>5, <1>6 DEF Rest

\* There are finitely many.
LEMMA TokensFinite ==
    ASSUME NEW S, IsFiniteSet(S), NEW f, \A x \in S : f[x] \in Nat, NEW s \in SUBSET S
    PROVE  IsFiniteSet(Tokens(f, s)) /\ Cardinality(Tokens(f, s)) \in Nat
<1> DEFINE P == {t \in SUBSET S : IsFiniteSet(Tokens(f, t))}
<1>1. {} \in P
  <2>1. Tokens(f, {}) = {}
      BY Zenon DEF Tokens
  <2> QED
      BY <2>1, FS_EmptySet
<1>2. ASSUME NEW t \in SUBSET s, t # {}, \A x \in t : t \ {x} \in P PROVE t \in P
  <2>1. PICK x \in t : TRUE
      BY <1>2
  <2>2. f[x] \in Nat /\ IsFiniteSet(Tokens(f, t \ {x}))
      BY <1>2
  <2> QED
      BY <2>2, TokensSplit
<1>3. IsFiniteSet(s)
    BY FS_Subset
<1> HIDE DEF P
<1>4. s \in P
    BY <1>1, <1>2, <1>3, FiniteInduction, Zenon
<1> QED
    BY <1>4, FS_CardinalityType DEF P

\* How a sum is put together.
IsSum(g, f, S) ==
    g = [s \in SUBSET S |-> IF s = {} THEN 0
                            ELSE f[CHOOSE x \in s : TRUE] + g[s \ {CHOOSE x \in s : TRUE}]]

\* A sum is the number of tokens.
LEMMA SumCounts ==
    ASSUME NEW S, IsFiniteSet(S), NEW f, \A x \in S : f[x] \in Nat
    PROVE  SumFunctionOnSet(f, S) = Cardinality(Tokens(f, S))
<1> DEFINE h == [s \in SUBSET S |-> Cardinality(Tokens(f, s))]
           sum == CHOOSE g : IsSum(g, f, S)
<1>1. h[{}] = 0
  <2>1. Tokens(f, {}) = {}
      BY Zenon DEF Tokens
  <2> QED
      BY <2>1, FS_EmptySet
<1>2. \A s \in SUBSET S : \A x \in s : h[s] = f[x] + h[s \ {x}]
  <2> TAKE s \in SUBSET S
  <2> TAKE x \in s
  <2>1. f[x] \in Nat /\ s \ {x} \in SUBSET S
      OBVIOUS
  <2>2. IsFiniteSet(Tokens(f, s \ {x}))
      BY <2>1, TokensFinite
  <2>3. Cardinality(Tokens(f, s)) = f[x] + Cardinality(Tokens(f, s \ {x}))
      BY <2>1, <2>2, TokensSplit
  <2> QED
      BY <2>1, <2>3
<1>3. \A s \in SUBSET S : s # {} => (CHOOSE x \in s : TRUE) \in s
    OBVIOUS
<1>4. IsSum(h, f, S)
  <2>1. ASSUME NEW s \in SUBSET S
        PROVE  h[s] = IF s = {} THEN 0
                      ELSE f[CHOOSE x \in s : TRUE] + h[s \ {CHOOSE x \in s : TRUE}]
    <3> HIDE DEF h
    <3> QED
        BY <1>1, <1>2, <1>3, Zenon
  <2>2. h = [s \in SUBSET S |-> h[s]]
      OBVIOUS
  <2> HIDE DEF h
  <2> QED
      BY <2>1, <2>2, Zenon DEF IsSum
<1>5. IsSum(sum, f, S)
    BY <1>4, Zenon
<1> HIDE DEF h, sum
<1>6. sum[S] = h[S]
  <2> DEFINE P == {s \in SUBSET S : sum[s] = h[s]}
  <2>1. {} \in P
      BY <1>1, <1>5 DEF IsSum
  <2>2. \A s \in SUBSET S : s # {} => 
            sum[s] = f[CHOOSE x \in s : TRUE] + sum[s \ {CHOOSE x \in s : TRUE}]
      BY <1>5 DEF IsSum
  <2>3. ASSUME NEW t \in SUBSET S, t # {}, \A x \in t : t \ {x} \in P PROVE t \in P
    <3> DEFINE x == CHOOSE x \in t : TRUE
    <3>1. x \in t
        BY <2>3
    <3>2. sum[t] = f[x] + sum[t \ {x}]
        BY <2>2, <2>3, Zenon
    <3> HIDE DEF x
    <3>3. sum[t \ {x}] = h[t \ {x}] /\ h[t] = f[x] + h[t \ {x}]
        BY <1>2, <2>3, <3>1
    <3> QED
        BY <3>2, <3>3
  <2> HIDE DEF P
  <2>4. S \in P
      BY <2>1, <2>3, FiniteInduction, Zenon
  <2> QED
      BY <2>4 DEF P
<1>7. SumFunctionOnSet(f, S) = sum[S]
    BY DEF SumFunctionOnSet, FoldFunctionOnSet, MapThenFoldSet, sum, IsSum
<1> QED
    BY <1>6, <1>7 DEF h

\* A bag with finitely many elements.
FiniteBag(B) == IsFiniteSet(DOMAIN B) /\ IsABag(B)

\* The size of a finite bag.
LEMMA SizeCounts ==
    ASSUME NEW B, FiniteBag(B)
    PROVE  /\ SumFunction(B) = Cardinality(Tokens(B, DOMAIN B))
           /\ IsFiniteSet(Tokens(B, DOMAIN B)) /\ SumFunction(B) \in Nat
<1>1. IsFiniteSet(DOMAIN B) /\ \A x \in DOMAIN B : B[x] \in Nat
    BY DEF FiniteBag, IsABag
<1>2. SumFunctionOnSet(B, DOMAIN B) = Cardinality(Tokens(B, DOMAIN B))
    BY <1>1, SumCounts
<1>3. IsFiniteSet(Tokens(B, DOMAIN B)) /\ Cardinality(Tokens(B, DOMAIN B)) \in Nat
    BY <1>1, TokensFinite
<1> QED
    BY <1>2, <1>3 DEF SumFunction

\* One more.
LEMMA SizeWith ==
    ASSUME NEW B, FiniteBag(B), NEW x
    PROVE  FiniteBag(BagWith(B, x)) /\ SumFunction(BagWith(B, x)) = SumFunction(B) + 1
<1> DEFINE After == BagWith(B, x)
           n == IF x \in DOMAIN B THEN B[x] ELSE 0
<1>1. IsFiniteSet(DOMAIN B) /\ \A e \in DOMAIN B : B[e] \in Nat /\ B[e] > 0
    BY DEF FiniteBag, IsABag
<1>2. n \in Nat
    BY <1>1
<1>3. After = [e \in DOMAIN B \cup {x} |-> IF e = x THEN 1 + n ELSE B[e]]
    BY DEF BagWith
<1>4. x \in DOMAIN B => B[x] = n
    OBVIOUS
<1>5. x \notin DOMAIN B => n = 0
    OBVIOUS
<1> HIDE DEF n, After
<1>6. DOMAIN After = DOMAIN B \cup {x} /\ IsABag(After)
    BY <1>1, <1>2, <1>3 DEF IsABag
<1>7. FiniteBag(After)
    BY <1>1, <1>6, FS_AddElement DEF FiniteBag
<1>8. Tokens(After, DOMAIN After) = Tokens(B, DOMAIN B) \cup {<<x, n>>}
  <2>1. ASSUME NEW p PROVE p \in Tokens(After, DOMAIN After) <=> p \in Tokens(B, DOMAIN B) \cup {<<x, n>>}
    <3>1. CASE p \notin (DOMAIN B \cup {x}) \X Nat
        BY <1>2, <1>6, <3>1 DEF Tokens
    <3>2. CASE p \in (DOMAIN B \cup {x}) \X Nat /\ p[1] # x
        BY <1>3, <1>6, <3>2 DEF Tokens
    <3>3. CASE p \in (DOMAIN B \cup {x}) \X Nat /\ p[1] = x
        BY <1>2, <1>3, <1>4, <1>5, <1>6, <3>3 DEF Tokens
    <3> QED
        BY <3>1, <3>2, <3>3
  <2> QED
      BY <2>1
<1>9. <<x, n>> \notin Tokens(B, DOMAIN B)
    BY <1>2, <1>4 DEF Tokens
<1>10. Cardinality(Tokens(B, DOMAIN B) \cup {<<x, n>>}) = Cardinality(Tokens(B, DOMAIN B)) + 1
    BY <1>9, SizeCounts, FS_AddElement
<1>11. /\ SumFunction(B) = Cardinality(Tokens(B, DOMAIN B))
       /\ SumFunction(After) = Cardinality(Tokens(After, DOMAIN After))
    BY <1>7, SizeCounts
<1> QED
    BY <1>7, <1>8, <1>10, <1>11 DEF After

\* One less.
LEMMA SizeWithout ==
    ASSUME NEW B, FiniteBag(B), NEW x \in DOMAIN B
    PROVE  /\ FiniteBag(BagWithout(B, x)) /\ SumFunction(BagWithout(B, x)) = SumFunction(B) - 1
           /\ SumFunction(B) > 0
<1> DEFINE After == BagWithout(B, x)
           D == {d \in DOMAIN B : d # x \/ B[x] # 1}
           n == B[x] - 1
<1>1. IsFiniteSet(DOMAIN B) /\ \A e \in DOMAIN B : B[e] \in Nat /\ B[e] > 0
    BY DEF FiniteBag, IsABag
<1>2. n \in Nat /\ B[x] = n + 1
    BY <1>1
<1>3. After = [e \in D |-> IF e = x THEN n ELSE B[e]] /\ D \in SUBSET DOMAIN B
    BY DEF BagWithout
<1>4. x \in D <=> n # 0
    BY <1>1
<1>5. \A e \in DOMAIN B : e # x => e \in D
    OBVIOUS
<1> HIDE DEF n, After, D
<1>6. DOMAIN After = D /\ IsABag(After)
    BY <1>1, <1>2, <1>3, <1>4 DEF IsABag
<1>7. FiniteBag(After)
    BY <1>1, <1>3, <1>6, FS_Subset DEF FiniteBag
<1>8. Tokens(B, DOMAIN B) = Tokens(After, DOMAIN After) \cup {<<x, n>>}
  <2>1. ASSUME NEW p \in Tokens(B, DOMAIN B) PROVE p \in Tokens(After, DOMAIN After) \cup {<<x, n>>}
    <3>1. p \in (DOMAIN B) \X Nat /\ p[2] < B[p[1]]
        BY DEF Tokens
    <3>2. CASE p[1] # x
        BY <1>3, <1>5, <1>6, <3>1, <3>2 DEF Tokens
    <3>3. CASE p[1] = x
        BY <1>2, <1>3, <1>4, <1>6, <3>1, <3>3 DEF Tokens
    <3> QED
        BY <3>2, <3>3
  <2>2. ASSUME NEW p \in Tokens(After, DOMAIN After) PROVE p \in Tokens(B, DOMAIN B)
    <3>1. p \in D \X Nat /\ p[2] < After[p[1]]
        BY <1>6 DEF Tokens
    <3>2. p \in (DOMAIN B) \X Nat
        BY <1>3, <3>1
    <3>3. p[2] < B[p[1]]
        BY <1>2, <1>3, <3>1
    <3> QED
        BY <3>2, <3>3 DEF Tokens
  <2>3. <<x, n>> \in Tokens(B, DOMAIN B)
      BY <1>2 DEF Tokens
  <2> QED
      BY <2>1, <2>2, <2>3
<1>9. <<x, n>> \notin Tokens(After, DOMAIN After)
    BY <1>2, <1>3, <1>6 DEF Tokens
<1>10. Cardinality(Tokens(After, DOMAIN After) \cup {<<x, n>>}) = Cardinality(Tokens(After, DOMAIN After)) + 1
    BY <1>7, <1>9, SizeCounts, FS_AddElement, Zenon
<1>11. /\ SumFunction(B) = Cardinality(Tokens(B, DOMAIN B))
       /\ SumFunction(After) = Cardinality(Tokens(After, DOMAIN After))
       /\ SumFunction(After) \in Nat
    BY <1>7, SizeCounts
<1> QED
    BY <1>7, <1>8, <1>10, <1>11 DEF After

\* A bag that is mapped has no more elements.
LEMMA SizeImage ==
    ASSUME NEW B, FiniteBag(B), NEW f
    PROVE  FiniteBag(BagImage(f, B)) /\ SumFunction(BagImage(f, B)) <= SumFunction(B)
<1> DEFINE After == BagImage(f, B)
           D == {f[d] : d \in DOMAIN B}
           Fibre(e) == {d \in DOMAIN B : f[d] = e}
<1>1. IsFiniteSet(DOMAIN B) /\ \A e \in DOMAIN B : B[e] \in Nat /\ B[e] > 0
    BY DEF FiniteBag, IsABag
<1>2. After = [e \in D |-> SumFunctionOnSet(B, Fibre(e))]
    BY DEF BagImage
<1>3. \A e : Fibre(e) \in SUBSET DOMAIN B
    BY Zenon
<1>4. ASSUME NEW e \in D
      PROVE  /\ After[e] = Cardinality(Tokens(B, Fibre(e)))
             /\ After[e] \in Nat /\ After[e] > 0 /\ IsFiniteSet(Tokens(B, Fibre(e)))
  <2>1. PICK d \in DOMAIN B : f[d] = e
      BY Zenon
  <2>2. d \in Fibre(e)
      BY <2>1
  <2>3. After[e] = SumFunctionOnSet(B, Fibre(e))
      BY <1>2, Zenon
  <2> HIDE DEF Fibre, After
  <2>4. IsFiniteSet(Fibre(e)) /\ \A x \in Fibre(e) : B[x] \in Nat
      BY <1>1, <1>3, FS_Subset, Zenon
  <2>5. SumFunctionOnSet(B, Fibre(e)) = Cardinality(Tokens(B, Fibre(e)))
      BY <2>4, SumCounts, Zenon
  <2>6. IsFiniteSet(Tokens(B, Fibre(e))) /\ Cardinality(Tokens(B, Fibre(e))) \in Nat
      BY <2>4, TokensFinite
  <2>7. <<d, 0>> \in Tokens(B, Fibre(e))
      BY <1>1, <2>2, Zenon DEF Tokens
  <2>8. Cardinality(Tokens(B, Fibre(e))) # 0
      BY <2>6, <2>7, FS_EmptySet
  <2> QED
      BY <2>3, <2>5, <2>6, <2>8, AtLeastOne, Zenon
<1>5. \A e \in D : \A p \in Tokens(B, Fibre(e)) : p \in Tokens(B, DOMAIN B) /\ f[p[1]] = e
    BY Zenon DEF Tokens
<1>6. DOMAIN After = D
    BY <1>2, Zenon
<1>7. IsFiniteSet(D)
  <2> DEFINE g == [d \in DOMAIN B |-> f[d]]
  <2>1. g \in Surjection(DOMAIN B, D)
      BY Zenon DEF Surjection
  <2> QED
      BY <1>1, <2>1, FS_Surjection
<1>8. FiniteBag(After)
  <2>1. IsABag(After)
    <3>1. After = [e \in D |-> After[e]]
        BY <1>2
    <3> HIDE DEF After, D
    <3> QED
        BY <1>4, <1>6, <3>1, Zenon DEF IsABag
  <2> QED
      BY <1>6, <1>7, <2>1 DEF FiniteBag
<1> DEFINE Of(e) == CHOOSE b : b \in Bijection(1..After[e], Tokens(B, Fibre(e)))
           Image == Tokens(After, D)
           g == [p \in Image |-> Of(p[1])[p[2] + 1]]
<1>9. ASSUME NEW e \in D PROVE Of(e) \in Bijection(1..After[e], Tokens(B, Fibre(e)))
  <2>1. ExistsBijection(1..After[e], Tokens(B, Fibre(e)))
      BY <1>4, FS_CardinalityType, Zenon
  <2>2. \E b : b \in Bijection(1..After[e], Tokens(B, Fibre(e)))
      BY <2>1, Zenon DEF ExistsBijection
  <2> HIDE DEF After, Fibre
  <2> QED
      BY <2>2, Zenon
<1> HIDE DEF After, D, Fibre, Of
<1>10. ASSUME NEW p \in Image
       PROVE  p[1] \in D /\ p[2] + 1 \in 1..After[p[1]]
              /\ g[p] \in Tokens(B, DOMAIN B) /\ f[g[p][1]] = p[1]
  <2>1. p[1] \in D /\ p[2] \in Nat /\ p[2] < After[p[1]]
      BY DEF Tokens
  <2>2. p[2] + 1 \in 1..After[p[1]]
      BY <1>4, <2>1
  <2>3. Of(p[1])[p[2] + 1] \in Tokens(B, Fibre(p[1]))
      BY <1>9, <2>1, <2>2, Zenon DEF Bijection, Injection
  <2> QED
      BY <1>5, <2>1, <2>2, <2>3
<1>11. ASSUME NEW p \in Image, NEW q \in Image, g[p] = g[q] PROVE p = q
  <2>1. p[1] = q[1]
      BY <1>10, <1>11
  <2>2. Of(p[1])[p[2] + 1] = Of(p[1])[q[2] + 1]
      BY <1>11, <2>1
  <2>3. p[2] + 1 = q[2] + 1
    <3>1. p[1] \in D /\ p[2] + 1 \in 1..After[p[1]] /\ q[2] + 1 \in 1..After[p[1]]
        BY <1>10, <2>1, Zenon
    <3>2. Of(p[1]) \in Injection(1..After[p[1]], Tokens(B, Fibre(p[1])))
        BY <1>9, <3>1 DEF Bijection
    <3> QED
        BY <2>2, <3>1, <3>2, Zenon DEF Injection, IsInjective
  <2>4. p \in D \X Nat /\ q \in D \X Nat
      BY Zenon DEF Tokens
  <2> QED
      BY <2>1, <2>3, <2>4
<1>12. g \in Injection(Image, Tokens(B, DOMAIN B))
    BY <1>10, <1>11 DEF Injection, IsInjective
<1> HIDE DEF g
<1>13. IsFiniteSet(Tokens(B, DOMAIN B))
    BY SizeCounts
<1>14. Cardinality(Image) <= Cardinality(Tokens(B, DOMAIN B))
    BY <1>12, <1>13, FS_Injection
<1>15. /\ SumFunction(B) = Cardinality(Tokens(B, DOMAIN B))
       /\ SumFunction(After) = Cardinality(Image)
    BY <1>6, <1>8, SizeCounts
<1> QED
    BY <1>8, <1>14, <1>15 DEF After
-----------------------------------------------------------------------------
(* The pool and the types                                                  *)

\* The bags are finite, and the workers are those of one generation.
SizeInv == FiniteBag(copies) /\ FiniteBag(jobs) /\ OnePool

\* The next state has it when the next values have.
LEMMA SizeNext ==
    ASSUME FiniteBag(copies'), FiniteBag(jobs'), idle' + SumFunction(jobs') <= concurrency
    PROVE  SizeInv'
BY DEF SizeInv, OnePool, FiniteBag, IsABag, IsFiniteSet, SumFunction, SumFunctionOnSet,
       FoldFunctionOnSet, MapThenFoldSet

\* A finite bag stays one without an element it may have.
LEMMA FiniteWithout == ASSUME NEW B, FiniteBag(B), NEW x PROVE FiniteBag(BagWithout(B, x))
<1> DEFINE D == {d \in DOMAIN B : d # x \/ B[x] # 1}
<1>1. IsFiniteSet(DOMAIN B) /\ \A e \in DOMAIN B : B[e] \in Nat /\ B[e] > 0
    BY DEF FiniteBag, IsABag
<1>2. DOMAIN BagWithout(B, x) = D /\ D \in SUBSET DOMAIN B
    BY Zenon DEF BagWithout
<1>3. IsFiniteSet(D)
    BY <1>1, <1>2, FS_Subset
<1>4. IsABag(BagWithout(B, x))
    BY <1>1 DEF IsABag, BagWithout
<1> QED
    BY <1>2, <1>3, <1>4 DEF FiniteBag

\* Or with another in its place.
LEMMA FiniteSwap ==
    ASSUME NEW B, FiniteBag(B), NEW x, NEW y
    PROVE  /\ FiniteBag(BagWith(BagWithout(B, x), y))
           /\ x \in DOMAIN B => SumFunction(BagWith(BagWithout(B, x), y)) = SumFunction(B)
<1> DEFINE Rest == BagWithout(B, x)
<1>1. FiniteBag(Rest)
    BY FiniteWithout
<1>2. x \in DOMAIN B => SumFunction(Rest) = SumFunction(B) - 1
    BY SizeWithout
<1> HIDE DEF Rest
<1>3. FiniteBag(BagWith(Rest, y)) /\ SumFunction(BagWith(Rest, y)) = SumFunction(Rest) + 1
    BY <1>1, SizeWith
<1>4. SumFunction(B) \in Nat
    BY SizeCounts, Zenon
<1> QED
    BY <1>2, <1>3, <1>4 DEF Rest

\* Every step keeps the workers within one generation.
LEMMA SizeStep == PoolInv /\ SizeInv /\ [Next]_vars => SizeInv'
<1> SUFFICES ASSUME PoolInv, SizeInv, [Next]_vars PROVE SizeInv'
    OBVIOUS
<1> DEFINE Sized == /\ FiniteBag(copies') /\ FiniteBag(jobs')
                    /\ idle' + SumFunction(jobs') <= concurrency
<1> SUFFICES Sized
    BY SizeNext
<1>1. /\ FiniteBag(copies) /\ FiniteBag(jobs) /\ idle + SumFunction(jobs) <= concurrency
      /\ idle \in Nat /\ SumFunction(jobs) \in Nat /\ concurrency \in Nat
    BY SizeCounts, ConsumerAssumption DEF SizeInv, OnePool, PoolInv
<1>2. ASSUME NEW c \in DOMAIN copies, Deliver(c) \/ RetryExpires(c) PROVE Sized
  <2>1. \E x : copies' = BagWith(BagWithout(copies, c), x)
      BY <1>2 DEF Deliver, RetryExpires, Moved
  <2>2. UNCHANGED <<jobs, idle>>
      BY <1>2 DEF Deliver, RetryExpires
  <2> QED
      BY <1>1, <2>1, <2>2, FiniteSwap
<1>3. ASSUME NEW c \in DOMAIN copies, Take(c) PROVE Sized
  <2>1. /\ \E x : copies' = BagWith(BagWithout(copies, c), x)
        /\ \E x : jobs' = BagWith(jobs, x)
        /\ idle' = idle - 1
      BY <1>3 DEF Take, Moved
  <2>2. FiniteBag(copies')
      BY <1>1, <2>1, FiniteSwap
  <2>3. FiniteBag(jobs') /\ SumFunction(jobs') = SumFunction(jobs) + 1
      BY <1>1, <2>1, SizeWith
  <2> QED
      BY <1>1, <2>1, <2>2, <2>3
<1>4. ASSUME NEW j \in DOMAIN jobs, Handle(j) \/ Republishes(j) PROVE Sized
  <2>1. \E x : jobs' = BagWith(BagWithout(jobs, j), x)
      BY <1>4 DEF Handle, Republishes, Moves
  <2>2. FiniteBag(jobs') /\ SumFunction(jobs') = SumFunction(jobs)
      BY <1>1, <2>1, FiniteSwap
  <2>3. idle' = idle /\ (copies' = copies \/ \E x : copies' = BagWith(copies, x))
      BY <1>4, Zenon DEF Handle, Republishes, broker
  <2>4. FiniteBag(copies')
      BY <1>1, <2>3, SizeWith
  <2> QED
      BY <1>1, <2>2, <2>3, <2>4
<1>5. ASSUME NEW j \in DOMAIN jobs, RepublishFails(j) \/ Settle(j) PROVE Sized
  <2>1. jobs' = BagWithout(jobs, j) /\ idle' = idle + 1
      BY <1>5 DEF RepublishFails, Settle, Done
  <2>2. FiniteBag(jobs') /\ SumFunction(jobs') = SumFunction(jobs) - 1
      BY <1>1, <2>1, SizeWithout
  <2> DEFINE stuck == IF j.live THEN Moved(copies, j.copy, "stuck") ELSE copies
  <2>3. /\ RepublishFails(j) => copies' = stuck \/ \E x : copies' = BagWith(stuck, x)
        /\ Settle(j) => copies' = copies \/ copies' = BagWithout(copies, j.copy)
      BY Zenon DEF RepublishFails, Settle
  <2>4. FiniteBag(stuck)
      BY <1>1, FiniteSwap DEF Moved
  <2> HIDE DEF stuck
  <2>5. FiniteBag(copies')
      BY <1>1, <1>5, <2>3, <2>4, SizeWith, FiniteWithout
  <2> QED
      BY <1>1, <2>1, <2>2, <2>5
<1>6. CASE WorkerLeaves
    BY <1>1, <1>6 DEF WorkerLeaves, broker
<1>7. CASE LoopConsumes
  <2>1. CASE UNCHANGED idle
      BY <1>1, <1>7, <2>1 DEF LoopConsumes
  <2>2. CASE idle' = idle + concurrency
    <3>1. idle = 0 /\ DOMAIN jobs = {} /\ UNCHANGED <<copies, jobs>>
        BY <1>7 DEF LoopConsumes, PoolInv, EmptyBag, SetToBag
    <3>2. Tokens(jobs, DOMAIN jobs) = {}
        BY <3>1 DEF Tokens
    <3>3. SumFunction(jobs) = 0
        BY <1>1, <3>2, SizeCounts, FS_EmptySet
    <3> QED
        BY <1>1, <2>2, <3>1, <3>3
  <2> QED
      BY <1>7, <2>1, <2>2 DEF LoopConsumes
<1>8. CASE Drop \/ CloseEnds
  <2>1. /\ \E f : copies' = BagImage(f, copies)
        /\ \E f : jobs' = BagImage(f, jobs)
        /\ UNCHANGED idle
      BY <1>8 DEF Drop, CloseEnds, ChannelGone
  <2>2. FiniteBag(copies')
      BY <1>1, <2>1, SizeImage
  <2>3. FiniteBag(jobs') /\ SumFunction(jobs') <= SumFunction(jobs)
      BY <1>1, <2>1, SizeImage
  <2>4. SumFunction(jobs') \in Nat
      BY <2>3, SizeCounts
  <2> QED
      BY <1>1, <2>1, <2>2, <2>3, <2>4
<1>9. CASE UNCHANGED <<copies, jobs, idle>>
    BY <1>1, <1>9
<1> QED
    BY <1>2, <1>3, <1>4, <1>5, <1>6, <1>7, <1>8, <1>9
    DEF Next, SystemStep, BrokerStep, JobStep, LoopStep, LoopChecks, LoopReturns, HookStep,
        HookStarts, HookCancels, Reconnect, CloseStep, CloseCancels, ContextEnds, CloseBegins,
        broker, vars

\* At the start the bags are finite and there are no workers.
LEMMA SizeInit == Init => SizeInv
<1> SUFFICES ASSUME Init PROVE SizeInv
    OBVIOUS
<1>1. sent \in SUBSET Msgs
    BY DEF Init, kSubset, Routed
<1>2. copies = [c \in {Fresh(m) : m \in sent} |-> 1] /\ DOMAIN jobs = {} /\ jobs = [e \in {} |-> 1]
    BY DEF Init, SetToBag, EmptyBag
<1>3. IsABag(copies) /\ IsABag(jobs)
    BY <1>2 DEF IsABag
<1>4. IsFiniteSet(sent)
    BY <1>1, MessagesAssumption, FS_Subset
<1>5. IsFiniteSet({Fresh(m) : m \in sent})
  <2> DEFINE g == [m \in sent |-> Fresh(m)]
  <2>1. g \in Surjection(sent, {Fresh(m) : m \in sent})
      BY DEF Surjection
  <2> QED
      BY <1>4, <2>1, FS_Surjection
<1>6. FiniteBag(copies) /\ FiniteBag(jobs)
    BY <1>2, <1>3, <1>5, FS_EmptySet DEF FiniteBag
<1>7. Tokens(jobs, DOMAIN jobs) = {}
    BY <1>2 DEF Tokens
<1>8. SumFunction(jobs) = 0
    BY <1>6, <1>7, SizeCounts, FS_EmptySet
<1> QED
    BY <1>6, <1>8, ConsumerAssumption DEF SizeInv, OnePool, Init

\* The workers are those of one generation in every reachable state.
LEMMA SpecSize == Spec => []SizeInv
<1>1. Inv /\ SizeInv /\ [Next]_vars => SizeInv'
    BY SizeStep DEF Inv
<1> QED
    BY SizeInit, SpecInv, <1>1, PTL DEF Spec

\* Every variable keeps its type, the bags of copies and jobs among them.
THEOREM TypesKept == Spec => []TypeOK
<1>1. Inv /\ SizeInv => TypeOK
  <2> SUFFICES ASSUME Inv, SizeInv PROVE TypeOK
      OBVIOUS
  <2>1. IsABag(copies) /\ IsABag(jobs)
      BY DEF SizeInv, FiniteBag
  <2>2. DOMAIN copies \subseteq Copies /\ DOMAIN jobs \subseteq Jobs
      BY DEF Inv, OriginInv, Original
  <2>3. /\ sent \subseteq Msgs /\ dead \subseteq Msgs /\ idle \in Nat
        /\ runs \in [Msgs -> Nat] /\ oks \in [Msgs -> Nat]
      BY DEF Inv, SafeInv, AttemptInv, PoolInv
  <2> QED
      BY <2>1, <2>2, <2>3 DEF Inv, PlainInv, TypeOK
<1> QED
    BY SpecInv, SpecSize, <1>1, PTL

\* Two generations of workers never run side by side, whatever connections are lost
\* while handlers still run (consumeMessages).
THEOREM PoolsApart == Spec => []OnePool
<1>1. SizeInv => OnePool
    BY DEF SizeInv
<1> QED
    BY SpecSize, <1>1, PTL
=============================================================================
