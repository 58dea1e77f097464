--------------------------- MODULE ReturnTracker ---------------------------
(***************************************************************************)
(* One publish channel in confirm mode: publishConfirmed                   *)
(* (rabbitmq/publisher.go), the returnTracker goroutine                    *)
(* (rabbitmq/returns.go), the reader goroutine of amqp091 and the broker.  *)
(*                                                                         *)
(* An attempt is one call of publishConfirmed and stands for its goroutine *)
(* and for the delivery tag the channel gives it.  Of the broker the code  *)
(* relies on one thing only: a mandatory message with no queue is returned *)
(* before it is confirmed.  Frames of different attempts may overtake each *)
(* other, as confirms of different messages do.                            *)
(***************************************************************************)

CONSTANTS
    Attempts,   \* the calls of publishConfirmed on this channel
    Msgs,       \* the message ids
    EmptyID     \* the id "" of a republished message that came without one

ASSUME EmptyIDAssumption == EmptyID \in Msgs

VARIABLES
    open,       \* FALSE once the channel or its connection has closed
    bound,      \* the messages whose routing key some queue is bound to
    pc,         \* where each call of publishConfirmed is
    msg,        \* MessageId of the attempt's message
    broker,     \* what the broker has still to do or say for the attempt
    conf,       \* the attempt's DeferredConfirmation
    waitErr,    \* WaitContext gave up before the confirmation
    returned,   \* the tracker's map of returned message ids
    tracker,    \* the goroutine of track: running, or its finished is closed
    answer,     \* the buffered answer channel of the attempt's query
    result,     \* what publishConfirmed returned
    queued      \* the attempts whose message the broker put on a queue

vars == <<open, bound, pc, msg, broker, conf, waitErr, returned, tracker,
          answer, result, queued>>

wire == <<open, bound, queued>>

InFlight(a) == pc[a] \in {"waiting", "ask", "asked"}

TypeOK ==
    /\ open \in BOOLEAN
    /\ bound \in SUBSET Msgs
    /\ pc \in [Attempts -> {"idle", "waiting", "ask", "asked", "done"}]
    /\ msg \in [Attempts -> Msgs]
    /\ broker \in [Attempts ->
                     {"none", "received", "returning", "acking", "nacking", "settled"}]
    /\ conf \in [Attempts -> {"unset", "ack", "nack"}]
    /\ waitErr \in [Attempts -> BOOLEAN]
    /\ returned \in SUBSET Msgs
    /\ tracker \in {"running", "finished"}
    /\ answer \in [Attempts -> {"empty", "yes", "no"}]
    /\ result \in [Attempts ->
                     {"none", "nil", "unroutable", "waitErr", "notConfirmed", "sendErr"}]
    /\ queued \in SUBSET Attempts

\* The channel the dial has just put in confirm mode, its tracker started.
Init ==
    /\ open = TRUE
    /\ bound \in {B \in SUBSET Msgs : EmptyID \in B}
    /\ pc = [a \in Attempts |-> "idle"]
    /\ msg = [a \in Attempts |-> EmptyID]
    /\ broker = [a \in Attempts |-> "none"]
    /\ conf = [a \in Attempts |-> "unset"]
    /\ waitErr = [a \in Attempts |-> FALSE]
    /\ returned = {}
    /\ tracker = "running"
    /\ answer = [a \in Attempts |-> "empty"]
    /\ result = [a \in Attempts |-> "none"]
    /\ queued = {}

-----------------------------------------------------------------------------
(* publishConfirmed                                                        *)

\* Publish mints a fresh id and one flush runs at a time, so an id with a call
\* still in flight is not sent again by the same client.
Unused(m) == \A b \in Attempts : InFlight(b) => msg[b] # m

\* The frames leave, and the channel hands out the confirmation to wait on.
Send(a, m) ==
    /\ pc[a] = "idle"
    /\ m = EmptyID \/ Unused(m)
    /\ open
    /\ pc' = [pc EXCEPT ![a] = "waiting"]
    /\ msg' = [msg EXCEPT ![a] = m]
    /\ broker' = [broker EXCEPT ![a] = "received"]
    /\ UNCHANGED <<wire, conf, waitErr, returned, tracker, answer, result>>

\* A closed channel fails the call before anything is on the wire.
SendFails(a, m) ==
    /\ pc[a] = "idle"
    /\ ~open
    /\ pc' = [pc EXCEPT ![a] = "done"]
    /\ msg' = [msg EXCEPT ![a] = m]
    /\ result' = [result EXCEPT ![a] = "sendErr"]
    /\ UNCHANGED <<wire, broker, conf, waitErr, returned, tracker, answer>>

\* WaitContext returns with the confirmation.
Confirmed(a) ==
    /\ pc[a] = "waiting"
    /\ conf[a] # "unset"
    /\ pc' = [pc EXCEPT ![a] = "ask"]
    /\ UNCHANGED <<wire, msg, broker, conf, waitErr, returned, tracker, answer, result>>

\* confirmTimeout elapsed or the caller's context ended.  The select of
\* WaitContext may pick this branch with the confirmation already there.
GivesUp(a) ==
    /\ pc[a] = "waiting"
    /\ pc' = [pc EXCEPT ![a] = "ask"]
    /\ waitErr' = [waitErr EXCEPT ![a] = TRUE]
    /\ UNCHANGED <<wire, msg, broker, conf, returned, tracker, answer, result>>

\* Mutant: the confirm is looked at before the return.
OutcomeConfirmFirst(a, was) ==
    CASE conf[a] = "ack" /\ ~waitErr[a] -> "nil"
      [] was /\ (conf[a] # "ack" \/ waitErr[a]) -> "unroutable"
      [] OTHER -> IF waitErr[a] THEN "waitErr" ELSE "notConfirmed"

\* The tail of publishConfirmed, once wasReturned has answered.
Outcome(a, was) ==
    CASE was              -> "unroutable"
      [] ~was /\ waitErr[a] -> "waitErr"
      [] ~was /\ ~waitErr[a] /\ conf[a] # "ack" -> "notConfirmed"
      [] OTHER            -> "nil"

Return(a, was) ==
    /\ pc' = [pc EXCEPT ![a] = "done"]
    /\ result' = [result EXCEPT ![a] = Outcome(a, was)]

-----------------------------------------------------------------------------
(* returnTracker                                                           *)

\* wasReturned on an empty id answers without asking the tracker.
SkipsQuery(a) ==
    /\ pc[a] = "ask"
    /\ msg[a] = EmptyID
    /\ Return(a, FALSE)
    /\ UNCHANGED <<wire, msg, broker, conf, waitErr, returned, tracker, answer>>

\* Mutant: the tracker keeps the id it reports.
QueryKeeps(a) ==
    /\ pc[a] = "ask"
    /\ msg[a] # EmptyID
    /\ tracker = "running"
    /\ answer' = [answer EXCEPT ![a] = IF msg[a] \in returned THEN "yes" ELSE "no"]
    /\ pc' = [pc EXCEPT ![a] = "asked"]
    /\ UNCHANGED <<wire, msg, broker, conf, waitErr, returned, tracker, result>>

\* The query meets the tracker's loop, which forgets what it reports.
Query(a) ==
    /\ pc[a] = "ask"
    /\ msg[a] # EmptyID
    /\ tracker = "running"
    /\ answer' = [answer EXCEPT ![a] = IF msg[a] \in returned THEN "yes" ELSE "no"]
    /\ returned' = returned \ {msg[a]}
    /\ pc' = [pc EXCEPT ![a] = "asked"]
    /\ UNCHANGED <<wire, msg, broker, conf, waitErr, tracker, result>>

\* Mutant: the select has no case for finished.
QueryHangs(a) == FALSE

\* No tracker is left to ask: wasReturned answers FALSE.
QueryFinished(a) ==
    /\ pc[a] = "ask"
    /\ msg[a] # EmptyID
    /\ tracker = "finished"
    /\ Return(a, FALSE)
    /\ UNCHANGED <<wire, msg, broker, conf, waitErr, returned, tracker, answer>>

Answered(a) ==
    /\ pc[a] = "asked"
    /\ Return(a, answer[a] = "yes")
    /\ UNCHANGED <<wire, msg, broker, conf, waitErr, returned, tracker, answer>>

\* With the answer in its buffer and finished closed, the select may still pick
\* finished.
AnswerDropped(a) ==
    /\ pc[a] = "asked"
    /\ tracker = "finished"
    /\ Return(a, FALSE)
    /\ UNCHANGED <<wire, msg, broker, conf, waitErr, returned, tracker, answer>>

\* The loop finds the returns channel closed, and its map goes with it.  A query
\* may still win the select against it, so this is a step of its own.
TrackerFinishes ==
    /\ ~open
    /\ tracker = "running"
    /\ tracker' = "finished"
    /\ returned' = {}
    /\ UNCHANGED <<wire, pc, msg, broker, conf, waitErr, answer, result>>

\* The reader goroutine hands a return over and blocks until the loop takes it.
TakeReturn(a) ==
    /\ open
    /\ tracker = "running"
    /\ broker[a] = "returning"
    /\ returned' = returned \cup {msg[a]}
    /\ broker' = [broker EXCEPT ![a] = "acking"]
    /\ UNCHANGED <<wire, pc, msg, conf, waitErr, tracker, answer, result>>

-----------------------------------------------------------------------------
(* The broker and the amqp091 channel                                      *)

\* The broker routes by the bindings of the moment, whatever has become of the
\* client's side of the channel meanwhile.
BrokerQueues(a) ==
    /\ broker[a] = "received"
    /\ msg[a] \in bound
    /\ queued' = queued \cup {a}
    /\ broker' = [broker EXCEPT ![a] = "acking"]
    /\ UNCHANGED <<open, bound, pc, msg, conf, waitErr, returned, tracker, answer, result>>

BrokerReturns(a) ==
    /\ broker[a] = "received"
    /\ msg[a] \notin bound
    /\ broker' = [broker EXCEPT ![a] = "returning"]
    /\ UNCHANGED <<wire, pc, msg, conf, waitErr, returned, tracker, answer, result>>

\* An internal error: the broker takes no responsibility for the message.
BrokerRefuses(a) ==
    /\ broker[a] = "received"
    /\ broker' = [broker EXCEPT ![a] = "nacking"]
    /\ UNCHANGED <<wire, pc, msg, conf, waitErr, returned, tracker, answer, result>>

\* The reader decodes a confirm and resolves the confirmation of its tag.
ReadConfirm(a) ==
    /\ open
    /\ broker[a] \in {"acking", "nacking"}
    /\ conf' = [conf EXCEPT ![a] = IF broker[a] = "acking" THEN "ack" ELSE "nack"]
    /\ broker' = [broker EXCEPT ![a] = "settled"]
    /\ UNCHANGED <<wire, pc, msg, waitErr, returned, tracker, answer, result>>

\* The channel shuts down: every open confirmation resolves as not acked, and
\* the frames not yet read are lost with the socket.
ChannelCloses ==
    /\ open
    /\ open' = FALSE
    /\ conf' = [a \in Attempts |->
                  IF InFlight(a) /\ conf[a] = "unset" THEN "nack" ELSE conf[a]]
    /\ UNCHANGED <<bound, pc, msg, broker, waitErr, returned, tracker, answer,
                   result, queued>>

\* A consumer elsewhere binds or unbinds a queue.  The retry exchange, where the
\* messages without an id go, keeps the binding its own client declares.
Rebind(m) ==
    /\ m # EmptyID
    /\ bound' = IF m \in bound THEN bound \ {m} ELSE bound \cup {m}
    /\ UNCHANGED <<open, pc, msg, broker, conf, waitErr, returned, tracker, answer,
                   result, queued>>

-----------------------------------------------------------------------------

CallStep(a) ==
    \/ Confirmed(a) \/ GivesUp(a) \/ SkipsQuery(a) \/ Query(a)
    \/ QueryFinished(a) \/ Answered(a) \/ AnswerDropped(a)

BrokerStep(a) ==
    \/ BrokerQueues(a) \/ BrokerReturns(a) \/ BrokerRefuses(a)
    \/ TakeReturn(a) \/ ReadConfirm(a)

Next ==
    \/ \E a \in Attempts, m \in Msgs : Send(a, m) \/ SendFails(a, m)
    \/ \E a \in Attempts : CallStep(a) \/ BrokerStep(a)
    \/ TrackerFinishes
    \/ ChannelCloses
    \/ \E m \in Msgs : Rebind(m)

\* Goroutines run and the confirm timer fires; the broker owes nothing.
Fairness ==
    /\ \A a \in Attempts : WF_vars(CallStep(a))
    /\ WF_vars(TrackerFinishes)

Spec == Init /\ [][Next]_vars /\ Fairness

-----------------------------------------------------------------------------
(* Properties                                                              *)

\* publisher.go:159: "a nil error must mean the broker owns it".  As the
\* comment says it, on a channel in any state.
NilMeansOwned ==
    \A a \in Attempts : result[a] = "nil" => a \in queued

\* What the code does guarantee: no call that returned nil while the tracker was
\* still running (rabbitmq/returns.go:33) reports a message the broker returned.
NilMeansOwnedWhileTracking ==
    tracker = "running" => NilMeansOwned

\* A return left behind in the tracker is one of a publish that gave up waiting,
\* never of one that read its answer (rabbitmq/returns.go:45-48).
LeftoverIsFromGivingUp ==
    \A m \in returned : \E a \in Attempts :
        msg[a] = m /\ (pc[a] \in {"waiting", "ask"} \/ waitErr[a])

\* publisher.go:189 answers errUnroutable for a message the broker queued only
\* when an earlier publish of the same id gave up before its return came, so that
\* a replay (rabbitmq/common.go:99) is not misread after an ordinary return.
UnroutableIsGenuine ==
    \A a \in Attempts : result[a] = "unroutable" /\ a \in queued =>
        \E b \in Attempts : b # a /\ msg[b] = msg[a] /\ waitErr[b]

\* Every call of publishConfirmed returns, also when the tracker ends between the
\* two selects of wasReturned (rabbitmq/returns.go:62-73).
CallsReturn ==
    \A a \in Attempts : InFlight(a) ~> pc[a] = "done"
=============================================================================
