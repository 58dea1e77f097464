------------------------ MODULE ReturnTrackerProofs ------------------------
(***************************************************************************)
(* What a result of publishConfirmed means, for any number of attempts and *)
(* messages on a channel.                                                  *)
(*                                                                         *)
(* The properties speak of results and of the tracker's map; a step needs  *)
(* to know in between how far the broker and the confirm have come         *)
(* (Progress), that calls in flight share no id (Distinct), that the ack  *)
(* of a message no queue took is preceded by its return (Noted), and that  *)
(* an id in the map was put there by a publish whose own return it was     *)
(* (Leftover, Genuine).                                                    *)
(***************************************************************************)
EXTENDS ReturnTracker, TLAPS

\* How far the channel can be with an attempt.
Progress ==
    \A a \in Attempts :
        /\ pc[a] = "idle" => /\ broker[a] = "none" /\ conf[a] = "unset"
                             /\ ~waitErr[a] /\ result[a] = "none"
        /\ a \in queued => broker[a] \in {"acking", "settled"}
        /\ open /\ conf[a] # "unset" => broker[a] = "settled"
        /\ pc[a] \in {"ask", "asked", "done"} /\ ~waitErr[a] =>
             conf[a] # "unset" \/ broker[a] = "none"
        /\ pc[a] \in {"waiting", "ask", "asked"} => result[a] = "none"

Distinct ==
    \A a, b \in Attempts :
        InFlight(a) /\ InFlight(b) /\ msg[a] = msg[b] => a = b \/ msg[a] = EmptyID

\* A message without an id is never returned.
Unnamed ==
    /\ EmptyID \in bound /\ EmptyID \notin returned
    /\ \A a \in Attempts : msg[a] = EmptyID =>
         /\ broker[a] # "returning"
         /\ broker[a] = "acking" \/ conf[a] = "ack" => a \in queued

\* While the tracker runs, the return of a message comes before its confirm.
Noted ==
    tracker = "running" => \A a \in Attempts :
        /\ pc[a] \in {"waiting", "ask"} /\ a \notin queued /\ msg[a] # EmptyID =>
             (broker[a] = "acking" \/ conf[a] = "ack" => msg[a] \in returned)
        /\ pc[a] = "asked" /\ a \notin queued /\ conf[a] = "ack" /\ ~waitErr[a] =>
             answer[a] = "yes"

\* The broker has answered for the attempt and will not queue it.
Past(a) == a \notin queued /\ broker[a] \in {"acking", "settled"}

Leftover ==
    /\ tracker = "finished" => returned = {}
    /\ \A m \in returned : \E a \in Attempts :
         msg[a] = m /\ Past(a) /\ (pc[a] \in {"waiting", "ask"} \/ waitErr[a])

Genuine ==
    \A a \in Attempts :
        (pc[a] = "asked" /\ answer[a] = "yes") \/ result[a] = "unroutable" =>
            Past(a) \/ \E b \in Attempts : b # a /\ msg[b] = msg[a] /\ waitErr[b]

Inv ==
    /\ TypeOK /\ Progress /\ Distinct /\ Unnamed /\ Noted /\ Leftover /\ Genuine
    /\ NilMeansOwnedWhileTracking
-----------------------------------------------------------------------------

LEMMA InitInv == Init => Inv
BY EmptyIDAssumption
DEF Init, Inv, TypeOK, Progress, Distinct, InFlight, Unnamed, Noted, Leftover, Genuine, Past,
    NilMeansOwnedWhileTracking, NilMeansOwned

LEMMA SendInv ==
    ASSUME Inv, NEW a \in Attempts, NEW m \in Msgs, Send(a, m) PROVE Inv'
<1> USE DEF Inv, wire
<1>1. TypeOK'
  BY DEF Send, TypeOK
<1>2. Progress'
  BY DEF Send, TypeOK, Progress
<1>3. Distinct'
  BY DEF Send, TypeOK, Distinct, InFlight, Unused
<1>4. Unnamed'
  BY DEF Send, TypeOK, Unnamed, Progress
<1>5. Noted'
  BY DEF Send, TypeOK, Noted, Progress
<1>6. Leftover'
  BY DEF Send, TypeOK, Leftover, Past, Progress
<1>7. Genuine'
  BY DEF Send, TypeOK, Genuine, Past, Progress
<1>8. NilMeansOwnedWhileTracking'
  BY DEF Send, TypeOK, NilMeansOwnedWhileTracking, NilMeansOwned
<1> QED
  BY <1>1, <1>2, <1>3, <1>4, <1>5, <1>6, <1>7, <1>8

LEMMA SendFailsInv ==
    ASSUME Inv, NEW a \in Attempts, NEW m \in Msgs, SendFails(a, m) PROVE Inv'
<1> USE DEF Inv, wire
<1>1. TypeOK'
  BY DEF SendFails, TypeOK
<1>2. Progress'
  BY DEF SendFails, TypeOK, Progress
<1>3. Distinct'
  BY DEF SendFails, TypeOK, Distinct, InFlight
<1>4. Unnamed'
  BY DEF SendFails, TypeOK, Unnamed, Progress
<1>5. Noted'
  BY DEF SendFails, TypeOK, Noted
<1>6. Leftover'
  BY DEF SendFails, TypeOK, Leftover, Past, Progress
<1>7. Genuine'
  BY DEF SendFails, TypeOK, Genuine, Past, Progress
<1>8. NilMeansOwnedWhileTracking'
  BY DEF SendFails, TypeOK, NilMeansOwnedWhileTracking, NilMeansOwned
<1> QED
  BY <1>1, <1>2, <1>3, <1>4, <1>5, <1>6, <1>7, <1>8

LEMMA ConfirmedInv ==
    ASSUME Inv, NEW a \in Attempts, Confirmed(a) PROVE Inv'
<1> USE DEF Inv, wire
<1>1. TypeOK'
  BY DEF Confirmed, TypeOK
<1>2. Progress'
  BY DEF Confirmed, TypeOK, Progress
<1>3. Distinct'
  BY DEF Confirmed, TypeOK, Distinct, InFlight
<1>4. Unnamed'
  BY DEF Confirmed, TypeOK, Unnamed
<1>5. Noted'
  BY DEF Confirmed, TypeOK, Noted
<1>6. Leftover'
  BY DEF Confirmed, TypeOK, Leftover, Past
<1>7. Genuine'
  BY DEF Confirmed, TypeOK, Genuine, Past
<1>8. NilMeansOwnedWhileTracking'
  BY DEF Confirmed, TypeOK, NilMeansOwnedWhileTracking, NilMeansOwned
<1> QED
  BY <1>1, <1>2, <1>3, <1>4, <1>5, <1>6, <1>7, <1>8

LEMMA GivesUpInv ==
    ASSUME Inv, NEW a \in Attempts, GivesUp(a) PROVE Inv'
<1> USE DEF Inv, wire
<1>1. TypeOK'
  BY DEF GivesUp, TypeOK
<1>2. Progress'
  BY DEF GivesUp, TypeOK, Progress
<1>3. Distinct'
  BY DEF GivesUp, TypeOK, Distinct, InFlight
<1>4. Unnamed'
  BY DEF GivesUp, TypeOK, Unnamed
<1>5. Noted'
  BY DEF GivesUp, TypeOK, Noted
<1>6. Leftover'
  BY DEF GivesUp, TypeOK, Leftover, Past
<1>7. Genuine'
  BY DEF GivesUp, TypeOK, Genuine, Past
<1>8. NilMeansOwnedWhileTracking'
  BY DEF GivesUp, TypeOK, NilMeansOwnedWhileTracking, NilMeansOwned
<1> QED
  BY <1>1, <1>2, <1>3, <1>4, <1>5, <1>6, <1>7, <1>8

LEMMA SkipsQueryInv ==
    ASSUME Inv, NEW a \in Attempts, SkipsQuery(a) PROVE Inv'
<1> USE DEF Inv, wire
<1>1. TypeOK'
  BY DEF SkipsQuery, Return, Outcome, TypeOK
<1>2. Progress'
  BY DEF SkipsQuery, Return, TypeOK, Progress
<1>3. Distinct'
  BY DEF SkipsQuery, Return, TypeOK, Distinct, InFlight
<1>4. Unnamed'
  BY DEF SkipsQuery, Return, TypeOK, Unnamed
<1>5. Noted'
  BY DEF SkipsQuery, Return, TypeOK, Noted
<1>6. Leftover'
  BY DEF SkipsQuery, Return, TypeOK, Leftover, Past, Unnamed
<1>7. Genuine'
  BY DEF SkipsQuery, Return, TypeOK, Genuine, Past, Outcome
<1>8. NilMeansOwnedWhileTracking'
  BY DEF SkipsQuery, Return, TypeOK, NilMeansOwnedWhileTracking, NilMeansOwned, Unnamed, Outcome
<1> QED
  BY <1>1, <1>2, <1>3, <1>4, <1>5, <1>6, <1>7, <1>8

LEMMA QueryInv ==
    ASSUME Inv, NEW a \in Attempts, Query(a) PROVE Inv'
<1> USE DEF Inv, wire
<1>1. TypeOK'
  BY DEF Query, TypeOK
<1>2. Progress'
  BY DEF Query, TypeOK, Progress
<1>3. Distinct'
  BY DEF Query, TypeOK, Distinct, InFlight
<1>4. Unnamed'
  BY DEF Query, TypeOK, Unnamed
<1>5. Noted'
  BY DEF Query, TypeOK, Noted, Distinct, InFlight
<1>6. Leftover'
  BY DEF Query, TypeOK, Leftover, Past
<1>7. Genuine'
  BY DEF Query, TypeOK, Genuine, Past, Leftover, Distinct, InFlight, Progress
<1>8. NilMeansOwnedWhileTracking'
  BY DEF Query, TypeOK, NilMeansOwnedWhileTracking, NilMeansOwned
<1> QED
  BY <1>1, <1>2, <1>3, <1>4, <1>5, <1>6, <1>7, <1>8

LEMMA QueryFinishedInv ==
    ASSUME Inv, NEW a \in Attempts, QueryFinished(a) PROVE Inv'
<1> USE DEF Inv, wire
<1>1. TypeOK'
  BY DEF QueryFinished, Return, Outcome, TypeOK
<1>2. Progress'
  BY DEF QueryFinished, Return, TypeOK, Progress
<1>3. Distinct'
  BY DEF QueryFinished, Return, TypeOK, Distinct, InFlight
<1>4. Unnamed'
  BY DEF QueryFinished, Return, TypeOK, Unnamed
<1>5. Noted'
  BY DEF QueryFinished, Return, TypeOK, Noted
<1>6. Leftover'
  BY DEF QueryFinished, Return, TypeOK, Leftover, Past
<1>7. Genuine'
  BY DEF QueryFinished, Return, TypeOK, Genuine, Past, Outcome
<1>8. NilMeansOwnedWhileTracking'
  BY DEF QueryFinished, Return, TypeOK, NilMeansOwnedWhileTracking, NilMeansOwned
<1> QED
  BY <1>1, <1>2, <1>3, <1>4, <1>5, <1>6, <1>7, <1>8

LEMMA AnsweredInv ==
    ASSUME Inv, NEW a \in Attempts, Answered(a) PROVE Inv'
<1> USE DEF Inv, wire
<1>1. TypeOK'
  BY DEF Answered, Return, Outcome, TypeOK
<1>2. Progress'
  BY DEF Answered, Return, TypeOK, Progress
<1>3. Distinct'
  BY DEF Answered, Return, TypeOK, Distinct, InFlight
<1>4. Unnamed'
  BY DEF Answered, Return, TypeOK, Unnamed
<1>5. Noted'
  BY DEF Answered, Return, TypeOK, Noted
<1>6. Leftover'
  BY DEF Answered, Return, TypeOK, Leftover, Past
<1>7. Genuine'
  BY DEF Answered, Return, TypeOK, Genuine, Past, Outcome
<1>8. NilMeansOwnedWhileTracking'
  BY DEF Answered, Return, TypeOK, NilMeansOwnedWhileTracking, NilMeansOwned, Noted, Outcome
<1> QED
  BY <1>1, <1>2, <1>3, <1>4, <1>5, <1>6, <1>7, <1>8

LEMMA AnswerDroppedInv ==
    ASSUME Inv, NEW a \in Attempts, AnswerDropped(a) PROVE Inv'
<1> USE DEF Inv, wire
<1>1. TypeOK'
  BY DEF AnswerDropped, Return, Outcome, TypeOK
<1>2. Progress'
  BY DEF AnswerDropped, Return, TypeOK, Progress
<1>3. Distinct'
  BY DEF AnswerDropped, Return, TypeOK, Distinct, InFlight
<1>4. Unnamed'
  BY DEF AnswerDropped, Return, TypeOK, Unnamed
<1>5. Noted'
  BY DEF AnswerDropped, Return, TypeOK, Noted
<1>6. Leftover'
  BY DEF AnswerDropped, Return, TypeOK, Leftover, Past
<1>7. Genuine'
  BY DEF AnswerDropped, Return, TypeOK, Genuine, Past, Outcome
<1>8. NilMeansOwnedWhileTracking'
  BY DEF AnswerDropped, Return, TypeOK, NilMeansOwnedWhileTracking, NilMeansOwned
<1> QED
  BY <1>1, <1>2, <1>3, <1>4, <1>5, <1>6, <1>7, <1>8

LEMMA BrokerQueuesInv ==
    ASSUME Inv, NEW a \in Attempts, BrokerQueues(a) PROVE Inv'
<1> USE DEF Inv, wire
<1>1. TypeOK'
  BY DEF BrokerQueues, TypeOK
<1>2. Progress'
  BY DEF BrokerQueues, TypeOK, Progress
<1>3. Distinct'
  BY DEF BrokerQueues, TypeOK, Distinct, InFlight
<1>4. Unnamed'
  BY DEF BrokerQueues, TypeOK, Unnamed
<1>5. Noted'
  BY DEF BrokerQueues, TypeOK, Noted
<1>6. Leftover'
  BY DEF BrokerQueues, TypeOK, Leftover, Past
<1>7. Genuine'
  BY DEF BrokerQueues, TypeOK, Genuine, Past
<1>8. NilMeansOwnedWhileTracking'
  BY DEF BrokerQueues, TypeOK, NilMeansOwnedWhileTracking, NilMeansOwned
<1> QED
  BY <1>1, <1>2, <1>3, <1>4, <1>5, <1>6, <1>7, <1>8

LEMMA BrokerReturnsInv ==
    ASSUME Inv, NEW a \in Attempts, BrokerReturns(a) PROVE Inv'
<1> USE DEF Inv, wire
<1>1. TypeOK'
  BY DEF BrokerReturns, TypeOK
<1>2. Progress'
  BY DEF BrokerReturns, TypeOK, Progress
<1>3. Distinct'
  BY DEF BrokerReturns, TypeOK, Distinct, InFlight
<1>4. Unnamed'
  BY DEF BrokerReturns, TypeOK, Unnamed
<1>5. Noted'
  BY DEF BrokerReturns, TypeOK, Noted
<1>6. Leftover'
  BY DEF BrokerReturns, TypeOK, Leftover, Past
<1>7. Genuine'
  BY DEF BrokerReturns, TypeOK, Genuine, Past
<1>8. NilMeansOwnedWhileTracking'
  BY DEF BrokerReturns, TypeOK, NilMeansOwnedWhileTracking, NilMeansOwned
<1> QED
  BY <1>1, <1>2, <1>3, <1>4, <1>5, <1>6, <1>7, <1>8

LEMMA BrokerRefusesInv ==
    ASSUME Inv, NEW a \in Attempts, BrokerRefuses(a) PROVE Inv'
<1> USE DEF Inv, wire
<1>1. TypeOK'
  BY DEF BrokerRefuses, TypeOK
<1>2. Progress'
  BY DEF BrokerRefuses, TypeOK, Progress
<1>3. Distinct'
  BY DEF BrokerRefuses, TypeOK, Distinct, InFlight
<1>4. Unnamed'
  BY DEF BrokerRefuses, TypeOK, Unnamed
<1>5. Noted'
  BY DEF BrokerRefuses, TypeOK, Noted
<1>6. Leftover'
  BY DEF BrokerRefuses, TypeOK, Leftover, Past
<1>7. Genuine'
  BY DEF BrokerRefuses, TypeOK, Genuine, Past
<1>8. NilMeansOwnedWhileTracking'
  BY DEF BrokerRefuses, TypeOK, NilMeansOwnedWhileTracking, NilMeansOwned
<1> QED
  BY <1>1, <1>2, <1>3, <1>4, <1>5, <1>6, <1>7, <1>8

LEMMA TakeReturnInv ==
    ASSUME Inv, NEW a \in Attempts, TakeReturn(a) PROVE Inv'
<1> USE DEF Inv, wire
<1>1. TypeOK'
  BY DEF TakeReturn, TypeOK
<1>2. Progress'
  BY DEF TakeReturn, TypeOK, Progress
<1>3. Distinct'
  BY DEF TakeReturn, TypeOK, Distinct, InFlight
<1>4. Unnamed'
  BY DEF TakeReturn, TypeOK, Unnamed
<1>5. Noted'
  BY DEF TakeReturn, TypeOK, Noted
<1>6. Leftover'
  BY DEF TakeReturn, TypeOK, Leftover, Past, Progress
<1>7. Genuine'
  BY DEF TakeReturn, TypeOK, Genuine, Past
<1>8. NilMeansOwnedWhileTracking'
  BY DEF TakeReturn, TypeOK, NilMeansOwnedWhileTracking, NilMeansOwned
<1> QED
  BY <1>1, <1>2, <1>3, <1>4, <1>5, <1>6, <1>7, <1>8

LEMMA ReadConfirmInv ==
    ASSUME Inv, NEW a \in Attempts, ReadConfirm(a) PROVE Inv'
<1> USE DEF Inv, wire
<1>1. TypeOK'
  BY DEF ReadConfirm, TypeOK
<1>2. Progress'
  BY DEF ReadConfirm, TypeOK, Progress
<1>3. Distinct'
  BY DEF ReadConfirm, TypeOK, Distinct, InFlight
<1>4. Unnamed'
  BY DEF ReadConfirm, TypeOK, Unnamed
<1>5. Noted'
  BY DEF ReadConfirm, TypeOK, Noted, Progress
<1>6. Leftover'
  BY DEF ReadConfirm, TypeOK, Leftover, Past
<1>7. Genuine'
  BY DEF ReadConfirm, TypeOK, Genuine, Past
<1>8. NilMeansOwnedWhileTracking'
  BY DEF ReadConfirm, TypeOK, NilMeansOwnedWhileTracking, NilMeansOwned
<1> QED
  BY <1>1, <1>2, <1>3, <1>4, <1>5, <1>6, <1>7, <1>8

LEMMA TrackerFinishesInv ==
    ASSUME Inv, TrackerFinishes PROVE Inv'
<1> USE DEF Inv, wire
<1>1. TypeOK'
  BY DEF TrackerFinishes, TypeOK
<1>2. Progress'
  BY DEF TrackerFinishes, TypeOK, Progress
<1>3. Distinct'
  BY DEF TrackerFinishes, TypeOK, Distinct, InFlight
<1>4. Unnamed'
  BY DEF TrackerFinishes, TypeOK, Unnamed
<1>5. Noted'
  BY DEF TrackerFinishes, TypeOK, Noted
<1>6. Leftover'
  BY DEF TrackerFinishes, TypeOK, Leftover, Past
<1>7. Genuine'
  BY DEF TrackerFinishes, TypeOK, Genuine, Past
<1>8. NilMeansOwnedWhileTracking'
  BY DEF TrackerFinishes, TypeOK, NilMeansOwnedWhileTracking, NilMeansOwned
<1> QED
  BY <1>1, <1>2, <1>3, <1>4, <1>5, <1>6, <1>7, <1>8

LEMMA ChannelClosesInv ==
    ASSUME Inv, ChannelCloses PROVE Inv'
<1> USE DEF Inv, wire
<1>1. TypeOK'
  BY DEF ChannelCloses, TypeOK
<1>2. Progress'
  BY DEF ChannelCloses, TypeOK, Progress, InFlight
<1>3. Distinct'
  BY DEF ChannelCloses, TypeOK, Distinct, InFlight
<1>4. Unnamed'
  BY DEF ChannelCloses, TypeOK, Unnamed, InFlight
<1>5. Noted'
  BY DEF ChannelCloses, TypeOK, Noted, InFlight
<1>6. Leftover'
  BY DEF ChannelCloses, TypeOK, Leftover, Past
<1>7. Genuine'
  BY DEF ChannelCloses, TypeOK, Genuine, Past
<1>8. NilMeansOwnedWhileTracking'
  BY DEF ChannelCloses, TypeOK, NilMeansOwnedWhileTracking, NilMeansOwned
<1> QED
  BY <1>1, <1>2, <1>3, <1>4, <1>5, <1>6, <1>7, <1>8

LEMMA RebindInv ==
    ASSUME Inv, NEW m \in Msgs, Rebind(m) PROVE Inv'
<1> USE DEF Inv, wire
<1>1. TypeOK'
  BY DEF Rebind, TypeOK
<1>2. Progress'
  BY DEF Rebind, TypeOK, Progress
<1>3. Distinct'
  BY DEF Rebind, TypeOK, Distinct, InFlight
<1>4. Unnamed'
  BY DEF Rebind, TypeOK, Unnamed
<1>5. Noted'
  BY DEF Rebind, TypeOK, Noted
<1>6. Leftover'
  BY DEF Rebind, TypeOK, Leftover, Past
<1>7. Genuine'
  BY DEF Rebind, TypeOK, Genuine, Past
<1>8. NilMeansOwnedWhileTracking'
  BY DEF Rebind, TypeOK, NilMeansOwnedWhileTracking, NilMeansOwned
<1> QED
  BY <1>1, <1>2, <1>3, <1>4, <1>5, <1>6, <1>7, <1>8

-----------------------------------------------------------------------------

LEMMA NextInv == Inv /\ [Next]_vars => Inv'
<1> SUFFICES ASSUME Inv, [Next]_vars PROVE Inv'
  OBVIOUS
<1>1. ASSUME NEW a \in Attempts, NEW m \in Msgs, Send(a, m) \/ SendFails(a, m)
      PROVE  Inv'
  BY <1>1, SendInv, SendFailsInv
<1>2. ASSUME NEW a \in Attempts, CallStep(a) PROVE Inv'
  BY <1>2, ConfirmedInv, GivesUpInv, SkipsQueryInv, QueryInv, QueryFinishedInv,
     AnsweredInv, AnswerDroppedInv
  DEF CallStep
<1>3. ASSUME NEW a \in Attempts, BrokerStep(a) PROVE Inv'
  BY <1>3, BrokerQueuesInv, BrokerReturnsInv, BrokerRefusesInv, TakeReturnInv,
     ReadConfirmInv
  DEF BrokerStep
<1>4. ASSUME NEW m \in Msgs, Rebind(m) PROVE Inv'
  BY <1>4, RebindInv
<1>5. CASE UNCHANGED vars
  BY <1>5 DEF vars, Inv, TypeOK, Progress, Distinct, InFlight, Unnamed, Noted, Leftover,
     Genuine, Past, NilMeansOwnedWhileTracking, NilMeansOwned
<1> QED
  BY <1>1, <1>2, <1>3, <1>4, <1>5, TrackerFinishesInv, ChannelClosesInv DEF Next

LEMMA Invariant == Spec => []Inv
BY InitInv, NextInv, PTL DEF Spec

\* The channel, its calls and the tracker's map always have their type
\* (rabbitmq/returns.go, rabbitmq/publisher.go:161-201).
THEOREM TypeCorrect == Spec => []TypeOK
BY Invariant, PTL DEF Inv

\* As long as the tracker runs, a nil error of publishConfirmed means the broker
\* put the message on a queue (rabbitmq/publisher.go:159-200).
THEOREM NilIsOwned == Spec => []NilMeansOwnedWhileTracking
BY Invariant, PTL DEF Inv

\* Only a publish that gave up leaves its return in the tracker
\* (rabbitmq/returns.go:45-48).
THEOREM LeftoversAreFromGivingUp == Spec => []LeftoverIsFromGivingUp
<1>1. Inv => LeftoverIsFromGivingUp
  BY DEF Inv, Leftover, LeftoverIsFromGivingUp
<1> QED
  BY <1>1, Invariant, PTL

\* errUnroutable for a queued message needs an earlier publish of its id that gave
\* up (rabbitmq/publisher.go:189).
THEOREM UnroutablesAreGenuine == Spec => []UnroutableIsGenuine
<1>1. Inv => UnroutableIsGenuine
  BY DEF Inv, Genuine, Past, UnroutableIsGenuine
<1> QED
  BY <1>1, Invariant, PTL
=============================================================================
