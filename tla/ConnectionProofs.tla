-------------------------- MODULE ConnectionProofs --------------------------
(***************************************************************************)
(* What holds of one client's connection for any number of publishing      *)
(* goroutines, connections and handlers: no socket is lost track of, a     *)
(* closed client stays closed, a live connection is not replaced, and what *)
(* is registered is bound on the connection in use.                        *)
(***************************************************************************)
EXTENDS Connection, TLAPS

\* The dialers that have set the dialing flag.
InDial(t) == pc[t] \in {"recheck", "drop", "dial", "apply", "swap"}

\* One dialer at a time, which has dropped the old connection before it dials and
\* owns the new one until the swap.
OneDialer ==
    /\ \A t \in Dialers : InDial(t) => dialing
    /\ \A t, u \in Dialers : InDial(t) /\ InDial(u) => t = u
    /\ \A t \in Dialers : pc[t] \in {"dial", "apply", "swap"} => conn = Nil
    /\ \A t \in Dialers : (fresh[t] # Nil) <=> (pc[t] \in {"apply", "swap"})

\* A registration that has not failed is among the handlers, which a dialer about to
\* swap has all bound.
HandlersKnown ==
    /\ \A k \in Keys : reg[k] \in {"inserted", "stored", "done"} => k \in handlers
    /\ \A t \in Dialers : pc[t] = "swap" => handlers \subseteq applied[fresh[t]]

\* The registered handlers are bound on the connection that counts as connected,
\* whether its socket is still open or not.
BoundWhileConnected ==
    isConnected /\ conn # Nil => \A k \in Keys : reg[k] = "done" => k \in applied[conn]

\* While the flag is set somebody is dialling.
FlagOwned ==
    dialing => \E t \in Dialers : InDial(t)

\* What a dialer found dead it finds dead when it drops it.
DropsDead ==
    \A t \in Dialers : pc[t] = "drop" => ~live

\* The inductive invariant.
Inv ==
    /\ TypeOK
    /\ OneDialer
    /\ FlagOwned
    /\ DropsDead
    /\ HandlersKnown
    /\ BoundWhileConnected
    /\ NoLeak
    /\ ClosedForGood

\* The groups of variables a step leaves alone, and the steps of a goroutine.
USE DEF broker, client, Goto, Connected, CloseSockets, done, live

-----------------------------------------------------------------------------

\* Nothing is open, dialled or registered.
LEMMA InitInv == Init => Inv
BY NamesAssumption
DEF Init, Inv, TypeOK, OneDialer, InDial, FlagOwned, DropsDead, HandlersKnown,
    BoundWhileConnected, NoLeak, ClosedForGood

-----------------------------------------------------------------------------

\* Every step keeps every variable in its type.
LEMMA TypeStep == TypeOK /\ [Next]_vars => TypeOK'
<1> SUFFICES ASSUME TypeOK, [Next]_vars PROVE TypeOK'
    OBVIOUS
<1> USE NamesAssumption DEF TypeOK, Dialers
<1>1. ASSUME NEW t \in Dialers, Begin(t) PROVE TypeOK'
    BY <1>1 DEF Begin
<1>2. ASSUME NEW t \in Dialers, Claim(t) PROVE TypeOK'
  <2>1. dialing' \in BOOLEAN /\ (Goto(t, "idle") \/ Goto(t, "recheck"))
      BY <1>2 DEF Claim
  <2> QED
      BY <1>2, <2>1 DEF Claim
<1>3. ASSUME NEW t \in Dialers, Recheck(t) PROVE TypeOK'
  <2>1. dialing' \in BOOLEAN /\ (Connected(t) \/ Goto(t, "drop"))
      BY <1>3 DEF Recheck
  <2> QED
      BY <1>3, <2>1 DEF Recheck
<1>4. ASSUME NEW t \in Dialers, Drop(t) PROVE TypeOK'
    BY <1>4 DEF Drop
<1>5. ASSUME NEW t \in Dialers, DialOk(t) PROVE TypeOK'
    BY <1>5 DEF DialOk
<1>6. ASSUME NEW t \in Dialers, DialFails(t) PROVE TypeOK'
    BY <1>6 DEF DialFails
<1>7. ASSUME NEW t \in Dialers, Apply(t) PROVE TypeOK'
    BY <1>7 DEF Apply
<1>8. ASSUME NEW t \in Dialers, ApplyFails(t) PROVE TypeOK'
    BY <1>8 DEF ApplyFails
<1>9. ASSUME NEW t \in Dialers, Swap(t) PROVE TypeOK'
    BY <1>9 DEF Swap
<1>10. ASSUME NEW p \in Pubs, Acquire(p) PROVE TypeOK'
    BY <1>10 DEF Acquire
<1>11. ASSUME NEW p \in Pubs, Publish(p) PROVE TypeOK'
    BY <1>11 DEF Publish
<1>12. ASSUME NEW p \in Pubs, ReportSend(p) PROVE TypeOK'
    BY <1>12 DEF ReportSend
<1>13. CASE ConsumerTurns
    BY <1>13 DEF ConsumerTurns
<1>14. CASE Consume
    BY <1>14 DEF Consume
<1>15. CASE WorkersGone
    BY <1>15 DEF WorkersGone
<1>16. CASE ReportConsume
    BY <1>16 DEF ReportConsume
<1>17. CASE ConsumerStops
    BY <1>17 DEF ConsumerStops
<1>18. CASE CloseBegins
    BY <1>18 DEF CloseBegins
<1>19. CASE CloseReturns
    BY <1>19 DEF CloseReturns
<1>20. CASE BrokerChanges
    BY <1>20 DEF BrokerChanges
<1>21. CASE BrokerCalms
    BY <1>21 DEF BrokerCalms
<1>22. ASSUME NEW k \in Keys, Insert(k) PROVE TypeOK'
    BY <1>22 DEF Insert
<1>23. ASSUME NEW k \in Keys, StoreInfo(k) PROVE TypeOK'
    BY <1>23 DEF StoreInfo
<1>24. ASSUME NEW k \in Keys, BindHandler(k) PROVE TypeOK'
  <2>1. reg' \in [Keys -> {"new", "inserted", "stored", "done", "failed"}]
      BY <1>24 DEF BindHandler
  <2>2. applied' \in [Conns -> SUBSET Keys]
      BY <1>24 DEF BindHandler
  <2>3. isConnected' \in BOOLEAN /\ ch' \in SUBSET open'
      BY <1>24 DEF BindHandler
  <2> QED
      BY <1>24, <2>1, <2>2, <2>3 DEF BindHandler
<1>25. ASSUME NEW c \in Conns, Drops(c) PROVE TypeOK'
    BY <1>25 DEF Drops
<1>26. ASSUME NEW c \in Conns, ChannelFails(c) PROVE TypeOK'
    BY <1>26 DEF ChannelFails
<1>27. CASE UNCHANGED vars
    BY <1>27 DEF vars
<1> QED
    BY <1>1, <1>2, <1>3, <1>4, <1>5, <1>6, <1>7, <1>8, <1>9, <1>10, <1>11, <1>12,
       <1>13, <1>14, <1>15, <1>16, <1>17, <1>18, <1>19, <1>20, <1>21, <1>22, <1>23,
       <1>24, <1>25, <1>26, <1>27
    DEF Next, DialerStep, PublishStep, ConsumerStep, RegisterStep, vars

\* The flag lets one dialer in, and every way out of the dial gives it back.
LEMMA OneDialerStep == Inv /\ [Next]_vars => OneDialer'
<1> SUFFICES ASSUME Inv, [Next]_vars PROVE OneDialer'
    OBVIOUS
<1> USE NamesAssumption DEF Inv, TypeOK, OneDialer, InDial, Unused, Dialers
<1>1. ASSUME NEW t \in Dialers, Begin(t) PROVE OneDialer'
    BY <1>1 DEF Begin
<1>2. ASSUME NEW t \in Dialers, Claim(t) PROVE OneDialer'
    BY <1>2 DEF Claim
<1>3. ASSUME NEW t \in Dialers, Recheck(t) PROVE OneDialer'
    BY <1>3 DEF Recheck
<1>4. ASSUME NEW t \in Dialers, Drop(t) PROVE OneDialer'
    BY <1>4 DEF Drop
<1>5. ASSUME NEW t \in Dialers, DialOk(t) PROVE OneDialer'
    BY <1>5 DEF DialOk
<1>6. ASSUME NEW t \in Dialers, DialFails(t) PROVE OneDialer'
    BY <1>6 DEF DialFails
<1>7. ASSUME NEW t \in Dialers, Apply(t) PROVE OneDialer'
    BY <1>7 DEF Apply
<1>8. ASSUME NEW t \in Dialers, ApplyFails(t) PROVE OneDialer'
    BY <1>8 DEF ApplyFails
<1>9. ASSUME NEW t \in Dialers, Swap(t) PROVE OneDialer'
    BY <1>9 DEF Swap
<1>10. ASSUME NEW p \in Pubs, Acquire(p) PROVE OneDialer'
    BY <1>10 DEF Acquire
<1>11. ASSUME NEW p \in Pubs, Publish(p) PROVE OneDialer'
    BY <1>11 DEF Publish
<1>12. ASSUME NEW p \in Pubs, ReportSend(p) PROVE OneDialer'
    BY <1>12 DEF ReportSend
<1>13. CASE UNCHANGED <<pc, fresh, conn, dialing>>
    BY <1>13
<1> QED
    BY <1>1, <1>2, <1>3, <1>4, <1>5, <1>6, <1>7, <1>8, <1>9, <1>10, <1>11, <1>12,
       <1>13
    DEF Next, DialerStep, PublishStep, ConsumerStep, RegisterStep, ConsumerTurns,
        Consume, WorkersGone, ReportConsume, ConsumerStops, CloseBegins,
        CloseReturns, BrokerChanges, BrokerCalms, Insert, StoreInfo, BindHandler,
        Drops, ChannelFails, vars

\* A dialer that goes on keeps the flag, and one that leaves the dial resets it.
LEMMA FlagStep == Inv /\ [Next]_vars => FlagOwned'
<1> SUFFICES ASSUME Inv, [Next]_vars, dialing' PROVE \E t \in Dialers : InDial(t)'
    BY DEF FlagOwned
<1> USE NamesAssumption DEF Inv, TypeOK, OneDialer, InDial, Dialers
<1>1. ASSUME NEW t \in Dialers, Claim(t) PROVE \E u \in Dialers : InDial(u)'
  <2>1. CASE dialing
    <3>1. PICK u \in Dialers : InDial(u)
        BY <2>1 DEF FlagOwned
    <3>2. pc[t] = "claim" /\ Goto(t, "idle")
        BY <1>1, <2>1, Zenon DEF Claim
    <3> QED
        BY <3>1, <3>2
  <2>2. CASE ~dialing
      BY <1>1, <2>2 DEF Claim
  <2> QED
      BY <2>1, <2>2
<1>2. ASSUME NEW t \in Dialers, Recheck(t) \/ Drop(t) \/ DialOk(t) \/ Apply(t)
      PROVE  \E u \in Dialers : InDial(u)'
  <2>1. pc'[t] \in {"drop", "dial", "apply", "swap"}
      BY <1>2 DEF Recheck, Drop, DialOk, Apply
  <2> QED
      BY <2>1
<1>3. ASSUME NEW t \in Dialers, DialFails(t) \/ ApplyFails(t) \/ Swap(t) PROVE FALSE
    BY <1>3 DEF DialFails, ApplyFails, Swap
<1>4. ASSUME NEW t \in Dialers, Begin(t) \/ (t \in Pubs /\ PublishStep(t))
      PROVE  \E u \in Dialers : InDial(u)'
  <2>1. dialing /\ pc[t] \in {"idle", "send", "sent", "report"} /\ \E to : Goto(t, to)
      BY <1>4, Zenon DEF Begin, PublishStep, Acquire, Publish, ReportSend
  <2>2. PICK u \in Dialers : InDial(u)
      BY <2>1 DEF FlagOwned
  <2>3. u # t /\ pc'[u] = pc[u]
      BY <2>1, <2>2
  <2> QED
      BY <2>2, <2>3
<1>5. CASE UNCHANGED <<pc, dialing>>
    BY <1>5 DEF FlagOwned
<1> QED
    BY <1>1, <1>2, <1>3, <1>4, <1>5
    DEF Next, DialerStep, ConsumerStep, RegisterStep, ConsumerTurns, Consume, WorkersGone,
        ReportConsume, ConsumerStops, CloseBegins, CloseReturns, BrokerChanges,
        BrokerCalms, Insert, StoreInfo, BindHandler, Drops, ChannelFails, vars

\* Only a swap connects the client, and whoever swaps is the dialer.
LEMMA DropsStep == Inv /\ [Next]_vars => DropsDead'
<1> SUFFICES ASSUME Inv, [Next]_vars PROVE DropsDead'
    OBVIOUS
<1> USE NamesAssumption DEF Inv, TypeOK, OneDialer, InDial, DropsDead, Unused, Dialers
<1>1. ASSUME NEW t \in Dialers, Begin(t) PROVE DropsDead'
    BY <1>1 DEF Begin
<1>2. ASSUME NEW t \in Dialers, Claim(t) PROVE DropsDead'
    BY <1>2 DEF Claim
<1>3. ASSUME NEW t \in Dialers, Recheck(t) PROVE DropsDead'
    BY <1>3 DEF Recheck
<1>4. ASSUME NEW t \in Dialers, Drop(t) PROVE DropsDead'
    BY <1>4 DEF Drop
<1>5. ASSUME NEW t \in Dialers, DialOk(t) PROVE DropsDead'
    BY <1>5 DEF DialOk
<1>6. ASSUME NEW t \in Dialers, DialFails(t) PROVE DropsDead'
    BY <1>6 DEF DialFails
<1>7. ASSUME NEW t \in Dialers, Apply(t) PROVE DropsDead'
    BY <1>7 DEF Apply
<1>8. ASSUME NEW t \in Dialers, ApplyFails(t) PROVE DropsDead'
    BY <1>8 DEF ApplyFails
<1>9. ASSUME NEW t \in Dialers, Swap(t) PROVE DropsDead'
    BY <1>9 DEF Swap
<1>10. ASSUME NEW p \in Pubs, PublishStep(p) PROVE DropsDead'
    BY <1>10 DEF PublishStep, Acquire, Publish, ReportSend
<1>11. ASSUME NEW k \in Keys, BindHandler(k) PROVE DropsDead'
    BY <1>11 DEF BindHandler
<1>12. CASE CloseReturns
    BY <1>12 DEF CloseReturns
<1>13. CASE ReportConsume
    BY <1>13 DEF ReportConsume
<1>14. ASSUME NEW c \in Conns, Drops(c) PROVE DropsDead'
    BY <1>14 DEF Drops
<1>15. CASE BrokerChanges
    BY <1>15 DEF BrokerChanges
<1>16. CASE UNCHANGED <<pc, conn, isConnected, open>>
    BY <1>16
<1> QED
    BY <1>1, <1>2, <1>3, <1>4, <1>5, <1>6, <1>7, <1>8, <1>9, <1>10, <1>11, <1>12,
       <1>13, <1>14, <1>15, <1>16
    DEF Next, DialerStep, ConsumerStep, RegisterStep, ConsumerTurns, Consume,
        WorkersGone, ConsumerStops, CloseBegins, BrokerCalms, Insert, StoreInfo,
        ChannelFails, vars

\* The handlers lock keeps what a dialer has bound up to date until its swap.
LEMMA HandlersStep == Inv /\ [Next]_vars => HandlersKnown'
<1> SUFFICES ASSUME Inv, [Next]_vars PROVE HandlersKnown'
    OBVIOUS
<1> USE NamesAssumption DEF Inv, TypeOK, OneDialer, InDial, HandlersKnown, handlersLocked, Unused, Dialers
<1>1. ASSUME NEW t \in Dialers, Begin(t) PROVE HandlersKnown'
    BY <1>1 DEF Begin
<1>2. ASSUME NEW t \in Dialers, Claim(t) PROVE HandlersKnown'
    BY <1>2 DEF Claim
<1>3. ASSUME NEW t \in Dialers, Recheck(t) PROVE HandlersKnown'
    BY <1>3 DEF Recheck
<1>4. ASSUME NEW t \in Dialers, Drop(t) PROVE HandlersKnown'
    BY <1>4 DEF Drop
<1>5. ASSUME NEW t \in Dialers, DialOk(t) PROVE HandlersKnown'
    BY <1>5 DEF DialOk
<1>6. ASSUME NEW t \in Dialers, DialFails(t) PROVE HandlersKnown'
    BY <1>6 DEF DialFails
<1>7. ASSUME NEW t \in Dialers, Apply(t) PROVE HandlersKnown'
    BY <1>7 DEF Apply
<1>8. ASSUME NEW t \in Dialers, ApplyFails(t) PROVE HandlersKnown'
    BY <1>8 DEF ApplyFails
<1>9. ASSUME NEW t \in Dialers, Swap(t) PROVE HandlersKnown'
    BY <1>9 DEF Swap
<1>10. ASSUME NEW p \in Pubs, Acquire(p) PROVE HandlersKnown'
    BY <1>10 DEF Acquire
<1>11. ASSUME NEW p \in Pubs, Publish(p) PROVE HandlersKnown'
    BY <1>11 DEF Publish
<1>12. ASSUME NEW p \in Pubs, ReportSend(p) PROVE HandlersKnown'
    BY <1>12 DEF ReportSend
<1>13. ASSUME NEW k \in Keys, Insert(k) PROVE HandlersKnown'
    BY <1>13 DEF Insert
<1>14. ASSUME NEW k \in Keys, StoreInfo(k) PROVE HandlersKnown'
    BY <1>14 DEF StoreInfo
<1>15. ASSUME NEW k \in Keys, BindHandler(k) PROVE HandlersKnown'
    BY <1>15 DEF BindHandler
<1>16. CASE UNCHANGED <<pc, fresh, handlers, reg, applied>>
    BY <1>16
<1> QED
    BY <1>1, <1>2, <1>3, <1>4, <1>5, <1>6, <1>7, <1>8, <1>9, <1>10, <1>11, <1>12,
       <1>13, <1>14, <1>15, <1>16
    DEF Next, DialerStep, PublishStep, ConsumerStep, RegisterStep, ConsumerTurns,
        Consume, WorkersGone, ReportConsume, ConsumerStops, CloseBegins,
        CloseReturns, BrokerChanges, BrokerCalms, Drops, ChannelFails, vars

\* A swap brings a connection with all handlers bound, and a bind that fails ends it.
LEMMA BoundStep == Inv /\ [Next]_vars => BoundWhileConnected'
<1> SUFFICES ASSUME Inv, [Next]_vars PROVE BoundWhileConnected'
    OBVIOUS
<1> USE NamesAssumption DEF Inv, TypeOK, OneDialer, InDial, HandlersKnown, BoundWhileConnected, Unused, Dialers
<1>1. ASSUME NEW t \in Dialers, Drop(t) PROVE BoundWhileConnected'
    BY <1>1 DEF Drop
<1>2. ASSUME NEW t \in Dialers, DialOk(t) PROVE BoundWhileConnected'
    BY <1>2 DEF DialOk
<1>3. ASSUME NEW t \in Dialers, Apply(t) PROVE BoundWhileConnected'
    BY <1>3 DEF Apply
<1>4. ASSUME NEW t \in Dialers, Swap(t) PROVE BoundWhileConnected'
    BY <1>4 DEF Swap
<1>5. ASSUME NEW p \in Pubs, ReportSend(p) PROVE BoundWhileConnected'
    BY <1>5 DEF ReportSend
<1>6. CASE ReportConsume
    BY <1>6 DEF ReportConsume
<1>7. ASSUME NEW k \in Keys, Insert(k) PROVE BoundWhileConnected'
    BY <1>7 DEF Insert
<1>8. ASSUME NEW k \in Keys, StoreInfo(k) PROVE BoundWhileConnected'
    BY <1>8 DEF StoreInfo
<1>9. ASSUME NEW k \in Keys, BindHandler(k) PROVE BoundWhileConnected'
  <2>1. CASE ~isConnected' \/ conn' = Nil
      BY <2>1
  <2>2. CASE isConnected' /\ conn' # Nil
    <3>1. conn' = conn /\ isConnected /\ applied' = [applied EXCEPT ![conn] = @ \cup {k}]
        BY <1>9, <2>2 DEF BindHandler
    <3>2. reg' = [reg EXCEPT ![k] = "done"]
        BY <1>9 DEF BindHandler
    <3> QED
        BY <2>2, <3>1, <3>2
  <2> QED
      BY <2>1, <2>2
<1>10. CASE CloseReturns
    BY <1>10 DEF CloseReturns
<1>11. CASE UNCHANGED <<isConnected, conn, reg, applied>>
    BY <1>11
<1> QED
    BY <1>1, <1>2, <1>3, <1>4, <1>5, <1>6, <1>7, <1>8, <1>9, <1>10, <1>11
    DEF Next, DialerStep, PublishStep, ConsumerStep, RegisterStep, Begin, Claim,
        Recheck, DialFails, ApplyFails, Acquire, Publish, ConsumerTurns, Consume,
        WorkersGone, ConsumerStops, CloseBegins, BrokerChanges, BrokerCalms, Drops,
        ChannelFails, vars

\* What is open is closed before it is forgotten.
LEMMA LeakStep == Inv /\ [Next]_vars => NoLeak'
<1> SUFFICES ASSUME Inv, [Next]_vars PROVE NoLeak'
    OBVIOUS
<1> USE NamesAssumption DEF Inv, TypeOK, OneDialer, InDial, NoLeak, Unused, Dialers
<1>1. ASSUME NEW t \in Dialers, Drop(t) PROVE NoLeak'
    BY <1>1 DEF Drop
<1>2. ASSUME NEW t \in Dialers, DialOk(t) PROVE NoLeak'
    BY <1>2 DEF DialOk
<1>3. ASSUME NEW t \in Dialers, ApplyFails(t) PROVE NoLeak'
    BY <1>3 DEF ApplyFails
<1>4. ASSUME NEW t \in Dialers, Swap(t) PROVE NoLeak'
    BY <1>4 DEF Swap
<1>5. CASE CloseReturns
    BY <1>5 DEF CloseReturns
<1>6. ASSUME NEW c \in Conns, Drops(c) PROVE NoLeak'
    BY <1>6 DEF Drops
<1>7. CASE BrokerChanges
    BY <1>7 DEF BrokerChanges
<1>8. CASE UNCHANGED <<open, conn, fresh>>
    BY <1>8
<1> QED
    BY <1>1, <1>2, <1>3, <1>4, <1>5, <1>6, <1>7, <1>8
    DEF Next, DialerStep, PublishStep, ConsumerStep, RegisterStep, Begin, Claim,
        Recheck, DialFails, Apply, Acquire, Publish, ReportSend, ConsumerTurns,
        Consume, WorkersGone, ReportConsume, ConsumerStops, CloseBegins,
        BrokerCalms, Insert, StoreInfo, BindHandler, ChannelFails, vars

\* After Close a dial that lands is closed again.
LEMMA ClosedStep == Inv /\ [Next]_vars => ClosedForGood'
<1> SUFFICES ASSUME Inv, [Next]_vars PROVE ClosedForGood'
    OBVIOUS
<1> USE NamesAssumption DEF Inv, TypeOK, OneDialer, InDial, NoLeak, ClosedForGood, Unused, Dialers
<1>1. ASSUME NEW t \in Dialers, Drop(t) PROVE ClosedForGood'
    BY <1>1 DEF Drop
<1>2. ASSUME NEW t \in Dialers, DialOk(t) PROVE ClosedForGood'
    BY <1>2 DEF DialOk
<1>3. ASSUME NEW t \in Dialers, ApplyFails(t) PROVE ClosedForGood'
    BY <1>3 DEF ApplyFails
<1>4. ASSUME NEW t \in Dialers, Swap(t) PROVE ClosedForGood'
    BY <1>4 DEF Swap
<1>5. ASSUME NEW p \in Pubs, ReportSend(p) PROVE ClosedForGood'
    BY <1>5 DEF ReportSend
<1>6. CASE ReportConsume
    BY <1>6 DEF ReportConsume
<1>7. ASSUME NEW k \in Keys, BindHandler(k) PROVE ClosedForGood'
    BY <1>7 DEF BindHandler
<1>8. CASE CloseBegins
    BY <1>8 DEF CloseBegins
<1>9. CASE CloseReturns
    BY <1>9 DEF CloseReturns
<1>10. ASSUME NEW c \in Conns, Drops(c) PROVE ClosedForGood'
    BY <1>10 DEF Drops
<1>11. CASE BrokerChanges
    BY <1>11 DEF BrokerChanges
<1>12. CASE UNCHANGED <<open, isConnected, fresh, close>>
    BY <1>12
<1> QED
    BY <1>1, <1>2, <1>3, <1>4, <1>5, <1>6, <1>7, <1>8, <1>9, <1>10, <1>11, <1>12
    DEF Next, DialerStep, PublishStep, ConsumerStep, RegisterStep, Begin, Claim,
        Recheck, DialFails, Apply, Acquire, Publish, ConsumerTurns, Consume,
        WorkersGone, ConsumerStops, BrokerCalms, Insert, StoreInfo, ChannelFails,
        vars
-----------------------------------------------------------------------------
(* The theorems                                                            *)

\* Every step keeps the inductive invariant.
LEMMA NextInv == Inv /\ [Next]_vars => Inv'
BY TypeStep, OneDialerStep, FlagStep, DropsStep, HandlersStep, BoundStep, LeakStep, ClosedStep
DEF Inv

\* The inductive invariant holds in every reachable state.
LEMMA SpecInv == Spec => []Inv
BY InitInv, NextInv, PTL DEF Spec

\* Every variable keeps its type.
THEOREM TypeCorrect == Spec => []TypeOK
BY SpecInv, PTL DEF Inv

\* An open socket is the client's or the dial's in flight (connect, dropConnection).
THEOREM NoSocketLost == Spec => []NoLeak
BY SpecInv, PTL DEF Inv

\* Every way out of a dial gives the flag back: it is never left set with nobody dialling,
\* which would keep the client disconnected for good (connect).
THEOREM FlagGivenBack == Spec => []FlagOwned
BY SpecInv, PTL DEF Inv

\* A connection that counts as connected and is open is kept: no dialer drops it, however
\* long ago it looked (connect, dropConnection).  This is what is true of rabbitmq.go:332;
\* a late report may still have made a healthy connection count as disconnected.
THEOREM LiveIsKept == Spec => [][conn' # conn => ~live]_vars
<1>1. Inv /\ [Next]_vars => [conn' # conn => ~live]_vars
  <2> SUFFICES ASSUME Inv, Next, conn' # conn PROVE ~live
      BY DEF vars
  <2>1. \E t \in Dialers : Drop(t) \/ Swap(t)
      BY DEF Next, DialerStep, PublishStep, ConsumerStep, RegisterStep, Begin, Claim,
             Recheck, DialOk, DialFails, Apply, ApplyFails, Acquire, Publish, ReportSend,
             ConsumerTurns, Consume, WorkersGone, ReportConsume, ConsumerStops, Insert,
             StoreInfo, BindHandler, CloseBegins, CloseReturns, Drops, ChannelFails,
             BrokerChanges, BrokerCalms
  <2>2. PICK t \in Dialers : pc[t] = "drop" \/ pc[t] = "swap"
      BY <2>1 DEF Drop, Swap
  <2> QED
      BY <2>2, NamesAssumption DEF Inv, TypeOK, OneDialer, DropsDead
<1> QED
    BY SpecInv, <1>1, PTL DEF Spec

\* A client whose Close has returned is never connected again, and leaves only what a
\* dial in flight still has to close (establish, Close).
THEOREM StaysClosed == Spec => []ClosedForGood
BY SpecInv, PTL DEF Inv

\* On the connection in use every registered handler is bound (establish,
\* bindRegisteredHandlers, bindHandler).
THEOREM HandlersBound == Spec => []RegisteredIsBound
<1>1. Inv => RegisteredIsBound
    BY NamesAssumption DEF Inv, TypeOK, BoundWhileConnected, RegisteredIsBound
<1> QED
    BY SpecInv, <1>1, PTL
=============================================================================
