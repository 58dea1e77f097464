---------------------------- MODULE Connection ----------------------------
(***************************************************************************)
(* The life of one client's connection (rabbitmq/rabbitmq.go): the dial    *)
(* that several goroutines compete for, the swap of the new connection,    *)
(* the reports that mark it broken, the handlers bound on it, and Close.   *)
(*                                                                         *)
(* A section under c.mu is one step.  The dialers are the monitor and the  *)
(* calls of Publish; a connection stands for its socket, its consumer      *)
(* channel and its publish channel.  Connections nobody refers to any more *)
(* are used again, so their number bounds only how many exist at once.     *)
(***************************************************************************)
EXTENDS FiniteSets

CONSTANTS
    Conns,      \* the connections that can exist at once
    Monitor,    \* monitorConnection, and the reconnect of Connect before it
    Pubs,       \* the goroutines that call Publish
    Consumer,   \* the consume loop
    Keys,       \* the handlers the application registers
    Nil

Dialers == Pubs \cup {Monitor}

ASSUME NamesAssumption ==
    /\ Monitor \notin Pubs
    /\ Consumer \notin Dialers
    /\ Nil \notin Conns

VARIABLES
    \* the broker
    up,             \* it can be reached
    refused,        \* it refuses the topology
    calm,           \* the broker and the network will not change any more
    open,           \* connections whose socket is open
    ch, pubCh,      \* connections whose consumer, whose publish channel is open
    applied,        \* the bindings made over a connection
    \* the client
    conn,           \* c.conn, with c.ch, c.pubCh and c.returns
    isConnected,
    setupErr,       \* the last dial was answered by a refused topology
    dialing,
    handlers,       \* the keys of c.handlers
    close,          \* Close: not called, draining after close(done), returned
    \* the goroutines
    pc, fresh,      \* a dialer, and the connection it is setting up
    held,           \* the connection whose channel a goroutine works with
    con,            \* the consume loop
    reg             \* a call of registerHandler

broker == <<up, refused, calm, open, ch, pubCh, applied>>
client == <<conn, isConnected, setupErr, dialing, handlers, close>>
vars == <<broker, client, pc, fresh, held, con, reg>>

TypeOK ==
    /\ up \in BOOLEAN /\ refused \in BOOLEAN /\ calm \in BOOLEAN
    /\ open \in SUBSET Conns /\ ch \in SUBSET open /\ pubCh \in SUBSET open
    /\ applied \in [Conns -> SUBSET Keys]
    /\ conn \in Conns \cup {Nil}
    /\ isConnected \in BOOLEAN /\ setupErr \in BOOLEAN /\ dialing \in BOOLEAN
    /\ handlers \in SUBSET Keys
    /\ close \in {"no", "draining", "returned"}
    /\ pc \in [Dialers -> {"idle", "claim", "recheck", "drop", "dial", "apply", "swap",
                           "send", "sent", "report"}]
    /\ fresh \in [Dialers -> Conns \cup {Nil}]
    /\ held \in [Pubs \cup {Consumer} -> Conns \cup {Nil}]
    /\ con \in {"idle", "starting", "consuming", "report", "stopped"}
    /\ reg \in [Keys -> {"new", "inserted", "stored", "done", "failed"}]

\* A client whose first dial has not landed.
Init ==
    /\ up \in BOOLEAN /\ refused = FALSE /\ calm = FALSE
    /\ open = {} /\ ch = {} /\ pubCh = {}
    /\ applied = [c \in Conns |-> {}]
    /\ conn = Nil /\ isConnected = FALSE /\ setupErr = FALSE /\ dialing = FALSE
    /\ handlers = {}
    /\ close = "no"
    /\ pc = [t \in Dialers |-> "idle"]
    /\ fresh = [t \in Dialers |-> Nil]
    /\ held = [t \in Pubs \cup {Consumer} |-> Nil]
    /\ con = "idle"
    /\ reg = [k \in Keys |-> "new"]

done == close # "no"

live == isConnected /\ conn \in open

\* handlersMu is held for reading from applyTopology to the end of establish.
handlersLocked == \E t \in Dialers : pc[t] = "swap"

Goto(t, p) == pc' = [pc EXCEPT ![t] = p]

\* A Publish goes on to its send, the monitor back to its ticker.
Connected(t) == Goto(t, IF t \in Pubs THEN "send" ELSE "idle")

CloseSockets(S) ==
    /\ open' = open \ S
    /\ ch' = ch \ S
    /\ pubCh' = pubCh \ S

-----------------------------------------------------------------------------
(* connect                                                                 *)

\* A caller that finds the client connected does not reconnect, and a closed
\* client does not either.
Begin(t) ==
    /\ pc[t] = "idle"
    /\ \/ live /\ t \in Pubs /\ Goto(t, "send")
       \/ ~live /\ ~done /\ Goto(t, "claim")
    /\ UNCHANGED <<broker, client, fresh, held, con, reg>>

\* Mutant: nothing keeps two callers from dialling at once.
ClaimAlways(t) ==
    /\ pc[t] = "claim"
    /\ Goto(t, "recheck")
    /\ dialing' = TRUE
    /\ UNCHANGED <<broker, conn, isConnected, setupErr, handlers, close, fresh, held, con, reg>>

\* Whoever finds a dial in flight gives up with pendingErr.
Claim(t) ==
    /\ pc[t] = "claim"
    /\ IF dialing THEN Goto(t, "idle") /\ UNCHANGED dialing
                  ELSE Goto(t, "recheck") /\ dialing' = TRUE
    /\ UNCHANGED <<broker, conn, isConnected, setupErr, handlers, close, fresh, held, con, reg>>

Recheck(t) ==
    /\ pc[t] = "recheck"
    /\ IF live THEN Connected(t) /\ dialing' = FALSE
               ELSE Goto(t, "drop") /\ UNCHANGED dialing
    /\ UNCHANGED <<broker, conn, isConnected, setupErr, handlers, close, fresh, held, con, reg>>

\* dropConnection forgets the connection, and closes it if it is still open.
Drop(t) ==
    /\ pc[t] = "drop"
    /\ CloseSockets({conn})
    /\ conn' = Nil
    /\ isConnected' = FALSE
    /\ Goto(t, "dial")
    /\ UNCHANGED <<up, refused, calm, applied, setupErr, dialing, handlers, close, fresh, held,
                   con, reg>>

\* Nobody holds a pointer to it: the next dial may be given this name.
Unused(c) ==
    /\ c # conn /\ c \notin open
    /\ \A t \in Dialers : fresh[t] # c
    /\ \A t \in Pubs \cup {Consumer} : held[t] # c

\* dial: the socket and both channels, or nothing.
DialOk(t) ==
    /\ pc[t] = "dial"
    /\ up
    /\ \E c \in Conns :
         /\ Unused(c)
         /\ fresh' = [fresh EXCEPT ![t] = c]
         /\ open' = open \cup {c} /\ ch' = ch \cup {c} /\ pubCh' = pubCh \cup {c}
         /\ applied' = [applied EXCEPT ![c] = {}]
    /\ Goto(t, "apply")
    /\ UNCHANGED <<up, refused, calm, client, held, con, reg>>

\* Mutant: a failed dial does not give the flag back.
DialFailsHolding(t) ==
    /\ pc[t] = "dial"
    /\ ~up
    /\ setupErr' = FALSE
    /\ Goto(t, "idle")
    /\ UNCHANGED <<broker, conn, isConnected, dialing, handlers, close, fresh, held, con, reg>>

DialFails(t) ==
    /\ pc[t] = "dial"
    /\ ~up
    /\ setupErr' = FALSE
    /\ dialing' = FALSE
    /\ Goto(t, "idle")
    /\ UNCHANGED <<broker, conn, isConnected, handlers, close, fresh, held, con, reg>>

\* establish, first half: the topology and every registered handler, with
\* handlersMu read-locked from here to the swap.
Apply(t) ==
    /\ pc[t] = "apply"
    /\ fresh[t] \in ch /\ ~refused
    /\ applied' = [applied EXCEPT ![fresh[t]] = handlers]
    /\ Goto(t, "swap")
    /\ UNCHANGED <<up, refused, calm, open, ch, pubCh, client, fresh, held, con, reg>>

\* The broker refuses the topology, or the connection is lost under it.
ApplyFails(t) ==
    /\ pc[t] = "apply"
    /\ refused \/ fresh[t] \notin ch
    /\ CloseSockets({fresh[t]})
    /\ setupErr' = (refused /\ fresh[t] \in ch)
    /\ dialing' = FALSE
    /\ fresh' = [fresh EXCEPT ![t] = Nil]
    /\ Goto(t, "idle")
    /\ UNCHANGED <<up, refused, calm, applied, conn, isConnected, handlers, close, held, con, reg>>

\* Mutants: establish does not look for a Close; it leaves the last rejection.
SwapAlways(t) ==
    /\ pc[t] = "swap"
    /\ fresh' = [fresh EXCEPT ![t] = Nil]
    /\ setupErr' = FALSE
    /\ dialing' = FALSE
    /\ conn' = fresh[t]
    /\ isConnected' = TRUE
    /\ Connected(t)
    /\ UNCHANGED <<broker, handlers, close, held, con, reg>>

SwapRejected(t) ==
    /\ pc[t] = "swap"
    /\ ~done
    /\ fresh' = [fresh EXCEPT ![t] = Nil]
    /\ dialing' = FALSE
    /\ conn' = fresh[t]
    /\ isConnected' = TRUE
    /\ Connected(t)
    /\ UNCHANGED <<broker, setupErr, handlers, close, held, con, reg>>

\* establish, second half, under c.mu.  A Close meanwhile wins.
Swap(t) ==
    /\ pc[t] = "swap"
    /\ fresh' = [fresh EXCEPT ![t] = Nil]
    /\ setupErr' = FALSE
    /\ dialing' = FALSE
    /\ IF done
         THEN /\ CloseSockets({fresh[t]})
              /\ Goto(t, "idle")
              /\ UNCHANGED <<conn, isConnected>>
         ELSE /\ conn' = fresh[t]
              /\ isConnected' = TRUE
              /\ Connected(t)
              /\ UNCHANGED <<open, ch, pubCh>>
    /\ UNCHANGED <<up, refused, calm, applied, handlers, close, held, con, reg>>

-----------------------------------------------------------------------------
(* publishConfirmed, as far as the connection goes                         *)

\* publishChannel.
Acquire(p) ==
    /\ pc[p] = "send"
    /\ IF live THEN held' = [held EXCEPT ![p] = conn] /\ Goto(p, "sent")
               ELSE UNCHANGED held /\ Goto(p, "idle")
    /\ UNCHANGED <<broker, client, fresh, con, reg>>

\* The send, and the wait for its confirm.  Only a failed send of a caller that
\* has not given up is reported.
Publish(p) ==
    /\ pc[p] = "sent"
    /\ \/ Goto(p, "idle") /\ held' = [held EXCEPT ![p] = Nil]
       \/ held[p] \notin pubCh /\ Goto(p, "report") /\ UNCHANGED held
    /\ UNCHANGED <<broker, client, fresh, con, reg>>

\* setConnected(false), of whatever connection is current by now.
ReportSend(p) ==
    /\ pc[p] = "report"
    /\ isConnected' = FALSE
    /\ held' = [held EXCEPT ![p] = Nil]
    /\ Goto(p, "idle")
    /\ UNCHANGED <<broker, conn, setupErr, dialing, handlers, close, fresh, con, reg>>

-----------------------------------------------------------------------------
(* The consume loop                                                        *)

\* One turn of the loop: connected(), and nothing else while it is not.
ConsumerTurns ==
    /\ con = "idle" /\ ~done
    /\ live
    /\ con' = "starting"
    /\ UNCHANGED <<broker, client, pc, fresh, held, reg>>

\* withConsumerChannel and ch.Consume, which fails on a closed channel.
Consume ==
    /\ con = "starting"
    /\ IF live /\ conn \in ch
         THEN con' = "consuming" /\ held' = [held EXCEPT ![Consumer] = conn]
         ELSE con' = "report" /\ UNCHANGED held
    /\ UNCHANGED <<broker, client, pc, fresh, reg>>

\* The deliveries end with their channel, and workers.Wait returns once the last
\* handler does.
WorkersGone ==
    /\ con = "consuming"
    /\ held[Consumer] \notin ch
    /\ con' = IF done THEN "stopped" ELSE "report"
    /\ held' = [held EXCEPT ![Consumer] = Nil]
    /\ UNCHANGED <<broker, client, pc, fresh, reg>>

ReportConsume ==
    /\ con = "report"
    /\ isConnected' = FALSE
    /\ con' = "idle"
    /\ UNCHANGED <<broker, conn, setupErr, dialing, handlers, close, pc, fresh, held, reg>>

\* done, or the context of Start, ends the loop, also in mid-channel.
ConsumerStops ==
    /\ con \in {"idle", "consuming"}
    /\ con' = "stopped"
    /\ held' = [held EXCEPT ![Consumer] = Nil]
    /\ UNCHANGED <<broker, client, pc, fresh, reg>>

-----------------------------------------------------------------------------
(* registerHandler                                                         *)

\* Mutant: the handler is inserted without handlersMu.
InsertUnlocked(k) ==
    /\ reg[k] = "new"
    /\ handlers' = handlers \cup {k}
    /\ reg' = [reg EXCEPT ![k] = "inserted"]
    /\ UNCHANGED <<broker, conn, isConnected, setupErr, dialing, close, pc, fresh, held, con>>

Insert(k) ==
    /\ reg[k] = "new"
    /\ ~handlersLocked
    /\ handlers' = handlers \cup {k}
    /\ reg' = [reg EXCEPT ![k] = "inserted"]
    /\ UNCHANGED <<broker, conn, isConnected, setupErr, dialing, close, pc, fresh, held, con>>

\* storeHandlerInfo, after which a failure takes the handler back.
StoreInfo(k) ==
    /\ reg[k] = "inserted"
    /\ \/ /\ reg' = [reg EXCEPT ![k] = "stored"]
          /\ UNCHANGED handlers
       \/ /\ ~handlersLocked
          /\ handlers' = handlers \ {k}
          /\ reg' = [reg EXCEPT ![k] = "failed"]
    /\ UNCHANGED <<broker, conn, isConnected, setupErr, dialing, close, pc, fresh, held, con>>

\* bindHandler, under c.mu.  It asks isConnected, not live: over a dead
\* connection the bind fails, and so it may over a live one, which costs the
\* channel.
BindHandler(k) ==
    /\ reg[k] = "stored"
    /\ reg' = [reg EXCEPT ![k] = "done"]
    /\ \/ /\ ~isConnected \/ conn = Nil
          /\ UNCHANGED <<applied, isConnected, ch>>
       \/ /\ isConnected /\ conn \in ch
          /\ applied' = [applied EXCEPT ![conn] = @ \cup {k}]
          /\ UNCHANGED <<isConnected, ch>>
       \/ /\ isConnected /\ conn # Nil
          /\ isConnected' = FALSE
          /\ ch' = ch \ {conn}
          /\ UNCHANGED applied
    /\ UNCHANGED <<up, refused, calm, open, pubCh, conn, setupErr, dialing, handlers, close, pc,
                   fresh, held, con>>

-----------------------------------------------------------------------------
(* Close                                                                   *)

\* close(done), then cancelConsumer: the broker ends the deliveries.
CloseBegins ==
    /\ close = "no"
    /\ close' = "draining"
    /\ UNCHANGED <<broker, conn, isConnected, setupErr, dialing, handlers, pc, fresh, held,
                   con, reg>>

\* The consumer is gone or closeDrainTimeout elapsed.
CloseReturns ==
    /\ close = "draining"
    /\ close' = "returned"
    /\ CloseSockets({conn})
    /\ isConnected' = FALSE
    /\ UNCHANGED <<up, refused, calm, applied, conn, setupErr, dialing, handlers, pc, fresh, held,
                   con, reg>>

-----------------------------------------------------------------------------
(* The broker                                                              *)

Drops(c) ==
    /\ ~calm
    /\ c \in open
    /\ CloseSockets({c})
    /\ UNCHANGED <<up, refused, calm, applied, client, pc, fresh, held, con, reg>>

\* A channel exception closes one channel and leaves the socket.
ChannelFails(c) ==
    /\ ~calm
    /\ \/ c \in ch /\ ch' = ch \ {c} /\ UNCHANGED pubCh
       \/ c \in pubCh /\ pubCh' = pubCh \ {c} /\ UNCHANGED ch
    /\ UNCHANGED <<up, refused, calm, open, applied, client, pc, fresh, held, con, reg>>

BrokerChanges ==
    /\ ~calm
    /\ \/ up' = ~up /\ UNCHANGED refused /\ CloseSockets(IF up THEN open ELSE {})
       \/ refused' = ~refused /\ UNCHANGED <<up, open, ch, pubCh>>
    /\ UNCHANGED <<calm, applied, client, pc, fresh, held, con, reg>>

BrokerCalms ==
    /\ ~calm /\ calm' = TRUE
    /\ UNCHANGED <<up, refused, open, ch, pubCh, applied, client, pc, fresh, held, con, reg>>

-----------------------------------------------------------------------------

DialerStep(t) ==
    \/ Claim(t) \/ Recheck(t) \/ Drop(t) \/ DialOk(t) \/ DialFails(t)
    \/ Apply(t) \/ ApplyFails(t) \/ Swap(t)

PublishStep(p) == Acquire(p) \/ Publish(p) \/ ReportSend(p)

ConsumerStep == ConsumerTurns \/ Consume \/ WorkersGone \/ ReportConsume \/ ConsumerStops

RegisterStep(k) == Insert(k) \/ StoreInfo(k) \/ BindHandler(k)

Next ==
    \/ \E t \in Dialers : Begin(t) \/ DialerStep(t)
    \/ \E p \in Pubs : PublishStep(p)
    \/ ConsumerStep
    \/ \E k \in Keys : RegisterStep(k)
    \/ CloseBegins \/ CloseReturns
    \/ \E c \in Conns : Drops(c) \/ ChannelFails(c)
    \/ BrokerChanges \/ BrokerCalms

\* The monitor's ticker, and whoever has taken the dial, go on; so does a Publish
\* that holds a channel.  Handlers need not return, so the consume loop is not fair.
Fairness ==
    /\ WF_vars(Begin(Monitor))
    /\ \A t \in Dialers : WF_vars(DialerStep(t))
    /\ \A p \in Pubs : WF_vars(PublishStep(p))

Spec == Init /\ [][Next]_vars

FairSpec == Spec /\ Fairness

-----------------------------------------------------------------------------
(* Properties                                                              *)

\* No socket is lost track of: one that is open is the client's, or belongs to
\* the dial in flight (rabbitmq/rabbitmq.go:340-359, 446-455), however Close,
\* drops and dials overlap.
NoLeak ==
    \A c \in open : c = conn \/ \E t \in Dialers : fresh[t] = c

\* Once Close has returned the client is never connected again, and the dial it
\* overtook leaves nothing open (rabbitmq/rabbitmq.go:433, 478-496).
ClosedForGood ==
    close = "returned" =>
        /\ ~isConnected
        /\ \A c \in open : \E t \in Dialers : fresh[t] = c

\* rabbitmq.go:420: a handler whose registration has returned is bound on the
\* connection in use, by the registration or by establish.
RegisteredIsBound ==
    live => \A k \in Keys : reg[k] = "done" => k \in applied[conn]

\* Once the broker stays reachable and accepts the topology, a client that is not
\* closed is connected again and again (rabbitmq/common.go:234-244): no order of
\* claims, failed dials and reports leaves it disconnected with nobody dialling.
Heals ==
    calm /\ up /\ ~refused ~> live \/ done

\* A rejection is not answered for ever: setupErr, which pendingErr returns
\* instead of caching (rabbitmq/rabbitmq.go:747-753), goes once the broker accepts
\* the topology again or can no longer be reached.
RejectionClears ==
    setupErr ~> ~setupErr \/ refused \/ done

\* rabbitmq.go:332: "only the first one may redial, or a live connection gets
\* replaced under a publish in flight".
ReplacesOnlyBroken ==
    [][\A t \in Dialers : Drop(t) => conn \notin open \cap ch \cap pubCh]_vars
=============================================================================
