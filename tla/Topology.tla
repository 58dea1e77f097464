------------------------------ MODULE Topology ------------------------------
(***************************************************************************)
(* Clients of several applications and versions at one broker             *)
(* (rabbitmq/rabbitmq.go): the setup of each, and the topology it declares *)
(* on every connection, exchanges, the queue with its dead-letter and      *)
(* retry queues, and their bindings, one declaration after the other.      *)
(* Their declarations interleave, a connection may be lost after any of    *)
(* them, and the broker may refuse one because of what another version has *)
(* declared.  Clients that came through also share a store (CacheKeys) and *)
(* receive each other's messages (Routing).                                *)
(***************************************************************************)
EXTENDS Routing, CacheKeys, Integers

CONSTANTS
    Clients,        \* [setup, handlers]: applications and their versions
    Types, Routes,  \* of the messages that are published
    MsgIDs,         \* which have no separator
    NoArgument,     \* the value of an argument that is not given
    MaxClients      \* bound on the clients that connect

VARIABLES
    broker,     \* the exchanges, queues and bindings it has
    todo,       \* what a client has still to declare on its connection
    started,    \* clients that have connected
    accepted,   \* clients whose whole topology was accepted at some time
    refused     \* clients whose topology was refused at some time

topology == <<broker, todo, started, accepted, refused>>

-----------------------------------------------------------------------------
(* Setup; a name is a sequence of words, a time is in microseconds         *)

NewSetup(exchange, app) ==
    [exchangeName |-> exchange, appName |-> app, isConsumer |-> FALSE,
     queueName |-> <<>>, dlqName |-> <<>>, retryName |-> <<>>,
     withRetry |-> FALSE, retryCount |-> 0, retryInterval |-> 0,
     confirmTimeout |-> 5000000, preFetchCount |-> 0, concurrency |-> 1]

WithConsumer(s, queue) ==
    [s EXCEPT !.isConsumer = TRUE, !.queueName = queue,
              !.dlqName = queue \o <<".dlq">>, !.retryName = queue \o <<".retry">>]

WithRetry(s, count, interval) ==
    [s EXCEPT !.withRetry = TRUE, !.retryCount = count, !.retryInterval = interval]

\* Mutant: the interval is not looked at.
validateCountOnly(s) ==
    /\ s.exchangeName # <<>> /\ s.appName # <<>>
    /\ s.withRetry => s.retryCount > 0
    /\ s.confirmTimeout > 0
    /\ s.concurrency >= 1
    /\ s.preFetchCount > 0 => s.concurrency <= s.preFetchCount

validate(s) ==
    /\ s.exchangeName # <<>> /\ s.appName # <<>>
    /\ s.withRetry => s.retryCount > 0 /\ s.retryInterval > 0
    /\ s.confirmTimeout > 0
    /\ s.concurrency >= 1
    /\ s.preFetchCount > 0 => s.concurrency <= s.preFetchCount

\* What the builders above, in any order the types of the code allow, make of a setup.
Built(s) ==
    /\ s.isConsumer \in BOOLEAN /\ s.withRetry \in BOOLEAN /\ s.retryInterval \in Int
    /\ s.withRetry => s.isConsumer
    /\ s.queueName \in Seq(STRING)
    /\ IF s.isConsumer
         THEN s.dlqName = s.queueName \o <<".dlq">> /\ s.retryName = s.queueName \o <<".retry">>
         ELSE s.queueName = <<>> /\ s.dlqName = <<>> /\ s.retryName = <<>>

\* The queues of a setup, and the exchanges of their names.
OwnNames(s) == {s.queueName, s.dlqName, s.retryName}

\* A queue is given a name, and no queue, dead-letter or retry queue has the name of
\* one of another kind or of an exchange that messages are published to.  Only a
\* consumer has handlers.
ASSUME NamesAssumption ==
    \A c \in Clients :
        /\ Built(c.setup)
        /\ IsFiniteSet(c.handlers)
        /\ IF c.setup.isConsumer THEN c.setup.queueName # <<>> ELSE c.handlers = {}
        /\ \A d \in Clients : d.setup.isConsumer =>
              /\ c.setup.queueName \notin {d.setup.dlqName, d.setup.retryName}
              /\ c.setup.exchangeName \notin OwnNames(d.setup)
              /\ \A h \in c.handlers : h.exchange \notin OwnNames(d.setup)

\* The name of a Go type that is not an instance of a generic one.
IsTypeName(t) == t \in Seq(STRING) /\ Range(t) \cap reservedRouteChars = {}

\* Types are the routed ones, and only a routed type has handlers for one route, which
\* SubscribeRoute has accepted.
ASSUME RoutingAssumption ==
    /\ \A t \in Types : IsTypeName(t)
    /\ \A r \in Routes : r \in Seq(STRING) /\ r # NoRoute
    /\ \A c \in Clients : \A h \in c.handlers :
          /\ IsTypeName(h.type) /\ h.routed \in BOOLEAN
          /\ h.type \in Types \/ h.route # NoRoute => h.routed
          /\ h.route # NoRoute => h.route \in Seq(STRING) /\ SubscribeRoute(h.type, h.route) # {}

\* An id is a UUID, and a name is any string, but handlers bind to no exchange with a star.
ASSUME KeysAssumption ==
    /\ \A id \in MsgIDs : id \in Seq(STRING) /\ Range(id) \cap {":", "*"} = {}
    /\ \A c \in Clients :
          /\ c.setup.appName \in Seq(STRING) /\ c.setup.exchangeName \in Seq(STRING)
          /\ \A h \in c.handlers : h.exchange \in Seq(STRING) /\ "*" \notin Range(h.exchange)

-----------------------------------------------------------------------------
(* Declarations                                                            *)

createTopicExchange(name) == [do |-> "exchange", name |-> name]

createQueue(name, dlx, ttl) == [do |-> "queue", name |-> name, dlx |-> dlx, ttl |-> ttl]

QueueBind(exchange, key, queue) ==
    [do |-> "bind", exchange |-> exchange, key |-> key, queue |-> queue]

\* The declarations that need a retry queue.
IfRetry(s, declaration) == IF s.withRetry THEN <<declaration>> ELSE <<>>

createTopicExchanges(s) ==
    <<createTopicExchange(s.exchangeName)>>
        \o IF ~s.isConsumer THEN <<>>
           ELSE <<createTopicExchange(s.queueName), createTopicExchange(s.dlqName)>>
                    \o IfRetry(s, createTopicExchange(s.retryName))

createQueues(s) ==
    <<createQueue(s.dlqName, NoArgument, NoArgument),
      createQueue(s.queueName, s.dlqName, NoArgument)>>
        \o IfRetry(s, createQueue(s.retryName, s.queueName, s.retryInterval \div 1000))

\* Mutant: the retry queue is opened before the way back from it.
bindQueuesRetryFirst(s) ==
    <<QueueBind(s.dlqName, <<"#">>, s.dlqName)>>
        \o IfRetry(s, QueueBind(s.retryName, <<"#">>, s.retryName))
        \o <<QueueBind(s.queueName, <<"#">>, s.queueName)>>

bindQueues(s) ==
    <<QueueBind(s.dlqName, <<"#">>, s.dlqName), QueueBind(s.queueName, <<"#">>, s.queueName)>>
        \o IfRetry(s, QueueBind(s.retryName, <<"#">>, s.retryName))

\* A handler is registered by Subscribe, or by SubscribeRoute for one route.
BindingKey(h) ==
    IF h.route = NoRoute THEN Subscribe(h.type, h.routed)
    ELSE CHOOSE key \in SubscribeRoute(h.type, h.route) : TRUE

\* Mutant: the exchange is left to the application that owns it.
bindHandlerOnly(s, h) == <<QueueBind(h.exchange, BindingKey(h), s.queueName)>>

\* bindQueueToExchange with tryCreateExchange: the application that owns the
\* exchange may not have started yet.
bindHandlerQueue(s, h) ==
    <<createTopicExchange(h.exchange), QueueBind(h.exchange, BindingKey(h), s.queueName)>>

\* In any order: the handlers are in a map.
bindRegisteredHandlers(c) ==
    {Flattened([i \in DOMAIN order |-> bindHandlerQueue(c.setup, order[i])])
        : order \in Orders(c.handlers)}

\* Mutant: the handlers are bound before the queues of the consumer.
applyTopologyHandlersFirst(c) ==
    LET s == c.setup
    IN  IF ~s.isConsumer THEN {createTopicExchanges(s)}
        ELSE {createTopicExchanges(s) \o createQueues(s) \o binds \o bindQueues(s)
                 : binds \in bindRegisteredHandlers(c)}

applyTopology(c) ==
    LET s == c.setup
    IN  IF ~s.isConsumer THEN {createTopicExchanges(s)}
        ELSE {createTopicExchanges(s) \o createQueues(s) \o bindQueues(s) \o binds
                 : binds \in bindRegisteredHandlers(c)}

-----------------------------------------------------------------------------
(* The broker                                                              *)

Empty == [exchanges |-> {}, queues |-> {}, bindings |-> {}]

\* A queue cannot be declared again with other arguments, a ttl is not negative, and
\* a binding needs its exchange and its queue.
Accepts(d) ==
    CASE d.do = "exchange" -> TRUE
      [] d.do = "queue" -> /\ d.ttl # NoArgument => d.ttl >= 0
                           /\ \A q \in broker.queues : q.name = d.name => q = d
      [] d.do = "bind" -> /\ d.exchange \in broker.exchanges
                          /\ \E q \in broker.queues : q.name = d.queue

Declared(d) ==
    CASE d.do = "exchange" -> [broker EXCEPT !.exchanges = @ \cup {d.name}]
      [] d.do = "queue" -> [broker EXCEPT !.queues = @ \cup {d}]
      [] d.do = "bind" -> [broker EXCEPT !.bindings = @ \cup {d}]

RoutedTo(exchange, key) ==
    {x.queue : x \in {y \in broker.bindings : y.exchange = exchange /\ TopicMatches(y.key, key)}}

\* Where a dead letter of the queue goes, its key unchanged.
DeadLettered(queue, key) ==
    UNION {RoutedTo(q.dlx, key) : q \in {p \in broker.queues : p.name = queue}}

IsBound(queue) == \E x \in broker.bindings : x.queue = queue

-----------------------------------------------------------------------------
(* The clients                                                             *)

TopologyInit ==
    /\ broker = Empty
    /\ todo = [c \in Clients |-> <<>>]
    /\ started = {} /\ accepted = {} /\ refused = {}

\* Connect, which validates the setup, and every reconnect: the topology is applied
\* from its beginning.
Dial(c) ==
    /\ validate(c.setup)
    /\ todo[c] = <<>>
    /\ c \in started \/ Cardinality(started) < MaxClients
    /\ started' = started \cup {c}
    /\ \E declarations \in applyTopology(c) : todo' = [todo EXCEPT ![c] = declarations]
    /\ UNCHANGED <<broker, accepted, refused>>

DeclareNext(c) ==
    /\ todo[c] # <<>>
    /\ Accepts(Head(todo[c]))
    /\ broker' = Declared(Head(todo[c]))
    /\ todo' = [todo EXCEPT ![c] = Tail(@)]
    /\ accepted' = IF Len(todo[c]) = 1 THEN accepted \cup {c} ELSE accepted
    /\ UNCHANGED <<started, refused>>

\* A refused declaration closes the channel, and the rest is not declared.
Rejected(c) ==
    /\ todo[c] # <<>>
    /\ ~Accepts(Head(todo[c]))
    /\ todo' = [todo EXCEPT ![c] = <<>>]
    /\ refused' = refused \cup {c}
    /\ UNCHANGED <<broker, started, accepted>>

ConnectionLost(c) ==
    /\ todo[c] # <<>>
    /\ todo' = [todo EXCEPT ![c] = <<>>]
    /\ UNCHANGED <<broker, started, accepted, refused>>

TopologyNext ==
    \E c \in Clients : Dial(c) \/ DeclareNext(c) \/ Rejected(c) \/ ConnectionLost(c)

TopologySpec == TopologyInit /\ [][TopologyNext]_topology

-----------------------------------------------------------------------------
(* Properties                                                              *)

\* From the moment a message can be on a consumer's queue, and whatever is missing of
\* the topology, what is dead-lettered from there reaches its dead-letter queue and
\* no other (rabbitmq.go:501-519, 566-617).
DeadLettersKept ==
    \A c \in started, t \in Types :
        IsBound(c.setup.queueName) => DeadLettered(c.setup.queueName, t) = {c.setup.dlqName}

\* From the moment a message can be on a retry queue it comes back from there to the
\* queue of its consumer and to no other, also when the version that comes next does
\* not retry (rabbitmq.go:578-590, 604-614).
RetriesComeBack ==
    \A c \in started, t \in Types :
        IsBound(c.setup.retryName) => DeadLettered(c.setup.retryName, t) = {c.setup.queueName}

\* A setup that validate accepts is refused by the broker only because another
\* version declares the same queue otherwise (rabbitmq.go:133-156).
ValidIsAccepted ==
    \A c \in refused : \E d \in started :
        d.setup.queueName = c.setup.queueName /\ d.setup # c.setup

\* The answer to a topology is the same on every attempt, whatever other clients do
\* before and after, and nobody takes away what an accepted client has declared, so
\* that a rejection may be reported for good and a reconnect finds nothing to
\* quarrel with (rabbitmq.go:306-308, 628-640, 729-740).
VerdictStands ==
    /\ accepted \cap refused = {}
    /\ \A c \in accepted : \A declarations \in applyTopology(c) :
          \A d \in Range(declarations) : Accepts(d) /\ Declared(d) = broker

\* The messages of a type, with every route, and their keys.
Sent == UNION {{[type |-> t, route |-> r, key |-> k]
                  : k \in getPublishMessage([type |-> t, routed |-> TRUE, route |-> r])}
               : t \in Types, r \in Routes}

Wants(h, m) == h.type = m.type /\ h.route \in {NoRoute, m.route}

\* A message reaches the queues that are bound for its type, or for its type and
\* route, and no other, whatever separators, wildcards or escapes its route or the
\* routes bound contain, also when one type's name starts with another's
\* (routing.go:28-57, consumer.go:23-53).
RoutesKeptApart ==
    \A m \in Sent, e \in {h.exchange : h \in UNION {c.handlers : c \in started}} :
        RoutedTo(e, m.key) =
            {c.setup.queueName : c \in {d \in started : \E h \in d.handlers :
                /\ h.exchange = e /\ Wants(h, m)
                /\ QueueBind(e, BindingKey(h), d.setup.queueName) \in broker.bindings}}

\* What the broker routes to a client's queue because of a subscription has a handler
\* there, and nothing else has one; a route's own handler goes before the one of the
\* type (consumer.go:244-270).
HandledAsBound ==
    \A c \in accepted, m \in Sent, e \in broker.exchanges :
        LET matching == {h \in c.handlers : h.exchange = e /\ TopicMatches(BindingKey(h), m.key)}
            own == {h \in matching : h.route # NoRoute}
            found == handlerFor({[exchange |-> h.exchange, key |-> BindingKey(h)] : h \in c.handlers},
                                e, m.key)
        IN  /\ matching = {} => found = NoHandler
            /\ matching # {} => found \in {[exchange |-> e, key |-> BindingKey(h)]
                                            : h \in IF own = {} THEN matching ELSE own}

\* The entries a client writes, by what lists them.
MessageKeys(s) == {cacheKey(cacheScope(s), id) : id \in MsgIDs}
LeaseKeys(s) == {leaseKey(cacheScope(s), id) : id \in MsgIDs}
InfoKeys(c) == {handlerInfoCacheKey(cacheScope(c.setup), h.exchange, BindingKey(h)) : h \in c.handlers}

Plain(s) ==
    \A name \in {s.appName, s.exchangeName, s.queueName} : Range(name) \cap {":", "*", "?"} = {}

\* Of the clients that came through and share a store, each lists its own messages and
\* handler infos, no lease, and nothing of another scope, when the names have no
\* separator and no wildcard in them; publishers and consumers list nothing of each other
\* whatever the names (common.go:128-140, 163-171, lease.go:10-12, consumer.go:406).
ScopesApart ==
    \A c, d \in accepted :
        LET s == c.setup
            t == d.setup
            mine == cacheScope(s) = cacheScope(t)
            apart == (Plain(s) /\ Plain(t)) \/ s.isConsumer # t.isConsumer
            Lists(glob, key) == globMatch(glob, key)
        IN  /\ \A key \in MessageKeys(t) :
                  /\ mine => Lists(messageGlob(cacheScope(s)), key)
                  /\ apart /\ ~mine => ~Lists(messageGlob(cacheScope(s)), key)
                  /\ ~Lists(handlerInfoGlob(cacheScope(s)), key)
            /\ \A key \in InfoKeys(d) :
                  /\ mine => Lists(handlerInfoGlob(cacheScope(s)), key)
                  /\ apart /\ ~mine => ~Lists(handlerInfoGlob(cacheScope(s)), key)
                  /\ ~Lists(messageGlob(cacheScope(s)), key)
            /\ \A key \in LeaseKeys(t) :
                  /\ ~Lists(messageGlob(cacheScope(s)), key)
                  /\ ~Lists(handlerInfoGlob(cacheScope(s)), key)

\* The id comes back out of the key, whatever separators the names add, so that
\* replicas agree on the lease of a message (common.go:173-183).
IdOfKey ==
    \A c \in accepted, id \in MsgIDs :
        msgIDFromCacheKey(cacheKey(cacheScope(c.setup), id)) = id
=============================================================================
