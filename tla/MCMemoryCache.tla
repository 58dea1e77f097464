--------------------------- MODULE MCMemoryCache ---------------------------
(* What clients share, for TLC: a store (MemoryCache) and a broker           *)
(* (Topology).  The two do not affect each other, so that a behaviour moves  *)
(* only one of them.                                                         *)
EXTENDS MemoryCache, Topology

\* The sequences of at most n elements of S.
UpTo(S, n) == UNION {[1..k -> S] : k \in 0..n}

T == <<"T">>
TU == <<"T", "U">>
MCTypes == {T, TU}
MCRoutes == UpTo({"a", ".", "#", "%"}, 1) \cup {<<"%", "2", "E">>, <<"a", ".", "#">>}
MCMsgIDs == {<<"1">>, <<"1", "2">>}

MCKeys == {<<"a", "a", "b">>, <<"b", "a">>}
MCPatterns == UpTo({"a", "b", "*", "?"}, 3)

orders == <<"orders">>
bills == <<"bills">>

\* Handlers of a type, and of one route of it.
All(exchange, type) == [exchange |-> exchange, type |-> type, routed |-> TRUE, route |-> NoRoute]
One(exchange, route) == [exchange |-> exchange, type |-> T, routed |-> TRUE, route |-> route]

Worker == WithConsumer(NewSetup(bills, <<"app">>), <<"worker">>)

\* A publisher; two versions of a consumer that retry after different times, one that
\* does not retry, and one with a time that is refused; a consumer of its own exchange
\* in the publisher's application; and names with a separator.
MCClients == {
    [setup |-> NewSetup(orders, <<"app">>), handlers |-> {}],
    [setup |-> WithRetry(Worker, 1, 1500), handlers |-> {All(orders, T), One(orders, <<".">>)}],
    [setup |-> WithRetry(Worker, 1, 2500), handlers |-> {All(orders, T)}],
    [setup |-> Worker, handlers |-> {All(orders, TU), One(orders, <<"#">>)}],
    [setup |-> WithRetry(Worker, 1, -1000), handlers |-> {}],
    [setup |-> WithRetry(WithConsumer(NewSetup(orders, <<"app">>), <<"audit">>), 2, 1),
     handlers |-> {One(orders, <<"%", "2", "E">>), One(orders, <<>>)}],
    [setup |-> NewSetup(orders, <<"c", ":", "app">>), handlers |-> {}]}

MCInit == Init /\ TopologyInit

MCNext ==
    \/ started = {} /\ Next /\ UNCHANGED topology
    \/ answer[1] = "none" /\ now = 0 /\ TopologyNext /\ UNCHANGED vars

MCSpec == MCInit /\ [][MCNext]_<<vars, topology>>
=============================================================================
