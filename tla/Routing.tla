------------------------------ MODULE Routing ------------------------------
(***************************************************************************)
(* Routing keys (rabbitmq/routing.go, msg.go): how a publish and a         *)
(* subscription name a type and a route, which bindings the broker's topic *)
(* exchange matches with a key, and which handler the consumer picks for   *)
(* it (handlerFor in consumer.go).  A string is the sequence of its        *)
(* characters, since what a route may contain is the point.                *)
(***************************************************************************)
EXTENDS Lists

CONSTANTS
    maxRoutingKeyBytes,
    NoRoute,    \* the route of a type that has none
    NoHandler

-----------------------------------------------------------------------------
(* Encoding                                                                *)

reservedRouteChars == {".", "*", "#", "%"}

allRoutesSuffix == <<".", "#">>

\* The hexadecimal digits of a reserved character.
upperhex == [c \in reservedRouteChars |->
    CASE c = "." -> <<"2", "E">> [] c = "*" -> <<"2", "A">>
      [] c = "#" -> <<"2", "3">> [] c = "%" -> <<"2", "5">>]

\* Mutant: the escape character itself is not escaped.
encodeRouteKeepsPercent(route) ==
    Flattened([i \in 1..Len(route) |->
        IF route[i] \in reservedRouteChars \ {"%"} THEN <<"%">> \o upperhex[route[i]]
                                                   ELSE <<route[i]>>])

encodeRoute(route) ==
    Flattened([i \in 1..Len(route) |->
        IF route[i] \in reservedRouteChars THEN <<"%">> \o upperhex[route[i]]
                                           ELSE <<route[i]>>])

routedKey(typeName, route) == typeName \o <<".">> \o encodeRoute(route)

checkRoutingKeyLength(key) == Len(key) <= maxRoutingKeyBytes

typeNameOf(key) ==
    LET dot == FirstAt(key, ".")
    IN  IF dot = 0 THEN key ELSE SubSeq(key, 1, dot - 1)

\* A published message is [type, routed, route].
IsRouted(msg) == msg.routed

\* The route, in a set; empty for a type without RouteBy.
RouteOf(msg) == {msg.route} \ {NoRoute}

publishRoutingKeys(msg) ==
    IF ~IsRouted(msg) THEN {msg.type} ELSE {routedKey(msg.type, r) : r \in RouteOf(msg)}

\* The key the message is sent with, in a set; empty when Publish refuses it.
getPublishMessage(msg) == {k \in publishRoutingKeys(msg) : checkRoutingKeyLength(k)}

\* The binding key of Subscribe.
Subscribe(type, routed) == IF routed THEN type \o allRoutesSuffix ELSE type

\* The binding key of SubscribeRoute, in a set; empty when it refuses the route.
SubscribeRoute(type, route) == {k \in {routedKey(type, route)} : checkRoutingKeyLength(k)}

-----------------------------------------------------------------------------
(* The broker's topic exchange                                             *)

Words(s) ==
    LET words[i \in 0..Len(s)] ==
            IF i = 0 THEN << <<>> >>
            ELSE IF s[i] = "." THEN Append(words[i - 1], <<>>)
            ELSE [words[i - 1] EXCEPT ![Len(words[i - 1])] = Append(@, s[i])]
    IN  words[Len(s)]

\* The words of the key can be cut into one run for each word of the binding: "*"
\* takes one word, "#" any number of them.
TopicMatches(binding, key) ==
    LET p == Words(binding)
        k == Words(key)
    IN  \E cut \in [0..Len(p) -> 0..Len(k)] :
            /\ cut[0] = 0 /\ cut[Len(p)] = Len(k)
            /\ \A n \in 1..Len(p) :
                  IF p[n] = <<"#">> THEN cut[n] >= cut[n - 1]
                  ELSE cut[n] = cut[n - 1] + 1 /\ p[n] \in {<<"*">>, k[cut[n]]}

-----------------------------------------------------------------------------
(* The consumer's lookup                                                   *)

\* Mutant: only the exact key is looked up.
handlerForExact(handlers, exchange, key) ==
    IF [exchange |-> exchange, key |-> key] \in handlers
      THEN [exchange |-> exchange, key |-> key] ELSE NoHandler

\* The exact key wins; a key with a route falls back to the handler of the type.
handlerFor(handlers, exchange, key) ==
    LET exact == [exchange |-> exchange, key |-> key]
        all == [exchange |-> exchange, key |-> typeNameOf(key) \o allRoutesSuffix]
    IN  IF exact \in handlers THEN exact
        ELSE IF typeNameOf(key) # key /\ all \in handlers THEN all
        ELSE NoHandler

=============================================================================
