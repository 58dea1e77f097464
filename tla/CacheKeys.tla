----------------------------- MODULE CacheKeys -----------------------------
(***************************************************************************)
(* The keys under which clients share a cache (common.go, lease.go,        *)
(* consumer.go) and the globs that list them (cache.go).  A string is a    *)
(* sequence of characters.                                                 *)
(***************************************************************************)
EXTENDS Lists

\* The prefixes, in one letter where they differ.
cachedMessagePrefix == <<"g", ":", "m">>
publishLeasePrefix == <<"g", ":", "p">>
handlerInfoCachePrefix == <<"g", ":", "h">>

Joined(a, b) == a \o <<":">> \o b

\* Mutant: the role is left out.
cacheScopeNoRole(s) ==
    Joined(s.appName, IF s.isConsumer THEN Joined(s.exchangeName, s.queueName)
                                      ELSE s.exchangeName)

\* Of a setup.
cacheScope(s) ==
    IF s.isConsumer
      THEN Joined(<<"c">>, Joined(s.appName, Joined(s.exchangeName, s.queueName)))
      ELSE Joined(<<"p">>, Joined(s.appName, s.exchangeName))

cacheKey(scope, msgID) == Joined(cachedMessagePrefix, Joined(scope, msgID))

leaseKey(scope, msgID) == Joined(publishLeasePrefix, Joined(scope, msgID))

handlerInfoCacheKey(scope, exchange, bindingKey) ==
    Joined(handlerInfoCachePrefix, Joined(scope, Joined(exchange, bindingKey)))

\* Mutant: the id is taken after a fixed number of separators.
msgIDFromCacheKeyByCount(key) ==
    LET colons == {i \in DOMAIN key : key[i] = ":"}
        fifth == CHOOSE i \in colons : Cardinality({j \in colons : j <= i}) = 5
    IN  IF Cardinality(colons) < 5 THEN key ELSE SubSeq(key, fifth + 1, Len(key))

msgIDFromCacheKey(key) == SubSeq(key, LastAt(key, ":") + 1, Len(key))

\* What cachedMessageKeys and unbindUnusedBindings list.
messageGlob(scope) == cacheKey(scope, <<>>) \o <<"*">>
handlerInfoGlob(scope) == Joined(handlerInfoCachePrefix, Joined(scope, <<"*">>))

-----------------------------------------------------------------------------

\* Mutant: the last star is not tried again.
globMatchNoBacktrack(pattern, s) ==
    LET run[p \in 0..Len(pattern), i \in 0..Len(s)] ==
            IF i = Len(s) THEN \A q \in p+1 .. Len(pattern) : pattern[q] = "*"
            ELSE /\ p < Len(pattern)
                 /\ \/ pattern[p + 1] \in {s[i + 1], "?"} /\ run[p + 1, i + 1]
                    \/ pattern[p + 1] = "*" /\ run[p + 1, i]
    IN  run[0, 0]

\* Where the loop of globMatch is.  Since the last star (or the beginning, when star = 0)
\* n characters of pattern and text were taken together, so that the code's p and i are
\* star + n and from + n, and its starP and starI are star - 1 and from.
At(star, from, n) == [star |-> star, from |-> from, n |-> n]

globMatch(pattern, s) ==
    LET run[at \in [star : 0..Len(pattern), from : 0..Len(s), n : 0..Len(s)]] ==
            LET p == at.star + at.n
                i == at.from + at.n
            IN  IF i >= Len(s)
                  THEN \A q \in p+1 .. Len(pattern) : pattern[q] = "*"
                ELSE IF p < Len(pattern) /\ pattern[p + 1] \in {s[i + 1], "?"}
                  THEN run[At(at.star, at.from, at.n + 1)]
                ELSE IF p < Len(pattern) /\ pattern[p + 1] = "*"
                  THEN run[At(p + 1, i, 0)]
                ELSE at.star > 0 /\ run[At(at.star, at.from + 1, 0)]
    IN  run[At(0, 0, 0)]

\* The reference: a pattern covers a text when the text can be cut into one piece for each
\* character of the pattern.
Covers(pattern, s) ==
    \E cut \in [0..Len(pattern) -> 0..Len(s)] :
        /\ cut[0] = 0 /\ cut[Len(pattern)] = Len(s)
        /\ \A n \in 1..Len(pattern) :
              IF pattern[n] = "*" THEN cut[n] >= cut[n - 1]
              ELSE cut[n] = cut[n - 1] + 1 /\ pattern[n] \in {s[cut[n]], "?"}
=============================================================================
